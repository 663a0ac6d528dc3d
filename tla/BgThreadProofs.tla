---------------------------- MODULE BgThreadProofs ----------------------------
(***************************************************************************)
(* Theorems about the background thread of BgThread.tla: it runs on live   *)
(* resources only, is never asleep beside a posted packet, and has handled *)
(* every command when it ends on Terminate; for a ring of any size, any    *)
(* number of starts and packets, and with failing sem_wait and sem_post.   *)
(***************************************************************************)
EXTENDS BgThread, TLAPS

\* The theorems about the ring, for the ring the two threads share.
Ring == INSTANCE RingBufProofs WITH
  Producers <- {main}, Consumers <- {bg}, MaxPackets <- MaxCommands + 1 + MaxPostFails

(***************************************************************************)
(* The inductive invariant                                                 *)
(***************************************************************************)
Session == mainAt \in {"run", "push", "post", "join"}

Unclaimed == {"load", "check", "claim"}
Claimed == {"copy", "flag", "advLoad", "advTest", "advMove"}

\* Packets in the ring the semaphore has not been told of, and pops that have returned.
Unposted == IF mainAt = "post" \/ pc[main] \in Claimed THEN 1 ELSE 0
Popped == IF pc[bg] \in Claimed THEN nTaken - 1 ELSE nTaken

Kinds ==
  /\ mainAt \in {"off", "failed", "run", "push", "post", "join"}
  /\ bgAt \in {"none", "initDB", "wait", "pop", "exited"}
  /\ output \in {<<>>, <<"CouldNotOpenDB">>, <<"NeedEqPath">>}
  /\ {stopping, db, eqPath, waitFailed} \subseteq BOOLEAN
  /\ alive \subseteq Resources
  /\ semaphore \in Nat /\ lastCommand \in Nat /\ handled \in Nat /\ postFails \in Nat

\* A thread outside its loop of ringbuf calls is in none; bg_thread_stop ends
\* the session only after the thread has ended.
Places ==
  /\ mainAt # "push" => pc[main] = "load"
  /\ bgAt # "pop" => pc[bg] = "load"
  /\ ~Session => bgAt = "none" /\ ~stopping
  /\ Session => bgAt # "none" /\ alive = Resources
  /\ mainAt = "run" => ~stopping
  /\ mainAt = "join" => stopping
  /\ bgAt = "initDB" => output = <<>>

\* Every command is posted at most once; Terminate successfully at most once.
Counts ==
  /\ semaphore <= MaxCommands + 1
  /\ lastCommand <= MaxCommands /\ handled <= MaxCommands
  /\ Session /\ ~stopping => nSent <= MaxCommands /\ semaphore <= nSent - Unposted
  /\ mainAt = "push" /\ ~stopping /\ pc[main] \notin Claimed => nSent < MaxCommands
  /\ stopping => semaphore <= lastCommand + (IF mainAt = "join" THEN 1 ELSE 0)

\* What has been popped has been handled, unless it was Terminate.
Handles ==
  /\ pc[bg] \in Claimed => ticket[bg] = nTaken
  /\ Running => handled = Popped
  /\ Running /\ stopping => handled <= lastCommand
  /\ bgAt = "exited" /\ ~waitFailed => stopping /\ handled = lastCommand

\* A thread that has found the ring empty sleeps only until the packet that is
\* being pushed is posted.
Wakes ==
  bgAt \in {"initDB", "wait"} /\ semaphore = 0 /\ postFails = 0 /\ nTaken # nSent => Unposted = 1

BgInv == Ring!IInv /\ Kinds /\ Places /\ Counts /\ Handles /\ Wakes

(***************************************************************************)
(* The ring of this module is the ring of the theorems                     *)
(***************************************************************************)
LEMMA RingSizes == Ring!RingAssumption
BY BgAssumption DEF BgAssumption, Ring!RingAssumption

LEMMA InputSteps ==
  /\ Input!Init <=> Ring!Init
  /\ Input!TypeOK <=> Ring!TypeOK
  /\ Input!Push(main) <=> Ring!Push(main)
  /\ Input!Pop(bg) <=> Ring!Pop(bg)
BY DEF Input!Init, Ring!Init, Input!TypeOK, Ring!TypeOK,
   Input!Push, Ring!Push, Input!PushLoad, Ring!PushLoad, Input!PushCheck, Ring!PushCheck,
   Input!PushClaim, Ring!PushClaim, Input!ClaimFails, Ring!ClaimFails,
   Input!PushFinish, Ring!PushFinish, Input!PushCopy, Ring!PushCopy, Input!PushFlag, Ring!PushFlag,
   Input!PushAdvLoad, Ring!PushAdvLoad, Input!PushAdvTest, Ring!PushAdvTest,
   Input!PushAdvMove, Ring!PushAdvMove,
   Input!Pop, Ring!Pop, Input!PopLoad, Ring!PopLoad, Input!PopCheck, Ring!PopCheck,
   Input!PopClaim, Ring!PopClaim, Input!PopFinish, Ring!PopFinish, Input!PopCopy, Ring!PopCopy,
   Input!PopFlag, Ring!PopFlag, Input!PopAdvLoad, Ring!PopAdvLoad, Input!PopAdvTest, Ring!PopAdvTest,
   Input!PopAdvMove, Ring!PopAdvMove,
   Input!Goto, Ring!Goto, Input!SetIndex, Ring!SetIndex, Input!cursors, Ring!cursors,
   Input!flags, Ring!flags, Input!claims, Ring!claims, Input!nextIndex, Ring!nextIndex,
   Input!Blocks, Ring!Blocks, Input!Threads, Ring!Threads, Input!Places, Ring!Places

LEMMA RingInit == Ring!Init => Ring!IInv
BY RingSizes, Ring!InitInv

LEMMA RingInitNext == Ring!Init' => Ring!IInv'
BY RingInit, PTL

LEMMA FreshRingInv == FreshRing => Ring!IInv'
BY RingInitNext DEF FreshRing, Ring!Init, Ring!Blocks, Ring!Threads

LEMMA RingKeeps == ASSUME Ring!IInv, UNCHANGED ring PROVE Ring!IInv'
<1>1. UNCHANGED Ring!vars
  BY DEF ring, Ring!vars, Ring!cursors, Ring!flags, Ring!claims
<1> QED
  BY <1>1, RingSizes, Ring!NextInv

\* What the invariant of the ring says of the two threads.
LEMMA RingFacts ==
  ASSUME Ring!IInv
  PROVE  /\ pc[main] \in Unclaimed \cup Claimed
         /\ pc[bg] \in Unclaimed \cup Claimed
         /\ nSent \in Nat /\ nTaken \in Nat /\ nTaken <= nSent
         /\ nTaken = nSent <=> readEnd = writeEnd
         /\ pc[main] \in Unclaimed => writeStart = writeEnd
         /\ pc[bg] = "advTest" => got[bg] = ticket[bg]
<1> USE RingSizes DEF Ring!RingAssumption
<1>1. Ring!TypeOK /\ Ring!PushInv(main) /\ Ring!CursorsOrdered /\ Ring!Delivered
  BY DEF Ring!IInv
<1>2. main \in Ring!Threads /\ bg \in Ring!Threads
  BY DEF Ring!Threads
<1>3. pc[main] \in Ring!Places /\ pc[bg] \in Ring!Places
  BY <1>1, <1>2 DEF Ring!TypeOK
<1>4. nSent \in Nat /\ nTaken \in Nat /\ readEnd \in Ring!Blocks /\ writeEnd \in Ring!Blocks
  BY <1>1 DEF Ring!TypeOK
<1>5. Ring!Distance(readEnd, writeEnd) \in 0 .. N - 1
      /\ (Ring!Distance(readEnd, writeEnd) = 0 <=> readEnd = writeEnd)
  BY <1>4, Ring!DistanceType
<1>6. nSent = nTaken + Ring!Distance(readEnd, writeEnd)
  BY <1>1 DEF Ring!CursorsOrdered
<1>7. nTaken <= nSent /\ (nTaken = nSent <=> readEnd = writeEnd)
  <2> DEFINE d == Ring!Distance(readEnd, writeEnd)
  <2>1. d \in Nat /\ nSent = nTaken + d /\ (d = 0 <=> readEnd = writeEnd)
    BY <1>5, <1>6, BgAssumption DEF BgAssumption
  <2> HIDE DEF d
  <2> QED
    BY <2>1, <1>4
<1>8. pc[main] \in Unclaimed => writeStart = writeEnd
  BY <1>1 DEF Ring!PushInv, Ring!WriteSettled, Unclaimed
<1>9. pc[bg] = "advTest" => got[bg] = ticket[bg]
  BY <1>1 DEF Ring!Delivered
<1> QED
  BY <1>3, <1>4, <1>7, <1>8, <1>9 DEF Ring!Places, Unclaimed, Claimed

LEMMA TakenAreSent == Ring!IInv => nTaken <= nSent
BY RingFacts

LEMMA TakenAreSentNext == Ring!IInv' => (nTaken <= nSent)'
BY TakenAreSent, PTL

\* One access of a push, as its caller sees it.
LEMMA PushMoves ==
  ASSUME Ring!IInv, Ring!Push(main)
  PROVE  /\ Ring!IInv'
         /\ UNCHANGED <<nTaken, got, pc[bg], ticket[bg]>>
         /\ \/ pc[main] \in Unclaimed /\ pc'[main] \in Unclaimed /\ nSent' = nSent
            \/ pc[main] = "claim" /\ pc'[main] = "copy" /\ nSent' = nSent + 1
            \/ pc[main] \in Claimed /\ pc'[main] \in Claimed /\ nSent' = nSent
            \/ pc[main] = "advTest" /\ pc'[main] = "load" /\ nSent' = nSent
<1>1. Ring!IInv'
  BY RingSizes, Ring!PushStep
<1>2. main # bg /\ {main, bg} = DOMAIN pc /\ {main, bg} = DOMAIN ticket
  BY BgAssumption DEF BgAssumption, Ring!IInv, Ring!TypeOK, Ring!Threads
<1>3. UNCHANGED <<nTaken, got, pc[bg], ticket[bg]>>
  BY <1>2 DEF Ring!Push, Ring!PushLoad, Ring!PushCheck, Ring!PushClaim, Ring!ClaimFails, Ring!PushFinish,
     Ring!PushCopy, Ring!PushFlag, Ring!PushAdvLoad, Ring!PushAdvTest, Ring!PushAdvMove,
     Ring!Goto, Ring!claims
<1>4. CASE Ring!PushLoad(main) \/ Ring!PushCheck(main) \/ Ring!ClaimFails(main)
  BY <1>1, <1>2, <1>3, <1>4 DEF Ring!PushLoad, Ring!PushCheck, Ring!ClaimFails, Ring!Goto, Ring!claims, Unclaimed
<1>5. CASE Ring!PushClaim(main)
  BY <1>1, <1>2, <1>3, <1>5 DEF Ring!PushClaim, Ring!Goto
<1>6. CASE Ring!PushFinish(main)
  BY <1>1, <1>2, <1>3, <1>6 DEF Ring!PushFinish, Ring!PushCopy, Ring!PushFlag, Ring!PushAdvLoad,
     Ring!PushAdvTest, Ring!PushAdvMove, Ring!Goto, Ring!claims, Claimed
<1> QED
  BY <1>4, <1>5, <1>6 DEF Ring!Push

\* One access of a pop.  A pop that finds the ring empty has read writeStart.
LEMMA PopMoves ==
  ASSUME Ring!IInv, Ring!Pop(bg)
  PROVE  /\ Ring!IInv'
         /\ UNCHANGED <<nSent, pc[main]>>
         /\ \/ /\ pc[bg] \in Unclaimed /\ pc'[bg] \in Unclaimed /\ nTaken' = nTaken
               /\ pc[bg] = "check" /\ pc'[bg] = "load" => readEnd = writeStart
            \/ /\ pc[bg] = "claim" /\ pc'[bg] = "copy"
               /\ nTaken' = nTaken + 1 /\ ticket'[bg] = nTaken'
            \/ pc[bg] \in Claimed /\ pc'[bg] \in Claimed /\ UNCHANGED <<nTaken, ticket>>
            \/ pc[bg] = "advTest" /\ pc'[bg] = "load" /\ UNCHANGED <<nTaken, ticket>>
<1>1. Ring!IInv'
  BY RingSizes, Ring!PopStep
<1>2. main # bg /\ {main, bg} = DOMAIN pc /\ {main, bg} = DOMAIN ticket
  BY BgAssumption DEF BgAssumption, Ring!IInv, Ring!TypeOK, Ring!Threads
<1>3. UNCHANGED <<nSent, pc[main]>>
  BY <1>2 DEF Ring!Pop, Ring!PopLoad, Ring!PopCheck, Ring!PopClaim, Ring!ClaimFails, Ring!PopFinish,
     Ring!PopCopy, Ring!PopFlag, Ring!PopAdvLoad, Ring!PopAdvTest, Ring!PopAdvMove,
     Ring!Goto, Ring!claims
<1>4. CASE Ring!PopLoad(bg) \/ Ring!ClaimFails(bg)
  BY <1>1, <1>2, <1>3, <1>4 DEF Ring!PopLoad, Ring!ClaimFails, Ring!Goto, Ring!claims, Unclaimed
<1>5. CASE Ring!PopCheck(bg)
  <2>1. pc[bg] = "check" => index[bg] = readEnd
    BY DEF Ring!IInv, Ring!PopInv
  <2> QED
    BY <1>1, <1>2, <1>3, <1>5, <2>1 DEF Ring!PopCheck, Ring!Goto, Ring!claims, Unclaimed
<1>6. CASE Ring!PopClaim(bg)
  BY <1>1, <1>2, <1>3, <1>6 DEF Ring!PopClaim, Ring!Goto
<1>7. CASE Ring!PopFinish(bg)
  BY <1>1, <1>2, <1>3, <1>7 DEF Ring!PopFinish, Ring!PopCopy, Ring!PopFlag, Ring!PopAdvLoad,
     Ring!PopAdvTest, Ring!PopAdvMove, Ring!Goto, Ring!claims, Claimed
<1> QED
  BY <1>4, <1>5, <1>6, <1>7 DEF Ring!Pop

(***************************************************************************)
(* The starting thread keeps the invariant                                 *)
(***************************************************************************)
LEMMA InitBgInv == Init => BgInv
<1> SUFFICES ASSUME Init
             PROVE  BgInv
  OBVIOUS
<1>1. Ring!Init /\ Ring!IInv
  BY InputSteps, RingInit DEF Init
<1>2. nSent = 0 /\ nTaken = 0 /\ pc[main] = "load" /\ pc[bg] = "load"
  BY <1>1 DEF Ring!Init, Ring!Threads
<1>3. Kinds
  BY DEF Init, Kinds
<1>4. Places
  BY <1>2 DEF Init, Places, Session
<1>5. Counts
  BY <1>2, BgAssumption DEF BgAssumption, Init, Counts, Session
<1>6. Handles /\ Wakes
  BY <1>2 DEF Init, Handles, Wakes, Running, Claimed
<1> QED
  BY <1>1, <1>3, <1>4, <1>5, <1>6 DEF BgInv

LEMMA StartKeeps == ASSUME BgInv, Start PROVE BgInv'
<1>1. Ring!IInv'
  BY FreshRingInv DEF Start
<1>2. nSent' = 0 /\ nTaken' = 0 /\ pc'[main] = "load" /\ pc'[bg] = "load"
  BY DEF Start, FreshRing
<1>3. Kinds'
  BY DEF Start, BgInv, Kinds
<1>4. Places'
  BY <1>2 DEF Start, Places, Session
<1>5. Counts'
  <2>1. MaxCommands \in Nat /\ 0 < MaxCommands + 1
    BY BgAssumption DEF BgAssumption
  <2>2. Unposted' = 0
    BY <1>2 DEF Start, Unposted, Claimed
  <2> QED
    BY <1>2, <2>1, <2>2 DEF Start, Counts
<1>6. Handles' /\ Wakes'
  BY <1>2 DEF Start, Handles, Wakes, Running, Popped, Claimed
<1> QED
  BY <1>1, <1>3, <1>4, <1>5, <1>6 DEF BgInv

LEMMA StartFailsKeeps == ASSUME BgInv, StartFails PROVE BgInv'
<1>1. Ring!IInv' /\ UNCHANGED ring
  BY RingKeeps DEF StartFails, BgInv
<1> QED
  BY <1>1 DEF StartFails, ring, bgData, BgInv, Kinds, Places, Counts, Handles, Wakes,
     Session, Running, Unposted, Popped

LEMMA SendKeeps == ASSUME BgInv, Send PROVE BgInv'
<1>1. Ring!IInv' /\ UNCHANGED ring
  BY RingKeeps DEF Send, BgInv
<1> QED
  BY <1>1 DEF Send, ring, bgData, faults, BgInv, Kinds, Places, Counts, Handles, Wakes,
     Session, Running, Unposted, Popped, Claimed

\* Terminate is announced: everything handled so far was sent before.
LEMMA StopKeeps == ASSUME BgInv, Stop PROVE BgInv'
<1>1. Ring!IInv' /\ UNCHANGED ring
  BY RingKeeps DEF Stop, BgInv
<1>2. nSent \in Nat /\ nTaken \in Nat /\ nTaken <= nSent
  BY RingFacts DEF BgInv
<1>3. mainAt = "run" /\ ~stopping /\ pc[main] = "load" /\ Unposted = 0 /\ Unposted' = 0 /\ Popped' = Popped
  BY <1>1 DEF Stop, BgInv, Places, Unposted, Claimed, ring, Popped
<1>4. Popped <= nSent
  BY <1>2 DEF Popped
<1>5. Kinds' /\ Places' /\ Counts' /\ Wakes'
  BY <1>1, <1>2, <1>3 DEF Stop, ring, bgData, faults, BgInv, Kinds, Places, Counts, Wakes, Session
<1>6. Handles'
  BY <1>1, <1>3, <1>4 DEF Stop, ring, faults, BgInv, Handles, Running
<1> QED
  BY <1>1, <1>5, <1>6 DEF BgInv

LEMMA PostKeeps == ASSUME BgInv, Post PROVE BgInv'
<1>1. Ring!IInv' /\ UNCHANGED ring
  BY RingKeeps DEF Post, BgInv
<1>2. nSent \in Nat /\ nTaken \in Nat
  BY RingFacts DEF BgInv
<1>3. mainAt = "post" /\ pc[main] = "load" /\ Unposted = 1 /\ Unposted' = 0 /\ Popped' = Popped
  BY <1>1 DEF Post, BgInv, Places, Unposted, Claimed, ring, Popped
<1>4. Kinds' /\ Places' /\ Handles' /\ Wakes'
  BY <1>1, <1>3 DEF Post, ring, bgData, faults, BgInv, Kinds, Places, Handles, Wakes, Session, Running
<1>5. Counts'
  BY <1>1, <1>2, <1>3, BgAssumption
     DEF BgAssumption, Post, ring, BgInv, Kinds, Counts, Session
<1> QED
  BY <1>1, <1>4, <1>5 DEF BgInv

LEMMA PostFailsKeeps == ASSUME BgInv, PostFails PROVE BgInv'
<1>1. Ring!IInv' /\ UNCHANGED ring
  BY RingKeeps DEF PostFails, BgInv
<1>2. nSent \in Nat /\ nTaken \in Nat
  BY RingFacts DEF BgInv
<1>3. mainAt = "post" /\ pc[main] = "load" /\ Unposted = 1 /\ Unposted' = 0 /\ Popped' = Popped
  BY <1>1 DEF PostFails, BgInv, Places, Unposted, Claimed, ring, Popped
<1>4. Kinds' /\ Places' /\ Handles' /\ Wakes'
  BY <1>1, <1>3 DEF PostFails, ring, bgData, BgInv, Kinds, Places, Handles, Wakes, Session, Running
<1>5. Counts'
  BY <1>1, <1>2, <1>3, BgAssumption
     DEF BgAssumption, PostFails, ring, BgInv, Kinds, Counts, Session
<1> QED
  BY <1>1, <1>4, <1>5 DEF BgInv

LEMMA RecvKeeps == ASSUME BgInv, Recv PROVE BgInv'
<1>1. Ring!IInv' /\ UNCHANGED ring
  BY RingKeeps DEF Recv, BgInv
<1>2. output' = <<>>
  BY DEF Recv, BgInv, Kinds
<1> QED
  BY <1>1, <1>2 DEF Recv, ring, control, faults, BgInv, Kinds, Places, Counts, Handles, Wakes,
     Session, Running, Unposted, Popped

LEMMA JoinKeeps == ASSUME BgInv, Join PROVE BgInv'
<1>1. Ring!IInv' /\ UNCHANGED ring
  BY RingKeeps DEF Join, Teardown, BgInv
<1> QED
  BY <1>1 DEF Join, Teardown, ring, faults, BgInv, Kinds, Places, Counts, Handles, Wakes,
     Session, Running, Unposted, Popped

\* A push in progress: a packet counts as unposted from its claim on, and the
\* call returns either with nothing claimed (the ring is full) or to "post".
LEMMA MainPushKeeps == ASSUME BgInv, MainPush PROVE BgInv'
<1>1. /\ Ring!IInv'
      /\ UNCHANGED <<nTaken, pc[bg], ticket[bg]>>
      /\ \/ pc[main] \in Unclaimed /\ pc'[main] \in Unclaimed /\ nSent' = nSent
         \/ pc[main] = "claim" /\ pc'[main] = "copy" /\ nSent' = nSent + 1
         \/ pc[main] \in Claimed /\ pc'[main] \in Claimed /\ nSent' = nSent
         \/ pc[main] = "advTest" /\ pc'[main] = "load" /\ nSent' = nSent
  BY InputSteps, PushMoves DEF MainPush, BgInv
<1>2. nSent \in Nat /\ nTaken \in Nat
  BY RingFacts DEF BgInv
<1>3. /\ mainAt = "push"
      /\ UNCHANGED <<stopping, bgAt, semaphore, output, db, eqPath, alive, lastCommand, handled,
                     starts, postFails, waitFailed>>
  BY DEF MainPush, bgData, faults
<1>4. /\ mainAt' \in {"run", "push", "post"}
      /\ mainAt' # "push" => pc'[main] = "load"
      /\ mainAt' = "run" => ~stopping
      /\ mainAt' = "post" <=> pc[main] = "advTest" /\ pc'[main] = "load"
  BY <1>3 DEF MainPush, ReturnsFrom
<1>5. Kinds' /\ Places'
  BY <1>1, <1>3, <1>4 DEF BgInv, Kinds, Places, Session
<1>6. Handles'
  <2>1. Popped' = Popped
    BY <1>1 DEF Popped
  <2> QED
    BY <1>1, <1>3, <2>1 DEF BgInv, Handles, Running
<1>7. Unposted' - Unposted = nSent' - nSent /\ Unposted \in {0, 1} /\ Unposted' \in {0, 1}
  BY <1>1, <1>2, <1>3, <1>4 DEF Unposted, Claimed, Unclaimed
<1>8. Counts'
  <2>1. semaphore \in Nat /\ MaxCommands \in Nat
    BY BgAssumption DEF BgAssumption, BgInv, Kinds
  <2>2. ~stopping => nSent' <= MaxCommands /\ semaphore <= nSent' - Unposted'
    BY <1>1, <1>2, <1>3, <1>7, <2>1 DEF BgInv, Counts, Session, Claimed
  <2>3. ~stopping /\ mainAt' = "push" /\ pc'[main] \notin Claimed => nSent' < MaxCommands
    BY <1>1, <1>3, <1>4 DEF BgInv, Counts, Unclaimed, Claimed
  <2>4. mainAt' # "join" /\ mainAt # "join"
    BY <1>3, <1>4
  <2> QED
    BY <1>3, <2>2, <2>3, <2>4 DEF BgInv, Counts
<1>9. Wakes'
  BY <1>1, <1>2, <1>3, <1>7 DEF BgInv, Wakes
<1> QED
  BY <1>1, <1>5, <1>6, <1>8, <1>9 DEF BgInv

(***************************************************************************)
(* The background thread keeps the invariant                               *)
(***************************************************************************)
LEMMA InitDBKeeps == ASSUME BgInv, InitDB PROVE BgInv'
<1>1. Ring!IInv' /\ UNCHANGED ring
  BY RingKeeps DEF InitDB, BgInv
<1>2. output = <<>>
  BY DEF InitDB, BgInv, Places
<1>3. output' \in {<<>>, <<"CouldNotOpenDB">>, <<"NeedEqPath">>}
  BY <1>2 DEF InitDB
<1>4. {stopping', db', eqPath', waitFailed'} \subseteq BOOLEAN
  BY DEF InitDB, BgInv, Kinds, faults
<1> QED
  BY <1>1, <1>3, <1>4 DEF InitDB, ring, faults, BgInv, Kinds, Places, Counts, Handles, Wakes,
     Session, Running, Unposted, Popped

LEMMA SemWaitKeeps == ASSUME BgInv, SemWait PROVE BgInv'
<1>1. Ring!IInv' /\ UNCHANGED ring
  BY RingKeeps DEF SemWait, BgInv
<1>2. Unposted' = Unposted /\ Popped' = Popped /\ Unposted \in {0, 1} /\ nSent \in Nat
  BY <1>1, RingFacts DEF SemWait, ring, Unposted, Popped, BgInv
<1>3. Kinds' /\ Places' /\ Handles' /\ Wakes'
  BY <1>1, <1>2 DEF SemWait, ring, bgData, faults, BgInv, Kinds, Places, Handles, Wakes, Session, Running
<1>4. Counts'
  BY <1>1, <1>2, BgAssumption DEF BgAssumption, SemWait, ring, BgInv, Kinds, Counts, Session
<1> QED
  BY <1>1, <1>3, <1>4 DEF BgInv

LEMMA SemWaitFailsKeeps == ASSUME BgInv, SemWaitFails PROVE BgInv'
<1>1. Ring!IInv' /\ UNCHANGED ring
  BY RingKeeps DEF SemWaitFails, BgInv
<1> QED
  BY <1>1 DEF SemWaitFails, ring, bgData, BgInv, Kinds, Places, Counts, Handles, Wakes,
     Session, Running, Unposted, Popped

\* A pop in progress.  It goes back to sleep only on a ring whose packets, if
\* any, are still being pushed; it hands over the packet of its own claim, so
\* that the one after the last command is Terminate.
LEMMA BgPopKeeps == ASSUME BgInv, BgPop PROVE BgInv'
<1>1. /\ Ring!IInv'
      /\ UNCHANGED <<nSent, pc[main]>>
      /\ \/ /\ pc[bg] \in Unclaimed /\ pc'[bg] \in Unclaimed /\ nTaken' = nTaken
            /\ pc[bg] = "check" /\ pc'[bg] = "load" => readEnd = writeStart
         \/ /\ pc[bg] = "claim" /\ pc'[bg] = "copy"
            /\ nTaken' = nTaken + 1 /\ ticket'[bg] = nTaken'
         \/ pc[bg] \in Claimed /\ pc'[bg] \in Claimed /\ UNCHANGED <<nTaken, ticket>>
         \/ pc[bg] = "advTest" /\ pc'[bg] = "load" /\ UNCHANGED <<nTaken, ticket>>
  BY InputSteps, PopMoves DEF BgPop, BgInv
<1>2. /\ nSent \in Nat /\ nTaken \in Nat /\ nTaken <= nSent
      /\ nTaken = nSent <=> readEnd = writeEnd
      /\ pc[main] \in Unclaimed \cup Claimed
      /\ pc[main] \in Unclaimed => writeStart = writeEnd
      /\ pc[bg] = "advTest" => got[bg] = ticket[bg]
  BY RingFacts DEF BgInv
<1>3. nTaken' <= nSent
  BY <1>1, TakenAreSentNext
<1>4. /\ bgAt = "pop"
      /\ UNCHANGED <<mainAt, stopping, semaphore, output, db, eqPath, alive, lastCommand,
                     starts, postFails, waitFailed>>
  BY DEF BgPop, bgData, faults
<1>5. /\ bgAt' \in {"wait", "pop", "exited"}
      /\ bgAt' # "pop" => pc'[bg] = "load"
      /\ bgAt' = "wait" => pc[bg] = "check"
      /\ bgAt' = "exited" => pc[bg] = "advTest" /\ pc'[bg] = "load" /\ IsTerminate(got[bg])
  BY DEF BgPop, ReturnsFrom
<1>6. Unposted' = Unposted
  BY <1>1, <1>4 DEF Unposted
<1>7. Kinds' /\ Places'
  <2>1. handled' \in Nat
    BY DEF BgPop, BgInv, Kinds
  <2>2. alive \subseteq Resources /\ Session
    BY <1>4 DEF BgInv, Kinds, Places
  <2> QED
    BY <1>1, <1>4, <1>5, <2>1, <2>2 DEF BgInv, Kinds, Places, Session
<1>8. Wakes'
  <2> SUFFICES ASSUME bgAt' = "wait", nTaken' # nSent'
               PROVE  Unposted' = 1
    BY <1>5 DEF Wakes
  <2>1. readEnd = writeStart /\ nTaken' = nTaken
    BY <1>1, <1>5 DEF Unclaimed, Claimed
  <2>2. pc[main] \in Claimed
    BY <1>1, <1>2, <2>1
  <2> QED
    BY <1>6, <2>2 DEF Unposted
<1>9. handled = Popped /\ Session /\ (stopping => handled <= lastCommand)
  BY <1>4 DEF BgInv, Handles, Places, Running
<1>10. CASE ~(pc[bg] = "advTest" /\ pc'[bg] = "load")
  <2>1. handled' = handled /\ bgAt' # "exited"
    BY <1>5, <1>10 DEF BgPop, ReturnsFrom
  <2>2. Popped' = Popped
    BY <1>1, <1>2, <1>10 DEF Popped, Unclaimed, Claimed
  <2>3. pc'[bg] \in Claimed => ticket'[bg] = nTaken'
    BY <1>1, <1>10 DEF BgInv, Handles, Unclaimed, Claimed
  <2>4. Handles'
    BY <1>4, <1>9, <2>1, <2>2, <2>3 DEF Handles, Running
  <2>5. Counts'
    BY <1>1, <1>4, <1>6, <2>1 DEF BgInv, Counts, Session
  <2> QED
    BY <1>1, <1>7, <1>8, <2>4, <2>5 DEF BgInv
<1>11. CASE pc[bg] = "advTest" /\ pc'[bg] = "load"
  <2>1. /\ got[bg] = nTaken /\ nTaken' = nTaken
        /\ handled = nTaken - 1 /\ Popped' = nTaken
    BY <1>1, <1>2, <1>9, <1>11 DEF BgInv, Handles, Popped, Unclaimed, Claimed
  <2>2. lastCommand \in Nat /\ MaxCommands \in Nat /\ lastCommand <= MaxCommands
    BY BgAssumption DEF BgAssumption, BgInv, Kinds, Counts
  <2>3. CASE IsTerminate(got[bg])
    <3>1. handled' = handled /\ bgAt' = "exited" /\ stopping
      BY <2>3, <1>11 DEF BgPop, ReturnsFrom, IsTerminate
    <3>2. handled = lastCommand
      BY <1>2, <1>9, <2>1, <2>2, <2>3 DEF IsTerminate
    <3>3. Handles'
      BY <1>4, <1>11, <3>1, <3>2 DEF Handles, Running, Claimed
    <3>4. Counts'
      BY <1>1, <1>4, <1>6, <3>1 DEF BgInv, Counts, Session
    <3> QED
      BY <1>1, <1>7, <1>8, <3>3, <3>4 DEF BgInv
  <2>4. CASE ~IsTerminate(got[bg])
    <3>1. handled' = nTaken /\ bgAt' = "pop"
      BY <1>2, <2>1, <2>4, <1>11 DEF BgPop, ReturnsFrom
    <3>2. stopping => nTaken <= lastCommand
      BY <1>2, <2>1, <2>2, <2>4 DEF IsTerminate
    <3>3. handled' <= MaxCommands
      <4>1. CASE stopping
        BY <4>1, <3>1, <3>2, <2>2, <1>2
      <4>2. CASE ~stopping
        BY <4>2, <3>1, <2>2, <1>2, <1>9 DEF BgInv, Counts
      <4> QED
        BY <4>1, <4>2
    <3>4. Handles'
      BY <1>4, <1>11, <2>1, <3>1, <3>2 DEF Handles, Running, Claimed
    <3>5. Counts'
      BY <1>1, <1>4, <1>6, <3>3 DEF BgInv, Counts, Session
    <3> QED
      BY <1>1, <1>7, <1>8, <3>4, <3>5 DEF BgInv
  <2> QED
    BY <2>3, <2>4
<1> QED
  BY <1>10, <1>11

LEMMA StutterKeeps == ASSUME BgInv, UNCHANGED vars PROVE BgInv'
<1>1. Ring!IInv' /\ UNCHANGED ring
  BY RingKeeps DEF vars, BgInv
<1> QED
  BY <1>1 DEF vars, ring, control, bgData, faults, BgInv, Kinds, Places, Counts, Handles, Wakes,
     Session, Running, Unposted, Popped

(***************************************************************************)
(* The theorems                                                            *)
(***************************************************************************)
\* The inductive invariant holds in every run, fair or not.
THEOREM BgInvariant == Spec => []BgInv
<1>1. Init => BgInv
  BY InitBgInv
<1>2. BgInv /\ [Next]_vars => BgInv'
  <2> SUFFICES ASSUME BgInv, [Next]_vars
               PROVE  BgInv'
    OBVIOUS
  <2>1. CASE Main
    BY <2>1, StartKeeps, StartFailsKeeps, SendKeeps, StopKeeps, MainPushKeeps, PostKeeps,
       PostFailsKeeps, RecvKeeps, JoinKeeps DEF Main
  <2>2. CASE Bg
    BY <2>2, InitDBKeeps, SemWaitKeeps, SemWaitFailsKeeps, BgPopKeeps DEF Bg
  <2>3. CASE UNCHANGED vars
    BY <2>3, StutterKeeps
  <2> QED
    BY <2>1, <2>2, <2>3 DEF Next
<1> QED
  BY <1>1, <1>2, PTL DEF Spec

\* Type correctness, for a ring of any size: the semaphore counts at most one
\* post per command and one for Terminate, and the background thread has at
\* most one thing to say per start.
THEOREM BgTypeCorrect == Spec => []TypeOK
<1>1. BgInv => TypeOK
  <2> SUFFICES ASSUME BgInv
               PROVE  TypeOK
    OBVIOUS
  <2>1. Input!TypeOK
    BY InputSteps DEF BgInv, Ring!IInv
  <2>2. MaxCommands \in Nat
    BY BgAssumption DEF BgAssumption
  <2> QED
    BY <2>1, <2>2 DEF BgInv, Kinds, Counts, TypeOK
<1> QED
  BY <1>1, BgInvariant, PTL

\* While the background thread runs, the rings and the semaphore it uses exist:
\* bg_thread_stop frees them only after pthread_join.
THEOREM BgRunsOnLiveResources == Spec => []RunsOnLiveResources
<1>1. BgInv => RunsOnLiveResources
  BY DEF BgInv, Places, Session, RunsOnLiveResources, Running
<1> QED
  BY <1>1, BgInvariant, PTL

\* No lost wake-up, however bg_thread_send and the loop of bg_thread_proc
\* interleave: the background thread is never asleep beside a posted packet.
THEOREM BgNoLostWakeUp == Spec => []NoLostWakeUp
<1>1. BgInv => NoLostWakeUp
  <2> SUFFICES ASSUME BgInv, bgAt = "wait", semaphore = 0, mainAt \in {"run", "join"}, postFails = 0
               PROVE  readEnd = writeEnd
    BY DEF NoLostWakeUp
  <2>1. Unposted = 0
    BY DEF BgInv, Places, Unposted, Claimed
  <2>2. nTaken = nSent
    BY <2>1 DEF BgInv, Wakes
  <2> QED
    BY <2>2, RingFacts DEF BgInv
<1> QED
  BY <1>1, BgInvariant, PTL

\* A background thread that ends on Terminate has handled every packet accepted
\* before bg_thread_stop, also when sem_post failed and Terminate was sent twice.
THEOREM BgStopsAfterCommands == Spec => []StopsAfterCommands
<1>1. BgInv => StopsAfterCommands
  BY DEF BgInv, Handles, StopsAfterCommands
<1> QED
  BY <1>1, BgInvariant, PTL

==============================================================================
