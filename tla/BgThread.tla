------------------------------ MODULE BgThread ------------------------------
(***************************************************************************)
(* The background thread of src/src/bg_thread.c and the thread that starts *)
(* it, sends it packets and stops it.  Packets go in through a ring        *)
(* (RingBuf, one atomic access at a time) and a counting semaphore; what   *)
(* the background thread has to say comes out through a second ring, which *)
(* receives at most one packet per start and is a plain sequence here (one *)
(* pusher, one popper: RingBuf!ImplementsFifo).                            *)
(***************************************************************************)
EXTENDS Integers, Sequences

CONSTANTS
  N,              \* RINGBUF_MAX_PACKETS
  main, bg,       \* the two threads
  MaxStarts,      \* bound: calls of bg_thread_start
  MaxCommands,    \* bound: packets sent per start before bg_thread_stop
  MaxPostFails,   \* bound: failures of sem_post per start
  WaitMayFail     \* whether sem_wait may fail (EINTR)

ASSUME BgAssumption ==
  /\ main # bg
  /\ N \in Nat \ {0, 1}
  /\ {MaxStarts, MaxCommands, MaxPostFails} \subseteq Nat
  /\ WaitMayFail \in BOOLEAN

VARIABLES
  readStart, readEnd, writeStart, writeEnd, hasBeenRead, hasBeenWritten, packet,
  pc, index, block, got, nSent, nTaken, ticket,    \* sBG.input (RingBuf)
  mainAt,       \* where the starting thread is
  stopping,     \* whether it is inside bg_thread_stop
  bgAt,         \* where the background thread is
  semaphore,    \* sBG.semaphore
  output,       \* sBG.output
  db, eqPath,   \* whether sBG.db, sBG.eqPath are set
  alive,        \* which of input, output, semaphore exist
  lastCommand,  \* number of the last packet before Terminate
  handled,      \* history: packets dispatched, Terminate apart
  starts, postFails, waitFailed

ring == <<readStart, readEnd, writeStart, writeEnd, hasBeenRead, hasBeenWritten, packet,
          pc, index, block, got, nSent, nTaken, ticket>>
control == <<mainAt, stopping, bgAt>>
bgData == <<output, db, eqPath>>
faults == <<starts, postFails, waitFailed>>
vars == <<ring, control, semaphore, bgData, alive, lastCommand, handled, faults>>

\* Packets numbered per start: the bound of RingBuf is never what stops a push.
Input == INSTANCE RingBuf WITH
  Producers <- {main}, Consumers <- {bg}, MaxPackets <- MaxCommands + 1 + MaxPostFails

Resources == {"input", "output", "semaphore"}

Init ==
  /\ Input!Init
  /\ mainAt = "off" /\ bgAt = "none" /\ stopping = FALSE
  /\ semaphore = 0
  /\ output = <<>> /\ db = FALSE /\ eqPath = FALSE
  /\ alive = {}
  /\ lastCommand = 0 /\ handled = 0
  /\ starts = 0 /\ postFails = 0 /\ waitFailed = FALSE

(***************************************************************************)
(* The starting thread                                                     *)
(***************************************************************************)
\* ringbuf_create, for sBG.input: no thread is in a call and the counts restart.
FreshRing ==
  LET threads == {main, bg}  blocks == 0 .. N - 1 IN
  /\ readStart' = 0 /\ readEnd' = 0 /\ writeStart' = 0 /\ writeEnd' = 0
  /\ hasBeenRead' = [i \in blocks |-> 0] /\ hasBeenWritten' = [i \in blocks |-> 0]
  /\ packet' = [i \in blocks |-> 0]
  /\ pc' = [t \in threads |-> "load"]
  /\ index' = [t \in threads |-> 0] /\ block' = [t \in threads |-> 0]
  /\ got' = [c \in {bg} |-> 0]
  /\ nSent' = 0 /\ nTaken' = 0 /\ ticket' = [t \in threads |-> 0]

\* bg_thread_start: fresh rings, a fresh semaphore and the thread.
Start ==
  /\ mainAt = "off" /\ starts < MaxStarts
  /\ FreshRing
  /\ output' = <<>>
  /\ semaphore' = 0
  /\ alive' = Resources
  /\ mainAt' = "run" /\ bgAt' = "initDB" /\ stopping' = FALSE
  /\ starts' = starts + 1
  /\ lastCommand' = 0 /\ handled' = 0 /\ postFails' = 0 /\ waitFailed' = FALSE
  /\ UNCHANGED <<db, eqPath>>

\* malloc, sem_init or pthread_create fails: what exists by then stays, and
\* the caller (main.c) ends the process.
StartFails ==
  /\ mainAt = "off" /\ starts < MaxStarts
  /\ alive' \in SUBSET Resources
  /\ "semaphore" \in alive' => alive' = Resources
  /\ mainAt' = "failed"
  /\ starts' = starts + 1
  /\ UNCHANGED <<ring, stopping, bgAt, semaphore, bgData, lastCommand, handled, postFails, waitFailed>>

\* bg_thread_send is called with some packet that is not Terminate.
Send ==
  /\ mainAt = "run" /\ nSent < MaxCommands
  /\ mainAt' = "push"
  /\ UNCHANGED <<ring, stopping, bgAt, semaphore, bgData, alive, lastCommand, handled, faults>>

\* bg_thread_stop: its loop of bg_thread_send(Terminate) begins.
Stop ==
  /\ mainAt = "run"
  /\ mainAt' = "push" /\ stopping' = TRUE
  /\ lastCommand' = nSent
  /\ UNCHANGED <<ring, bgAt, semaphore, bgData, alive, handled, faults>>

\* A ringbuf call returns with the step that brings its thread back to "load"
\* from the test that ends it.
ReturnsFrom(t, place) == pc[t] = place /\ pc'[t] = "load"

\* A mutant: the caller is told its packet was accepted when the ring is full.
MainPush_FullIgnored ==
  /\ mainAt = "push"
  /\ Input!Push(main)
  /\ mainAt' = CASE ReturnsFrom(main, "check") -> "post"
                 [] ReturnsFrom(main, "advTest") -> "post"
                 [] OTHER -> "push"
  /\ UNCHANGED <<stopping, bgAt, semaphore, bgData, alive, lastCommand, handled, faults>>

\* One access of ringbuf_push(sBG.input, ...) and, when it returns, its caller:
\* bg_thread_stop tries again when the ring is full.
MainPush ==
  /\ mainAt = "push"
  /\ Input!Push(main)
  /\ mainAt' = CASE ReturnsFrom(main, "check") -> IF stopping THEN "push" ELSE "run"
                 [] ReturnsFrom(main, "advTest") -> "post"
                 [] OTHER -> "push"
  /\ UNCHANGED <<stopping, bgAt, semaphore, bgData, alive, lastCommand, handled, faults>>

\* A mutant: the packet is pushed without waking the background thread.
Post_Forgotten ==
  /\ mainAt = "post"
  /\ mainAt' = IF stopping THEN "join" ELSE "run"
  /\ UNCHANGED <<ring, stopping, bgAt, semaphore, bgData, alive, lastCommand, handled, faults>>

\* semaphore_trigger, and the return of bg_thread_send.
Post ==
  /\ mainAt = "post"
  /\ semaphore' = semaphore + 1
  /\ mainAt' = IF stopping THEN "join" ELSE "run"
  /\ UNCHANGED <<ring, stopping, bgAt, bgData, alive, lastCommand, handled, faults>>

\* A mutant: bg_thread_stop takes a failed send for a sent Terminate.
PostFails_Joins ==
  /\ mainAt = "post" /\ postFails < MaxPostFails
  /\ postFails' = postFails + 1
  /\ mainAt' = IF stopping THEN "join" ELSE "run"
  /\ UNCHANGED <<ring, stopping, bgAt, semaphore, bgData, alive, lastCommand, handled, starts, waitFailed>>

\* sem_post fails: bg_thread_send reports an error for a packet that is in the
\* ring, and bg_thread_stop pushes Terminate once more.
PostFails ==
  /\ mainAt = "post" /\ postFails < MaxPostFails
  /\ postFails' = postFails + 1
  /\ mainAt' = IF stopping THEN "push" ELSE "run"
  /\ UNCHANGED <<ring, stopping, bgAt, semaphore, bgData, alive, lastCommand, handled, starts, waitFailed>>

\* bg_thread_recv: the packet, or ERR_Again (no change).
Recv ==
  /\ mainAt = "run" /\ output # <<>>
  /\ output' = Tail(output)
  /\ UNCHANGED <<ring, control, semaphore, db, eqPath, alive, lastCommand, handled, faults>>

\* What bg_thread_stop frees once the thread is gone.
Teardown ==
  /\ mainAt' = "off" /\ stopping' = FALSE
  /\ db' = FALSE /\ eqPath' = FALSE
  /\ alive' = {}
  /\ UNCHANGED <<ring, semaphore, output, lastCommand, handled, faults>>

\* A mutant: everything is freed without joining the thread.
Join_NoWait == mainAt = "join" /\ Teardown /\ UNCHANGED bgAt

\* pthread_join, and the rest of bg_thread_stop.
Join == mainAt = "join" /\ bgAt = "exited" /\ Teardown /\ bgAt' = "none"

(***************************************************************************)
(* The background thread                                                   *)
(***************************************************************************)
\* bg_thread_init_db: the database cannot be opened or read (the handle may
\* exist all the same), a step fails behind the row that gave eqpath, there is
\* no eqpath yet, or eqpath is known.
InitDB ==
  /\ bgAt = "initDB"
  /\ bgAt' = "wait"
  /\ \/ db' \in BOOLEAN /\ UNCHANGED eqPath /\ output' = Append(output, "CouldNotOpenDB")
     \/ db' = TRUE /\ eqPath' = TRUE /\ output' = Append(output, "CouldNotOpenDB")
     \/ db' = TRUE /\ UNCHANGED eqPath /\ output' = Append(output, "NeedEqPath")
     \/ db' = TRUE /\ eqPath' = TRUE /\ UNCHANGED output
  /\ UNCHANGED <<ring, mainAt, stopping, semaphore, alive, lastCommand, handled, faults>>

SemWait ==
  /\ bgAt = "wait" /\ semaphore > 0
  /\ semaphore' = semaphore - 1
  /\ bgAt' = "pop"
  /\ UNCHANGED <<ring, mainAt, stopping, bgData, alive, lastCommand, handled, faults>>

\* sem_wait fails: the thread ends without telling anybody.
SemWaitFails ==
  /\ bgAt = "wait" /\ WaitMayFail
  /\ bgAt' = "exited" /\ waitFailed' = TRUE
  /\ UNCHANGED <<ring, mainAt, stopping, semaphore, bgData, alive, lastCommand, handled, starts, postFails>>

IsTerminate(k) == stopping /\ k > lastCommand

\* A mutant: the thread leaves on Terminate being announced, not received.
BgPop_LeavesEarly ==
  /\ bgAt = "pop"
  /\ Input!Pop(bg)
  /\ bgAt' = CASE ReturnsFrom(bg, "check") -> "wait"
               [] ReturnsFrom(bg, "advTest") -> IF stopping THEN "exited" ELSE "pop"
               [] OTHER -> "pop"
  /\ handled' = IF ReturnsFrom(bg, "advTest") /\ ~stopping THEN handled + 1 ELSE handled
  /\ UNCHANGED <<mainAt, stopping, semaphore, bgData, alive, lastCommand, faults>>

\* One access of ringbuf_pop(sBG.input, ...) and, when it returns, the switch:
\* the loop drains the ring before the thread waits again.
BgPop ==
  /\ bgAt = "pop"
  /\ Input!Pop(bg)
  /\ bgAt' = CASE ReturnsFrom(bg, "check") -> "wait"
               [] ReturnsFrom(bg, "advTest") -> IF IsTerminate(got[bg]) THEN "exited" ELSE "pop"
               [] OTHER -> "pop"
  /\ handled' = IF ReturnsFrom(bg, "advTest") /\ ~IsTerminate(got[bg]) THEN handled + 1 ELSE handled
  /\ UNCHANGED <<mainAt, stopping, semaphore, bgData, alive, lastCommand, faults>>

(***************************************************************************)
(* Specification                                                           *)
(***************************************************************************)
Main == Start \/ StartFails \/ Send \/ Stop \/ MainPush \/ Post \/ PostFails \/ Recv \/ Join
Bg == InitDB \/ SemWait \/ SemWaitFails \/ BgPop

Next == Main \/ Bg

\* The calls in progress go on: both threads are scheduled, the database does
\* not stay locked for ever, and a weak compare-and-exchange does not fail for
\* ever.  Nobody is forced to call start, send, stop or recv.
Fairness ==
  /\ WF_vars(MainPush) /\ SF_vars(MainPush /\ Input!PushClaim(main))
  /\ WF_vars(Post) /\ WF_vars(Join)
  /\ WF_vars(InitDB) /\ WF_vars(SemWait)
  /\ WF_vars(BgPop) /\ SF_vars(BgPop /\ Input!PopClaim(bg))

Spec == Init /\ [][Next]_vars /\ Fairness

(***************************************************************************)
(* Properties                                                              *)
(***************************************************************************)
TypeOK ==
  /\ Input!TypeOK
  /\ mainAt \in {"off", "failed", "run", "push", "post", "join"}
  /\ bgAt \in {"none", "initDB", "wait", "pop", "exited"}
  /\ semaphore \in 0 .. MaxCommands + 1
  /\ output \in {<<>>, <<"CouldNotOpenDB">>, <<"NeedEqPath">>}
  /\ {stopping, db, eqPath, waitFailed} \subseteq BOOLEAN
  /\ alive \subseteq Resources
  /\ lastCommand \in 0 .. MaxCommands /\ handled \in 0 .. MaxCommands

Running == bgAt \in {"initDB", "wait", "pop"}

\* While the background thread runs, the rings and the semaphore it uses exist,
\* and the thread of an earlier start is gone: bg_thread_stop frees nothing
\* before pthread_join returns.
RunsOnLiveResources == Running => alive = Resources /\ mainAt \in {"run", "push", "post", "join"}

\* No lost wake-up: the background thread does not sleep on a semaphore at zero
\* while a packet that has been sent, and posted, lies in its ring.
NoLostWakeUp ==
  bgAt = "wait" /\ semaphore = 0 /\ mainAt \in {"run", "join"} /\ postFails = 0
    => readEnd = writeEnd

\* A thread that ends on Terminate has handled, in order and once each, all the
\* packets accepted before bg_thread_stop.
StopsAfterCommands == bgAt = "exited" /\ ~waitFailed => handled = lastCommand

\* sem_wait or sem_post has failed since the start.
Faulty == waitFailed \/ postFails > 0

Free == N - 1 - Input!Distance(readStart, writeEnd)

\* bg_thread_stop returns: always while the system calls succeed, however full
\* the ring is; and also when the background thread has died in sem_wait, or
\* sem_post fails, if the ring has room for the Terminates it sends.
StopReturns ==
  /\ stopping ~> (mainAt = "off" \/ Faulty)
  /\ (stopping /\ mainAt = "push" /\ pc[main] = "load" /\ Free > MaxPostFails) ~> mainAt = "off"

\* A packet accepted by bg_thread_send is handled, without waiting for the next.
EveryCommandHandled ==
  \A k \in 1 .. MaxCommands :
    (mainAt = "run" /\ nSent >= k) ~> (handled >= k \/ Faulty)

=============================================================================
