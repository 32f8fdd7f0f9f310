------------------------------ MODULE PktQueue ------------------------------
(***************************************************************************)
(* One direction of a connection: the thread that reads the incoming       *)
(* socket (addTcpWriteTask) hands packets to the thread that writes the    *)
(* outgoing socket (addTcpReadTask) through a TCPRecvDataQueue: two rings, *)
(* a write position, a read position, a mutex and a condition variable.    *)
(*                                                                         *)
(* wpos is written only by the writer and rpos only by the reader, so the  *)
(* locals the code copies them into need no variables of their own.  A     *)
(* ring is the sequence of its reserved blocks, oldest first (SggStack     *)
(* shows that the ring of sgg_stack.cpp is such a sequence).  The writer's *)
(* critical sections are one step each; the reader holds the lock from     *)
(* rpc = "wait" until it sleeps.                                           *)
(***************************************************************************)
EXTENDS Naturals, Sequences

CONSTANTS Capacity,      \* blocks a ring holds: its stackSize - 1
          MaxPkts,       \* bound: packets the incoming socket ever yields
          MaxTries,      \* failed sends of a packet that are retried (3)
          MayShutdown,   \* the server may be removed while the session runs
          End,           \* a block that carries MAGIC_WORD_BANK
          Unfilled       \* a block reserved by PushStack, contents stale

Packets == 0..(MaxPkts - 1)
Blocks == Packets \union {End, Unfilled}

ASSUME ConstAssumption ==
  /\ Capacity \in Nat \ {0}
  /\ MaxPkts \in Nat
  /\ MaxTries \in Nat
  /\ MayShutdown \in BOOLEAN
  /\ End \notin Nat
  /\ Unfilled \notin Nat
  /\ End # Unfilled

VARIABLES stack,       \* PktBufStack[0..1]
          wpos, rpos,  \* the ring the writer, the reader works on
          waiting,     \* the reader is blocked in pthread_cond_wait
          shutdown,    \* para->shutdown
          wpc,         \* where the writer is
          next,        \* the writer's offset: number of the next packet
          finished,    \* the writer's isfinished = 1
          rpc,         \* where the reader is
          held,        \* the block the reader popped last
          failed,      \* the reader's failedtimes
          out,         \* packets sent on, in order
          lost         \* packets the reader gave up

wvars == <<wpc, next, finished>>
rvars == <<rpc, held, failed, out, lost>>
vars == <<stack, wpos, rpos, waiting, shutdown, wvars, rvars>>

Init == /\ stack = [i \in 0..1 |-> <<>>]
        /\ wpos = 0
        /\ rpos = 1
        /\ waiting = FALSE
        /\ shutdown = FALSE
        /\ wpc = "loop"
        /\ next = 0
        /\ finished = FALSE
        /\ rpc = "loop"
        /\ held = End
        /\ failed = 0
        /\ out = <<>>
        /\ lost = {}

LockFree == rpc # "wait"

\* destroying the server makes run() set shutdown in every session
Shutdown == /\ MayShutdown
            /\ ~shutdown
            /\ shutdown' = TRUE
            /\ UNCHANGED <<stack, wpos, rpos, waiting, wvars, rvars>>

-----------------------------------------------------------------------------
\* The writer.

\* Faulty variant: PushStack does not look whether the ring is full.
WLoopUnbounded ==
  /\ wpc = "loop"
  /\ ~shutdown
  /\ stack' = [stack EXCEPT ![wpos] = Append(@, Unfilled)]
  /\ wpc' = "fill"
  /\ UNCHANGED <<wpos, rpos, waiting, shutdown, next, finished, rvars>>

\* while (!shutdown) and PushStack, which reserves a block of the ring
WLoop == /\ wpc = "loop"
         /\ \/ /\ shutdown
               /\ wpc' = "after"
               /\ UNCHANGED stack
            \/ /\ ~shutdown
               /\ Len(stack[wpos]) = Capacity
               /\ wpc' = "full"
               /\ UNCHANGED stack
            \/ /\ ~shutdown
               /\ Len(stack[wpos]) < Capacity
               /\ stack' = [stack EXCEPT ![wpos] = Append(@, Unfilled)]
               /\ wpc' = "fill"
         /\ UNCHANGED <<wpos, rpos, waiting, shutdown, next, finished, rvars>>

\* the ring is full: switch rings if the reader waits for this one
WFull == /\ wpc = "full"
         /\ wpc' = IF wpos = rpos THEN "flip" ELSE "loop"
         /\ UNCHANGED <<stack, wpos, rpos, waiting, shutdown, next, finished,
                        rvars>>

Fill(x) == stack' = [stack EXCEPT ![wpos][Len(stack[wpos])] = x]
BackPush == stack' = [stack EXCEPT ![wpos] = SubSeq(@, 1, Len(@) - 1)]

\* recv into the reserved block: a packet, the end of the connection, or
\* nothing, and then (always, once finished) the block is given back
WFill == /\ wpc = "fill"
         /\ \/ /\ ~finished
               /\ next < MaxPkts
               /\ Fill(next)
               /\ next' = next + 1
               /\ UNCHANGED finished
            \/ /\ ~finished
               /\ Fill(End)
               /\ finished' = TRUE
               /\ UNCHANGED next
            \/ /\ BackPush
               /\ UNCHANGED <<next, finished>>
         /\ wpc' = "cmp"
         /\ UNCHANGED <<wpos, rpos, waiting, shutdown, rvars>>

\* Faulty variant: the ring is handed over without looking where the reader is.
WCompareBlind ==
  /\ wpc = "cmp"
  /\ wpc' = IF stack[wpos] # <<>> THEN "flip" ELSE "loop"
  /\ UNCHANGED <<stack, wpos, rpos, waiting, shutdown, next, finished, rvars>>

\* the unlocked test that decides whether to hand the ring over
WCompare == /\ wpc = "cmp"
            /\ wpc' = IF wpos = rpos /\ stack[wpos] # <<>>
                        THEN "flip" ELSE "loop"
            /\ UNCHANGED <<stack, wpos, rpos, waiting, shutdown, next,
                           finished, rvars>>

\* Faulty variants: no signal; the loop goes on after the end marker.
WFlipNoSignal ==
  /\ wpc = "flip"
  /\ LockFree
  /\ wpos' = (wpos + 1) % 2
  /\ wpc' = IF finished THEN "after" ELSE "loop"
  /\ UNCHANGED <<stack, rpos, waiting, shutdown, next, finished, rvars>>

WFlipForever ==
  /\ wpc = "flip"
  /\ LockFree
  /\ waiting' = FALSE
  /\ wpos' = (wpos + 1) % 2
  /\ wpc' = "loop"
  /\ UNCHANGED <<stack, rpos, shutdown, next, finished, rvars>>

\* lock, signal, switch rings, unlock; leave if the end marker is handed over
WFlip == /\ wpc = "flip"
         /\ LockFree
         /\ waiting' = FALSE
         /\ wpos' = (wpos + 1) % 2
         /\ wpc' = IF finished THEN "after" ELSE "loop"
         /\ UNCHANGED <<stack, rpos, shutdown, next, finished, rvars>>

\* forced out: lock, broadcast, unlock
WAfter == /\ wpc = "after"
          /\ \/ /\ shutdown
                /\ LockFree
                /\ waiting' = FALSE
             \/ /\ ~shutdown
                /\ UNCHANGED waiting
          /\ wpc' = "exit"
          /\ UNCHANGED <<stack, wpos, rpos, shutdown, next, finished, rvars>>

\* exitFlag of the writer := 1
WExit == /\ wpc = "exit"
         /\ wpc' = "done"
         /\ UNCHANGED <<stack, wpos, rpos, waiting, shutdown, next, finished,
                        rvars>>

Writer == WLoop \/ WFull \/ WFill \/ WCompare \/ WFlip \/ WAfter \/ WExit

-----------------------------------------------------------------------------
\* The reader.

RLoop == /\ rpc = "loop"
         /\ \/ shutdown /\ rpc' = "drain"
            \/ ~shutdown /\ stack[rpos] = <<>> /\ rpc' = "lock"
            \/ ~shutdown /\ stack[rpos] # <<>> /\ rpc' = "pop"
         /\ UNCHANGED <<stack, wpos, rpos, waiting, shutdown, wvars, held,
                        failed, out, lost>>

\* its ring is used up: lock and ask for the ring the writer is filling
RLock == /\ rpc = "lock"
         /\ rpos' = wpos
         /\ rpc' = "wait"
         /\ UNCHANGED <<stack, wpos, waiting, shutdown, wvars, held, failed,
                        out, lost>>

\* Faulty variant: the reader goes on without waiting for the signal.
RSleepNot ==
  /\ rpc = "wait"
  /\ rpc' = "pop"
  /\ UNCHANGED <<stack, wpos, rpos, waiting, shutdown, wvars, held, failed,
                 out, lost>>

\* pthread_cond_wait: unlock and sleep, whatever happened before
RSleep == /\ rpc = "wait"
          /\ waiting' = TRUE
          /\ rpc' = "asleep"
          /\ UNCHANGED <<stack, wpos, rpos, shutdown, wvars, held, failed,
                         out, lost>>

RWake == /\ rpc = "asleep"
         /\ ~waiting
         /\ rpc' = "pop"
         /\ UNCHANGED <<stack, wpos, rpos, waiting, shutdown, wvars, held,
                        failed, out, lost>>

RPop == /\ rpc = "pop"
        /\ \/ /\ stack[rpos] = <<>>
              /\ rpc' = "loop"
              /\ UNCHANGED <<stack, held>>
           \/ /\ stack[rpos] # <<>>
              /\ held' = Head(stack[rpos])
              /\ stack' = [stack EXCEPT ![rpos] = Tail(@)]
              /\ rpc' = "send"
        /\ UNCHANGED <<wpos, rpos, waiting, shutdown, wvars, failed, out, lost>>

\* the send went through
RSent == /\ rpc = "send"
         /\ held # End
         /\ out' = Append(out, held)
         /\ failed' = 0
         /\ rpc' = "loop"
         /\ UNCHANGED <<stack, wpos, rpos, waiting, shutdown, wvars, held, lost>>

\* Faulty variant: the packet is not put back.
BackPopNot == UNCHANGED stack

BackPop == IF Len(stack[rpos]) < Capacity
             THEN stack' = [stack EXCEPT ![rpos] = <<held>> \o @]
             ELSE UNCHANGED stack

\* the send failed: put the packet back, or give it up after MaxTries
RFailed == /\ rpc = "send"
           /\ held # End
           /\ \/ /\ failed < MaxTries
                 /\ failed' = failed + 1
                 /\ BackPop
                 /\ UNCHANGED lost
              \/ /\ failed >= MaxTries
                 /\ failed' = 0
                 /\ lost' = lost \union {held}
                 /\ UNCHANGED stack
           /\ rpc' = "loop"
           /\ UNCHANGED <<wpos, rpos, waiting, shutdown, wvars, held, out>>

REnd == /\ rpc = "send"
        /\ held = End
        /\ rpc' = "drain"
        /\ UNCHANGED <<stack, wpos, rpos, waiting, shutdown, wvars, held,
                       failed, out, lost>>

\* wait for the writer's exitFlag, then destroy both rings
RExit == /\ rpc = "drain"
         /\ wpc = "done"
         /\ stack' = [i \in 0..1 |-> <<>>]
         /\ rpc' = "done"
         /\ UNCHANGED <<wpos, rpos, waiting, shutdown, wvars, held, failed,
                        out, lost>>

Reader == \/ RLoop \/ RLock \/ RSleep \/ RWake \/ RPop
          \/ RSent \/ RFailed \/ REnd \/ RExit

\* both tasks returned to the thread pool
Stopped == /\ rpc = "done"
           /\ UNCHANGED vars

Next == Shutdown \/ Writer \/ Reader \/ Stopped

Spec == Init /\ [][Next]_vars

\* each task runs on a thread of its own and never blocks except as modelled
FairSpec == Spec /\ WF_vars(Writer) /\ WF_vars(Reader)

-----------------------------------------------------------------------------
\* Properties.

\* Types of the variables; a ring never holds more than its blocks.
TypeOK == /\ stack \in [0..1 -> Seq(Blocks)]
          /\ \A i \in 0..1 : Len(stack[i]) <= Capacity
          /\ wpos \in 0..1
          /\ rpos \in 0..1
          /\ waiting \in BOOLEAN
          /\ shutdown \in BOOLEAN
          /\ wpc \in {"loop", "full", "fill", "cmp", "flip", "after", "exit",
                      "done"}
          /\ next \in 0..MaxPkts
          /\ finished \in BOOLEAN
          /\ rpc \in {"loop", "lock", "wait", "asleep", "pop", "send", "drain",
                      "done"}
          /\ held \in Blocks
          /\ failed \in 0..MaxTries
          /\ out \in Seq(Blocks)
          /\ lost \subseteq Blocks

\* The reader never sends a block that recv has not filled yet: neither the
\* unlocked comparison of wpos with rpos (tcp_socket.cpp:330, 376) nor a
\* shutdown lets it into the ring the writer is working on.
NoStaleBlock == rpc = "send" => held # Unfilled

\* Which thread may touch which ring, whatever the unlocked reads see: a block
\* being filled is the last of the writer's ring; the reader is in the ring
\* the writer works on only while it sleeps, or after the writer left; the
\* ring that is not handed over is used up; a block can always be put back.
RingOwnership ==
  /\ \A i \in 0..1 : \A k \in 1..Len(stack[i]) :
       stack[i][k] = Unfilled => wpc = "fill" /\ i = wpos /\ k = Len(stack[i])
  /\ wpc = "fill" => stack[wpos] # <<>>
  /\ wpos = rpos => stack[1 - wpos] = <<>>
  /\ wpc = "flip" => wpos = rpos
  /\ waiting => rpc = "asleep"
  /\ wpos = rpos => \/ rpc = "wait"
                    \/ rpc = "asleep" /\ waiting
                    \/ shutdown /\ wpc \in {"exit", "done"} /\ rpc # "lock"
  /\ rpc = "lock" => stack[rpos] = <<>>
  /\ rpc = "send" => Len(stack[rpos]) < Capacity

\* What is accepted and neither sent nor given up, oldest first: the block the
\* reader holds, its ring, then the ring the writer fills.
Filled(i) == IF wpc = "fill" /\ i = wpos
               THEN SubSeq(stack[i], 1, Len(stack[i]) - 1)
               ELSE stack[i]
InTransit == (IF rpc = "send" THEN <<held>> ELSE <<>>)
               \o Filled(1 - wpos) \o Filled(wpos)

\* The two rings and the hand-off implement a FIFO channel that loses only
\* packets whose sends failed, whose end marker overtakes nothing, and that
\* drops what it holds only when the session is shut down (tcp_socket.cpp:462).
Over == rpc \in {"drain", "done"}
Channel == INSTANCE FifoChannel
             WITH chan <- IF Over THEN <<>> ELSE InTransit,
                  ended <- Over,
                  aborted <- shutdown
FifoHandOff == Channel!Spec

\* Unless the session is shut down every packet received is sent or given up,
\* however the two threads are scheduled: no signal of the hand-off is lost
\* (tcp_socket.cpp:332, 378, 467).
EveryPacketSent ==
  \A n \in Packets :
    next > n ~> (\/ n \in lost
                 \/ \E i \in 1..Len(out) : out[i] = n
                 \/ shutdown)

\* Once the end of the connection was read both tasks return to the pool,
\* unless the session is shut down meanwhile.
EndStopsBoth == finished ~> (rpc = "done" \/ shutdown)

\* The writer leaves its loop after a shutdown.
ShutdownStopsWriter == shutdown ~> (wpc = "done")

\* Both tasks end after the end of the connection, and the writer after a
\* shutdown.  ("外部强制退出，通知读线程退出", tcp_socket.cpp:389, does not hold
\* of the reader: a broadcast that comes before its pthread_cond_wait is lost.)
ThreadsEnd == EndStopsBoth /\ ShutdownStopsWriter

=============================================================================
