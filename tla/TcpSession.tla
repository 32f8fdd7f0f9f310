----------------------------- MODULE TcpSession -----------------------------
(***************************************************************************)
(* A TCP server (tcp_server_obj::run) and its sessions.  Each accepted     *)
(* connection gets a slot of bufMap and four tasks: "uw" reads the         *)
(* client's socket (server_sid), "ur" sends what was read to the remote    *)
(* (client_sid, which it opens), "dw" reads the remote, "dr" sends that to *)
(* the client.  With a UDP remote there are only "uw" and "ur": answers    *)
(* take another way.  The tasks end each other through stop_flag,          *)
(* client_closewaite, the end marker of a queue, exitFlag and shutdown.    *)
(*                                                                         *)
(* PktQueue shows what a queue does: here it is a count of packets (those  *)
(* read and neither sent nor lost) and a state.  A task whose queue is     *)
(* gone finds no room and no packet: it spins.                             *)
(***************************************************************************)
EXTENDS Integers, FiniteSets

CONSTANTS NSlots,     \* sgg_multi_lines
          Capacity,   \* packets a queue holds
          MaxTries,   \* failed sends of a packet that are repeated (3)
          MaxConns,   \* bound: connections accepted
          MaxPkts,    \* bound: packets each end of a connection sends
          Settings    \* environments the run covers

Slots == 0..(NSlots - 1)
Conns == 1..MaxConns
Dirs == {"up", "down"}
Ends == {"client", "remote"}
Tasks == {"uw", "ur", "dw", "dr"}
Descriptors == 1..(2 * MaxConns)

ASSUME ConstAssumption ==
  /\ NSlots \in Nat \ {0}
  /\ Capacity \in Nat \ {0}
  /\ MaxTries \in Nat
  /\ MaxConns \in Nat
  /\ MaxPkts \in Nat
  /\ Settings \subseteq [remote : {"TCP", "UDP"},  \* remote_socket_type
                         stops : BOOLEAN,          \* the server may be removed
                         fails : BOOLEAN,          \* calls and sends may fail
                         late : BOOLEAN,           \* the next connection comes
                                                   \* when all tasks have gone
                         conns : 1..MaxConns,      \* connections there will be
                         pkts : 0..MaxPkts]        \* packets of each end

NoSid == -1      \* what the code calls -1
Failed == -2     \* any other negative result of run_tcpclient
Free == <<0, "free">>

VARIABLES env,     \* the environment, fixed
          owner,   \* which end of which connection a descriptor is
          para,    \* bufMap: the fields the tasks share
          queue,   \* the queue of a slot and direction
          slotOf,  \* the slot of a connection, -1 while it has none
          pc,      \* where each task is
          fin,     \* isfinished of dw
          tries,   \* failedtimes of ur and dr
          mpc,     \* where run() is
          idx,     \* its i
          cur,     \* connections accepted
          last,    \* its accept_st
          asked,   \* shutdownFlag
          given,   \* packets an end sent before it closed, by their direction
          read,    \* packets read from its socket
          sent,    \* packets sent on
          lost,    \* packets given up
          closed   \* ends that closed their connection

taskv == <<slotOf, pc, fin, tries>>
mainv == <<mpc, idx, cur, last, asked>>
peerv == <<given, closed>>
flowv == <<read, sent, lost>>
vars == <<env, owner, para, queue, taskv, mainv, peerv, flowv>>

ToRemote == env.remote
None == [d \in Dirs |-> 0]
Zero == [c \in Conns |-> None]

Init == /\ env \in Settings
        /\ owner = [f \in Descriptors |-> Free]
        /\ para = [s \in Slots |->
                     [usedflag |-> 0, server_sid |-> 0, client_sid |-> 0,
                      client_closewaite |-> 0, stop_flag |-> 0,
                      shutdown |-> 0, exitFlag |-> {}]]
        /\ queue = [s \in Slots |-> [d \in Dirs |-> "gone"]]
        /\ slotOf = [c \in Conns |-> -1]
        /\ pc = [c \in Conns |-> [t \in Tasks |-> "none"]]
        /\ fin = [c \in Conns |-> 0]
        /\ tries = Zero
        /\ mpc = "test"
        /\ idx = 0
        /\ cur = 0
        /\ last = NoSid
        /\ asked = FALSE
        /\ given = Zero
        /\ read = Zero
        /\ sent = Zero
        /\ lost = Zero
        /\ closed = [c \in Conns |-> {}]

-----------------------------------------------------------------------------
\* Helpers.

P(c) == para[slotOf[c]]
Q(c, d) == queue[slotOf[c]][d]
Goto(c, t, l) == pc' = [pc EXCEPT ![c][t] = l]
Pending(c, d) == read[c][d] - sent[c][d] - lost[c][d]
Gone(c) == \A t \in Tasks : pc[c][t] \in {"none", "done"}
Owns(c, e, f) == f \in Descriptors /\ owner[f] = <<c, e>>
Unused == {f \in Descriptors : owner[f] = Free}
LowestUnused == CHOOSE f \in Unused : \A g \in Unused : f <= g
Released(f) == IF f \in Descriptors THEN [owner EXCEPT ![f] = Free] ELSE owner
\* the task may run its loop: not told to stop, and its queue exists
MayLoop(c, t, d) == /\ pc[c][t] = "run"
                    /\ P(c).shutdown = 0
                    /\ Q(c, d) # "gone"
Count(f, c, d) == [f EXCEPT ![c][d] = @ + 1]
-----------------------------------------------------------------------------
\* The two ends of a connection.

PeerOf == [up |-> "client", down |-> "remote"]

Connected(c, d) == \E f \in Descriptors : Owns(c, PeerOf[d], f)

\* A packet that an end sends counts when it is read; those it had sent before
\* it closed are still read after that.
MayRead(c, d) == read[c][d] < IF PeerOf[d] \in closed[c] THEN given[c][d]
                                                         ELSE env.pkts
AtEnd(c, d) == PeerOf[d] \in closed[c] /\ read[c][d] = given[c][d]

PeerCloses(c, d) ==
  /\ Connected(c, d)
  /\ d = "down" => ToRemote = "TCP"
  /\ PeerOf[d] \notin closed[c]
  /\ closed' = [closed EXCEPT ![c] = @ \union {PeerOf[d]}]
  /\ \E n \in read[c][d]..env.pkts : given' = [given EXCEPT ![c][d] = n]
  /\ UNCHANGED <<env, owner, para, queue, taskv, mainv, flowv>>

-----------------------------------------------------------------------------
\* addTcpWriteTask, direction UP.

UpEnd(c) == queue' = [queue EXCEPT ![slotOf[c]].up = "ended"]
Leave(c, t, l) == Goto(c, t, l)
\* where uw goes when its loop is over: only with a UDP remote it closes
UpExit == IF ToRemote = "UDP" THEN "close" ELSE "flag"

\* one turn of the loop that does something
UpRead(c) ==
  /\ MayLoop(c, "uw", "up")
  /\ Pending(c, "up") < Capacity
  /\ \/ /\ P(c).stop_flag = 0
        /\ Owns(c, "client", P(c).server_sid)
        /\ MayRead(c, "up")
        /\ read' = Count(read, c, "up")
        /\ UNCHANGED <<queue, pc>>
     \/ /\ \/ P(c).stop_flag = 1
           \/ ~Owns(c, "client", P(c).server_sid)
           \/ AtEnd(c, "up")
        /\ UpEnd(c)
        /\ Leave(c, "uw", UpExit)
        /\ UNCHANGED read
  /\ UNCHANGED <<env, owner, para, slotOf, fin, tries, mainv, peerv, sent, lost>>

\* the loop is left because para->shutdown is set
UpForced(c) ==
  /\ pc[c].uw = "run"
  /\ P(c).shutdown = 1
  /\ Leave(c, "uw", UpExit)
  /\ UNCHANGED <<env, owner, para, queue, slotOf, fin, tries, mainv, peerv,
                 flowv>>

UpClose(c) ==
  /\ pc[c].uw = "close"
  /\ owner' = Released(P(c).server_sid)
  /\ para' = [para EXCEPT ![slotOf[c]].server_sid = NoSid]
  /\ Goto(c, "uw", "flag")
  /\ UNCHANGED <<env, queue, slotOf, fin, tries, mainv, peerv, flowv>>

\* a writer tells its reader that it has gone
WriterFlag(c, t) ==
  /\ pc[c][t] = "flag"
  /\ para' = [para EXCEPT ![slotOf[c]].exitFlag = @ \union {t}]
  /\ Goto(c, t, "done")
  /\ UNCHANGED <<env, owner, queue, slotOf, fin, tries, mainv, peerv, flowv>>

-----------------------------------------------------------------------------
\* addTcpWriteTask, direction DOWN.

DownEnd(c) == queue' = [queue EXCEPT ![slotOf[c]].down = "ended"]

\* the session is closing: the end marker
DownStop(c) ==
  /\ MayLoop(c, "dw", "down")
  /\ Pending(c, "down") < Capacity
  /\ P(c).client_closewaite = 1
  /\ DownEnd(c)
  /\ Leave(c, "dw", "close")
  /\ UNCHANGED <<env, owner, para, slotOf, fin, tries, mainv, peerv, flowv>>

\* Faulty variant: the end of the remote is not passed on.
DownReadSilent(c) ==
  /\ MayLoop(c, "dw", "down")
  /\ Pending(c, "down") < Capacity
  /\ P(c).client_closewaite = 0
  /\ fin[c] = 0
  /\ P(c).client_sid # NoSid
  /\ \/ /\ Owns(c, "remote", P(c).client_sid)
        /\ MayRead(c, "down")
        /\ read' = Count(read, c, "down")
        /\ UNCHANGED fin
     \/ /\ \/ ~Owns(c, "remote", P(c).client_sid)
           \/ AtEnd(c, "down")
        /\ fin' = [fin EXCEPT ![c] = 2]
        /\ UNCHANGED read
  /\ UNCHANGED <<env, owner, para, queue, slotOf, pc, tries, mainv, peerv, sent,
                 lost>>

\* recvTcpDownData; the end of the remote is isfinished = 2 and stop_flag = 1
DownRead(c) ==
  /\ MayLoop(c, "dw", "down")
  /\ Pending(c, "down") < Capacity
  /\ P(c).client_closewaite = 0
  /\ fin[c] = 0
  /\ P(c).client_sid # NoSid
  /\ \/ /\ Owns(c, "remote", P(c).client_sid)
        /\ MayRead(c, "down")
        /\ read' = Count(read, c, "down")
        /\ UNCHANGED <<para, fin>>
     \/ /\ \/ ~Owns(c, "remote", P(c).client_sid)
           \/ AtEnd(c, "down")
        /\ fin' = [fin EXCEPT ![c] = 2]
        /\ para' = [para EXCEPT ![slotOf[c]].stop_flag = 1]
        /\ UNCHANGED read
  /\ UNCHANGED <<env, owner, queue, slotOf, pc, tries, mainv, peerv, sent, lost>>

DownForced(c) ==
  /\ pc[c].dw = "run"
  /\ P(c).shutdown = 1
  /\ Leave(c, "dw", "close")
  /\ UNCHANGED <<env, owner, para, queue, slotOf, fin, tries, mainv, peerv,
                 flowv>>

\* Faulty variant: client_sid is cleared before it is closed.
DownCloseSwapped(c) ==
  /\ pc[c].dw = "close"
  /\ para' = [para EXCEPT ![slotOf[c]].client_sid = NoSid]
  /\ owner' = Released(NoSid)
  /\ Goto(c, "dw", "flag")
  /\ UNCHANGED <<env, queue, slotOf, fin, tries, mainv, peerv, flowv>>

DownClose(c) ==
  /\ pc[c].dw = "close"
  /\ owner' = Released(P(c).client_sid)
  /\ para' = [para EXCEPT ![slotOf[c]].client_sid = NoSid]
  /\ Goto(c, "dw", "flag")
  /\ UNCHANGED <<env, queue, slotOf, fin, tries, mainv, peerv, flowv>>

-----------------------------------------------------------------------------
\* addTcpReadTask, direction UP.

\* checkTcpClientSocketAlive: open client_sid; another negative number than
\* -1 says that it failed
Connect(c) ==
  /\ pc[c].ur \in {"connect", "reconnect"}
  /\ Goto(c, "ur", IF pc[c].ur = "connect" THEN "run" ELSE "send")
  /\ \/ /\ owner' = [owner EXCEPT ![LowestUnused] = <<c, "remote">>]
        /\ para' = [para EXCEPT ![slotOf[c]].client_sid = LowestUnused]
     \/ /\ env.fails
        /\ para' = [para EXCEPT ![slotOf[c]].client_sid = Failed]
        /\ UNCHANGED owner
  /\ UNCHANGED <<env, queue, slotOf, fin, tries, mainv, peerv, flowv>>

\* a packet is popped; the connection is opened again if there is none
UpTake(c) ==
  /\ MayLoop(c, "ur", "up")
  /\ Pending(c, "up") > 0
  /\ Goto(c, "ur", IF P(c).client_sid < 0 THEN "reconnect" ELSE "send")
  /\ UNCHANGED <<env, owner, para, queue, slotOf, fin, tries, mainv, peerv,
                 flowv>>

\* a send that failed is repeated MaxTries times, then the packet is dropped
Repeat(c, d) ==
  \/ /\ tries[c][d] < MaxTries
     /\ tries' = Count(tries, c, d)
     /\ UNCHANGED lost
  \/ /\ tries[c][d] >= MaxTries
     /\ tries' = [tries EXCEPT ![c][d] = 0]
     /\ lost' = Count(lost, c, d)

UpSend(c) ==
  /\ pc[c].ur = "send"
  /\ Goto(c, "ur", "run")
  /\ \/ /\ Owns(c, "remote", P(c).client_sid)
        /\ "remote" \notin closed[c]
        /\ sent' = Count(sent, c, "up")
        /\ tries' = [tries EXCEPT ![c].up = 0]
        /\ UNCHANGED lost
     \/ /\ ToRemote = "TCP"
        /\ \/ ~Owns(c, "remote", P(c).client_sid)
           \/ "remote" \in closed[c]
           \/ env.fails
        /\ Repeat(c, "up")
        /\ UNCHANGED sent
  /\ UNCHANGED <<env, owner, para, queue, slotOf, fin, mainv, peerv, read>>

\* Faulty variant: a TCP connection is closed as well when sends fail.
UpGiveUpAlways(c) ==
  /\ pc[c].ur = "send"
  /\ env.fails \/ ~Owns(c, "remote", P(c).client_sid)
  /\ owner' = Released(P(c).client_sid)
  /\ para' = [para EXCEPT ![slotOf[c]].client_sid = NoSid]
  /\ lost' = Count(lost, c, "up")
  /\ Goto(c, "ur", "run")
  /\ UNCHANGED <<env, queue, slotOf, fin, tries, mainv, peerv, read, sent>>

\* the UDP cache stayed full, or there is no socket: close it and go on
UpGiveUp(c) ==
  /\ pc[c].ur = "send"
  /\ ToRemote = "UDP"
  /\ env.fails \/ ~Owns(c, "remote", P(c).client_sid)
  /\ owner' = Released(P(c).client_sid)
  /\ para' = [para EXCEPT ![slotOf[c]].client_sid = NoSid]
  /\ lost' = Count(lost, c, "up")
  /\ Goto(c, "ur", "run")
  /\ UNCHANGED <<env, queue, slotOf, fin, tries, mainv, peerv, read, sent>>

\* Faulty variant: the end marker is taken before the packets ahead of it.
UpLeaveEarly(c) ==
  /\ pc[c].ur = "run"
  /\ P(c).shutdown = 1 \/ Q(c, "up") = "ended"
  /\ Leave(c, "ur", IF ToRemote = "UDP" THEN "close" ELSE "closewait")
  /\ UNCHANGED <<env, owner, para, queue, slotOf, fin, tries, mainv, peerv,
                 flowv>>

\* the end marker, or para->shutdown (a sleeping reader may miss it)
UpLeave(c) ==
  /\ pc[c].ur = "run"
  /\ P(c).shutdown = 1 \/ (Pending(c, "up") = 0 /\ Q(c, "up") = "ended")
  /\ Leave(c, "ur", IF ToRemote = "UDP" THEN "close" ELSE "closewait")
  /\ UNCHANGED <<env, owner, para, queue, slotOf, fin, tries, mainv, peerv,
                 flowv>>

UpReaderClose(c) ==
  /\ pc[c].ur = "close"
  /\ owner' = Released(P(c).client_sid)
  /\ para' = [para EXCEPT ![slotOf[c]].client_sid = NoSid]
  /\ Goto(c, "ur", "closewait")
  /\ UNCHANGED <<env, queue, slotOf, fin, tries, mainv, peerv, flowv>>

CloseWait(c) ==
  /\ pc[c].ur = "closewait"
  /\ para' = [para EXCEPT ![slotOf[c]].client_closewaite = 1]
  /\ Goto(c, "ur", "wait")
  /\ UNCHANGED <<env, owner, queue, slotOf, fin, tries, mainv, peerv, flowv>>

WriterOf(t) == IF t = "ur" THEN "uw" ELSE "dw"
DirOf(t) == IF t = "ur" THEN "up" ELSE "down"
\* Faulty variant: both readers give the slot back.
LastAny(t) == TRUE

\* the reader that gives the slot back
Last(t) == t = "dr" \/ ToRemote # "TCP"

\* wait for the writer's exitFlag, set the own one, destroy the queue
ReaderFlag(c, t) ==
  /\ pc[c][t] = "wait"
  /\ WriterOf(t) \in P(c).exitFlag
  /\ para' = [para EXCEPT ![slotOf[c]].exitFlag = @ \union {t}]
  /\ queue' = [queue EXCEPT ![slotOf[c]][DirOf(t)] = "gone"]
  /\ Goto(c, t, IF Last(t) THEN "free" ELSE "done")
  /\ UNCHANGED <<env, owner, slotOf, fin, tries, mainv, peerv, flowv>>

FreeSlot(c, t) ==
  /\ pc[c][t] = "free"
  /\ para' = [para EXCEPT ![slotOf[c]].usedflag = 0]
  /\ Goto(c, t, "done")
  /\ UNCHANGED <<env, owner, queue, slotOf, fin, tries, mainv, peerv, flowv>>

-----------------------------------------------------------------------------
\* addTcpReadTask, direction DOWN.  Its send_sid is server_sid at its start,
\* which nothing changes before it closes it.

DownSend(c) ==
  /\ MayLoop(c, "dr", "down")
  /\ Pending(c, "down") > 0
  /\ \/ /\ Owns(c, "client", P(c).server_sid)
        /\ "client" \notin closed[c]
        /\ sent' = Count(sent, c, "down")
        /\ tries' = [tries EXCEPT ![c].down = 0]
        /\ UNCHANGED lost
     \/ /\ \/ ~Owns(c, "client", P(c).server_sid)
           \/ "client" \in closed[c]
           \/ env.fails
        /\ Repeat(c, "down")
        /\ UNCHANGED sent
  /\ UNCHANGED <<env, owner, para, queue, slotOf, pc, fin, mainv, peerv, read>>

DownLeave(c) ==
  /\ pc[c].dr = "run"
  /\ P(c).shutdown = 1 \/ (Pending(c, "down") = 0 /\ Q(c, "down") = "ended")
  /\ Leave(c, "dr", "close")
  /\ UNCHANGED <<env, owner, para, queue, slotOf, fin, tries, mainv, peerv,
                 flowv>>

DownReaderClose(c) ==
  /\ pc[c].dr = "close"
  /\ owner' = Released(P(c).server_sid)
  /\ para' = [para EXCEPT ![slotOf[c]].server_sid = NoSid]
  /\ Goto(c, "dr", "wait")
  /\ UNCHANGED <<env, queue, slotOf, fin, tries, mainv, peerv, flowv>>

-----------------------------------------------------------------------------
\* run(): the thread that accepts.

\* setshutdown(1) by the manager, which also wakes accept
Ask == /\ env.stops
       /\ ~asked
       /\ asked' = TRUE
       /\ UNCHANGED <<env, owner, para, queue, taskv, mpc, idx, cur, last, peerv,
                      flowv>>

TestTop ==
  /\ mpc = "test"
  /\ mpc' = IF asked THEN "abort" ELSE "accept"
  /\ UNCHANGED <<env, owner, para, queue, taskv, idx, cur, last, asked, peerv,
                 flowv>>

Accept ==
  /\ mpc = "accept"
  /\ \/ /\ ~asked
        /\ cur < env.conns
        /\ cur' = cur + 1
        /\ last' = LowestUnused
        /\ owner' = [owner EXCEPT ![LowestUnused] = <<cur + 1, "client">>]
        /\ mpc' = "search"
     \/ /\ asked
        /\ last' = NoSid
        /\ mpc' = "abort"
        /\ UNCHANGED <<owner, cur>>
  /\ UNCHANGED <<env, para, queue, taskv, idx, asked, peerv, flowv>>

\* the first slot from i on that is not in use; spin while there is none
Search ==
  /\ mpc = "search"
  /\ \/ /\ para[idx].usedflag = 0
        /\ mpc' = "fill"
        /\ UNCHANGED idx
     \/ /\ para[idx].usedflag # 0
        /\ idx' = (idx + 1) % NSlots
        /\ UNCHANGED mpc
  /\ UNCHANGED <<env, owner, para, queue, taskv, cur, last, asked, peerv, flowv>>

\* connections that still have a task in the slot
Lingering == {c \in Conns : slotOf[c] = idx /\ ~Gone(c)}

\* The slot is taken.  What is kept about its connections that have gone is
\* forgotten here, to keep the state space small.
Forget(f, zero) == [c \in Conns |-> IF Gone(c) /\ slotOf[c] = idx THEN zero ELSE f[c]]

Fill ==
  /\ mpc = "fill"
  /\ env.late => Lingering = {}
  /\ para' = [para EXCEPT ![idx] =
                [usedflag |-> 1, server_sid |-> last, client_sid |-> NoSid,
                 client_closewaite |-> 0, stop_flag |-> 0, shutdown |-> 0,
                 exitFlag |-> {}]]
  /\ slotOf' = [slotOf EXCEPT ![cur] = idx]
  /\ mpc' = "create"
  /\ fin' = Forget(fin, 0)
  /\ tries' = Forget(tries, None)
  /\ read' = Forget(read, None)
  /\ sent' = Forget(sent, None)
  /\ lost' = Forget(lost, None)
  /\ given' = Forget(given, None)
  /\ closed' = Forget(closed, {})
  /\ UNCHANGED <<env, owner, queue, pc, idx, cur, last, asked>>

\* where run() goes when while (!getshutdown()) is tested
AfterTest == IF asked THEN "flags" ELSE "test"
\* A task waits until a thread of the pool takes it.  Where the server is not
\* removed that is the same as a task that is slow.
First(t) == IF env.stops THEN "ready" ELSE IF t = "ur" THEN "connect" ELSE "run"

\* createTcpRecvQueue, and the tasks are given to the pool; if a queue cannot
\* be created the loop goes on, and the slot stays in use
Create ==
  /\ mpc = "create"
  /\ mpc' = AfterTest
  /\ \/ /\ queue' = [queue EXCEPT ![idx] =
                       [d \in Dirs |-> IF d = "up" \/ ToRemote = "TCP"
                                         THEN "open" ELSE @[d]]]
        /\ pc' = [pc EXCEPT ![cur] =
                    [t \in Tasks |-> IF t \in {"uw", "ur"} \/ ToRemote = "TCP"
                                       THEN First(t) ELSE "none"]]
        /\ idx' = (idx + 1) % NSlots
     \/ /\ env.fails
        /\ queue' = [queue EXCEPT ![idx].up = "gone"]
        /\ UNCHANGED <<pc, idx>>
  /\ UNCHANGED <<env, owner, para, slotOf, fin, tries, cur, last, asked, peerv,
                 flowv>>

CloseLast(from, to) ==
  /\ mpc = from
  /\ owner' = Released(last)
  /\ last' = NoSid
  /\ mpc' = to
  /\ UNCHANGED <<env, para, queue, taskv, idx, cur, asked, peerv, flowv>>

\* end: accept_st is closed before the sessions are told
Abort == CloseLast("abort", "flags")

\* Faulty variant: the sessions are not told.
FlagsNone ==
  /\ mpc = "flags"
  /\ mpc' = "join"
  /\ UNCHANGED <<env, owner, para, queue, taskv, idx, cur, last, asked, peerv,
                 flowv>>

Flags ==
  /\ mpc = "flags"
  /\ para' = [s \in Slots |-> [para[s] EXCEPT !.shutdown = 1]]
  /\ mpc' = "join"
  /\ UNCHANGED <<env, owner, queue, taskv, idx, cur, last, asked, peerv, flowv>>

\* threadpool_destroy returns: tasks that no thread took never run
Join ==
  /\ mpc = "join"
  /\ \A c \in Conns, t \in Tasks : pc[c][t] \in {"none", "ready", "done"}
  /\ mpc' = "close"
  /\ UNCHANGED <<env, owner, para, queue, taskv, idx, cur, last, asked, peerv,
                 flowv>>

CloseAfter == CloseLast("close", "destroy")

DestroyAll ==
  /\ mpc = "destroy"
  /\ queue' = [s \in Slots |-> [d \in Dirs |-> "gone"]]
  /\ mpc' = "off"
  /\ UNCHANGED <<env, owner, para, taskv, idx, cur, last, asked, peerv, flowv>>

\* the order in which the tasks of a session are given to the pool
Rank == [uw |-> 1, ur |-> 2, dw |-> 3, dr |-> 4]

\* a thread of the pool takes a task, in the order of the queue: a reader that
\* runs after a shutdown has a writer that runs as well
Begin(c, t) ==
  /\ pc[c][t] = "ready"
  /\ \A u \in Tasks : Rank[u] < Rank[t] => pc[c][u] # "ready"
  /\ \A b \in Conns, u \in Tasks : b < c => pc[b][u] # "ready"
  /\ mpc \notin {"join", "close", "destroy", "off"}
  /\ Goto(c, t, IF t = "ur" THEN "connect" ELSE "run")
  /\ UNCHANGED <<env, owner, para, queue, slotOf, fin, tries, mainv, peerv,
                 flowv>>

-----------------------------------------------------------------------------
Uw(c) == \/ Begin(c, "uw") \/ UpRead(c) \/ UpForced(c) \/ UpClose(c)
         \/ WriterFlag(c, "uw")
Dw(c) == \/ Begin(c, "dw") \/ DownRead(c) \/ DownStop(c) \/ DownForced(c)
         \/ DownClose(c) \/ WriterFlag(c, "dw")
Ur(c) == \/ Begin(c, "ur") \/ Connect(c) \/ UpTake(c) \/ UpSend(c)
         \/ UpGiveUp(c) \/ UpLeave(c) \/ UpReaderClose(c)
         \/ CloseWait(c) \/ ReaderFlag(c, "ur")
         \/ FreeSlot(c, "ur")
Dr(c) == \/ Begin(c, "dr") \/ DownSend(c) \/ DownLeave(c)
         \/ DownReaderClose(c) \/ ReaderFlag(c, "dr")
         \/ FreeSlot(c, "dr")
Run == \/ TestTop \/ Accept \/ Search \/ Fill \/ Create
       \/ Abort \/ Flags \/ Join \/ CloseAfter \/ DestroyAll

Next == \/ Ask \/ Run
        \/ \E c \in Conns : Uw(c) \/ Ur(c) \/ Dw(c) \/ Dr(c)
        \/ \E c \in Conns, d \in Dirs : PeerCloses(c, d)

Spec == Init /\ [][Next]_vars

\* every task has a thread (ThreadPool) and no call of it blocks for ever
FairSpec == /\ Spec
            /\ WF_vars(Run)
            /\ \A c \in Conns : /\ WF_vars(Uw(c)) /\ WF_vars(Ur(c))
                                /\ WF_vars(Dw(c)) /\ WF_vars(Dr(c))

-----------------------------------------------------------------------------
\* Properties.

\* The server still serves, c has a slot and no later connection has it.
Serving == mpc \in {"test", "accept", "search", "fill", "create"}
Started(c) == \E t \in Tasks : pc[c][t] # "none"
Current(c) == slotOf[c] # -1 /\ \A b \in Conns : b > c => slotOf[b] # slotOf[c]
Proper(c) == Serving /\ Current(c)

\* Types; a queue never holds more than its capacity.
TypeOK ==
  /\ env \in Settings
  /\ owner \in [Descriptors -> {Free} \union (Conns \X Ends)]
  /\ para \in [Slots -> [usedflag : 0..1,
                         server_sid : Descriptors \union {NoSid, 0},
                         client_sid : Descriptors \union {NoSid, Failed, 0},
                         client_closewaite : 0..1, stop_flag : 0..1,
                         shutdown : 0..1, exitFlag : SUBSET Tasks]]
  /\ queue \in [Slots -> [Dirs -> {"open", "ended", "gone"}]]
  /\ slotOf \in [Conns -> Slots \union {-1}]
  /\ pc \in [Conns -> [Tasks -> {"none", "ready", "connect", "reconnect", "run",
                                 "send", "close", "closewait", "flag",
                                 "wait", "free", "done"}]]
  /\ fin \in [Conns -> {0, 2}]
  /\ tries \in [Conns -> [Dirs -> 0..MaxTries]]
  /\ mpc \in {"test", "accept", "search", "fill", "create",
              "abort", "flags", "join", "close", "destroy", "off"}
  /\ idx \in Slots
  /\ cur \in 0..MaxConns
  /\ last \in Descriptors \union {NoSid}
  /\ asked \in BOOLEAN
  /\ \A f \in {given, read, sent, lost} : f \in [Conns -> [Dirs -> 0..MaxPkts]]
  /\ closed \in [Conns -> SUBSET Ends]
  /\ \A c \in Conns, d \in Dirs : Pending(c, d) \in 0..Capacity

\* While the server serves, a task that is about to read, write or close a
\* socket does so on the socket of its own session, however the ends close and
\* whatever descriptors the system hands out again (tcp_socket.cpp:396-404,
\* 550-560).
OwnDescriptors ==
  \A c \in Conns : Proper(c) =>
    /\ (pc[c].uw = "run" /\ P(c).stop_flag = 0) \/ pc[c].uw = "close"
         => Owns(c, "client", P(c).server_sid)
    /\ pc[c].dr \in {"run", "close"} => Owns(c, "client", P(c).server_sid)
    /\ pc[c].dw \in {"run", "close"} /\ P(c).client_sid >= 0
         => Owns(c, "remote", P(c).client_sid)
    /\ pc[c].ur \in {"run", "send", "close"} /\ P(c).client_sid >= 0
         /\ P(c).stop_flag = 0
         => Owns(c, "remote", P(c).client_sid)

\* When the tasks of a session have gone both its sockets are closed: none is
\* left open by the order in which the four tasks close them.
NothingLeaks ==
  \A c \in Conns : Proper(c) /\ Started(c) /\ Gone(c) =>
    \A f \in Descriptors : owner[f][1] # c

\* Together: every socket is closed once, by its own session.
DescriptorsSound == TypeOK /\ OwnDescriptors /\ NothingLeaks

\* A session is closed only after the relay is complete: the task that sends
\* to an end leaves when the other end closed and everything it had sent was
\* sent on, or because its own end closed; packets are lost only if that end
\* has closed or calls fail (tcp_socket.cpp:362-372, 474).
RelayComplete ==
  \A c \in Conns : Proper(c) =>
    /\ pc[c].ur \in {"close", "closewait", "wait", "free", "done"} =>
         /\ Pending(c, "up") = 0
         /\ \/ AtEnd(c, "up")
            \/ "remote" \in closed[c] /\ ToRemote = "TCP"
            \/ env.fails
    /\ pc[c].dr \in {"close", "wait", "free", "done"} =>
         /\ Pending(c, "down") = 0
         /\ \/ AtEnd(c, "down")
            \/ "client" \in closed[c]
            \/ env.fails
    /\ lost[c].up > 0 => "remote" \in closed[c] \/ env.fails
    /\ lost[c].down > 0 => "client" \in closed[c] \/ env.fails

\* A slot is in use exactly while the tasks that close its sockets are there:
\* it is given back once its session can do no more harm than set exitFlag and
\* destroy its UP queue, and it is not kept by a session that has gone
\* (tcp_socket.cpp:584).
SlotGivenBack ==
  \A c \in Conns : Proper(c) /\ Started(c) =>
    /\ P(c).usedflag = 0 =>
         /\ pc[c].dw \in {"none", "done"} /\ pc[c].dr \in {"none", "done"}
         /\ pc[c].uw \in {"flag", "done"} /\ pc[c].ur \in {"wait", "done"}
         /\ ToRemote = "UDP" => Gone(c)
    /\ Gone(c) => P(c).usedflag = 0

\* "四个方向（上行读写、下行读写）0表示正在运行未退出，1表示已经退出"
\* (tcp_socket.h:19): a 1 in exitFlag says that the task of this session has
\* gone.
ExitFlagTells ==
  \A c \in Conns : Serving /\ Started(c) /\ Current(c) =>
    \A t \in P(c).exitFlag : pc[c][t] \in {"free", "done"}

\* While the task that reads the remote runs, the connection it reads is not
\* replaced by another one: the code that copes with that (tcp_socket.cpp:
\* 353-360) is never needed.
ConnectionStays ==
  [][\A c \in Conns : Proper(c) /\ pc[c].dw = "run" /\ P(c).client_sid >= 0
       /\ pc'[c].dw = "run" => P(c)'.client_sid = P(c).client_sid]_vars

\* If either end closes, the session ends as a whole: all of its tasks return,
\* in whatever order they run and whatever fails.
EitherEndEndsAll ==
  \A c \in Conns :
    (Started(c) /\ closed[c] # {}) ~> (Gone(c) \/ asked)

\* An accepted connection gets a slot once the connections that have one are
\* closed by their ends, provided no queue creation failed before.
SlotFound ==
  (mpc = "search" /\ \A c \in Conns : slotOf[c] # -1 => Gone(c) \/ closed[c] # {})
    ~> (mpc # "search" \/ env.fails \/ asked)

\* A server that is removed ends, its sessions told by para->shutdown: only the
\* search for a slot (tcp_socket.cpp:878), which does not look at shutdownFlag,
\* can hold it up, as long as no session ends.  (A reader that sleeps through
\* the broadcast, PktQueue, is left out.)
StopEnds ==
  <>[](asked => \/ mpc = "off"
                \/ mpc = "search" /\ \A s \in Slots : para[s].usedflag = 1)

\* run() comes back to accept, or ends when it is asked to.
RunGoesOn == SlotFound /\ StopEnds
=============================================================================
