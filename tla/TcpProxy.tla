------------------------------ MODULE TcpProxy ------------------------------
(***************************************************************************)
(* The two proxies of tcp_socketprox.cpp.  The forward proxy (location     *)
(* CLIENT) has two servers: browsers connect to the UP server, and what    *)
(* they send goes to the peer proxy; the peer proxy connects to the DOWN   *)
(* server with the answers.  The first packet of a DOWN connection tells   *)
(* its number (pktid), by which g_Pktid2SidInfo finds the browser's        *)
(* socket.  The reverse proxy (location SERVER) serves both directions of  *)
(* a connection in one slot: from server_sid to the origin (client_sid),   *)
(* and from there back over client_sid2.                                   *)
(*                                                                         *)
(* Each direction of a connection has a TcpProxWriteTask that reads its    *)
(* source and a TcpProxReadTask that sends to its target, with a queue     *)
(* between them (PktQueue): here a count of packets and a state.           *)
(***************************************************************************)
EXTENDS Integers, FiniteSets, FiniteSetsExt

CONSTANTS Flows,     \* the connections of browsers, numbered by pktid
          MaxPkts,   \* bound: packets that each end sends
          MaxTries,  \* failed sends of a packet that are repeated (3)
          NSlots,    \* sgg_multi_lines
          Settings   \* the environments to check, see SettingType

ASSUME FlowsAssumption == Cardinality(Flows) \in Nat /\ Flows = 1..Cardinality(Flows)
ASSUME SizesAssumption == MaxPkts \in Nat /\ MaxTries \in Nat /\ NSlots \in Nat \ {0}

\* The environment; it never changes.
\*   location  which of the proxies runs
\*   fails     connections cannot be opened, and sends fail (their far ends
\*             have closed)
\*   calm      no browser's socket is closed between the test of its number
\*             and the recv after it
\*   more      browsers send packets after the first one; at the reverse proxy:
\*             not only the first browser sends packets
\*   late      the reverse proxy's next connection takes a slot when all tasks
\*             of the last one have gone: usedflag does not wait for the UP ones
SettingType == [location : {"CLIENT", "SERVER"}, fails : BOOLEAN, calm : BOOLEAN, more : BOOLEAN,
                late : BOOLEAN]
ASSUME SettingsAssumption == Settings \subseteq SettingType

N == Cardinality(Flows)
Dirs == {"up", "down"}
Conns == 1..(2 * N)               \* n + N brings the answers of flow n
Descriptors == 1..(3 * N)
Free == <<0, "none">>
Ends == {"server", "client", "client2"}   \* the sockets of a slot

VARIABLES env,      \* the environment
          owner,    \* which socket of which connection a descriptor is
          sids,     \* g_Pktid2SidInfo: number -> the browser's socket
          para,     \* thrdpara: the slots of each server
          queue,    \* the queue of a slot and direction
          idx,      \* the slot a server's search is at
          waiting,  \* the connection a server looks for a slot for, or 0
          slotOf,   \* the slot of a connection
          writer,   \* TcpProxWriteTask: [pc, first]
          reader,   \* TcpProxReadTask: [pc, pktid, tries]
          count,    \* packets read and neither sent nor dropped
          read,     \* packets read
          closed    \* the far ends of sockets that closed

vars == <<env, owner, sids, para, queue, idx, waiting, slotOf, writer, reader, count, read, closed>>

AtClient == env.location = "CLIENT"
\* the servers, and which one a connection comes to: the reverse proxy has one
Servers == {"up", "down"}
ServerOf(c) == IF c > N THEN "down" ELSE "up"
Slots == Servers \X (0..(NSlots - 1))
NoSlot == <<"none", 0>>
NoSid == -1
Unset == -3      \* client_sid when the slot is taken

\* The tasks a connection has.
Has(c, d) == IF AtClient THEN ServerOf(c) = d ELSE c <= N

Empty == [usedflag |-> 0, server |-> 0, client |-> 0, client2 |-> 0, closewaiting |-> 0,
          stopflag |-> 0, exitFlag |-> {}]

Init ==
  /\ env \in Settings
  /\ owner = [f \in Descriptors |-> Free]
  /\ sids = [n \in {} |-> 0]
  /\ para = [s \in Slots |-> Empty]
  /\ queue = [s \in Slots |-> [d \in Dirs |-> "gone"]]
  /\ idx = [v \in Servers |-> 0] /\ waiting = [v \in Servers |-> 0]
  /\ slotOf = [c \in Conns |-> NoSlot]
  /\ writer = [c \in Conns |-> [d \in Dirs |-> [pc |-> "none", first |-> 1]]]
  /\ reader = [c \in Conns |-> [d \in Dirs |-> [pc |-> "none", pktid |-> 0, tries |-> 0]]]
  /\ count = [c \in Conns |-> [d \in Dirs |-> 0]]
  /\ read = [c \in Conns |-> [d \in Dirs |-> 0]]
  /\ closed = [c \in Conns |-> {}]

-----------------------------------------------------------------------------
(* Sockets and numbers.                                                    *)

P(c) == para[slotOf[c]]
Q(c, d) == queue[slotOf[c]][d]
Owns(c, e, f) == f \in Descriptors /\ owner[f] = <<c, e>>
Unused == Min({f \in Descriptors : owner[f] = Free})
Opened(c, e) == [owner EXCEPT ![Unused] = <<c, e>>]
Released(f) == IF f \in Descriptors THEN [owner EXCEPT ![f] = Free] ELSE owner

\* getSocketIdByPktId (HashBucketSearch)
SidOf(n) == IF n \in DOMAIN sids THEN sids[n] ELSE NoSid
\* insetSocketIdByPktId: a number that is known is not changed (HashBucketInsert)
Inserted(n, f) == [m \in DOMAIN sids \cup {n} |-> IF m \in DOMAIN sids THEN sids[m] ELSE f]
\* deleteSocketIdByPktId (HashBucketRemove)
Deleted(n) == [m \in DOMAIN sids \ {n} |-> sids[m]]

W(c, d, pc) == writer' = [writer EXCEPT ![c][d].pc = pc]
R(c, d, pc) == reader' = [reader EXCEPT ![c][d].pc = pc]
Set(c, field, value) == para' = [para EXCEPT ![slotOf[c]][field] = value]

Gone(c) == \A d \in Dirs : writer[c][d].pc \in {"none", "done"} /\ reader[c][d].pc \in {"none", "done"}
Started(c) == slotOf[c] # NoSlot

-----------------------------------------------------------------------------
(* Connections, and the servers that accept them.                          *)

\* A browser connects to the forward proxy, and that one to the reverse proxy;
\* the answers to flow n come on connection n + N, when its packets were sent.
Comes(c) ==
  /\ slotOf[c] = NoSlot
  /\ IF c <= N THEN \A b \in 1..(c - 1) : slotOf[b] # NoSlot
     ELSE AtClient /\ read[c - N].up > count[c - N].up
  /\ \A v \in Servers : waiting[v] # c

Accept(c) ==
  /\ Comes(c) /\ waiting[ServerOf(c)] = 0
  /\ owner' = Opened(c, "server")
  /\ waiting' = [waiting EXCEPT ![ServerOf(c)] = c]
  /\ UNCHANGED <<env, sids, para, queue, idx, slotOf, writer, reader, count, read, closed>>

\* the search for a free slot spins
Search(v) ==
  /\ waiting[v] # 0 /\ para[<<v, idx[v]>>].usedflag # 0
  /\ idx' = [idx EXCEPT ![v] = (@ + 1) % NSlots]
  /\ UNCHANGED <<env, owner, sids, para, queue, waiting, slotOf, writer, reader, count, read, closed>>

\* The descriptor that accept gave for c; any, when a task that an early
\* refill left behind has closed it.
Accepted(c) == LET own == {f \in Descriptors : owner[f] = <<c, "server">>}
               IN IF own = {} THEN Descriptors ELSE own

\* The slot is taken, its queues are created and its tasks given to the pool.
\* The reverse proxy does not clear exitFlag: its bzero takes the loop's i, which
\* is past the last slot.  Where the UP tasks of the last connection still run
\* (not env.late) they go on with the new one's sockets, flags and queue: a queue
\* that is still there is kept, and whose packets a task then takes is not told.
Fill(v) ==
  LET s == <<v, idx[v]>>
      c == waiting[v]
  IN /\ c # 0 /\ para[s].usedflag = 0
     /\ ~AtClient /\ env.late => \A b \in Conns : slotOf[b] = s => Gone(b)
     /\ \E f \in Accepted(c) :
          para' = [para EXCEPT ![s] =
            [Empty EXCEPT !.usedflag = 1, !.server = f, !.client = Unset, !.client2 = Unset,
                          !.exitFlag = IF AtClient THEN {} ELSE para[s].exitFlag]]
     /\ queue' = [queue EXCEPT ![s] = [d \in Dirs |-> IF Has(c, d) THEN "open" ELSE @[d]]]
     /\ slotOf' = [slotOf EXCEPT ![c] = s]
     /\ writer' = [writer EXCEPT ![c] = [d \in Dirs |->
          IF ~Has(c, d) THEN @[d] ELSE [@[d] EXCEPT !.pc = IF AtClient /\ d = "up" THEN "insert" ELSE "run"]]]
     /\ reader' = [reader EXCEPT ![c] = [d \in Dirs |->
          IF Has(c, d) THEN [@[d] EXCEPT !.pc = "run"] ELSE @[d]]]
     /\ waiting' = [waiting EXCEPT ![v] = 0]
     /\ idx' = [idx EXCEPT ![v] = (@ + 1) % NSlots]
     /\ UNCHANGED <<env, owner, sids, count, read, closed>>

\* The far end of a socket that is read closes; an answer comes before.
Closes(c, e) ==
  /\ e \notin closed[c] /\ (e = "server" \/ (e = "client" /\ ~AtClient)) /\ \E f \in Descriptors : owner[f] = <<c, e>>
  /\ e = "server" /\ AtClient /\ c > N => read[c].down > 0
  /\ closed' = [closed EXCEPT ![c] = @ \cup {e}]
  /\ UNCHANGED <<env, owner, sids, para, queue, idx, waiting, slotOf, writer, reader, count, read>>

-----------------------------------------------------------------------------
(* TcpProxWriteTask.                                                       *)

\* which socket a writer reads
Source(c, d) == IF ~AtClient /\ d = "down" THEN "client" ELSE "server"
Sid(c, d) == P(c)[Source(c, d)]

Insert(c) ==
  /\ writer[c].up.pc = "insert"
  /\ sids' = Inserted(c, P(c).server)
  /\ W(c, "up", "run")
  /\ UNCHANGED <<env, owner, para, queue, idx, waiting, slotOf, reader, count, read, closed>>

\* a turn of the loop, whose queue has room in the end
Turn(c, d) == writer[c][d].pc = "run" /\ Q(c, d) # "gone"

\* the end marker is the last packet
End(c, d) == /\ queue' = [queue EXCEPT ![slotOf[c]][d] = "ended"]
             /\ W(c, d, "end")
             /\ UNCHANGED <<count, read>>
Packet(c, d, pc) == /\ read' = [read EXCEPT ![c][d] = @ + 1]
                    /\ count' = [count EXCEPT ![c][d] = @ + 1]
                    /\ writer' = [writer EXCEPT ![c][d] = [pc |-> pc, first |-> 0]]
                    /\ UNCHANGED queue
\* packets the source may still send; the first one of an UP connection at the
\* forward proxy is not from the source
More(c, d) ==
  read[c][d] < IF AtClient THEN (IF d = "down" THEN MaxPkts ELSE IF env.more THEN 1 + MaxPkts ELSE 1)
               ELSE (IF env.more \/ (c = 1 /\ d = "up") THEN MaxPkts ELSE 0)

\* recv: a packet, also one that was sent to another, or the end
Recv(c, d) ==
  \/ Sid(c, d) \in Descriptors /\ owner[Sid(c, d)] # Free /\ More(c, d) /\ Packet(c, d, "run")
  \/ (Source(c, d) \in closed[c] \/ ~Owns(c, Source(c, d), Sid(c, d))) /\ End(c, d)
RecvNothing(c) == "server" \notin closed[c] /\ W(c, "up", "run") /\ UNCHANGED <<queue, count, read>>

\* Faulty variant: the forward proxy reads without looking its number up.
TestNot(c) ==
  /\ AtClient /\ Turn(c, "up")
  /\ IF writer[c].up.first = 1 THEN Packet(c, "up", "run") ELSE Recv(c, "up")
  /\ UNCHANGED <<env, owner, sids, para, idx, waiting, slotOf, reader, closed>>

\* The forward proxy looks the number up first: once it is deleted the socket
\* may be another's.  The first packet is made up (addTcpProxDetectPkt).
Test(c) ==
  /\ AtClient /\ Turn(c, "up")
  /\ IF P(c).server # SidOf(c) THEN End(c, "up")
     ELSE IF writer[c].up.first = 1 THEN Packet(c, "up", "run")
     ELSE IF env.calm THEN Recv(c, "up")
     ELSE W(c, "up", "recv") /\ UNCHANGED <<queue, count, read>>
  /\ UNCHANGED <<env, owner, sids, para, idx, waiting, slotOf, reader, closed>>

UpRecv(c) ==
  /\ writer[c].up.pc = "recv"
  /\ Recv(c, "up") \/ RecvNothing(c)
  /\ UNCHANGED <<env, owner, sids, para, idx, waiting, slotOf, reader, closed>>

\* the reverse proxy, and DOWN
DoRecv(c, d) ==
  /\ ~(AtClient /\ d = "up") /\ Turn(c, d)
  /\ d = "up" => P(c).stopflag = 0
  /\ d = "down" => P(c).closewaiting = 0 /\ Sid(c, d) >= 0
  /\ Recv(c, d)
  /\ UNCHANGED <<env, owner, sids, para, idx, waiting, slotOf, reader, closed>>

\* recvTcpProxUpDataPre, recvTcpProxDownDataPre: the other direction of the
\* reverse proxy's slot has ended
Told(c, d) ==
  /\ ~AtClient /\ Turn(c, d)
  /\ IF d = "up" THEN P(c).stopflag = 1 ELSE P(c).closewaiting = 1
  /\ End(c, d)
  /\ UNCHANGED <<env, owner, sids, para, idx, waiting, slotOf, reader, closed>>

\* the origin sent nothing for 30 s
Timeout(c) ==
  /\ ~AtClient /\ Turn(c, "down") /\ P(c).closewaiting = 0 /\ P(c).client >= 0
  /\ End(c, "down")
  /\ UNCHANGED <<env, owner, sids, para, idx, waiting, slotOf, reader, closed>>

\* Faulty variant: DOWN clears client_sid, so that UP opens another one (the
\* fault that the comment of 2020/04/03, tcp_socketprox.cpp:386, tells of).
WriterCloseClears(c, d) ==
  /\ writer[c][d].pc = "end"
  /\ IF AtClient /\ d = "up" /\ writer[c].up.first = 0
     THEN UNCHANGED <<owner, para>>
     ELSE /\ owner' = Released(Sid(c, d))
          /\ para' = [para EXCEPT ![slotOf[c]][Source(c, d)] = NoSid,
                                  ![slotOf[c]].closewaiting =
                                     IF ~AtClient /\ d = "up" /\ writer[c].up.first = 1 THEN 1 ELSE @]
  /\ W(c, d, "flag")
  /\ UNCHANGED <<env, sids, queue, idx, waiting, slotOf, reader, count, read, closed>>

\* A writer closes what it has read, except the browser's socket: only when
\* it read nothing from it.  client_sid keeps its value.
WriterClose(c, d) ==
  /\ writer[c][d].pc = "end"
  /\ IF AtClient /\ d = "up" /\ writer[c].up.first = 0
     THEN UNCHANGED <<owner, para>>
     ELSE /\ owner' = Released(Sid(c, d))
          /\ para' = IF ~AtClient /\ d = "down" THEN para
                     ELSE [para EXCEPT ![slotOf[c]].server = NoSid,
                                       ![slotOf[c]].closewaiting =
                                          IF ~AtClient /\ writer[c].up.first = 1 THEN 1 ELSE @]
  /\ W(c, d, "flag")
  /\ UNCHANGED <<env, sids, queue, idx, waiting, slotOf, reader, count, read, closed>>

WriterFlag(c, d) ==
  /\ writer[c][d].pc = "flag"
  /\ Set(c, "exitFlag", P(c).exitFlag \cup {d})
  /\ W(c, d, "done")
  /\ UNCHANGED <<env, owner, sids, queue, idx, waiting, slotOf, reader, count, read, closed>>

Writer(c, d) ==
  \/ d = "up" /\ (Insert(c) \/ Test(c) \/ UpRecv(c))
  \/ d = "down" /\ Timeout(c)
  \/ DoRecv(c, d) \/ Told(c, d) \/ WriterClose(c, d) \/ WriterFlag(c, d)

-----------------------------------------------------------------------------
(* TcpProxReadTask.                                                        *)

\* which socket a reader sends to: the forward proxy's DOWN reader to one that
\* belongs to the browser
Target(c, d) == IF ~AtClient /\ d = "down" THEN "client2" ELSE "client"
ToBrowser(c, d) == AtClient /\ d = "down"
Pending(c, d) == reader[c][d].pc = "run" /\ Q(c, d) # "gone" /\ count[c][d] > 0

\* A packet is taken; checkTcpClientSocketAlive opens the socket.
Take(c, d) ==
  /\ Pending(c, d) /\ ~ToBrowser(c, d)
  /\ IF P(c)[Target(c, d)] >= 0 THEN UNCHANGED <<owner, para>>
     ELSE \/ owner' = Opened(c, Target(c, d)) /\ Set(c, Target(c, d), Unused)
          \/ env.fails /\ Set(c, Target(c, d), NoSid) /\ UNCHANGED owner
  /\ R(c, d, "send")
  /\ UNCHANGED <<env, sids, queue, idx, waiting, slotOf, writer, count, read, closed>>

\* The first packet tells the number, and that the socket.
TakeAnswer(c) ==
  /\ Pending(c, "down") /\ ToBrowser(c, "down")
  /\ IF reader[c].down.pktid # 0 THEN R(c, "down", "send") /\ UNCHANGED para
     ELSE /\ reader' = [reader EXCEPT ![c].down.pc = "send", ![c].down.pktid = c - N]
          /\ Set(c, "client", SidOf(c - N))
  /\ UNCHANGED <<env, owner, sids, queue, idx, waiting, slotOf, writer, count, read, closed>>

\* the socket a reader sends to is its own and its far end is there
Browser(c) == reader[c].down.pktid
Reaches(c, d) ==
  IF ToBrowser(c, d)
  THEN Browser(c) # 0 /\ Owns(Browser(c), "server", P(c).client) /\ "server" \notin closed[Browser(c)]
  ELSE Owns(c, Target(c, d), P(c)[Target(c, d)]) /\ Target(c, d) \notin closed[c]

\* send_tcpdata; one that fails is repeated, then the packet is dropped
Send(c, d) ==
  /\ reader[c][d].pc = "send"
  /\ \/ Reaches(c, d) /\ reader' = [reader EXCEPT ![c][d].pc = "run", ![c][d].tries = 0]
        /\ count' = [count EXCEPT ![c][d] = @ - 1]
     \/ (~Reaches(c, d) \/ env.fails) /\ reader[c][d].tries < MaxTries
        /\ reader' = [reader EXCEPT ![c][d].pc = "run", ![c][d].tries = @ + 1]
        /\ UNCHANGED count
     \/ (~Reaches(c, d) \/ env.fails) /\ reader[c][d].tries = MaxTries
        /\ reader' = [reader EXCEPT ![c][d].pc = "run", ![c][d].tries = 0]
        /\ count' = [count EXCEPT ![c][d] = @ - 1]
  /\ UNCHANGED <<env, owner, sids, para, queue, idx, waiting, slotOf, writer, read, closed>>

\* the end marker
Leave(c, d) ==
  /\ reader[c][d].pc = "run" /\ Q(c, d) = "ended" /\ count[c][d] = 0
  /\ R(c, d, IF ToBrowser(c, d) THEN "delete" ELSE "close")
  /\ UNCHANGED <<env, owner, sids, para, queue, idx, waiting, slotOf, writer, count, read, closed>>

\* Faulty variant: the number is not deleted.
DeleteNot(c) ==
  /\ reader[c].down.pc = "delete"
  /\ R(c, "down", "close")
  /\ UNCHANGED <<env, owner, sids, para, queue, idx, waiting, slotOf, writer, count, read, closed>>

\* The browser's number is deleted before its socket is closed.
Delete(c) ==
  /\ reader[c].down.pc = "delete"
  /\ sids' = Deleted(Browser(c))
  /\ R(c, "down", "close")
  /\ UNCHANGED <<env, owner, para, queue, idx, waiting, slotOf, writer, count, read, closed>>

\* A reader closes what it sent to, but not the origin's socket: DOWN still
\* reads that.
ReaderClose(c, d) ==
  /\ reader[c][d].pc = "close"
  /\ IF ~AtClient /\ d = "up" THEN UNCHANGED <<owner, para>>
     ELSE /\ owner' = Released(P(c)[Target(c, d)])
          /\ para' = [para EXCEPT ![slotOf[c]][Target(c, d)] = Unset,
                                  ![slotOf[c]].stopflag = IF d = "down" THEN 1 ELSE @]
  /\ R(c, d, "wait")
  /\ UNCHANGED <<env, sids, queue, idx, waiting, slotOf, writer, count, read, closed>>

\* The writer has gone, or the reverse proxy's last session left exitFlag
\* set: the queue is destroyed, and the slot is free unless DOWN still has it.
Finish(c, d) ==
  /\ reader[c][d].pc = "wait" /\ d \in P(c).exitFlag
  /\ queue' = [queue EXCEPT ![slotOf[c]][d] = "gone"]
  /\ Set(c, "usedflag", IF AtClient \/ d = "down" THEN 0 ELSE P(c).usedflag)
  /\ R(c, d, "done")
  /\ UNCHANGED <<env, owner, sids, idx, waiting, slotOf, writer, count, read, closed>>

Reader(c, d) ==
  \/ d = "down" /\ (TakeAnswer(c) \/ Delete(c))
  \/ Take(c, d) \/ Send(c, d) \/ Leave(c, d) \/ ReaderClose(c, d) \/ Finish(c, d)

-----------------------------------------------------------------------------
Next ==
  \/ \E c \in Conns : Accept(c)
  \/ \E v \in Servers : Search(v) \/ Fill(v)
  \/ \E c \in Conns, e \in Ends : Closes(c, e)
  \/ \E c \in Conns, d \in Dirs : Writer(c, d) \/ Reader(c, d)

Spec == Init /\ [][Next]_vars

\* Every task has a thread of the pool, and no call of it blocks for ever.
FairSpec == /\ Spec
            /\ \A v \in Servers : WF_vars(Search(v) \/ Fill(v))
            /\ \A c \in Flows : WF_vars(Writer(c, "up")) /\ WF_vars(Reader(c, "up"))
            /\ \A c \in Conns : WF_vars(Writer(c, "down")) /\ WF_vars(Reader(c, "down"))

-----------------------------------------------------------------------------
\* What each variable holds.
TypeOK ==
  /\ env \in Settings
  /\ owner \in [Descriptors -> {Free} \cup (Conns \X Ends)]
  /\ DOMAIN sids \subseteq Flows /\ \A n \in DOMAIN sids : sids[n] \in Descriptors
  /\ para \in [Slots -> [usedflag : 0..1, server : Descriptors \cup {NoSid, 0},
                         client : Descriptors \cup {NoSid, Unset, 0},
                         client2 : Descriptors \cup {NoSid, Unset, 0},
                         closewaiting : 0..1, stopflag : 0..1, exitFlag : SUBSET Dirs]]
  /\ queue \in [Slots -> [Dirs -> {"open", "ended", "gone"}]]
  /\ idx \in [Servers -> 0..(NSlots - 1)] /\ waiting \in [Servers -> Conns \cup {0}]
  /\ slotOf \in [Conns -> Slots \cup {NoSlot}]
  /\ writer \in [Conns -> [Dirs -> [pc : {"none", "insert", "run", "recv", "end", "flag", "done"}, first : 0..1]]]
  /\ reader \in [Conns -> [Dirs -> [pc : {"none", "run", "send", "delete", "close", "wait", "done"},
                                    pktid : Flows \cup {0}, tries : 0..MaxTries]]]
  /\ count \in [Conns -> [Dirs -> 0..(MaxPkts + 1)]] /\ read \in [Conns -> [Dirs -> 0..(MaxPkts + 1)]]
  /\ closed \in [Conns -> SUBSET Ends]

\* No slot is refilled while tasks of the last connection run: the forward proxy
\* sees to that itself, the reverse proxy does not (see Fill).
Sound == AtClient \/ env.late

\* Where no slot is refilled early, a task reads, sends to and closes only
\* sockets of its own flow, although the descriptors of closed ones are handed
\* out again at once: the forward proxy reads no other browser's stream
\* (tcp_socketprox.cpp:275, as long as no socket is closed between the test and
\* the recv) and sends no answer to another browser; the reverse proxy reads and
\* closes only its own sockets.  (Its UP reader may send to a client_sid that
\* DOWN has closed; refilled early, its old UP writer reads and closes the next
\* connection's socket, lines 290-293 and 374-375.)
OwnStream ==
  /\ [](Sound => \A c \in Conns : Started(c) =>
       /\ \A d \in Dirs : ~(AtClient /\ d = "up") /\ writer[c][d].pc \in {"run", "end"} /\ Sid(c, d) >= 0
            => Owns(c, Source(c, d), Sid(c, d))
       /\ reader[c].down.pc \in {"send", "delete", "close"} /\ P(c)[Target(c, "down")] >= 0 =>
            IF AtClient THEN Owns(Browser(c), "server", P(c).client) ELSE Owns(c, "client2", P(c).client2)
       /\ reader[c].up.pc = "send" /\ writer[c].down.pc \in {"none", "run"} /\ P(c).client >= 0
            => Owns(c, "client", P(c).client))
  /\ [][Sound /\ env.calm =>
          \A n \in Flows : read[n].up # read'[n].up => Owns(n, "server", P(n).server)]_vars

\* Where no slot is refilled early: when the tasks of a session have gone, its
\* sockets are closed and its slot is free; the browser's socket and number go
\* with the session that brought its answers (and stay when there is none).  The
\* forward proxy never gives a slot away under a running task.
NothingLeaks ==
  /\ TypeOK
  /\ Sound => \A c \in Conns : Started(c) /\ Gone(c) =>
       /\ \A f \in Descriptors : owner[f][1] = c => AtClient /\ c <= N /\ owner[f][2] = "server"
       /\ (\A b \in Conns : slotOf[b] = slotOf[c] => Gone(b)) => P(c).usedflag = 0
  /\ AtClient => \A n \in Flows : Started(n + N) /\ Gone(n + N) =>
       n \notin DOMAIN sids /\ \A f \in Descriptors : owner[f] # <<n, "server">>
  /\ AtClient => \A c \in Conns : Started(c) /\ P(c).usedflag = 0 => Gone(c)

\* Where no slot is refilled early, an end is passed on to every task of the
\* flow: when the peer proxy closes the answers, the forward proxy's four tasks
\* return; a reverse session whose origin was reached, or whose first packet
\* never came, returns.
EndReachesAll ==
  <>[](Sound => \A n \in Flows :
         IF AtClient
         THEN Started(n + N) /\ "server" \in closed[n + N] => Gone(n) /\ Gone(n + N)
         ELSE Started(n) /\ (P(n).client >= 0 \/ (read[n].up = 0 /\ "server" \in closed[n])) => Gone(n))
=============================================================================
