# A TLA+ model of the gateway

`sgg_app` forwards TCP and UDP channels between the two boxes of a network
gateway. One box runs with `location` CLIENT, the other with SERVER; a channel
is a listening socket on one side and a remote address on the other. Where the
boxes are connected by a one-way or lossy link, a TCP channel is carried over
UDP with a header, acknowledgements and retransmission ("the tunnel"). The
program is written with pthreads, blocking sockets with short timeouts, and
flags shared between threads, many of them read without a lock. This directory
models that concurrent core, checks it with TLC on small instances and proves
parts of it with TLAPS for every size.

## 1. Inventory

| Component | State | Operations | Talks to |
| --- | --- | --- | --- |
| Ring buffer, `sgg_stack.cpp` | `top`, `buttom`, the blocks | push (reserves a block), take back, pop, put back, find, drop through, traverse, clear | used by every queue and cache below |
| Hand-off, `TCPRecvDataQueue` / `UDPRecvDataQueue` in `sgg_manage.h`, loops in `tcp_socket.cpp`, `udp_socket.cpp`, `tcp_socketprox.cpp` | two rings, `wpos`, `rpos`, mutex, condition variable, `shutdown` | receive into a ring, hand the ring over, wait for a ring, send, put back | a receiving thread and a sending thread |
| Thread pool, `threadpool.cpp` | `threads`, `thrdpara[].index`, counters, `task_queue`, `shutdown` | create, add task, worker loop, administrator, destroy | every TCP server and the proxies |
| TCP session, `tcp_socket.cpp` | a `tcp_thread_para` slot: descriptors, `usedflag`, `stop_flag`, `client_closewaite`, `exitFlag[4]` | four tasks: UP/DOWN writer and reader; close protocol | hand-off, thread pool, tunnel |
| TCP server, `tcp_server_obj`, `tcp_server_manage` | slots, `runFlag`, `shutdown`; map of servers under a rwlock | accept, stop, add, remove, supervise every 30 s | command channel, sessions |
| Tunnel sender, `send_udpdata` and `UdpFlowControl` in `udp_socket.cpp` | per socket: a cache of the last `UDP_PACKET_ORDER_LEN_MAX` (100) packets, heartbeat counter | number, cache and send; on an answer drop what is acknowledged or send again; give up after a timeout; close when all is acknowledged | tunnel receiver over UDP |
| Tunnel receiver, `udp_server_obj` | reassembly slots (`InitOnePackQueue`: `waiting`, buffered packets, bitmap), `pid2sid`, client sockets | deliver in order, buffer, acknowledge, request, skip (no heartbeat), reclaim when idle | tunnel sender, remote UDP or TCP server |
| UDP servers, `udp_server_manage` | map of servers, `runFlag`, `shutdown` | add, remove, supervise | command channel |
| Proxy, `tcp_socketprox.cpp` | slots as for a session, packet id to socket map | forward proxy, reverse proxy | hand-off, thread pool |
| Audit, `sgg_audit.cpp` | statistics per 5-tuple, RTP state | count, report, detect an RTP codec, white frames | tunnel receiver, command channel |
| Command channel, `sgg_comm.cpp` | one connection, receive buffer, handlers by module | receive, dispatch, reply | server managers, audit |
| Bitmap, `sgg_bitmap.cpp` | an array of bits | set, get, clear, all set | tunnel receiver |
| Start-up, `main.cpp`, `sgg_admin_process` in `sgg_manage.cpp` | the configuration | read it, make the servers, supervise them | server managers, command channel |
| I/O and vendored code: `utils.cpp`, `log.cpp`, `easylogging++`, `cJSON`, `sgg_test.cpp` | | | not modelled |

What makes each one correct, and what is hard about it:

- *Ring buffer.* It is a bounded queue wherever the indices wrap. A popped
  block keeps its contents until a push takes its place.
- *Hand-off.* A first-in first-out channel. The writer compares `wpos` with
  `rpos` outside the lock; blocks are visible before they are filled; the
  reader waits without a predicate; shutdown may come at any moment.
- *Thread pool.* Each task once and in order; workers are joined before the
  pool is freed; nobody waits for ever. `shutdown` is set and broadcast without
  the lock; the administrator adds workers meanwhile; `pthread_create` may fail.
- *TCP session.* Every order of closes ends all four tasks; a slot is reused
  only when no task of its former session can still touch it.
- *Servers and managers.* Removing waits for the server; a stopped server that
  was not removed comes back; the supervisor and a removal do not collide.
- *Tunnel.* Over a link that loses and reorders packets the receiver should
  deliver a prefix of what was sent and, in the end, everything. Numbers are
  compared modulo the window of 100 only, so every mix-up between a packet and
  the one a window later counts; both ends act on timeouts of their own.
- *Reassembly slots.* A slot serves one flow at a time although the receiver
  and the idle reclaim free it from two threads.
- *Proxy.* As for a session; a taken slot should start with clean flags and no
  task of its last connection, neither of which the reverse proxy sees to.
- *Audit, command channel, bitmap.* Mostly sequential: keys, ranges, framing.

`PROJECT.json` lists the hazards one by one, each at its line.

## 2. Modules

| Module | Models | State and actions against the code |
| --- | --- | --- |
| `BoundedFifo` | what a ring promises | abstract specification |
| `SggStack` | `sgg_stack.cpp` | `ring` is the `STACK`; one operator per function, one action per call that changes the ring |
| `FifoChannel` | what a hand-off promises | abstract specification with an end marker and packets given up |
| `PktQueue` | `addTcpWriteTask` and `addTcpReadTask` around one queue | `W...` actions are the steps of the writer between two accesses to shared state, `R...` those of the reader; rings are sequences |
| `QueueProofs` | theorems about `SggStack` and `PktQueue` | |
| `ThreadPool` | `threadpool.cpp` and how `run()` of a server uses it | actions of a worker, the administrator and the owner; the step between testing a predicate and sleeping is explicit |
| `WindowChannel` | what the tunnel promises a TCP channel | abstract specification: a prefix, at most a window behind |
| `UdpFlow` | one flow through the tunnel: `send_udpdata`, `UdpFlowControl`, `udpRecvHeartTask`, the SERVER branch of `thread_pktsend`, the idle check | see below |
| `UdpSessions` | the tables that the flows of one UDP server share: `thread_pktsend`, `check_clientsocket`, `GetPktQueuePos` | `slots` is `socketIds`, with `pid2sid`, `flags` (`pktFlagmap`), `queues`; `sender` and `check` are the two threads, one step per critical section |
| `TcpSession` | `tcp_server_obj::run` and the four tasks of a session | `para` is `bufMap`; `owner` says which socket a descriptor is now, so that a descriptor that is closed and handed out again is told from the old one; tasks `uw`, `ur`, `dw`, `dr` |
| `TcpProxy` | the tasks and slots of `tcp_socketprox.cpp` at both sides | as `TcpSession`, with `sids` for `g_Pktid2SidInfo` |
| `ServerManage` | the two managers of servers, `sgg_admin_process`, the add and remove commands | `servers` is the map, `thread` the server threads, `rwlock` who holds the lock of that name, `todo` what a loop over the map has still to visit |
| `Audit` | `sgg_audit.cpp` and the list types in `sgg_manage.h` | `nodes`, `coding`, `media` are the lists; `server` is what the receiving thread of a server has done with its packet, one step per lock |
| `CommConn` | `serverCommObj::run` and `comm_threadmsgproc` | `slot` is `bufMap`, `task` the receive loop with its pointer and counter, `made` and `back` what was executed and answered |
| `ServerProofs` | theorems about `ThreadPool` and `ServerManage`, the threads of a server and the server threads | |
| `TcpSessionProofs`, `TcpProxyProofs`, `UdpFlowProofs`, `UdpSessionsProofs`, `AuditProofs`, `CommConnProofs` | theorems about these modules | |
| `MC...` | the settings the modules are checked in | |

Where a component runs in several settings (client or server side, heartbeat or
not, with or without failures) the setting is a variable that never changes
(`env`, `scarce`), so that one run covers them all. In the modules some
definitions are headed *Faulty variant*: such an operator is not part of
the specification. It is what the definition after it would be with a plausible
mistake, and each property of a run is violated when one of them takes the
place of the right one.

**Composition** is by contract: a module relies on what another one shows.

- `PktQueue` needs of its ring what `SggStack` shows. `TcpSession` and `TcpProxy`
  need of a queue what `PktQueue` shows (FIFO, the end marker once and last,
  nothing unfilled), and so represent it by how much it holds and whether it is
  open, ended or destroyed.
- The tasks of `TcpSession`, `TcpProxy` and `CommConn` are tasks of `ThreadPool`.
- A reader of a TCP channel over the tunnel takes from a `FifoChannel` what
  `UdpFlow` sends (`Send`), and ends the flow (`Finish`) when it takes the end marker.
- `UdpFlow` takes for granted that a flow has a position, a queue and a socket of
  its own; `UdpSessions` is about how it gets and loses them, and leaves
  aside what is sent.
- `ServerManage` lets a server leave its loop when it is told to: `StopEnds`
  of `TcpSession`.
- What a request to `CommConn` does is `ServerManage`'s (add, remove) and
  `Audit`'s (report, list). A server that `ServerManage` stops removes its
  entries as `Audit` says (`RemoveAudit`, `RemoveCoding`).

**`PktQueue`** models the loops of a TCP session to a TCP remote. The loops of
`thread_udppktrecv`/`thread_pktsend` and of `tcp_socketprox.cpp` do the same
with the same kind of queue. A packet is its number. The send is a success or a
failure, a failure being retried `MaxTries` times (three in the code).

**`ThreadPool`**: a session is a pair of tasks, as for a UDP remote. The writer
of the pair cannot return before its reader runs (its rings fill up), and the
reader returns after the writer (`exitFlag`), so two workers are needed at once.
`scarce`, which never changes, says whether `pthread_create` may fail.

**`UdpFlow`**: the contents of a packet are its position in the flow, `cache` is
`pktBufStack`, `buf` the buffered packets of the flow's reassembly slot (`bit`,
`lenMap`, `buf`), `waiting` the position modulo `Window` the receiver waits for,
`down` and `up` what is on its way. The sender's actions are `Send`, `Refuse` (a
full cache refuses a datagram, which is popped again and numbered anew),
`GiveUp`, `Finish` and `Close`; `udpRecvHeartTask` is `HeartAck`,
`HeartRequest`, `NobodyListens` and, packet by packet, `Resend`; the receiver is
`Receive`, whose four cases `Deliver`, `WindowEnd`, `Skip` and `Keep` are the
branches of `thread_pktsend`, then `DropEnd` and `IdlePeriod`.

**`TcpSession`**: `uw` (UP writer) reads the client's socket, `ur` sends to the
remote and is the task that connects to it, `dw` reads the remote, `dr` sends to
the client. An end travels from the client through `ur` (which closes
`client_sid` and raises `client_closewaite`) to `dw` and `dr`, or from the remote
through `dr` (which raises `stop_flag`) to `uw` and `ur`; `dr` alone, or `ur` with a
UDP remote, gives the slot back. `run()` is `TestTop`, `Accept`, `Search`, `Fill`,
`Create`, `Abort`, then, when asked to stop, `Flags` to `DestroyAll`.

**`ServerManage`**: a server is a record of `thrId`, `runFlag` and its shutdown
flag; its thread is `new`, `up`, `ending` or gone. The TCP and the UDP manager are
the same code but for two places, and `env.kind` tells them apart there:
the end of the UDP manager does not join its servers (udp_socket.cpp:2217), and
`init()` of a UDP server leaves `shutdown` as it was.

**`TcpProxy`**: the forward proxy has two servers, one for browsers and one for the
peer proxy's answers; a flow therefore has two sessions, tied by the number in
the first packet of the second. The reverse proxy has one session per flow. Its slot
is free when the DOWN reader says so (tcp_socketprox.cpp:554), which does not wait
for the UP tasks: `Fill` may take it while these still run, and they go on with the flags,
the queue and the `server_sid` of the next connection. `env.late` is the setting in which that
does not happen. The forward proxy's tasks share no slot with another direction.

**`CommConn`**: a request is a head and a body, together `msgLen` units, a number of its own for
each request, as an add request grows with its servers. `HeadAfter` is what lies at the start of the
buffer after a `recv`, `Count` the length received on the connection so far, which is never reset;
`made` adds up how many of its units a request was executed with.

## 3. Runs

| Run | Shows | Bounds |
| --- | --- | --- |
| `sgg_stack` | the ring refines `BoundedFifo`; searches and traversal see exactly the blocks in use | ring of 4 (so indices wrap and full, half-full and empty all occur), 3 contents |
| `pktqueue` | the hand-off refines `FifoChannel`; with a shutdown at any moment no unfilled block is sent, ring ownership, the writer leaves; without one every packet gets through or is given up and the end marker stops both threads (`ThreadsEnd`) | rings of 2 blocks, 4 packets (each ring is filled and handed over several times), 1 retry |
| `threadpool` | tasks once and in order, exact busy count, `threads[]` and the lock right when `pthread_create` may fail; when it does not, the pool is freed last, and every task returns although there is one worker to begin with for two tasks that need each other | 1 to 2 workers, queue of 1, 1 session at a time, 4 tasks, 2 failures of `pthread_create` |
| `udpflow` | see below | window of 4, numbers modulo 8, up to 9 packets, 3 idle periods |
| `tcpsession` | every order of closes ends all four tasks, the relay is complete, each socket is closed once by its own session, the slot is given back; `run()` goes on or ends | 1 slot, so that the next connection needs the slot of the last; queues of 2; 2 connections; 2 packets from each end, which fill a queue; 1 retry; 5 environments |
| `servermanage` | one thread per server, none left behind, a removed server stays away, commands return, a failed server comes back | 2 ports, 3 threads, one task of the command channel with 2 commands; 4 settings |
| `udpsessions` | sockets are kept in their slots and given back, a packet leaves by a socket of its own flow | 3 flows; 3, 2 or 1 slots, so that the table is full in some settings; 2 reassembly queues, so that one is taken from its flow; 1 idle check; 3 numbers; 7 settings |
| `tcpproxy` | no task touches the stream of another flow, an end reaches every task, sockets, numbers and slots are given back, unless a slot of the reverse proxy is refilled under running tasks | 2 flows, 1 packet, 1 slot per server, so that the next connection needs the slot of the last; 1 retry; descriptors are reused at once; 4 settings |
| `audit` | the lists agree with what was heard while servers come and go; white frames lie where the stream demands them for every way it is cut | 2 sources, 2 destinations (interchangeable), unit of 3, up to 7 bytes: two periods and more; 6 settings |
| `commconn` | no request is executed twice, a later one only when it is longer and after silent ones, a task serves and closes its own connection only, a first request that arrives in one piece is answered | 3 connections, 2 slots, 1 worker, up to 3 requests of 1 to 4 units, so that a later one can be longer than all before it, cut anywhere; 8 settings |
| `udpflow_crossing` | finding: packets sent while a request is on its way come twice and are taken for those a window later | 1 loss |
| `tcpsession_slot` | finding: a slot is filled for the next connection while a task of the last one is still in it, whose `exitFlag` is then set for the new session | 1 slot, 2 connections, no packets |

`udpflow` checks four environments at once:

| Environment | What may happen | Properties that speak about it |
| --- | --- | --- |
| `Tcp` | 2 datagrams lost, overtaking by 2; answers arrive in order, no packet is sent while a request is on its way, no timeout expires | `ImplementsChannel`, `KeptUntilDelivered`, `LossesRecovered` |
| `TcpFaults` | also lost answers, crossing requests, expired timeouts, silence | `OneCachedPerPosition` (until the number wraps, and beyond where `NumMod` is a multiple of the window) |
| `UdpFaults` | the same for datagrams, refused ones among them | `TypeOK` |
| `NoHeartbeat` | 3 losses, failing sends to the remote server | `OncePerPacket` |

The conditions of `Tcp` are the definition `Reliable`. Each one is needed:
`udpflow_crossing` drops one of them; a lost acknowledgement together with
another loss has the same effect as a crossing request; overtaking by
`Window` - 1 lets a late packet be taken for a new one; a flow that was silent long
enough to be reclaimed does not go on (udp_socket.cpp:1765); and with a `NumMod` that
is no multiple of the window (2^32 is none of 100) the position jumps where the
number wraps. With a window of 4 a packet may be missing at its front, in its
middle and at its end; 9 packets are two windows and the first of a third, so
that a copy can meet the packet a window later, and the number wraps once.

The settings of the other modules are in their `MC` modules. They are chosen so
that each property is claimed for as many of them as it holds in, and its
comment says where it does not:

- `TcpSession`: one session with full queues; two that follow each other, with and
  without failing calls; a server that is removed; a UDP remote. In these a slot is
  filled again only when all tasks of its last session have gone (`env.late`).
  `tcpsession_slot` drops this condition.
- `ServerManage`: nothing fails; anything fails; the UDP manager; commands that
  come before `run()` (a server is then started twice, so `OneThread` and
  `Progress` make no claim).
- `UdpSessions`: with `env.calm` a check of the sessions falls between two packets;
  without it in the middle of one. `OwnSocket` and the part of `IdleIsReleased`
  about the maps are for calm settings; `SocketsKept` and the release of
  sockets hold in all, that of slots where sockets open (no `env.fails`).
- `TcpProxy`: with `env.calm` no browser's socket is closed between the test of its
  number and the `recv` (tcp_socketprox.cpp:276, 284), which can otherwise read another browser's
  stream. The reverse proxy is checked refilled late, with failing connections, and refilled as its code
  does it (`env.late` FALSE). In the last setting only the types are claimed: an early
  refill mixes up the sockets of two connections (section 5). It is there so that the guard is an
  assumption in sight and not a property of the model.
- `CommConn`: with `env.quick` a slot may be filled between the clearing of `usedflag` and
  the close of the socket (sgg_comm.cpp:245), after which the connection is not the task's own.
  That no request is executed twice is claimed there too; that a task serves and
  closes its own connection only is claimed without it. With `env.whole` requests arrive
  in one piece, for which the first is answered; without it they are cut and joined in any way.
- `Audit`: with `env.shared` a source sends to two servers and shares a node
  (`operator<` compares the source only); what the node counts is then not claimed.

*Fairness.* Threads run, so the steps of a thread are weakly fair: the writer and
the reader of a queue, each task of a session and the accept loop, the tasks of
the command channel and of the proxies, the two threads of a UDP server, the
heartbeat and receiving threads of the tunnel. A thread that needs a lock finds it
free again and again, and gets it, hence strong fairness for the worker, the
administrator and the adding of a task in `ThreadPool`, and for the main
thread and the commands in `ServerManage`. That a remote answers is not assumed: where sockets may
fail to open they may do so for ever. The idle check
of the tunnel's receiver runs every few seconds, and nothing stays on the link for so long, so it is
weakly fair where the link is empty. Nothing makes the environment send, close,
lose, fail, add, remove, shut down or destroy.

*Deadlock.* It is checked in `sgg_stack` and `audit`. In the other runs it is switched off:
a shutdown may leave a reader or a worker asleep for good (section 5), and a
freed pool, a closed flow, ended sessions and used-up commands stop.

*Findings.* Two runs state what a comment of the source says and TLC refutes it;
`PROJECT.json` quotes the lines.

## 4. Proofs

The theorems hold for every value of the constants that satisfies the assumptions
named in the modules, which only say what the code fixes (a window, a table or a
ring has at least one place, a marker is no number, the settings have their
types). Each one is an inductive invariant: the property alone does not survive
a step, so it is proved together with what the threads know of one another. The types
of the variables are always part of it. Where one module holds the theorems of two, the
definitions both would have carry a prefix (`RingInit`, `PoolInit`).

**`QueueProofs`**, of the hand-off: `TypeOK`, `RingOwnership`, `NoStaleBlock` and the refinement
`FifoHandOff`. That a sent block was filled depends on who may be in which ring,
and this on the positions and the program counters (`IInv`). For the refinement every
step of the two threads is shown to leave the packets in transit as they are, to add
one at the end or to take the first (`WriterEffect`, `ReaderEffect`); swapping the rings
leaves them as they are because the ring not handed over is used up. The end marker is
taken only when nothing else is left (`EndLast`).

`QueueProofs`, of a ring, for every size and every set of pointers: `RingTypeOK`, `SearchesAgree` and the
refinement `ImplementsFifo`. The places of a ring in use, read from its front, are its contents; what each
operation does to them is a lemma per operation, for which the modulus is replaced by its two
cases (a place is the one after, or the first again). The searches and the
traversal are recursive functions: a solution of the loop's equation is written down, and that
it is the only one is argued by the least place at which two would differ. The
refinement needs one more invariant, that what the last call gave back is what it
took out of the ring as it was before (`Remembered`).

**`ServerProofs`**, of the thread pool: `PoolTypeOK` (with: a worker between dequeuing and finishing holds
a task), `EachTaskOnce`, `SlotsOfThreads` (with: the administrator holds the lock while
it scans; as long as `pthread_create` succeeds it scans no further than `live`) and
`BusyExact`, where the counter is compared with the cardinality of a set of workers.
`FreeIsLast` is proved for a pool whose threads could all be created; otherwise it
does not hold (section 5). Its invariant says that the administrator has ended once the
broadcasts begin, that the workers below `k` have ended during the join loop, and that
every dequeued task has returned or is with a worker.

`ServerProofs`, of the servers: `ServersSound` and `StopsForGood`. What makes them inductive is what
a holder of the lock knows: which servers the loops over the map have still to
visit, that a server whose `runFlag` is 0 has no thread that a command could start
again unseen, and that a removal that waits holds on to the server it waits for.
A round that visits all servers ends because the least one is visited first; that
there is a least one is proved from the well-foundedness of the natural numbers.

**`UdpSessionsProofs`**: `SocketsKept`, that no two slots have one socket and none is left
open outside its slot, in all settings, and `OwnSocket`, that a packet leaves by a socket of
its own flow, where `env.calm` holds and there is a slot for every flow. The latter needs
that a flow that is entered in `pid2sid` names a slot that is its own or empty, and that
with more slots than flows an empty one is found, by the pigeonhole principle.

**`AuditProofs`**: `ListsRight`, that the statistics agree with what was heard while servers come and
go (between two locks the server's own steps say what is not yet in the lists), and
`WhiteFramesRight`, that the frames inserted lie where the stream demands them however
it is cut into packets.

**`CommConnProofs`**: `ChannelSound`. That a request is executed at most once and
that a task's slot names its own open connection needs: a task holds the slot it was made for
(`SlotsHeld`), the main thread fills only free slots (`MainAt`), a slot's connection is not closed under
a task (`Patient`), and what a task has in its buffer is a prefix of what its
connection sent (`RequestedAt`, `InBufferAt`). Since the length received is never reset, a request that is
executed is as long as everything received so far, hence longer than all before it (`ExecutedAt`).

**`TcpSessionProofs`**: `DescriptorsSound` (sockets are closed once, by their own session; with `TypeOK`),
`RelayComplete`, `SlotGivenBack` and the action property `ConnectionStays`, for any number of
slots, sessions and packets, any capacity and every setting, also where a slot is filled again
while tasks of its last session are still there (`env.late` FALSE: the runs of `TcpSession.cfg` keep
to the other case). The invariant tells the session a slot is now
about (`Current`) from those that have lost it (`Over`: they can only set their `exitFlag` and
destroy the UP queue). For the first it says

- which task has told which: they leave in the order `uw`, `ur`, `dw`, `dr`, and the last reader
  gives the slot back (`Flags1`, `Flags2`);
- which task closes which socket, and that the descriptors of a session are those named in its
  slot (`Sockets`, `Owned`): a task that closes a number closes its own socket even if the number was
  used before. There is always a descriptor to hand out, by the pigeonhole principle, since
  no end of a session has two;
- why the writer of the client's side left: an end closed and all it had sent was read, or calls fail
  (`Reason`, `Relay`).

Nothing is claimed of the sessions once the server goes; what is claimed then (types,
whose a descriptor is) is `Typed` and `Always`.

**`TcpProxyProofs`**: `NothingLeaks` and `OwnStream`, for any number of browsers, slots and packets, for
both sides and with descriptors that are handed out again at once. What is claimed of the forward proxy
needs no assumption about its slots: that it never gives one away under a running task is proved.
Of the reverse proxy it is claimed where a slot is refilled late (`Sound`); for one refilled early
nothing is proved, and the run checks the types. Neither is inductive: whether a
task closes its own socket depends on what the other tasks of the flow, at the client's
side in two sessions, have closed. `Inv` says

- of each connection (`Self`): which tasks it has (`Kind`) and what they have read and taken (`Pkts`,
  `Answered`); that its descriptors are those named in its slot (`Owned`) and that each task
  still has the socket it uses (`Named`); what `closewaiting`, the queues and an unset
  `client_sid` tell about the tasks (`Signs`);
- of each browser's number (`Number`): that it is in `g_Pktid2SidInfo` from the insertion until the
  session that brings the answers deletes it, and names the browser's own socket as long;
- of the slots (`SlotRules`): two connections have one slot only when the tasks of one have
  gone, and a slot that is taken has a reader that gives it back;
- that no socket has two descriptors (`OneOwner`).

A step of a task changes what is said of its own connection and, at the client's side, of one number
(`TaskKeeps`, `OthersSelf`, `OthersNumber`), so each step is argued for one connection. A server
always gets a descriptor for a new connection: no end has two, so fewer are in use than there are.

**`UdpFlowProofs`**: `TypeOK` (with: a packet that is put back carries data), the cache, the
delivery and the absence of copies, for every window of at least two places, every `NumMod` and every
environment; the lemmas at its start are about numbers that wrap.

- `OneCachedPerPosition` needs that the cache is what was sent last, in order, each packet
  under the number it was sent with (`Cached`).
- `KeptUntilDelivered` and the refinement `ImplementsChannel` need what is on the way between the two
  ends (`InOrder`): the receiver is no more than a window behind; a packet that is kept, or
  still on the link, is never so old that its position is expected again; an acknowledgement
  on its way speaks of packets that were sent on; at the end of the window a request
  finds no acknowledgement on its way that would free what it asks for. That
  the loop over missing packets finds all of them is argued by the least one it would
  leave out.
- `OncePerPacket`, where packets are skipped, come late and are processed a second time
  after a failed send, rests on `OnePlace`: a packet is sent on, kept, on the link or
  in hand, and in one of these places only.

Every invariant and action property that a run checks has a theorem, and so have the safety
refinements; that of `NothingLeaks` covers the settings with `Sound` (above). Only model-checked is,
besides, what needs fairness: the liveness properties.

## 5. Not modelled, and assumptions

General:

- Allocation failure at start-up, logging, formatting, configuration parsing, the
  message-queue wrappers, timers and conversions of `utils.cpp`, the third-party libraries, the test
  clients. Of the bitmap what it represents is modelled, not masks and shifts.
- Several calls on one path are one step where no other thread can come between
  them (a cache is used under its mutex, a reassembly slot by one thread except
  for the idle check).
- Two threads in one `std::map` at the same time are undefined behaviour; the models
  make each change of a map one step.

What is known not to hold, and is therefore not claimed:

- *Hand-off.* The reader may sleep through a shutdown (tcp_socket.cpp:467 waits
  without testing `shutdown`): after a shutdown `ThreadsEnd` claims the end of the writer only. The
  waits of the hand-off return only when signalled; POSIX allows more, and the
  reader does not test again. The waits of the thread pool may return unsignalled.
- *Thread pool.* Destroying it may hang for the same reason (threadpool.cpp:228);
  after a failed `pthread_create` it may be freed under a live worker. The pool
  never shrinks (`#if 0`).
- *Tunnel.* A refused datagram leaves a hole in the numbering (udp_socket.cpp:1257);
  a lost last packet is never asked for (1676); a reclaimed flow does not go on (1765); the
  number wraps at no multiple of the window (1311).
- *TCP session.* When a queue cannot be created the slot is lost (tcp_socket.cpp:899). A
  shutdown before the first packet of a session with a UDP remote makes the reader use
  a packet it does not have (542). While a server stops, `accept_st` may name a
  descriptor that was reused (937; modelled, nothing is claimed). The only
  negative result of `run_tcpclient` that the code knows is -1 (264).
- *Servers.* A command before `run()` leads to a server with two threads (1229);
  after a failed allocation `runFlag` stays 1 and the server does not come back (820);
  a failed `pthread_create` is answered as a success (1099); the end of the UDP manager
  leaves threads behind (udp_socket.cpp:2217).
- *UDP sessions.* A slot without a socket grows no older (1738): when the remote of an
  idle flow cannot be reached, the slot is retried for ever and never free, and enough of
  them fill the table. When all reassembly queues are taken the flow with the oldest stamp
  loses its queue, or one that was made and never taken again, whose stamp is 0 (120-138, 191-196);
  the stamps are left out, so any may be. A flow for which there is no slot is entered in `pid2sid` all the
  same and sent on the socket of the last packet (1228); an idle check in the
  middle of a packet gives the flow a second slot the map does not know (1236, 1761).
- *Proxy.* If the origin cannot be reached the DOWN task spins and its slot is never
  free (tcp_socketprox.cpp:307); the UP reader may use a `client_sid` that DOWN
  has closed (380, 389); a browser whose answers never come keeps its socket and
  number. A slot of the reverse proxy is free when its DOWN reader says so (554),
  and the search looks at nothing else (749-752): UP tasks of the last connection may
  still run. `Fill` then resets `stopflag` and replaces `server_sid`, the old UP writer reads and closes
  the next connection's socket (290-293, 374-375), its own stays open, and two readers
  share a queue, which is not made anew (sgg_manage.cpp:88). This is modelled (`env.late` FALSE) and nothing but
  types is claimed of it. `thrdpara[i].exitFlag` is cleared with the `i` that the loop at 725
  left at `sgg_multi_lines` (775): it writes past the slots, which is not modelled, and the slot
  keeps the flags of its last connection, which is.
- *Audit.* Without the audit bit the length of the stream stays 0 and there are no
  white frames (sgg_audit.cpp:774). The comment says 1 to 255 for their parameters; `char` is
  signed, so the model has those up to 127.
- *Command channel.* The receive pointer does not move and the count is not reset
  (sgg_comm.cpp:200, 214): a request in several pieces overwrites itself, and later requests are refused,
  or answered with the head of an earlier answer; but one that is longer than all before it, after
  requests that were executed without an answer, passes both length checks (206, 54)
  when as much of it has come as it is longer, and is executed with what lies in the
  buffer for its rest. What is claimed is that this is all, and that a first request in one piece
  is executed and answered. A failed allocation ends
  the channel (286, 293). An unknown type is answered with zeros (178).

Left out of a component that is modelled:

- *Tunnel.* Sends to the remote server do not fail where there is a heartbeat (the
  code ignores their result there). `resendAll` and the thread for zombie data
  are never reached: nothing sends `UDP_RT_ALL` or fills `g_udpZombileData`. The
  branches of `thread_pktsend` for closing packets are dead too, because every
  packet that is not `MAGIC_WORD_MAIN` was dropped before (1209).
- *TCP session.* Failing `setsockopt` (it leaks a socket), partial sends; what a gone connection did
  is forgotten when its slot is filled; where no server is stopped, the tasks of a
  session start at once.
- *Servers.* The other manager of a process is never ready; a request names ports
  of one protocol, each once (a removal looks at the protocol of the first entry,
  sgg_comm.cpp:113); the supervisor's round, every 30 s, begins when new threads
  have begun; making the singleton, which is not synchronised (tcp_socket.cpp:1049). The
  overloads of `rmv` for a single server are never called.
- *Proxy.* The end of the process, the creation of a queue that fails (646, 777), growth of the
  hash table; raising `exitFlag` and giving the slot back are one step.
- *Audit.* The detection library (external, as its caller uses it), wrappers that
  nothing calls (561-637), the packing of lists into replies and their size.
- *Command channel.* No piece of a request ends within its head, and no body looks like a head of a
  known type. A report longer than the buffer (the address of a local is sent for it, sgg_audit.cpp:660-662)
  and one that cannot be made (memory, no detection library).

## 6. Plan

Done: ring, hand-off, thread pool, one flow through the tunnel, TCP sessions,
UDP sessions, servers and their managers, proxy, audit, command channel.

Proved: the ring, the safety of the hand-off, and the refinements of both; the safety of the thread
pool, the TCP sessions, the proxy, the managers of servers, the tunnel and its refinement, the UDP
sessions, the audit and the command channel (section 4). No safety property of a run is left
to prove but the types of a reverse proxy that refills its slots early.

Not planned: the conversions of `utils.cpp` and third-party code.
