------------------------------ MODULE UdpFlow ------------------------------
(***************************************************************************)
(* One flow through the tunnel.  The sending box numbers the packets of a  *)
(* channel, keeps the last Window of them and sends them by UDP; the       *)
(* receiving box puts them in order again, sends them on, acknowledges     *)
(* what it sent on and asks for what is missing.  Both sides compare       *)
(* numbers modulo Window only.                                             *)
(*                                                                         *)
(* Sender: send_udpdata and UdpFlowControl, called by addTcpReadTask for a *)
(* TCP channel or by thread_pktsend for a UDP channel, and the thread      *)
(* udpRecvHeartTask.  Receiver: thread_pktsend on the SERVER box and       *)
(* check_clientsocket.  A packet's contents are its position in the flow.  *)
(***************************************************************************)
EXTENDS Integers, SequencesExt

CONSTANTS Window,        \* UDP_PACKET_ORDER_LEN_MAX
          NumMod,        \* 2^32: offset is an unsigned int
          ReclaimAfter,  \* UDP_TUNNEL_IDLE_CRCLES
          Envs,          \* what a flow may run under
          None, End      \* no packet; the closing packet, MAGIC_WORD_BANK

Environments ==
  [heartbeat : BOOLEAN,       \* g_udpHbFlag
   channel : {"tcp", "udp"},  \* who numbers the packets
   pkts : Nat,                \* bound: packets of the flow
   loss : Nat,                \* bound: datagrams the link loses
   losesAnswers : BOOLEAN,    \* acknowledgements and requests among them
   overtake : Nat,            \* packets so far apart may overtake one another
   crossing : BOOLEAN,        \* packets may be sent while a request is on its way
   refusals : Nat,            \* bound: times a full cache refuses a packet
   givesUp : BOOLEAN,         \* the sender's timeouts may expire
   silent : BOOLEAN,          \* an open flow may be silent until it is reclaimed
   fails : BOOLEAN]           \* a send to the remote server may fail

ASSUME ConstAssumption ==
  /\ Window \in Nat /\ Window >= 2
  /\ NumMod \in Nat /\ NumMod >= Window
  /\ ReclaimAfter \in Nat \ {0}
  /\ Envs \subseteq Environments
  /\ None \notin Nat /\ End \notin Nat /\ None # End

VARIABLES env,      \* what this flow runs under; it does not change
          sent,     \* packets of the flow sent or given up so far
          num,      \* the number of the next packet
          refused,  \* packets refused so far
          sock,     \* how many sockets the sender has used before this one
          cache,    \* pktBufStack, oldest first
          asked,    \* numbers of the request being answered
          phase,    \* "open", "closing" (waits for acknowledgements), "closed"
          waiting,  \* number modulo Window the receiver waits for
          buf,      \* out of order packets: bit, lenMap and buf
          from,     \* recvFromPort: the socket requests are sent to
          again,    \* a packet put back by the receiver
          idle,     \* idleCrcles; ReclaimAfter: the client socket is released
          out,      \* packets sent on to the remote server
          down, up, \* packets, answers on their way
          lost      \* datagrams lost so far

svars == <<sent, num, refused, sock, cache, asked, phase>>
rvars == <<waiting, buf, from, again, idle, out>>
vars == <<env, svars, rvars, down, up, lost>>

Positions == 0..(Window - 1)
Numbers == 0..(NumMod - 1)
Packets == [num : Numbers, data : Nat \union {End}, src : Nat]
Answers == [type : {"ack", "request"}, nums : Seq(Numbers), to : Nat]

Pos(n) == n % Window
Incr(n, k) == (n + k) % NumMod

Init == /\ env \in Envs
        /\ sent = 0 /\ num = 0 /\ refused = 0 /\ sock = 0
        /\ cache = <<>> /\ asked = <<>> /\ phase = "open"
        /\ waiting = 0 /\ buf = [p \in Positions |-> None]
        /\ from = 0 /\ again = None /\ idle = ReclaimAfter /\ out = <<>>
        /\ down = <<>> /\ up = <<>> /\ lost = 0

-----------------------------------------------------------------------------
(* The sender *)

\* Faulty variant: the ring of the cache is created one block too large.
CacheFullLate == env.heartbeat /\ Len(cache) = Window + 1
CacheFull == env.heartbeat /\ Len(cache) = Window

Packet(d) == [num |-> num, data |-> d, src |-> sock]

Requested == asked # <<>> \/ \E i \in 1..Len(up) : up[i].type = "request"

\* send_udpdata: into the cache, then onto the link
Send == /\ phase = "open" /\ sent < env.pkts
        /\ ~CacheFull
        /\ env.crossing \/ ~Requested
        /\ cache' = IF env.heartbeat THEN Append(cache, Packet(sent)) ELSE cache
        /\ down' = Append(down, Packet(sent))
        /\ sent' = sent + 1
        /\ num' = Incr(num, 1)
        /\ UNCHANGED <<env, refused, sock, asked, phase, rvars, up, lost>>

\* A refused packet is put back and popped again.  The packets of a TCP channel
\* were numbered when they were received; those of a UDP channel are numbered
\* when they are popped, so the packet gets the next number.
Refuse == /\ env.channel = "udp" /\ phase = "open" /\ sent < env.pkts
          /\ CacheFull
          /\ refused < env.refusals
          /\ refused' = refused + 1
          /\ num' = Incr(num, 1)
          /\ UNCHANGED <<env, sent, sock, cache, asked, phase, rvars, down, up, lost>>

\* No packet went into the full cache for a long time: this one is dropped.
\* For a TCP channel the socket is closed and its cache destroyed, and the next
\* packet opens another.
GiveUp == /\ env.givesUp /\ phase = "open" /\ sent < env.pkts
          /\ CacheFull
          /\ sent' = sent + 1
          /\ num' = Incr(num, 1)
          /\ IF env.channel = "tcp"
               THEN sock' = sock + 1 /\ cache' = <<>> /\ asked' = <<>>
               ELSE UNCHANGED <<sock, cache, asked>>
          /\ UNCHANGED <<env, refused, phase, rvars, down, up, lost>>

\* The end marker of the channel was popped.
Finish == /\ env.channel = "tcp" /\ phase = "open"
          /\ phase' = "closing"
          /\ UNCHANGED <<env, sent, num, refused, sock, cache, asked, rvars, down, up, lost>>

\* isAllAcked; without a heartbeat nothing is cached.
AllAcked == cache = <<>>

\* Everything acknowledged, or nothing heard for 15 s: the closing packet is
\* sent, uncached, and the socket closed.
Close == /\ phase = "closing"
         /\ AllAcked \/ env.givesUp
         /\ phase' = "closed"
         /\ cache' = <<>> /\ asked' = <<>>
         /\ down' = Append(down, Packet(End))
         /\ UNCHANGED <<env, sent, num, refused, sock, rvars, up, lost>>

Matching(n) == {i \in 1..Len(cache) : Pos(cache[i].num) = Pos(n)}

\* Faulty variant: one packet more is dropped.
UnackedMore(n) == IF Matching(n) = {} THEN cache
                  ELSE SubSeq(cache, Max(Matching(n)) + 2, Len(cache))

\* PopStackEx: the newest packet with this number, and all older ones, go.
Unacked(n) == IF Matching(n) = {} THEN cache
              ELSE SubSeq(cache, Max(Matching(n)) + 1, Len(cache))

\* udpRecvHeartTask reads an answer; one sent to an earlier socket is lost.
Answered == /\ up # <<>> /\ asked = <<>>
            /\ up' = Tail(up)
            /\ UNCHANGED <<env, sent, num, refused, sock, phase, rvars, down, lost>>

Ours == Head(up).to = sock /\ phase # "closed"

HeartAck == /\ Answered
            /\ Ours /\ Head(up).type = "ack"
            /\ cache' = Unacked(Head(Head(up).nums))
            /\ UNCHANGED asked

HeartRequest == /\ Answered
                /\ Ours /\ Head(up).type = "request"
                /\ asked' = Head(up).nums
                /\ UNCHANGED cache

NobodyListens == /\ Answered
                 /\ ~Ours
                 /\ UNCHANGED <<cache, asked>>

\* resend: the oldest cached packet with this number, if there is one
Resend == /\ asked # <<>>
          /\ asked' = Tail(asked)
          /\ down' = IF Matching(Head(asked)) = {} THEN down
                     ELSE Append(down, cache[Min(Matching(Head(asked)))])
          /\ UNCHANGED <<env, sent, num, refused, sock, cache, phase, rvars, up, lost>>

-----------------------------------------------------------------------------
(* The receiver *)

Answer(type, nums, to) == [type |-> type, nums |-> nums, to |-> to]

\* bit_get: a packet is kept at position p.
Buffered(p) == buf[p] # None

\* How many buffered packets follow position o without a gap.
Behind(o) == Max({k \in 0..(Window - 1) : \A j \in 1..k : Buffered(Pos(o + j))})

\* Faulty variant: waiting is not wrapped after the last position.
DeliverUnwrapped(m) ==
  LET o == Pos(m.num)
  IN  /\ waiting = o
      /\ out' = Append(out, m.data)
      /\ waiting' = o + 1
      /\ buf' = [buf EXCEPT ![o] = None]
      /\ up' = Append(up, Answer("ack", <<m.num>>, m.src))
      /\ again' = None
      /\ UNCHANGED from
\* Faulty variant: the buffered packets sent on stay marked.
DeliverMarked(m) ==
  LET o == Pos(m.num)
      k == IF env.heartbeat THEN Behind(o) ELSE 0
  IN  /\ waiting = o
      /\ out' = out \o <<m.data>> \o [j \in 1..k |-> buf[Pos(o + j)]]
      /\ waiting' = Pos(o + k + 1)
      /\ up' = IF env.heartbeat THEN Append(up, Answer("ack", <<Incr(m.num, k)>>, m.src)) ELSE up
      /\ again' = None
      /\ UNCHANGED <<from, buf>>

\* The packet the receiver waits for is sent on and, with a heartbeat, the
\* buffered ones behind it; the last of them is acknowledged.  The results of
\* these sends are ignored.
Deliver(m) ==
  LET o == Pos(m.num)
      k == IF env.heartbeat THEN Behind(o) ELSE 0
  IN  /\ waiting = o
      /\ out' = out \o <<m.data>> \o [j \in 1..k |-> buf[Pos(o + j)]]
      /\ waiting' = Pos(o + k + 1)
      /\ buf' = [p \in Positions |->
                   IF \E j \in 0..k : p = Pos(o + j) THEN None ELSE buf[p]]
      /\ up' = IF env.heartbeat THEN Append(up, Answer("ack", <<Incr(m.num, k)>>, m.src)) ELSE up
      /\ again' = None
      /\ UNCHANGED from

\* The packet fills the last position of the window: the missing one is
\* requested, by the number it has if this one is a full window ahead.
WindowEnd(m) ==
  /\ env.heartbeat
  /\ waiting = Pos(Pos(m.num) + 1)
  /\ buf' = [buf EXCEPT ![Pos(m.num)] = m.data]
  /\ from' = m.src
  /\ up' = Append(up, Answer("request", <<Incr(m.num, 1 - Window)>>, m.src))
  /\ again' = None
  /\ UNCHANGED <<waiting, out>>

\* Faulty variant: the packets skipped over stay marked.
SkipMarked(m) ==
  LET o == Pos(m.num)
      b == [buf EXCEPT ![o] = m.data]
      f == Min({j \in 1..Window : b[Pos(o + j)] # None})
      g == Max({j \in f..Window : \A i \in f..j : b[Pos(o + i)] # None})
  IN  /\ ~env.heartbeat
      /\ waiting = Pos(o + 1)
      /\ out' = out \o [j \in 1..(g - f + 1) |-> b[Pos(o + f + j - 1)]]
      /\ waiting' = Pos(o + g + 1)
      /\ buf' = b
      /\ again' = None
      /\ from' = m.src
      /\ UNCHANGED up

\* Without a heartbeat a full window means that packets are lost: those missing
\* are skipped and the buffered ones up to the next gap sent on.  If the last
\* send fails, the receiver steps back and takes the packet again.
Skip(m) ==
  LET o == Pos(m.num)
      b == [buf EXCEPT ![o] = m.data]
      f == Min({j \in 1..Window : b[Pos(o + j)] # None})
      g == Max({j \in f..Window : \A i \in f..j : b[Pos(o + i)] # None})
      run == [j \in 1..(g - f + 1) |-> b[Pos(o + f + j - 1)]]
      at == IF g = Window THEN Window ELSE g + 1
  IN  /\ ~env.heartbeat
      /\ waiting = Pos(o + 1)
      /\ buf' = [p \in Positions |->
                   IF \E j \in f..g : p = Pos(o + j) THEN None ELSE b[p]]
      /\ from' = m.src
      /\ \/ out' = out \o run /\ waiting' = Pos(o + g + 1) /\ again' = None
         \/ env.fails /\ out' = out \o Front(run) /\ waiting' = Pos(o + at - 1) /\ again' = m
      /\ UNCHANGED up

\* Any other packet is kept at its position.
Keep(m) == /\ Pos(m.num) # waiting
           /\ Pos(Pos(m.num) + 1) # waiting
           /\ buf' = [buf EXCEPT ![Pos(m.num)] = m.data]
           /\ from' = m.src
           /\ again' = None
           /\ UNCHANGED <<waiting, out, up>>

Process(m) == /\ Deliver(m) \/ WindowEnd(m) \/ Skip(m) \/ Keep(m)
              /\ idle' = 0

\* Packets overtake one another only within a few positions of the flow.
MayArrive(i) ==
  i = 1 \/ \A j \in 1..(i - 1) : /\ End \notin {down[i].data, down[j].data}
                                 /\ down[i].data - down[j].data \in -env.overtake..env.overtake

Receive == /\ IF again # None
                THEN Process(again) /\ UNCHANGED down
                ELSE \E i \in 1..Len(down) :
                       /\ down[i].data # End
                       /\ MayArrive(i)
                       /\ Process(down[i])
                       /\ down' = RemoveAt(down, i)
           /\ UNCHANGED <<env, svars, lost>>

\* thread_pktsend drops every packet that is not MAGIC_WORD_MAIN.
DropEnd == /\ again = None
           /\ \E i \in 1..Len(down) : /\ down[i].data = End
                                      /\ MayArrive(i)
                                      /\ down' = RemoveAt(down, i)
           /\ UNCHANGED <<env, svars, rvars, up, lost>>

\* Faulty variant: the position waited for is left out.
MissingBehind ==
  LET list[j \in 0..(Window - 1)] ==
        IF j = 0 THEN <<>>
        ELSE IF Buffered(Pos(waiting + j)) THEN list[j - 1]
        ELSE Append(list[j - 1], Pos(waiting + j))
  IN list[Window - 1]

\* request_queueDropedPkt: the position waited for, and every empty one.
Missing ==
  LET list[j \in 0..(Window - 1)] ==
        IF j = 0 THEN <<waiting>>
        ELSE IF Buffered(Pos(waiting + j)) THEN list[j - 1]
        ELSE Append(list[j - 1], Pos(waiting + j))
  IN list[Window - 1]

\* Another UDP_TUNNEL_IDLE_TIMES seconds without a packet of the flow: what is
\* missing is requested if anything is buffered.  After ReclaimAfter such
\* periods the flow is forgotten.  Nothing stays on the link for that long.
IdlePeriod ==
  /\ idle < ReclaimAfter
  /\ down = <<>> /\ up = <<>> /\ asked = <<>> /\ again = None
  /\ idle + 1 < ReclaimAfter \/ env.silent \/ phase = "closed"
  /\ idle' = idle + 1
  /\ up' = IF env.heartbeat /\ \E p \in Positions \ {waiting} : Buffered(p)
             THEN <<Answer("request", Missing, from)>> ELSE <<>>
  /\ IF idle' = ReclaimAfter
       THEN waiting' = 0 /\ buf' = [p \in Positions |-> None]
       ELSE UNCHANGED <<waiting, buf>>
  /\ UNCHANGED <<env, svars, from, again, out, down, lost>>

-----------------------------------------------------------------------------
(* The link *)

Lose == /\ lost < env.loss
        /\ lost' = lost + 1
        /\ \/ /\ \E i \in 1..Len(down) : down' = RemoveAt(down, i)
              /\ UNCHANGED up
           \/ /\ env.losesAnswers
              /\ \E i \in 1..Len(up) : up' = RemoveAt(up, i)
              /\ UNCHANGED down
        /\ UNCHANGED <<env, svars, rvars>>

Sender == Send \/ Refuse \/ GiveUp \/ Finish \/ Close
Heart == HeartAck \/ HeartRequest \/ NobodyListens \/ Resend
Receiver == Receive \/ DropEnd \/ IdlePeriod
Next == Sender \/ Heart \/ Receiver \/ Lose

Spec == Init /\ [][Next]_vars

\* The threads run.  Nothing makes the channel send, end or lose.
FairSpec == /\ Spec
            /\ WF_vars(Heart)
            /\ WF_vars(Receive) /\ WF_vars(DropEnd)
            /\ WF_vars(IdlePeriod)
            /\ WF_vars(Close)
-----------------------------------------------------------------------------
(* Properties *)

\* Types of the variables; the cache and waiting stay within the window, also
\* where the number wraps.
TypeOK ==
  /\ env \in Envs
  /\ sent \in 0..env.pkts /\ num \in Numbers /\ refused \in 0..env.refusals
  /\ sock \in Nat
  /\ cache \in Seq(Packets) /\ Len(cache) <= Window
  /\ asked \in Seq(Numbers)
  /\ phase \in {"open", "closing", "closed"}
  /\ waiting \in Positions
  /\ buf \in [Positions -> Nat \union {None}]
  /\ from \in Nat
  /\ again \in Packets \union {None}
  /\ idle \in 0..ReclaimAfter
  /\ out \in Seq(Nat)
  /\ down \in Seq(Packets) /\ up \in Seq(Answers)
  /\ lost \in 0..env.loss

\* What a TCP channel needs of the link and of the timeouts: packets may be lost
\* and may overtake one another by less than the window, but answers arrive, in
\* order, no packet is sent while a request is on its way, and no timeout expires.
Reliable == /\ env.heartbeat /\ env.channel = "tcp"
            /\ env.overtake <= Window - 2
            /\ ~env.losesAnswers /\ ~env.crossing /\ ~env.givesUp /\ ~env.silent
            /\ NumMod % Window = 0

\* The receiver sends on what was sent, in order, each packet once and none left
\* out, although it knows a packet by its number modulo Window only.
DeliversPrefix == Len(out) <= sent /\ out = [i \in 1..Len(out) |-> i - 1]

\* More precisely, a reliable tunnel is a channel with a window.
Tunnel == INSTANCE WindowChannel WITH
            Size <- Window,
            accepted <- IF Reliable THEN sent ELSE 0,
            out <- IF Reliable THEN out ELSE <<>>
ImplementsChannel == Tunnel!Spec

\* Without a heartbeat packets may be skipped and come late, but never twice.
OncePerPacket == ~env.heartbeat => \A i, j \in 1..Len(out) : i # j => out[i] # out[j]

\* The sender forgets a packet only when the receiver has sent it on: an
\* acknowledgement never frees one that may still be asked for.
NothingForgotten ==
  Reliable /\ phase # "closed" =>
    \A d \in 0..(sent - 1) : \/ \E i \in 1..Len(out) : out[i] = d
                             \/ \E i \in 1..Len(cache) : cache[i].data = d

\* The flow is closed, and its cache destroyed, only after all was sent on.
ClosedAfterDelivery == Reliable /\ phase = "closed" => Len(out) = sent

\* The sender's copy of a packet outlives the receiver's need of it.
KeptUntilDelivered == NothingForgotten /\ ClosedAfterDelivery

\* A number modulo Window names at most one packet of the cache of a TCP channel,
\* so resend and ack cannot take one for another, whatever is lost, late or given
\* up; until the number wraps, and beyond that if it wraps at a multiple of Window.
OneCachedPerPosition ==
  env.channel = "tcp" /\ (sent <= NumMod \/ NumMod % Window = 0) =>
    \A i, j \in 1..Len(cache) : i # j => Pos(cache[i].num) # Pos(cache[j].num)

\* The idle checks outlast the losses.
Recovers == Reliable /\ env.loss < ReclaimAfter
Gap == \E p \in Positions : buf[p] # None

\* What the receiver keeps behind a gap is sent on in the end: the requests of
\* the idle check (udp_socket.cpp:1644) bring the missing packet again.
GapsAreFilled == Recovers /\ Gap ~> ~Gap

\* A full cache (udp_socket.cpp:618) does not stop the sender for ever: an
\* acknowledgement that frees a packet comes, whatever packets were lost.
FullWindowOpens == Recovers /\ CacheFull ~> ~CacheFull

\* A lost packet stops neither the receiver nor the sender for ever.
LossesRecovered == GapsAreFilled /\ FullWindowOpens

=============================================================================
