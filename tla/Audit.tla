------------------------------- MODULE Audit -------------------------------
(***************************************************************************)
(* The audit of the streams a UDP CLIENT forwards (sgg_audit.cpp): the     *)
(* bytes of each flow, the flows the detection library knows, and the      *)
(* white frames, bytes zeroed at regular distances in the stream.          *)
(*                                                                         *)
(* The receiving threads of all servers add to one map of audit nodes and  *)
(* one map of flows to detect; a server that ends takes its own entries    *)
(* out.  Each map has a read-write lock, held for one action at a time.    *)
(* The three bytes of SvrObjBaseInfo.rtpCfgFlag behind the first are       *)
(* signed: the frame length and distance are those from 1 to 127.          *)
(***************************************************************************)
EXTENDS Integers, FiniteSets, FiniteSetsExt

CONSTANTS Sources,   \* addresses packets come from: srcIP, srcPort
          Dests,     \* addresses servers listen on: dstIP, dstPort
          Unit,      \* the unit of the distance of white frames, 1024 in the code
          Settings   \* the settings to check, see SettingType

ASSUME UnitAssumption == Unit \in Nat \ {0, 1}

\* What this process has to put up with; it never changes.
\*   shared    one source sends to several servers
\*   lib       the detection library is there
\*   audit, coding, white    the bits of rtpCfgFlag
\*   k, len    distance and length of white frames
\*   alone     servers run one at a time
\*   bytes     bound: how many bytes come in one flow, and nearly in one node
SettingType == [shared : BOOLEAN, lib : BOOLEAN, audit : BOOLEAN, coding : BOOLEAN,
                white : BOOLEAN, k : Nat \ {0}, len : 1..(Unit - 1), alone : BOOLEAN, bytes : Nat]
ASSUME SettingsAssumption == Settings \subseteq SettingType

NoSource == 0

VARIABLES env,     \* the setting
          nodes,   \* auditNodes: source -> [dst, stat]
          coding,  \* rtpCodingNodes: destination -> sources
          media,   \* the flows the detection library has recognised
          server,  \* Dests -> [pc, src, len, total, zeroed]
          heard    \* history: the bytes of each flow since its server began

vars == <<env, nodes, coding, media, server, heard>>

Flows == Sources \X Dests

-----------------------------------------------------------------------------
(* The maps.  operator< of Pkt5Tuple compares the source alone, so a map   *)
(* has one node for each source, whatever the destination; operator< of    *)
(* Pkt3Tuple compares the address alone.                                   *)

Node(d, b) == [dst |-> d, stat |-> b]

\* sgg_audit_manage::add: a node keeps the 5-tuple it was made with.
AuditAdd(s, d, n) ==
  [t \in DOMAIN nodes \cup {s} |->
     IF t # s THEN nodes[t]
     ELSE IF s \in DOMAIN nodes THEN [nodes[s] EXCEPT !.stat = @ + n] ELSE Node(d, n)]

\* sgg_audit_manage::rmv of a destination.
AuditRmv(d) == [t \in {u \in DOMAIN nodes : nodes[u].dst # d} |-> nodes[t]]

\* sgg_audit_manage::report.
Reported == {<<t, nodes[t].dst, nodes[t].stat>> : t \in DOMAIN nodes}

\* sgg_rtp_encoding_manage::add up to the call of the library.
CodingAdd(s, d) ==
  IF ~env.lib THEN coding
  ELSE [e \in DOMAIN coding \cup {d} |->
          (IF e \in DOMAIN coding THEN coding[e] ELSE {}) \cup (IF e = d THEN {s} ELSE {})]

\* Faulty variant: only the map is cleared.
CodingRmvMap(d) ==
  /\ coding' = [e \in DOMAIN coding \ {d} |-> coding[e]]
  /\ UNCHANGED media

\* sgg_rtp_encoding_manage::rmv of a destination.
CodingRmv(d) ==
  IF env.lib /\ d \in DOMAIN coding
  THEN /\ media' = media \ (coding[d] \X {d})
       /\ coding' = [e \in DOMAIN coding \ {d} |-> coding[e]]
  ELSE UNCHANGED <<coding, media>>

\* sgg_rtp_encoding_manage::getcoding for the destinations ds.
Coded(ds) == {f \in media : f[2] \in ds \cap DOMAIN coding /\ f[1] \in coding[f[2]]}

-----------------------------------------------------------------------------
(* White frames: every k * Unit bytes of the stream end with len zeros.    *)

Interval == env.k * Unit - env.len
Period == Interval + env.len

\* Faulty variant: frames begin at the first one that begins in the packet.
FirstInPacket(before) == before + (((Interval - (before % Period)) + Period) % Period)

\* Where in the stream the frame begins that the packet meets first; it may
\* have begun in an earlier packet.
First(before) == before + (Interval - (before % Period))

\* The offset of that frame in the packet.
Offset(before) ==
  IF First(before) % Period >= Interval THEN First(before) - before ELSE First(before) % Period

\* The bytes of a packet of n bytes zeroed when total bytes have come.
Whitened(total, n) ==
  LET step(w) ==
        LET from == Max({w.offset, 0})
            null == Min({total - w.start, env.len}) + Min({w.offset, 0})
        IN [start |-> w.start + Period, offset |-> from + Interval + null,
            zeroed |-> w.zeroed \cup (from..(from + null - 1))]
      loop[i \in 0..n] ==
        IF i = 0
        THEN [start |-> First(total - n), offset |-> Offset(total - n), zeroed |-> {}]
        ELSE IF loop[i - 1].start < total THEN step(loop[i - 1]) ELSE loop[i - 1]
  IN loop[n].zeroed

-----------------------------------------------------------------------------
(* A server: thread_udppktrecv and the end of udp_server_obj::run.         *)

Idle == [pc |-> "idle", src |-> NoSource, len |-> 0, total |-> 0, zeroed |-> {}]
Off == [Idle EXCEPT !.pc = "off"]

Init ==
  /\ env \in Settings
  /\ nodes = [t \in {} |-> 0] /\ coding = [e \in {} |-> {}] /\ media = {}
  /\ server = [d \in Dests |-> Off]
  /\ heard = [f \in Flows |-> 0]

At(d, pc) == server[d].pc = pc
Goto(d, pc) == server' = [server EXCEPT ![d].pc = pc]

Start(d) ==
  /\ At(d, "off")
  /\ env.alone => \A e \in Dests : At(e, "off")
  /\ server' = [server EXCEPT ![d] = Idle]
  /\ UNCHANGED <<env, nodes, coding, media, heard>>

\* A packet of n bytes comes from s.
Recv(d, s, n) ==
  /\ At(d, "idle")
  /\ heard[<<s, d>>] + n <= env.bytes
  /\ s \in DOMAIN nodes => nodes[s].stat < 2 * env.bytes
  /\ ~env.shared => \A e \in Dests \ {d} : heard[<<s, e>>] = 0
  /\ heard' = [heard EXCEPT ![<<s, d>>] = @ + n]
  /\ server' = [server EXCEPT ![d] = [pc |-> "got", src |-> s, len |-> n, total |-> 0, zeroed |-> {}]]
  /\ UNCHANGED <<env, nodes, coding, media>>

\* sgg_RtpAuditAdd: the bytes are counted.
Count(d) ==
  /\ At(d, "got")
  /\ nodes' = IF env.audit THEN AuditAdd(server[d].src, d, server[d].len) ELSE nodes
  /\ server' = [server EXCEPT ![d].pc = "counted",
                              ![d].total = IF env.audit THEN nodes'[server[d].src].stat ELSE 0]
  /\ UNCHANGED <<env, coding, media, heard>>

\* The flow is noted for the detection.
Register(d) ==
  /\ At(d, "counted")
  /\ coding' = IF env.coding THEN CodingAdd(server[d].src, d) ELSE coding
  /\ Goto(d, IF env.coding /\ env.lib THEN "noted" ELSE "seen")
  /\ UNCHANGED <<env, nodes, media, heard>>

\* The library sees the packet, outside the lock, and may recognise the flow.
Packethandle(d) ==
  /\ At(d, "noted")
  /\ media' \in {media, media \cup {<<server[d].src, d>>}}
  /\ Goto(d, "seen")
  /\ UNCHANGED <<env, nodes, coding, heard>>

\* White frames are put in; without the audit the stream's length is unknown
\* (start wraps to the end of its range) and there are none.
Whiten(d) ==
  /\ At(d, "seen")
  /\ server' = [server EXCEPT ![d].pc = "done",
                              ![d].zeroed = IF env.white /\ env.audit
                                            THEN Whitened(server[d].total, server[d].len) ELSE {}]
  /\ UNCHANGED <<env, nodes, coding, media, heard>>

\* The packet goes into the queue of the server.
Forward(d) ==
  /\ At(d, "done")
  /\ server' = [server EXCEPT ![d] = Idle]
  /\ UNCHANGED <<env, nodes, coding, media, heard>>

\* run() has left its loop and joined the receiving thread.
Stop(d) ==
  /\ At(d, "idle")
  /\ Goto(d, "ended")
  /\ UNCHANGED <<env, nodes, coding, media, heard>>

\* sgg_RtpAuditRmv of the server's address.
RemoveAudit(d) ==
  /\ At(d, "ended")
  /\ nodes' = AuditRmv(d)
  /\ heard' = [f \in Flows |-> IF f[2] = d THEN 0 ELSE heard[f]]
  /\ Goto(d, "removed")
  /\ UNCHANGED <<env, coding, media>>

RemoveCoding(d) ==
  /\ At(d, "removed")
  /\ CodingRmv(d)
  /\ server' = [server EXCEPT ![d] = Off]
  /\ UNCHANGED <<env, nodes, heard>>

Next == \E d \in Dests :
  \/ Start(d)
  \/ \E s \in Sources, n \in 1..env.bytes : Recv(d, s, n)
  \/ Count(d) \/ Register(d) \/ Packethandle(d) \/ Whiten(d) \/ Forward(d)
  \/ Stop(d) \/ RemoveAudit(d) \/ RemoveCoding(d)

Spec == Init /\ [][Next]_vars

-----------------------------------------------------------------------------
\* What each variable holds.
TypeOK ==
  /\ env \in Settings
  /\ DOMAIN nodes \subseteq Sources
  /\ \A t \in DOMAIN nodes : nodes[t] \in [dst : Dests, stat : Nat]
  /\ DOMAIN coding \subseteq Dests
  /\ \A e \in DOMAIN coding : coding[e] \in SUBSET Sources
  /\ media \in SUBSET Flows
  /\ server \in [Dests -> [pc : {"off", "idle", "got", "counted", "noted", "seen", "done", "ended", "removed"},
                           src : Sources \cup {NoSource}, len : Nat, total : Nat, zeroed : SUBSET (0..(env.bytes - 1))]]
  /\ heard \in [Flows -> 0..env.bytes]

\* The bytes of a flow the audit has not counted yet.
Uncounted(f) == IF At(f[2], "got") /\ server[f[2]].src = f[1] THEN server[f[2]].len ELSE 0

\* The lists the command channel gives out are right while servers come and
\* go (report, getcoding): with a destination of its own for each source, the
\* audit lists every flow heard since its server began, each with all its
\* bytes; and whatever the sources do, no list and not the library either
\* keeps anything of a server that has ended.
ListsRight ==
  /\ TypeOK
  /\ env.audit /\ ~env.shared =>
       Reported = {<<f[1], f[2], heard[f] - Uncounted(f)>> :
                     f \in {g \in Flows : heard[g] > Uncounted(g)}}
  /\ \A d \in Dests : At(d, "off") =>
       /\ \A r \in Reported : r[2] # d
       /\ d \notin DOMAIN coding
       /\ \A f \in media : f[2] # d
  /\ Coded(Dests) = media

\* White frames lie where the stream, not the packet, says: with the audit on
\* and sources of its own, a server zeroes of every packet just those bytes
\* whose position in the flow is one of the last len of its period, also when
\* a frame began in an earlier packet or goes on in the next
\* (sgg_RtpAuditAdd's arithmetic on totalLen, start and offset).
WhiteFramesRight == \A d \in Dests :
  LET v == server[d]
      before == heard[<<v.src, d>>] - v.len
  IN At(d, "done") /\ env.white /\ env.audit /\ ~env.shared =>
       v.zeroed = {i \in 0..(v.len - 1) : (before + i) % Period >= Interval}
=============================================================================
