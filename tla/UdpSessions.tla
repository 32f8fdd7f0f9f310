---------------------------- MODULE UdpSessions ----------------------------
(***************************************************************************)
(* The sessions of a UDP server (udp_socket.cpp): which socket, number and *)
(* reassembly queue each flow has.                                         *)
(*                                                                         *)
(* Two threads change the tables: thread_pktsend, for each packet it takes *)
(* from the queue, and run(), whose check_clientsocket closes sessions     *)
(* that were idle.  Each slot has a lock of its own; the mutex meant for   *)
(* the maps guards nothing: thread_pktsend locks a copy of it.  A CLIENT   *)
(* numbers its flows, a SERVER finds the number in the packet.  What is    *)
(* sent, and in which order, is UdpFlow's.                                 *)
(***************************************************************************)
EXTENDS Integers, FiniteSets, FiniteSetsExt

CONSTANTS Flows,     \* the flows: sources at a CLIENT, numbers at a SERVER
          Lines,     \* the most slots a setting has
          Queues,    \* RECV_PKT_MIN_QUEUE: the reassembly queues
          Idle,      \* checks a slot survives without a packet
          Ids,       \* bound: how many numbers a CLIENT gives out
          Settings   \* the settings to check, see SettingType

ASSUME FlowsAssumption == Flows \subseteq Nat \ {0} /\ IsFiniteSet(Flows)
ASSUME SizesAssumption == Lines \in Nat \ {0} /\ Queues \in Nat \ {0} /\ Idle \in Nat \ {0} /\ Ids \in Nat

\* What this server has to put up with; it never changes.
\*   loc    NET_LOCATION_CLIENT or NET_LOCATION_SERVER
\*   lines  sgg_multi_lines
\*   fails  a socket may not be opened
\*   calm   a check of the sessions falls between two packets
SettingType == [loc : {"client", "server"}, lines : 1..Lines, fails : BOOLEAN, calm : BOOLEAN]
ASSUME SettingsAssumption == Settings \subseteq SettingType

None == 0
NoSocket == -1
Sockets == 1..(Lines + 1)

VARIABLES env,      \* the setting
          slots,    \* socketIds: [type, sid, flag, idle]
          pid2sid,  \* the number of a flow -> its slot, or lines when there was none
          flags,    \* pktFlagmap, CLIENT: source -> number
          lastId,   \* pktid, the last number given out
          queues,   \* the reassembly queues, SERVER: [used, flag]
          sender,   \* thread_pktsend: [pc, flow, flag, pos, sid]
          check,    \* check_clientsocket: [pc, i, list]
          owner     \* history: the open sockets and the flow each was opened for

vars == <<env, slots, pid2sid, flags, lastId, queues, sender, check, owner>>

SlotSet == 0..(env.lines - 1)
Numbers == IF env.loc = "client" THEN 1..Ids ELSE Flows

Free == [type |-> "none", sid |-> NoSocket, flag |-> None, idle |-> 0]
NoQueue == [used |-> 0, flag |-> None]
UnusedQueue == [used |-> 1, flag |-> None]

\* The function g without x.
Drop(g, x) == [y \in DOMAIN g \ {x} |-> g[y]]

\* init(): the slots are free, one reassembly queue exists.
Init ==
  /\ env \in Settings
  /\ slots = [i \in SlotSet |-> Free]
  /\ pid2sid = [n \in {} |-> 0] /\ flags = [f \in {} |-> 0] /\ lastId = 0
  /\ queues = [q \in 0..(Queues - 1) |-> IF q = 0 THEN UnusedQueue ELSE NoQueue]
  /\ sender = [pc |-> "idle", flow |-> None, flag |-> None, pos |-> 0, sid |-> NoSocket]
  /\ check = [pc |-> "sleep", i |-> 0, list |-> {}]
  /\ owner = [s \in {} |-> None]

-----------------------------------------------------------------------------
(* Sockets and slots.                                                      *)

\* run_udpclient or run_tcpclient: the lowest unused descriptor.
Unused == Min(Sockets \ DOMAIN owner)
Opened(n) == [s \in DOMAIN owner \cup {Unused} |-> IF s = Unused THEN n ELSE owner[s]]

\* allocate_clientsocket takes the first free slot, whose socket may not open.
FreeSlots == {i \in SlotSet : slots[i].type = "none"}
Allocate(i, n) ==
  \/ /\ slots' = [slots EXCEPT ![i] = [type |-> "used", sid |-> Unused, flag |-> n, idle |-> 0]]
     /\ owner' = Opened(n)
  \/ /\ env.fails
     /\ slots' = [slots EXCEPT ![i] = [type |-> "used", sid |-> NoSocket, flag |-> n, idle |-> 0]]
     /\ UNCHANGED owner

-----------------------------------------------------------------------------
(* The reassembly queues.                                                  *)

QueuesOf(n) == {q \in DOMAIN queues : queues[q].flag = n}
UnusedQueues == {q \in DOMAIN queues : queues[q].used = 1}
Unmade == {q \in DOMAIN queues : queues[q].used = 0}

\* GetPktQueuePos: its own, an unused one, a new one (InitOnePackQueue), or one
\* whose flow loses it (ReleaseOneOverTimeQueue).  The last is that with the
\* oldest stamp, or one that was made and never taken again, whose stamp is 0:
\* the stamps are left out, and it may be any.
QueuePos(n) ==
  IF QueuesOf(n) # {} THEN {Min(QueuesOf(n))}
  ELSE IF UnusedQueues # {} THEN {Min(UnusedQueues)}
  ELSE IF Unmade # {} THEN {Min(Unmade)} ELSE DOMAIN queues

\* The queue of n is unused again.
Released(n) == [r \in DOMAIN queues |->
  IF QueuesOf(n) # {} /\ r = Min(QueuesOf(n)) THEN UnusedQueue ELSE queues[r]]

-----------------------------------------------------------------------------
(* thread_pktsend.                                                         *)

\* The sender goes on with the packet it has.
Goes(pc, pos, sid) ==
  sender' = [pc |-> pc, flow |-> sender.flow, flag |-> sender.flag, pos |-> pos, sid |-> sid]
Goto(pc) == Goes(pc, sender.pos, sender.sid)

\* A packet of flow f is taken; a CLIENT numbers the flow when it is new.
Take(f) ==
  /\ sender.pc = "idle"
  /\ env.calm => check.pc = "sleep"
  /\ IF env.loc = "client" /\ f \notin DOMAIN flags
     THEN /\ lastId < Ids
          /\ lastId' = lastId + 1
          /\ flags' = [g \in DOMAIN flags \cup {f} |-> IF g = f THEN lastId' ELSE flags[g]]
     ELSE UNCHANGED <<lastId, flags>>
  /\ sender' = [pc |-> "find", flow |-> f, flag |-> IF env.loc = "client" THEN flags'[f] ELSE f,
                pos |-> sender.pos, sid |-> sender.sid]
  /\ UNCHANGED <<env, slots, pid2sid, queues, check, owner>>

\* The slot of the flow is looked up.
Find ==
  /\ sender.pc = "find"
  /\ IF sender.flag \in DOMAIN pid2sid
     THEN Goes("get", pid2sid[sender.flag], sender.sid)
     ELSE Goto("new")
  /\ UNCHANGED <<env, slots, pid2sid, flags, lastId, queues, check, owner>>

Exists == sender.pos < env.lines
Connected == Exists /\ slots[sender.pos].sid # NoSocket

\* get_clientsocketinfo: a socket is found, and the slot is no longer idle;
\* when none is, sid keeps the socket of the packet before.
Found ==
  /\ Goes("ready", sender.pos, IF Connected THEN slots[sender.pos].sid ELSE sender.sid)
  /\ slots' = IF Connected THEN [slots EXCEPT ![sender.pos].idle = 0] ELSE slots

\* The slot of the flow, unless it has gone.
Get ==
  /\ sender.pc = "get"
  /\ IF Exists /\ slots[sender.pos].type = "used" THEN Found
     ELSE Goto("again") /\ UNCHANGED slots
  /\ UNCHANGED <<env, pid2sid, flags, lastId, queues, check, owner>>

\* The flow gets another slot; the map is not told.
Again ==
  /\ sender.pc = "again"
  /\ IF FreeSlots = {}
     THEN /\ Goes("ready", env.lines, sender.sid)
          /\ UNCHANGED <<slots, owner>>
     ELSE /\ Allocate(Min(FreeSlots), sender.flag)
          /\ Goes("look", Min(FreeSlots), sender.sid)
  /\ UNCHANGED <<env, pid2sid, flags, lastId, queues, check>>

\* A new flow gets a slot.
New ==
  /\ sender.pc = "new"
  /\ IF FreeSlots = {}
     THEN /\ Goes("insert", env.lines, sender.sid)
          /\ UNCHANGED <<slots, owner>>
     ELSE /\ Allocate(Min(FreeSlots), sender.flag)
          /\ Goes("insert", Min(FreeSlots), sender.sid)
  /\ UNCHANGED <<env, pid2sid, flags, lastId, queues, check>>

\* Faulty variant: the new flow's slot is not noted.
InsertNot ==
  /\ sender.pc = "insert"
  /\ Goto("look")
  /\ UNCHANGED <<env, slots, pid2sid, flags, lastId, queues, check, owner>>

Insert ==
  /\ sender.pc = "insert"
  /\ pid2sid' = [n \in DOMAIN pid2sid \cup {sender.flag} |->
                   IF n = sender.flag THEN sender.pos ELSE pid2sid[n]]
  /\ Goto("look")
  /\ UNCHANGED <<env, slots, flags, lastId, queues, check, owner>>

Look ==
  /\ sender.pc = "look"
  /\ Found
  /\ UNCHANGED <<env, pid2sid, flags, lastId, queues, check, owner>>

\* A SERVER takes the flow's reassembly queue.
Queue ==
  /\ sender.pc = "ready"
  /\ IF env.loc = "server"
     THEN \E q \in QueuePos(sender.flag) :
            queues' = [queues EXCEPT ![q] = [used |-> 2, flag |-> sender.flag]]
     ELSE UNCHANGED queues
  /\ Goto("send")
  /\ UNCHANGED <<env, slots, pid2sid, flags, lastId, check, owner>>

\* The packet goes out on sid.
Send ==
  /\ sender.pc = "send"
  /\ sender' = [pc |-> "idle", flow |-> None, flag |-> None, pos |-> 0, sid |-> sender.sid]
  /\ UNCHANGED <<env, slots, pid2sid, flags, lastId, queues, check, owner>>

Sender == Find \/ Get \/ Again \/ New \/ Insert \/ Look \/ Queue \/ Send

-----------------------------------------------------------------------------
(* run(): check_clientsocket, once a second.                               *)

\* check goes on; list are the numbers whose slots it closed.
Checks(pc, i, list) == check' = [pc |-> pc, i |-> i, list |-> list]

Begin ==
  /\ check.pc = "sleep"
  /\ env.calm => sender.pc = "idle"
  /\ Checks("slots", 0, {})
  /\ UNCHANGED <<env, slots, pid2sid, flags, lastId, queues, sender, owner>>

AtSlot(type) == check.pc = "slots" /\ check.i < env.lines /\ slots[check.i].type = type
NextSlot == Checks("slots", check.i + 1, check.list)

Skip ==
  /\ AtSlot("none")
  /\ NextSlot
  /\ UNCHANGED <<env, slots, pid2sid, flags, lastId, queues, sender, owner>>

\* A slot in use grows older.
Ages ==
  /\ AtSlot("used") /\ slots[check.i].sid # NoSocket /\ slots[check.i].idle < Idle
  /\ slots' = [slots EXCEPT ![check.i].idle = @ + 1]
  /\ NextSlot
  /\ UNCHANGED <<env, pid2sid, flags, lastId, queues, sender, owner>>

\* Faulty variant: the slot is free again, its socket still open.
ExpiresOpen ==
  /\ AtSlot("used") /\ slots[check.i].sid # NoSocket /\ slots[check.i].idle = Idle
  /\ queues' = Released(slots[check.i].flag)
  /\ slots' = [slots EXCEPT ![check.i].type = "none", ![check.i].sid = NoSocket]
  /\ Checks("slots", check.i + 1, check.list \cup {slots[check.i].flag})
  /\ UNCHANGED <<env, pid2sid, flags, lastId, sender, owner>>

\* A slot was idle for too long: its socket is closed, the flow's queue and
\* the slot are free.
Expires ==
  /\ AtSlot("used") /\ slots[check.i].sid # NoSocket /\ slots[check.i].idle = Idle
  /\ owner' = Drop(owner, slots[check.i].sid)
  /\ queues' = Released(slots[check.i].flag)
  /\ slots' = [slots EXCEPT ![check.i].type = "none", ![check.i].sid = NoSocket]
  /\ Checks("slots", check.i + 1, check.list \cup {slots[check.i].flag})
  /\ UNCHANGED <<env, pid2sid, flags, lastId, sender>>

\* A slot without a socket tries again.
Reconnects ==
  /\ AtSlot("used") /\ slots[check.i].sid = NoSocket
  /\ \/ slots' = [slots EXCEPT ![check.i].sid = Unused] /\ owner' = Opened(slots[check.i].flag)
     \/ env.fails /\ UNCHANGED <<slots, owner>>
  /\ NextSlot
  /\ UNCHANGED <<env, pid2sid, flags, lastId, queues, sender>>

SlotsDone ==
  /\ check.pc = "slots" /\ check.i = env.lines
  /\ Checks("maps", check.i, check.list)
  /\ UNCHANGED <<env, slots, pid2sid, flags, lastId, queues, sender, owner>>

\* Faulty variant: the source keeps its number.
ForgetSlot(n) ==
  /\ check.pc = "maps" /\ n \in check.list
  /\ pid2sid' = Drop(pid2sid, n)
  /\ Checks("maps", check.i, check.list \ {n})
  /\ UNCHANGED <<env, slots, flags, lastId, queues, sender, owner>>

\* The maps forget the flow numbered n.
Forget(n) ==
  /\ check.pc = "maps" /\ n \in check.list
  /\ pid2sid' = Drop(pid2sid, n)
  /\ flags' = [f \in {g \in DOMAIN flags : flags[g] # n} |-> flags[f]]
  /\ Checks("maps", check.i, check.list \ {n})
  /\ UNCHANGED <<env, slots, lastId, queues, sender, owner>>

Sleep ==
  /\ check.pc = "maps" /\ check.list = {}
  /\ Checks("sleep", 0, {})
  /\ UNCHANGED <<env, slots, pid2sid, flags, lastId, queues, sender, owner>>

Check == Begin \/ Skip \/ Ages \/ Expires \/ Reconnects \/ SlotsDone \/ (\E n \in Numbers : Forget(n)) \/ Sleep

Next == (\E f \in Flows : Take(f)) \/ Sender \/ Check

Spec == Init /\ [][Next]_vars

\* Both threads run; neither that packets come nor that a remote answers is
\* assumed.
FairSpec == Spec /\ WF_vars(Sender) /\ WF_vars(Check)

-----------------------------------------------------------------------------
\* What each variable holds.
TypeOK ==
  /\ env \in Settings
  /\ slots \in [SlotSet -> [type : {"none", "used"}, sid : Sockets \cup {NoSocket},
                            flag : Numbers \cup {None}, idle : 0..Idle]]
  /\ DOMAIN pid2sid \subseteq Numbers /\ \A n \in DOMAIN pid2sid : pid2sid[n] \in 0..env.lines
  /\ DOMAIN flags \subseteq Flows /\ \A f \in DOMAIN flags : flags[f] \in 1..lastId
  /\ lastId \in 0..Ids
  /\ queues \in [0..(Queues - 1) -> [used : 0..2, flag : Numbers \cup {None}]]
  /\ sender \in [pc : {"idle", "find", "get", "again", "new", "insert", "look", "ready", "send"},
                 flow : Flows \cup {None}, flag : Numbers \cup {None},
                 pos : 0..Lines, sid : Sockets \cup {NoSocket}]
  /\ check \in [pc : {"sleep", "slots", "maps"}, i : 0..Lines, list : SUBSET Numbers]
  /\ DOMAIN owner \subseteq Sockets

\* No socket is left open without a slot, closed twice or given to two slots,
\* a slot's socket was opened for the slot's flow, no two flows have one
\* number and no flow has two reassembly queues: with packets and checks in
\* any order, a table that is full and sockets that cannot be opened.
SocketsKept ==
  /\ TypeOK
  /\ DOMAIN owner = {slots[i].sid : i \in SlotSet} \ {NoSocket}
  /\ \A i \in SlotSet : slots[i].sid # NoSocket =>
       /\ slots[i].type = "used" /\ owner[slots[i].sid] = slots[i].flag
       /\ \A j \in SlotSet : slots[j].sid = slots[i].sid => j = i
  /\ \A f, g \in DOMAIN flags : flags[f] = flags[g] => f = g
  /\ \A q, r \in DOMAIN queues : queues[q].flag = queues[r].flag /\ queues[q].flag # None => q = r

\* A packet leaves by a socket opened for its own flow, and no flow has two
\* slots; when no check runs at the same time, a slot is free for every flow
\* and sockets open.  (Otherwise it does not hold: sid keeps the last packet's
\* socket, and the map is not told of a second slot.)
OwnSocket ==
  env.calm /\ ~env.fails /\ env.lines >= Cardinality(Flows) =>
    /\ sender.pc = "send" => sender.sid \in DOMAIN owner /\ owner[sender.sid] = sender.flag
    /\ sender.pc \in {"idle", "find"} => \A i, j \in SlotSet :
         slots[i].type = "used" /\ slots[j].type = "used" /\ slots[i].flag = slots[j].flag => i = j

\* When packets stop, every socket is closed in the end, and every slot is free
\* where sockets open: also the slots the map was never told of, a full table's
\* and those that were reclaimed while the sender still looked for them; apart
\* from such a race, the maps forget every number, except in pid2sid that of a
\* flow that found no slot.  (A slot whose remote cannot be reached does not
\* grow idle, udp_socket.cpp:1738-1795: it is retried for ever and never free.)
IdleIsReleased ==
  <>[](sender.pc = "idle") => <>[]
   (/\ DOMAIN owner = {}
    /\ \A i \in SlotSet : slots[i].type = "none" \/ env.fails
    /\ env.calm =>
         /\ \A n \in DOMAIN pid2sid :
              pid2sid[n] = env.lines \/ (env.fails /\ slots[pid2sid[n]].type = "used")
         /\ \A f \in DOMAIN flags : flags[f] \in DOMAIN pid2sid)
=============================================================================
