------------------------- MODULE UdpSessionsProofs -------------------------
(***************************************************************************)
(* Proofs about UdpSessions for any flows, slots, queues and settings.     *)
(***************************************************************************)
EXTENDS UdpSessions, FiniteSetTheorems, WellFoundedInduction, TLAPS

-----------------------------------------------------------------------------
(* The least of a set.                                                     *)

LEMMA LeastIn ==
  ASSUME NEW S \in SUBSET Nat, S # {}
  PROVE  Min(S) \in S
<1>1. PICK x \in S : \A y \in S : ~ (<<y, x>> \in OpToRel(<, Nat))
  BY NatLessThanWellFounded, WFMin
<1>2. ASSUME NEW y \in S PROVE x <= y
  <2>1. ~(y < x)
    <3>1. SUFFICES ASSUME y < x PROVE <<y, x>> \in OpToRel(<, Nat)
      BY <1>1
    <3>2. <<y, x>> \in Nat \X Nat /\ <<y, x>>[1] < <<y, x>>[2]
      BY <3>1
    <3>. QED  BY <3>2, Zenon DEF OpToRel
  <2>. QED  BY <2>1
<1>. QED  BY <1>2, Zenon DEF Min

-----------------------------------------------------------------------------
(* The inductive invariant: the parts of the type invariant, the parts of  *)
(* SocketsKept, and where numbers come from.                               *)

SlotType == [type : {"none", "used"}, sid : Sockets \cup {NoSocket},
             flag : Numbers \cup {None}, idle : 0..Idle]
SlotsType == slots \in [SlotSet -> SlotType]

MapsType ==
  /\ DOMAIN pid2sid \subseteq Numbers /\ \A n \in DOMAIN pid2sid : pid2sid[n] \in 0..env.lines
  /\ DOMAIN flags \subseteq Flows /\ \A f \in DOMAIN flags : flags[f] \in 1..lastId
  /\ lastId \in 0..Ids

QueueType == [used : 0..2, flag : Numbers \cup {None}]
QueuesType == queues \in [0..(Queues - 1) -> QueueType]

SenderType ==
  sender \in [pc : {"idle", "find", "get", "again", "new", "insert", "look", "ready", "send"},
              flow : Flows \cup {None}, flag : Numbers \cup {None},
              pos : 0..Lines, sid : Sockets \cup {NoSocket}]

CheckType == check \in [pc : {"sleep", "slots", "maps"}, i : 0..Lines, list : SUBSET Numbers]

SocketsOwned ==
  /\ DOMAIN owner = {slots[i].sid : i \in SlotSet} \ {NoSocket}
  /\ \A i \in SlotSet : slots[i].sid # NoSocket =>
       /\ slots[i].type = "used" /\ owner[slots[i].sid] = slots[i].flag
       /\ \A j \in SlotSet : slots[j].sid = slots[i].sid => j = i

OwnNumber == \A f, g \in DOMAIN flags : flags[f] = flags[g] => f = g
OwnQueue == \A q, r \in DOMAIN queues : queues[q].flag = queues[r].flag /\ queues[q].flag # None => q = r

\* The sender works for a flow with a number, and its slot is one or none.
Serves == (sender.pc # "idle" => sender.flag \in Numbers) /\ sender.pos \in 0..env.lines

\* A slot in use is a numbered flow's.
SlotsNumbered == \A i \in SlotSet : slots[i].type = "used" => slots[i].flag \in Numbers

Inductive == TypeOK /\ SocketsOwned /\ OwnNumber /\ OwnQueue /\ Serves /\ SlotsNumbered

LEMMA TypeParts ==
  TypeOK <=> /\ env \in Settings /\ DOMAIN owner \subseteq Sockets
             /\ SlotsType /\ MapsType /\ QueuesType /\ SenderType /\ CheckType
BY DEF TypeOK, SlotsType, SlotType, MapsType, QueuesType, QueueType, SenderType, CheckType

LEMMA SettingFacts ==
  ASSUME env \in Settings
  PROVE  /\ env.lines \in 1..Lines /\ Lines \in Nat /\ env.lines \in Nat
         /\ env.fails \in BOOLEAN /\ env.calm \in BOOLEAN
         /\ SlotSet \subseteq 0..Lines /\ SlotSet \subseteq Nat /\ env.lines \notin SlotSet
<1>1. env \in SettingType
  BY SettingsAssumption
<1>2. env.lines \in 1..Lines /\ Lines \in Nat /\ env.fails \in BOOLEAN /\ env.calm \in BOOLEAN
  BY <1>1, SizesAssumption DEF SettingType
<1>. QED  BY <1>2 DEF SlotSet

(* The setting stays, and with it the slots and numbers there are.         *)
LEMMA Fixed ==
  ASSUME [Next]_vars
  PROVE  env' = env /\ SlotSet' = SlotSet /\ Numbers' = Numbers
<1>1. env' = env
  BY DEF Next, Sender, Check, Take, Find, Get, Again, New, Insert, Look, Queue, Send, Begin, Skip,
         Ages, Expires, Reconnects, SlotsDone, Forget, Sleep, vars
<1>. QED  BY <1>1 DEF SlotSet, Numbers

(* There are more sockets than slots, so that one is unused.               *)
LEMMA UnusedIsThere ==
  ASSUME TypeOK, SocketsOwned
  PROVE  Unused \in Sockets /\ Unused \notin DOMAIN owner /\ Unused # NoSocket
<1>0. env \in Settings /\ SlotsType
  BY TypeParts
<1>1. /\ env.lines \in 1..Lines /\ Lines \in Nat /\ Sockets \subseteq Nat /\ NoSocket \notin Sockets
      /\ IsFiniteSet(Sockets) /\ Cardinality(Sockets) = Lines + 1
      /\ IsFiniteSet(SlotSet) /\ Cardinality(SlotSet) = env.lines
  <2>1. env.lines \in 1..Lines /\ Lines \in Nat
    BY <1>0, SettingFacts
  <2>. QED  BY <2>1, FS_Interval DEF Sockets, SlotSet, NoSocket
<1>2. Sockets \ DOMAIN owner # {}
  <2> SUFFICES ASSUME Sockets \subseteq DOMAIN owner PROVE FALSE
    OBVIOUS
  <2>1. \A s \in Sockets : \E i \in SlotSet : slots[i].sid = s
    BY DEF SocketsOwned
  <2> DEFINE f == [s \in Sockets |-> CHOOSE i \in SlotSet : slots[i].sid = s]
  <2>2. \A s \in Sockets : f[s] \in SlotSet /\ slots[f[s]].sid = s
    BY <2>1
  <2>3. f \in [Sockets -> SlotSet]
    BY <2>2
  <2>4. \A s, t \in Sockets : f[s] = f[t] => s = t
    BY <2>2
  <2> HIDE DEF f
  <2>5. f \in Injection(Sockets, SlotSet)
    BY <2>3, <2>4 DEF Injection, IsInjective
  <2>6. Cardinality(Sockets) <= Cardinality(SlotSet)
    BY <2>5, <1>1, FS_Injection
  <2>. QED  BY <2>6, <1>1
<1>3. Unused \in Sockets \ DOMAIN owner
  BY <1>1, <1>2, LeastIn DEF Unused
<1>. QED  BY <1>1, <1>3

-----------------------------------------------------------------------------
(* What an action does to the slots, the sockets and the queues.         *)

\* What the proofs know of sockets and slots.
SlotsGood == SlotsType /\ DOMAIN owner \subseteq Sockets /\ SocketsOwned /\ SlotsNumbered

\* The slots have the flows and sockets they had.
SameSlots == \A j \in SlotSet :
  slots'[j].type = slots[j].type /\ slots'[j].sid = slots[j].sid /\ slots'[j].flag = slots[j].flag

(* A slot was used: only its age changes.                                  *)
LEMMA TouchedStep ==
  ASSUME TypeOK, SlotsGood, NEW i \in SlotSet, NEW x \in 0..Idle,
         slots' = [slots EXCEPT ![i].idle = x], env' = env, owner' = owner
  PROVE  SlotsGood' /\ SameSlots
<1>0. SlotSet' = SlotSet /\ Numbers' = Numbers
  BY DEF SlotSet, Numbers
<1>1. slots \in [SlotSet -> SlotType]
  BY DEF SlotsGood, SlotsType
<1>2. slots' \in [SlotSet -> SlotType]
  BY <1>1 DEF SlotType
<1>3. SameSlots
  BY <1>1 DEF SameSlots, SlotType
<1>4. SlotsType'
  BY <1>0, <1>2 DEF SlotsType, SlotType
<1>5. {slots'[j].sid : j \in SlotSet} = {slots[j].sid : j \in SlotSet}
  BY <1>3 DEF SameSlots
<1>6. SocketsOwned'
  BY <1>0, <1>3, <1>5 DEF SocketsOwned, SlotsGood, SameSlots
<1>7. SlotsNumbered'
  BY <1>0, <1>3 DEF SlotsNumbered, SlotsGood, SameSlots
<1>. QED  BY <1>3, <1>4, <1>6, <1>7 DEF SlotsGood

\* Slot i has a new socket, opened for n.
Opens(i, n) ==
  /\ slots'[i].type = "used" /\ slots'[i].sid = Unused /\ slots'[i].flag = n
  /\ \A j \in SlotSet \ {i} : slots'[j] = slots[j]
  /\ owner' = Opened(n)

(* A socket that is opened is another than those of the other slots.       *)
LEMMA OpenedStep ==
  ASSUME TypeOK, SlotsGood, NEW i \in SlotSet, slots[i].sid = NoSocket, NEW n \in Numbers,
         Opens(i, n), slots' \in [SlotSet -> SlotType], env' = env
  PROVE  SlotsGood'
<1>0. SlotSet' = SlotSet /\ Numbers' = Numbers
  BY DEF SlotSet, Numbers
<1>1. Unused \in Sockets /\ Unused \notin DOMAIN owner /\ Unused # NoSocket
  BY UnusedIsThere DEF SlotsGood
<1>2. DOMAIN owner' = DOMAIN owner \cup {Unused} /\ owner'[Unused] = n
      /\ \A s \in DOMAIN owner : owner'[s] = owner[s]
  BY <1>1 DEF Opens, Opened
<1>3. DOMAIN owner = {slots[j].sid : j \in SlotSet} \ {NoSocket}
  BY DEF SlotsGood, SocketsOwned
<1>4. \A j \in SlotSet \ {i} : slots'[j] = slots[j] /\ slots'[j].sid # Unused
  BY <1>1, <1>3 DEF Opens
<1>5. slots'[i].type = "used" /\ slots'[i].sid = Unused /\ slots'[i].flag = n
  BY DEF Opens
<1>6. SlotsType'
  BY <1>0 DEF SlotsType, SlotType
<1>7. DOMAIN owner' = {slots'[j].sid : j \in SlotSet} \ {NoSocket}
  BY <1>1, <1>2, <1>3, <1>4, <1>5
<1>8. ASSUME NEW j \in SlotSet, slots'[j].sid # NoSocket
      PROVE  /\ slots'[j].type = "used" /\ owner'[slots'[j].sid] = slots'[j].flag
             /\ \A k \in SlotSet : slots'[k].sid = slots'[j].sid => k = j
  <2>1. CASE j = i
    BY <1>2, <1>4, <1>5, <2>1
  <2>2. CASE j # i
    <3>1. slots[j].sid \in DOMAIN owner /\ slots[j].type = "used" /\ owner[slots[j].sid] = slots[j].flag
          /\ \A k \in SlotSet : slots[k].sid = slots[j].sid => k = j
      BY <1>3, <1>4, <1>8, <2>2 DEF SlotsGood, SocketsOwned
    <3>. QED  BY <1>2, <1>4, <1>5, <2>2, <3>1
  <2>. QED  BY <2>1, <2>2
<1>9. SocketsOwned'
  BY <1>0, <1>7, <1>8, Zenon DEF SocketsOwned
<1>10. SlotsNumbered'
  BY <1>0, <1>4, <1>5 DEF SlotsNumbered, SlotsGood
<1>11. DOMAIN owner' \subseteq Sockets
  BY <1>1, <1>2 DEF SlotsGood
<1>. QED  BY <1>6, <1>9, <1>10, <1>11 DEF SlotsGood

(* A free slot gets a socket, or none when it cannot be opened.            *)
LEMMA AllocateStep ==
  ASSUME TypeOK, SlotsGood, NEW i \in SlotSet, slots[i].type = "none", NEW n \in Numbers,
         Allocate(i, n), env' = env
  PROVE  /\ SlotsGood'
         /\ slots'[i].type = "used" /\ slots'[i].flag = n /\ (~env.fails => slots'[i].sid # NoSocket)
         /\ \A j \in SlotSet \ {i} : slots'[j] = slots[j]
<1>0. SlotSet' = SlotSet /\ Numbers' = Numbers
  BY DEF SlotSet, Numbers
<1>1. slots \in [SlotSet -> SlotType] /\ slots[i].sid = NoSocket
  BY DEF SlotsGood, SlotsType, SocketsOwned
<1>2. Unused \in Sockets /\ Unused # NoSocket /\ 0 \in 0..Idle
  BY UnusedIsThere, SizesAssumption DEF SlotsGood
<1>3. CASE slots' = [slots EXCEPT ![i] = [type |-> "used", sid |-> Unused, flag |-> n, idle |-> 0]]
           /\ owner' = Opened(n)
  <2>1. slots' \in [SlotSet -> SlotType]
    BY <1>1, <1>2, <1>3 DEF SlotType
  <2>2. Opens(i, n)
    BY <1>1, <1>3 DEF Opens
  <2>3. SlotsGood'
    BY <1>1, <2>1, <2>2, OpenedStep
  <2>. QED  BY <1>2, <2>2, <2>3 DEF Opens
<1>4. CASE /\ env.fails
           /\ slots' = [slots EXCEPT ![i] = [type |-> "used", sid |-> NoSocket, flag |-> n, idle |-> 0]]
           /\ UNCHANGED owner
  <2>1. slots' \in [SlotSet -> SlotType]
    BY <1>1, <1>2, <1>4 DEF SlotType
  <2>2. slots'[i].type = "used" /\ slots'[i].sid = NoSocket /\ slots'[i].flag = n
        /\ \A j \in SlotSet \ {i} : slots'[j] = slots[j]
    BY <1>1, <1>4
  <2>3. \A j \in SlotSet : slots'[j].sid = slots[j].sid
    BY <1>1, <2>2
  <2>4. {slots'[j].sid : j \in SlotSet} = {slots[j].sid : j \in SlotSet}
    BY <2>3
  <2>5. SocketsOwned'
    BY <1>0, <1>4, <2>2, <2>3, <2>4 DEF SocketsOwned, SlotsGood
  <2>6. SlotsNumbered'
    BY <1>0, <2>2 DEF SlotsNumbered, SlotsGood
  <2>7. SlotsType'
    BY <1>0, <2>1 DEF SlotsType, SlotType
  <2>. QED  BY <1>4, <2>2, <2>5, <2>6, <2>7 DEF SlotsGood
<1>. QED  BY <1>3, <1>4 DEF Allocate

\* Slot i is given back and its socket closed.
Closes(i) ==
  /\ slots' = [slots EXCEPT ![i].type = "none", ![i].sid = NoSocket]
  /\ owner' = Drop(owner, slots[i].sid)

(* Only the socket of the slot that is given back is closed.               *)
LEMMA ClosedStep ==
  ASSUME TypeOK, SlotsGood, NEW i \in SlotSet, slots[i].sid # NoSocket,
         Closes(i), env' = env
  PROVE  /\ SlotsGood' /\ slots'[i].type = "none"
         /\ \A j \in SlotSet \ {i} : slots'[j] = slots[j]
<1>0. SlotSet' = SlotSet /\ Numbers' = Numbers
  BY DEF SlotSet, Numbers
<1>1. slots \in [SlotSet -> SlotType]
  BY DEF SlotsGood, SlotsType
<1>2. slots' \in [SlotSet -> SlotType]
  BY <1>1 DEF SlotType, Closes
<1>3. slots'[i].type = "none" /\ slots'[i].sid = NoSocket /\ \A j \in SlotSet \ {i} : slots'[j] = slots[j]
  BY <1>1 DEF SlotType, Closes
<1>4. \A j \in SlotSet \ {i} : slots[j].sid # slots[i].sid
  BY DEF SlotsGood, SocketsOwned
<1>5. DOMAIN owner = {slots[j].sid : j \in SlotSet} \ {NoSocket}
  BY DEF SlotsGood, SocketsOwned
<1>6. DOMAIN owner' = DOMAIN owner \ {slots[i].sid} /\ \A s \in DOMAIN owner' : owner'[s] = owner[s]
  BY DEF Drop, Closes
<1>7. DOMAIN owner' = {slots'[j].sid : j \in SlotSet} \ {NoSocket}
  BY <1>3, <1>4, <1>5, <1>6
<1>8. ASSUME NEW j \in SlotSet, slots'[j].sid # NoSocket
      PROVE  /\ slots'[j].type = "used" /\ owner'[slots'[j].sid] = slots'[j].flag
             /\ \A k \in SlotSet : slots'[k].sid = slots'[j].sid => k = j
  <2>1. j # i /\ slots'[j] = slots[j]
    BY <1>3, <1>8
  <2>2. slots[j].sid \in DOMAIN owner' /\ slots[j].type = "used" /\ owner[slots[j].sid] = slots[j].flag
        /\ \A k \in SlotSet : slots[k].sid = slots[j].sid => k = j
    BY <1>4, <1>5, <1>6, <1>8, <2>1 DEF SlotsGood, SocketsOwned
  <2>. QED  BY <1>3, <1>6, <1>8, <2>1, <2>2
<1>9. SocketsOwned'
  BY <1>0, <1>7, <1>8, Zenon DEF SocketsOwned
<1>10. SlotsNumbered'
  BY <1>0, <1>3 DEF SlotsNumbered, SlotsGood
<1>11. DOMAIN owner' \subseteq Sockets /\ SlotsType'
  BY <1>0, <1>2, <1>6 DEF SlotsGood, SlotsType, SlotType
<1>. QED  BY <1>3, <1>9, <1>10, <1>11 DEF SlotsGood

(* A slot without a socket gets one.                                       *)
LEMMA ReconnectedStep ==
  ASSUME TypeOK, SlotsGood, NEW i \in SlotSet, slots[i].type = "used", slots[i].sid = NoSocket,
         slots' = [slots EXCEPT ![i].sid = Unused], owner' = Opened(slots[i].flag), env' = env
  PROVE  SlotsGood'
<1>1. slots \in [SlotSet -> SlotType] /\ slots[i].flag \in Numbers
  BY DEF SlotsGood, SlotsType, SlotsNumbered
<1>2. Unused \in Sockets
  BY UnusedIsThere DEF SlotsGood
<1>3. slots' \in [SlotSet -> SlotType]
  BY <1>1, <1>2 DEF SlotType
<1>4. Opens(i, slots[i].flag)
  BY <1>1 DEF Opens, SlotType
<1>. QED  BY <1>1, <1>3, <1>4, OpenedStep

(* A flow takes a queue: its own if it has one.                            *)
LEMMA TakenStep ==
  ASSUME TypeOK, OwnQueue, NEW n \in Numbers, NEW q \in QueuePos(n),
         queues' = [queues EXCEPT ![q] = [used |-> 2, flag |-> n]], env' = env
  PROVE  QueuesType' /\ OwnQueue'
<1>0. Numbers' = Numbers
  BY DEF Numbers
<1>1. queues \in [0..(Queues - 1) -> QueueType] /\ Queues \in Nat \ {0}
  BY TypeParts, SizesAssumption DEF QueuesType
<1>2. QueuesOf(n) # {} => q \in QueuesOf(n)
  <2>1. QueuesOf(n) \subseteq Nat
    BY <1>1 DEF QueuesOf
  <2>. QED  BY <2>1, LeastIn DEF QueuePos
<1>3. \A r \in DOMAIN queues : queues[r].flag = n => r = q
  <2>1. n # None
    BY FlowsAssumption DEF Numbers, None
  <2>. QED  BY <1>2, <2>1 DEF QueuesOf, OwnQueue
<1>4. [used |-> 2, flag |-> n] \in QueueType
  BY DEF QueueType
<1>5. queues' \in [0..(Queues - 1) -> QueueType]
  BY <1>1, <1>4
<1>6. QueuesType'
  BY <1>0, <1>5 DEF QueuesType, QueueType
<1>7. ASSUME NEW r \in DOMAIN queues'
      PROVE  /\ r \in DOMAIN queues
             /\ r = q => queues'[r].flag = n
             /\ r # q => queues'[r].flag = queues[r].flag
  BY <1>1, <1>5
<1>8. ASSUME NEW r \in DOMAIN queues', NEW t \in DOMAIN queues',
             queues'[r].flag = queues'[t].flag, queues'[r].flag # None
      PROVE  r = t
  <2>1. CASE r = q /\ t # q
    BY <1>3, <1>7, <1>8, <2>1
  <2>2. CASE r # q /\ t = q
    BY <1>3, <1>7, <1>8, <2>2
  <2>3. CASE r # q /\ t # q
    BY <1>7, <1>8, <2>3 DEF OwnQueue
  <2>. QED  BY <2>1, <2>2, <2>3
<1>9. OwnQueue'
  BY <1>8 DEF OwnQueue
<1>. QED  BY <1>6, <1>9

(* A queue is given back.                                                  *)
LEMMA ReleasedStep ==
  ASSUME TypeOK, OwnQueue, NEW n, queues' = Released(n), env' = env
  PROVE  QueuesType' /\ OwnQueue'
<1>0. Numbers' = Numbers
  BY DEF Numbers
<1>1. QueuesType /\ DOMAIN queues = 0..(Queues - 1) /\ Queues \in Nat \ {0}
  BY TypeParts, SizesAssumption DEF QueuesType
<1>2. UnusedQueue \in QueueType /\ UnusedQueue.flag = None
  BY <1>1 DEF UnusedQueue, QueueType
<1>3. \A r \in 0..(Queues - 1) : queues'[r] = queues[r] \/ queues'[r] = UnusedQueue
  BY <1>1 DEF Released
<1>4. queues' \in [0..(Queues - 1) -> QueueType]
  BY <1>1, <1>2 DEF Released, QueuesType
<1>5. QueuesType'
  BY <1>0, <1>4 DEF QueuesType, QueueType
<1>6. DOMAIN queues' = DOMAIN queues
  BY <1>1, <1>4
<1>7. OwnQueue'
  BY <1>1, <1>2, <1>3, <1>6 DEF OwnQueue
<1>. QED  BY <1>5, <1>7

-----------------------------------------------------------------------------
(* One step.                                                               *)

(* What Found does to the slot it finds is to make it young again.         *)
LEMMA FoundStep ==
  ASSUME TypeOK, SlotsGood, Serves, Found, env' = env, owner' = owner
  PROVE  SlotsGood' /\ SameSlots
<1>0. 0 \in 0..Idle
  BY SizesAssumption
<1>1. CASE Connected
  <2>1. sender.pos \in SlotSet
    BY <1>1, TypeParts, SettingFacts DEF Connected, Exists, Serves, SlotSet
  <2>. QED  BY <1>0, <1>1, <2>1, TouchedStep DEF Found
<1>2. CASE ~Connected
  BY <1>2 DEF Found, SameSlots, SlotsGood, SlotsType, SlotType, SocketsOwned, SlotsNumbered, SlotSet, Numbers
<1>. QED  BY <1>1, <1>2

(* The first free slot is free.                                            *)
LEMMA FreeSlot ==
  ASSUME env \in Settings, FreeSlots # {}
  PROVE  Min(FreeSlots) \in SlotSet /\ slots[Min(FreeSlots)].type = "none"
<1>1. FreeSlots \subseteq Nat
  BY SettingFacts DEF FreeSlots
<1>2. Min(FreeSlots) \in FreeSlots
  BY <1>1, LeastIn
<1>. QED  BY <1>2 DEF FreeSlots

(* The slot check looks at.                                                *)
LEMMA SlotAt ==
  ASSUME TypeOK, NEW type, AtSlot(type)
  PROVE  /\ check.i \in SlotSet /\ slots[check.i].type = type
         /\ slots[check.i] \in SlotType
         /\ check.i \in Nat /\ check.i + 1 \in 0..Lines /\ check.list \subseteq Numbers
BY TypeParts, SettingFacts DEF AtSlot, CheckType, SlotSet, SlotsType

LEMMA SlotsStep ==
  ASSUME TypeOK, SlotsGood, Serves, [Next]_vars
  PROVE  SlotsGood'
<1>0. env' = env
  BY Fixed
<1>1. ASSUME NEW f \in Flows, Take(f) PROVE SlotsGood'
  BY <1>0, <1>1 DEF Take, SlotsGood, SlotsType, SlotType, SocketsOwned, SlotsNumbered, SlotSet, Numbers
<1>2. ASSUME Find PROVE SlotsGood'
  BY <1>0, <1>2 DEF Find, SlotsGood, SlotsType, SlotType, SocketsOwned, SlotsNumbered, SlotSet, Numbers
<1>3. ASSUME Get PROVE SlotsGood'
  <2>1. CASE Found
    BY <1>0, <1>3, <2>1, FoundStep DEF Get
  <2>2. CASE UNCHANGED slots
    BY <1>0, <1>3, <2>2 DEF Get, SlotsGood, SlotsType, SlotType, SocketsOwned, SlotsNumbered, SlotSet, Numbers
  <2>. QED  BY <1>3, <2>1, <2>2 DEF Get
<1>4. ASSUME Again PROVE SlotsGood'
  <2>1. CASE FreeSlots = {}
    BY <1>0, <1>4, <2>1 DEF Again, SlotsGood, SlotsType, SlotType, SocketsOwned, SlotsNumbered, SlotSet, Numbers
  <2>2. CASE FreeSlots # {}
    <3>1. sender.flag \in Numbers
      BY <1>0, <1>4 DEF Again, Serves
    <3>2. Min(FreeSlots) \in SlotSet /\ slots[Min(FreeSlots)].type = "none"
      BY <2>2, TypeParts, FreeSlot
    <3>3. Allocate(Min(FreeSlots), sender.flag)
      BY <1>4, <2>2 DEF Again
    <3>. QED  BY <1>0, <3>1, <3>2, <3>3, AllocateStep
  <2>. QED  BY <2>1, <2>2
<1>5. ASSUME New PROVE SlotsGood'
  <2>1. CASE FreeSlots = {}
    BY <1>0, <1>5, <2>1 DEF New, SlotsGood, SlotsType, SlotType, SocketsOwned, SlotsNumbered, SlotSet, Numbers
  <2>2. CASE FreeSlots # {}
    <3>1. sender.flag \in Numbers
      BY <1>0, <1>5 DEF New, Serves
    <3>2. Min(FreeSlots) \in SlotSet /\ slots[Min(FreeSlots)].type = "none"
      BY <2>2, TypeParts, FreeSlot
    <3>3. Allocate(Min(FreeSlots), sender.flag)
      BY <1>5, <2>2 DEF New
    <3>. QED  BY <1>0, <3>1, <3>2, <3>3, AllocateStep
  <2>. QED  BY <2>1, <2>2
<1>6. ASSUME Insert PROVE SlotsGood'
  BY <1>0, <1>6 DEF Insert, SlotsGood, SlotsType, SlotType, SocketsOwned, SlotsNumbered, SlotSet, Numbers
<1>7. ASSUME Look PROVE SlotsGood'
  BY <1>0, <1>7, FoundStep DEF Look
<1>8. ASSUME Queue PROVE SlotsGood'
  BY <1>0, <1>8 DEF Queue, SlotsGood, SlotsType, SlotType, SocketsOwned, SlotsNumbered, SlotSet, Numbers
<1>9. ASSUME Send PROVE SlotsGood'
  BY <1>0, <1>9 DEF Send, SlotsGood, SlotsType, SlotType, SocketsOwned, SlotsNumbered, SlotSet, Numbers
<1>10. ASSUME Begin PROVE SlotsGood'
  BY <1>0, <1>10 DEF Begin, SlotsGood, SlotsType, SlotType, SocketsOwned, SlotsNumbered, SlotSet, Numbers
<1>11. ASSUME Skip PROVE SlotsGood'
  BY <1>0, <1>11 DEF Skip, SlotsGood, SlotsType, SlotType, SocketsOwned, SlotsNumbered, SlotSet, Numbers
<1>12. ASSUME Ages PROVE SlotsGood'
  <2>1. check.i \in SlotSet /\ slots[check.i] \in SlotType /\ slots[check.i].idle < Idle
    BY <1>0, <1>12, SlotAt DEF Ages
  <2>2. slots[check.i].idle + 1 \in 0..Idle
    BY <2>1, SizesAssumption DEF SlotType
  <2>. QED  BY <1>0, <1>12, <2>1, <2>2, TouchedStep DEF Ages
<1>13. ASSUME Expires PROVE SlotsGood'
  <2>1. check.i \in SlotSet /\ slots[check.i].sid # NoSocket /\ Closes(check.i)
    BY <1>0, <1>13, SlotAt DEF Expires, Closes
  <2>. QED  BY <1>0, <2>1, ClosedStep
<1>14. ASSUME Reconnects PROVE SlotsGood'
  <2>1. check.i \in SlotSet /\ slots[check.i].type = "used" /\ slots[check.i].sid = NoSocket
    BY <1>0, <1>14, SlotAt DEF Reconnects
  <2>2. CASE UNCHANGED <<slots, owner>>
    BY <1>0, <2>2 DEF SlotsGood, SlotsType, SlotType, SocketsOwned, SlotsNumbered, SlotSet, Numbers
  <2>3. CASE slots' = [slots EXCEPT ![check.i].sid = Unused] /\ owner' = Opened(slots[check.i].flag)
    BY <1>0, <2>1, <2>3, ReconnectedStep
  <2>. QED  BY <1>14, <2>2, <2>3 DEF Reconnects
<1>15. ASSUME SlotsDone PROVE SlotsGood'
  BY <1>0, <1>15 DEF SlotsDone, SlotsGood, SlotsType, SlotType, SocketsOwned, SlotsNumbered, SlotSet, Numbers
<1>16. ASSUME NEW n \in Numbers, Forget(n) PROVE SlotsGood'
  BY <1>0, <1>16 DEF Forget, SlotsGood, SlotsType, SlotType, SocketsOwned, SlotsNumbered, SlotSet, Numbers
<1>17. ASSUME Sleep PROVE SlotsGood'
  BY <1>0, <1>17 DEF Sleep, SlotsGood, SlotsType, SlotType, SocketsOwned, SlotsNumbered, SlotSet, Numbers
<1>18. CASE UNCHANGED vars
  BY <1>0, <1>18 DEF vars, SlotsGood, SlotsType, SlotType, SocketsOwned, SlotsNumbered, SlotSet, Numbers
<1>. QED
  BY <1>1, <1>2, <1>3, <1>4, <1>5, <1>6, <1>7, <1>8, <1>9, <1>10, <1>11, <1>12, <1>13, <1>14, <1>15, <1>16, <1>17, <1>18 DEF Next, Sender, Check

(* The flows of a CLIENT are numbered one after the other.                 *)
LEMMA NumberedStep ==
  ASSUME TypeOK, OwnNumber, NEW f \in Flows, Take(f)
  PROVE  /\ (DOMAIN flags \subseteq Flows /\ \A g \in DOMAIN flags : flags[g] \in 1..lastId)'
         /\ lastId' \in 0..Ids /\ OwnNumber'
         /\ env.loc = "client" => f \in DOMAIN flags' /\ flags'[f] \in 1..lastId'
         /\ DOMAIN flags \subseteq DOMAIN flags' /\ \A g \in DOMAIN flags : flags'[g] = flags[g]
<1>0. MapsType /\ Ids \in Nat
  BY TypeParts, SizesAssumption
<1>1. CASE env.loc = "client" /\ f \notin DOMAIN flags
  <2>1. lastId \in 0..Ids /\ lastId < Ids /\ lastId' = lastId + 1
        /\ flags' = [g \in DOMAIN flags \cup {f} |-> IF g = f THEN lastId' ELSE flags[g]]
    BY <1>0, <1>1 DEF Take, MapsType
  <2>2. DOMAIN flags' = DOMAIN flags \cup {f} /\ flags'[f] = lastId'
        /\ \A g \in DOMAIN flags : flags'[g] = flags[g]
    BY <1>1, <2>1
  <2>3. \A g \in DOMAIN flags : flags[g] \in 1..lastId /\ flags[g] # lastId'
    BY <1>0, <2>1 DEF MapsType
  <2>4. OwnNumber'
    BY <1>1, <2>2, <2>3 DEF OwnNumber
  <2>5. lastId' \in 0..Ids /\ lastId' \in 1..lastId' /\ 1..lastId \subseteq 1..lastId'
    BY <1>0, <2>1
  <2>. QED  BY <1>0, <2>2, <2>3, <2>4, <2>5 DEF MapsType
<1>2. CASE ~(env.loc = "client" /\ f \notin DOMAIN flags)
  BY <1>0, <1>2 DEF Take, MapsType, OwnNumber
<1>. QED  BY <1>1, <1>2

(* Forgetting the number n takes it and its source out of the maps.        *)
LEMMA ForgottenStep ==
  ASSUME TypeOK, OwnNumber, NEW n \in Numbers, Forget(n)
  PROVE  MapsType' /\ OwnNumber'
<1>0. MapsType /\ env' = env /\ lastId' = lastId /\ Numbers' = Numbers
  BY TypeParts DEF Forget, Numbers
<1>1. DOMAIN pid2sid' \subseteq DOMAIN pid2sid /\ \A m \in DOMAIN pid2sid' : pid2sid'[m] = pid2sid[m]
  BY DEF Forget, Drop
<1>2. DOMAIN flags' \subseteq DOMAIN flags /\ \A f \in DOMAIN flags' : flags'[f] = flags[f]
  BY DEF Forget
<1>3. MapsType'
  BY <1>0, <1>1, <1>2 DEF MapsType
<1>4. OwnNumber'
  BY <1>2 DEF OwnNumber
<1>. QED  BY <1>3, <1>4

LEMMA MapsStep ==
  ASSUME TypeOK, OwnNumber, Serves, [Next]_vars
  PROVE  MapsType' /\ OwnNumber'
<1>0. MapsType /\ env' = env /\ Numbers' = Numbers
  BY Fixed, TypeParts
<1>1. ASSUME NEW f \in Flows, Take(f) PROVE MapsType' /\ OwnNumber'
  BY <1>0, <1>1, NumberedStep DEF Take, MapsType
<1>2. ASSUME Find PROVE MapsType' /\ OwnNumber'
  BY <1>0, <1>2 DEF Find, MapsType, OwnNumber
<1>3. ASSUME Get PROVE MapsType' /\ OwnNumber'
  BY <1>0, <1>3 DEF Get, MapsType, OwnNumber
<1>4. ASSUME Again PROVE MapsType' /\ OwnNumber'
  BY <1>0, <1>4 DEF Again, MapsType, OwnNumber
<1>5. ASSUME New PROVE MapsType' /\ OwnNumber'
  BY <1>0, <1>5 DEF New, MapsType, OwnNumber
<1>6. ASSUME Insert PROVE MapsType' /\ OwnNumber'
  <2>1. DOMAIN pid2sid' \subseteq DOMAIN pid2sid \cup {sender.flag}
        /\ \A n \in DOMAIN pid2sid' : pid2sid'[n] = pid2sid[n] \/ pid2sid'[n] = sender.pos
    BY <1>6 DEF Insert
  <2>2. sender.flag \in Numbers /\ sender.pos \in 0..env.lines
    BY <1>6 DEF Insert, Serves
  <2>3. MapsType'
    BY <1>0, <1>6, <2>1, <2>2 DEF Insert, MapsType
  <2>. QED  BY <1>0, <1>6, <2>3 DEF Insert, OwnNumber
<1>7. ASSUME Look PROVE MapsType' /\ OwnNumber'
  BY <1>0, <1>7 DEF Look, MapsType, OwnNumber
<1>8. ASSUME Queue PROVE MapsType' /\ OwnNumber'
  BY <1>0, <1>8 DEF Queue, MapsType, OwnNumber
<1>9. ASSUME Send PROVE MapsType' /\ OwnNumber'
  BY <1>0, <1>9 DEF Send, MapsType, OwnNumber
<1>10. ASSUME Begin PROVE MapsType' /\ OwnNumber'
  BY <1>0, <1>10 DEF Begin, MapsType, OwnNumber
<1>11. ASSUME Skip PROVE MapsType' /\ OwnNumber'
  BY <1>0, <1>11 DEF Skip, MapsType, OwnNumber
<1>12. ASSUME Ages PROVE MapsType' /\ OwnNumber'
  BY <1>0, <1>12 DEF Ages, MapsType, OwnNumber
<1>13. ASSUME Expires PROVE MapsType' /\ OwnNumber'
  BY <1>0, <1>13 DEF Expires, MapsType, OwnNumber
<1>14. ASSUME Reconnects PROVE MapsType' /\ OwnNumber'
  BY <1>0, <1>14 DEF Reconnects, MapsType, OwnNumber
<1>15. ASSUME SlotsDone PROVE MapsType' /\ OwnNumber'
  BY <1>0, <1>15 DEF SlotsDone, MapsType, OwnNumber
<1>16. ASSUME NEW n \in Numbers, Forget(n) PROVE MapsType' /\ OwnNumber'
  BY <1>16, ForgottenStep
<1>17. ASSUME Sleep PROVE MapsType' /\ OwnNumber'
  BY <1>0, <1>17 DEF Sleep, MapsType, OwnNumber
<1>18. CASE UNCHANGED vars
  BY <1>0, <1>18 DEF vars, MapsType, OwnNumber
<1>. QED
  BY <1>1, <1>2, <1>3, <1>4, <1>5, <1>6, <1>7, <1>8, <1>9, <1>10, <1>11, <1>12, <1>13, <1>14, <1>15, <1>16, <1>17, <1>18 DEF Next, Sender, Check

(* Each flow keeps its own queue.                                          *)
LEMMA QueuesStep ==
  ASSUME TypeOK, OwnQueue, Serves, [Next]_vars
  PROVE  QueuesType' /\ OwnQueue'
<1>0. QueuesType /\ env' = env /\ Numbers' = Numbers
  BY Fixed, TypeParts
<1>1. ASSUME NEW f \in Flows, Take(f) PROVE QueuesType' /\ OwnQueue'
  BY <1>0, <1>1 DEF Take, QueuesType, QueueType, OwnQueue, Numbers
<1>2. ASSUME Find PROVE QueuesType' /\ OwnQueue'
  BY <1>0, <1>2 DEF Find, QueuesType, QueueType, OwnQueue, Numbers
<1>3. ASSUME Get PROVE QueuesType' /\ OwnQueue'
  BY <1>0, <1>3 DEF Get, QueuesType, QueueType, OwnQueue, Numbers
<1>4. ASSUME Again PROVE QueuesType' /\ OwnQueue'
  BY <1>0, <1>4 DEF Again, QueuesType, QueueType, OwnQueue, Numbers
<1>5. ASSUME New PROVE QueuesType' /\ OwnQueue'
  BY <1>0, <1>5 DEF New, QueuesType, QueueType, OwnQueue, Numbers
<1>6. ASSUME Insert PROVE QueuesType' /\ OwnQueue'
  BY <1>0, <1>6 DEF Insert, QueuesType, QueueType, OwnQueue, Numbers
<1>7. ASSUME Look PROVE QueuesType' /\ OwnQueue'
  BY <1>0, <1>7 DEF Look, QueuesType, QueueType, OwnQueue, Numbers
<1>8. ASSUME Queue PROVE QueuesType' /\ OwnQueue'
  <2>1. sender.flag \in Numbers
    BY <1>8 DEF Queue, Serves
  <2>2. CASE queues' = queues
    BY <1>0, <2>2 DEF QueuesType, QueueType, OwnQueue
  <2>3. CASE env.loc = "server"
    <3>1. PICK q \in QueuePos(sender.flag) :
            queues' = [queues EXCEPT ![q] = [used |-> 2, flag |-> sender.flag]]
      BY <1>8, <2>3 DEF Queue
    <3> DEFINE n == sender.flag
    <3>2. n \in Numbers /\ q \in QueuePos(n) /\ queues' = [queues EXCEPT ![q] = [used |-> 2, flag |-> n]]
      BY <2>1, <3>1
    <3> HIDE DEF n
    <3>. QED  BY <1>0, <3>2, TakenStep
  <2>. QED  BY <1>8, <2>2, <2>3 DEF Queue
<1>9. ASSUME Send PROVE QueuesType' /\ OwnQueue'
  BY <1>0, <1>9 DEF Send, QueuesType, QueueType, OwnQueue, Numbers
<1>10. ASSUME Begin PROVE QueuesType' /\ OwnQueue'
  BY <1>0, <1>10 DEF Begin, QueuesType, QueueType, OwnQueue, Numbers
<1>11. ASSUME Skip PROVE QueuesType' /\ OwnQueue'
  BY <1>0, <1>11 DEF Skip, QueuesType, QueueType, OwnQueue, Numbers
<1>12. ASSUME Ages PROVE QueuesType' /\ OwnQueue'
  BY <1>0, <1>12 DEF Ages, QueuesType, QueueType, OwnQueue, Numbers
<1>13. ASSUME Expires PROVE QueuesType' /\ OwnQueue'
  <2>1. queues' = Released(slots[check.i].flag)
    BY <1>13 DEF Expires
  <2>. QED  BY <1>0, <2>1, ReleasedStep
<1>14. ASSUME Reconnects PROVE QueuesType' /\ OwnQueue'
  BY <1>0, <1>14 DEF Reconnects, QueuesType, QueueType, OwnQueue, Numbers
<1>15. ASSUME SlotsDone PROVE QueuesType' /\ OwnQueue'
  BY <1>0, <1>15 DEF SlotsDone, QueuesType, QueueType, OwnQueue, Numbers
<1>16. ASSUME NEW n \in Numbers, Forget(n) PROVE QueuesType' /\ OwnQueue'
  BY <1>0, <1>16 DEF Forget, QueuesType, QueueType, OwnQueue, Numbers
<1>17. ASSUME Sleep PROVE QueuesType' /\ OwnQueue'
  BY <1>0, <1>17 DEF Sleep, QueuesType, QueueType, OwnQueue, Numbers
<1>18. CASE UNCHANGED vars
  BY <1>0, <1>18 DEF vars, QueuesType, QueueType, OwnQueue, Numbers
<1>. QED
  BY <1>1, <1>2, <1>3, <1>4, <1>5, <1>6, <1>7, <1>8, <1>9, <1>10, <1>11, <1>12, <1>13, <1>14, <1>15, <1>16, <1>17, <1>18 DEF Next, Sender, Check

(* Where the sender goes on to.                                            *)
LEMMA SenderGoes ==
  ASSUME TypeOK, Serves, sender.pc # "idle", env' = env,
         NEW pc \in {"find", "get", "again", "new", "insert", "look", "ready", "send"},
         NEW pos \in 0..env.lines, NEW sid \in Sockets \cup {NoSocket}, Goes(pc, pos, sid)
  PROVE  SenderType' /\ Serves'
<1>0. SenderType /\ Numbers' = Numbers /\ pos \in 0..Lines
  BY TypeParts, SettingFacts DEF Numbers
<1>. QED  BY <1>0 DEF SenderType, Serves, Goes

LEMMA FoundGoes ==
  ASSUME TypeOK, Serves, sender.pc # "idle", env' = env, Found
  PROVE  SenderType' /\ Serves'
<1> DEFINE sid == IF Connected THEN slots[sender.pos].sid ELSE sender.sid
<1>0. SenderType /\ SlotsType /\ env \in Settings
  BY TypeParts
<1>1. sid \in Sockets \cup {NoSocket}
  <2>1. sender.sid \in Sockets \cup {NoSocket}
    BY <1>0 DEF SenderType
  <2>2. Connected => sender.pos \in SlotSet
    BY <1>0, SettingFacts DEF Serves, Connected, Exists, SlotSet
  <2>3. Connected => slots[sender.pos].sid \in Sockets \cup {NoSocket}
    BY <1>0, <2>2 DEF SlotsType, SlotType
  <2>. QED  BY <2>1, <2>3
<1>2. sender.pos \in 0..env.lines
  BY DEF Serves
<1>3. Goes("ready", sender.pos, sid)
  BY DEF Found
<1> HIDE DEF sid
<1>. QED  BY <1>1, <1>2, <1>3, SenderGoes

LEMMA SenderStep ==
  ASSUME TypeOK, SlotsGood, Serves, OwnNumber, [Next]_vars
  PROVE  SenderType' /\ Serves'
<1>0. /\ SenderType /\ MapsType /\ env' = env /\ Numbers' = Numbers /\ env \in Settings /\ env.lines \in 0..env.lines /\ 0 \in 0..env.lines /\ 0 \in 0..Lines
      /\ sender.pos \in 0..env.lines /\ sender.sid \in Sockets \cup {NoSocket} 
  BY Fixed, TypeParts, SettingFacts DEF Serves, SenderType
<1>1. ASSUME NEW f \in Flows, Take(f) PROVE SenderType' /\ Serves'
  <2>0. env.loc = "client" => flags'[f] \in 1..lastId' /\ lastId' \in 0..Ids
    BY <1>1, NumberedStep
  <2>1. IF env.loc = "client" THEN flags'[f] \in 1..Ids ELSE f \in Numbers
    BY <2>0, SizesAssumption DEF Numbers
  <2>2. (IF env.loc = "client" THEN flags'[f] ELSE f) \in Numbers
    BY <2>1 DEF Numbers
  <2> DEFINE x == IF env.loc = "client" THEN flags'[f] ELSE f
  <2>3. sender' = [pc |-> "find", flow |-> f, flag |-> x, pos |-> sender.pos, sid |-> sender.sid]
    BY <1>1 DEF Take
  <2> HIDE DEF x
  <2>. QED  BY <1>0, <2>2, <2>3 DEF SenderType, Serves, x
<1>2. ASSUME Find PROVE SenderType' /\ Serves'
  <2>1. sender.flag \in DOMAIN pid2sid => pid2sid[sender.flag] \in 0..env.lines
    BY <1>0 DEF MapsType
  <2>. QED  BY <1>0, <1>2, <2>1, SenderGoes DEF Find, Goto
<1>3. ASSUME Get PROVE SenderType' /\ Serves'
  <2>1. CASE Found
    BY <1>0, <1>3, <2>1, FoundGoes DEF Get
  <2>2. CASE Goto("again")
    BY <1>0, <1>3, <2>2, SenderGoes DEF Get, Goto
  <2>. QED  BY <1>3, <2>1, <2>2 DEF Get
<1>4. ASSUME Again PROVE SenderType' /\ Serves'
  <2>1. sender.pc # "idle" /\ env' = env
    BY <1>4 DEF Again
  <2>2. FreeSlots # {} => Min(FreeSlots) \in 0..env.lines
    BY <1>0, FreeSlot, SettingFacts DEF SlotSet
  <2>3. CASE FreeSlots = {}
    <3>1. Goes("ready", env.lines, sender.sid)
      BY <1>4, <2>3 DEF Again
    <3>. QED  BY <1>0, <2>1, <3>1, SenderGoes
  <2>4. CASE FreeSlots # {}
    <3>1. Goes("look", Min(FreeSlots), sender.sid)
      BY <1>4, <2>4 DEF Again
    <3>. QED  BY <1>0, <2>1, <2>2, <2>4, <3>1, SenderGoes
  <2>. QED  BY <2>3, <2>4
<1>5. ASSUME New PROVE SenderType' /\ Serves'
  <2>1. sender.pc # "idle" /\ env' = env
    BY <1>5 DEF New
  <2>2. FreeSlots # {} => Min(FreeSlots) \in 0..env.lines
    BY <1>0, FreeSlot, SettingFacts DEF SlotSet
  <2>3. CASE FreeSlots = {}
    <3>1. Goes("insert", env.lines, sender.sid)
      BY <1>5, <2>3 DEF New
    <3>. QED  BY <1>0, <2>1, <3>1, SenderGoes
  <2>4. CASE FreeSlots # {}
    <3>1. Goes("insert", Min(FreeSlots), sender.sid)
      BY <1>5, <2>4 DEF New
    <3>. QED  BY <1>0, <2>1, <2>2, <2>4, <3>1, SenderGoes
  <2>. QED  BY <2>3, <2>4
<1>6. ASSUME Insert PROVE SenderType' /\ Serves'
  BY <1>0, <1>6, SenderGoes, Zenon DEF Insert, Goto
<1>7. ASSUME Look PROVE SenderType' /\ Serves'
  BY <1>0, <1>7, FoundGoes DEF Look
<1>8. ASSUME Queue PROVE SenderType' /\ Serves'
  BY <1>0, <1>8, SenderGoes, Zenon DEF Queue, Goto
<1>9. ASSUME Send PROVE SenderType' /\ Serves'
  BY <1>0, <1>9 DEF Send, SenderType, Serves, Goto, Goes
<1>10. ASSUME Begin PROVE SenderType' /\ Serves'
  BY <1>0, <1>10 DEF Begin, SenderType, Serves, Goto, Goes
<1>11. ASSUME Skip PROVE SenderType' /\ Serves'
  BY <1>0, <1>11 DEF Skip, SenderType, Serves, Goto, Goes
<1>12. ASSUME Ages PROVE SenderType' /\ Serves'
  BY <1>0, <1>12 DEF Ages, SenderType, Serves, Goto, Goes
<1>13. ASSUME Expires PROVE SenderType' /\ Serves'
  BY <1>0, <1>13 DEF Expires, SenderType, Serves, Goto, Goes
<1>14. ASSUME Reconnects PROVE SenderType' /\ Serves'
  BY <1>0, <1>14 DEF Reconnects, SenderType, Serves, Goto, Goes
<1>15. ASSUME SlotsDone PROVE SenderType' /\ Serves'
  BY <1>0, <1>15 DEF SlotsDone, SenderType, Serves, Goto, Goes
<1>16. ASSUME NEW n \in Numbers, Forget(n) PROVE SenderType' /\ Serves'
  BY <1>0, <1>16 DEF Forget, SenderType, Serves, Goto, Goes
<1>17. ASSUME Sleep PROVE SenderType' /\ Serves'
  BY <1>0, <1>17 DEF Sleep, SenderType, Serves, Goto, Goes
<1>18. CASE UNCHANGED vars
  BY <1>0, <1>18 DEF vars, SenderType, Serves, Goto, Goes
<1>. QED
  BY <1>1, <1>2, <1>3, <1>4, <1>5, <1>6, <1>7, <1>8, <1>9, <1>10, <1>11, <1>12, <1>13, <1>14, <1>15, <1>16, <1>17, <1>18 DEF Next, Sender, Check

(* Where check_clientsocket goes on to.                                    *)
LEMMA CheckGoes ==
  ASSUME TypeOK, env' = env, NEW pc \in {"sleep", "slots", "maps"}, NEW i \in 0..Lines,
         NEW list \in SUBSET Numbers, Checks(pc, i, list)
  PROVE  CheckType'
<1>0. Numbers' = Numbers
  BY DEF Numbers
<1>. QED  BY <1>0 DEF CheckType, Checks

LEMMA CheckStep ==
  ASSUME TypeOK, SlotsNumbered, [Next]_vars
  PROVE  CheckType'
<1>0. /\ CheckType /\ env' = env /\ Numbers' = Numbers /\ 0 \in 0..Lines
      /\ check.i \in 0..Lines /\ check.list \in SUBSET Numbers
  BY Fixed, TypeParts, SizesAssumption DEF CheckType
<1>1. ASSUME NEW f \in Flows, Take(f) PROVE CheckType'
  BY <1>0, <1>1 DEF Take, CheckType
<1>2. ASSUME Find PROVE CheckType'
  BY <1>0, <1>2 DEF Find, CheckType
<1>3. ASSUME Get PROVE CheckType'
  BY <1>0, <1>3 DEF Get, CheckType
<1>4. ASSUME Again PROVE CheckType'
  BY <1>0, <1>4 DEF Again, CheckType
<1>5. ASSUME New PROVE CheckType'
  BY <1>0, <1>5 DEF New, CheckType
<1>6. ASSUME Insert PROVE CheckType'
  BY <1>0, <1>6 DEF Insert, CheckType
<1>7. ASSUME Look PROVE CheckType'
  BY <1>0, <1>7 DEF Look, CheckType
<1>8. ASSUME Queue PROVE CheckType'
  BY <1>0, <1>8 DEF Queue, CheckType
<1>9. ASSUME Send PROVE CheckType'
  BY <1>0, <1>9 DEF Send, CheckType
<1>10. ASSUME Begin PROVE CheckType'
  BY <1>0, <1>10, CheckGoes DEF Begin
<1>11. ASSUME Skip PROVE CheckType'
  BY <1>0, <1>11, SlotAt, CheckGoes DEF Skip, NextSlot
<1>12. ASSUME Ages PROVE CheckType'
  BY <1>0, <1>12, SlotAt, CheckGoes DEF Ages, NextSlot
<1>13. ASSUME Expires PROVE CheckType'
  <2>1. check.i \in SlotSet /\ slots[check.i].type = "used" /\ check.i + 1 \in 0..Lines
        /\ check.list \subseteq Numbers
    BY <1>0, <1>13, SlotAt DEF Expires
  <2>2. check.list \cup {slots[check.i].flag} \in SUBSET Numbers
    BY <2>1 DEF SlotsNumbered
  <2>3. Checks("slots", check.i + 1, check.list \cup {slots[check.i].flag})
    BY <1>13 DEF Expires
  <2>. QED  BY <1>0, <2>1, <2>2, <2>3, CheckGoes
<1>14. ASSUME Reconnects PROVE CheckType'
  BY <1>0, <1>14, SlotAt, CheckGoes DEF Reconnects, NextSlot
<1>15. ASSUME SlotsDone PROVE CheckType'
  BY <1>0, <1>15, CheckGoes DEF SlotsDone
<1>16. ASSUME NEW n \in Numbers, Forget(n) PROVE CheckType'
  <2>1. check.list \ {n} \in SUBSET Numbers
    BY <1>0
  <2>. QED  BY <1>0, <1>16, <2>1, CheckGoes DEF Forget
<1>17. ASSUME Sleep PROVE CheckType'
  BY <1>0, <1>17, CheckGoes DEF Sleep
<1>18. CASE UNCHANGED vars
  BY <1>0, <1>18 DEF vars, CheckType
<1>. QED
  BY <1>1, <1>2, <1>3, <1>4, <1>5, <1>6, <1>7, <1>8, <1>9, <1>10, <1>11, <1>12, <1>13, <1>14, <1>15, <1>16, <1>17, <1>18 DEF Next, Sender, Check

LEMMA InitInductive == Init => Inductive
<1> SUFFICES ASSUME Init PROVE Inductive
  OBVIOUS
<1>0. env \in Settings /\ Lines \in Nat \ {0} /\ Queues \in Nat \ {0} /\ Idle \in Nat \ {0} /\ Ids \in Nat
      /\ env.lines \in 1..Lines
  BY SizesAssumption, SettingFacts DEF Init
<1>1. SlotsType /\ SlotsNumbered
  BY <1>0 DEF Init, SlotsType, SlotType, SlotsNumbered, Free
<1>2. MapsType /\ OwnNumber
  BY <1>0 DEF Init, MapsType, OwnNumber
<1>3. QueuesType
  <2>1. NoQueue \in QueueType /\ UnusedQueue \in QueueType
    BY <1>0 DEF NoQueue, UnusedQueue, QueueType
  <2>. QED  BY <2>1 DEF Init, QueuesType
<1>4. OwnQueue
  BY DEF Init, OwnQueue, NoQueue, UnusedQueue
<1>5. SenderType /\ Serves /\ CheckType
  BY <1>0 DEF Init, SenderType, Serves, CheckType
<1>6. DOMAIN owner = {} /\ \A i \in SlotSet : slots[i].sid = NoSocket
  BY DEF Init, Free
<1>7. SocketsOwned
  BY <1>6 DEF SocketsOwned
<1>. QED  BY <1>0, <1>1, <1>2, <1>3, <1>4, <1>5, <1>6, <1>7, TypeParts DEF Inductive

LEMMA StepInductive == Inductive /\ [Next]_vars => Inductive'
<1> SUFFICES ASSUME Inductive, [Next]_vars PROVE Inductive'
  OBVIOUS
<1>1. TypeOK /\ SlotsGood /\ OwnNumber /\ OwnQueue /\ Serves /\ SlotsNumbered
  BY TypeParts DEF Inductive, SlotsGood
<1>2. SlotsGood' /\ MapsType' /\ OwnNumber' /\ QueuesType' /\ OwnQueue' /\ SenderType' /\ Serves' /\ CheckType'
  BY <1>1, SlotsStep, MapsStep, QueuesStep, SenderStep, CheckStep
<1>3. (env \in Settings)'
  BY <1>1, Fixed, TypeParts
<1>4. TypeOK'
  <2> SUFFICES (/\ env \in Settings /\ DOMAIN owner \subseteq Sockets
                /\ SlotsType /\ MapsType /\ QueuesType /\ SenderType /\ CheckType)'
    BY DEF TypeOK, SlotsType, SlotType, MapsType, QueuesType, QueueType, SenderType, CheckType
  <2>. QED  BY <1>2, <1>3 DEF SlotsGood
<1>. QED  BY <1>2, <1>4 DEF Inductive, SlotsGood

(* The inductive invariant holds, in whatever order packets and checks come *)
(* and whatever sockets fail.                                              *)
THEOREM InductiveHolds == Spec => []Inductive
BY InitInductive, StepInductive, PTL DEF Spec

(* SocketsKept of the model, for any number of flows, slots and queues: no *)
(* socket that thread_pktsend or check_clientsocket opens is lost, shared  *)
(* or closed twice.                                                        *)
THEOREM SocketsHold == Spec => []SocketsKept
<1>1. Inductive => SocketsKept
  BY DEF Inductive, SocketsKept, SocketsOwned, OwnNumber, OwnQueue
<1>. QED  BY <1>1, InductiveHolds, PTL

-----------------------------------------------------------------------------
(* Packets and checks apart, sockets that open and a slot for every flow:     *)
(* what pid2sid says is so.                                                *)

Calm == env.calm /\ ~env.fails /\ env.lines >= Cardinality(Flows)
Holds(i, n) == slots[i].type = "used" /\ slots[i].flag = n

\* The sender does nothing while check_clientsocket runs, and always finds
\* the slot the map tells it; what is to be forgotten is still known.
InTurn ==
  /\ sender.pc # "idle" => check.pc = "sleep"
  /\ sender.pc # "again"
  /\ check.pc = "sleep" => check.list = {}
  /\ check.list \subseteq DOMAIN pid2sid

\* The map names the slots in use and no others, but for those to be
\* forgotten and the one that is about to be inserted.
Mapped ==
  /\ \A i \in SlotSet : slots[i].type = "used" =>
       /\ slots[i].sid # NoSocket
       /\ \/ /\ slots[i].flag \in DOMAIN pid2sid \ check.list
             /\ pid2sid[slots[i].flag] = i
          \/ sender.pc = "insert" /\ sender.pos = i /\ sender.flag = slots[i].flag
  /\ \A n \in DOMAIN pid2sid \ check.list : pid2sid[n] \in SlotSet /\ Holds(pid2sid[n], n)

\* The numbers in pid2sid are numbers of flows, and the sender has its flow's.
Known ==
  /\ sender.pc # "idle" =>
       /\ sender.flow \in Flows
       /\ env.loc = "client" => sender.flow \in DOMAIN flags /\ flags[sender.flow] = sender.flag
       /\ env.loc # "client" => sender.flow = sender.flag
  /\ env.loc = "client" => \A n \in DOMAIN pid2sid : \E f \in DOMAIN flags : flags[f] = n

\* The slot the sender works with is its flow's.
AtItsSlot ==
  /\ sender.pc \in {"new", "insert"} => sender.flag \notin DOMAIN pid2sid
  /\ sender.pc \in {"get", "insert", "look", "ready", "send"} =>
       sender.pos \in SlotSet /\ Holds(sender.pos, sender.flag)
  /\ sender.pc \in {"ready", "send"} => sender.sid = slots[sender.pos].sid

CalmRules == Calm => InTurn /\ Mapped /\ Known /\ AtItsSlot

(* A flow without a slot finds one free: there are as many as flows, and   *)
(* every slot in use is another flow's.                                    *)
LEMMA RoomForNew ==
  ASSUME Inductive, Calm, InTurn, Mapped, Known, AtItsSlot, sender.pc = "new"
  PROVE  FreeSlots # {}
<1> SUFFICES ASSUME FreeSlots = {} PROVE FALSE
  OBVIOUS
<1>0. env \in Settings /\ SlotsType /\ MapsType
  BY TypeParts DEF Inductive
<1>1. \A i \in SlotSet : slots[i].type = "used"
  BY <1>0 DEF FreeSlots, SlotsType, SlotType
<1>2. \A i \in SlotSet : slots[i].flag \in DOMAIN pid2sid /\ pid2sid[slots[i].flag] = i
  BY <1>1 DEF Mapped
<1>3. sender.flag \notin DOMAIN pid2sid /\ sender.flow \in Flows
  BY DEF AtItsSlot, Known
<1> DEFINE Other == Flows \ {sender.flow}
           Is(f, i) == IF env.loc = "client" THEN f \in DOMAIN flags /\ flags[f] = slots[i].flag
                                             ELSE f = slots[i].flag
<1>4. ASSUME NEW i \in SlotSet PROVE \E f \in Other : Is(f, i)
  <2>1. CASE env.loc = "client"
    <3>1. PICK f \in DOMAIN flags : flags[f] = slots[i].flag
      BY <1>2, <2>1 DEF Known
    <3>2. f \in Flows /\ f # sender.flow
      BY <1>0, <1>2, <1>3, <2>1, <3>1 DEF Known, MapsType
    <3>. QED  BY <2>1, <3>1, <3>2
  <2>2. CASE env.loc # "client"
    <3>1. slots[i].flag \in Flows /\ slots[i].flag # sender.flow
      BY <1>0, <1>2, <1>3, <2>2 DEF Known, MapsType, Numbers
    <3>. QED  BY <2>2, <3>1
  <2>. QED  BY <2>1, <2>2
<1>5. \A i, j \in SlotSet : \A f : Is(f, i) /\ Is(f, j) => i = j
  BY <1>2
<1> HIDE DEF Is
<1> DEFINE g == [i \in SlotSet |-> CHOOSE f \in Other : Is(f, i)]
<1>6. \A i \in SlotSet : g[i] \in Other /\ Is(g[i], i)
  BY <1>4
<1>7. g \in Injection(SlotSet, Other)
  <2>1. g \in [SlotSet -> Other]
    BY <1>6
  <2>2. \A i, j \in SlotSet : g[i] = g[j] => i = j
    BY <1>5, <1>6
  <2> HIDE DEF g, Other
  <2>. QED  BY <2>1, <2>2 DEF Injection, IsInjective
<1>8. /\ IsFiniteSet(Other) /\ Cardinality(Other) = Cardinality(Flows) - 1
      /\ Cardinality(Flows) \in Nat
  BY <1>3, FlowsAssumption, FS_RemoveElement, FS_CardinalityType
<1>9. IsFiniteSet(SlotSet) /\ Cardinality(SlotSet) = env.lines /\ env.lines \in Nat
  <2>1. env.lines \in Nat /\ env.lines >= 1
    BY <1>0, SettingFacts
  <2>. QED  BY SMTT(30), <2>1, FS_Interval DEF SlotSet
<1>10. Cardinality(SlotSet) <= Cardinality(Other)
  <2> HIDE DEF Other, g
  <2>. QED  BY <1>7, <1>8, FS_Injection
<1>. QED  BY <1>8, <1>9, <1>10 DEF Calm

(* A slot that holds a flow has a socket: Found takes it.                  *)
LEMMA FoundOwn ==
  ASSUME Inductive, Calm, Mapped, AtItsSlot, sender.pc \in {"get", "look"}, Found,
         env' = env, owner' = owner
  PROVE  /\ SameSlots /\ Goes("ready", sender.pos, slots[sender.pos].sid)
         /\ sender.pos \in SlotSet /\ Holds(sender.pos, sender.flag)
<1>1. SameSlots
  BY FoundStep, TypeParts DEF Inductive, SlotsGood
<1>2. sender.pos \in SlotSet /\ Holds(sender.pos, sender.flag)
  BY DEF AtItsSlot
<1>3. sender.pos < env.lines /\ slots[sender.pos].sid # NoSocket
  BY <1>2, SettingFacts, TypeParts DEF Mapped, Holds, SlotSet, Inductive
<1>. QED  BY <1>1, <1>2, <1>3 DEF Found, Connected, Exists

(* In these settings the sender never has to look for a second slot, and a *)
(* slot with no socket does not come up.                                   *)
LEMMA NoRetry ==
  ASSUME Inductive, Calm, InTurn, Mapped, AtItsSlot
  PROVE  ~Again /\ ~Reconnects /\ (Get => Found)
<1>1. ~Again
  BY DEF Again, InTurn
<1>2. ~Reconnects
  BY SlotAt DEF Reconnects, Mapped, Inductive
<1>3. Get => Found
  BY SettingFacts, TypeParts DEF Get, AtItsSlot, Holds, Exists, SlotSet, Inductive
<1>. QED  BY <1>1, <1>2, <1>3

(* A new flow gets the first free slot.                                    *)
LEMMA NewSlot ==
  ASSUME Inductive, Calm, InTurn, Mapped, Known, AtItsSlot, New
  PROVE  \E i \in SlotSet : /\ slots[i].type = "none" /\ Goes("insert", i, sender.sid)
                            /\ slots'[i].type = "used" /\ slots'[i].flag = sender.flag
                            /\ slots'[i].sid # NoSocket
                            /\ \A j \in SlotSet \ {i} : slots'[j] = slots[j]
<1>1. FreeSlots # {} /\ env \in Settings /\ sender.flag \in Numbers
  BY RoomForNew, TypeParts DEF New, Inductive, Serves
<1> DEFINE i == Min(FreeSlots)
<1>2. i \in SlotSet /\ slots[i].type = "none"
  BY <1>1, FreeSlot
<1>3. Goes("insert", i, sender.sid) /\ Allocate(i, sender.flag) /\ env' = env
  BY <1>1 DEF New
<1> HIDE DEF i
<1>4. slots'[i].type = "used" /\ slots'[i].flag = sender.flag /\ slots'[i].sid # NoSocket
      /\ \A j \in SlotSet \ {i} : slots'[j] = slots[j]
  BY <1>1, <1>2, <1>3, AllocateStep, TypeParts DEF Inductive, SlotsGood, Calm
<1>. QED  BY <1>2, <1>3, <1>4

(* A slot that expires is free, and its number is to be forgotten.         *)
LEMMA ExpiredSlot ==
  ASSUME Inductive, Expires
  PROVE  \E i \in SlotSet : /\ slots[i].type = "used" /\ slots'[i].type = "none"
                            /\ Checks("slots", check.i + 1, check.list \cup {slots[i].flag})
                            /\ \A j \in SlotSet \ {i} : slots'[j] = slots[j]
<1>1. check.i \in SlotSet /\ slots[check.i].sid # NoSocket /\ Closes(check.i) /\ env' = env
      /\ slots[check.i].type = "used"
  BY SlotAt DEF Expires, Closes, Inductive
<1>2. slots'[check.i].type = "none" /\ \A j \in SlotSet \ {check.i} : slots'[j] = slots[j]
  BY <1>1, ClosedStep, TypeParts DEF Inductive, SlotsGood
<1>. QED  BY <1>1, <1>2 DEF Expires

(* The two threads take turns.                                             *)
LEMMA TurnStep ==
  ASSUME Inductive, Calm, InTurn, Mapped, Known, AtItsSlot, [Next]_vars
  PROVE  InTurn'
<1>0. env' = env /\ SlotSet' = SlotSet /\ Numbers' = Numbers
  BY Fixed
<1>1. ASSUME NEW f \in Flows, Take(f) PROVE InTurn'
  BY <1>0, <1>1 DEF Take, InTurn, Goto, Goes, Checks, Calm
<1>2. ASSUME Find PROVE InTurn'
  BY <1>0, <1>2 DEF Find, InTurn, Goto, Goes, Checks, Calm
<1>3. ASSUME Get PROVE InTurn'
  <2>1. Found
    BY <1>3, NoRetry
  <2>. QED  BY <1>0, <1>3, <2>1 DEF Get, Found, Goes, InTurn
<1>4. ASSUME Again PROVE InTurn'
  BY <1>4, NoRetry
<1>5. ASSUME New PROVE InTurn'
  <2>1. \E i \in SlotSet : Goes("insert", i, sender.sid)
    BY <1>5, NewSlot
  <2>. QED  BY <1>0, <1>5, <2>1 DEF New, Goes, InTurn
<1>6. ASSUME Insert PROVE InTurn'
  BY <1>0, <1>6 DEF Insert, InTurn, Goto, Goes, Checks, Calm
<1>7. ASSUME Look PROVE InTurn'
  BY <1>0, <1>7 DEF Look, Found, Goes, InTurn
<1>8. ASSUME Queue PROVE InTurn'
  BY <1>0, <1>8 DEF Queue, InTurn, Goto, Goes, Checks, Calm
<1>9. ASSUME Send PROVE InTurn'
  BY <1>0, <1>9 DEF Send, InTurn, Goto, Goes, Checks, Calm
<1>10. ASSUME Begin PROVE InTurn'
  BY <1>0, <1>10 DEF Begin, InTurn, Goto, Goes, Checks, Calm
<1>11. ASSUME Skip PROVE InTurn'
  BY <1>0, <1>11 DEF Skip, NextSlot, AtSlot, InTurn, Checks
<1>12. ASSUME Ages PROVE InTurn'
  BY <1>0, <1>12 DEF Ages, NextSlot, AtSlot, InTurn, Checks
<1>13. ASSUME Expires PROVE InTurn'
  <2>1. PICK i \in SlotSet : /\ slots[i].type = "used" /\ slots'[i].type = "none"
                             /\ Checks("slots", check.i + 1, check.list \cup {slots[i].flag})
                             /\ \A j \in SlotSet \ {i} : slots'[j] = slots[j]
    BY <1>13, ExpiredSlot
  <2>2. check.pc = "slots" /\ sender' = sender /\ pid2sid' = pid2sid
    BY <1>13 DEF Expires, AtSlot
  <2>3. slots[i].flag \in DOMAIN pid2sid
    BY <2>1, <2>2 DEF Mapped, InTurn
  <2>. QED  BY <2>1, <2>2, <2>3 DEF Checks, InTurn
<1>14. ASSUME Reconnects PROVE InTurn'
  BY <1>14, NoRetry
<1>15. ASSUME SlotsDone PROVE InTurn'
  BY <1>0, <1>15 DEF SlotsDone, InTurn, Goto, Goes, Checks, Calm
<1>16. ASSUME NEW n \in Numbers, Forget(n) PROVE InTurn'
  BY <1>0, <1>16 DEF Forget, Drop, Checks, InTurn
<1>17. ASSUME Sleep PROVE InTurn'
  BY <1>0, <1>17 DEF Sleep, InTurn, Goto, Goes, Checks, Calm
<1>18. CASE UNCHANGED vars
  BY <1>0, <1>18 DEF vars, InTurn, Goto, Goes, Checks, Calm
<1>. QED
  BY <1>1, <1>2, <1>3, <1>4, <1>5, <1>6, <1>7, <1>8, <1>9, <1>10, <1>11, <1>12, <1>13, <1>14, <1>15, <1>16, <1>17, <1>18 DEF Next, Sender, Check

(* pid2sid stays right.                                                    *)
LEMMA MappedStep ==
  ASSUME Inductive, Calm, InTurn, Mapped, Known, AtItsSlot, [Next]_vars
  PROVE  Mapped'
<1>0. env' = env /\ SlotSet' = SlotSet /\ Numbers' = Numbers
  BY Fixed
<1>1. ASSUME NEW f \in Flows, Take(f) PROVE Mapped'
  BY <1>0, <1>1 DEF Take, Mapped, Holds, Goto, Goes, Checks
<1>2. ASSUME Find PROVE Mapped'
  BY <1>0, <1>2 DEF Find, Mapped, Holds, Goto, Goes, Checks
<1>3. ASSUME Get PROVE Mapped'
  <2>1. SameSlots
    BY <1>3, NoRetry, FoundOwn DEF Get
  <2>. QED  BY <1>0, <1>3, <2>1 DEF Get, Found, Goes, SameSlots, Mapped, Holds
<1>4. ASSUME Again PROVE Mapped'
  BY <1>4, NoRetry
<1>5. ASSUME New PROVE Mapped'
  <2>1. PICK i \in SlotSet : /\ slots[i].type = "none" /\ Goes("insert", i, sender.sid)
                             /\ slots'[i].type = "used" /\ slots'[i].flag = sender.flag
                             /\ slots'[i].sid # NoSocket
                             /\ \A j \in SlotSet \ {i} : slots'[j] = slots[j]
    BY <1>5, NewSlot
  <2>2. pid2sid' = pid2sid /\ check' = check /\ sender.pc = "new"
    BY <1>5 DEF New
  <2>. QED  BY <1>0, <2>1, <2>2 DEF Goes, Mapped, Holds
<1>6. ASSUME Insert PROVE Mapped'
  <2>1. DOMAIN pid2sid' = DOMAIN pid2sid \cup {sender.flag} /\ pid2sid'[sender.flag] = sender.pos
        /\ \A n \in DOMAIN pid2sid : pid2sid'[n] = pid2sid[n]
    BY <1>6 DEF Insert, AtItsSlot
  <2>2. check.list = {} /\ check' = check /\ slots' = slots /\ sender.pc = "insert"
    BY <1>6 DEF Insert, InTurn
  <2>3. sender.pos \in SlotSet /\ Holds(sender.pos, sender.flag) /\ sender.flag \notin DOMAIN pid2sid
    BY <2>2 DEF AtItsSlot
  <2>. QED  BY <1>0, <2>1, <2>2, <2>3 DEF Mapped, Holds
<1>7. ASSUME Look PROVE Mapped'
  <2>1. SameSlots
    BY <1>7, FoundOwn DEF Look
  <2>. QED  BY <1>0, <1>7, <2>1 DEF Look, Found, Goes, SameSlots, Mapped, Holds
<1>8. ASSUME Queue PROVE Mapped'
  BY <1>0, <1>8 DEF Queue, Mapped, Holds, Goto, Goes, Checks
<1>9. ASSUME Send PROVE Mapped'
  BY <1>0, <1>9 DEF Send, Mapped, Holds, Goto, Goes, Checks
<1>10. ASSUME Begin PROVE Mapped'
  BY <1>0, <1>10 DEF Begin, Checks, Mapped, Holds, InTurn
<1>11. ASSUME Skip PROVE Mapped'
  BY <1>0, <1>11 DEF Skip, NextSlot, Checks, Mapped, Holds
<1>12. ASSUME Ages PROVE Mapped'
  <2>1. SameSlots
    <3>1. check.i \in SlotSet /\ slots[check.i] \in SlotType
      BY <1>12, SlotAt DEF Ages, Inductive
    <3>2. slots \in [SlotSet -> SlotType]
      BY TypeParts DEF Inductive, SlotsType
    <3>. QED  BY <1>12, <3>1, <3>2 DEF Ages, SameSlots, SlotType
  <2>. QED  BY <1>0, <1>12, <2>1 DEF Ages, NextSlot, Checks, SameSlots, Mapped, Holds
<1>13. ASSUME Expires PROVE Mapped'
  <2>1. PICK i \in SlotSet : /\ slots[i].type = "used" /\ slots'[i].type = "none"
                             /\ Checks("slots", check.i + 1, check.list \cup {slots[i].flag})
                             /\ \A j \in SlotSet \ {i} : slots'[j] = slots[j]
    BY <1>13, ExpiredSlot
  <2>2. check.pc = "slots" /\ sender' = sender /\ pid2sid' = pid2sid
    BY <1>13 DEF Expires, AtSlot
  <2>3. sender.pc # "insert"
    BY <2>2 DEF InTurn
  <2>4. check'.list = check.list \cup {slots[i].flag}
    BY <2>1 DEF Checks
  <2>5. \A j \in SlotSet : slots[j].type = "used" => pid2sid[slots[j].flag] = j
    BY <2>3 DEF Mapped
  <2>. QED  BY <1>0, <2>1, <2>2, <2>3, <2>4, <2>5 DEF Mapped, Holds
<1>14. ASSUME Reconnects PROVE Mapped'
  BY <1>14, NoRetry
<1>15. ASSUME SlotsDone PROVE Mapped'
  BY <1>0, <1>15 DEF SlotsDone, Checks, Mapped, Holds
<1>16. ASSUME NEW n \in Numbers, Forget(n) PROVE Mapped'
  <2>1. DOMAIN pid2sid' = DOMAIN pid2sid \ {n} /\ \A m \in DOMAIN pid2sid' : pid2sid'[m] = pid2sid[m]
    BY <1>16 DEF Forget, Drop
  <2>2. check'.list = check.list \ {n} /\ n \in check.list /\ slots' = slots /\ sender' = sender
    BY <1>16 DEF Forget, Checks
  <2>. QED  BY <1>0, <2>1, <2>2 DEF Mapped, Holds
<1>17. ASSUME Sleep PROVE Mapped'
  BY <1>0, <1>17 DEF Sleep, Mapped, Holds, Goto, Goes, Checks
<1>18. CASE UNCHANGED vars
  BY <1>0, <1>18 DEF vars, Mapped, Holds, Goto, Goes, Checks
<1>. QED
  BY <1>1, <1>2, <1>3, <1>4, <1>5, <1>6, <1>7, <1>8, <1>9, <1>10, <1>11, <1>12, <1>13, <1>14, <1>15, <1>16, <1>17, <1>18 DEF Next, Sender, Check

(* Numbers stay known.                                                     *)
LEMMA KnownStep ==
  ASSUME Inductive, Calm, InTurn, Mapped, Known, AtItsSlot, [Next]_vars
  PROVE  Known'
<1>0. env' = env /\ SlotSet' = SlotSet /\ Numbers' = Numbers
  BY Fixed
<1>1. ASSUME NEW f \in Flows, Take(f) PROVE Known'
  <2>1. /\ env.loc = "client" => f \in DOMAIN flags'
        /\ DOMAIN flags \subseteq DOMAIN flags' /\ \A g \in DOMAIN flags : flags'[g] = flags[g]
    BY <1>1, NumberedStep DEF Inductive
  <2>2. pid2sid' = pid2sid /\ sender'.flow = f /\ (env.loc = "client" => sender'.flag = flags'[f])
        /\ (env.loc # "client" => sender'.flag = f)
    BY <1>1 DEF Take
  <2>. QED  BY <1>0, <2>1, <2>2 DEF Known
<1>2. ASSUME Find PROVE Known'
  BY <1>0, <1>2 DEF Find, Known, Goto, Goes
<1>3. ASSUME Get PROVE Known'
  BY <1>0, <1>3 DEF Get, Found, Known, Goto, Goes
<1>4. ASSUME Again PROVE Known'
  BY <1>4, NoRetry
<1>5. ASSUME New PROVE Known'
  <2>1. \E i \in SlotSet : Goes("insert", i, sender.sid)
    BY <1>5, NewSlot
  <2>. QED  BY <1>0, <1>5, <2>1 DEF New, Goes, Known
<1>6. ASSUME Insert PROVE Known'
  <2>1. DOMAIN pid2sid' = DOMAIN pid2sid \cup {sender.flag} /\ flags' = flags
        /\ sender'.flow = sender.flow /\ sender'.flag = sender.flag /\ sender.pc # "idle"
    BY <1>6 DEF Insert, Goto, Goes
  <2>. QED  BY <1>0, <2>1 DEF Known
<1>7. ASSUME Look PROVE Known'
  BY <1>0, <1>7 DEF Look, Found, Known, Goto, Goes
<1>8. ASSUME Queue PROVE Known'
  BY <1>0, <1>8 DEF Queue, Known, Goto, Goes
<1>9. ASSUME Send PROVE Known'
  BY <1>0, <1>9 DEF Send, Known, Goto, Goes
<1>10. ASSUME Begin PROVE Known'
  BY <1>0, <1>10 DEF Begin, Known, Goto, Goes
<1>11. ASSUME Skip PROVE Known'
  BY <1>0, <1>11 DEF Skip, Known, Goto, Goes
<1>12. ASSUME Ages PROVE Known'
  BY <1>0, <1>12 DEF Ages, Known, Goto, Goes
<1>13. ASSUME Expires PROVE Known'
  BY <1>0, <1>13 DEF Expires, Known, Goto, Goes
<1>14. ASSUME Reconnects PROVE Known'
  BY <1>0, <1>14 DEF Reconnects, Known, Goto, Goes
<1>15. ASSUME SlotsDone PROVE Known'
  BY <1>0, <1>15 DEF SlotsDone, Known, Goto, Goes
<1>16. ASSUME NEW n \in Numbers, Forget(n) PROVE Known'
  <2>1. DOMAIN pid2sid' = DOMAIN pid2sid \ {n} /\ sender' = sender /\ sender.pc = "idle"
    BY <1>16 DEF Forget, Drop, InTurn
  <2>2. \A f \in DOMAIN flags : flags[f] # n => f \in DOMAIN flags' /\ flags'[f] = flags[f]
    BY <1>16 DEF Forget
  <2>. QED  BY <1>0, <2>1, <2>2 DEF Known
<1>17. ASSUME Sleep PROVE Known'
  BY <1>0, <1>17 DEF Sleep, Known, Goto, Goes
<1>18. CASE UNCHANGED vars
  BY <1>0, <1>18 DEF vars, Known, Goto, Goes
<1>. QED
  BY <1>1, <1>2, <1>3, <1>4, <1>5, <1>6, <1>7, <1>8, <1>9, <1>10, <1>11, <1>12, <1>13, <1>14, <1>15, <1>16, <1>17, <1>18 DEF Next, Sender, Check

(* The sender stays with its slot.                                         *)
LEMMA AtItsSlotStep ==
  ASSUME Inductive, Calm, InTurn, Mapped, Known, AtItsSlot, [Next]_vars
  PROVE  AtItsSlot'
<1>0. env' = env /\ SlotSet' = SlotSet /\ Numbers' = Numbers
  BY Fixed
<1>1. ASSUME NEW f \in Flows, Take(f) PROVE AtItsSlot'
  BY <1>0, <1>1 DEF Take, AtItsSlot, Holds, Goto, Goes
<1>2. ASSUME Find PROVE AtItsSlot'
  <2>1. check.list = {} /\ slots' = slots /\ pid2sid' = pid2sid
    BY <1>2 DEF Find, InTurn
  <2>2. CASE sender.flag \in DOMAIN pid2sid
    <3>1. Goes("get", pid2sid[sender.flag], sender.sid)
      BY <1>2, <2>2 DEF Find
    <3>2. pid2sid[sender.flag] \in SlotSet /\ Holds(pid2sid[sender.flag], sender.flag)
      BY <2>1, <2>2 DEF Mapped
    <3>. QED  BY <1>0, <2>1, <3>1, <3>2 DEF Goes, AtItsSlot, Holds
  <2>3. CASE sender.flag \notin DOMAIN pid2sid
    BY <1>2, <2>1, <2>3 DEF Find, Goto, Goes, AtItsSlot
  <2>. QED  BY <2>2, <2>3
<1>3. ASSUME Get PROVE AtItsSlot'
  <2>1. /\ SameSlots /\ Goes("ready", sender.pos, slots[sender.pos].sid)
        /\ sender.pos \in SlotSet /\ Holds(sender.pos, sender.flag)
    BY <1>3, NoRetry, FoundOwn DEF Get
  <2>. QED  BY <1>0, <2>1 DEF SameSlots, Goes, AtItsSlot, Holds
<1>4. ASSUME Again PROVE AtItsSlot'
  BY <1>4, NoRetry
<1>5. ASSUME New PROVE AtItsSlot'
  <2>1. PICK i \in SlotSet : /\ slots[i].type = "none" /\ Goes("insert", i, sender.sid)
                             /\ slots'[i].type = "used" /\ slots'[i].flag = sender.flag
                             /\ slots'[i].sid # NoSocket
                             /\ \A j \in SlotSet \ {i} : slots'[j] = slots[j]
    BY <1>5, NewSlot
  <2>2. pid2sid' = pid2sid /\ sender.flag \notin DOMAIN pid2sid
    BY <1>5 DEF New, AtItsSlot
  <2>. QED  BY <1>0, <2>1, <2>2 DEF Goes, AtItsSlot, Holds
<1>6. ASSUME Insert PROVE AtItsSlot'
  BY <1>0, <1>6 DEF Insert, AtItsSlot, Holds, Goto, Goes
<1>7. ASSUME Look PROVE AtItsSlot'
  <2>1. /\ SameSlots /\ Goes("ready", sender.pos, slots[sender.pos].sid)
        /\ sender.pos \in SlotSet /\ Holds(sender.pos, sender.flag)
    BY <1>7, NoRetry, FoundOwn DEF Look
  <2>. QED  BY <1>0, <2>1 DEF SameSlots, Goes, AtItsSlot, Holds
<1>8. ASSUME Queue PROVE AtItsSlot'
  BY <1>0, <1>8 DEF Queue, AtItsSlot, Holds, Goto, Goes
<1>9. ASSUME Send PROVE AtItsSlot'
  BY <1>0, <1>9 DEF Send, AtItsSlot, Holds, Goto, Goes
<1>10. ASSUME Begin PROVE AtItsSlot'
  <2>1. sender' = sender /\ sender.pc = "idle"
    BY <1>10 DEF Begin, AtSlot, InTurn, Calm
  <2>. QED  BY <2>1 DEF AtItsSlot
<1>11. ASSUME Skip PROVE AtItsSlot'
  <2>1. sender' = sender /\ sender.pc = "idle"
    BY <1>11 DEF Skip, AtSlot, InTurn, Calm
  <2>. QED  BY <2>1 DEF AtItsSlot
<1>12. ASSUME Ages PROVE AtItsSlot'
  <2>1. sender' = sender /\ sender.pc = "idle"
    BY <1>12 DEF Ages, AtSlot, InTurn, Calm
  <2>. QED  BY <2>1 DEF AtItsSlot
<1>13. ASSUME Expires PROVE AtItsSlot'
  <2>1. sender' = sender /\ sender.pc = "idle"
    BY <1>13 DEF Expires, AtSlot, InTurn, Calm
  <2>. QED  BY <2>1 DEF AtItsSlot
<1>14. ASSUME Reconnects PROVE AtItsSlot'
  BY <1>14, NoRetry
<1>15. ASSUME SlotsDone PROVE AtItsSlot'
  <2>1. sender' = sender /\ sender.pc = "idle"
    BY <1>15 DEF SlotsDone, AtSlot, InTurn, Calm
  <2>. QED  BY <2>1 DEF AtItsSlot
<1>16. ASSUME NEW n \in Numbers, Forget(n) PROVE AtItsSlot'
  <2>1. sender' = sender /\ sender.pc = "idle"
    BY <1>16 DEF Forget, AtSlot, InTurn, Calm
  <2>. QED  BY <2>1 DEF AtItsSlot
<1>17. ASSUME Sleep PROVE AtItsSlot'
  <2>1. sender' = sender /\ sender.pc = "idle"
    BY <1>17 DEF Sleep, AtSlot, InTurn, Calm
  <2>. QED  BY <2>1 DEF AtItsSlot
<1>18. CASE UNCHANGED vars
  BY <1>0, <1>18 DEF vars, AtItsSlot, Holds, Goto, Goes
<1>. QED
  BY <1>1, <1>2, <1>3, <1>4, <1>5, <1>6, <1>7, <1>8, <1>9, <1>10, <1>11, <1>12, <1>13, <1>14, <1>15, <1>16, <1>17, <1>18 DEF Next, Sender, Check

LEMMA CalmStep == Inductive /\ CalmRules /\ [Next]_vars => CalmRules'
<1> SUFFICES ASSUME Inductive, CalmRules, [Next]_vars, Calm' PROVE (InTurn /\ Mapped /\ Known /\ AtItsSlot)'
  BY DEF CalmRules
<1>1. Calm
  BY Fixed DEF Calm
<1>2. InTurn /\ Mapped /\ Known /\ AtItsSlot
  BY <1>1 DEF CalmRules
<1>. QED  BY <1>1, <1>2, TurnStep, MappedStep, KnownStep, AtItsSlotStep

LEMMA CalmInit == Init => CalmRules
BY DEF Init, CalmRules, InTurn, Mapped, Known, AtItsSlot, Free

(* OwnSocket of the model, for any number of flows and slots: when checks  *)
(* and packets do not meet, sockets open and there is a slot for each flow, *)
(* every packet leaves by a socket that was opened for its flow.           *)
THEOREM OwnSocketHolds == Spec => []OwnSocket
<1>1. Inductive /\ CalmRules => OwnSocket
  <2> SUFFICES ASSUME Inductive, CalmRules, Calm PROVE
        /\ sender.pc = "send" => sender.sid \in DOMAIN owner /\ owner[sender.sid] = sender.flag
        /\ sender.pc \in {"idle", "find"} => \A i, j \in SlotSet :
             slots[i].type = "used" /\ slots[j].type = "used" /\ slots[i].flag = slots[j].flag => i = j
    BY DEF OwnSocket, Calm
  <2>1. Mapped /\ AtItsSlot /\ SocketsOwned
    BY DEF CalmRules, Inductive
  <2>2. ASSUME sender.pc = "send"
        PROVE  sender.sid \in DOMAIN owner /\ owner[sender.sid] = sender.flag
    <3>1. sender.pos \in SlotSet /\ Holds(sender.pos, sender.flag) /\ sender.sid = slots[sender.pos].sid
      BY <2>1, <2>2 DEF AtItsSlot
    <3>2. slots[sender.pos].sid # NoSocket
      BY <2>1, <3>1 DEF Mapped, Holds
    <3>. QED  BY <2>1, <3>1, <3>2 DEF SocketsOwned, Holds
  <2>3. ASSUME sender.pc \in {"idle", "find"}, NEW i \in SlotSet, NEW j \in SlotSet,
               slots[i].type = "used", slots[j].type = "used", slots[i].flag = slots[j].flag
        PROVE  i = j
    BY <2>1, <2>3 DEF Mapped
  <2>. QED  BY <2>2, <2>3
<1>. QED  BY <1>1, InitInductive, StepInductive, CalmInit, CalmStep, PTL DEF Spec
=============================================================================
