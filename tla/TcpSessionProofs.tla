-------------------------- MODULE TcpSessionProofs --------------------------
(***************************************************************************)
(* Proofs about TcpSession for every number of slots and connections, every *)
(* queue and every setting.                                                 *)
(***************************************************************************)
EXTENDS TcpSession, FiniteSetTheorems, WellFoundedInduction, TLAPS

(* A set of numbers has a least one.                                        *)
LEMMA MinIsLeast ==
  ASSUME NEW S \in SUBSET Nat, S # {}
  PROVE  \E x \in S : \A y \in S : x <= y
<1>1. PICK x \in S : \A y \in S : ~ (<<y, x>> \in OpToRel(<, Nat))
  BY NatLessThanWellFounded, WFMin
<1>2. ASSUME NEW y \in S PROVE x <= y
  <2>1. ~(y < x)
    <3>1. SUFFICES ASSUME y < x PROVE <<y, x>> \in OpToRel(<, Nat)
      BY <1>1
    <3>2. <<y, x>> \in Nat \X Nat /\ <<y, x>>[1] < <<y, x>>[2]
      BY <3>1
    <3>. QED  BY <3>2, Zenon DEF OpToRel
  <2>. QED  BY <2>1
<1>. QED  BY <1>2

-----------------------------------------------------------------------------
(* Types, by what changes together.                                         *)

Labels == {"none", "ready", "connect", "reconnect", "run", "send", "close", "closewait",
           "flag", "wait", "free", "done"}
Sids == Descriptors \union {NoSid, Failed, 0}
SlotRecord == [usedflag : 0..1, server_sid : Descriptors \union {NoSid, 0},
               client_sid : Sids, client_closewaite : 0..1, stop_flag : 0..1,
               shutdown : 0..1, exitFlag : SUBSET Tasks]
QueueStates == {"open", "ended", "gone"}

SlotTyped ==
  /\ owner \in [Descriptors -> {Free} \union (Conns \X Ends)]
  /\ para \in [Slots -> SlotRecord]
  /\ queue \in [Slots -> [Dirs -> QueueStates]]

TaskTyped ==
  /\ slotOf \in [Conns -> Slots \union {-1}]
  /\ pc \in [Conns -> [Tasks -> Labels]]
  /\ fin \in [Conns -> {0, 2}]
  /\ tries \in [Conns -> [Dirs -> 0..MaxTries]]

MainTyped ==
  /\ env \in Settings
  /\ mpc \in {"test", "accept", "search", "fill", "create",
              "abort", "flags", "join", "close", "destroy", "off"}
  /\ idx \in Slots /\ cur \in 0..env.conns
  /\ last \in Descriptors \union {NoSid} /\ asked \in BOOLEAN

FlowTyped ==
  /\ given \in [Conns -> [Dirs -> 0..MaxPkts]] /\ read \in [Conns -> [Dirs -> 0..MaxPkts]]
  /\ sent \in [Conns -> [Dirs -> 0..MaxPkts]] /\ lost \in [Conns -> [Dirs -> 0..MaxPkts]]
  /\ closed \in [Conns -> SUBSET Ends]
  /\ \A c \in Conns, d \in Dirs : Pending(c, d) \in 0..Capacity

Typed == SlotTyped /\ TaskTyped /\ MainTyped /\ FlowTyped

LEMMA ConstFacts ==
  /\ NSlots \in Nat \ {0} /\ Capacity \in Nat \ {0} /\ MaxTries \in Nat
  /\ MaxConns \in Nat /\ MaxPkts \in Nat
  /\ 0 \in Slots /\ \A s \in Slots : s \in Nat /\ (s + 1) % NSlots \in Slots
  /\ \A f \in Descriptors : f \in Nat /\ f # 0
  /\ Conns \subseteq Nat
<1>1. NSlots \in Nat \ {0} /\ MaxConns \in Nat
  BY ConstAssumption
<1>2. \A s \in Slots : s \in Nat /\ (s + 1) % NSlots \in Slots
  BY <1>1 DEF Slots
<1>. QED  BY <1>1, <1>2, ConstAssumption DEF Slots, Descriptors, Conns

LEMMA SettingFacts ==
  ASSUME MainTyped
  PROVE  /\ env.remote \in {"TCP", "UDP"} /\ env.stops \in BOOLEAN /\ env.fails \in BOOLEAN
         /\ env.late \in BOOLEAN /\ env.conns \in 1..MaxConns /\ env.pkts \in 0..MaxPkts
         /\ env.pkts \in Nat /\ env.conns \in Nat /\ cur \in Nat
BY ConstFacts, ConstAssumption DEF MainTyped

(* The fields of the slot of a connection.                                  *)
Fields == {"usedflag", "server_sid", "client_sid", "client_closewaite", "stop_flag",
           "shutdown", "exitFlag"}

-----------------------------------------------------------------------------
(* The invariant.  A connection is current while no later one has its slot; *)
(* a connection that has lost its slot is over: its tasks can only set      *)
(* their exitFlag and destroy the UP queue.                                 *)

Tcp == ToRemote = "TCP"
Filling == mpc \in {"search", "fill"}

Over(c) ==
  /\ pc[c].uw \in {"flag", "done"} /\ pc[c].ur \in {"wait", "done"}
  /\ pc[c].dw \in {"none", "done"} /\ pc[c].dr \in {"none", "done"}
  /\ ~Tcp => pc[c].uw = "done" /\ pc[c].ur = "done"

(* Where each task can be; all tasks of a session begin together.           *)
Kind(c) ==
  /\ pc[c].uw \in {"none", "ready", "run", "close", "flag", "done"}
  /\ pc[c].ur \in Labels \ {"flag"}
  /\ pc[c].dw \in {"none", "ready", "run", "close", "flag", "done"}
  /\ pc[c].dr \in {"none", "ready", "run", "close", "wait", "free", "done"}
  /\ Tcp => pc[c].uw # "close" /\ pc[c].ur \notin {"close", "free"}
  /\ pc[c].uw = "none" <=> pc[c].ur = "none"
  /\ pc[c].dw = "none" <=> pc[c].uw = "none" \/ ~Tcp
  /\ pc[c].dr = "none" <=> pc[c].uw = "none" \/ ~Tcp
  /\ pc[c].ur \in {"send", "reconnect"} => Pending(c, "up") > 0

MainRules ==
  /\ \A c \in Conns : c > cur => slotOf[c] = -1
  /\ mpc \in {"search", "fill", "create"} => cur \in Conns
  /\ Filling => slotOf[cur] = -1
  /\ mpc = "create" => slotOf[cur] = idx /\ pc[cur].uw = "none"
  /\ mpc = "fill" => para[idx].usedflag = 0

SlotRule(c) ==
  /\ slotOf[c] = -1 => /\ pc[c].uw = "none"
                       /\ read[c] = None /\ sent[c] = None /\ lost[c] = None
  /\ slotOf[c] # -1 => Current(c) \/ Over(c)

(* The descriptors of a connection are those named in its slot.             *)
Owned(c) ==
  /\ \A f \in Descriptors :
       /\ owner[f] = <<c, "client">> => \/ Filling /\ c = cur /\ f = last
                                        \/ Current(c) /\ f = P(c).server_sid
       /\ owner[f] = <<c, "remote">> => Current(c) /\ f = P(c).client_sid
  /\ Current(c) /\ pc[c].ur \in {"none", "ready", "connect", "reconnect"}
       => P(c).client_sid < 0

UwLeft(c) == pc[c].uw \in {"close", "flag", "done"}
UrLeft(c) == pc[c].ur \in {"close", "closewait", "wait", "free", "done"}
DwLeft(c) == pc[c].dw \in {"close", "flag", "done"}
DrLeft(c) == pc[c].dr \in {"close", "wait", "free", "done"}

(* What the fields of the slot say of the tasks: they leave in the order    *)
(* uw, ur, dw, dr, each after the one before told it.                       *)
Flags1(c) ==
  /\ P(c).shutdown = 0
  /\ pc[c].uw = "none" => P(c).usedflag = 1
  /\ P(c).client_closewaite = 1 => pc[c].ur \in {"wait", "free", "done"}
  /\ pc[c].uw # "none" /\ Q(c, "up") = "ended" => UwLeft(c)
  /\ UrLeft(c) => UwLeft(c)
  /\ DwLeft(c) => P(c).client_closewaite = 1
  /\ pc[c].uw # "none" /\ Tcp /\ Q(c, "down") = "ended" => DwLeft(c)
  /\ DrLeft(c) => DwLeft(c)

(* The last reader gives the slot back.                                     *)
Flags2(c) ==
  /\ Tcp => /\ "dw" \in P(c).exitFlag => pc[c].dw = "done"
            /\ pc[c].dr \in {"free", "done"} => pc[c].dw = "done"
            /\ P(c).usedflag = 0 <=> pc[c].dr = "done"
  /\ ~Tcp => /\ "uw" \in P(c).exitFlag => pc[c].uw = "done"
             /\ pc[c].ur \in {"free", "done"} => pc[c].uw = "done"
             /\ P(c).usedflag = 0 <=> pc[c].ur = "done"

(* Which task closes which socket, and when there is none.                  *)
Sockets(c) ==
  /\ P(c).server_sid = NoSid \/ Owns(c, "client", P(c).server_sid)
  /\ P(c).client_sid \in {NoSid, Failed} \/ Owns(c, "remote", P(c).client_sid)
  /\ Tcp => (P(c).server_sid = NoSid <=> pc[c].dr \in {"wait", "free", "done"})
  /\ ~Tcp => (P(c).server_sid = NoSid <=> pc[c].uw \in {"flag", "done"})
  /\ Tcp /\ pc[c].dw \in {"flag", "done"} => P(c).client_sid = NoSid
  /\ ~Tcp /\ pc[c].ur \in {"closewait", "wait", "free", "done"} => P(c).client_sid = NoSid
  /\ pc[c].ur \in {"run", "send", "reconnect"} /\ P(c).client_sid < 0 => env.fails
  /\ P(c).client_sid = Failed => env.fails

(* Why the tasks left: an end closed and what it had sent was read, or      *)
(* calls fail.                                                              *)
Reason(c) == AtEnd(c, "up") \/ (AtEnd(c, "down") /\ Tcp) \/ env.fails
Relay(c) ==
  /\ P(c).stop_flag = 1 => Tcp /\ (AtEnd(c, "down") \/ env.fails)
  /\ UwLeft(c) => Reason(c)
  /\ UrLeft(c) => Pending(c, "up") = 0
  /\ DrLeft(c) => Pending(c, "down") = 0
  /\ lost[c].up > 0 => "remote" \in closed[c] \/ env.fails
  /\ lost[c].down > 0 => "client" \in closed[c] \/ env.fails

Session(c) == Flags1(c) /\ Flags2(c) /\ Sockets(c) /\ Relay(c)

Always == /\ MainRules
          /\ \A c \in Conns : Kind(c) /\ SlotRule(c) /\ Owned(c)
InService == /\ Filling => Owns(cur, "client", last)
             /\ \A c \in Conns : Current(c) => Session(c)
Inv == Typed /\ Always /\ (Serving => InService)

LEMMA InitInv == Init => Inv
<1> SUFFICES ASSUME Init PROVE Inv
  OBVIOUS
<1>1. Typed
  <2>1. SlotTyped /\ TaskTyped
    BY ConstFacts DEF Init, SlotTyped, SlotRecord, QueueStates, Sids, NoSid, TaskTyped, Labels,
       Zero, None
  <2>2. MainTyped
    <3>1. env \in Settings /\ env.conns \in Nat
      BY ConstFacts, ConstAssumption DEF Init
    <3>2. cur \in 0..env.conns
      BY <3>1 DEF Init
    <3>. QED  BY <3>1, <3>2, ConstFacts DEF Init, MainTyped
  <2>3. FlowTyped
    BY ConstFacts DEF Init, FlowTyped, Zero, None, Pending, Dirs
  <2>. QED  BY <2>1, <2>2, <2>3 DEF Typed
<1>2. ASSUME NEW c \in Conns
      PROVE  slotOf[c] = -1 /\ pc[c] = [t \in Tasks |-> "none"] /\ ~Current(c)
             /\ read[c] = None /\ sent[c] = None /\ lost[c] = None
  BY DEF Init, Current, Zero
<1>3. ASSUME NEW c \in Conns PROVE Kind(c) /\ SlotRule(c) /\ Owned(c)
  <2>1. Kind(c)
    BY <1>2 DEF Kind, Labels, Tasks
  <2>2. SlotRule(c)
    BY <1>2 DEF SlotRule, Tasks
  <2>3. \A f \in Descriptors : owner[f] # <<c, "client">> /\ owner[f] # <<c, "remote">>
    BY DEF Init, Free
  <2>. QED  BY <1>2, <2>1, <2>2, <2>3 DEF Owned
<1>4. MainRules
  BY <1>2 DEF Init, MainRules, Filling
<1>5. InService
  BY <1>2 DEF InService, Init, Filling
<1>. QED  BY <1>1, <1>3, <1>4, <1>5 DEF Inv, Always

-----------------------------------------------------------------------------
(* What a step of a task changes.                                           *)

Moved(c, t, l) ==
  /\ \A b \in Conns : b # c => pc'[b] = pc[b]
  /\ pc'[c][t] = l
  /\ \A u \in Tasks : u # t => pc'[c][u] = pc[c][u]

PutIn(c, g, v) ==
  /\ \A s \in Slots : s # slotOf[c] => para'[s] = para[s]
  /\ P(c)'[g] = v
  /\ \A h \in Fields : h # g => P(c)'[h] = P(c)[h]

Counted(f, c, d) ==
  /\ \A b \in Conns : b # c => f'[b] = f[b]
  /\ f'[c][d] = f[c][d] + 1
  /\ \A e \in Dirs : e # d => f'[c][e] = f[c][e]

LEMMA GotoDoes ==
  ASSUME Typed, NEW c \in Conns, NEW t \in Tasks, NEW l \in Labels, Goto(c, t, l)
  PROVE  pc' \in [Conns -> [Tasks -> Labels]] /\ Moved(c, t, l)
BY DEF Typed, TaskTyped, Goto, Moved

LEMMA FieldDoes ==
  ASSUME Typed, NEW c \in Conns, slotOf[c] \in Slots, slotOf' = slotOf
  PROVE  /\ \A v \in Descriptors \union {NoSid, 0} :
              para' = [para EXCEPT ![slotOf[c]].server_sid = v] =>
                para' \in [Slots -> SlotRecord] /\ PutIn(c, "server_sid", v)
         /\ \A v \in Sids :
              para' = [para EXCEPT ![slotOf[c]].client_sid = v] =>
                para' \in [Slots -> SlotRecord] /\ PutIn(c, "client_sid", v)
         /\ \A v \in 0..1 :
              /\ para' = [para EXCEPT ![slotOf[c]].stop_flag = v] =>
                   para' \in [Slots -> SlotRecord] /\ PutIn(c, "stop_flag", v)
              /\ para' = [para EXCEPT ![slotOf[c]].client_closewaite = v] =>
                   para' \in [Slots -> SlotRecord] /\ PutIn(c, "client_closewaite", v)
              /\ para' = [para EXCEPT ![slotOf[c]].usedflag = v] =>
                   para' \in [Slots -> SlotRecord] /\ PutIn(c, "usedflag", v)
         /\ \A t \in Tasks :
              para' = [para EXCEPT ![slotOf[c]].exitFlag = @ \union {t}] =>
                /\ para' \in [Slots -> SlotRecord]
                /\ PutIn(c, "exitFlag", P(c).exitFlag \union {t})
<1>1. para \in [Slots -> SlotRecord]
  BY DEF Typed, SlotTyped
<1>2. ASSUME NEW v \in Descriptors \union {NoSid, 0},
             para' = [para EXCEPT ![slotOf[c]].server_sid = v]
      PROVE  para' \in [Slots -> SlotRecord] /\ PutIn(c, "server_sid", v)
  BY <1>1, <1>2 DEF SlotRecord, PutIn, P, Fields
<1>3. ASSUME NEW v \in Sids, para' = [para EXCEPT ![slotOf[c]].client_sid = v]
      PROVE  para' \in [Slots -> SlotRecord] /\ PutIn(c, "client_sid", v)
  BY <1>1, <1>3 DEF SlotRecord, PutIn, P, Fields
<1>4. ASSUME NEW v \in 0..1, para' = [para EXCEPT ![slotOf[c]].stop_flag = v]
      PROVE  para' \in [Slots -> SlotRecord] /\ PutIn(c, "stop_flag", v)
  BY <1>1, <1>4 DEF SlotRecord, PutIn, P, Fields
<1>5. ASSUME NEW v \in 0..1, para' = [para EXCEPT ![slotOf[c]].client_closewaite = v]
      PROVE  para' \in [Slots -> SlotRecord] /\ PutIn(c, "client_closewaite", v)
  BY <1>1, <1>5 DEF SlotRecord, PutIn, P, Fields
<1>6. ASSUME NEW v \in 0..1, para' = [para EXCEPT ![slotOf[c]].usedflag = v]
      PROVE  para' \in [Slots -> SlotRecord] /\ PutIn(c, "usedflag", v)
  BY <1>1, <1>6 DEF SlotRecord, PutIn, P, Fields
<1>7. ASSUME NEW t \in Tasks, para' = [para EXCEPT ![slotOf[c]].exitFlag = @ \union {t}]
      PROVE  /\ para' \in [Slots -> SlotRecord]
             /\ PutIn(c, "exitFlag", P(c).exitFlag \union {t})
  BY <1>1, <1>7 DEF SlotRecord, PutIn, P, Fields
<1>. QED  BY <1>2, <1>3, <1>4, <1>5, <1>6, <1>7

LEMMA QueueDoes ==
  ASSUME Typed, NEW c \in Conns, slotOf[c] \in Slots, slotOf' = slotOf, NEW d \in Dirs,
         NEW q \in QueueStates, queue' = [queue EXCEPT ![slotOf[c]][d] = q]
  PROVE  /\ queue' \in [Slots -> [Dirs -> QueueStates]]
         /\ \A s \in Slots : s # slotOf[c] => queue'[s] = queue[s]
         /\ Q(c, d)' = q /\ \A e \in Dirs : e # d => Q(c, e)' = Q(c, e)
BY DEF Typed, SlotTyped, Q

LEMMA ReleaseDoes ==
  ASSUME Typed, NEW x, owner' = Released(x)
  PROVE  /\ owner' \in [Descriptors -> {Free} \union (Conns \X Ends)]
         /\ x \in Descriptors => owner'[x] = Free
         /\ \A f \in Descriptors : f # x => owner'[f] = owner[f]
BY DEF Typed, SlotTyped, Released

(* A task that is somewhere belongs to a connection with a slot.            *)
LEMMA HasSlot ==
  ASSUME Typed, NEW c \in Conns, Kind(c), SlotRule(c), NEW t \in Tasks, pc[c][t] # "none"
  PROVE  slotOf[c] \in Slots /\ (Current(c) \/ Over(c)) /\ pc[c].uw # "none"
<1>1. pc[c].uw # "none"
  BY DEF Kind, Tasks
<1>2. slotOf[c] # -1 /\ (Current(c) \/ Over(c))
  BY <1>1 DEF SlotRule
<1>. QED  BY <1>1, <1>2 DEF Typed, TaskTyped

LEMMA OneCurrent ==
  ASSUME NEW b \in Conns, NEW c \in Conns, Current(b), Current(c), slotOf[b] = slotOf[c]
  PROVE  b = c
<1>1. b \in Nat /\ c \in Nat
  BY ConstFacts
<1>2. ~(b > c) /\ ~(c > b)
  BY DEF Current
<1>. QED  BY <1>1, <1>2

-----------------------------------------------------------------------------
(* Descriptors.  A connection has at most one for each end, so there is one *)
(* left for an end that has none.                                           *)

LEMMA OneEach ==
  ASSUME MainRules, NEW c \in Conns, Owned(c), NEW e \in Ends,
         NEW f \in Descriptors, NEW g \in Descriptors, owner[f] = <<c, e>>, owner[g] = <<c, e>>
  PROVE  f = g
<1>1. CASE e = "client"
  <2>1. \A h \in {f, g} : \/ Filling /\ c = cur /\ h = last
                          \/ Current(c) /\ h = P(c).server_sid
    BY <1>1 DEF Owned
  <2>2. Filling /\ c = cur => ~Current(c)
    BY DEF MainRules, Current
  <2>. QED  BY <2>1, <2>2
<1>2. CASE e = "remote"
  BY <1>2 DEF Owned
<1>. QED  BY <1>1, <1>2 DEF Ends

LEMMA Lowest ==
  ASSUME Typed, Always, NEW c \in Conns, NEW e \in Ends,
         \A f \in Descriptors : owner[f] # <<c, e>>
  PROVE  LowestUnused \in Descriptors /\ owner[LowestUnused] = Free
<1>1. Unused # {}
  <2> SUFFICES ASSUME Unused = {} PROVE FALSE
    OBVIOUS
  <2> DEFINE T == Conns \X Ends
             R == T \ {<<c, e>>}
  <2>1. owner \in [Descriptors -> {Free} \union T]
    BY DEF Typed, SlotTyped
  <2>2. \A f \in Descriptors : owner[f] \in R
    BY <2>1 DEF Unused
  <2>3. ASSUME NEW f \in Descriptors, NEW g \in Descriptors, owner[f] = owner[g] PROVE f = g
    <3>1. PICK b \in Conns, x \in Ends : owner[f] = <<b, x>>
      BY <2>2
    <3>. QED  BY <2>3, <3>1, OneEach DEF Always
  <2>4. owner \in Injection(Descriptors, R)
    <3>1. owner \in [Descriptors -> R]
      BY <2>1, <2>2
    <3>. QED  BY <2>3, <3>1 DEF Injection, IsInjective
  <2>5. IsFiniteSet(Conns) /\ Cardinality(Conns) = MaxConns
    <3>1. MaxConns \in Nat
      BY ConstFacts
    <3>. QED  BY <3>1, FS_Interval DEF Conns
  <2>6. IsFiniteSet(Ends) /\ Cardinality(Ends) = 2
    <3>1. IsFiniteSet({}) /\ Cardinality({}) = 0
      BY FS_EmptySet
    <3>2. IsFiniteSet({"client"}) /\ Cardinality({"client"}) = 1
      BY <3>1, FS_AddElement
    <3>. QED  BY <3>2, FS_AddElement DEF Ends
  <2>7. IsFiniteSet(T) /\ Cardinality(T) = MaxConns * 2
    BY <2>5, <2>6, FS_Product
  <2>8. <<c, e>> \in T
    OBVIOUS
  <2>9. IsFiniteSet(R) /\ Cardinality(R) = MaxConns * 2 - 1
    BY <2>7, <2>8, FS_RemoveElement
  <2>10. Cardinality(Descriptors) = MaxConns * 2
    <3>1. MaxConns \in Nat
      BY ConstFacts
    <3>. QED  BY <3>1, FS_Interval DEF Descriptors
  <2> HIDE DEF R, T
  <2>11. Cardinality(Descriptors) <= Cardinality(R)
    BY <2>4, <2>9, FS_Injection
  <2>12. MaxConns \in Nat
    BY ConstFacts
  <2>. QED  BY <2>9, <2>10, <2>11, <2>12
<1>2. Unused \subseteq Nat
  BY ConstFacts DEF Unused
<1>3. \E f \in Unused : \A g \in Unused : f <= g
  BY <1>1, <1>2, MinIsLeast
<1>4. LowestUnused \in Unused
  BY <1>3 DEF LowestUnused
<1>. QED  BY <1>4 DEF Unused

(* The remote socket is opened by a reader that has none.                   *)
LEMMA ConnectFree ==
  ASSUME Typed, Always, NEW c \in Conns, pc[c].ur \in {"connect", "reconnect"}
  PROVE  /\ Current(c) /\ P(c).client_sid < 0
         /\ LowestUnused \in Descriptors /\ owner[LowestUnused] = Free
<1>1. Kind(c) /\ SlotRule(c) /\ Owned(c)
  BY DEF Always
<1>2. Current(c)
  BY <1>1, HasSlot DEF Over, Tasks
<1>3. P(c).client_sid < 0
  BY <1>1, <1>2 DEF Owned
<1>4. \A f \in Descriptors : owner[f] # <<c, "remote">>
  BY <1>1, <1>3, ConstFacts DEF Owned
<1>. QED  BY <1>2, <1>3, <1>4, Lowest DEF Ends

-----------------------------------------------------------------------------
(* A step of a task changes nothing of another connection but, where it     *)
(* lost its slot, what it shares with the one that has it.                  *)

TaskStep(c) == Uw(c) \/ Ur(c) \/ Dw(c) \/ Dr(c)

Frame(c) ==
  /\ UNCHANGED <<env, slotOf, mpc, idx, cur, last, asked, given, closed>>
  /\ \A b \in Conns : b # c => /\ pc'[b] = pc[b] /\ read'[b] = read[b]
                               /\ sent'[b] = sent[b] /\ lost'[b] = lost[b]
  /\ \A s \in Slots : s # slotOf[c] => para'[s] = para[s] /\ queue'[s] = queue[s]

LEMMA FrameStep ==
  ASSUME Typed, NEW c \in Conns, slotOf[c] \in Slots, TaskStep(c)
  PROVE  Frame(c)
<1>0. /\ pc \in [Conns -> [Tasks -> Labels]] /\ para \in [Slots -> SlotRecord]
      /\ queue \in [Slots -> [Dirs -> QueueStates]]
      /\ read \in [Conns -> [Dirs -> 0..MaxPkts]] /\ sent \in [Conns -> [Dirs -> 0..MaxPkts]]
      /\ lost \in [Conns -> [Dirs -> 0..MaxPkts]]
  BY DEF Typed, SlotTyped, TaskTyped, FlowTyped
<1>1. /\ UNCHANGED <<env, slotOf, mpc, idx, cur, last, asked, given, closed>>
  BY DEF TaskStep, Uw, Ur, Dw, Dr, Begin, UpRead, UpForced, UpClose, WriterFlag, DownRead,
     DownStop, DownForced, DownClose, Connect, UpTake, UpSend, UpGiveUp, UpLeave,
     UpReaderClose, CloseWait, ReaderFlag, FreeSlot, DownSend, DownLeave, DownReaderClose,
     mainv, peerv
<1>2. \A b \in Conns : b # c => pc'[b] = pc[b]
  <2>1. \/ UNCHANGED pc
        \/ \E t \in Tasks, l \in Labels : Goto(c, t, l)
    BY DEF TaskStep, Uw, Ur, Dw, Dr, Begin, UpRead, UpForced, UpClose, WriterFlag, DownRead,
       DownStop, DownForced, DownClose, Connect, UpTake, UpSend, UpGiveUp, UpLeave, Leave,
       UpReaderClose, CloseWait, ReaderFlag, FreeSlot, DownSend, DownLeave, DownReaderClose,
       UpExit, Last, Tasks, Labels
  <2>. QED  BY <1>0, <2>1 DEF Goto
<1>3. \A b \in Conns : b # c => read'[b] = read[b] /\ sent'[b] = sent[b] /\ lost'[b] = lost[b]
  <2>1. /\ UNCHANGED read \/ \E d \in Dirs : read' = Count(read, c, d)
        /\ UNCHANGED sent \/ \E d \in Dirs : sent' = Count(sent, c, d)
        /\ UNCHANGED lost \/ \E d \in Dirs : lost' = Count(lost, c, d)
    BY DEF TaskStep, Uw, Ur, Dw, Dr, Begin, UpRead, UpForced, UpClose, WriterFlag, DownRead,
       DownStop, DownForced, DownClose, Connect, UpTake, UpSend, UpGiveUp, UpLeave, Repeat,
       UpReaderClose, CloseWait, ReaderFlag, FreeSlot, DownSend, DownLeave, DownReaderClose,
       flowv, Dirs
  <2>. QED  BY <1>0, <2>1 DEF Count
<1>4. \A s \in Slots : s # slotOf[c] => para'[s] = para[s] /\ queue'[s] = queue[s]
  BY <1>0 DEF TaskStep, Uw, Ur, Dw, Dr, Begin, UpRead, UpForced, UpClose, WriterFlag, DownRead,
     DownStop, DownForced, DownClose, Connect, UpTake, UpSend, UpGiveUp, UpLeave, UpEnd, DownEnd,
     UpReaderClose, CloseWait, ReaderFlag, FreeSlot, DownSend, DownLeave, DownReaderClose
<1>. QED  BY <1>1, <1>2, <1>3, <1>4 DEF Frame

LEMMA ReadOne ==
  ASSUME Typed, NEW c \in Conns, NEW d \in Dirs, read' = Count(read, c, d),
         UNCHANGED <<env, given, closed, sent, lost>>, MayRead(c, d), Pending(c, d) < Capacity
  PROVE  FlowTyped' /\ Counted(read, c, d)
<1>0. /\ given \in [Conns -> [Dirs -> 0..MaxPkts]] /\ read \in [Conns -> [Dirs -> 0..MaxPkts]]
      /\ sent \in [Conns -> [Dirs -> 0..MaxPkts]] /\ lost \in [Conns -> [Dirs -> 0..MaxPkts]]
      /\ env.pkts \in 0..MaxPkts /\ MaxPkts \in Nat /\ Capacity \in Nat
  BY SettingFacts, ConstFacts DEF Typed, FlowTyped
<1>1. read \in [Conns -> [Dirs -> Nat]]
  BY <1>0
<1>2. /\ read' \in [Conns -> [Dirs -> Nat]]
      /\ \A b \in Conns : b # c => read'[b] = read[b]
      /\ read'[c][d] = read[c][d] + 1
      /\ \A e \in Dirs : e # d => read'[c][e] = read[c][e]
  BY SMTT(30), <1>1 DEF Count
<1>3. read'[c][d] \in 0..MaxPkts
  <2>1. read[c][d] \in 0..MaxPkts /\ given[c][d] \in 0..MaxPkts
    BY <1>0
  <2>2. read[c][d] < MaxPkts
    BY <1>0, <2>1 DEF MayRead
  <2>. QED  BY <1>0, <1>2, <2>1, <2>2
<1>4. ASSUME NEW b \in Conns, NEW e \in Dirs PROVE read'[b][e] \in 0..MaxPkts
  <2>1. CASE b = c /\ e = d
    BY <1>3, <2>1
  <2>2. CASE ~(b = c /\ e = d)
    <3>1. read'[b][e] = read[b][e]
      BY <1>2, <2>2
    <3>2. read[b][e] \in 0..MaxPkts
      BY <1>0
    <3>. QED  BY <3>1, <3>2
  <2>. QED  BY <2>1, <2>2
<1>5. read' \in [Conns -> [Dirs -> 0..MaxPkts]]
  BY <1>2, <1>4
<1>6. ASSUME NEW b \in Conns, NEW e \in Dirs PROVE Pending(b, e)' \in 0..Capacity
  <2>1. Pending(b, e) \in 0..Capacity
    BY DEF Typed, FlowTyped
  <2>2. /\ read[b][e] \in Int /\ sent[b][e] \in Int /\ lost[b][e] \in Int
        /\ read[c][d] \in Int /\ sent[c][d] \in Int /\ lost[c][d] \in Int
    BY <1>0
  <2>3. CASE b = c /\ e = d
    BY <1>0, <1>2, <2>1, <2>2, <2>3 DEF Pending
  <2>4. CASE ~(b = c /\ e = d)
    <3>1. read'[b][e] = read[b][e]
      BY <1>2, <2>4
    <3>. QED  BY <2>1, <3>1 DEF Pending
  <2>. QED  BY <2>3, <2>4
<1>. QED  BY <1>2, <1>5, <1>6 DEF FlowTyped, Typed, Counted

(* A packet that is waiting is sent or given up.                            *)
Takes(c, d) ==
  \/ sent' = Count(sent, c, d) /\ lost' = lost
  \/ lost' = Count(lost, c, d) /\ sent' = sent
Took(c, d) ==
  \/ Counted(sent, c, d) /\ lost' = lost
  \/ Counted(lost, c, d) /\ sent' = sent

LEMMA TakeOne ==
  ASSUME Typed, NEW c \in Conns, NEW d \in Dirs, Takes(c, d),
         UNCHANGED <<given, closed, read>>, Pending(c, d) > 0
  PROVE  FlowTyped' /\ Took(c, d)
<1>0. /\ given \in [Conns -> [Dirs -> 0..MaxPkts]] /\ read \in [Conns -> [Dirs -> 0..MaxPkts]]
      /\ sent \in [Conns -> [Dirs -> 0..MaxPkts]] /\ lost \in [Conns -> [Dirs -> 0..MaxPkts]]
      /\ MaxPkts \in Nat /\ Capacity \in Nat
  BY ConstFacts DEF Typed, FlowTyped
<1>1. sent \in [Conns -> [Dirs -> Nat]] /\ lost \in [Conns -> [Dirs -> Nat]]
  BY <1>0
<1>2. \/ /\ sent' \in [Conns -> [Dirs -> Nat]] /\ Counted(sent, c, d) /\ lost' = lost
      \/ /\ lost' \in [Conns -> [Dirs -> Nat]] /\ Counted(lost, c, d) /\ sent' = sent
  <2>1. ASSUME sent' = Count(sent, c, d)
        PROVE  sent' \in [Conns -> [Dirs -> Nat]] /\ Counted(sent, c, d)
    <3>1. /\ sent' \in [Conns -> [Dirs -> Nat]]
          /\ \A b \in Conns : b # c => sent'[b] = sent[b]
          /\ sent'[c][d] = sent[c][d] + 1
          /\ \A e \in Dirs : e # d => sent'[c][e] = sent[c][e]
      BY <1>1, <2>1 DEF Count
    <3>. QED  BY <3>1 DEF Counted
  <2>2. ASSUME lost' = Count(lost, c, d)
        PROVE  lost' \in [Conns -> [Dirs -> Nat]] /\ Counted(lost, c, d)
    <3>1. /\ lost' \in [Conns -> [Dirs -> Nat]]
          /\ \A b \in Conns : b # c => lost'[b] = lost[b]
          /\ lost'[c][d] = lost[c][d] + 1
          /\ \A e \in Dirs : e # d => lost'[c][e] = lost[c][e]
      BY <1>1, <2>2 DEF Count
    <3>. QED  BY <3>1 DEF Counted
  <2>. QED  BY <2>1, <2>2 DEF Takes
<1>3. /\ read[c][d] \in 0..MaxPkts /\ sent[c][d] \in Nat /\ lost[c][d] \in Nat
      /\ sent[c][d] + lost[c][d] < read[c][d]
  <2>1. read[c][d] \in 0..MaxPkts /\ sent[c][d] \in Nat /\ lost[c][d] \in Nat
    BY <1>0
  <2>. QED  BY <2>1 DEF Pending
<1>4. ASSUME NEW b \in Conns, NEW e \in Dirs
      PROVE  /\ sent'[b][e] \in 0..MaxPkts /\ lost'[b][e] \in 0..MaxPkts
             /\ Pending(b, e)' \in 0..Capacity
  <2>1. Pending(b, e) \in 0..Capacity
    BY DEF Typed, FlowTyped
  <2>2. read[b][e] \in 0..MaxPkts /\ sent[b][e] \in 0..MaxPkts /\ lost[b][e] \in 0..MaxPkts
    BY <1>0
  <2>3. CASE b = c /\ e = d
    <3>1. \/ sent'[c][d] = sent[c][d] + 1 /\ lost'[c][d] = lost[c][d]
          \/ lost'[c][d] = lost[c][d] + 1 /\ sent'[c][d] = sent[c][d]
      BY <1>2 DEF Counted
    <3>. QED  BY <1>0, <1>3, <2>1, <2>2, <2>3, <3>1 DEF Pending
  <2>4. CASE ~(b = c /\ e = d)
    <3>1. sent'[b][e] = sent[b][e] /\ lost'[b][e] = lost[b][e]
      BY <1>2, <2>4 DEF Counted
    <3>. QED  BY <2>1, <2>2, <3>1 DEF Pending
  <2>. QED  BY <2>3, <2>4
<1>5. sent' \in [Conns -> [Dirs -> 0..MaxPkts]] /\ lost' \in [Conns -> [Dirs -> 0..MaxPkts]]
  BY <1>0, <1>2, <1>4
<1>. QED  BY <1>2, <1>4, <1>5 DEF FlowTyped, Typed, Took

LEMMA SendsTake ==
  ASSUME Typed, NEW c \in Conns, Kind(c)
  PROVE  /\ UpSend(c) => Pending(c, "up") > 0 /\ (Takes(c, "up") \/ UNCHANGED <<sent, lost>>)
         /\ UpGiveUp(c) => Pending(c, "up") > 0 /\ Takes(c, "up")
         /\ DownSend(c) => Pending(c, "down") > 0 /\ (Takes(c, "down") \/ UNCHANGED <<sent, lost>>)
BY DEF Kind, UpSend, UpGiveUp, DownSend, Repeat, Takes

LEMMA TypedStep ==
  ASSUME Typed, Always, NEW c \in Conns, slotOf[c] \in Slots, TaskStep(c)
  PROVE  Typed'
<1>0. Kind(c) /\ Frame(c)
  BY FrameStep DEF Always
<1>1. owner' \in [Descriptors -> {Free} \union (Conns \X Ends)]
  <2>1. owner \in [Descriptors -> {Free} \union (Conns \X Ends)]
    BY DEF Typed, SlotTyped
  <2>2. CASE Connect(c)
    <3>1. LowestUnused \in Descriptors
      BY <2>2, ConnectFree DEF Connect
    <3>. QED  BY <2>1, <2>2, <3>1 DEF Connect, Ends
  <2>3. CASE ~Connect(c)
    <3>1. UNCHANGED owner \/ \E x \in Sids : owner' = Released(x)
      <4>1. P(c).server_sid \in Sids /\ P(c).client_sid \in Sids
        BY DEF Typed, SlotTyped, SlotRecord, Sids, P
      <4>. QED  BY <2>3, <4>1 DEF TaskStep, Uw, Ur, Dw, Dr, Begin, UpRead, UpForced, UpClose,
             WriterFlag, DownRead, DownStop, DownForced, DownClose, UpTake, UpSend,
             UpGiveUp, UpLeave, UpReaderClose, CloseWait, ReaderFlag, FreeSlot, DownSend,
             DownLeave, DownReaderClose
    <3>. QED  BY <2>1, <3>1, ReleaseDoes
  <2>. QED  BY <2>2, <2>3
<1>2. para' \in [Slots -> SlotRecord]
  <2>1. para \in [Slots -> SlotRecord] /\ slotOf' = slotOf
    BY <1>0 DEF Typed, SlotTyped, Frame
  <2>2. CASE Connect(c)
    <3>1. LowestUnused \in Descriptors
      BY <2>2, ConnectFree DEF Connect
    <3>2. LowestUnused \in Sids /\ Failed \in Sids
      BY <3>1 DEF Sids
    <3>. QED  BY <2>1, <2>2, <3>2, FieldDoes DEF Connect
  <2>3. CASE UpClose(c) \/ DownReaderClose(c)
    BY <2>1, <2>3, FieldDoes DEF UpClose, DownReaderClose
  <2>4. CASE DownClose(c) \/ UpGiveUp(c) \/ UpReaderClose(c)
    <3>1. NoSid \in Sids
      BY DEF Sids
    <3>. QED  BY <2>1, <2>4, <3>1, FieldDoes DEF DownClose, UpGiveUp, UpReaderClose
  <2>5. CASE CloseWait(c) \/ DownRead(c) \/ FreeSlot(c, "ur") \/ FreeSlot(c, "dr")
    <3>1. \/ UNCHANGED para
          \/ para' = [para EXCEPT ![slotOf[c]].client_closewaite = 1]
          \/ para' = [para EXCEPT ![slotOf[c]].stop_flag = 1]
          \/ para' = [para EXCEPT ![slotOf[c]].usedflag = 0]
      BY <2>5 DEF CloseWait, DownRead, FreeSlot
    <3>2. 0 \in 0..1 /\ 1 \in 0..1
      OBVIOUS
    <3>3. /\ para' = [para EXCEPT ![slotOf[c]].client_closewaite = 1] =>
               para' \in [Slots -> SlotRecord]
          /\ para' = [para EXCEPT ![slotOf[c]].stop_flag = 1] => para' \in [Slots -> SlotRecord]
          /\ para' = [para EXCEPT ![slotOf[c]].usedflag = 0] => para' \in [Slots -> SlotRecord]
      BY <2>1, <3>2, FieldDoes
    <3>. QED  BY <2>1, <3>1, <3>3
  <2>6. CASE WriterFlag(c, "uw") \/ WriterFlag(c, "dw") \/ ReaderFlag(c, "ur") \/ ReaderFlag(c, "dr")
    BY <2>1, <2>6, FieldDoes DEF WriterFlag, ReaderFlag, Tasks
  <2>7. CASE UNCHANGED para
    BY <2>1, <2>7
  <2>. QED  BY <2>2, <2>3, <2>4, <2>5, <2>6, <2>7 DEF TaskStep, Uw, Ur, Dw, Dr, Begin, UpRead,
         UpForced, DownStop, DownForced, UpTake, UpSend, UpLeave, DownSend, DownLeave
<1>3. queue' \in [Slots -> [Dirs -> QueueStates]]
  <2>1. queue \in [Slots -> [Dirs -> QueueStates]] /\ slotOf' = slotOf
    BY <1>0 DEF Typed, SlotTyped, Frame
  <2>2. \/ UNCHANGED queue
        \/ \E d \in Dirs, q \in QueueStates : queue' = [queue EXCEPT ![slotOf[c]][d] = q]
    BY DEF TaskStep, Uw, Ur, Dw, Dr, Begin, UpRead, UpForced, UpClose, WriterFlag, DownRead,
     DownStop, DownForced, DownClose, Connect, UpTake, UpSend, UpGiveUp, UpLeave, UpEnd, DownEnd,
     UpReaderClose, CloseWait, ReaderFlag, FreeSlot, DownSend, DownLeave, DownReaderClose,
     DirOf, Dirs, QueueStates
  <2>3. ASSUME NEW d \in Dirs, NEW q \in QueueStates,
               queue' = [queue EXCEPT ![slotOf[c]][d] = q]
        PROVE  queue' \in [Slots -> [Dirs -> QueueStates]]
    BY <2>1, <2>3, QueueDoes
  <2>. QED  BY <2>1, <2>2, <2>3
<1>4. TaskTyped'
  <2>1. pc \in [Conns -> [Tasks -> Labels]] /\ slotOf' = slotOf
    BY <1>0 DEF Typed, TaskTyped, Frame
  <2>2. \/ UNCHANGED pc
        \/ \E t \in Tasks, l \in Labels : Goto(c, t, l)
    BY DEF TaskStep, Uw, Ur, Dw, Dr, Begin, UpRead, UpForced, UpClose, WriterFlag, DownRead,
       DownStop, DownForced, DownClose, Connect, UpTake, UpSend, UpGiveUp, UpLeave, Leave,
       UpReaderClose, CloseWait, ReaderFlag, FreeSlot, DownSend, DownLeave, DownReaderClose,
       UpExit, Last, Tasks, Labels
  <2>3. pc' \in [Conns -> [Tasks -> Labels]]
    BY <2>1, <2>2 DEF Goto
  <2>4. fin' \in [Conns -> {0, 2}]
    <3>1. fin \in [Conns -> {0, 2}]
      BY DEF Typed, TaskTyped
    <3>2. UNCHANGED fin \/ fin' = [fin EXCEPT ![c] = 2]
      BY DEF TaskStep, Uw, Ur, Dw, Dr, Begin, UpRead, UpForced, UpClose, WriterFlag, DownRead,
       DownStop, DownForced, DownClose, Connect, UpTake, UpSend, UpGiveUp, UpLeave,
       UpReaderClose, CloseWait, ReaderFlag, FreeSlot, DownSend, DownLeave, DownReaderClose
    <3>. QED  BY <3>1, <3>2
  <2>5. tries' \in [Conns -> [Dirs -> 0..MaxTries]]
    <3>1. tries \in [Conns -> [Dirs -> 0..MaxTries]] /\ MaxTries \in Nat
      BY ConstFacts DEF Typed, TaskTyped
    <3>2. \/ UNCHANGED tries
          \/ \E d \in Dirs : \/ tries' = [tries EXCEPT ![c][d] = 0]
                             \/ tries[c][d] < MaxTries /\ tries' = Count(tries, c, d)
      BY DEF TaskStep, Uw, Ur, Dw, Dr, Begin, UpRead, UpForced, UpClose, WriterFlag, DownRead,
       DownStop, DownForced, DownClose, Connect, UpTake, UpSend, UpGiveUp, UpLeave, Repeat,
       UpReaderClose, CloseWait, ReaderFlag, FreeSlot, DownSend, DownLeave, DownReaderClose, Dirs
    <3>3. ASSUME NEW d \in Dirs, tries[c][d] < MaxTries
          PROVE  Count(tries, c, d) \in [Conns -> [Dirs -> 0..MaxTries]]
      <4>1. tries[c][d] \in 0..MaxTries
        BY <3>1
      <4>2. tries[c][d] + 1 \in 0..MaxTries
        BY <3>1, <3>3, <4>1
      <4>3. [tries[c] EXCEPT ![d] = tries[c][d] + 1] \in [Dirs -> 0..MaxTries]
        BY <3>1, <4>2
      <4>. QED  BY <3>1, <4>3 DEF Count
    <3>. QED  BY <3>1, <3>2, <3>3
  <2>. QED  BY <2>1, <2>3, <2>4, <2>5 DEF TaskTyped, Typed
<1>5. MainTyped'
  BY <1>0 DEF Typed, MainTyped, Frame
<1>6. FlowTyped'
  <2>1. CASE UpRead(c) /\ read' # read
    BY <2>1, ReadOne DEF UpRead, peerv, Dirs
  <2>2. CASE DownRead(c) /\ read' # read
    BY <2>2, ReadOne DEF DownRead, peerv, Dirs
  <2>3. CASE UNCHANGED <<read, sent, lost, given, closed>>
    BY <2>3 DEF Typed, FlowTyped, Pending
  <2>4. CASE UpSend(c) \/ UpGiveUp(c) \/ DownSend(c)
    <3>1. UNCHANGED <<read, given, closed>>
      BY <2>4 DEF UpSend, UpGiveUp, DownSend, peerv
    <3>2. CASE UNCHANGED <<sent, lost>>
      BY <2>3, <3>1, <3>2
    <3>3. CASE ~UNCHANGED <<sent, lost>>
      BY <1>0, <2>4, <3>1, <3>3, SendsTake, TakeOne DEF Dirs
    <3>. QED  BY <3>2, <3>3
  <2>. QED  BY <2>1, <2>2, <2>3, <2>4 DEF TaskStep, Uw, Ur, Dw, Dr, Begin, UpRead, UpForced,
         UpClose, WriterFlag, DownRead, DownStop, DownForced, DownClose, Connect, UpTake, UpLeave,
         UpReaderClose, CloseWait, ReaderFlag, FreeSlot, DownLeave, DownReaderClose,
         flowv, peerv
<1>. QED  BY <1>1, <1>2, <1>3, <1>4, <1>5, <1>6 DEF Typed, SlotTyped

-----------------------------------------------------------------------------
(* Where the tasks of a connection go.                                      *)

(* Each task goes its way: from - to.                                       *)
UwMoves(c) ==
  \/ pc'[c].uw = pc[c].uw
  \/ pc[c].uw = "ready" /\ pc'[c].uw = "run"
  \/ pc[c].uw = "run" /\ pc'[c].uw = UpExit
  \/ pc[c].uw = "close" /\ pc'[c].uw = "flag"
  \/ pc[c].uw = "flag" /\ pc'[c].uw = "done"
UrMoves(c) ==
  \/ pc'[c].ur = pc[c].ur
  \/ pc[c].ur = "ready" /\ pc'[c].ur = "connect"
  \/ pc[c].ur = "connect" /\ pc'[c].ur = "run"
  \/ pc[c].ur = "reconnect" /\ pc'[c].ur = "send"
  \/ /\ pc[c].ur = "run" /\ pc'[c].ur \in {"send", "reconnect"} /\ Pending(c, "up") > 0
     /\ pc'[c].ur = "reconnect" => P(c).client_sid < 0
  \/ pc[c].ur = "send" /\ pc'[c].ur = "run"
  \/ pc[c].ur = "run" /\ pc'[c].ur = IF ToRemote = "UDP" THEN "close" ELSE "closewait"
  \/ pc[c].ur = "close" /\ pc'[c].ur = "closewait"
  \/ pc[c].ur = "closewait" /\ pc'[c].ur = "wait"
  \/ pc[c].ur = "wait" /\ pc'[c].ur = IF Last("ur") THEN "free" ELSE "done"
  \/ pc[c].ur = "free" /\ pc'[c].ur = "done"
DwMoves(c) ==
  \/ pc'[c].dw = pc[c].dw
  \/ pc[c].dw = "ready" /\ pc'[c].dw = "run"
  \/ pc[c].dw = "run" /\ pc'[c].dw = "close"
  \/ pc[c].dw = "close" /\ pc'[c].dw = "flag"
  \/ pc[c].dw = "flag" /\ pc'[c].dw = "done"
DrMoves(c) ==
  \/ pc'[c].dr = pc[c].dr
  \/ pc[c].dr = "ready" /\ pc'[c].dr = "run"
  \/ pc[c].dr = "run" /\ pc'[c].dr = "close"
  \/ pc[c].dr = "close" /\ pc'[c].dr = "wait"
  \/ pc[c].dr = "wait" /\ pc'[c].dr = "free"
  \/ pc[c].dr = "free" /\ pc'[c].dr = "done"

LEMMA TaskMoves ==
  ASSUME Typed, NEW c \in Conns
  PROVE  /\ Uw(c) => UwMoves(c) /\ pc'[c].ur = pc[c].ur /\ pc'[c].dw = pc[c].dw /\ pc'[c].dr = pc[c].dr
         /\ Ur(c) => UrMoves(c) /\ pc'[c].uw = pc[c].uw /\ pc'[c].dw = pc[c].dw /\ pc'[c].dr = pc[c].dr
         /\ Dw(c) => DwMoves(c) /\ pc'[c].uw = pc[c].uw /\ pc'[c].ur = pc[c].ur /\ pc'[c].dr = pc[c].dr
         /\ Dr(c) => DrMoves(c) /\ pc'[c].uw = pc[c].uw /\ pc'[c].ur = pc[c].ur /\ pc'[c].dw = pc[c].dw
<1>0. ASSUME NEW t \in Tasks, NEW l \in Labels, Goto(c, t, l) PROVE Moved(c, t, l)
  BY <1>0, GotoDoes
<1>1. ASSUME Uw(c)
      PROVE  UwMoves(c) /\ pc'[c].ur = pc[c].ur /\ pc'[c].dw = pc[c].dw /\ pc'[c].dr = pc[c].dr
  <2>0. UpExit \in Labels
    BY DEF UpExit, Labels
  <2>1. CASE Begin(c, "uw")
    BY <1>0, <2>1 DEF Begin, UwMoves, Moved, Tasks, Labels
  <2>2. CASE UpRead(c) \/ UpForced(c)
    <3>1. UNCHANGED pc \/ Goto(c, "uw", UpExit)
      BY <2>2 DEF UpRead, UpForced, Leave
    <3>2. pc[c].uw = "run"
      BY <2>2 DEF UpRead, UpForced, MayLoop
    <3>. QED  BY <1>0, <2>0, <3>1, <3>2 DEF UwMoves, Moved, Tasks
  <2>3. CASE UpClose(c) \/ WriterFlag(c, "uw")
    BY <1>0, <2>3 DEF UpClose, WriterFlag, UwMoves, Moved, Tasks, Labels
  <2>. QED  BY <1>1, <2>1, <2>2, <2>3 DEF Uw
<1>2. ASSUME Ur(c)
      PROVE  UrMoves(c) /\ pc'[c].uw = pc[c].uw /\ pc'[c].dw = pc[c].dw /\ pc'[c].dr = pc[c].dr
  BY <1>0, <1>2 DEF Ur, Begin, Connect, UpTake, UpSend, UpGiveUp, UpLeave, UpReaderClose,
     CloseWait, ReaderFlag, FreeSlot, Leave, Last, MayLoop, UrMoves, Moved, Tasks, Labels
<1>3. ASSUME Dw(c)
      PROVE  DwMoves(c) /\ pc'[c].uw = pc[c].uw /\ pc'[c].ur = pc[c].ur /\ pc'[c].dr = pc[c].dr
  BY <1>0, <1>3 DEF Dw, Begin, DownRead, DownStop, DownForced, DownClose, WriterFlag, Leave,
     MayLoop, DwMoves, Moved, Tasks, Labels
<1>4. ASSUME Dr(c)
      PROVE  DrMoves(c) /\ pc'[c].uw = pc[c].uw /\ pc'[c].ur = pc[c].ur /\ pc'[c].dw = pc[c].dw
  BY <1>0, <1>4 DEF Dr, Begin, DownSend, DownLeave, DownReaderClose, ReaderFlag, FreeSlot, Leave,
     Last, DrMoves, Moved, Tasks, Labels
<1>. QED  BY <1>1, <1>2, <1>3, <1>4

(* What is waiting for the remote grows unless a packet in hand is sent.    *)
LEMMA PendingGrows ==
  ASSUME Typed, NEW c \in Conns, TaskStep(c), ~UpSend(c), ~UpGiveUp(c)
  PROVE  /\ Pending(c, "up")' \in Int /\ Pending(c, "up") \in Int
         /\ Pending(c, "up")' >= Pending(c, "up")
<1>0. /\ read \in [Conns -> [Dirs -> 0..MaxPkts]] /\ sent \in [Conns -> [Dirs -> 0..MaxPkts]]
      /\ lost \in [Conns -> [Dirs -> 0..MaxPkts]]
  BY DEF Typed, FlowTyped
<1>1. /\ \/ UNCHANGED read
         \/ read' = Count(read, c, "up") \/ read' = Count(read, c, "down")
      /\ UNCHANGED sent \/ sent' = Count(sent, c, "down")
      /\ UNCHANGED lost \/ lost' = Count(lost, c, "down")
  BY DEF TaskStep, Uw, Ur, Dw, Dr, Begin, UpRead, UpForced, UpClose, WriterFlag, DownRead,
     DownStop, DownForced, DownClose, Connect, UpTake, UpLeave, Repeat, UpReaderClose,
     CloseWait, ReaderFlag, FreeSlot, DownSend, DownLeave, DownReaderClose, flowv
<1>2. read'[c]["up"] \in {read[c]["up"], read[c]["up"] + 1}
  BY <1>0, <1>1 DEF Count, Dirs
<1>3. sent'[c]["up"] = sent[c]["up"] /\ lost'[c]["up"] = lost[c]["up"]
  BY <1>0, <1>1 DEF Count, Dirs
<1>4. read[c]["up"] \in Nat /\ sent[c]["up"] \in Nat /\ lost[c]["up"] \in Nat
  BY <1>0 DEF Dirs
<1>. QED  BY <1>2, <1>3, <1>4 DEF Pending

LEMMA KindStep ==
  ASSUME Typed, NEW c \in Conns, Kind(c), slotOf[c] \in Slots, TaskStep(c)
  PROVE  Kind(c)' /\ (Over(c) => Over(c)')
<1>0. env' = env /\ env.remote \in {"TCP", "UDP"}
  BY FrameStep, SettingFacts DEF Frame, Typed
<1>1. Pending(c, "up") > 0 /\ pc'[c].ur \in {"send", "reconnect"} => Pending(c, "up")' > 0
  <2>1. CASE ~UpSend(c) /\ ~UpGiveUp(c)
    <3>1. /\ Pending(c, "up")' \in Int /\ Pending(c, "up") \in Int
          /\ Pending(c, "up")' >= Pending(c, "up")
      BY <2>1, PendingGrows
    <3>. QED  BY <3>1
  <2>2. CASE UpSend(c) \/ UpGiveUp(c)
    <3>1. pc'[c].ur = "run"
      BY <2>2, GotoDoes DEF UpSend, UpGiveUp, Moved, Tasks, Labels
    <3>. QED  BY <3>1
  <2>. QED  BY <2>1, <2>2
<1>2. CASE Uw(c)
  BY <1>0, <1>1, <1>2, TaskMoves DEF UwMoves, Kind, Over, Tcp, ToRemote, UpExit, Labels
<1>3. CASE Ur(c)
  BY <1>0, <1>1, <1>3, TaskMoves DEF UrMoves, Kind, Over, Tcp, ToRemote, Last, Labels
<1>4. CASE Dw(c)
  BY <1>0, <1>1, <1>4, TaskMoves DEF DwMoves, Kind, Over, Tcp, ToRemote, Labels
<1>5. CASE Dr(c)
  BY <1>0, <1>1, <1>5, TaskMoves DEF DrMoves, Kind, Over, Tcp, ToRemote, Labels
<1>. QED  BY <1>2, <1>3, <1>4, <1>5 DEF TaskStep

-----------------------------------------------------------------------------
(* Who changes which field of a slot.                                       *)

Kept(c, g) == P(c)'[g] = P(c)[g]

FieldMoves(c) ==
  /\ Kept(c, "shutdown")
  /\ Kept(c, "usedflag") \/ ((FreeSlot(c, "ur") \/ FreeSlot(c, "dr")) /\ P(c)'["usedflag"] = 0)
  /\ \/ Kept(c, "server_sid")
     \/ (UpClose(c) \/ DownReaderClose(c)) /\ P(c)'["server_sid"] = NoSid
  /\ \/ Kept(c, "client_sid")
     \/ Connect(c)
     \/ (DownClose(c) \/ UpGiveUp(c) \/ UpReaderClose(c)) /\ P(c)'["client_sid"] = NoSid
  /\ Kept(c, "client_closewaite") \/ (CloseWait(c) /\ P(c)'["client_closewaite"] = 1)
  /\ Kept(c, "stop_flag") \/ (DownRead(c) /\ P(c)'["stop_flag"] = 1)
  /\ \/ Kept(c, "exitFlag")
     \/ \E t \in {"uw", "dw"} : WriterFlag(c, t) /\ P(c)'["exitFlag"] = P(c)["exitFlag"] \union {t}
     \/ \E t \in {"ur", "dr"} : ReaderFlag(c, t) /\ P(c)'["exitFlag"] = P(c)["exitFlag"] \union {t}

LEMMA FieldsOf ==
  ASSUME Typed, NEW c \in Conns, slotOf[c] \in Slots, TaskStep(c)
  PROVE  FieldMoves(c)
<1>0. slotOf' = slotOf
  BY FrameStep DEF Frame
<1>00. 0 \in 0..1 /\ 1 \in 0..1
  OBVIOUS
<1>1. CASE UNCHANGED para
  BY <1>0, <1>1 DEF FieldMoves, Kept, P
<1>2. CASE UpClose(c) \/ DownReaderClose(c)
  <2>1. PutIn(c, "server_sid", NoSid)
    BY <1>0, <1>2, FieldDoes DEF UpClose, DownReaderClose
  <2>. QED  BY <1>2, <2>1 DEF PutIn, Fields, FieldMoves, Kept
<1>3. CASE DownClose(c) \/ UpGiveUp(c) \/ UpReaderClose(c)
  <2>1. PutIn(c, "client_sid", NoSid)
    BY <1>0, <1>3, FieldDoes DEF DownClose, UpGiveUp, UpReaderClose, Sids
  <2>. QED  BY <1>3, <2>1 DEF PutIn, Fields, FieldMoves, Kept
<1>4. CASE Connect(c)
  <2>1. PICK v : para' = [para EXCEPT ![slotOf[c]].client_sid = v]
    BY <1>4 DEF Connect
  <2>2. \A g \in Fields : g # "client_sid" => P(c)'[g] = P(c)[g]
    BY <1>0, <2>1 DEF Typed, SlotTyped, SlotRecord, P, Fields
  <2>. QED  BY <1>4, <2>2 DEF Fields, FieldMoves, Kept
<1>5. CASE CloseWait(c)
  <2>1. PutIn(c, "client_closewaite", 1)
    BY <1>0, <1>5, <1>00, FieldDoes DEF CloseWait
  <2>. QED  BY <1>5, <2>1 DEF PutIn, Fields, FieldMoves, Kept
<1>6. CASE DownRead(c) /\ para' # para
  <2>1. PutIn(c, "stop_flag", 1)
    BY <1>0, <1>6, <1>00, FieldDoes DEF DownRead
  <2>. QED  BY <1>6, <2>1 DEF PutIn, Fields, FieldMoves, Kept
<1>7. CASE FreeSlot(c, "ur") \/ FreeSlot(c, "dr")
  <2>1. PutIn(c, "usedflag", 0)
    BY <1>0, <1>7, <1>00, FieldDoes DEF FreeSlot
  <2>. QED  BY <1>7, <2>1 DEF PutIn, Fields, FieldMoves, Kept
<1>8. ASSUME NEW t \in {"uw", "dw"}, WriterFlag(c, t) PROVE FieldMoves(c)
  <2>1. PutIn(c, "exitFlag", P(c).exitFlag \union {t})
    BY <1>0, <1>8, FieldDoes DEF WriterFlag, Tasks
  <2>. QED  BY <1>8, <2>1 DEF PutIn, Fields, FieldMoves, Kept
<1>9. ASSUME NEW t \in {"ur", "dr"}, ReaderFlag(c, t) PROVE FieldMoves(c)
  <2>1. PutIn(c, "exitFlag", P(c).exitFlag \union {t})
    BY <1>0, <1>9, FieldDoes DEF ReaderFlag, Tasks
  <2>. QED  BY <1>9, <2>1 DEF PutIn, Fields, FieldMoves, Kept
<1>. QED  BY <1>1, <1>2, <1>3, <1>4, <1>5, <1>6, <1>7, <1>8, <1>9 DEF TaskStep, Uw, Ur, Dw, Dr,
       Begin, UpRead, UpForced, DownRead, DownStop, DownForced, UpTake, UpSend, UpLeave,
       DownSend, DownLeave

(* A connection that is not current sets only its exitFlag and destroys     *)
(* only the UP queue.                                                       *)
LEMMA OverStep ==
  ASSUME Typed, NEW c \in Conns, slotOf[c] \in Slots, Over(c), TaskStep(c)
  PROVE  /\ (WriterFlag(c, "uw") \/ ReaderFlag(c, "ur")) /\ Tcp /\ UNCHANGED owner
         /\ \A g \in Fields : g # "exitFlag" => P(c)'[g] = P(c)[g]
         /\ \E t \in {"uw", "ur"} : P(c)'["exitFlag"] = P(c)["exitFlag"] \union {t}
         /\ Q(c, "down")' = Q(c, "down") /\ Q(c, "up")' \in {Q(c, "up"), "gone"}
<1>0. slotOf' = slotOf
  BY FrameStep DEF Frame
<1>1. (WriterFlag(c, "uw") \/ ReaderFlag(c, "ur")) /\ Tcp
  BY DEF Over, TaskStep, Uw, Ur, Dw, Dr, Begin, UpRead, UpForced, UpClose, WriterFlag, DownRead,
     DownStop, DownForced, DownClose, Connect, UpTake, UpSend, UpGiveUp, UpLeave, MayLoop,
     UpReaderClose, CloseWait, ReaderFlag, FreeSlot, DownSend, DownLeave, DownReaderClose
<1>2. UNCHANGED owner
  BY <1>1 DEF WriterFlag, ReaderFlag
<1>3. \E t \in {"uw", "ur"} : PutIn(c, "exitFlag", P(c).exitFlag \union {t})
  BY <1>0, <1>1, FieldDoes DEF WriterFlag, ReaderFlag, Tasks
<1>4. Q(c, "down")' = Q(c, "down") /\ Q(c, "up")' \in {Q(c, "up"), "gone"}
  <2>1. CASE UNCHANGED queue
    BY <1>0, <2>1 DEF Q
  <2>2. CASE queue' = [queue EXCEPT ![slotOf[c]]["up"] = "gone"]
    BY <1>0, <2>2, QueueDoes DEF Dirs, QueueStates
  <2>. QED  BY <1>1, <2>1, <2>2 DEF WriterFlag, ReaderFlag, DirOf
<1>. QED  BY <1>1, <1>2, <1>3, <1>4 DEF PutIn

-----------------------------------------------------------------------------
(* Descriptors stay with their connections.                                 *)

(* The sockets of another connection are not touched.                       *)
LEMMA OtherSockets ==
  ASSUME Typed, Always, NEW c \in Conns, slotOf[c] \in Slots, TaskStep(c),
         NEW b \in Conns, b # c, Current(b)
  PROVE  P(b)'["server_sid"] = P(b)["server_sid"] /\ P(b)'["client_sid"] = P(b)["client_sid"]
<1>0. Frame(c) /\ slotOf[b] \in Slots
  BY FrameStep DEF Current, Typed, TaskTyped
<1>1. CASE slotOf[b] # slotOf[c]
  BY <1>0, <1>1 DEF Frame, P
<1>2. CASE slotOf[b] = slotOf[c]
  <2>1. Over(c)
    <3>1. slotOf[c] # -1 /\ SlotRule(c)
      BY ConstFacts DEF Always
    <3>2. ~Current(c)
      BY <1>2, OneCurrent
    <3>. QED  BY <3>1, <3>2 DEF SlotRule
  <2>2. P(c)'["server_sid"] = P(c)["server_sid"] /\ P(c)'["client_sid"] = P(c)["client_sid"]
    BY <2>1, OverStep DEF Fields
  <2>. QED  BY <1>0, <1>2, <2>2 DEF Frame, P
<1>. QED  BY <1>1, <1>2

(* The four ways a step treats the sockets.                                 *)
ClosesServer(c) ==
  /\ owner' = Released(P(c).server_sid) /\ PutIn(c, "server_sid", NoSid)
  /\ pc'[c].ur = pc[c].ur
ClosesClient(c) ==
  /\ owner' = Released(P(c).client_sid) /\ PutIn(c, "client_sid", NoSid)
Connects(c) ==
  /\ pc[c].ur \in {"connect", "reconnect"} /\ pc'[c].ur \in {"run", "send"}
  /\ \/ /\ LowestUnused \in Descriptors /\ owner[LowestUnused] = Free
        /\ owner' = [owner EXCEPT ![LowestUnused] = <<c, "remote">>]
        /\ PutIn(c, "client_sid", LowestUnused)
     \/ /\ env.fails /\ UNCHANGED owner /\ PutIn(c, "client_sid", Failed)
KeepsSockets(c) ==
  /\ UNCHANGED owner
  /\ P(c)'["server_sid"] = P(c)["server_sid"] /\ P(c)'["client_sid"] = P(c)["client_sid"]
  /\ \/ pc'[c].ur \notin {"none", "ready", "connect", "reconnect"}
     \/ pc[c].ur \in {"none", "ready", "connect", "reconnect"}
     \/ P(c).client_sid < 0

LEMMA SocketMoves ==
  ASSUME Typed, Always, NEW c \in Conns, slotOf[c] \in Slots, TaskStep(c)
  PROVE  \/ ClosesServer(c) /\ (UpClose(c) \/ DownReaderClose(c))
         \/ ClosesClient(c) /\ (DownClose(c) \/ UpGiveUp(c) \/ UpReaderClose(c))
         \/ Connects(c) /\ Connect(c)
         \/ /\ KeepsSockets(c) /\ ~UpClose(c) /\ ~DownReaderClose(c) /\ ~DownClose(c)
            /\ ~UpGiveUp(c) /\ ~UpReaderClose(c) /\ ~Connect(c)
<1>0. slotOf' = slotOf /\ NoSid \in Sids /\ Failed \in Sids
  BY FrameStep DEF Frame, Sids
<1>1. CASE UpClose(c) \/ DownReaderClose(c)
  <2>1. pc'[c].ur = pc[c].ur
    BY <1>1, TaskMoves DEF Uw, Dr
  <2>. QED  BY <1>0, <1>1, <2>1, FieldDoes DEF UpClose, DownReaderClose, ClosesServer
<1>2. CASE DownClose(c) \/ UpGiveUp(c) \/ UpReaderClose(c)
  BY <1>0, <1>2, FieldDoes DEF DownClose, UpGiveUp, UpReaderClose, ClosesClient
<1>3. CASE Connect(c)
  <2>1. pc[c].ur \in {"connect", "reconnect"} /\ pc'[c].ur \in {"run", "send"}
    BY <1>3, GotoDoes DEF Connect, Moved, Tasks, Labels
  <2>2. LowestUnused \in Descriptors /\ owner[LowestUnused] = Free
    BY <2>1, ConnectFree
  <2>3. LowestUnused \in Sids
    BY <2>2 DEF Sids
  <2>. QED  BY <1>0, <1>3, <2>1, <2>2, <2>3, FieldDoes DEF Connect, Connects
<1>4. CASE /\ ~UpClose(c) /\ ~DownReaderClose(c) /\ ~DownClose(c)
           /\ ~UpGiveUp(c) /\ ~UpReaderClose(c) /\ ~Connect(c)
  <2>1. Kept(c, "server_sid") /\ Kept(c, "client_sid")
    BY <1>4, FieldsOf DEF FieldMoves
  <2>2. UNCHANGED owner
    BY <1>4 DEF TaskStep, Uw, Ur, Dw, Dr, Begin, UpRead, UpForced, WriterFlag, DownRead,
     DownStop, DownForced, UpTake, UpSend, UpLeave, CloseWait, ReaderFlag, FreeSlot,
     DownSend, DownLeave
  <2>3. \/ pc'[c].ur = pc[c].ur
        \/ UrMoves(c)
    BY TaskMoves DEF TaskStep
  <2>4. pc'[c].ur \in Labels
    BY TypedStep DEF Typed, TaskTyped, Tasks
  <2>. QED  BY <1>4, <2>1, <2>2, <2>3, <2>4 DEF KeepsSockets, Kept, UrMoves, Last, Labels
<1>. QED  BY <1>1, <1>2, <1>3, <1>4

LEMMA NotFree ==
  ASSUME NEW b \in Conns, NEW e
  PROVE  <<b, e>> # Free
BY ConstFacts DEF Conns, Free

(* A step moves no descriptor from one connection to another.               *)
LEMMA OwnersStay ==
  ASSUME Typed, Always, NEW c \in Conns, slotOf[c] \in Slots, TaskStep(c),
         NEW b \in Conns, NEW e, NEW f \in Descriptors, owner'[f] = <<b, e>>
  PROVE  owner[f] = <<b, e>> \/ (Connects(c) /\ b = c /\ e = "remote")
<1>1. CASE \E x : owner' = Released(x)
  BY <1>1, ReleaseDoes, NotFree
<1>2. CASE Connects(c)
  <2>1. owner \in [Descriptors -> {Free} \union (Conns \X Ends)]
    BY DEF Typed, SlotTyped
  <2>. QED  BY <1>2, <2>1 DEF Connects
<1>3. CASE UNCHANGED owner
  BY <1>3
<1>. QED  BY <1>1, <1>2, <1>3, SocketMoves DEF ClosesServer, ClosesClient, KeepsSockets

LEMMA OwnedStep ==
  ASSUME Typed, Always, NEW c \in Conns, slotOf[c] \in Slots, TaskStep(c), NEW b \in Conns
  PROVE  Owned(b)'
<1>0. Frame(c) /\ Owned(b) /\ Kind(b) /\ SlotRule(b)
  BY FrameStep DEF Always
<1>1. /\ Current(b)' = Current(b) /\ Filling' = Filling /\ cur' = cur /\ last' = last
  BY <1>0 DEF Frame, Current, Filling
<1>2. CASE b # c
  <2>1. pc'[b] = pc[b]
    BY <1>0, <1>2 DEF Frame
  <2>2. \A f \in Descriptors, e \in Ends : owner'[f] = <<b, e>> => owner[f] = <<b, e>>
    BY <1>2, OwnersStay
  <2>3. Current(b) => /\ P(b)'["server_sid"] = P(b)["server_sid"]
                      /\ P(b)'["client_sid"] = P(b)["client_sid"]
    BY <1>2, OtherSockets
  <2>. QED  BY <1>0, <1>1, <2>1, <2>2, <2>3 DEF Owned, Ends
<1>3. CASE b = c
  <2>1. CASE ClosesServer(c)
    <3>0. ~Connects(c)
      BY <2>1 DEF ClosesServer, Connects
    <3>1. \A f \in Descriptors : owner'[f] = <<c, "client">> => f # P(c).server_sid
      BY <2>1, ReleaseDoes, NotFree DEF ClosesServer
    <3>2. \A f \in Descriptors, e \in Ends : owner'[f] = <<b, e>> => owner[f] = <<b, e>>
      BY <2>1, OwnersStay, <1>3, <3>0 DEF Ends
    <3>3. P(c)'["client_sid"] = P(c)["client_sid"]
      BY <2>1 DEF ClosesServer, PutIn, Fields
    <3>. QED  BY <1>0, <1>1, <1>3, <2>1, <3>1, <3>2, <3>3 DEF Owned, Ends, ClosesServer
  <2>2. CASE ClosesClient(c)
    <3>1. \A f \in Descriptors : owner'[f] = <<c, "remote">> => f # P(c).client_sid
      BY <2>2, ReleaseDoes, NotFree DEF ClosesClient
    <3>2. \A f \in Descriptors, e \in Ends : owner'[f] = <<b, e>> => owner[f] = <<b, e>>
      BY <2>2, ReleaseDoes, NotFree DEF ClosesClient
    <3>3. P(c)'["server_sid"] = P(c)["server_sid"] /\ P(c)'["client_sid"] = NoSid
      BY <2>2 DEF ClosesClient, PutIn, Fields
    <3>. QED  BY <1>0, <1>1, <1>3, <3>1, <3>2, <3>3 DEF Owned, Ends, NoSid
  <2>3. CASE Connects(c)
    <3>1. owner \in [Descriptors -> {Free} \union (Conns \X Ends)]
      BY DEF Typed, SlotTyped
    <3>2. P(c)'["server_sid"] = P(c)["server_sid"]
      BY <2>3 DEF Connects, PutIn, Fields
    <3>3. \A f \in Descriptors : owner'[f] = <<c, "client">> => owner[f] = <<c, "client">>
      BY <2>3, <3>1 DEF Connects
    <3>4. \A f \in Descriptors : owner[f] # <<c, "remote">>
      BY <1>0, <1>3, <2>3, ConstFacts DEF Owned, Connects
    <3>5. Current(c)
      BY <1>0, <1>3, <2>3, HasSlot DEF Connects, Over, Tasks
    <3>6. \A f \in Descriptors : owner'[f] = <<c, "remote">> => f = P(c)'["client_sid"]
      BY <2>3, <3>1, <3>4 DEF Connects, PutIn
    <3>7. pc'[c].ur \in {"run", "send"}
      BY <2>3 DEF Connects
    <3>. QED  BY <1>0, <1>1, <1>3, <3>2, <3>3, <3>5, <3>6, <3>7 DEF Owned
  <2>4. CASE KeepsSockets(c)
    BY <1>0, <1>1, <1>3, <2>4 DEF KeepsSockets, Owned
  <2>. QED  BY <2>1, <2>2, <2>3, <2>4, SocketMoves
<1>. QED  BY <1>2, <1>3

LEMMA AlwaysTask ==
  ASSUME Typed, Always, NEW c \in Conns, slotOf[c] \in Slots, TaskStep(c)
  PROVE  Always'
<1>0. /\ Frame(c) /\ MainRules /\ FieldMoves(c) /\ -1 \notin Slots
      /\ \A b \in Conns : Kind(b) /\ SlotRule(b) /\ Current(b)' = Current(b)
  BY FrameStep, FieldsOf, ConstFacts DEF Always, Frame, Current
<1>1. ASSUME NEW b \in Conns PROVE Kind(b)' /\ (Over(b) => Over(b)')
  <2>1. CASE b = c
    BY <1>0, <2>1, KindStep
  <2>2. CASE b # c
    <3>1. UNCHANGED <<env, pc[b], read[b], sent[b], lost[b]>>
      BY <1>0, <2>2 DEF Frame
    <3>. QED  BY <1>0, <3>1 DEF Kind, Over, Tcp, ToRemote, Pending
  <2>. QED  BY <2>1, <2>2
<1>2. ASSUME NEW b \in Conns PROVE SlotRule(b)'
  <2>1. CASE b = c
    BY <1>0, <1>1, <2>1 DEF SlotRule, Frame
  <2>2. CASE b # c
    <3>1. UNCHANGED <<slotOf, pc[b], read[b], sent[b], lost[b]>>
      BY <1>0, <2>2 DEF Frame
    <3>. QED  BY <1>0, <1>1, <3>1 DEF SlotRule
  <2>. QED  BY <2>1, <2>2
<1>3. MainRules'
  <2>1. UNCHANGED <<slotOf, mpc, idx, cur>>
    BY <1>0 DEF Frame
  <2>2. mpc = "create" => pc'[cur].uw = "none"
    <3> SUFFICES ASSUME mpc = "create" PROVE pc'[cur].uw = "none"
      OBVIOUS
    <3>1. cur \in Conns /\ pc[cur].uw = "none"
      BY <1>0 DEF MainRules
    <3>2. pc[c].uw # "none"
      <4>1. \E t \in Tasks : pc[c][t] # "none"
        BY DEF TaskStep, Uw, Ur, Dw, Dr, Begin, UpRead, UpForced, UpClose, WriterFlag, DownRead,
         DownStop, DownForced, DownClose, Connect, UpTake, UpSend, UpGiveUp, UpLeave, MayLoop,
         UpReaderClose, CloseWait, ReaderFlag, FreeSlot, DownSend, DownLeave, DownReaderClose,
         Tasks
      <4>. QED  BY <1>0, <4>1, HasSlot
    <3>. QED  BY <1>0, <3>1, <3>2 DEF Frame
  <2>3. mpc = "fill" => para'[idx].usedflag = 0
    <3> SUFFICES ASSUME mpc = "fill" PROVE para'[idx].usedflag = 0
      OBVIOUS
    <3>1. para[idx].usedflag = 0 /\ idx \in Slots
      BY <1>0 DEF MainRules, Typed, MainTyped
    <3>2. CASE idx = slotOf[c]
      BY <1>0, <2>1, <3>1, <3>2 DEF FieldMoves, Kept, P
    <3>3. CASE idx # slotOf[c]
      BY <1>0, <3>1, <3>3 DEF Frame
    <3>. QED  BY <3>2, <3>3
  <2>. QED  BY <1>0, <2>1, <2>2, <2>3 DEF MainRules, Filling
<1>. QED  BY <1>1, <1>2, <1>3, OwnedStep DEF Always

-----------------------------------------------------------------------------
(* What each step of a task does to its own session.                        *)

RecordKept(c) == P(c)' = P(c)
QueuesKept(c) == Q(c, "up")' = Q(c, "up") /\ Q(c, "down")' = Q(c, "down")
FlowKept(c) == read'[c] = read[c] /\ sent'[c] = sent[c] /\ lost'[c] = lost[c]
TasksKept(c) == pc'[c] = pc[c]

LEMMA UwFacts ==
  ASSUME Typed, NEW c \in Conns, slotOf[c] \in Slots
  PROVE  /\ Begin(c, "uw") => /\ Moved(c, "uw", "run") /\ pc[c].uw = "ready" /\ RecordKept(c) /\ QueuesKept(c)
                              /\ FlowKept(c) /\ UNCHANGED owner
         /\ UpRead(c) => /\ \/ /\ TasksKept(c) /\ QueuesKept(c)
                               /\ P(c).stop_flag = 0 /\ MayRead(c, "up")
                               /\ Counted(read, c, "up")
                            \/ /\ Moved(c, "uw", UpExit) /\ Q(c, "up")' = "ended"
                               /\ Q(c, "down")' = Q(c, "down")
                               /\ \/ P(c).stop_flag = 1 \/ AtEnd(c, "up")
                                  \/ ~Owns(c, "client", P(c).server_sid)
                               /\ read'[c] = read[c]
                         /\ pc[c].uw = "run"
                         /\ RecordKept(c) /\ UNCHANGED <<owner, sent, lost>>
         /\ UpForced(c) => P(c).shutdown = 1
         /\ UpClose(c) => /\ Moved(c, "uw", "flag") /\ PutIn(c, "server_sid", NoSid)
                          /\ pc[c].uw = "close" /\ QueuesKept(c) /\ FlowKept(c)
                          /\ owner' = Released(P(c).server_sid)
         /\ WriterFlag(c, "uw") => /\ Moved(c, "uw", "done") /\ QueuesKept(c) /\ FlowKept(c)
                                   /\ pc[c].uw = "flag"
                                   /\ PutIn(c, "exitFlag", P(c).exitFlag \union {"uw"})
                                   /\ UNCHANGED owner
<1>0. ASSUME NEW t \in Tasks, NEW l \in Labels, Goto(c, t, l) PROVE Moved(c, t, l)
  BY <1>0, GotoDoes
<1>1. ASSUME Begin(c, "uw")
      PROVE  /\ Moved(c, "uw", "run") /\ pc[c].uw = "ready" /\ RecordKept(c) /\ QueuesKept(c)
             /\ FlowKept(c) /\ UNCHANGED owner
  BY <1>0, <1>1 DEF Begin, RecordKept, QueuesKept, FlowKept, P, Q, Tasks, Labels, flowv
<1>2. ASSUME UpRead(c)
      PROVE  /\ \/ /\ TasksKept(c) /\ QueuesKept(c)
                   /\ P(c).stop_flag = 0 /\ MayRead(c, "up")
                   /\ Counted(read, c, "up")
                \/ /\ Moved(c, "uw", UpExit) /\ Q(c, "up")' = "ended"
                   /\ Q(c, "down")' = Q(c, "down")
                   /\ \/ P(c).stop_flag = 1 \/ AtEnd(c, "up")
                      \/ ~Owns(c, "client", P(c).server_sid)
                   /\ read'[c] = read[c]
             /\ pc[c].uw = "run"
             /\ RecordKept(c) /\ UNCHANGED <<owner, sent, lost>>
  <2>1. pc[c].uw = "run" /\ RecordKept(c) /\ UNCHANGED <<owner, sent, lost>> /\ slotOf' = slotOf
    BY <1>2 DEF UpRead, MayLoop, RecordKept, P
  <2>2. UpExit \in Labels /\ "ended" \in QueueStates /\ "up" \in Dirs
    BY DEF UpExit, Labels, QueueStates, Dirs
  <2>3. CASE /\ P(c).stop_flag = 0 /\ MayRead(c, "up")
             /\ read' = Count(read, c, "up") /\ UNCHANGED <<queue, pc>>
    <3>1. UNCHANGED <<env, given, closed, sent, lost>> /\ Pending(c, "up") < Capacity
      BY <1>2 DEF UpRead, peerv
    <3>2. Counted(read, c, "up")
      BY <2>2, <2>3, <3>1, ReadOne
    <3>. QED  BY <2>1, <2>3, <3>2 DEF TasksKept, QueuesKept, Q
  <2>4. CASE /\ \/ P(c).stop_flag = 1 \/ AtEnd(c, "up")
                \/ ~Owns(c, "client", P(c).server_sid)
             /\ UpEnd(c) /\ Leave(c, "uw", UpExit) /\ UNCHANGED read
    <3>1. Moved(c, "uw", UpExit)
      BY <1>0, <2>2, <2>4 DEF Leave, Tasks
    <3>2. Q(c, "up")' = "ended" /\ Q(c, "down")' = Q(c, "down")
      <4>1. queue' = [queue EXCEPT ![slotOf[c]]["up"] = "ended"]
        BY <2>4 DEF UpEnd
      <4>. QED  BY <2>1, <2>2, <4>1, QueueDoes DEF Dirs
    <3>. QED  BY <2>1, <2>4, <3>1, <3>2
  <2>. QED  BY <1>2, <2>3, <2>4 DEF UpRead
<1>3. ASSUME UpClose(c)
      PROVE  /\ Moved(c, "uw", "flag") /\ PutIn(c, "server_sid", NoSid)
             /\ pc[c].uw = "close" /\ QueuesKept(c) /\ FlowKept(c)
             /\ owner' = Released(P(c).server_sid)
  BY <1>0, <1>3, FieldDoes DEF UpClose, QueuesKept, FlowKept, Q, Tasks, Labels, flowv
<1>4. ASSUME WriterFlag(c, "uw")
      PROVE  /\ Moved(c, "uw", "done") /\ QueuesKept(c) /\ FlowKept(c) /\ pc[c].uw = "flag"
             /\ PutIn(c, "exitFlag", P(c).exitFlag \union {"uw"}) /\ UNCHANGED owner
  BY <1>0, <1>4, FieldDoes DEF WriterFlag, QueuesKept, FlowKept, Q, Tasks, Labels, flowv
<1>5. UpForced(c) => P(c).shutdown = 1
  BY DEF UpForced
<1>. QED  BY <1>1, <1>2, <1>3, <1>4, <1>5

LEMMA UrFacts ==
  ASSUME Typed, NEW c \in Conns, slotOf[c] \in Slots, Kind(c)
  PROVE  /\ Begin(c, "ur") => /\ Moved(c, "ur", "connect") /\ pc[c].ur = "ready"
                              /\ RecordKept(c) /\ QueuesKept(c)
                              /\ FlowKept(c) /\ UNCHANGED owner
         /\ Connect(c) => /\ Moved(c, "ur", IF pc[c].ur = "connect" THEN "run" ELSE "send")
                          /\ pc[c].ur \in {"connect", "reconnect"}
                          /\ \A g \in Fields : g # "client_sid" => P(c)'[g] = P(c)[g]
                          /\ QueuesKept(c) /\ FlowKept(c)
         /\ UpTake(c) => /\ Moved(c, "ur", IF P(c).client_sid < 0 THEN "reconnect" ELSE "send")
                         /\ pc[c].ur = "run" /\ RecordKept(c) /\ QueuesKept(c)
                         /\ FlowKept(c) /\ UNCHANGED owner
         /\ UpSend(c) => /\ Moved(c, "ur", "run") /\ pc[c].ur = "send"
                         /\ RecordKept(c) /\ QueuesKept(c) /\ UNCHANGED <<owner, read>>
                         /\ \/ Counted(sent, c, "up") /\ lost' = lost
                            \/ UNCHANGED <<sent, lost>>
                            \/ /\ Counted(lost, c, "up") /\ sent' = sent /\ Tcp
                               /\ \/ ~Owns(c, "remote", P(c).client_sid)
                                  \/ "remote" \in closed[c] \/ env.fails
         /\ UpGiveUp(c) => /\ Moved(c, "ur", "run") /\ pc[c].ur = "send" /\ ~Tcp
                           /\ PutIn(c, "client_sid", NoSid) /\ QueuesKept(c)
                           /\ owner' = Released(P(c).client_sid)
                           /\ Counted(lost, c, "up") /\ UNCHANGED <<read, sent>>
                           /\ env.fails \/ ~Owns(c, "remote", P(c).client_sid)
         /\ UpLeave(c) => /\ Moved(c, "ur", IF ToRemote = "UDP" THEN "close" ELSE "closewait")
                          /\ pc[c].ur = "run" /\ RecordKept(c) /\ QueuesKept(c)
                          /\ FlowKept(c) /\ UNCHANGED owner
                          /\ \/ P(c).shutdown = 1
                             \/ Pending(c, "up") = 0 /\ Q(c, "up") = "ended"
         /\ UpReaderClose(c) => /\ Moved(c, "ur", "closewait") /\ pc[c].ur = "close"
                                /\ PutIn(c, "client_sid", NoSid) /\ QueuesKept(c)
                                /\ owner' = Released(P(c).client_sid) /\ FlowKept(c)
         /\ CloseWait(c) => /\ Moved(c, "ur", "wait") /\ pc[c].ur = "closewait"
                            /\ PutIn(c, "client_closewaite", 1) /\ QueuesKept(c)
                            /\ FlowKept(c) /\ UNCHANGED owner
         /\ ReaderFlag(c, "ur") => /\ Moved(c, "ur", IF Last("ur") THEN "free" ELSE "done")
                                   /\ pc[c].ur = "wait" /\ "uw" \in P(c).exitFlag
                                   /\ PutIn(c, "exitFlag", P(c).exitFlag \union {"ur"})
                                   /\ Q(c, "up")' = "gone" /\ Q(c, "down")' = Q(c, "down")
                                   /\ FlowKept(c) /\ UNCHANGED owner
         /\ FreeSlot(c, "ur") => /\ Moved(c, "ur", "done") /\ pc[c].ur = "free"
                                 /\ PutIn(c, "usedflag", 0) /\ QueuesKept(c)
                                 /\ FlowKept(c) /\ UNCHANGED owner
<1>0. /\ \A t \in Tasks, l \in Labels : Goto(c, t, l) => Moved(c, t, l)
      /\ "ur" \in Tasks /\ "uw" \in Tasks /\ "up" \in Dirs /\ 0 \in 0..1 /\ 1 \in 0..1
      /\ NoSid \in Sids
  BY GotoDoes DEF Tasks, Dirs, Sids
<1>1. ASSUME Begin(c, "ur")
      PROVE  /\ Moved(c, "ur", "connect") /\ pc[c].ur = "ready" /\ RecordKept(c)
             /\ QueuesKept(c) /\ FlowKept(c) /\ UNCHANGED owner
  BY <1>0, <1>1 DEF Begin, RecordKept, QueuesKept, FlowKept, P, Q, Labels, flowv
<1>2. ASSUME Connect(c)
      PROVE  /\ Moved(c, "ur", IF pc[c].ur = "connect" THEN "run" ELSE "send")
             /\ \A g \in Fields : g # "client_sid" => P(c)'[g] = P(c)[g]
             /\ pc[c].ur \in {"connect", "reconnect"} /\ QueuesKept(c) /\ FlowKept(c)
  <2>1. PICK v : para' = [para EXCEPT ![slotOf[c]].client_sid = v]
    BY <1>2 DEF Connect
  <2>2. \A g \in Fields : g # "client_sid" => P(c)'[g] = P(c)[g]
    BY <1>2, <2>1 DEF Connect, Typed, SlotTyped, SlotRecord, P, Fields
  <2>. QED  BY <1>0, <1>2, <2>2 DEF Connect, QueuesKept, FlowKept, Q, Labels, flowv
<1>3. ASSUME UpTake(c)
      PROVE  /\ Moved(c, "ur", IF P(c).client_sid < 0 THEN "reconnect" ELSE "send")
             /\ pc[c].ur = "run" /\ RecordKept(c) /\ QueuesKept(c)
             /\ FlowKept(c) /\ UNCHANGED owner
  BY <1>0, <1>3 DEF UpTake, MayLoop, RecordKept, QueuesKept, FlowKept, P, Q, Labels, flowv
<1>4. ASSUME UpSend(c)
      PROVE  /\ Moved(c, "ur", "run") /\ pc[c].ur = "send"
             /\ RecordKept(c) /\ QueuesKept(c) /\ UNCHANGED <<owner, read>>
             /\ \/ Counted(sent, c, "up") /\ lost' = lost
                \/ UNCHANGED <<sent, lost>>
                \/ /\ Counted(lost, c, "up") /\ sent' = sent /\ Tcp
                   /\ \/ ~Owns(c, "remote", P(c).client_sid)
                      \/ "remote" \in closed[c] \/ env.fails
  <2>1. /\ Moved(c, "ur", "run") /\ pc[c].ur = "send"
        /\ RecordKept(c) /\ QueuesKept(c) /\ UNCHANGED <<owner, read>>
    BY <1>0, <1>4 DEF UpSend, RecordKept, QueuesKept, P, Q, Labels
  <2>2. \/ sent' = Count(sent, c, "up") /\ lost' = lost
        \/ UNCHANGED <<sent, lost>>
        \/ /\ lost' = Count(lost, c, "up") /\ sent' = sent /\ Tcp
           /\ \/ ~Owns(c, "remote", P(c).client_sid)
              \/ "remote" \in closed[c] \/ env.fails
    BY <1>4 DEF UpSend, Repeat, Tcp
  <2>3. ASSUME sent' = Count(sent, c, "up") PROVE Counted(sent, c, "up")
    <3>1. sent \in [Conns -> [Dirs -> Nat]]
      BY ConstFacts DEF Typed, FlowTyped
    <3>. QED  BY <1>0, <2>3, <3>1 DEF Count, Counted
  <2>4. ASSUME lost' = Count(lost, c, "up") PROVE Counted(lost, c, "up")
    <3>1. lost \in [Conns -> [Dirs -> Nat]]
      BY ConstFacts DEF Typed, FlowTyped
    <3>. QED  BY <1>0, <2>4, <3>1 DEF Count, Counted
  <2>. QED  BY <2>1, <2>2, <2>3, <2>4
<1>5. ASSUME UpGiveUp(c)
      PROVE  /\ Moved(c, "ur", "run") /\ pc[c].ur = "send" /\ ~Tcp
             /\ PutIn(c, "client_sid", NoSid) /\ QueuesKept(c)
             /\ owner' = Released(P(c).client_sid)
             /\ Counted(lost, c, "up") /\ UNCHANGED <<read, sent>>
             /\ env.fails \/ ~Owns(c, "remote", P(c).client_sid)
  <2>1. slotOf' = slotOf /\ ToRemote = "UDP" /\ lost' = Count(lost, c, "up")
    BY <1>5 DEF UpGiveUp
  <2>2. PutIn(c, "client_sid", NoSid)
    BY <1>0, <1>5, <2>1, FieldDoes DEF UpGiveUp
  <2>3. Counted(lost, c, "up")
    <3>1. lost \in [Conns -> [Dirs -> Nat]]
      BY ConstFacts DEF Typed, FlowTyped
    <3>. QED  BY <1>0, <2>1, <3>1 DEF Count, Counted
  <2>. QED  BY <1>0, <1>5, <2>1, <2>2, <2>3 DEF UpGiveUp, QueuesKept, Q, Labels, Tcp
<1>6. ASSUME UpLeave(c)
      PROVE  /\ Moved(c, "ur", IF ToRemote = "UDP" THEN "close" ELSE "closewait")
             /\ pc[c].ur = "run" /\ RecordKept(c) /\ QueuesKept(c)
             /\ FlowKept(c) /\ UNCHANGED owner
             /\ \/ P(c).shutdown = 1
                \/ Pending(c, "up") = 0 /\ Q(c, "up") = "ended"
  BY <1>0, <1>6 DEF UpLeave, Leave, RecordKept, QueuesKept, FlowKept, P, Q, Labels, flowv
<1>7. ASSUME UpReaderClose(c)
      PROVE  /\ Moved(c, "ur", "closewait") /\ pc[c].ur = "close"
             /\ PutIn(c, "client_sid", NoSid) /\ QueuesKept(c)
             /\ owner' = Released(P(c).client_sid) /\ FlowKept(c)
  BY <1>0, <1>7, FieldDoes DEF UpReaderClose, QueuesKept, FlowKept, Q, Labels, flowv
<1>8. ASSUME CloseWait(c)
      PROVE  /\ Moved(c, "ur", "wait") /\ pc[c].ur = "closewait"
             /\ PutIn(c, "client_closewaite", 1) /\ QueuesKept(c)
             /\ FlowKept(c) /\ UNCHANGED owner
  BY <1>0, <1>8, FieldDoes DEF CloseWait, QueuesKept, FlowKept, Q, Labels, flowv
<1>9. ASSUME ReaderFlag(c, "ur")
      PROVE  /\ Moved(c, "ur", IF Last("ur") THEN "free" ELSE "done")
             /\ pc[c].ur = "wait" /\ "uw" \in P(c).exitFlag
             /\ PutIn(c, "exitFlag", P(c).exitFlag \union {"ur"})
             /\ Q(c, "up")' = "gone" /\ Q(c, "down")' = Q(c, "down")
             /\ FlowKept(c) /\ UNCHANGED owner
  <2>1. queue' = [queue EXCEPT ![slotOf[c]]["up"] = "gone"] /\ slotOf' = slotOf
    BY <1>9 DEF ReaderFlag, DirOf
  <2>2. Q(c, "up")' = "gone" /\ Q(c, "down")' = Q(c, "down")
    BY <1>0, <2>1, QueueDoes DEF Dirs, QueueStates
  <2>3. PutIn(c, "exitFlag", P(c).exitFlag \union {"ur"})
    BY <1>0, <1>9, <2>1, FieldDoes DEF ReaderFlag
  <2>. QED  BY <1>0, <1>9, <2>2, <2>3 DEF ReaderFlag, WriterOf, FlowKept, Labels, flowv
<1>10. ASSUME FreeSlot(c, "ur")
       PROVE  /\ Moved(c, "ur", "done") /\ pc[c].ur = "free"
              /\ PutIn(c, "usedflag", 0) /\ QueuesKept(c)
              /\ FlowKept(c) /\ UNCHANGED owner
  BY <1>0, <1>10, FieldDoes DEF FreeSlot, QueuesKept, FlowKept, Q, Labels, flowv
<1>. QED  BY <1>1, <1>2, <1>3, <1>4, <1>5, <1>6, <1>7, <1>8, <1>9, <1>10

LEMMA DwFacts ==
  ASSUME Typed, NEW c \in Conns, slotOf[c] \in Slots
  PROVE  /\ Begin(c, "dw") => /\ Moved(c, "dw", "run") /\ pc[c].dw = "ready"
                              /\ RecordKept(c) /\ QueuesKept(c)
                              /\ FlowKept(c) /\ UNCHANGED owner
         /\ DownStop(c) => /\ Moved(c, "dw", "close") /\ pc[c].dw = "run"
                           /\ P(c).client_closewaite = 1
                           /\ Q(c, "down")' = "ended" /\ Q(c, "up")' = Q(c, "up")
                           /\ RecordKept(c) /\ FlowKept(c) /\ UNCHANGED owner
         /\ DownRead(c) => /\ pc[c].dw = "run" /\ TasksKept(c) /\ QueuesKept(c)
                           /\ UNCHANGED <<owner, sent, lost>>
                           /\ \/ /\ Counted(read, c, "down") /\ MayRead(c, "down")
                                 /\ RecordKept(c)
                              \/ /\ read'[c] = read[c] /\ PutIn(c, "stop_flag", 1)
                                 /\ P(c).client_sid # NoSid
                                 /\ \/ ~Owns(c, "remote", P(c).client_sid)
                                    \/ AtEnd(c, "down")
         /\ DownForced(c) => P(c).shutdown = 1
         /\ DownClose(c) => /\ Moved(c, "dw", "flag") /\ PutIn(c, "client_sid", NoSid)
                            /\ pc[c].dw = "close" /\ QueuesKept(c) /\ FlowKept(c)
                            /\ owner' = Released(P(c).client_sid)
         /\ WriterFlag(c, "dw") => /\ Moved(c, "dw", "done") /\ QueuesKept(c) /\ FlowKept(c)
                                   /\ pc[c].dw = "flag"
                                   /\ PutIn(c, "exitFlag", P(c).exitFlag \union {"dw"})
                                   /\ UNCHANGED owner
<1>0. /\ \A t \in Tasks, l \in Labels : Goto(c, t, l) => Moved(c, t, l)
      /\ "dw" \in Tasks /\ "down" \in Dirs /\ 0 \in 0..1 /\ 1 \in 0..1
      /\ NoSid \in Sids
  BY GotoDoes DEF Tasks, Dirs, Sids
<1>1. ASSUME Begin(c, "dw")
      PROVE  /\ Moved(c, "dw", "run") /\ pc[c].dw = "ready" /\ RecordKept(c)
             /\ QueuesKept(c) /\ FlowKept(c) /\ UNCHANGED owner
  BY <1>0, <1>1 DEF Begin, RecordKept, QueuesKept, FlowKept, P, Q, Labels, flowv
<1>2. ASSUME DownStop(c)
      PROVE  /\ Moved(c, "dw", "close") /\ pc[c].dw = "run" /\ P(c).client_closewaite = 1
             /\ Q(c, "down")' = "ended" /\ Q(c, "up")' = Q(c, "up")
             /\ RecordKept(c) /\ FlowKept(c) /\ UNCHANGED owner
  <2>1. queue' = [queue EXCEPT ![slotOf[c]]["down"] = "ended"] /\ slotOf' = slotOf
    BY <1>2 DEF DownStop, DownEnd
  <2>2. Q(c, "down")' = "ended" /\ Q(c, "up")' = Q(c, "up")
    BY <1>0, <2>1, QueueDoes DEF Dirs, QueueStates
  <2>. QED  BY <1>0, <1>2, <2>2 DEF DownStop, MayLoop, Leave, RecordKept, P, FlowKept, Labels, flowv
<1>3. ASSUME DownRead(c)
      PROVE  /\ pc[c].dw = "run" /\ TasksKept(c) /\ QueuesKept(c)
             /\ UNCHANGED <<owner, sent, lost>>
             /\ \/ Counted(read, c, "down") /\ MayRead(c, "down") /\ RecordKept(c)
                \/ /\ read'[c] = read[c] /\ PutIn(c, "stop_flag", 1)
                   /\ P(c).client_sid # NoSid
                   /\ ~Owns(c, "remote", P(c).client_sid) \/ AtEnd(c, "down")
  <2>1. /\ pc[c].dw = "run" /\ TasksKept(c) /\ QueuesKept(c) /\ slotOf' = slotOf
        /\ UNCHANGED <<owner, sent, lost, env, given, closed>> /\ Pending(c, "down") < Capacity
        /\ P(c).client_sid # NoSid
    BY <1>3 DEF DownRead, MayLoop, TasksKept, QueuesKept, Q, peerv
  <2>2. CASE read' = Count(read, c, "down") /\ MayRead(c, "down") /\ UNCHANGED para
    <3>1. Counted(read, c, "down")
      BY <1>0, <2>1, <2>2, ReadOne
    <3>. QED  BY <2>1, <2>2, <3>1 DEF RecordKept, P
  <2>3. CASE /\ para' = [para EXCEPT ![slotOf[c]].stop_flag = 1] /\ UNCHANGED read
             /\ ~Owns(c, "remote", P(c).client_sid) \/ AtEnd(c, "down")
    BY <1>0, <2>1, <2>3, FieldDoes
  <2>. QED  BY <1>3, <2>2, <2>3 DEF DownRead
<1>4. DownForced(c) => P(c).shutdown = 1
  BY DEF DownForced
<1>5. ASSUME DownClose(c)
      PROVE  /\ Moved(c, "dw", "flag") /\ PutIn(c, "client_sid", NoSid)
             /\ pc[c].dw = "close" /\ QueuesKept(c) /\ FlowKept(c)
             /\ owner' = Released(P(c).client_sid)
  BY <1>0, <1>5, FieldDoes DEF DownClose, QueuesKept, FlowKept, Q, Labels, flowv
<1>6. ASSUME WriterFlag(c, "dw")
      PROVE  /\ Moved(c, "dw", "done") /\ QueuesKept(c) /\ FlowKept(c) /\ pc[c].dw = "flag"
             /\ PutIn(c, "exitFlag", P(c).exitFlag \union {"dw"}) /\ UNCHANGED owner
  BY <1>0, <1>6, FieldDoes DEF WriterFlag, QueuesKept, FlowKept, Q, Labels, flowv
<1>. QED  BY <1>1, <1>2, <1>3, <1>4, <1>5, <1>6

LEMMA DrFacts ==
  ASSUME Typed, NEW c \in Conns, slotOf[c] \in Slots
  PROVE  /\ Begin(c, "dr") => /\ Moved(c, "dr", "run") /\ pc[c].dr = "ready"
                              /\ RecordKept(c) /\ QueuesKept(c)
                              /\ FlowKept(c) /\ UNCHANGED owner
         /\ DownSend(c) => /\ TasksKept(c) /\ pc[c].dr = "run"
                           /\ RecordKept(c) /\ QueuesKept(c) /\ UNCHANGED <<owner, read>>
                           /\ \/ Counted(sent, c, "down") /\ lost' = lost
                              \/ UNCHANGED <<sent, lost>>
                              \/ /\ Counted(lost, c, "down") /\ sent' = sent
                                 /\ \/ ~Owns(c, "client", P(c).server_sid)
                                    \/ "client" \in closed[c] \/ env.fails
         /\ DownLeave(c) => /\ Moved(c, "dr", "close") /\ pc[c].dr = "run"
                            /\ RecordKept(c) /\ QueuesKept(c)
                            /\ FlowKept(c) /\ UNCHANGED owner
                            /\ \/ P(c).shutdown = 1
                               \/ Pending(c, "down") = 0 /\ Q(c, "down") = "ended"
         /\ DownReaderClose(c) => /\ Moved(c, "dr", "wait") /\ pc[c].dr = "close"
                                  /\ PutIn(c, "server_sid", NoSid) /\ QueuesKept(c)
                                  /\ owner' = Released(P(c).server_sid) /\ FlowKept(c)
         /\ ReaderFlag(c, "dr") => /\ Moved(c, "dr", "free")
                                   /\ pc[c].dr = "wait" /\ "dw" \in P(c).exitFlag
                                   /\ PutIn(c, "exitFlag", P(c).exitFlag \union {"dr"})
                                   /\ Q(c, "down")' = "gone" /\ Q(c, "up")' = Q(c, "up")
                                   /\ FlowKept(c) /\ UNCHANGED owner
         /\ FreeSlot(c, "dr") => /\ Moved(c, "dr", "done") /\ pc[c].dr = "free"
                                 /\ PutIn(c, "usedflag", 0) /\ QueuesKept(c)
                                 /\ FlowKept(c) /\ UNCHANGED owner
<1>0. /\ \A t \in Tasks, l \in Labels : Goto(c, t, l) => Moved(c, t, l)
      /\ "dr" \in Tasks /\ "down" \in Dirs /\ 0 \in 0..1 /\ 1 \in 0..1
  BY GotoDoes DEF Tasks, Dirs
<1>1. ASSUME Begin(c, "dr")
      PROVE  /\ Moved(c, "dr", "run") /\ pc[c].dr = "ready" /\ RecordKept(c)
             /\ QueuesKept(c) /\ FlowKept(c) /\ UNCHANGED owner
  BY <1>0, <1>1 DEF Begin, RecordKept, QueuesKept, FlowKept, P, Q, Labels, flowv
<1>2. ASSUME DownSend(c)
      PROVE  /\ TasksKept(c) /\ pc[c].dr = "run"
             /\ RecordKept(c) /\ QueuesKept(c) /\ UNCHANGED <<owner, read>>
             /\ \/ Counted(sent, c, "down") /\ lost' = lost
                \/ UNCHANGED <<sent, lost>>
                \/ /\ Counted(lost, c, "down") /\ sent' = sent
                   /\ \/ ~Owns(c, "client", P(c).server_sid)
                      \/ "client" \in closed[c] \/ env.fails
  <2>1. /\ TasksKept(c) /\ pc[c].dr = "run"
        /\ RecordKept(c) /\ QueuesKept(c) /\ UNCHANGED <<owner, read>>
    BY <1>2 DEF DownSend, MayLoop, TasksKept, RecordKept, QueuesKept, P, Q
  <2>2. \/ sent' = Count(sent, c, "down") /\ lost' = lost
        \/ UNCHANGED <<sent, lost>>
        \/ /\ lost' = Count(lost, c, "down") /\ sent' = sent
           /\ \/ ~Owns(c, "client", P(c).server_sid)
              \/ "client" \in closed[c] \/ env.fails
    BY <1>2 DEF DownSend, Repeat
  <2>3. ASSUME sent' = Count(sent, c, "down") PROVE Counted(sent, c, "down")
    <3>1. sent \in [Conns -> [Dirs -> Nat]]
      BY ConstFacts DEF Typed, FlowTyped
    <3>. QED  BY <1>0, <2>3, <3>1 DEF Count, Counted
  <2>4. ASSUME lost' = Count(lost, c, "down") PROVE Counted(lost, c, "down")
    <3>1. lost \in [Conns -> [Dirs -> Nat]]
      BY ConstFacts DEF Typed, FlowTyped
    <3>. QED  BY <1>0, <2>4, <3>1 DEF Count, Counted
  <2>. QED  BY <2>1, <2>2, <2>3, <2>4
<1>3. ASSUME DownLeave(c)
      PROVE  /\ Moved(c, "dr", "close") /\ pc[c].dr = "run" /\ RecordKept(c) /\ QueuesKept(c)
             /\ FlowKept(c) /\ UNCHANGED owner
             /\ \/ P(c).shutdown = 1
                \/ Pending(c, "down") = 0 /\ Q(c, "down") = "ended"
  BY <1>0, <1>3 DEF DownLeave, Leave, RecordKept, QueuesKept, FlowKept, P, Q, Labels, flowv
<1>4. ASSUME DownReaderClose(c)
      PROVE  /\ Moved(c, "dr", "wait") /\ pc[c].dr = "close"
             /\ PutIn(c, "server_sid", NoSid) /\ QueuesKept(c)
             /\ owner' = Released(P(c).server_sid) /\ FlowKept(c)
  BY <1>0, <1>4, FieldDoes DEF DownReaderClose, QueuesKept, FlowKept, Q, Labels, flowv
<1>5. ASSUME ReaderFlag(c, "dr")
      PROVE  /\ Moved(c, "dr", "free") /\ pc[c].dr = "wait" /\ "dw" \in P(c).exitFlag
             /\ PutIn(c, "exitFlag", P(c).exitFlag \union {"dr"})
             /\ Q(c, "down")' = "gone" /\ Q(c, "up")' = Q(c, "up")
             /\ FlowKept(c) /\ UNCHANGED owner
  <2>1. queue' = [queue EXCEPT ![slotOf[c]]["down"] = "gone"] /\ slotOf' = slotOf
    BY <1>5 DEF ReaderFlag, DirOf
  <2>2. Q(c, "down")' = "gone" /\ Q(c, "up")' = Q(c, "up")
    BY <1>0, <2>1, QueueDoes DEF Dirs, QueueStates
  <2>3. PutIn(c, "exitFlag", P(c).exitFlag \union {"dr"})
    BY <1>0, <1>5, <2>1, FieldDoes DEF ReaderFlag
  <2>. QED  BY <1>0, <1>5, <2>2, <2>3 DEF ReaderFlag, WriterOf, Last, FlowKept, Labels, flowv
<1>6. ASSUME FreeSlot(c, "dr")
      PROVE  /\ Moved(c, "dr", "done") /\ pc[c].dr = "free"
             /\ PutIn(c, "usedflag", 0) /\ QueuesKept(c)
             /\ FlowKept(c) /\ UNCHANGED owner
  BY <1>0, <1>6, FieldDoes DEF FreeSlot, QueuesKept, FlowKept, Q, Labels, flowv
<1>. QED  BY <1>1, <1>2, <1>3, <1>4, <1>5, <1>6

-----------------------------------------------------------------------------
(* A step of a current session keeps what holds of it.                      *)

LEMMA FlagsTask ==
  ASSUME Typed, NEW c \in Conns, slotOf[c] \in Slots, Kind(c), Flags1(c), Flags2(c),
         TaskStep(c)
  PROVE  Flags1(c)' /\ Flags2(c)'
<1>0. /\ env' = env /\ (Tcp' = Tcp) /\ env.remote \in {"TCP", "UDP"}
      /\ P(c).shutdown = 0
      /\ ToRemote = "UDP" <=> ~Tcp
  BY FrameStep, SettingFacts DEF Frame, Typed, Tcp, ToRemote, Flags1
<1>1. CASE Uw(c)
  <2>1. CASE Begin(c, "uw")
    <3>1. Flags1(c)'
      BY <1>0, <2>1, UwFacts DEF Flags1, Moved, PutIn, Fields, Tasks, TasksKept, RecordKept,
       QueuesKept, UwLeft, UrLeft, DwLeft, DrLeft, UpExit, Kind, Last
    <3>2. Flags2(c)'
      BY <1>0, <2>1, UwFacts DEF Flags2, Moved, PutIn, Fields, Tasks, TasksKept, RecordKept,
       UpExit, Kind, Last
    <3>. QED  BY <3>1, <3>2
  <2>2. CASE UpRead(c)
    <3>1. Flags1(c)'
      BY <1>0, <2>2, UwFacts DEF Flags1, Moved, PutIn, Fields, Tasks, TasksKept, RecordKept,
       QueuesKept, UwLeft, UrLeft, DwLeft, DrLeft, UpExit, Kind, Last
    <3>2. Flags2(c)'
      BY <1>0, <2>2, UwFacts DEF Flags2, Moved, PutIn, Fields, Tasks, TasksKept, RecordKept,
       UpExit, Kind, Last
    <3>. QED  BY <3>1, <3>2
  <2>3. CASE UpForced(c)
    <3>1. Flags1(c)'
      BY <1>0, <2>3, UwFacts DEF Flags1, Moved, PutIn, Fields, Tasks, TasksKept, RecordKept,
       QueuesKept, UwLeft, UrLeft, DwLeft, DrLeft, UpExit, Kind, Last
    <3>2. Flags2(c)'
      BY <1>0, <2>3, UwFacts DEF Flags2, Moved, PutIn, Fields, Tasks, TasksKept, RecordKept,
       UpExit, Kind, Last
    <3>. QED  BY <3>1, <3>2
  <2>4. CASE UpClose(c)
    <3>1. Flags1(c)'
      BY <1>0, <2>4, UwFacts DEF Flags1, Moved, PutIn, Fields, Tasks, TasksKept, RecordKept,
       QueuesKept, UwLeft, UrLeft, DwLeft, DrLeft, UpExit, Kind, Last
    <3>2. Flags2(c)'
      BY <1>0, <2>4, UwFacts DEF Flags2, Moved, PutIn, Fields, Tasks, TasksKept, RecordKept,
       UpExit, Kind, Last
    <3>. QED  BY <3>1, <3>2
  <2>5. CASE WriterFlag(c, "uw")
    <3>1. Flags1(c)'
      BY <1>0, <2>5, UwFacts DEF Flags1, Moved, PutIn, Fields, Tasks, TasksKept, RecordKept,
       QueuesKept, UwLeft, UrLeft, DwLeft, DrLeft, UpExit, Kind, Last
    <3>2. Flags2(c)'
      BY <1>0, <2>5, UwFacts DEF Flags2, Moved, PutIn, Fields, Tasks, TasksKept, RecordKept,
       UpExit, Kind, Last
    <3>. QED  BY <3>1, <3>2
  <2>. QED  BY <1>1, <2>1, <2>2, <2>3, <2>4, <2>5 DEF Uw
<1>2. CASE Ur(c)
  <2>1. CASE Begin(c, "ur")
    <3>1. Flags1(c)'
      BY <1>0, <2>1, UrFacts DEF Flags1, Moved, PutIn, Fields, Tasks, TasksKept, RecordKept,
       QueuesKept, UwLeft, UrLeft, DwLeft, DrLeft, UpExit, Kind, Last
    <3>2. Flags2(c)'
      BY <1>0, <2>1, UrFacts DEF Flags2, Moved, PutIn, Fields, Tasks, TasksKept, RecordKept,
       UpExit, Kind, Last
    <3>. QED  BY <3>1, <3>2
  <2>2. CASE Connect(c)
    <3>1. Flags1(c)'
      BY <1>0, <2>2, UrFacts DEF Flags1, Moved, PutIn, Fields, Tasks, TasksKept, RecordKept,
       QueuesKept, UwLeft, UrLeft, DwLeft, DrLeft, UpExit, Kind, Last
    <3>2. Flags2(c)'
      BY <1>0, <2>2, UrFacts DEF Flags2, Moved, PutIn, Fields, Tasks, TasksKept, RecordKept,
       UpExit, Kind, Last
    <3>. QED  BY <3>1, <3>2
  <2>3. CASE UpTake(c) \/ UpSend(c)
    <3>1. Flags1(c)'
      BY <1>0, <2>3, UrFacts DEF Flags1, Moved, PutIn, Fields, Tasks, TasksKept, RecordKept,
       QueuesKept, UwLeft, UrLeft, DwLeft, DrLeft, UpExit, Kind, Last
    <3>2. Flags2(c)'
      BY <1>0, <2>3, UrFacts DEF Flags2, Moved, PutIn, Fields, Tasks, TasksKept, RecordKept,
       UpExit, Kind, Last
    <3>. QED  BY <3>1, <3>2
  <2>4. CASE UpGiveUp(c)
    <3>1. Flags1(c)'
      BY <1>0, <2>4, UrFacts DEF Flags1, Moved, PutIn, Fields, Tasks, TasksKept, RecordKept,
       QueuesKept, UwLeft, UrLeft, DwLeft, DrLeft, UpExit, Kind, Last
    <3>2. Flags2(c)'
      BY <1>0, <2>4, UrFacts DEF Flags2, Moved, PutIn, Fields, Tasks, TasksKept, RecordKept,
       UpExit, Kind, Last
    <3>. QED  BY <3>1, <3>2
  <2>5. CASE UpLeave(c)
    <3>1. Flags1(c)'
      BY <1>0, <2>5, UrFacts DEF Flags1, Moved, PutIn, Fields, Tasks, TasksKept, RecordKept,
       QueuesKept, UwLeft, UrLeft, DwLeft, DrLeft, UpExit, Kind, Last
    <3>2. Flags2(c)'
      BY <1>0, <2>5, UrFacts DEF Flags2, Moved, PutIn, Fields, Tasks, TasksKept, RecordKept,
       UpExit, Kind, Last
    <3>. QED  BY <3>1, <3>2
  <2>6. CASE UpReaderClose(c)
    <3>1. Flags1(c)'
      BY <1>0, <2>6, UrFacts DEF Flags1, Moved, PutIn, Fields, Tasks, TasksKept, RecordKept,
       QueuesKept, UwLeft, UrLeft, DwLeft, DrLeft, UpExit, Kind, Last
    <3>2. Flags2(c)'
      BY <1>0, <2>6, UrFacts DEF Flags2, Moved, PutIn, Fields, Tasks, TasksKept, RecordKept,
       UpExit, Kind, Last
    <3>. QED  BY <3>1, <3>2
  <2>7. CASE CloseWait(c)
    <3>1. Flags1(c)'
      BY <1>0, <2>7, UrFacts DEF Flags1, Moved, PutIn, Fields, Tasks, TasksKept, RecordKept,
       QueuesKept, UwLeft, UrLeft, DwLeft, DrLeft, UpExit, Kind, Last
    <3>2. Flags2(c)'
      BY <1>0, <2>7, UrFacts DEF Flags2, Moved, PutIn, Fields, Tasks, TasksKept, RecordKept,
       UpExit, Kind, Last
    <3>. QED  BY <3>1, <3>2
  <2>8. CASE ReaderFlag(c, "ur")
    <3>1. Flags1(c)'
      BY <1>0, <2>8, UrFacts DEF Flags1, Moved, PutIn, Fields, Tasks, TasksKept, RecordKept,
       QueuesKept, UwLeft, UrLeft, DwLeft, DrLeft, UpExit, Kind, Last
    <3>2. Flags2(c)'
      BY <1>0, <2>8, UrFacts DEF Flags2, Moved, PutIn, Fields, Tasks, TasksKept, RecordKept,
       UpExit, Kind, Last
    <3>. QED  BY <3>1, <3>2
  <2>9. CASE FreeSlot(c, "ur")
    <3>1. Flags1(c)'
      BY <1>0, <2>9, UrFacts DEF Flags1, Moved, PutIn, Fields, Tasks, TasksKept, RecordKept,
       QueuesKept, UwLeft, UrLeft, DwLeft, DrLeft, UpExit, Kind, Last
    <3>2. Flags2(c)'
      BY <1>0, <2>9, UrFacts DEF Flags2, Moved, PutIn, Fields, Tasks, TasksKept, RecordKept,
       UpExit, Kind, Last
    <3>. QED  BY <3>1, <3>2
  <2>. QED  BY <1>2, <2>1, <2>2, <2>3, <2>4, <2>5, <2>6, <2>7, <2>8, <2>9 DEF Ur
<1>3. CASE Dw(c)
  <2>1. Flags1(c)'
    BY <1>0, <1>3, DwFacts DEF Dw, Flags1, Moved, PutIn, Fields, Tasks, TasksKept, RecordKept,
       QueuesKept, UwLeft, UrLeft, DwLeft, DrLeft, Kind
  <2>2. Flags2(c)'
    BY <1>0, <1>3, DwFacts DEF Dw, Flags2, Moved, PutIn, Fields, Tasks, TasksKept, RecordKept, Kind
  <2>. QED  BY <2>1, <2>2
<1>4. CASE Dr(c)
  <2>1. Flags1(c)'
    BY <1>0, <1>4, DrFacts DEF Dr, Flags1, Moved, PutIn, Fields, Tasks, TasksKept, RecordKept,
       QueuesKept, UwLeft, UrLeft, DwLeft, DrLeft, Kind
  <2>2. Flags2(c)'
    BY <1>0, <1>4, DrFacts DEF Dr, Flags2, Moved, PutIn, Fields, Tasks, TasksKept, RecordKept, Kind
  <2>. QED  BY <2>1, <2>2
<1>. QED  BY <1>1, <1>2, <1>3, <1>4 DEF TaskStep

LEMMA SocketsTask ==
  ASSUME Typed, Always, NEW c \in Conns, slotOf[c] \in Slots, Flags1(c), Sockets(c), TaskStep(c)
  PROVE  Sockets(c)'
<1>0. /\ env' = env /\ (Tcp' = Tcp) /\ env.remote \in {"TCP", "UDP"}
      /\ (ToRemote = "UDP" <=> ~Tcp) /\ Kind(c) /\ P(c).shutdown = 0
  BY FrameStep, SettingFacts DEF Frame, Typed, Tcp, ToRemote, Always, Flags1
<1>1. /\ owner \in [Descriptors -> {Free} \union (Conns \X Ends)]
      /\ \A f \in Descriptors : f \in Nat /\ f # 0
  BY ConstFacts DEF Typed, SlotTyped
<1>2. CASE ClosesServer(c) /\ (UpClose(c) \/ DownReaderClose(c))
  <2>1. P(c)'.server_sid = NoSid /\ P(c)'.client_sid = P(c).client_sid
    BY <1>2 DEF ClosesServer, PutIn, Fields
  <2>2. Owns(c, "remote", P(c).client_sid) => Owns(c, "remote", P(c).client_sid)'
    <3>1. \A f \in Descriptors : owner[f] = <<c, "remote">> => f # P(c).server_sid
      BY <1>1 DEF Sockets, Owns, NoSid
    <3>. QED  BY <1>2, <2>1, <3>1, ReleaseDoes DEF ClosesServer, Owns
  <2>3. CASE UpClose(c)
    <3>1. ~Tcp /\ Moved(c, "uw", "flag")
      BY <1>0, <2>3, UwFacts DEF Kind
    <3>. QED  BY <1>0, <2>1, <2>2, <3>1 DEF Sockets, Moved, Tasks
  <2>4. CASE DownReaderClose(c)
    <3>1. Tcp /\ Moved(c, "dr", "wait")
      BY <1>0, <2>4, DrFacts DEF Kind
    <3>. QED  BY <1>0, <2>1, <2>2, <3>1 DEF Sockets, Moved, Tasks
  <2>. QED  BY <1>2, <2>3, <2>4
<1>3. CASE ClosesClient(c) /\ (DownClose(c) \/ UpGiveUp(c) \/ UpReaderClose(c))
  <2>1. P(c)'.client_sid = NoSid /\ P(c)'.server_sid = P(c).server_sid
    BY <1>3 DEF ClosesClient, PutIn, Fields
  <2>2. Owns(c, "client", P(c).server_sid) => Owns(c, "client", P(c).server_sid)'
    <3>1. \A f \in Descriptors : owner[f] = <<c, "client">> => f # P(c).client_sid
      BY <1>1 DEF Sockets, Owns, NoSid, Failed
    <3>. QED  BY <1>3, <2>1, <3>1, ReleaseDoes DEF ClosesClient, Owns
  <2>3. CASE DownClose(c)
    <3>1. Tcp /\ Moved(c, "dw", "flag") /\ pc[c].dw = "close"
      BY <1>0, <2>3, DwFacts DEF Kind
    <3>2. pc[c].ur \in {"wait", "free", "done"}
      BY <3>1 DEF Flags1, DwLeft
    <3>. QED  BY <1>0, <2>1, <2>2, <3>1, <3>2 DEF Sockets, Moved, Tasks, NoSid, Failed
  <2>4. CASE UpGiveUp(c)
    <3>1. /\ ~Tcp /\ Moved(c, "ur", "run") /\ pc[c].ur = "send"
          /\ env.fails \/ ~Owns(c, "remote", P(c).client_sid)
      BY <1>0, <2>4, UrFacts
    <3>2. env.fails
      BY <3>1 DEF Sockets, NoSid, Failed
    <3>. QED  BY <1>0, <2>1, <2>2, <3>1, <3>2 DEF Sockets, Moved, Tasks, NoSid, Failed
  <2>5. CASE UpReaderClose(c)
    <3>1. ~Tcp /\ Moved(c, "ur", "closewait")
      BY <1>0, <2>5, UrFacts DEF Kind
    <3>. QED  BY <1>0, <2>1, <2>2, <3>1 DEF Sockets, Moved, Tasks, NoSid, Failed
  <2>. QED  BY <1>3, <2>3, <2>4, <2>5
<1>4. CASE Connects(c) /\ Connect(c)
  <2>1. /\ pc[c].ur \in {"connect", "reconnect"} /\ pc'[c].ur \in {"run", "send"}
        /\ pc'[c].uw = pc[c].uw /\ pc'[c].dw = pc[c].dw /\ pc'[c].dr = pc[c].dr
    BY <1>4, TaskMoves DEF Connects, Ur
  <2>2. P(c)'.server_sid = P(c).server_sid
    BY <1>4 DEF Connects, PutIn, Fields
  <2>3. Owns(c, "client", P(c).server_sid) => Owns(c, "client", P(c).server_sid)'
    BY <1>1, <1>4, <2>2, NotFree DEF Connects, Owns
  <2>4. \/ P(c)'.client_sid \in Descriptors /\ Owns(c, "remote", P(c).client_sid)'
        \/ P(c)'.client_sid = Failed /\ env.fails
    BY <1>1, <1>4 DEF Connects, PutIn, Owns
  <2>5. ~DwLeft(c)
    BY <2>1 DEF Flags1
  <2>. QED  BY <1>0, <1>1, <2>1, <2>2, <2>3, <2>4, <2>5 DEF Sockets, DwLeft, NoSid, Failed
<1>5. CASE /\ KeepsSockets(c) /\ ~UpClose(c) /\ ~DownReaderClose(c) /\ ~DownClose(c)
           /\ ~UpGiveUp(c) /\ ~UpReaderClose(c) /\ ~Connect(c)
  <2>1. /\ P(c)'.server_sid = P(c).server_sid /\ P(c)'.client_sid = P(c).client_sid
        /\ \A e, x : Owns(c, e, x)' <=> Owns(c, e, x)
    BY <1>5 DEF KeepsSockets, Owns
  <2>2. CASE Uw(c)
    <3>1. /\ pc'[c].ur = pc[c].ur /\ pc'[c].dw = pc[c].dw /\ pc'[c].dr = pc[c].dr
          /\ pc'[c].uw \in {"flag", "done"} => Tcp \/ pc[c].uw \in {"flag", "done"}
          /\ pc[c].uw \in {"flag", "done"} => pc'[c].uw \in {"flag", "done"}
      <4>1. pc'[c].ur = pc[c].ur /\ pc'[c].dw = pc[c].dw /\ pc'[c].dr = pc[c].dr
        BY <2>2, TaskMoves
      <4>2. /\ pc'[c].uw \in {"flag", "done"} => Tcp \/ pc[c].uw \in {"flag", "done"}
            /\ pc[c].uw \in {"flag", "done"} => pc'[c].uw \in {"flag", "done"}
        <5>1. pc[c].uw # "close"
          BY <1>5, <2>2 DEF Uw, Begin, UpRead, UpForced, WriterFlag, MayLoop
        <5>. QED  BY <1>0, <2>2, <5>1, TaskMoves DEF UwMoves, UpExit
      <4>. QED  BY <4>1, <4>2
    <3>. QED  BY <1>0, <2>1, <3>1 DEF Sockets, Ends
  <2>3. CASE Ur(c)
    <3>1. /\ pc'[c].uw = pc[c].uw /\ pc'[c].dw = pc[c].dw /\ pc'[c].dr = pc[c].dr
          /\ pc'[c].ur \in {"run", "send", "reconnect"} => pc[c].ur \in {"run", "send"}
          /\ pc'[c].ur \in {"closewait", "wait", "free", "done"} =>
               Tcp \/ pc[c].ur \in {"closewait", "wait", "free", "done"}
      BY <1>0, <1>5, <2>3, TaskMoves, UrFacts DEF Ur, Moved, Tasks
    <3>. QED  BY <1>0, <2>1, <3>1 DEF Sockets, Ends
  <2>4. CASE Dw(c)
    <3>1. /\ pc'[c].uw = pc[c].uw /\ pc'[c].ur = pc[c].ur /\ pc'[c].dr = pc[c].dr
          /\ pc'[c].dw \in {"flag", "done"} => pc[c].dw \in {"flag", "done"}
      <4>1. pc'[c].uw = pc[c].uw /\ pc'[c].ur = pc[c].ur /\ pc'[c].dr = pc[c].dr
        BY <2>4, TaskMoves
      <4>2. pc'[c].dw \in {"flag", "done"} => pc[c].dw \in {"flag", "done"}
        <5>1. pc[c].dw # "close"
          BY <1>5, <2>4 DEF Dw, Begin, DownRead, DownStop, DownForced, WriterFlag, MayLoop
        <5>. QED  BY <2>4, <5>1, TaskMoves DEF DwMoves
      <4>. QED  BY <4>1, <4>2
    <3>. QED  BY <1>0, <2>1, <3>1 DEF Sockets, Ends
  <2>5. CASE Dr(c)
    <3>1. /\ pc'[c].uw = pc[c].uw /\ pc'[c].ur = pc[c].ur /\ pc'[c].dw = pc[c].dw
          /\ pc'[c].dr \in {"wait", "free", "done"} <=> pc[c].dr \in {"wait", "free", "done"}
      BY <1>0, <1>5, <2>5, TaskMoves, DrFacts DEF Dr, Moved, TasksKept, Tasks
    <3>. QED  BY <1>0, <2>1, <3>1 DEF Sockets, Ends
  <2>. QED  BY <2>2, <2>3, <2>4, <2>5 DEF TaskStep
<1>. QED  BY <1>2, <1>3, <1>4, <1>5, SocketMoves

(* The record and the flows of a step that leaves both.                     *)
LEMMA RelayKept ==
  ASSUME NEW c \in Conns, Relay(c), UNCHANGED <<env, given, closed>>, FlowKept(c),
         P(c)'.stop_flag = P(c).stop_flag,
         UwLeft(c)' => UwLeft(c), UrLeft(c)' => UrLeft(c) \/ Pending(c, "up") = 0,
         DrLeft(c)' => DrLeft(c) \/ Pending(c, "down") = 0
  PROVE  Relay(c)'
<1>1. \A d \in Dirs : Pending(c, d)' = Pending(c, d) /\ AtEnd(c, d)' = AtEnd(c, d)
  BY DEF FlowKept, Pending, AtEnd
<1>2. Tcp' = Tcp /\ env' = env /\ Reason(c)' = Reason(c)
  BY <1>1 DEF Tcp, ToRemote, Reason, Dirs
<1>. QED  BY <1>1, <1>2 DEF Relay, FlowKept, Dirs

LEMMA RelayTask ==
  ASSUME Typed, NEW c \in Conns, slotOf[c] \in Slots, Kind(c), Flags1(c), Sockets(c), Relay(c),
         TaskStep(c)
  PROVE  Relay(c)'
<1>0. /\ UNCHANGED <<env, given, closed>> /\ (Tcp' = Tcp) /\ env.remote \in {"TCP", "UDP"}
      /\ (ToRemote = "UDP" <=> ~Tcp) /\ P(c).shutdown = 0
  BY FrameStep, SettingFacts DEF Frame, Typed, Tcp, ToRemote, Flags1
<1>1. /\ read[c]["up"] \in Nat /\ sent[c]["up"] \in Nat /\ lost[c]["up"] \in Nat
      /\ read[c]["down"] \in Nat /\ sent[c]["down"] \in Nat /\ lost[c]["down"] \in Nat
      /\ given[c]["up"] \in Nat /\ given[c]["down"] \in Nat
  BY ConstFacts DEF Typed, FlowTyped, Dirs
<1>2. CASE Uw(c)
  <2>0. pc'[c].ur = pc[c].ur /\ pc'[c].dw = pc[c].dw /\ pc'[c].dr = pc[c].dr
    BY <1>2, TaskMoves
  <2>1. CASE UpRead(c)
    <3>1. ~UwLeft(c) /\ ~UrLeft(c) /\ pc[c].uw = "run" /\ P(c)' = P(c) /\ UNCHANGED <<sent, lost>>
      BY <2>1, UwFacts DEF UwLeft, Flags1, RecordKept
    <3>2. CASE TasksKept(c) /\ Counted(read, c, "up")
      <4>1. ~UwLeft(c)' /\ ~UrLeft(c)' /\ (DrLeft(c)' <=> DrLeft(c))
        BY <3>1, <3>2 DEF TasksKept, UwLeft, UrLeft, DrLeft
      <4>2. AtEnd(c, "down")' = AtEnd(c, "down") /\ Pending(c, "down")' = Pending(c, "down")
        BY <1>0, <3>1, <3>2 DEF Counted, AtEnd, Pending, Dirs
      <4>. QED  BY <1>0, <3>1, <4>1, <4>2 DEF Relay
    <3>3. CASE /\ Moved(c, "uw", UpExit) /\ read'[c] = read[c]
               /\ \/ P(c).stop_flag = 1 \/ AtEnd(c, "up")
                  \/ ~Owns(c, "client", P(c).server_sid)
      <4>1. Owns(c, "client", P(c).server_sid)
        BY <3>1 DEF Sockets, Flags1, DrLeft, DwLeft, UrLeft, UwLeft
      <4>2. Reason(c)
        BY <3>3, <4>1 DEF Relay, Reason
      <4>3. \A d \in Dirs : Pending(c, d)' = Pending(c, d) /\ AtEnd(c, d)' = AtEnd(c, d)
        BY <1>0, <3>1, <3>3 DEF Pending, AtEnd
      <4>4. Reason(c)'
        BY <1>0, <4>2, <4>3 DEF Reason, Dirs
      <4>5. (UrLeft(c)' <=> UrLeft(c)) /\ (DrLeft(c)' <=> DrLeft(c))
        BY <2>0 DEF UrLeft, DrLeft
      <4>. QED  BY <1>0, <3>1, <4>3, <4>4, <4>5 DEF Relay, Dirs
    <3>. QED  BY <2>1, <3>2, <3>3, UwFacts
  <2>2. CASE ~UpRead(c)
    <3>1. FlowKept(c) /\ P(c)'.stop_flag = P(c).stop_flag
      BY <1>0, <1>2, <2>2, UwFacts DEF Uw, RecordKept, PutIn, Fields
    <3>2. pc[c].uw # "run"
      BY <1>0, <1>2, <2>2 DEF Uw, Begin, UpForced, UpClose, WriterFlag
    <3>3. UwLeft(c)' => UwLeft(c)
      BY <1>2, <3>2, TaskMoves DEF UwMoves, UwLeft
    <3>4. (UrLeft(c)' <=> UrLeft(c)) /\ (DrLeft(c)' <=> DrLeft(c))
      BY <2>0 DEF UrLeft, DrLeft
    <3>. QED  BY <1>0, <3>1, <3>3, <3>4, RelayKept
  <2>. QED  BY <2>1, <2>2
<1>3. CASE Ur(c)
  <2>0. pc'[c].uw = pc[c].uw /\ pc'[c].dw = pc[c].dw /\ pc'[c].dr = pc[c].dr
    BY <1>3, TaskMoves
  <2>1. (UwLeft(c)' <=> UwLeft(c)) /\ (DrLeft(c)' <=> DrLeft(c))
    BY <2>0 DEF UwLeft, DrLeft
  <2>2. CASE UpSend(c) \/ UpGiveUp(c)
    <3>1. /\ Moved(c, "ur", "run") /\ pc[c].ur = "send" /\ P(c)'.stop_flag = P(c).stop_flag
          /\ read' = read
          /\ \/ Counted(sent, c, "up") /\ lost' = lost
             \/ UNCHANGED <<sent, lost>>
             \/ /\ Counted(lost, c, "up") /\ sent' = sent
                /\ \/ ~Owns(c, "remote", P(c).client_sid)
                   \/ "remote" \in closed[c] \/ env.fails
      BY <2>2, UrFacts DEF RecordKept, PutIn, Fields
    <3>2. Owns(c, "remote", P(c).client_sid) \/ env.fails
      BY <3>1 DEF Sockets, NoSid, Failed
    <3>3. ~UrLeft(c)'
      BY <3>1 DEF Moved, UrLeft
    <3>4. AtEnd(c, "down")' = AtEnd(c, "down") /\ AtEnd(c, "up")' = AtEnd(c, "up")
      BY <1>0, <3>1 DEF AtEnd
    <3>5. sent'[c]["down"] = sent[c]["down"] /\ lost'[c]["down"] = lost[c]["down"]
      BY <3>1 DEF Counted, Dirs
    <3>6. Pending(c, "down")' = Pending(c, "down")
      BY <3>1, <3>5 DEF Pending
    <3>7. lost'[c]["up"] > 0 => "remote" \in closed[c] \/ env.fails
      BY <3>1, <3>2 DEF Counted, Relay
    <3>. QED  BY <1>0, <2>1, <3>1, <3>3, <3>4, <3>5, <3>6, <3>7 DEF Relay, Reason
  <2>3. CASE ~UpSend(c) /\ ~UpGiveUp(c)
    <3>1. FlowKept(c) /\ P(c)'.stop_flag = P(c).stop_flag
      BY <1>3, <2>3, UrFacts DEF Ur, RecordKept, PutIn, Fields
    <3>2. UrLeft(c)' => UrLeft(c) \/ Pending(c, "up") = 0
      <4>1. CASE UpLeave(c)
        <5>1. Pending(c, "up") = 0
          BY <1>0, <4>1 DEF UpLeave
        <5>. QED  BY <5>1
      <4>2. CASE ~UpLeave(c)
        <5>1. pc[c].ur \in {"ready", "connect", "reconnect", "run"} => pc'[c].ur \in {"connect", "reconnect", "run", "send"}
          BY <1>3, <2>3, <4>2, UrFacts DEF Ur, Moved
        <5>2. pc[c].ur # "none" /\ pc[c].ur # "send"
          BY <1>3, <2>3, <4>2, UrFacts DEF Ur
        <5>. QED  BY <5>1, <5>2 DEF UrLeft, Kind, Labels
      <4>. QED  BY <4>1, <4>2
    <3>. QED  BY <1>0, <2>1, <3>1, <3>2, RelayKept
  <2>. QED  BY <2>2, <2>3
<1>4. CASE Dw(c)
  <2>0. pc'[c].uw = pc[c].uw /\ pc'[c].ur = pc[c].ur /\ pc'[c].dr = pc[c].dr
    BY <1>4, TaskMoves
  <2>1. (UwLeft(c)' <=> UwLeft(c)) /\ (UrLeft(c)' <=> UrLeft(c)) /\ (DrLeft(c)' <=> DrLeft(c))
    BY <2>0 DEF UwLeft, UrLeft, DrLeft
  <2>2. CASE DownRead(c)
    <3>1. pc[c].dw = "run" /\ UNCHANGED <<sent, lost>> /\ Tcp
      BY <2>2, DwFacts DEF Kind
    <3>2. ~DrLeft(c)
      BY <3>1 DEF Flags1, DwLeft
    <3>3. CASE Counted(read, c, "down") /\ MayRead(c, "down") /\ RecordKept(c)
      <4>1. ~AtEnd(c, "down")
        BY <1>1, <3>3 DEF MayRead, AtEnd
      <4>2. AtEnd(c, "up")' = AtEnd(c, "up") /\ Pending(c, "up")' = Pending(c, "up")
        BY <1>0, <3>1, <3>3 DEF Counted, AtEnd, Pending, Dirs
      <4>. QED  BY <1>0, <2>1, <3>1, <3>2, <3>3, <4>1, <4>2 DEF Relay, Reason, RecordKept
    <3>4. CASE /\ read'[c] = read[c]
               /\ P(c).client_sid # NoSid
               /\ \/ ~Owns(c, "remote", P(c).client_sid)
                  \/ AtEnd(c, "down")
      <4>1. AtEnd(c, "down") \/ env.fails
        BY <3>4 DEF Sockets
      <4>2. \A d \in Dirs : Pending(c, d)' = Pending(c, d) /\ AtEnd(c, d)' = AtEnd(c, d)
        BY <1>0, <3>1, <3>4 DEF Pending, AtEnd
      <4>. QED  BY <1>0, <2>1, <3>1, <4>1, <4>2 DEF Relay, Reason, Dirs
    <3>. QED  BY <2>2, <3>3, <3>4, DwFacts
  <2>3. CASE ~DownRead(c)
    <3>1. FlowKept(c) /\ P(c)'.stop_flag = P(c).stop_flag
      BY <1>0, <1>4, <2>3, DwFacts DEF Dw, RecordKept, PutIn, Fields
    <3>. QED  BY <1>0, <2>1, <3>1, RelayKept
  <2>. QED  BY <2>2, <2>3
<1>5. CASE Dr(c)
  <2>0. pc'[c].uw = pc[c].uw /\ pc'[c].ur = pc[c].ur /\ pc'[c].dw = pc[c].dw
    BY <1>5, TaskMoves
  <2>1. (UwLeft(c)' <=> UwLeft(c)) /\ (UrLeft(c)' <=> UrLeft(c))
    BY <2>0 DEF UwLeft, UrLeft
  <2>2. CASE DownSend(c)
    <3>1. /\ TasksKept(c) /\ pc[c].dr = "run" /\ P(c)' = P(c) /\ read' = read
          /\ \/ Counted(sent, c, "down") /\ lost' = lost
             \/ UNCHANGED <<sent, lost>>
             \/ /\ Counted(lost, c, "down") /\ sent' = sent
                /\ \/ ~Owns(c, "client", P(c).server_sid)
                   \/ "client" \in closed[c] \/ env.fails
      BY <2>2, DrFacts DEF RecordKept
    <3>2. Owns(c, "client", P(c).server_sid)
      BY <3>1 DEF Sockets, Kind
    <3>3. ~DrLeft(c)'
      BY <3>1 DEF TasksKept, DrLeft
    <3>4. AtEnd(c, "down")' = AtEnd(c, "down") /\ AtEnd(c, "up")' = AtEnd(c, "up")
      BY <1>0, <3>1 DEF AtEnd
    <3>5. sent'[c]["up"] = sent[c]["up"] /\ lost'[c]["up"] = lost[c]["up"]
      BY <3>1 DEF Counted, Dirs
    <3>6. Pending(c, "up")' = Pending(c, "up")
      BY <3>1, <3>5 DEF Pending
    <3>7. lost'[c]["down"] > 0 => "client" \in closed[c] \/ env.fails
      BY <3>1, <3>2 DEF Counted, Relay
    <3>. QED  BY <1>0, <2>1, <3>1, <3>3, <3>4, <3>5, <3>6, <3>7 DEF Relay, Reason
  <2>3. CASE ~DownSend(c)
    <3>1. FlowKept(c) /\ P(c)'.stop_flag = P(c).stop_flag
      BY <1>5, <2>3, DrFacts DEF Dr, RecordKept, PutIn, Fields
    <3>2. DrLeft(c)' => DrLeft(c) \/ Pending(c, "down") = 0
      <4>1. CASE DownLeave(c)
        <5>1. Pending(c, "down") = 0
          BY <1>0, <4>1 DEF DownLeave
        <5>. QED  BY <5>1
      <4>2. CASE ~DownLeave(c)
        <5>1. \/ pc[c].dr = "ready" /\ pc'[c].dr = "run"
              \/ pc[c].dr \in {"close", "wait", "free"}
          BY <1>5, <2>3, <4>2, DrFacts DEF Dr, Moved
        <5>. QED  BY <5>1 DEF DrLeft
      <4>. QED  BY <4>1, <4>2
    <3>. QED  BY <1>0, <2>1, <3>1, <3>2, RelayKept
  <2>. QED  BY <2>2, <2>3
<1>. QED  BY <1>2, <1>3, <1>4, <1>5 DEF TaskStep

-----------------------------------------------------------------------------
(* A step of a task keeps what holds of the other sessions.                 *)

LEMMA OthersKeepSockets ==
  ASSUME Typed, Always, NEW c \in Conns, slotOf[c] \in Slots, TaskStep(c), Current(c) => Sockets(c),
         NEW b \in Conns, b # c, NEW e, NEW f \in Descriptors, owner[f] = <<b, e>>
  PROVE  owner'[f] = <<b, e>>
<1>0. owner \in [Descriptors -> {Free} \union (Conns \X Ends)] /\ NoSid \notin Descriptors
      /\ Failed \notin Descriptors
  BY ConstFacts DEF Typed, SlotTyped, NoSid, Failed
<1>1. CASE Current(c)
  <2>1. f # P(c).server_sid /\ f # P(c).client_sid
    BY <1>0, <1>1 DEF Sockets, Owns
  <2>2. CASE ClosesServer(c) \/ ClosesClient(c)
    BY <2>1, <2>2, ReleaseDoes DEF ClosesServer, ClosesClient
  <2>3. CASE Connects(c)
    BY <1>0, <2>3, NotFree DEF Connects
  <2>4. CASE KeepsSockets(c)
    BY <2>4 DEF KeepsSockets
  <2>. QED  BY <2>2, <2>3, <2>4, SocketMoves
<1>2. CASE ~Current(c)
  <2>1. slotOf[c] # -1 /\ SlotRule(c)
    BY ConstFacts DEF Always
  <2>2. Over(c)
    BY <1>2, <2>1 DEF SlotRule
  <2>. QED  BY <2>2, OverStep
<1>. QED  BY <1>1, <1>2

LEMMA OthersTask ==
  ASSUME Typed, Always, NEW c \in Conns, slotOf[c] \in Slots, TaskStep(c), Current(c) => Sockets(c),
         NEW b \in Conns, b # c, Current(b), Session(b)
  PROVE  Session(b)'
<1>0. /\ Frame(c) /\ slotOf[b] \in Slots /\ (Tcp' = Tcp) /\ slotOf' = slotOf
      /\ pc'[b] = pc[b] /\ UNCHANGED <<env, given, closed>>
      /\ read'[b] = read[b] /\ sent'[b] = sent[b] /\ lost'[b] = lost[b]
  BY FrameStep DEF Frame, Current, Typed, TaskTyped, Tcp, ToRemote
<1>1. /\ P(b)'.shutdown = P(b).shutdown /\ P(b)'.usedflag = P(b).usedflag
      /\ P(b)'.server_sid = P(b).server_sid /\ P(b)'.client_sid = P(b).client_sid
      /\ P(b)'.client_closewaite = P(b).client_closewaite /\ P(b)'.stop_flag = P(b).stop_flag
      /\ \/ P(b)'.exitFlag = P(b).exitFlag
         \/ Tcp /\ \E t \in {"uw", "ur"} : P(b)'.exitFlag = P(b).exitFlag \union {t}
      /\ Q(b, "up")' \in {Q(b, "up"), "gone"} /\ Q(b, "down")' = Q(b, "down")
  <2>1. CASE slotOf[b] # slotOf[c]
    <3>1. P(b)' = P(b) /\ Q(b, "up")' = Q(b, "up") /\ Q(b, "down")' = Q(b, "down")
      BY <1>0, <2>1 DEF Frame, P, Q
    <3>. QED  BY <3>1
  <2>2. CASE slotOf[b] = slotOf[c]
    <3>1. Over(c)
      <4>1. slotOf[c] # -1 /\ SlotRule(c) /\ ~Current(c)
        BY <2>2, ConstFacts, OneCurrent DEF Always
      <4>. QED  BY <4>1 DEF SlotRule
    <3>2. /\ Tcp
          /\ \A g \in Fields : g # "exitFlag" => P(c)'[g] = P(c)[g]
          /\ \E t \in {"uw", "ur"} : P(c)'["exitFlag"] = P(c)["exitFlag"] \union {t}
          /\ Q(c, "down")' = Q(c, "down") /\ Q(c, "up")' \in {Q(c, "up"), "gone"}
      BY <3>1, OverStep
    <3>3. /\ P(b) = P(c) /\ P(b)' = P(c)' /\ Q(b, "up") = Q(c, "up") /\ Q(b, "down") = Q(c, "down")
          /\ Q(b, "up")' = Q(c, "up")' /\ Q(b, "down")' = Q(c, "down")'
      BY <1>0, <2>2 DEF P, Q
    <3>. QED  BY <3>2, <3>3 DEF Fields
  <2>. QED  BY <2>1, <2>2
<1>2. Flags1(b)'
  BY <1>0, <1>1 DEF Session, Flags1, UwLeft, UrLeft, DwLeft, DrLeft
<1>3. Flags2(b)'
  BY <1>0, <1>1 DEF Session, Flags2
<1>4. Sockets(b)'
  <2>1. \A e \in Ends, f \in Descriptors : owner[f] = <<b, e>> => owner'[f] = <<b, e>>
    BY OthersKeepSockets
  <2>. QED  BY <1>0, <1>1, <2>1 DEF Session, Sockets, Owns, Ends
<1>5. Relay(b)'
  <2>1. UwLeft(b)' = UwLeft(b) /\ UrLeft(b)' = UrLeft(b) /\ DrLeft(b)' = DrLeft(b)
    BY <1>0 DEF UwLeft, UrLeft, DrLeft
  <2>. QED  BY <1>0, <1>1, <2>1, RelayKept DEF Session, FlowKept
<1>. QED  BY <1>2, <1>3, <1>4, <1>5 DEF Session

LEMMA ServiceTask ==
  ASSUME Typed, Always, InService, NEW c \in Conns, slotOf[c] \in Slots, TaskStep(c)
  PROVE  InService'
<1>0. /\ Frame(c) /\ Kind(c) /\ SlotRule(c) /\ MainRules
      /\ \A b \in Conns : Current(b)' = Current(b)
  BY FrameStep DEF Always, Frame, Current
<1>1. ASSUME NEW b \in Conns, Current(b)' PROVE Session(b)'
  <2>1. Current(b) /\ Session(b) /\ (Current(c) => Sockets(c))
    BY <1>0, <1>1 DEF InService, Session
  <2>2. CASE b = c
    <3>1. Flags1(c) /\ Flags2(c) /\ Sockets(c) /\ Relay(c)
      BY <2>1, <2>2 DEF Session
    <3>2. Flags1(c)' /\ Flags2(c)'
      BY <1>0, <3>1, FlagsTask
    <3>3. Sockets(c)'
      BY <3>1, SocketsTask
    <3>4. Relay(c)'
      BY <1>0, <3>1, RelayTask
    <3>. QED  BY <2>2, <3>2, <3>3, <3>4 DEF Session
  <2>3. CASE b # c
    BY <2>1, <2>3, OthersTask
  <2>. QED  BY <2>2, <2>3
<1>2. Filling' => Owns(cur, "client", last)'
  <2> SUFFICES ASSUME Filling' PROVE Owns(cur, "client", last)'
    OBVIOUS
  <2>1. Filling /\ cur' = cur /\ last' = last /\ Owns(cur, "client", last) /\ cur \in Conns
        /\ slotOf[cur] = -1
    BY <1>0 DEF Frame, Filling, InService, MainRules
  <2>2. cur # c
    BY <2>1, ConstFacts
  <2>3. Current(c) => Sockets(c)
    BY DEF InService, Session
  <2>4. last \in Descriptors /\ owner[last] = <<cur, "client">>
    BY <2>1 DEF Owns
  <2>5. owner'[last] = <<cur, "client">>
    BY <2>1, <2>2, <2>3, <2>4, OthersKeepSockets
  <2>. QED  BY <2>1, <2>4, <2>5 DEF Owns
<1>. QED  BY <1>1, <1>2 DEF InService

LEMMA TaskSlot ==
  ASSUME Inv, NEW c \in Conns, TaskStep(c)
  PROVE  slotOf[c] \in Slots
<1>1. \E t \in Tasks : pc[c][t] # "none"
  BY DEF TaskStep, Uw, Ur, Dw, Dr, Begin, UpRead, UpForced, UpClose, WriterFlag, DownRead,
     DownStop, DownForced, DownClose, Connect, UpTake, UpSend, UpGiveUp, UpLeave, MayLoop,
     UpReaderClose, CloseWait, ReaderFlag, FreeSlot, DownSend, DownLeave, DownReaderClose,
     Tasks
<1>. QED  BY <1>1, HasSlot DEF Inv, Always

LEMMA TaskKeeps ==
  ASSUME Inv, NEW c \in Conns, TaskStep(c)
  PROVE  Inv'
<1>1. slotOf[c] \in Slots
  BY TaskSlot
<1>2. Typed'
  BY <1>1, TypedStep DEF Inv
<1>3. Always'
  BY <1>1, AlwaysTask DEF Inv
<1>4. Serving' => Serving
  BY <1>1, FrameStep DEF Frame, Serving, Inv
<1>5. Serving' => InService'
  BY <1>1, <1>4, ServiceTask DEF Inv
<1>. QED  BY <1>2, <1>3, <1>5 DEF Inv

-----------------------------------------------------------------------------
(* An end that closes fixes what it had sent; what its packets count for    *)
(* stays.                                                                   *)

LEMMA PeerKeeps ==
  ASSUME Inv, NEW c \in Conns, NEW d \in Dirs, PeerCloses(c, d)
  PROVE  Inv'
<1>0. /\ UNCHANGED <<env, owner, para, queue, slotOf, pc, fin, tries, mpc, idx, cur, last, asked,
                     read, sent, lost>>
      /\ Typed /\ Always
  BY DEF PeerCloses, taskv, mainv, flowv, Inv
<1>1. PICK n \in read[c][d]..env.pkts : given' = [given EXCEPT ![c][d] = n]
  BY DEF PeerCloses
<1>2. /\ given \in [Conns -> [Dirs -> 0..MaxPkts]] /\ read \in [Conns -> [Dirs -> 0..MaxPkts]]
      /\ closed \in [Conns -> SUBSET Ends] /\ env.pkts \in 0..MaxPkts /\ MaxPkts \in Nat
  BY <1>0, SettingFacts, ConstFacts DEF Typed, FlowTyped
<1>3. n \in 0..MaxPkts
  <2>1. read[c][d] \in 0..MaxPkts
    BY <1>2
  <2>. QED  BY <1>2, <2>1
<1>4. PeerOf[d] \in Ends /\ PeerOf[d] \notin closed[c]
      /\ closed' = [closed EXCEPT ![c] = @ \union {PeerOf[d]}]
  BY DEF PeerCloses, PeerOf, Dirs, Ends
<1>5. Typed'
  <2>1. given' \in [Conns -> [Dirs -> 0..MaxPkts]] /\ closed' \in [Conns -> SUBSET Ends]
    BY <1>1, <1>2, <1>3, <1>4
  <2>2. FlowTyped'
    BY <1>0, <2>1 DEF Typed, FlowTyped, Pending
  <2>. QED  BY <1>0, <2>2 DEF Typed, SlotTyped, TaskTyped, MainTyped
<1>6. Always'
  BY <1>0 DEF Always, MainRules, Filling, Kind, Tcp, ToRemote, Pending, SlotRule, Current, Over,
     Owned, P
<1>7. ASSUME NEW b \in Conns, NEW e \in Dirs, AtEnd(b, e) PROVE AtEnd(b, e)'
  <2>1. PeerOf[e] \in closed[b] /\ ~(b = c /\ PeerOf[e] = PeerOf[d])
    BY <1>4, <1>7 DEF AtEnd
  <2>2. b # c \/ e # d
    BY <2>1
  <2>3. given'[b][e] = given[b][e]
    BY <1>1, <1>2, <2>2
  <2>4. closed[b] \subseteq closed'[b]
    BY <1>2, <1>4
  <2>. QED  BY <1>0, <1>7, <2>1, <2>3, <2>4 DEF AtEnd
<1>8. Serving' => InService'
  <2> SUFFICES ASSUME Serving' PROVE InService'
    OBVIOUS
  <2>1. InService
    BY <1>0 DEF Inv, Serving
  <2>2. ASSUME NEW b \in Conns, Current(b)' PROVE Session(b)'
    <3>1. Session(b)
      BY <1>0, <2>1, <2>2 DEF InService, Current
    <3>2. Flags1(b)' /\ Flags2(b)' /\ Sockets(b)'
      BY SMTT(30), <1>0, <3>1 DEF Session, Flags1, Flags2, Sockets, Owns, P, Q, Tcp, ToRemote, UwLeft, UrLeft,
         DwLeft, DrLeft
    <3>3. closed[b] \subseteq closed'[b]
      BY <1>2, <1>4
    <3>4. Relay(b)'
      <4>1. \A e \in Dirs : Pending(b, e)' = Pending(b, e)
        BY <1>0 DEF Pending
      <4>2. (UwLeft(b)' <=> UwLeft(b)) /\ (UrLeft(b)' <=> UrLeft(b)) /\ (DrLeft(b)' <=> DrLeft(b))
            /\ P(b)' = P(b) /\ Tcp' = Tcp /\ env' = env
        BY <1>0 DEF UwLeft, UrLeft, DrLeft, P, Tcp, ToRemote
      <4>3. Reason(b) => Reason(b)'
        BY <1>7, <4>2 DEF Reason, Dirs
      <4>. QED  BY <1>0, <1>7, <3>1, <3>3, <4>1, <4>2, <4>3 DEF Session, Relay, Dirs
    <3>. QED  BY <3>2, <3>4 DEF Session
  <2>. QED  BY <1>0, <2>1, <2>2 DEF InService, Filling, Owns
<1>. QED  BY <1>5, <1>6, <1>8 DEF Inv

-----------------------------------------------------------------------------
(* The steps of run().  First what a step must leave alone for a session.   *)

OwnersKept(c) == \A e \in Ends, f \in Descriptors : owner[f] = <<c, e>> => owner'[f] = <<c, e>>

LEMMA SessionStays ==
  ASSUME NEW c \in Conns, Session(c), env' = env, pc'[c] = pc[c], RecordKept(c), QueuesKept(c),
         FlowKept(c), given'[c] = given[c], closed'[c] = closed[c], OwnersKept(c)
  PROVE  Session(c)'
<1>1. /\ UwLeft(c)' = UwLeft(c) /\ UrLeft(c)' = UrLeft(c) /\ DwLeft(c)' = DwLeft(c)
      /\ DrLeft(c)' = DrLeft(c) /\ Tcp' = Tcp
  BY DEF UwLeft, UrLeft, DwLeft, DrLeft, Tcp, ToRemote
<1>2. Flags1(c)' /\ Flags2(c)'
  BY <1>1 DEF Session, Flags1, Flags2, RecordKept, QueuesKept
<1>3. Sockets(c)'
  BY <1>1 DEF Session, Sockets, RecordKept, OwnersKept, Owns, Ends
<1>4. \A d \in Dirs : Pending(c, d)' = Pending(c, d) /\ AtEnd(c, d)' = AtEnd(c, d)
  BY DEF FlowKept, Pending, AtEnd
<1>5. Relay(c)'
  BY <1>1, <1>4 DEF Session, Relay, Reason, RecordKept, FlowKept, Dirs
<1>. QED  BY <1>2, <1>3, <1>5 DEF Session

(* Steps that move run() and leave the sessions and the sockets.            *)
LEMMA QuietKeeps ==
  ASSUME Inv, Ask \/ TestTop \/ Search \/ Join
  PROVE  Inv'
<1>0. /\ UNCHANGED <<env, owner, para, queue, slotOf, pc, fin, tries, cur, last, given, closed,
                     read, sent, lost>>
      /\ Typed /\ Always /\ \A s \in Slots : (s + 1) % NSlots \in Slots
  BY ConstFacts DEF Ask, TestTop, Search, Join, taskv, mainv, peerv, flowv, Inv
<1>1. Typed'
  <2>1. MainTyped'
    BY <1>0 DEF Typed, MainTyped, Ask, TestTop, Search, Join
  <2>. QED  BY <1>0, <2>1 DEF Typed, SlotTyped, TaskTyped, FlowTyped, Pending
<1>2. (Filling' <=> Filling) /\ (Serving' => Serving) /\ MainRules'
  BY <1>0 DEF Ask, TestTop, Search, Join, Filling, Serving, Always, MainRules
<1>3. Always'
  BY <1>0, <1>2 DEF Always, Kind, Tcp, ToRemote, Pending, SlotRule, Current, Over, Owned, P
<1>4. Serving' => InService'
  <2> SUFFICES ASSUME Serving' PROVE InService'
    OBVIOUS
  <2>1. InService
    BY <1>2 DEF Inv
  <2>2. ASSUME NEW c \in Conns, Current(c)' PROVE Session(c)'
    BY <1>0, <2>1, <2>2, SessionStays DEF InService, Current, RecordKept, QueuesKept, FlowKept,
       OwnersKept, P, Q
  <2>. QED  BY <1>0, <1>2, <2>1, <2>2 DEF InService, Owns
<1>. QED  BY <1>1, <1>3, <1>4 DEF Inv

(* Steps of a server that is going: nothing is claimed of its sessions.     *)
LEMMA GoingKeeps ==
  ASSUME Inv, Abort \/ Flags \/ CloseAfter \/ DestroyAll
  PROVE  Inv'
<1>0. /\ UNCHANGED <<env, slotOf, pc, fin, tries, idx, cur, asked, given, closed, read, sent, lost>>
      /\ Typed /\ Always /\ ~Filling /\ ~Filling' /\ ~Serving'
      /\ mpc' \in {"flags", "join", "destroy", "off"}
  BY DEF Abort, Flags, CloseAfter, CloseLast, DestroyAll, taskv, mainv, peerv, flowv, Inv, Filling,
     Serving
<1>1. /\ para \in [Slots -> SlotRecord] /\ slotOf \in [Conns -> Slots \union {-1}]
      /\ queue \in [Slots -> [Dirs -> QueueStates]]
      /\ owner \in [Descriptors -> {Free} \union (Conns \X Ends)]
  BY <1>0 DEF Typed, SlotTyped, TaskTyped
<1>2. /\ owner' \in [Descriptors -> {Free} \union (Conns \X Ends)]
      /\ \A c \in Conns, e \in Ends, f \in Descriptors : owner'[f] = <<c, e>> => owner[f] = <<c, e>>
  <2>1. CASE Abort \/ CloseAfter
    BY <1>0, <2>1, ReleaseDoes, NotFree DEF Abort, CloseAfter, CloseLast
  <2>2. CASE UNCHANGED owner
    BY <1>1, <2>2
  <2>. QED  BY <2>1, <2>2 DEF Flags, DestroyAll
<1>3. /\ para' \in [Slots -> SlotRecord]
      /\ \A s \in Slots : /\ para'[s].server_sid = para[s].server_sid
                          /\ para'[s].client_sid = para[s].client_sid
  <2>1. CASE Flags
    <3>1. para' = [s \in Slots |-> [para[s] EXCEPT !.shutdown = 1]]
      BY <2>1 DEF Flags
    <3>2. ASSUME NEW s \in Slots
          PROVE  /\ para'[s] \in SlotRecord /\ para'[s].server_sid = para[s].server_sid
                 /\ para'[s].client_sid = para[s].client_sid
      <4>1. para[s] \in SlotRecord /\ para'[s] = [para[s] EXCEPT !.shutdown = 1] /\ 1 \in 0..1
        BY <1>1, <3>1
      <4>. QED  BY <4>1 DEF SlotRecord
    <3>3. para' \in [Slots -> SlotRecord]
      BY <3>1, <3>2
    <3>. QED  BY <3>2, <3>3
  <2>2. CASE UNCHANGED para
    BY <1>1, <2>2
  <2>. QED  BY <2>1, <2>2 DEF Abort, CloseAfter, CloseLast, DestroyAll
<1>4. queue' \in [Slots -> [Dirs -> QueueStates]]
  BY <1>1 DEF Abort, CloseAfter, CloseLast, DestroyAll, Flags, QueueStates
<1>5. Typed'
  <2>1. last' \in Descriptors \union {NoSid}
    BY <1>0 DEF Abort, CloseAfter, CloseLast, DestroyAll, Flags, Typed, MainTyped
  <2>. QED  BY <1>0, <1>2, <1>3, <1>4, <2>1 DEF Typed, SlotTyped, TaskTyped, MainTyped, FlowTyped,
         Pending
<1>6. MainRules'
  BY <1>0 DEF Always, MainRules
<1>7. ASSUME NEW c \in Conns PROVE Kind(c)' /\ SlotRule(c)'
  BY <1>0 DEF Always, Kind, Tcp, ToRemote, Pending, SlotRule, Current, Over
<1>8. ASSUME NEW c \in Conns PROVE Owned(c)'
  <2>1. Owned(c) /\ (Current(c)' <=> Current(c)) /\ slotOf'[c] = slotOf[c] /\ pc'[c] = pc[c]
    BY <1>0 DEF Always, Current
  <2>2. Current(c) => /\ P(c)'.server_sid = P(c).server_sid /\ P(c)'.client_sid = P(c).client_sid
    <3>1. Current(c) => slotOf[c] \in Slots
      BY <1>1 DEF Current
    <3>. QED  BY <1>3, <2>1, <3>1 DEF P
  <2>. QED  BY <1>0, <1>2, <2>1, <2>2 DEF Owned, Ends
<1>. QED  BY <1>0, <1>5, <1>6, <1>7, <1>8 DEF Inv, Always

(* A connection is accepted: there is a descriptor for it.                  *)
LEMMA AcceptKeeps ==
  ASSUME Inv, Accept
  PROVE  Inv'
<1>0. /\ UNCHANGED <<env, para, queue, slotOf, pc, fin, tries, idx, asked, given, closed,
                     read, sent, lost>>
      /\ Typed /\ Always /\ MainRules /\ ~Filling /\ Serving /\ InService
      /\ \A c \in Conns : Kind(c) /\ SlotRule(c) /\ Owned(c)
  BY DEF Accept, taskv, mainv, peerv, flowv, Inv, Always, Filling, Serving
<1>1. owner \in [Descriptors -> {Free} \union (Conns \X Ends)]
  BY <1>0 DEF Typed, SlotTyped
<1>2. ASSUME NEW c \in Conns PROVE (Current(c)' <=> Current(c)) /\ P(c)' = P(c)
  BY <1>0 DEF Current, P
<1>3. ASSUME NEW c \in Conns PROVE Kind(c)' /\ SlotRule(c)'
  BY <1>0, <1>2 DEF Kind, Tcp, ToRemote, Pending, SlotRule, Over
<1>4. CASE cur < env.conns /\ cur' = cur + 1 /\ last' = LowestUnused /\ mpc' = "search"
           /\ owner' = [owner EXCEPT ![LowestUnused] = <<cur + 1, "client">>]
  <2>0. cur' \in 1..env.conns /\ cur' \in Conns /\ cur \in Nat /\ cur' > cur
    BY <1>0, <1>4, SettingFacts, ConstFacts DEF Typed, MainTyped, Conns
  <2>1. slotOf[cur'] = -1
    BY <1>0, <2>0 DEF MainRules
  <2>2. \A f \in Descriptors : owner[f] # <<cur', "client">>
    BY <1>0, <2>0, <2>1 DEF Owned, Current
  <2>3. LowestUnused \in Descriptors /\ owner[LowestUnused] = Free
    <3> DEFINE n == cur'
    <3>1. n \in Conns /\ \A f \in Descriptors : owner[f] # <<n, "client">>
      BY <2>0, <2>2
    <3> HIDE DEF n
    <3>. QED  BY <1>0, <3>1, Lowest DEF Ends
  <2>4. /\ owner'[last'] = <<cur', "client">> /\ last' \in Descriptors
        /\ \A f \in Descriptors : f # last' => owner'[f] = owner[f]
    BY <1>1, <1>4, <2>3
  <2>5. owner' \in [Descriptors -> {Free} \union (Conns \X Ends)]
    BY <1>1, <1>4, <2>0 DEF Ends
  <2>6. Typed'
    <3>1. MainTyped'
      BY <1>0, <1>4, <2>0, <2>4, SettingFacts DEF Typed, MainTyped
    <3>. QED  BY <1>0, <2>5, <3>1 DEF Typed, SlotTyped, TaskTyped, FlowTyped, Pending
  <2>7. MainRules'
    <3>1. \A c \in Conns : c > cur' => c > cur
      BY <2>0, ConstFacts
    <3>. QED  BY <1>0, <1>4, <2>0, <2>1, <3>1 DEF MainRules, Filling
  <2>8. ASSUME NEW c \in Conns PROVE Owned(c)'
    <3>1. \A f \in Descriptors : owner'[f] = <<c, "remote">> => owner[f] = <<c, "remote">>
      BY <2>4
    <3>2. \A f \in Descriptors : owner'[f] = <<c, "client">> =>
            owner[f] = <<c, "client">> \/ (f = last' /\ c = cur')
      BY <2>4
    <3>. QED  BY <1>0, <1>2, <1>4, <3>1, <3>2 DEF Owned, Filling
  <2>9. InService'
    <3>1. Owns(cur, "client", last)'
      BY <2>4 DEF Owns
    <3>2. ASSUME NEW c \in Conns, Current(c)' PROVE Session(c)'
      <4>1. OwnersKept(c)
        BY <2>3, <2>4, <1>4, NotFree DEF OwnersKept
      <4>2. Session(c)
        BY <1>0, <1>2, <3>2 DEF InService
      <4>. QED  BY <1>0, <1>2, <4>1, <4>2, SessionStays DEF RecordKept, QueuesKept, FlowKept, Q
    <3>. QED  BY <3>1, <3>2 DEF InService
  <2>. QED  BY <1>3, <2>6, <2>7, <2>8, <2>9 DEF Inv, Always
<1>5. CASE last' = NoSid /\ mpc' = "abort" /\ UNCHANGED <<owner, cur>>
  <2>1. Typed'
    BY <1>0, <1>5 DEF Typed, SlotTyped, TaskTyped, MainTyped, FlowTyped, Pending
  <2>2. MainRules' /\ ~Filling' /\ ~Serving'
    BY <1>0, <1>5 DEF MainRules, Filling, Serving
  <2>3. ASSUME NEW c \in Conns PROVE Owned(c)'
    BY <1>0, <1>2, <1>5, <2>2 DEF Owned
  <2>. QED  BY <1>3, <2>1, <2>2, <2>3 DEF Inv, Always
<1>. QED  BY <1>4, <1>5 DEF Accept

-----------------------------------------------------------------------------
(* A slot is filled.  It is not in use, so its connections are over: they   *)
(* have closed their sockets, and what is forgotten of them matters to      *)
(* none.                                                                    *)

LEMMA OverWhenFree ==
  ASSUME Always, NEW c \in Conns, Current(c), Session(c), P(c).usedflag = 0,
         env.remote \in {"TCP", "UDP"}
  PROVE  Over(c) /\ P(c).server_sid = NoSid /\ P(c).client_sid = NoSid
<1>0. Kind(c)
  BY DEF Always
<1>1. CASE Tcp
  <2>1. pc[c].dr = "done" /\ pc[c].dw = "done"
    BY <1>1 DEF Session, Flags2
  <2>2. P(c).client_closewaite = 1
    BY <2>1 DEF Session, Flags1, DwLeft
  <2>3. pc[c].ur \in {"wait", "done"}
    BY <1>0, <1>1, <2>2 DEF Session, Flags1, Kind
  <2>4. pc[c].uw \in {"flag", "done"}
    BY <1>0, <1>1, <2>3 DEF Session, Flags1, Kind, UrLeft, UwLeft
  <2>. QED  BY <1>1, <2>1, <2>3, <2>4 DEF Over, Session, Sockets
<1>2. CASE ~Tcp
  <2>1. pc[c].ur = "done" /\ pc[c].uw = "done"
    BY <1>2 DEF Session, Flags2
  <2>2. pc[c].dw = "none" /\ pc[c].dr = "none"
    BY <1>0, <1>2 DEF Kind
  <2>. QED  BY <1>2, <2>1, <2>2 DEF Over, Session, Sockets
<1>. QED  BY <1>1, <1>2

LEMMA FillFacts ==
  ASSUME Inv, mpc = "fill"
  PROVE  /\ cur \in Conns /\ slotOf[cur] = -1 /\ idx \in Slots /\ -1 \notin Slots
         /\ Owns(cur, "client", last)
         /\ \A c \in Conns : slotOf[c] = idx => Over(c)
         /\ \A c \in Conns, e \in Ends, f \in Descriptors : slotOf[c] = idx => owner[f] # <<c, e>>
<1>1. /\ Typed /\ Always /\ InService /\ MainRules /\ Filling /\ env.remote \in {"TCP", "UDP"}
      /\ para[idx].usedflag = 0
  BY SettingFacts DEF Inv, Always, Serving, Filling, Typed, MainRules
<1>2. cur \in Conns /\ slotOf[cur] = -1 /\ Owns(cur, "client", last)
  BY <1>1 DEF MainRules, InService
<1>3. idx \in Slots
  BY <1>1 DEF Typed, MainTyped
<1>4. -1 \notin Slots
  BY ConstFacts
<1>5. ASSUME NEW c \in Conns, slotOf[c] = idx
      PROVE  Over(c) /\ \A e \in Ends, f \in Descriptors : owner[f] # <<c, e>>
  <2>1. Kind(c) /\ SlotRule(c) /\ Owned(c) /\ c # cur /\ NoSid \notin Descriptors
    BY <1>1, <1>2, <1>3, <1>4, <1>5, ConstFacts DEF Always, NoSid
  <2>2. CASE Current(c)
    <3>1. Session(c) /\ P(c).usedflag = 0
      BY <1>1, <1>5, <2>2 DEF InService, P
    <3>2. Over(c) /\ P(c).server_sid = NoSid /\ P(c).client_sid = NoSid
      BY <1>1, <2>2, <3>1, OverWhenFree
    <3>. QED  BY <2>1, <3>2 DEF Owned, Ends
  <2>3. CASE ~Current(c)
    BY <1>3, <1>4, <1>5, <2>1, <2>3 DEF SlotRule, Owned, Ends
  <2>. QED  BY <2>2, <2>3
<1>. QED  BY <1>2, <1>3, <1>4, <1>5

(* What is forgotten belongs to connections of the slot that have gone.     *)
Forgot(c) == Gone(c) /\ slotOf[c] = idx
Forgets(c) ==
  /\ read'[c] = None /\ sent'[c] = None /\ lost'[c] = None /\ given'[c] = None
  /\ closed'[c] = {}
Remembers(c) ==
  /\ read'[c] = read[c] /\ sent'[c] = sent[c] /\ lost'[c] = lost[c] /\ given'[c] = given[c]
  /\ closed'[c] = closed[c]

LEMMA FillForgets ==
  ASSUME Typed, Fill
  PROVE  /\ FlowTyped' /\ fin' \in [Conns -> {0, 2}] /\ tries' \in [Conns -> [Dirs -> 0..MaxTries]]
         /\ \A c \in Conns : IF Forgot(c) THEN Forgets(c) ELSE Remembers(c)
<1>1. \A c \in Conns : IF Forgot(c) THEN Forgets(c) ELSE Remembers(c)
  BY DEF Fill, Forget, Forgot, Forgets, Remembers
<1>2. /\ given \in [Conns -> [Dirs -> 0..MaxPkts]] /\ read \in [Conns -> [Dirs -> 0..MaxPkts]]
      /\ sent \in [Conns -> [Dirs -> 0..MaxPkts]] /\ lost \in [Conns -> [Dirs -> 0..MaxPkts]]
      /\ closed \in [Conns -> SUBSET Ends] /\ fin \in [Conns -> {0, 2}]
      /\ tries \in [Conns -> [Dirs -> 0..MaxTries]]
  BY DEF Typed, FlowTyped, TaskTyped
<1>3. None \in [Dirs -> 0..MaxPkts] /\ None \in [Dirs -> 0..MaxTries]
      /\ None["up"] = 0 /\ None["down"] = 0
  BY ConstFacts DEF None, Dirs
<1>4. /\ given' \in [Conns -> [Dirs -> 0..MaxPkts]] /\ read' \in [Conns -> [Dirs -> 0..MaxPkts]]
      /\ sent' \in [Conns -> [Dirs -> 0..MaxPkts]] /\ lost' \in [Conns -> [Dirs -> 0..MaxPkts]]
  BY <1>2, <1>3 DEF Fill, Forget
<1>5. /\ closed' \in [Conns -> SUBSET Ends] /\ fin' \in [Conns -> {0, 2}]
      /\ tries' \in [Conns -> [Dirs -> 0..MaxTries]]
  BY <1>2, <1>3 DEF Fill, Forget
<1>6. ASSUME NEW c \in Conns, NEW d \in Dirs PROVE Pending(c, d)' \in 0..Capacity
  <2>1. CASE Forgot(c)
    <3>1. read'[c][d] = 0 /\ sent'[c][d] = 0 /\ lost'[c][d] = 0
      BY <1>1, <1>3, <2>1 DEF Forgets, Dirs
    <3>. QED  BY <3>1, ConstFacts DEF Pending
  <2>2. CASE ~Forgot(c)
    <3>1. Pending(c, d)' = Pending(c, d)
      BY <1>1, <2>2 DEF Remembers, Pending
    <3>. QED  BY <3>1 DEF Typed, FlowTyped
  <2>. QED  BY <2>1, <2>2
<1>. QED  BY <1>1, <1>4, <1>5, <1>6 DEF FlowTyped

LEMMA FillKeeps ==
  ASSUME Inv, Fill
  PROVE  Inv'
<1>0. /\ UNCHANGED <<env, owner, queue, pc, idx, cur, last, asked>> /\ mpc = "fill"
      /\ mpc' = "create" /\ ~Filling' /\ Filling
      /\ Typed /\ Always /\ MainRules /\ Serving /\ InService
      /\ \A c \in Conns : Kind(c) /\ SlotRule(c) /\ Owned(c)
  BY DEF Fill, Inv, Always, Filling, Serving
<1>1. /\ cur \in Conns /\ slotOf[cur] = -1 /\ idx \in Slots /\ -1 \notin Slots
      /\ Owns(cur, "client", last)
      /\ \A c \in Conns : slotOf[c] = idx => Over(c)
      /\ \A c \in Conns, e \in Ends, f \in Descriptors : slotOf[c] = idx => owner[f] # <<c, e>>
  BY <1>0, FillFacts
<1>2. /\ FlowTyped' /\ fin' \in [Conns -> {0, 2}] /\ tries' \in [Conns -> [Dirs -> 0..MaxTries]]
      /\ \A c \in Conns : IF Forgot(c) THEN Forgets(c) ELSE Remembers(c)
  BY <1>0, FillForgets
<1>3. slotOf \in [Conns -> Slots \union {-1}] /\ para \in [Slots -> SlotRecord]
  BY <1>0 DEF Typed, SlotTyped, TaskTyped
<1>4. /\ slotOf'[cur] = idx /\ \A c \in Conns : c # cur => slotOf'[c] = slotOf[c]
      /\ slotOf' \in [Conns -> Slots \union {-1}]
  BY <1>1, <1>3 DEF Fill
<1>5. last \in Descriptors
  BY <1>1 DEF Owns
<1>6. /\ para'[idx] = [usedflag |-> 1, server_sid |-> last, client_sid |-> NoSid,
                       client_closewaite |-> 0, stop_flag |-> 0, shutdown |-> 0, exitFlag |-> {}]
      /\ \A s \in Slots : s # idx => para'[s] = para[s]
      /\ para' \in [Slots -> SlotRecord]
  BY <1>1, <1>3, <1>5 DEF Fill, SlotRecord, Sids
<1>7. /\ P(cur)'.usedflag = 1 /\ P(cur)'.server_sid = last /\ P(cur)'.client_sid = NoSid
      /\ P(cur)'.client_closewaite = 0 /\ P(cur)'.stop_flag = 0 /\ P(cur)'.shutdown = 0
      /\ P(cur)'.exitFlag = {}
  BY <1>0, <1>4, <1>6 DEF P
<1>8. Typed'
  <2>1. MainTyped'
    BY <1>0 DEF Typed, MainTyped
  <2>. QED  BY <1>0, <1>2, <1>4, <1>6, <2>1 DEF Typed, SlotTyped, TaskTyped
<1>9. Current(cur)'
  <2>1. \A b \in Conns : b > cur => b # cur /\ slotOf[b] = -1
    BY <1>0, <1>1, ConstFacts DEF MainRules
  <2>. QED  BY <1>0, <1>1, <1>4, <2>1 DEF Current
<1>10. ASSUME NEW c \in Conns, c # cur
       PROVE  /\ Current(c)' => Current(c) /\ slotOf[c] # idx
              /\ Current(c) /\ slotOf[c] # idx => Current(c)'
  <2>1. c \in Nat /\ cur \in Nat /\ \A b \in Conns : b \in Nat
    BY <1>1, ConstFacts
  <2>2. slotOf[c] # -1 => cur > c
    BY <1>0, <1>10, <2>1 DEF MainRules
  <2>. QED  BY <1>0, <1>1, <1>4, <1>10, <2>1, <2>2 DEF Current
<1>11. Remembers(cur)
  BY <1>1, <1>2 DEF Forgot
<1>12. MainRules'
  <2>1. pc[cur].uw = "none"
    BY <1>0, <1>1 DEF SlotRule
  <2>2. \A c \in Conns : c > cur => c # cur
    BY <1>1, ConstFacts
  <2>. QED  BY <1>0, <1>1, <1>4, <2>1, <2>2 DEF MainRules, Filling
<1>13. ASSUME NEW c \in Conns PROVE Kind(c)'
  <2>1. CASE Forgot(c)
    <3>1. pc[c].ur \notin {"send", "reconnect"}
      BY <2>1 DEF Forgot, Gone, Tasks
    <3>. QED  BY <1>0, <3>1 DEF Kind, Tcp, ToRemote
  <2>2. CASE ~Forgot(c)
    <3>1. Pending(c, "up")' = Pending(c, "up")
      BY <1>2, <2>2 DEF Remembers, Pending
    <3>. QED  BY <1>0, <3>1 DEF Kind, Tcp, ToRemote
  <2>. QED  BY <2>1, <2>2
<1>14. ASSUME NEW c \in Conns PROVE SlotRule(c)'
  <2>1. CASE c = cur
    <3>1. slotOf'[cur] # -1
      BY <1>1, <1>4
    <3>. QED  BY <1>0, <1>9, <2>1, <3>1 DEF SlotRule
  <2>2. CASE c # cur /\ slotOf[c] = -1
    <3>1. Remembers(c)
      BY <1>1, <1>2, <2>2 DEF Forgot
    <3>. QED  BY <1>0, <1>4, <2>2, <3>1 DEF SlotRule, Remembers
  <2>3. CASE c # cur /\ slotOf[c] # -1
    <3>1. Over(c) => Over(c)'
      BY <1>0 DEF Over, Tcp, ToRemote
    <3>2. Over(c) \/ (Current(c) /\ slotOf[c] # idx)
      BY <1>0, <1>1, <2>3 DEF SlotRule
    <3>. QED  BY <1>4, <1>10, <2>3, <3>1, <3>2 DEF SlotRule
  <2>. QED  BY <2>1, <2>2, <2>3
<1>15. ASSUME NEW c \in Conns, c # cur, Current(c), slotOf[c] # idx PROVE P(c)' = P(c)
  <2>1. slotOf[c] \in Slots /\ slotOf'[c] = slotOf[c]
    BY <1>3, <1>4, <1>15 DEF Current
  <2>. QED  BY <1>6, <1>15, <2>1 DEF P
<1>16. ASSUME NEW c \in Conns PROVE Owned(c)'
  <2>1. CASE c = cur
    <3>1. ~Current(cur) /\ NoSid < 0
      BY <1>1 DEF Current, NoSid
    <3>. QED  BY <1>0, <1>7, <1>9, <2>1, <3>1 DEF Owned
  <2>2. CASE c # cur /\ slotOf[c] = idx
    BY <1>0, <1>1, <1>10, <2>2 DEF Owned, Ends
  <2>3. CASE c # cur /\ slotOf[c] # idx
    BY <1>0, <1>10, <1>15, <2>3 DEF Owned
  <2>. QED  BY <2>1, <2>2, <2>3
<1>17. Session(cur)'
  <2>1. pc[cur].uw = "none" /\ pc[cur].ur = "none" /\ pc[cur].dw = "none" /\ pc[cur].dr = "none"
    BY <1>0, <1>1 DEF SlotRule, Kind
  <2>2. ~UwLeft(cur)' /\ ~UrLeft(cur)' /\ ~DwLeft(cur)' /\ ~DrLeft(cur)'
    BY <1>0, <2>1 DEF UwLeft, UrLeft, DwLeft, DrLeft
  <2>3. lost'[cur]["up"] = 0 /\ lost'[cur]["down"] = 0
    BY <1>0, <1>1, <1>11 DEF SlotRule, Remembers, None, Dirs
  <2>4. last # NoSid /\ NoSid # Failed
    BY <1>5, ConstFacts DEF NoSid, Failed
  <2>5. Flags1(cur)' /\ Flags2(cur)'
    BY <1>0, <1>7, <2>1, <2>2 DEF Flags1, Flags2
  <2>6. Sockets(cur)'
    BY <1>0, <1>1, <1>7, <2>1, <2>4 DEF Sockets, Owns
  <2>7. Relay(cur)'
    BY <1>0, <1>7, <2>2, <2>3 DEF Relay
  <2>. QED  BY <2>5, <2>6, <2>7 DEF Session
<1>18. ASSUME NEW c \in Conns, c # cur, Current(c)' PROVE Session(c)'
  <2>1. Current(c) /\ slotOf[c] # idx /\ slotOf'[c] = slotOf[c] /\ Session(c) /\ P(c)' = P(c)
    BY <1>0, <1>4, <1>10, <1>15, <1>18 DEF InService
  <2>2. Remembers(c)
    BY <1>2, <2>1 DEF Forgot
  <2>3. QueuesKept(c) /\ OwnersKept(c) /\ RecordKept(c) /\ FlowKept(c)
    BY <1>0, <2>1, <2>2 DEF QueuesKept, OwnersKept, RecordKept, FlowKept, Q, Remembers
  <2>. QED  BY <1>0, <2>1, <2>2, <2>3, SessionStays DEF Remembers
<1>19. InService'
  BY <1>0, <1>17, <1>18 DEF InService
<1>. QED  BY <1>8, <1>12, <1>13, <1>14, <1>16, <1>19 DEF Inv, Always

(* The queues of the slot are created and the tasks handed out, or not.     *)
LEMMA CreateKeeps ==
  ASSUME Inv, Create
  PROVE  Inv'
<1>0. /\ UNCHANGED <<env, owner, para, slotOf, fin, tries, cur, last, asked, given, closed,
                     read, sent, lost>>
      /\ mpc = "create" /\ ~Filling /\ ~Filling' /\ mpc' \in {"test", "flags"}
      /\ Typed /\ Always /\ MainRules /\ Serving /\ InService
      /\ \A c \in Conns : Kind(c) /\ SlotRule(c) /\ Owned(c)
      /\ env.remote \in {"TCP", "UDP"}
  BY SettingFacts DEF Create, AfterTest, Inv, Always, Filling, Serving, peerv, flowv, Typed
<1>1. /\ cur \in Conns /\ slotOf[cur] = idx /\ idx \in Slots /\ slotOf \in [Conns -> Slots \union {-1}]
      /\ pc \in [Conns -> [Tasks -> Labels]] /\ queue \in [Slots -> [Dirs -> QueueStates]]
      /\ pc[cur].uw = "none"
  BY <1>0 DEF MainRules, Typed, MainTyped, SlotTyped, TaskTyped
<1>2. Current(cur)
  <2>1. \A b \in Conns : b > cur => slotOf[b] = -1
    BY <1>0 DEF MainRules
  <2>2. idx # -1
    <3>1. -1 \notin Slots
      BY ConstFacts
    <3>. QED  BY <1>1, <3>1
  <2>. QED  BY <1>1, <2>1, <2>2 DEF Current
<1>3. pc[cur].ur = "none" /\ pc[cur].dw = "none" /\ pc[cur].dr = "none"
  BY <1>0, <1>1 DEF Kind
<1>4. /\ \A c \in Conns : c # cur => pc'[c] = pc[c]
      /\ \A s \in Slots : s # idx => queue'[s] = queue[s]
      /\ pc' \in [Conns -> [Tasks -> Labels]] /\ queue' \in [Slots -> [Dirs -> QueueStates]]
      /\ idx' \in Slots
  <2>1. (idx + 1) % NSlots \in Slots
    BY <1>1, ConstFacts
  <2>2. \A t \in Tasks : First(t) \in Labels
    BY DEF First, Labels
  <2>3. CASE UNCHANGED <<pc, idx>> /\ queue' = [queue EXCEPT ![idx].up = "gone"]
    BY <1>1, <2>3 DEF QueueStates, Dirs
  <2>4. CASE /\ queue' = [queue EXCEPT ![idx] =
                            [d \in Dirs |-> IF d = "up" \/ ToRemote = "TCP"
                                              THEN "open" ELSE @[d]]]
             /\ pc' = [pc EXCEPT ![cur] =
                         [t \in Tasks |-> IF t \in {"uw", "ur"} \/ ToRemote = "TCP"
                                            THEN First(t) ELSE "none"]]
             /\ idx' = (idx + 1) % NSlots
    <3>1. queue' \in [Slots -> [Dirs -> QueueStates]] /\ \A s \in Slots : s # idx => queue'[s] = queue[s]
      BY <1>1, <2>4 DEF QueueStates, Dirs
    <3>2. pc' \in [Conns -> [Tasks -> Labels]] /\ \A c \in Conns : c # cur => pc'[c] = pc[c]
      <4>1. [t \in Tasks |-> IF t \in {"uw", "ur"} \/ ToRemote = "TCP"
                              THEN First(t) ELSE "none"] \in [Tasks -> Labels]
        BY <2>2 DEF Labels
      <4>. QED  BY <1>1, <2>4, <4>1
    <3>. QED  BY <2>1, <2>4, <3>1, <3>2
  <2>. QED  BY <2>3, <2>4 DEF Create
<1>5. \/ UNCHANGED pc /\ env.fails
      \/ /\ pc'[cur].uw \in {"ready", "run"} /\ pc'[cur].ur \in {"ready", "connect"}
         /\ IF Tcp THEN pc'[cur].dw \in {"ready", "run"} /\ pc'[cur].dr \in {"ready", "run"}
                        /\ Q(cur, "down")' = "open"
                   ELSE pc'[cur].dw = "none" /\ pc'[cur].dr = "none"
         /\ Q(cur, "up")' = "open"
  BY <1>0, <1>1 DEF Create, First, Tcp, Q, Tasks, Dirs
<1>6. Typed'
  <2>1. MainTyped'
    BY <1>0, <1>4 DEF Typed, MainTyped
  <2>. QED  BY <1>0, <1>4, <2>1 DEF Typed, SlotTyped, TaskTyped, FlowTyped, Pending
<1>7. MainRules'
  BY <1>0, <1>4 DEF MainRules, Filling
<1>8. ASSUME NEW c \in Conns PROVE (Current(c)' <=> Current(c)) /\ P(c)' = P(c)
  BY <1>0 DEF Current, P
<1>9. ASSUME NEW c \in Conns, c # cur PROVE Kind(c)' /\ SlotRule(c)' /\ Owned(c)'
  BY <1>0, <1>4, <1>8, <1>9 DEF Kind, Tcp, ToRemote, Pending, SlotRule, Over, Owned
<1>10. Kind(cur)' /\ SlotRule(cur)' /\ Owned(cur)'
  <2>1. Kind(cur) /\ Owned(cur) /\ Tcp' = Tcp /\ Pending(cur, "up")' = Pending(cur, "up")
    BY <1>0, <1>1 DEF Tcp, ToRemote, Pending
  <2>2. Kind(cur)'
    BY <1>0, <1>1, <1>3, <1>5, <2>1 DEF Kind, Labels
  <2>3. SlotRule(cur)'
    BY <1>0, <1>1, <1>2, <1>8, ConstFacts DEF SlotRule, Current
  <2>4. Owned(cur)'
    BY <1>0, <1>1, <1>2, <1>3, <1>5, <1>8, <2>1 DEF Owned
  <2>. QED  BY <2>2, <2>3, <2>4
<1>11. ASSUME NEW c \in Conns, c # cur, Current(c)' PROVE Session(c)'
  <2>1. Current(c) /\ Session(c)
    BY <1>0, <1>8, <1>11 DEF InService
  <2>2. slotOf[c] # idx /\ slotOf[c] \in Slots
    BY <1>1, <1>2, <1>11, <2>1, OneCurrent DEF Current
  <2>3. QueuesKept(c)
    BY <1>0, <1>4, <2>2 DEF QueuesKept, Q
  <2>. QED  BY <1>0, <1>4, <1>8, <1>11, <2>1, <2>3, SessionStays
         DEF RecordKept, FlowKept, OwnersKept
<1>12. Session(cur)'
  <2>1. Session(cur) /\ Owned(cur) /\ Tcp' = Tcp
    BY <1>0, <1>1, <1>2 DEF InService, Tcp, ToRemote
  <2>2. ~UwLeft(cur)' /\ ~UrLeft(cur)' /\ ~DwLeft(cur)' /\ ~DrLeft(cur)'
    BY <1>0, <1>1, <1>3, <1>5 DEF UwLeft, UrLeft, DwLeft, DrLeft
  <2>3. P(cur)' = P(cur)
    BY <1>0, <1>1, <1>8
  <2>4. Flags1(cur)'
    BY <1>0, <1>1, <1>3, <1>5, <2>1, <2>2, <2>3 DEF Session, Flags1, DwLeft
  <2>5. Flags2(cur)'
    BY <1>0, <1>1, <1>3, <1>5, <2>1, <2>3 DEF Session, Flags2, Flags1
  <2>6. Sockets(cur)'
    <3>1. P(cur).client_sid < 0 /\ P(cur).server_sid # NoSid
      BY <1>0, <1>1, <1>2, <1>3, <2>1 DEF Owned, Session, Sockets
    <3>. QED  BY <1>0, <1>1, <1>3, <1>5, <2>1, <2>3, <3>1 DEF Session, Sockets, Owns
  <2>7. Relay(cur)'
    <3>1. AtEnd(cur, "down")' = AtEnd(cur, "down")
      BY <1>0 DEF AtEnd
    <3>. QED  BY <1>0, <2>1, <2>2, <2>3, <3>1 DEF Session, Relay
  <2>. QED  BY <2>4, <2>5, <2>6, <2>7 DEF Session
<1>13. InService'
  BY <1>0, <1>11, <1>12 DEF InService
<1>14. ASSUME NEW c \in Conns PROVE Kind(c)' /\ SlotRule(c)' /\ Owned(c)'
  BY <1>0, <1>9, <1>10
<1>. QED  BY <1>6, <1>7, <1>13, <1>14 DEF Inv, Always

-----------------------------------------------------------------------------
(* Every step keeps the invariant.                                          *)

LEMMA StepInv == Inv /\ [Next]_vars => Inv'
<1> SUFFICES ASSUME Inv, [Next]_vars PROVE Inv'
  OBVIOUS
<1>1. CASE Ask \/ TestTop \/ Search \/ Join
  BY <1>1, QuietKeeps
<1>2. CASE Accept
  BY <1>2, AcceptKeeps
<1>3. CASE Fill
  BY <1>3, FillKeeps
<1>4. CASE Create
  BY <1>4, CreateKeeps
<1>5. CASE Abort \/ Flags \/ CloseAfter \/ DestroyAll
  BY <1>5, GoingKeeps
<1>6. CASE \E c \in Conns : TaskStep(c)
  BY <1>6, TaskKeeps
<1>7. CASE \E c \in Conns, d \in Dirs : PeerCloses(c, d)
  BY <1>7, PeerKeeps
<1>8. CASE UNCHANGED vars
  <2>1. UNCHANGED <<env, owner, para, queue, slotOf, pc, fin, tries, mpc, idx, cur, last, asked,
                    given, read, sent, lost, closed>>
    BY <1>8 DEF vars, taskv, mainv, peerv, flowv
  <2>2. Typed'
    BY <2>1 DEF Inv, Typed, SlotTyped, TaskTyped, MainTyped, FlowTyped, Pending
  <2>3. \A c \in Conns : Current(c)' = Current(c) /\ P(c)' = P(c)
    BY <2>1 DEF Current, P
  <2>4. MainRules' /\ Filling' = Filling /\ Serving' = Serving
    BY <2>1 DEF Inv, Always, MainRules, Filling, Serving
  <2>5. \A c \in Conns : Kind(c)' /\ SlotRule(c)' /\ Owned(c)'
    BY <2>1, <2>3, <2>4 DEF Inv, Always, Kind, Tcp, ToRemote, Pending, SlotRule, Over, Owned
  <2>6. ASSUME InService PROVE InService'
    <3>1. ASSUME NEW c \in Conns, Current(c)' PROVE Session(c)'
      BY <2>1, <2>3, <2>6, <3>1, SessionStays DEF InService, RecordKept, QueuesKept, FlowKept,
         OwnersKept, Q
    <3>. QED  BY <2>1, <2>4, <2>6, <3>1 DEF InService, Owns
  <2>. QED  BY <2>2, <2>4, <2>5, <2>6 DEF Inv, Always
<1>. QED  BY <1>1, <1>2, <1>3, <1>4, <1>5, <1>6, <1>7, <1>8 DEF Next, Run, TaskStep

(* The invariant holds in every reachable state.                            *)
LEMMA InvAlways == Spec => []Inv
<1>1. Init => Inv
  BY InitInv
<1>2. Inv /\ [Next]_vars => Inv'
  BY StepInv
<1>. QED  BY <1>1, <1>2, PTL DEF Spec

(* Types: the fields of a slot, the descriptors and the counters of packets *)
(* keep their ranges, and a queue its capacity (tcp_socket.h:14).           *)
THEOREM TypeCorrect == Spec => []TypeOK
<1>1. Inv => TypeOK
  <2> SUFFICES ASSUME Inv PROVE TypeOK
    OBVIOUS
  <2>1. SlotTyped /\ TaskTyped /\ MainTyped /\ FlowTyped
    BY DEF Inv, Typed
  <2>2. cur \in 0..MaxConns
    BY <2>1, SettingFacts, ConstFacts DEF MainTyped
  <2>3. \A f \in {given, read, sent, lost} : f \in [Conns -> [Dirs -> 0..MaxPkts]]
    BY <2>1 DEF FlowTyped
  <2>. QED  BY <2>1, <2>2, <2>3 DEF TypeOK, SlotTyped, SlotRecord, Sids, QueueStates, TaskTyped,
         Labels, MainTyped, FlowTyped
<1>. QED  BY <1>1, InvAlways, PTL

(* A session in service: the tasks leave one after the other.               *)
LEMMA LeavingOrder ==
  ASSUME Inv, NEW c \in Conns, Proper(c)
  PROVE  /\ Session(c) /\ Kind(c) /\ SlotRule(c) /\ Owned(c) /\ env.remote \in {"TCP", "UDP"}
         /\ DrLeft(c) => UwLeft(c) /\ UrLeft(c) /\ DwLeft(c)
         /\ UrLeft(c) => UwLeft(c)
<1>1. Session(c) /\ Kind(c) /\ SlotRule(c) /\ Owned(c) /\ env.remote \in {"TCP", "UDP"}
  BY SettingFacts DEF Proper, Inv, InService, Always, Typed
<1>2. DwLeft(c) => UrLeft(c)
  BY <1>1 DEF Session, Flags1, UrLeft
<1>. QED  BY <1>1, <1>2 DEF Session, Flags1

LEMMA InvDescriptors == ASSUME Inv PROVE OwnDescriptors /\ NothingLeaks
<1>1. ASSUME NEW c \in Conns, Proper(c)
      PROVE  /\ (pc[c].uw = "run" /\ P(c).stop_flag = 0) \/ pc[c].uw = "close"
                  => Owns(c, "client", P(c).server_sid)
             /\ pc[c].dr \in {"run", "close"} => Owns(c, "client", P(c).server_sid)
             /\ P(c).client_sid >= 0 => Owns(c, "remote", P(c).client_sid)
  <2>1. /\ Session(c) /\ Kind(c) /\ (DrLeft(c) => UwLeft(c))
    BY <1>1, LeavingOrder
  <2>2. pc[c].uw \in {"run", "close"} => P(c).server_sid # NoSid
    BY <2>1 DEF Session, Sockets, Kind, UwLeft, DrLeft
  <2>3. pc[c].dr \in {"run", "close"} => P(c).server_sid # NoSid
    BY <2>1 DEF Session, Sockets, Kind
  <2>4. P(c).client_sid >= 0 => P(c).client_sid # NoSid /\ P(c).client_sid # Failed
    BY DEF NoSid, Failed
  <2>. QED  BY <2>1, <2>2, <2>3, <2>4 DEF Session, Sockets
<1>2. ASSUME NEW c \in Conns, Proper(c), Started(c), Gone(c), NEW f \in Descriptors
      PROVE  owner[f][1] # c
  <2>1. Session(c) /\ Kind(c) /\ Owned(c)
    BY <1>2, LeavingOrder
  <2>2. pc[c].uw = "done" /\ pc[c].ur = "done" /\ (Tcp => pc[c].dw = "done" /\ pc[c].dr = "done")
    <3>1. pc[c].uw # "none"
      BY <1>2, <2>1 DEF Started, Tasks, Kind
    <3>. QED  BY <1>2, <2>1, <3>1 DEF Gone, Tasks, Kind
  <2>3. P(c).server_sid = NoSid /\ P(c).client_sid = NoSid
    BY <2>1, <2>2 DEF Session, Sockets
  <2>4. NoSid \notin Descriptors /\ 0 \notin Conns
    BY ConstFacts DEF NoSid, Conns
  <2>5. ~(Filling /\ c = cur)
    BY <1>2 DEF Proper, Current, Inv, Always, MainRules
  <2>6. \A e \in Ends : owner[f] # <<c, e>>
    BY <2>1, <2>3, <2>4, <2>5 DEF Owned, Ends
  <2>7. owner[f] \in {Free} \union (Conns \X Ends)
    BY DEF Inv, Typed, SlotTyped
  <2>. QED  BY <2>4, <2>6, <2>7 DEF Free
<1>. QED  BY <1>1, <1>2 DEF OwnDescriptors, NothingLeaks

(* Every socket of a session is closed once, by its own session: while the  *)
(* server serves, no task reads, writes or closes a descriptor that the     *)
(* system has handed to someone else, and when the tasks of a session have  *)
(* gone none of its sockets is open (tcp_socket.cpp:396-404, 550-560).      *)
THEOREM DescriptorsHold == Spec => []DescriptorsSound
<1>1. Inv => OwnDescriptors /\ NothingLeaks
  BY InvDescriptors
<1>2. TypeOK /\ OwnDescriptors /\ NothingLeaks => DescriptorsSound
  BY DEF DescriptorsSound
<1>. QED  BY <1>1, <1>2, InvAlways, TypeCorrect, PTL

LEMMA InvRelay == ASSUME Inv PROVE RelayComplete
<1> SUFFICES ASSUME NEW c \in Conns, Proper(c)
             PROVE  /\ UrLeft(c) => /\ Pending(c, "up") = 0
                                    /\ \/ AtEnd(c, "up")
                                       \/ "remote" \in closed[c] /\ ToRemote = "TCP"
                                       \/ env.fails
                    /\ DrLeft(c) => /\ Pending(c, "down") = 0
                                    /\ \/ AtEnd(c, "down") \/ "client" \in closed[c] \/ env.fails
                    /\ lost[c].up > 0 => "remote" \in closed[c] \/ env.fails
                    /\ lost[c].down > 0 => "client" \in closed[c] \/ env.fails
  BY DEF RelayComplete, UrLeft, DrLeft
<1>1. Session(c) /\ (DrLeft(c) => UwLeft(c)) /\ (UrLeft(c) => UwLeft(c))
  BY LeavingOrder
<1>2. UwLeft(c) => \/ AtEnd(c, "up") \/ env.fails
                   \/ (AtEnd(c, "down") /\ Tcp)
  BY <1>1 DEF Session, Relay, Reason
<1>3. (AtEnd(c, "up") => "client" \in closed[c]) /\ (AtEnd(c, "down") => "remote" \in closed[c])
  BY DEF AtEnd, PeerOf
<1>. QED  BY <1>1, <1>2, <1>3 DEF Session, Relay, Tcp

(* A session is closed only when the relay is complete: a task that sends   *)
(* to an end leaves when all that the other end had sent was sent on, or    *)
(* because its own end closed, and no packet is lost before that unless     *)
(* calls fail (tcp_socket.cpp:362-372, 474).                                *)
THEOREM RelayHolds == Spec => []RelayComplete
<1>1. Inv => RelayComplete
  BY InvRelay
<1>. QED  BY <1>1, InvAlways, PTL

LEMMA InvSlot == ASSUME Inv PROVE SlotGivenBack
<1> SUFFICES ASSUME NEW c \in Conns, Proper(c), Started(c)
             PROVE  /\ P(c).usedflag = 0 =>
                       /\ pc[c].dw \in {"none", "done"} /\ pc[c].dr \in {"none", "done"}
                       /\ pc[c].uw \in {"flag", "done"} /\ pc[c].ur \in {"wait", "done"}
                       /\ ToRemote = "UDP" => Gone(c)
                    /\ Gone(c) => P(c).usedflag = 0
  BY DEF SlotGivenBack
<1>1. Session(c) /\ Kind(c) /\ env.remote \in {"TCP", "UDP"} /\ Always /\ Current(c)
  BY LeavingOrder DEF Inv, Proper
<1>2. pc[c].uw # "none"
  BY <1>1 DEF Started, Tasks, Kind
<1>3. P(c).usedflag = 0 => Over(c)
  BY <1>1, OverWhenFree
<1>4. ToRemote = "UDP" => ~Tcp
  BY DEF Tcp
<1>5. Gone(c) => pc[c].ur = "done" /\ (Tcp => pc[c].dr = "done")
  BY <1>1, <1>2 DEF Gone, Tasks, Kind
<1>6. Gone(c) => P(c).usedflag = 0
  BY <1>1, <1>5 DEF Session, Flags2
<1>. QED  BY <1>3, <1>4, <1>6 DEF Over, Gone, Tasks

(* A slot is free exactly when the tasks that close its sockets have gone:  *)
(* none that comes after it is given back does more than set its exitFlag   *)
(* and destroy its UP queue, and no session that has gone keeps one         *)
(* (tcp_socket.cpp:584).                                                    *)
THEOREM SlotHolds == Spec => []SlotGivenBack
<1>1. Inv => SlotGivenBack
  BY InvSlot
<1>. QED  BY <1>1, InvAlways, PTL

-----------------------------------------------------------------------------
(* The connection to the remote, while a task reads it.                     *)

Stays(c) == Proper(c) /\ pc[c].dw = "run" /\ P(c).client_sid >= 0
              /\ pc'[c].dw = "run" => P(c)'.client_sid = P(c).client_sid

LEMMA StaysInTask ==
  ASSUME Inv, NEW b \in Conns, TaskStep(b), NEW c \in Conns
  PROVE  Stays(c)
<1> SUFFICES ASSUME Proper(c), pc[c].dw = "run", P(c).client_sid >= 0, pc'[c].dw = "run"
             PROVE  P(c)'["client_sid"] = P(c)["client_sid"]
  BY DEF Stays
<1>0. Typed /\ Always /\ Kind(c) /\ Current(c) /\ slotOf[b] \in Slots
  BY TaskSlot DEF Inv, Always, Proper
<1>1. CASE b # c
  BY <1>0, <1>1, OtherSockets
<1>2. CASE b = c
  <2>1. FieldMoves(c)
    BY <1>0, <1>2, FieldsOf
  <2>2. ~Connect(c)
    <3>1. Connect(c) => P(c).client_sid < 0
      BY <1>0, ConnectFree DEF Connect
    <3>2. P(c).client_sid \in Sids
      <4>1. slotOf[c] \in Slots /\ para \in [Slots -> SlotRecord]
        BY <1>0, <1>2 DEF Typed, SlotTyped
      <4>. QED  BY <4>1 DEF P, SlotRecord
    <3>3. P(c).client_sid \in Int
      BY <3>2, ConstFacts DEF Sids, NoSid, Failed
    <3>. QED  BY <3>1, <3>3
  <2>3. ~DownClose(c)
    BY DEF DownClose
  <2>4. Tcp /\ ToRemote # "UDP" /\ pc[c].ur # "close"
    BY <1>0 DEF Kind, Tcp
  <2>5. ~UpGiveUp(c) /\ ~UpReaderClose(c)
    BY <2>4 DEF UpGiveUp, UpReaderClose
  <2>. QED  BY <2>1, <2>2, <2>3, <2>5 DEF FieldMoves, Kept
<1>. QED  BY <1>1, <1>2

LEMMA StaysInRun ==
  ASSUME Inv, Run, NEW c \in Conns
  PROVE  Stays(c)
<1> SUFFICES ASSUME Proper(c), pc[c].dw = "run", P(c).client_sid >= 0, pc'[c].dw = "run"
             PROVE  P(c)'.client_sid = P(c).client_sid
  BY DEF Stays
<1>0. slotOf[c] # -1 /\ slotOf[c] \in Slots /\ para \in [Slots -> SlotRecord] /\ slotOf \in [Conns -> Slots \union {-1}]
  BY DEF Proper, Current, Inv, Typed, SlotTyped, TaskTyped
<1>1. CASE Fill
  <2>1. mpc = "fill"
    BY <1>1 DEF Fill
  <2>2. slotOf[c] # idx /\ c # cur
    BY <1>0, <2>1, FillFacts DEF Over
  <2>3. slotOf'[c] = slotOf[c] /\ para'[slotOf[c]] = para[slotOf[c]]
    BY <1>0, <1>1, <2>2 DEF Fill
  <2>. QED  BY <2>3 DEF P
<1>2. CASE Flags
  <2>1. slotOf'[c] = slotOf[c] /\ para' = [s \in Slots |-> [para[s] EXCEPT !.shutdown = 1]]
    BY <1>2 DEF Flags, taskv
  <2>2. para'[slotOf[c]] = [para[slotOf[c]] EXCEPT !.shutdown = 1] /\ para[slotOf[c]] \in SlotRecord
    BY <1>0, <2>1
  <2>. QED  BY <2>1, <2>2 DEF P, SlotRecord
<1>3. CASE UNCHANGED <<para, slotOf>>
  BY <1>3 DEF P
<1>. QED  BY <1>1, <1>2, <1>3 DEF Run, TestTop, Accept, Search, Create, Abort, CloseAfter,
       CloseLast, Join, DestroyAll, taskv

(* While the task that reads the remote runs, the connection it reads is    *)
(* not replaced: the code that copes with another one                       *)
(* (tcp_socket.cpp:353-360) is never needed.                                *)
THEOREM ConnectionHolds == Spec => ConnectionStays
<1>1. Inv /\ [Next]_vars =>
        [\A c \in Conns : Proper(c) /\ pc[c].dw = "run" /\ P(c).client_sid >= 0
           /\ pc'[c].dw = "run" => P(c)'.client_sid = P(c).client_sid]_vars
  <2> SUFFICES ASSUME Inv, Next, NEW c \in Conns PROVE Stays(c)
    BY DEF Stays
  <2>1. CASE Ask
    BY <2>1 DEF Ask, taskv, Stays, P
  <2>2. CASE Run
    BY <2>2, StaysInRun
  <2>3. CASE \E b \in Conns : TaskStep(b)
    BY <2>3, StaysInTask
  <2>4. CASE \E b \in Conns, d \in Dirs : PeerCloses(b, d)
    BY <2>4 DEF PeerCloses, taskv, Stays, P
  <2>. QED  BY <2>1, <2>2, <2>3, <2>4 DEF Next, TaskStep
<1>. QED  BY <1>1, InvAlways, PTL DEF Spec, ConnectionStays
=============================================================================
