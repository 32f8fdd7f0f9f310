--------------------------- MODULE TcpProxyProofs ---------------------------
(***************************************************************************)
(* Proofs about TcpProxy (tcp_socketprox.cpp) for every number of flows,   *)
(* slots, packets and retries, for the forward proxy and for a reverse     *)
(* proxy that refills no slot early (Sound): Inv says at each point of the *)
(* tasks of a connection which of its sockets are open and where they are  *)
(* named, what its slot and its number say of the tasks, and that no       *)
(* socket and no slot belongs to two.  Each step of a task changes what is *)
(* said of its own connection only (TaskKeeps).  Held says that the        *)
(* forward proxy keeps a slot taken while a task of it runs.               *)
(***************************************************************************)
EXTENDS TcpProxy, FiniteSetTheorems, WellFoundedInduction, TLAPS

-----------------------------------------------------------------------------
(* Types, by what changes together.                                        *)

WriterLabels == {"none", "insert", "run", "recv", "end", "flag", "done"}
ReaderLabels == {"none", "run", "send", "delete", "close", "wait", "done"}
Sids == Descriptors \union {NoSid, Unset, 0}
SlotRecord == [usedflag : 0..1, server : Descriptors \union {NoSid, 0}, client : Sids,
               client2 : Sids, closewaiting : 0..1, stopflag : 0..1, exitFlag : SUBSET Dirs]
QueueStates == {"open", "ended", "gone"}

SlotTyped ==
  /\ env \in Settings
  /\ owner \in [Descriptors -> {Free} \union (Conns \X Ends)]
  /\ para \in [Slots -> SlotRecord]
  /\ queue \in [Slots -> [Dirs -> QueueStates]]
  /\ idx \in [Servers -> 0..(NSlots - 1)] /\ waiting \in [Servers -> Conns \union {0}]
  /\ slotOf \in [Conns -> Slots \union {NoSlot}]
SidTyped == DOMAIN sids \subseteq Flows /\ \A n \in DOMAIN sids : sids[n] \in Descriptors
TaskTyped ==
  /\ writer \in [Conns -> [Dirs -> [pc : WriterLabels, first : 0..1]]]
  /\ reader \in [Conns -> [Dirs -> [pc : ReaderLabels, pktid : Flows \union {0}, tries : 0..MaxTries]]]
CountTyped ==
  /\ count \in [Conns -> [Dirs -> 0..(MaxPkts + 1)]] /\ read \in [Conns -> [Dirs -> 0..(MaxPkts + 1)]]
  /\ closed \in [Conns -> SUBSET Ends]
Typed == SlotTyped /\ SidTyped /\ TaskTyped /\ CountTyped

-----------------------------------------------------------------------------
(* The invariant.                                                          *)

Began(c) == waiting[ServerOf(c)] = c \/ Started(c)
Flow(c) == AtClient /\ c <= N      \* a browser's connection to the forward proxy
Answer(c) == AtClient /\ c > N     \* a connection that brings answers to it

(* Which tasks a connection has, and where they can be.                    *)
Kind(c) ==
  /\ \A d \in Dirs : /\ Started(c) /\ Has(c, d) <=> writer[c][d].pc # "none"
                     /\ writer[c][d].pc = "none" <=> reader[c][d].pc = "none"
  /\ writer[c].up.pc \in {"insert", "recv"} => AtClient
  /\ writer[c].down.pc \notin {"insert", "recv"}
  /\ reader[c].up.pc # "delete"
  /\ reader[c].down.pc = "delete" => AtClient
  /\ env.calm => writer[c].up.pc # "recv"
  /\ Began(c) => AtClient \/ c <= N

(* What has been read, and what that says of the tasks.                    *)
Pkts(c) ==
  /\ \A d \in Dirs : /\ count[c][d] <= read[c][d]
                     /\ reader[c][d].pc = "send" => count[c][d] > 0
                     /\ writer[c][d].first = 1 <=> read[c][d] = 0
  /\ AtClient /\ writer[c].up.pc = "insert" => read[c].up = 0
  /\ ~Started(c) => read[c].up = 0 /\ read[c].down = 0
  /\ AtClient /\ writer[c].up.pc \in {"recv", "end", "flag", "done"} => read[c].up > 0
Answered(c) ==
  /\ Began(c) => read[c - N].up > 0
  /\ writer[c].down.pc \in {"end", "flag", "done"} => read[c].down > 0
  /\ "server" \in closed[c] => read[c].down > 0
  /\ reader[c].down.pktid \in {0, c - N}
  /\ reader[c].down.pc = "none" => reader[c].down.pktid = 0
  /\ reader[c].down.pktid = 0 => count[c].down = read[c].down
  /\ reader[c].down.pc \in {"send", "delete", "close", "wait", "done"} => reader[c].down.pktid = c - N

(* A slot is one connection's at a time, and taken only while that has a   *)
(* reader that gives it back.                                              *)
Returner(c) == IF AtClient THEN ServerOf(c) ELSE "down"
Holds(c) == reader[c][Returner(c)].pc \notin {"none", "done"}
SlotRules ==
  /\ \A v \in Servers : waiting[v] # 0 =>
       /\ ServerOf(waiting[v]) = v /\ ~Started(waiting[v])
       /\ \E f \in Descriptors : owner[f] = <<waiting[v], "server">>
  /\ \A b, c \in Conns : b # c /\ Started(b) /\ slotOf[b] = slotOf[c] => Gone(b) \/ Gone(c)
  /\ \A s \in Slots : para[s].usedflag = 1 => \E c \in Conns : slotOf[c] = s /\ Holds(c)

(* While which task runs a connection has each of its sockets.             *)
HasServer(c) ==
  /\ Started(c) /\ ~Flow(c)
  /\ (IF AtClient THEN writer[c].down.pc ELSE writer[c].up.pc) \in {"run", "end"}
HasClient(c) ==
  /\ c <= N
  /\ IF AtClient THEN reader[c].up.pc \in {"run", "send", "close"}
     ELSE writer[c].down.pc \in {"run", "end"}
HasClient2(c) == ~AtClient /\ reader[c].down.pc \in {"run", "send", "close"}

(* The descriptors of a connection are those named in its slot; a          *)
(* browser's socket is named by its number.                                *)
Owned(c) ==
  \A f \in Descriptors :
    /\ owner[f] = <<c, "server">> =>
         Began(c) /\ (Started(c) /\ ~Flow(c) => HasServer(c) /\ P(c).server = f)
    /\ owner[f] = <<c, "client">> => HasClient(c) /\ P(c).client = f
    /\ owner[f] = <<c, "client2">> => HasClient2(c) /\ P(c).client2 = f
Named(c) ==
  /\ HasServer(c) => Owns(c, "server", P(c).server)
  /\ HasClient(c) /\ P(c).client >= 0 => Owns(c, "client", P(c).client)
  /\ HasClient2(c) /\ P(c).client2 >= 0 => Owns(c, "client2", P(c).client2)
OneOwner ==
  \A f, g \in Descriptors : owner[f] = owner[g] /\ owner[f] # Free => f = g

(* What the slot says of the tasks.                                        *)
Signs(c) ==
  /\ \A d \in Dirs : writer[c][d].pc # "none" /\ Q(c, d) = "ended"
                       => writer[c][d].pc \in {"end", "flag", "done"}
  /\ ~AtClient /\ writer[c].down.pc \in {"end", "flag", "done"} =>
       P(c).client >= 0 \/ (read[c].up = 0 /\ writer[c].up.pc \in {"flag", "done"})
  /\ ~AtClient /\ P(c).closewaiting = 1 => read[c].up = 0 /\ writer[c].up.pc \in {"flag", "done"}
  /\ Flow(c) => P(c).server \in Descriptors

(* The numbers of the forward proxy.                                       *)
Number(n) ==
  /\ n \in DOMAIN sids => /\ Owns(n, "server", sids[n]) /\ Started(n) /\ writer[n].up.pc # "insert"
                          /\ reader[n + N].down.pc \notin {"close", "wait", "done"}
                          /\ writer[n].up.pc \in {"run", "recv", "end"} => P(n).server = sids[n]
  /\ writer[n].up.pc = "insert" => Owns(n, "server", P(n).server)
  /\ Started(n) /\ writer[n].up.pc # "insert" /\ reader[n + N].down.pc \notin {"close", "wait", "done"}
       => n \in DOMAIN sids
  /\ \A f \in Descriptors : owner[f] = <<n, "server">> => reader[n + N].down.pc \notin {"wait", "done"}
  /\ reader[n + N].down.pktid # 0 /\ reader[n + N].down.pc \in {"run", "send", "delete", "close"}
       => Owns(n, "server", P(n + N).client)

Live(c) == Started(c) /\ ~Gone(c)
Self(c) ==
  /\ Kind(c) /\ Pkts(c) /\ Owned(c) /\ Named(c)
  /\ Answer(c) => Answered(c)
  /\ Live(c) => Signs(c)
Numbers == AtClient => \A n \in Flows : Number(n)

Inv == Typed /\ (\A c \in Conns : Self(c)) /\ Numbers /\ SlotRules /\ OneOwner

(* The forward proxy's slot is taken while a task of its connection runs,  *)
(* and a reader that sees exitFlag knows that its writer has returned.     *)
Keeps(c) ==
  /\ P(c).usedflag = 1
  /\ \A d \in Dirs : d \in P(c).exitFlag => writer[c][d].pc = "done"
Held == AtClient => \A c \in Conns : Live(c) => Keeps(c)

-----------------------------------------------------------------------------
(* Constants and the initial state.                                        *)

LEMMA ConstFacts ==
  /\ N \in Nat /\ Flows = 1..N /\ NSlots \in Nat \ {0}
  /\ MaxPkts \in Nat /\ MaxTries \in Nat
  /\ Flows \subseteq Conns /\ Conns \subseteq Nat
  /\ \A c \in Conns : c # 0 /\ c <= 2 * N /\ (c <= N <=> c \in Flows) /\ (c > N => c - N \in Flows)
                      /\ (c > N => (c - N) + N = c)
  /\ \A n \in Flows : n \in Nat /\ n <= N /\ n + N \in Conns /\ n + N > N /\ n + N # n
                      /\ (n + N) - N = n
  /\ \A f \in Descriptors : f \in Nat /\ f # 0 /\ f >= 0 /\ f # NoSid /\ f # Unset
  /\ NoSlot \notin Slots
  /\ "up" \in Dirs /\ "down" \in Dirs /\ "up" \in Servers /\ "down" \in Servers
<1>1. N \in Nat /\ Flows = 1..N /\ NSlots \in Nat \ {0} /\ MaxPkts \in Nat /\ MaxTries \in Nat
  BY FlowsAssumption, SizesAssumption DEF N
<1>2. \A c \in Conns : c \in Nat /\ c # 0 /\ c <= 2 * N /\ (c <= N <=> c \in Flows)
                       /\ (c > N => c - N \in Flows) /\ (c > N => (c - N) + N = c)
  BY <1>1 DEF Conns
<1>3. \A n \in Flows : n \in Conns /\ n \in Nat /\ n <= N /\ n + N \in Conns /\ n + N > N
                       /\ n + N # n /\ (n + N) - N = n
  BY <1>1 DEF Conns
<1>4. \A f \in Descriptors : f \in Nat /\ f # 0 /\ f >= 0 /\ f # NoSid /\ f # Unset
  BY <1>1 DEF Descriptors, NoSid, Unset
<1>5. NoSlot \notin Slots
  BY DEF NoSlot, Slots, Servers
<1>. QED  BY <1>1, <1>2, <1>3, <1>4, <1>5 DEF Dirs, Servers

LEMMA SettingFacts ==
  ASSUME Typed
  PROVE  /\ env.location \in {"CLIENT", "SERVER"} /\ env.calm \in BOOLEAN
         /\ env.fails \in BOOLEAN /\ env.more \in BOOLEAN /\ AtClient \in BOOLEAN
BY SettingsAssumption DEF Typed, SlotTyped, SettingType, AtClient

LEMMA InitInv == Init => Inv
<1> SUFFICES ASSUME Init PROVE Inv
  OBVIOUS
<1>1. Typed
  <2>1. para \in [Slots -> SlotRecord]
    <3>1. Empty \in SlotRecord
      BY DEF Empty, SlotRecord, Sids
    <3>. QED  BY <3>1 DEF Init
  <2>2. SlotTyped
    BY <2>1, ConstFacts DEF Init, SlotTyped, QueueStates
  <2>3. SidTyped
    BY DEF Init, SidTyped
  <2>4. TaskTyped
    BY ConstFacts DEF Init, TaskTyped, WriterLabels, ReaderLabels
  <2>5. CountTyped
    BY ConstFacts DEF Init, CountTyped
  <2>. QED  BY <2>2, <2>3, <2>4, <2>5 DEF Typed
<1>2. \A f \in Descriptors : owner[f] = Free
  BY DEF Init
<1>3. ASSUME NEW c \in Conns, NEW e \in Ends, NEW f \in Descriptors PROVE owner[f] # <<c, e>>
  BY <1>2, ConstFacts DEF Free
<1>4. ASSUME NEW c \in Conns
      PROVE  /\ ~Started(c) /\ ~Began(c) /\ closed[c] = {}
             /\ \A d \in Dirs : /\ writer[c][d] = [pc |-> "none", first |-> 1]
                                /\ reader[c][d] = [pc |-> "none", pktid |-> 0, tries |-> 0]
                                /\ count[c][d] = 0 /\ read[c][d] = 0
  BY ConstFacts DEF Init, Started, Began, ServerOf, Servers
<1>5. ASSUME NEW c \in Conns PROVE Self(c)
  <2>1. Kind(c) /\ Pkts(c)
    BY <1>4, ConstFacts DEF Kind, Pkts
  <2>2. Owned(c)
    BY <1>3 DEF Owned, Ends
  <2>3. ~HasServer(c) /\ ~HasClient(c) /\ ~HasClient2(c)
    BY <1>4, ConstFacts DEF HasServer, HasClient, HasClient2
  <2>4. Named(c)
    BY <2>3 DEF Named
  <2>5. Answered(c)
    BY <1>4, ConstFacts DEF Answered
  <2>. QED  BY <1>4, <2>1, <2>2, <2>4, <2>5 DEF Self, Live
<1>6. ASSUME NEW n \in Flows PROVE Number(n)
  <2>1. n \in Conns /\ n + N \in Conns /\ n \notin DOMAIN sids
    BY ConstFacts DEF Init
  <2>. QED  BY <2>1, <1>4, <1>3, ConstFacts DEF Number, Ends
<1>7. SlotRules
  BY <1>4 DEF SlotRules, Init, Empty
<1>8. OneOwner
  BY <1>2 DEF OneOwner
<1>. QED  BY <1>1, <1>5, <1>6, <1>7, <1>8 DEF Inv, Numbers

-----------------------------------------------------------------------------
(* Descriptors.  There is always one to open: no end of a connection has   *)
(* two, and the ends that a proxy opens are no more than the descriptors.  *)

LEMMA MinIsLeast ==
  ASSUME NEW S \in SUBSET Nat, S # {}
  PROVE  \E x \in S : \A y \in S : x <= y
<1>1. PICK x \in S : \A y \in S : ~ (<<y, x>> \in OpToRel(<, Nat))
  BY NatLessThanWellFounded, WFMin
<1>2. ASSUME NEW y \in S PROVE x <= y
  <2>1. ~(y < x)
    <3>1. SUFFICES ASSUME y < x PROVE <<y, x>> \in OpToRel(<, Nat)
      BY <1>1
    <3>2. <<y, x>> \in Nat \X Nat /\ <<y, x>>[1] < <<y, x>>[2]
      BY <3>1
    <3>. QED  BY <3>2, Zenon DEF OpToRel
  <2>. QED  BY <2>1
<1>. QED  BY <1>2

\* the sockets there can be
Sockets == IF AtClient THEN (Conns \X {"server"}) \union (Flows \X {"client"})
           ELSE Flows \X Ends

LEMMA FlowsFinite ==
  /\ IsFiniteSet(Flows) /\ Cardinality(Flows) = N
  /\ IsFiniteSet(Conns) /\ Cardinality(Conns) = 2 * N
  /\ IsFiniteSet(Descriptors) /\ Cardinality(Descriptors) = 3 * N
<1>1. N \in Nat /\ 2 * N \in Nat /\ 3 * N \in Nat
  BY ConstFacts
<1>2. \A m \in Nat : IsFiniteSet(1..m) /\ Cardinality(1..m) = m
  BY FS_Interval
<1>. QED  BY <1>1, <1>2, ConstFacts DEF Conns, Descriptors

LEMMA SocketsFinite ==
  ASSUME Typed
  PROVE  IsFiniteSet(Sockets) /\ Cardinality(Sockets) = 3 * N
<1>1. N \in Nat
  BY ConstFacts
<1>2. CASE AtClient
  <2> DEFINE A == Conns \X {"server"}
             B == Flows \X {"client"}
  <2>1. IsFiniteSet(A) /\ Cardinality(A) = 2 * N
    <3>1. IsFiniteSet({"server"}) /\ Cardinality({"server"}) = 1
      BY FS_Singleton
    <3>2. IsFiniteSet(A) /\ Cardinality(A) = Cardinality(Conns) * Cardinality({"server"})
      BY <3>1, FlowsFinite, FS_Product
    <3>. QED  BY <1>1, <3>1, <3>2, FlowsFinite
  <2>2. IsFiniteSet(B) /\ Cardinality(B) = N
    <3>1. IsFiniteSet({"client"}) /\ Cardinality({"client"}) = 1
      BY FS_Singleton
    <3>2. IsFiniteSet(B) /\ Cardinality(B) = Cardinality(Flows) * Cardinality({"client"})
      BY <3>1, FlowsFinite, FS_Product
    <3>. QED  BY <1>1, <3>1, <3>2, FlowsFinite
  <2>3. A \intersect B = {}
    OBVIOUS
  <2> HIDE DEF A, B
  <2>4. IsFiniteSet(A \union B)
        /\ Cardinality(A \union B) = Cardinality(A) + Cardinality(B) - Cardinality(A \intersect B)
    BY <2>1, <2>2, FS_Union
  <2>5. Cardinality(A \intersect B) = 0
    BY <2>3, FS_EmptySet
  <2>6. Cardinality(A \union B) = 3 * N
    BY <1>1, <2>1, <2>2, <2>4, <2>5
  <2>. QED  BY <1>2, <2>4, <2>6 DEF Sockets, A, B
<1>3. CASE ~AtClient
  <2>1. IsFiniteSet(Ends) /\ Cardinality(Ends) = 3
    <3>1. IsFiniteSet({}) /\ Cardinality({}) = 0
      BY FS_EmptySet
    <3>2. IsFiniteSet({"server"}) /\ Cardinality({"server"}) = 1
      BY <3>1, FS_AddElement
    <3>3. IsFiniteSet({"server", "client"}) /\ Cardinality({"server", "client"}) = 2
      <4>1. {"server", "client"} = {"server"} \union {"client"} /\ "client" \notin {"server"}
        OBVIOUS
      <4>. QED  BY <3>2, <4>1, FS_AddElement
    <3>4. Ends = {"server", "client"} \union {"client2"} /\ "client2" \notin {"server", "client"}
      BY DEF Ends
    <3>. QED  BY <3>3, <3>4, FS_AddElement
  <2>2. IsFiniteSet(Flows \X Ends) /\ Cardinality(Flows \X Ends) = N * 3
    BY <2>1, FlowsFinite, FS_Product
  <2>. QED  BY <1>1, <1>3, <2>2 DEF Sockets
<1>. QED  BY <1>2, <1>3

LEMMA OwnersAreSockets ==
  ASSUME Inv, NEW f \in Descriptors, owner[f] # Free
  PROVE  owner[f] \in Sockets
<1>1. PICK c \in Conns, e \in Ends : owner[f] = <<c, e>>
  BY DEF Inv, Typed, SlotTyped
<1>2. Kind(c) /\ Owned(c)
  BY DEF Inv, Self
<1>3. CASE e = "server"
  <2>1. Began(c)
    BY <1>1, <1>2, <1>3 DEF Owned
  <2>. QED  BY <1>1, <1>2, <1>3, <2>1, ConstFacts DEF Kind, Sockets, Ends
<1>4. CASE e = "client"
  <2>1. HasClient(c)
    BY <1>1, <1>2, <1>4 DEF Owned
  <2>. QED  BY <1>1, <1>4, <2>1, ConstFacts DEF HasClient, Sockets, Ends
<1>5. CASE e = "client2"
  <2>1. HasClient2(c)
    BY <1>1, <1>2, <1>5 DEF Owned
  <2>2. ~AtClient /\ reader[c].down.pc # "none"
    BY <2>1 DEF HasClient2
  <2>3. Has(c, "down")
    BY <1>2, <2>2, ConstFacts DEF Kind
  <2>. QED  BY <1>1, <1>5, <2>2, <2>3, ConstFacts DEF Has, Sockets, Ends
<1>. QED  BY <1>3, <1>4, <1>5 DEF Ends

LEMMA Lowest ==
  ASSUME Inv, NEW w \in Sockets, \A f \in Descriptors : owner[f] # w
  PROVE  Unused \in Descriptors /\ owner[Unused] = Free
<1> DEFINE U == {f \in Descriptors : owner[f] = Free}
<1>1. U # {}
  <2> SUFFICES ASSUME U = {} PROVE FALSE
    OBVIOUS
  <2> DEFINE T == Sockets \ {w}
  <2>1. \A f \in Descriptors : owner[f] # Free
    OBVIOUS
  <2>2. \A f \in Descriptors : owner[f] \in T
    BY <2>1, OwnersAreSockets
  <2>3. owner \in [Descriptors -> T]
    <3>1. owner \in [Descriptors -> {Free} \union (Conns \X Ends)]
      BY DEF Inv, Typed, SlotTyped
    <3>. QED  BY <2>2, <3>1
  <2>4. \A f, g \in Descriptors : owner[f] = owner[g] => f = g
    BY <2>1 DEF Inv, OneOwner
  <2> HIDE DEF T, U
  <2>5. owner \in Injection(Descriptors, T)
    BY <2>3, <2>4 DEF Injection, IsInjective
  <2>6. IsFiniteSet(Sockets) /\ Cardinality(Sockets) = 3 * N
    BY SocketsFinite DEF Inv
  <2>7. IsFiniteSet(T) /\ Cardinality(T) = 3 * N - 1
    BY <2>6, FS_RemoveElement DEF T
  <2>8. Cardinality(Descriptors) <= Cardinality(T)
    BY <2>5, <2>7, FS_Injection
  <2>9. N \in Nat /\ Cardinality(Descriptors) = 3 * N
    BY ConstFacts, FlowsFinite
  <2>. QED  BY <2>7, <2>8, <2>9
<1>2. U \in SUBSET Nat
  BY ConstFacts
<1>3. \E f \in U : \A g \in U : f <= g
  <2> HIDE DEF U
  <2>. QED  BY <1>1, <1>2, MinIsLeast
<1>4. Unused \in U
  BY <1>3 DEF Unused, Min
<1>. QED  BY <1>4

-----------------------------------------------------------------------------
(* What a step of a task changes.                                          *)

WriterAt(c, d, l) ==
  /\ \A b \in Conns : b # c => writer'[b] = writer[b]
  /\ writer'[c][d].pc = l
  /\ \A e \in Dirs : e # d => writer'[c][e] = writer[c][e]
ReaderAt(c, d, l) ==
  /\ \A b \in Conns : b # c => reader'[b] = reader[b]
  /\ reader'[c][d].pc = l
  /\ \A e \in Dirs : e # d => reader'[c][e] = reader[c][e]

LEMMA WDoes ==
  ASSUME TaskTyped, NEW c \in Conns, NEW d \in Dirs, NEW l \in WriterLabels, W(c, d, l)
  PROVE  /\ writer' \in [Conns -> [Dirs -> [pc : WriterLabels, first : 0..1]]]
         /\ WriterAt(c, d, l) /\ writer'[c][d].first = writer[c][d].first
<1> DEFINE T == [pc : WriterLabels, first : 0..1]
           x == [writer[c][d] EXCEPT !.pc = l]
<1>1. writer \in [Conns -> [Dirs -> T]]
  BY DEF TaskTyped
<1>2. writer[c][d] \in T
  BY <1>1
<1>3. x \in T /\ x.pc = l /\ x.first = writer[c][d].first
  BY <1>2
<1>4. writer' = [writer EXCEPT ![c] = [writer[c] EXCEPT ![d] = x]]
  BY DEF W
<1> HIDE DEF x, T
<1>5. [writer[c] EXCEPT ![d] = x] \in [Dirs -> T]
  BY <1>1, <1>3
<1>6. writer' \in [Conns -> [Dirs -> T]] /\ writer'[c] = [writer[c] EXCEPT ![d] = x]
      /\ \A b \in Conns : b # c => writer'[b] = writer[b]
  BY <1>1, <1>4, <1>5
<1>7. writer'[c][d] = x /\ \A e \in Dirs : e # d => writer'[c][e] = writer[c][e]
  BY <1>1, <1>6
<1>. QED  BY <1>3, <1>6, <1>7 DEF WriterAt, T

LEMMA RDoes ==
  ASSUME TaskTyped, NEW c \in Conns, NEW d \in Dirs, NEW l \in ReaderLabels, R(c, d, l)
  PROVE  /\ reader' \in [Conns -> [Dirs -> [pc : ReaderLabels, pktid : Flows \union {0}, tries : 0..MaxTries]]]
         /\ ReaderAt(c, d, l) /\ reader'[c][d].pktid = reader[c][d].pktid
<1> DEFINE T == [pc : ReaderLabels, pktid : Flows \union {0}, tries : 0..MaxTries]
           x == [reader[c][d] EXCEPT !.pc = l]
<1>1. reader \in [Conns -> [Dirs -> T]]
  BY DEF TaskTyped
<1>2. reader[c][d] \in T
  BY <1>1
<1>3. x \in T /\ x.pc = l /\ x.pktid = reader[c][d].pktid
  BY <1>2
<1>4. reader' = [reader EXCEPT ![c] = [reader[c] EXCEPT ![d] = x]]
  BY DEF R
<1> HIDE DEF x, T
<1>5. [reader[c] EXCEPT ![d] = x] \in [Dirs -> T]
  BY <1>1, <1>3
<1>6. reader' \in [Conns -> [Dirs -> T]] /\ reader'[c] = [reader[c] EXCEPT ![d] = x]
      /\ \A b \in Conns : b # c => reader'[b] = reader[b]
  BY <1>1, <1>4, <1>5
<1>7. reader'[c][d] = x /\ \A e \in Dirs : e # d => reader'[c][e] = reader[c][e]
  BY <1>1, <1>6
<1>. QED  BY <1>3, <1>6, <1>7 DEF ReaderAt, T

Fields == {"usedflag", "server", "client", "client2", "closewaiting", "stopflag", "exitFlag"}

\* one field of the slot of a connection
PutIn(c, g, v) ==
  /\ \A s \in Slots : s # slotOf[c] => para'[s] = para[s]
  /\ P(c)'[g] = v
  /\ \A h \in Fields : h # g => P(c)'[h] = P(c)[h]

LEMMA SetDoes ==
  ASSUME SlotTyped, NEW c \in Conns, slotOf[c] \in Slots, slotOf' = slotOf, NEW g \in Fields, NEW v,
         Set(c, g, v),
         \/ g = "client" /\ v \in Sids
         \/ g = "client2" /\ v \in Sids
         \/ g = "usedflag" /\ v \in 0..1
         \/ g = "exitFlag" /\ v \in SUBSET Dirs
  PROVE  para' \in [Slots -> SlotRecord] /\ PutIn(c, g, v)
<1>1. para \in [Slots -> SlotRecord]
  BY DEF SlotTyped
<1>2. CASE g = "client" /\ v \in Sids
  BY <1>1, <1>2 DEF Set, SlotRecord, PutIn, P, Fields
<1>3. CASE g = "client2" /\ v \in Sids
  BY <1>1, <1>3 DEF Set, SlotRecord, PutIn, P, Fields
<1>4. CASE g = "usedflag" /\ v \in 0..1
  BY <1>1, <1>4 DEF Set, SlotRecord, PutIn, P, Fields
<1>5. CASE g = "exitFlag" /\ v \in SUBSET Dirs
  BY <1>1, <1>5 DEF Set, SlotRecord, PutIn, P, Fields
<1>. QED  BY <1>2, <1>3, <1>4, <1>5

LEMMA QueueDoes ==
  ASSUME SlotTyped, NEW c \in Conns, slotOf[c] \in Slots, slotOf' = slotOf, NEW d \in Dirs,
         NEW q \in QueueStates, queue' = [queue EXCEPT ![slotOf[c]][d] = q]
  PROVE  /\ queue' \in [Slots -> [Dirs -> QueueStates]]
         /\ \A s \in Slots : s # slotOf[c] => queue'[s] = queue[s]
         /\ Q(c, d)' = q /\ \A e \in Dirs : e # d => Q(c, e)' = Q(c, e)
BY DEF SlotTyped, Q

LEMMA ReleaseDoes ==
  ASSUME SlotTyped, NEW x, owner' = Released(x)
  PROVE  /\ owner' \in [Descriptors -> {Free} \union (Conns \X Ends)]
         /\ x \in Descriptors => owner'[x] = Free
         /\ \A f \in Descriptors : f # x => owner'[f] = owner[f]
BY DEF SlotTyped, Released

LEMMA OpenDoes ==
  ASSUME SlotTyped, NEW c \in Conns, NEW e \in Ends, owner' = Opened(c, e), Unused \in Descriptors
  PROVE  /\ owner' \in [Descriptors -> {Free} \union (Conns \X Ends)]
         /\ owner'[Unused] = <<c, e>>
         /\ \A f \in Descriptors : f # Unused => owner'[f] = owner[f]
BY DEF SlotTyped, Opened

-----------------------------------------------------------------------------
(* A step of a task changes nothing of another connection: of those that   *)
(* had its slot all tasks have gone.                                       *)

OwnersKept(b) ==
  \A f \in Descriptors, e \in Ends : owner'[f] = <<b, e>> <=> owner[f] = <<b, e>>

Frame(c) ==
  /\ env' = env /\ idx' = idx /\ waiting' = waiting /\ slotOf' = slotOf /\ closed' = closed
  /\ \A b \in Conns : b # c => /\ writer'[b] = writer[b] /\ reader'[b] = reader[b]
                               /\ count'[b] = count[b] /\ read'[b] = read[b]
  /\ \A s \in Slots : s # slotOf[c] => para'[s] = para[s] /\ queue'[s] = queue[s]
  /\ read[c].up > 0 => read'[c].up > 0

LEMMA LiveSlot ==
  ASSUME Typed, NEW c \in Conns, Started(c)
  PROVE  slotOf[c] \in Slots
BY DEF Typed, SlotTyped, Started

LEMMA Idle ==
  ASSUME Typed, NEW c \in Conns, Kind(c), ~Live(c)
  PROVE  ~HasServer(c) /\ ~HasClient(c) /\ ~HasClient2(c)
<1>1. \A d \in Dirs : writer[c][d].pc \in {"none", "done"} /\ reader[c][d].pc \in {"none", "done"}
  <2>1. CASE ~Started(c)
    BY <2>1, SettingFacts DEF Kind
  <2>2. CASE Gone(c)
    BY <2>2 DEF Gone
  <2>. QED  BY <2>1, <2>2 DEF Live
<1>2. "up" \in Dirs /\ "down" \in Dirs
  BY ConstFacts
<1>. QED  BY <1>1, <1>2 DEF HasServer, HasClient, HasClient2

LEMMA RunsLive ==
  ASSUME Typed, NEW c \in Conns, Kind(c), NEW d \in Dirs,
         writer[c][d].pc \notin {"none", "done"} \/ reader[c][d].pc \notin {"none", "done"}
  PROVE  Live(c) /\ Has(c, d) /\ slotOf[c] \in Slots
<1>1. ~Gone(c)
  BY DEF Gone
<1>2. Started(c) /\ Has(c, d)
  BY SettingFacts DEF Kind
<1>. QED  BY <1>1, <1>2, LiveSlot DEF Live

LEMMA LiveApart ==
  ASSUME Inv, NEW b \in Conns, NEW c \in Conns, b # c, Live(b), Live(c)
  PROVE  slotOf[b] # slotOf[c] /\ slotOf[b] \in Slots
BY LiveSlot DEF Inv, SlotRules, Live

LEMMA OthersLike ==
  ASSUME NEW c \in Conns, Frame(c), NEW b \in Conns, b # c
  PROVE  /\ Started(b)' <=> Started(b)
         /\ Gone(b)' <=> Gone(b)
         /\ Began(b)' <=> Began(b)
         /\ HasServer(b)' <=> HasServer(b)
         /\ HasClient(b)' <=> HasClient(b)
         /\ HasClient2(b)' <=> HasClient2(b)
         /\ Holds(b)' <=> Holds(b)
         /\ Live(b)' <=> Live(b)
         /\ Flow(b)' <=> Flow(b)
         /\ Answer(b)' <=> Answer(b)
         /\ AtClient' <=> AtClient
<1>1. writer'[b] = writer[b] /\ reader'[b] = reader[b] /\ slotOf'[b] = slotOf[b] /\ env' = env
      /\ waiting' = waiting
  BY DEF Frame
<1>2. AtClient' <=> AtClient
  BY <1>1 DEF AtClient
<1>3. Started(b)' <=> Started(b)
  BY <1>1 DEF Started
<1>4. Gone(b)' <=> Gone(b)
  BY <1>1 DEF Gone
<1>. QED  BY <1>1, <1>2, <1>3, <1>4
        DEF Began, HasServer, HasClient, HasClient2, Holds, Live, Flow, Answer, Returner

LEMMA OthersSelf ==
  ASSUME Inv, NEW c \in Conns, Frame(c), Live(c), NEW b \in Conns, b # c, OwnersKept(b)
  PROVE  Self(b)'
<1>1. Self(b) /\ Typed
  BY DEF Inv
<1>2. writer'[b] = writer[b] /\ reader'[b] = reader[b] /\ slotOf'[b] = slotOf[b] /\ env' = env
      /\ waiting' = waiting /\ count'[b] = count[b] /\ read'[b] = read[b] /\ closed' = closed
  BY DEF Frame
<1>3. /\ Started(b)' <=> Started(b)
      /\ Began(b)' <=> Began(b)
      /\ HasServer(b)' <=> HasServer(b)
      /\ HasClient(b)' <=> HasClient(b)
      /\ HasClient2(b)' <=> HasClient2(b)
      /\ Live(b)' <=> Live(b)
      /\ Flow(b)' <=> Flow(b)
      /\ Answer(b)' <=> Answer(b)
      /\ AtClient' <=> AtClient
  BY OthersLike
<1>4. Live(b) => P(b)' = P(b) /\ \A d \in Dirs : Q(b, d)' = Q(b, d)
  <2> SUFFICES ASSUME Live(b) PROVE P(b)' = P(b) /\ \A d \in Dirs : Q(b, d)' = Q(b, d)
    OBVIOUS
  <2>1. slotOf[b] # slotOf[c] /\ slotOf[b] \in Slots
    BY LiveApart
  <2>. QED  BY <2>1 DEF Frame, P, Q
<1>5. ~Live(b) => ~HasServer(b) /\ ~HasClient(b) /\ ~HasClient2(b)
  BY <1>1, Idle DEF Self
<1>6. Kind(b)'
  <2>1. \A d : Has(b, d)' <=> Has(b, d)
    BY <1>3 DEF Has
  <2>. QED  BY <1>1, <1>2, <1>3, <2>1 DEF Self, Kind
<1>7. Pkts(b)'
  BY <1>1, <1>2, <1>3 DEF Self, Pkts
<1>8. Owned(b)'
  BY <1>1, <1>3, <1>4, <1>5 DEF Self, Owned, OwnersKept, Ends
<1>9. Named(b)'
  BY <1>1, <1>3, <1>4, <1>5 DEF Self, Named, OwnersKept, Ends, Owns
<1>10. Answer(b)' => Answered(b)'
  <2> SUFFICES ASSUME Answer(b) PROVE Answered(b)'
    BY <1>3
  <2>1. Answered(b)
    BY <1>1 DEF Self
  <2>2. b - N \in Flows /\ b - N \in Conns /\ N \in Nat
    BY ConstFacts DEF Answer
  <2>3. read[b - N].up > 0 => read'[b - N].up > 0
    <3>2. CASE b - N = c
      BY <3>2 DEF Frame
    <3>3. CASE b - N # c
      BY <2>2, <3>3 DEF Frame
    <3>. QED  BY <3>2, <3>3
  <2>. QED  BY <1>2, <1>3, <2>1, <2>3 DEF Answered
<1>11. Live(b)' => Signs(b)'
  <2> SUFFICES ASSUME Live(b) PROVE Signs(b)'
    BY <1>3
  <2>. QED  BY <1>1, <1>2, <1>3, <1>4 DEF Self, Signs
<1>. QED  BY <1>6, <1>7, <1>8, <1>9, <1>10, <1>11 DEF Self

SidKept(n) ==
  /\ n \in DOMAIN sids' <=> n \in DOMAIN sids
  /\ n \in DOMAIN sids => sids'[n] = sids[n]

LEMMA OthersNumber ==
  ASSUME Inv, AtClient, NEW c \in Conns, Frame(c), Live(c), NEW n \in Flows, n # c, n + N # c,
         OwnersKept(n), SidKept(n)
  PROVE  Number(n)'
<1>1. Typed /\ Number(n)
  BY DEF Inv, Numbers
<1>2. n \in Conns /\ n + N \in Conns /\ n + N > N /\ n <= N
  BY ConstFacts
<1>3. Self(n) /\ Self(n + N)
  BY <1>2 DEF Inv
<1>4. writer'[n] = writer[n] /\ reader'[n + N] = reader[n + N] /\ (Started(n)' <=> Started(n))
  BY <1>2, OthersLike DEF Frame
<1>5. writer[n].up.pc \in {"insert", "run", "recv", "end"} => P(n)'.server = P(n).server
  <2> SUFFICES ASSUME writer[n].up.pc \in {"insert", "run", "recv", "end"}
               PROVE  P(n)' = P(n)
    OBVIOUS
  <2>1. Live(n)
    BY <1>1, <1>2, <1>3, RunsLive, ConstFacts DEF Self
  <2>. QED  BY <1>2, <2>1, LiveApart DEF Frame, P
<1>6. reader[n + N].down.pc \in {"run", "send", "delete", "close"}
        => P(n + N)'.client = P(n + N).client
  <2> SUFFICES ASSUME reader[n + N].down.pc \in {"run", "send", "delete", "close"}
               PROVE  P(n + N)' = P(n + N)
    OBVIOUS
  <2>1. Live(n + N)
    BY <1>1, <1>2, <1>3, RunsLive, ConstFacts DEF Self
  <2>. QED  BY <1>2, <2>1, LiveApart DEF Frame, P
<1>7. \A f : Owns(n, "server", f)' <=> Owns(n, "server", f)
  BY DEF OwnersKept, Owns, Ends
<1>8. \A f \in Descriptors : owner'[f] = <<n, "server">> <=> owner[f] = <<n, "server">>
  BY DEF OwnersKept, Ends
<1>. QED  BY <1>1, <1>4, <1>5, <1>6, <1>7, <1>8 DEF Number, SidKept

OwnersRight(c) ==
  /\ \A b \in Conns : b # c => OwnersKept(b) \/ (Started(b) /\ Self(b)')
  /\ OneOwner'
SidsKept(c) ==
  \A n \in Flows : n # c /\ n + N # c => OwnersKept(n) /\ SidKept(n)
NumbersOf(c) == AtClient => \A n \in Flows : n = c \/ n + N = c => Number(n)'
SlotUse(c) ==
  para'[slotOf[c]].usedflag = 1 => para[slotOf[c]].usedflag = 1 /\ (Holds(c) => Holds(c)')

LEMMA TaskKeeps ==
  ASSUME Inv, NEW c \in Conns, Live(c), Frame(c), Typed', Self(c)',
         OwnersRight(c), SidsKept(c), NumbersOf(c), SlotUse(c)
  PROVE  Inv'
<1>1. \A b \in Conns : Self(b)'
  BY OthersSelf DEF OwnersRight
<1>2. Numbers'
  <2>1. AtClient' <=> AtClient
    BY DEF Frame, AtClient
  <2>2. SUFFICES ASSUME AtClient, NEW n \in Flows PROVE Number(n)'
    BY <2>1 DEF Numbers
  <2>3. CASE n = c \/ n + N = c
    BY <2>2, <2>3 DEF NumbersOf
  <2>4. CASE ~(n = c \/ n + N = c)
    BY <2>2, <2>4, OthersNumber DEF SidsKept
  <2>. QED  BY <2>3, <2>4
<1>3. SlotRules'
  <2>1. SlotRules /\ Typed
    BY DEF Inv
  <2>2. slotOf' = slotOf /\ waiting' = waiting
    BY DEF Frame
  <2>3. ASSUME NEW v \in Servers, waiting[v] # 0
        PROVE  /\ ServerOf(waiting[v]) = v /\ ~Started(waiting[v])'
               /\ \E f \in Descriptors : owner'[f] = <<waiting[v], "server">>
    <3>1. ServerOf(waiting[v]) = v /\ ~Started(waiting[v])
          /\ \E f \in Descriptors : owner[f] = <<waiting[v], "server">>
      BY <2>1, <2>3 DEF SlotRules
    <3>2. waiting[v] \in Conns
      BY <2>1, <2>3 DEF Typed, SlotTyped
    <3>3. waiting[v] # c
      BY <3>1 DEF Live
    <3>4. OwnersKept(waiting[v])
      BY <3>1, <3>2, <3>3 DEF OwnersRight
    <3>. QED  BY <2>2, <3>1, <3>4 DEF OwnersKept, Ends, Started
  <2>4. ASSUME NEW a \in Conns, NEW b \in Conns, a # b, Started(a)', slotOf'[a] = slotOf'[b]
        PROVE  Gone(a)' \/ Gone(b)'
    <3>1. Started(a) /\ slotOf[a] = slotOf[b]
      BY <2>2, <2>4 DEF Started
    <3>2. Gone(a) \/ Gone(b)
      BY <2>1, <2>4, <3>1 DEF SlotRules
    <3>3. ~Gone(c)
      BY DEF Live
    <3>. QED  BY <2>4, <3>2, <3>3, OthersLike
  <2>5. ASSUME NEW s \in Slots, para'[s].usedflag = 1
        PROVE  \E b \in Conns : slotOf'[b] = s /\ Holds(b)'
    <3>1. para[s].usedflag = 1 /\ (s = slotOf[c] => (Holds(c) => Holds(c)'))
      BY <2>5 DEF SlotUse, Frame
    <3>2. PICK b \in Conns : slotOf[b] = s /\ Holds(b)
      BY <2>1, <3>1 DEF SlotRules
    <3>3. CASE b = c
      BY <2>2, <3>1, <3>2, <3>3
    <3>4. CASE b # c
      BY <2>2, <3>2, <3>4, OthersLike
    <3>. QED  BY <3>3, <3>4
  <2>. QED  BY <2>2, <2>3, <2>4, <2>5 DEF SlotRules
<1>. QED  BY <1>1, <1>2, <1>3 DEF Inv, OwnersRight

-----------------------------------------------------------------------------
(* Steps that open and close nothing.                                      *)

HasKept(c) ==
  /\ HasServer(c)' <=> HasServer(c)
  /\ HasClient(c)' <=> HasClient(c)
  /\ HasClient2(c)' <=> HasClient2(c)
SidsInSlot(c) ==
  P(c)'.server = P(c).server /\ P(c)'.client = P(c).client /\ P(c)'.client2 = P(c).client2

LEMMA SameOwners ==
  ASSUME Inv, NEW c \in Conns, owner' = owner, sids' = sids
  PROVE  OwnersRight(c) /\ SidsKept(c)
BY DEF Inv, OneOwner, OwnersRight, SidsKept, OwnersKept, SidKept

LEMMA SocketsKept ==
  ASSUME Inv, NEW c \in Conns, Frame(c), owner' = owner, HasKept(c), SidsInSlot(c)
  PROVE  Owned(c)' /\ Named(c)'
<1>1. Owned(c) /\ Named(c)
  BY DEF Inv, Self
<1>2. (Started(c)' <=> Started(c)) /\ (Began(c)' <=> Began(c)) /\ (Flow(c)' <=> Flow(c))
  BY DEF Frame, Started, Began, Flow, AtClient
<1>. QED  BY <1>1, <1>2 DEF Owned, Named, HasKept, SidsInSlot, Owns

LEMMA SameSlot ==
  ASSUME Typed, NEW c \in Conns, slotOf' = slotOf, para' = para
  PROVE  P(c)' = P(c) /\ SidsInSlot(c)
BY DEF P, SidsInSlot

LEMMA HoldsKept ==
  ASSUME Inv, NEW c \in Conns, env' = env, para' = para, reader' = reader
  PROVE  SlotUse(c)
BY DEF SlotUse, Holds, Returner, AtClient

-----------------------------------------------------------------------------
(* Steps of a writer that read.                                            *)

ReadStep(c, d) ==
  \/ d = "up" /\ (Test(c) \/ UpRecv(c))
  \/ d = "down" /\ Timeout(c)
  \/ DoRecv(c, d) \/ Told(c, d)

OnlyReads == UNCHANGED <<env, owner, sids, para, idx, waiting, slotOf, reader, closed>>

Gets(c, d) == Packet(c, d, "run") /\ read[c][d] <= MaxPkts
Stops(c, d) ==
  /\ End(c, d)
  /\ AtClient /\ d = "up" => read[c].up > 0
  /\ AtClient /\ d = "down" => read[c].down > 0
  /\ ~AtClient /\ d = "down" => P(c).client >= 0 \/ P(c).closewaiting = 1
Pauses(c, d) ==
  /\ d = "up" /\ AtClient /\ W(c, "up", "recv") /\ writer[c].up.pc = "run"
  /\ read[c].up > 0 /\ ~env.calm /\ UNCHANGED <<queue, count, read>>
Resumes(c, d) ==
  d = "up" /\ W(c, "up", "run") /\ writer[c].up.pc = "recv" /\ UNCHANGED <<queue, count, read>>

LEMMA RecvDoes ==
  ASSUME Typed, NEW c \in Conns, NEW d \in Dirs, Recv(c, d)
  PROVE  \/ Gets(c, d) /\ owner[Sid(c, d)] # Free
         \/ End(c, d) /\ (Source(c, d) \in closed[c] \/ ~Owns(c, Source(c, d), Sid(c, d)))
<1>1. More(c, d) => read[c][d] <= MaxPkts
  <2>1. read[c][d] \in 0..(MaxPkts + 1) /\ MaxPkts \in Nat
    BY ConstFacts DEF Typed, CountTyped
  <2>. QED  BY <2>1 DEF More
<1>. QED  BY <1>1 DEF Recv, Gets

LEMMA FirstTest ==
  ASSUME Inv, AtClient, NEW c \in Conns, writer[c].up.pc = "run", read[c].up = 0
  PROVE  c \in DOMAIN sids /\ P(c).server = sids[c]
<1>1. Self(c) /\ Typed
  BY DEF Inv
<1>2. Started(c) /\ Has(c, "up")
  BY <1>1, ConstFacts, RunsLive DEF Self, Live
<1>3. c \in Flows /\ c + N \in Conns /\ (c + N) - N = c /\ c + N > N
  BY <1>2, ConstFacts DEF Has, ServerOf
<1>4. ~Started(c + N)
  <2>1. Self(c + N)
    BY <1>3 DEF Inv
  <2>. QED  BY <1>3, <2>1 DEF Self, Answer, Answered, Began
<1>5. reader[c + N].down.pc = "none"
  <2>1. Kind(c + N)
    BY <1>3 DEF Inv, Self
  <2>. QED  BY <1>1, <1>4, <2>1, ConstFacts, SettingFacts DEF Kind
<1>6. Number(c)
  BY <1>3 DEF Inv, Numbers
<1>. QED  BY <1>2, <1>5, <1>6 DEF Number

LEMMA WriterOf ==
  ASSUME Inv, NEW c \in Conns, NEW d \in Dirs, writer[c][d].pc \notin {"none", "done"}
  PROVE  /\ Live(c) /\ slotOf[c] \in Slots /\ Has(c, d) /\ Self(c) /\ Typed
         /\ AtClient /\ d = "up" => c \in Flows /\ Flow(c)
         /\ AtClient /\ d = "down" => Answer(c) /\ Answered(c) /\ ~Flow(c)
         /\ ~AtClient => c \in Flows /\ c <= N /\ ~Flow(c) /\ ~Answer(c)
<1>1. Self(c) /\ Typed
  BY DEF Inv
<1>2. Live(c) /\ Has(c, d) /\ slotOf[c] \in Slots
  BY <1>1, RunsLive DEF Self
<1>. QED  BY <1>1, <1>2, ConstFacts DEF Has, ServerOf, Flow, Answer, Self

LEMMA ReaderOf ==
  ASSUME Inv, NEW c \in Conns, NEW d \in Dirs, reader[c][d].pc \notin {"none", "done"}
  PROVE  /\ Live(c) /\ slotOf[c] \in Slots /\ Has(c, d) /\ Self(c) /\ Typed
         /\ AtClient /\ d = "up" => c \in Flows /\ Flow(c)
         /\ AtClient /\ d = "down" => Answer(c) /\ Answered(c) /\ ~Flow(c)
         /\ ~AtClient => c \in Flows /\ c <= N /\ ~Flow(c) /\ ~Answer(c)
<1>1. Self(c) /\ Typed
  BY DEF Inv
<1>2. Live(c) /\ Has(c, d) /\ slotOf[c] \in Slots
  BY <1>1, RunsLive DEF Self
<1>. QED  BY <1>1, <1>2, ConstFacts DEF Has, ServerOf, Flow, Answer, Self

LEMMA FirstRead ==
  ASSUME Inv, NEW c \in Conns, NEW d \in Dirs
  PROVE  /\ read[c][d] \in Nat /\ count[c][d] \in Nat
         /\ writer[c][d].first = 1 <=> read[c][d] = 0
         /\ writer[c][d].first = 0 <=> read[c][d] > 0
<1>1. read[c][d] \in Nat /\ count[c][d] \in Nat /\ writer[c][d].first \in 0..1
  BY ConstFacts DEF Inv, Typed, CountTyped, TaskTyped
<1>2. writer[c][d].first = 1 <=> read[c][d] = 0
  BY DEF Inv, Self, Pkts
<1>. QED  BY <1>1, <1>2

LEMMA ReadStepIs ==
  ASSUME Inv, NEW c \in Conns, NEW d \in Dirs, ReadStep(c, d)
  PROVE  /\ OnlyReads
         /\ writer[c][d].pc \in {"run", "recv"}
         /\ Gets(c, d) \/ Stops(c, d) \/ Pauses(c, d) \/ Resumes(c, d)
<1>0. Typed /\ Self(c)
  BY DEF Inv
<1>1. CASE d = "up" /\ Test(c)
  <2>1. OnlyReads /\ writer[c].up.pc = "run" /\ AtClient
    BY <1>1 DEF Test, Turn, OnlyReads
  <2>2. c \in Flows
    BY <2>1, WriterOf, ConstFacts
  <2>3. Number(c)
    BY <2>1, <2>2 DEF Inv, Numbers
  <2>4. CASE P(c).server # SidOf(c)
    <3>1. End(c, "up")
      BY <1>1, <2>4 DEF Test
    <3>2. read[c].up > 0
      BY <2>1, <2>4, FirstTest, FirstRead, ConstFacts DEF SidOf
    <3>. QED  BY <1>1, <2>1, <3>1, <3>2 DEF Stops
  <2>5. CASE P(c).server = SidOf(c) /\ writer[c].up.first = 1
    <3>1. Packet(c, "up", "run")
      BY <1>1, <2>5 DEF Test
    <3>2. read[c].up <= MaxPkts
      BY <2>5, FirstRead, ConstFacts
    <3>. QED  BY <1>1, <2>1, <3>1, <3>2 DEF Gets
  <2>6. CASE P(c).server = SidOf(c) /\ writer[c].up.first # 1
    <3>1. read[c].up > 0
      BY <2>6, FirstRead, ConstFacts
    <3>2. CASE env.calm
      <4>1. Recv(c, "up")
        BY <1>1, <2>6, <3>2 DEF Test
      <4>2. Gets(c, "up") \/ End(c, "up")
        BY <4>1, <1>0, RecvDoes, ConstFacts
      <4>. QED  BY <1>1, <2>1, <3>1, <4>2 DEF Stops
    <3>3. CASE ~env.calm
      <4>1. W(c, "up", "recv") /\ UNCHANGED <<queue, count, read>>
        BY <1>1, <2>6, <3>3 DEF Test
      <4>. QED  BY <1>1, <2>1, <3>1, <3>3, <4>1 DEF Pauses
    <3>. QED  BY <3>2, <3>3
  <2>. QED  BY <2>4, <2>5, <2>6
<1>2. CASE d = "up" /\ UpRecv(c)
  <2>1. OnlyReads /\ writer[c].up.pc = "recv"
    BY <1>2 DEF UpRecv, OnlyReads
  <2>2. AtClient /\ read[c].up > 0
    BY <1>0, <2>1 DEF Self, Kind, Pkts
  <2>3. CASE RecvNothing(c)
    BY <1>2, <2>1, <2>3 DEF RecvNothing, Resumes
  <2>4. CASE Recv(c, "up")
    <3>1. Gets(c, "up") \/ End(c, "up")
      BY <1>0, <2>4, RecvDoes, ConstFacts
    <3>. QED  BY <1>2, <2>1, <2>2, <3>1 DEF Stops
  <2>. QED  BY <1>2, <2>3, <2>4 DEF UpRecv
<1>3. CASE d = "down" /\ Timeout(c)
  <2>1. OnlyReads /\ writer[c].down.pc = "run" /\ ~AtClient /\ End(c, "down") /\ P(c).client >= 0
    BY <1>3 DEF Timeout, Turn, OnlyReads
  <2>. QED  BY <1>3, <2>1 DEF Stops
<1>4. CASE Told(c, d)
  <2>1. OnlyReads /\ writer[c][d].pc = "run" /\ ~AtClient /\ End(c, d)
        /\ (d = "down" => P(c).closewaiting = 1)
    BY <1>4 DEF Told, Turn, OnlyReads
  <2>. QED  BY <2>1 DEF Stops
<1>5. CASE DoRecv(c, d)
  <2>1. OnlyReads /\ writer[c][d].pc = "run" /\ ~(AtClient /\ d = "up") /\ Recv(c, d)
        /\ (d = "down" => Sid(c, d) >= 0)
    BY <1>5 DEF DoRecv, Turn, OnlyReads
  <2>2. CASE Gets(c, d)
    BY <2>1, <2>2
  <2>3. CASE End(c, d) /\ (Source(c, d) \in closed[c] \/ ~Owns(c, Source(c, d), Sid(c, d)))
    <3>1. ASSUME AtClient, d = "down" PROVE read[c].down > 0
      <4>1. Self(c) /\ Started(c) /\ Answered(c) /\ ~Flow(c)
        BY <2>1, <3>1, WriterOf DEF Live
      <4>2. HasServer(c)
        BY <2>1, <3>1, <4>1 DEF HasServer
      <4>3. Owns(c, "server", P(c).server)
        BY <4>1, <4>2 DEF Self, Named
      <4>. QED  BY <2>3, <3>1, <4>1, <4>3 DEF Answered, Source, Sid
    <3>2. ~AtClient /\ d = "down" => P(c).client >= 0
      BY <2>1 DEF Sid, Source
    <3>. QED  BY <2>1, <2>3, <3>1, <3>2 DEF Stops
  <2>. QED  BY <1>0, <2>1, <2>2, <2>3, RecvDoes
<1>. QED  BY <1>1, <1>2, <1>3, <1>4, <1>5 DEF ReadStep

(* What all of them do.                                                    *)
Advances(c, d, l) ==
  /\ WriterAt(c, d, l)
  /\ \A b \in Conns : b # c => count'[b] = count[b] /\ read'[b] = read[b]
  /\ \A e \in Dirs : e # d => count'[c][e] = count[c][e] /\ read'[c][e] = read[c][e]
  /\ writer'[c][d].first = 1 <=> read'[c][d] = 0
  /\ count'[c][d] <= read'[c][d]
  /\ count[c][d] = read[c][d] => count'[c][d] = read'[c][d]
  /\ count[c][d] > 0 => count'[c][d] > 0
  /\ read[c][d] > 0 => read'[c][d] > 0
  /\ \A s \in Slots : s # slotOf[c] => queue'[s] = queue[s]
  /\ \A e \in Dirs : e # d => Q(c, e)' = Q(c, e)
  /\ l # "end" => Q(c, d)' = Q(c, d)
  /\ l = "recv" => AtClient /\ d = "up" /\ ~env.calm /\ read[c].up > 0
  /\ l = "end" => Stops(c, d)

LEMMA GetsDoes ==
  ASSUME Inv, NEW c \in Conns, NEW d \in Dirs, OnlyReads, Gets(c, d),
         writer[c][d].pc \in {"run", "recv"}
  PROVE  Typed' /\ Advances(c, d, "run")
<1>1. Typed /\ slotOf[c] \in Slots
  BY WriterOf
<1>2. /\ read[c][d] \in Nat /\ count[c][d] \in Nat /\ count[c][d] <= read[c][d]
      /\ read[c][d] <= MaxPkts /\ MaxPkts \in Nat
  BY FirstRead, ConstFacts DEF Gets, Inv, Self, Pkts
<1> DEFINE r == read[c][d] + 1
           k == count[c][d] + 1
           B == 0..(MaxPkts + 1)
<1>3. r \in B /\ k \in B /\ k <= r /\ r > 0 /\ k > 0 /\ (count[c][d] = read[c][d] => k = r) /\ r # 0
  BY <1>2
<1>4. /\ read' = [read EXCEPT ![c][d] = r] /\ count' = [count EXCEPT ![c][d] = k]
      /\ writer' = [writer EXCEPT ![c][d] = [pc |-> "run", first |-> 0]] /\ queue' = queue
  BY DEF Gets, Packet
<1> HIDE DEF r, k, B
<1>5. /\ read \in [Conns -> [Dirs -> B]] /\ count \in [Conns -> [Dirs -> B]]
  BY <1>1 DEF Typed, CountTyped, B
<1>6. /\ read' \in [Conns -> [Dirs -> B]] /\ count' \in [Conns -> [Dirs -> B]]
      /\ read'[c][d] = r /\ count'[c][d] = k
      /\ \A b \in Conns : b # c => count'[b] = count[b] /\ read'[b] = read[b]
      /\ \A e \in Dirs : e # d => count'[c][e] = count[c][e] /\ read'[c][e] = read[c][e]
  BY <1>3, <1>4, <1>5
<1>7. /\ writer' \in [Conns -> [Dirs -> [pc : WriterLabels, first : 0..1]]]
      /\ WriterAt(c, d, "run") /\ writer'[c][d].first = 0
  <2> DEFINE T == [pc : WriterLabels, first : 0..1]
             x == [pc |-> "run", first |-> 0]
  <2>1. x \in T /\ x.pc = "run" /\ x.first = 0
    BY DEF WriterLabels
  <2>2. writer \in [Conns -> [Dirs -> T]]
    BY <1>1 DEF Typed, TaskTyped
  <2>3. writer' = [writer EXCEPT ![c][d] = x]
    BY <1>4
  <2> HIDE DEF T, x
  <2>4. /\ writer' \in [Conns -> [Dirs -> T]] /\ writer'[c][d] = x
        /\ \A b \in Conns : b # c => writer'[b] = writer[b]
        /\ \A e \in Dirs : e # d => writer'[c][e] = writer[c][e]
    BY <2>1, <2>2, <2>3
  <2>. QED  BY <2>1, <2>4 DEF WriterAt, T
<1>8. Typed'
  BY <1>1, <1>4, <1>6, <1>7 DEF Typed, SlotTyped, SidTyped, TaskTyped, CountTyped, OnlyReads, B
<1>9. slotOf' = slotOf
  BY DEF OnlyReads
<1>. QED  BY <1>3, <1>4, <1>6, <1>7, <1>8, <1>9 DEF Advances, Q

LEMMA MovesDoes ==
  ASSUME Inv, NEW c \in Conns, NEW d \in Dirs, OnlyReads, NEW l \in WriterLabels, W(c, d, l),
         UNCHANGED <<count, read>>, writer[c][d].pc \in {"run", "recv"},
         l # "end" => UNCHANGED queue,
         l = "end" => Stops(c, d),
         l = "recv" => AtClient /\ d = "up" /\ ~env.calm /\ read[c].up > 0
  PROVE  Typed' /\ Advances(c, d, l)
<1>1. Typed /\ slotOf[c] \in Slots /\ Pkts(c) /\ slotOf' = slotOf
  BY WriterOf DEF Self, OnlyReads
<1>2. TaskTyped /\ SlotTyped
  BY <1>1 DEF Typed
<1>3. /\ writer' \in [Conns -> [Dirs -> [pc : WriterLabels, first : 0..1]]]
      /\ WriterAt(c, d, l) /\ writer'[c][d].first = writer[c][d].first
  BY <1>2, WDoes
<1>4. /\ queue' \in [Slots -> [Dirs -> QueueStates]]
      /\ \A s \in Slots : s # slotOf[c] => queue'[s] = queue[s]
      /\ \A e \in Dirs : e # d => Q(c, e)' = Q(c, e)
      /\ l # "end" => Q(c, d)' = Q(c, d)
  <2>1. CASE l = "end"
    <3>1. queue' = [queue EXCEPT ![slotOf[c]][d] = "ended"] /\ "ended" \in QueueStates
      BY <2>1 DEF Stops, End, QueueStates
    <3>. QED  BY <1>1, <1>2, <2>1, <3>1, QueueDoes
  <2>2. CASE l # "end"
    BY <1>1, <1>2, <2>2 DEF SlotTyped, Q
  <2>. QED  BY <2>1, <2>2
<1>5. Typed'
  BY <1>1, <1>3, <1>4 DEF Typed, SlotTyped, SidTyped, TaskTyped, CountTyped, OnlyReads
<1>. QED  BY <1>1, <1>3, <1>4, <1>5 DEF Advances, Pkts

LEMMA ReadStepDoes ==
  ASSUME Inv, NEW c \in Conns, NEW d \in Dirs, ReadStep(c, d)
  PROVE  /\ OnlyReads /\ Typed' /\ writer[c][d].pc \in {"run", "recv"}
         /\ \E l \in {"run", "recv", "end"} : Advances(c, d, l)
<1>1. /\ OnlyReads /\ writer[c][d].pc \in {"run", "recv"}
      /\ Gets(c, d) \/ Stops(c, d) \/ Pauses(c, d) \/ Resumes(c, d)
  BY ReadStepIs
<1>2. {"run", "recv", "end"} \subseteq WriterLabels
  BY DEF WriterLabels
<1>3. CASE Gets(c, d)
  BY <1>1, <1>3, GetsDoes
<1>4. CASE Stops(c, d)
  <2>1. W(c, d, "end") /\ UNCHANGED <<count, read>>
    BY <1>4 DEF Stops, End
  <2>. QED  BY <1>1, <1>2, <1>4, <2>1, MovesDoes
<1>5. CASE Pauses(c, d)
  <2>1. W(c, d, "recv") /\ UNCHANGED <<count, read, queue>>
        /\ AtClient /\ d = "up" /\ ~env.calm /\ read[c].up > 0
    BY <1>5 DEF Pauses
  <2>. QED  BY <1>1, <1>2, <2>1, MovesDoes
<1>6. CASE Resumes(c, d)
  <2>1. W(c, d, "run") /\ UNCHANGED <<count, read, queue>>
    BY <1>6 DEF Resumes
  <2>. QED  BY <1>1, <1>2, <2>1, MovesDoes
<1>. QED  BY <1>1, <1>3, <1>4, <1>5, <1>6

LEMMA ReadKeeps ==
  ASSUME Inv, NEW c \in Conns, NEW d \in Dirs, ReadStep(c, d)
  PROVE  Inv'
<1>1. PICK l \in {"run", "recv", "end"} : Advances(c, d, l)
  BY ReadStepDoes
<1>2. OnlyReads /\ Typed' /\ writer[c][d].pc \in {"run", "recv"} /\ WriterAt(c, d, l)
  BY <1>1, ReadStepDoes DEF Advances
<1>3. /\ Live(c) /\ slotOf[c] \in Slots /\ Has(c, d) /\ Self(c) /\ Typed
      /\ AtClient /\ d = "up" => c \in Flows /\ Flow(c)
      /\ AtClient /\ d = "down" => Answer(c) /\ Answered(c) /\ ~Flow(c)
      /\ ~AtClient => c \in Flows /\ c <= N /\ ~Flow(c) /\ ~Answer(c)
  BY <1>2, WriterOf
<1>4. /\ env' = env /\ owner' = owner /\ sids' = sids /\ para' = para /\ idx' = idx
       /\ waiting' = waiting /\ slotOf' = slotOf /\ reader' = reader /\ closed' = closed
  BY <1>2 DEF OnlyReads
<1>5. Frame(c)
  <2>1. read[c].up > 0 => read'[c].up > 0
    BY <1>1, ConstFacts DEF Advances
  <2>2. \A b \in Conns : b # c => /\ writer'[b] = writer[b] /\ reader'[b] = reader[b]
                                  /\ count'[b] = count[b] /\ read'[b] = read[b]
    BY <1>1, <1>2, <1>4 DEF Advances, WriterAt
  <2>3. \A s \in Slots : s # slotOf[c] => para'[s] = para[s] /\ queue'[s] = queue[s]
    BY <1>1, <1>4 DEF Advances
  <2>. QED  BY <1>4, <2>1, <2>2, <2>3 DEF Frame
<1>6. SidsInSlot(c) /\ P(c)' = P(c)
  BY <1>2, <1>3, SameSlot DEF OnlyReads
<1>7. /\ AtClient' <=> AtClient
      /\ Started(c)' <=> Started(c)
      /\ Began(c)' <=> Began(c)
      /\ \A e : Has(c, e)' <=> Has(c, e)
      /\ Flow(c)' <=> Flow(c)
      /\ Answer(c)' <=> Answer(c)
  BY <1>5 DEF Frame, AtClient, Started, Began, Has, Flow, Answer
<1>8. Kind(c)
  BY <1>3 DEF Self
<1>9. HasKept(c)
  <2>1. CASE d = "up"
    BY <1>1, <1>2, <1>3, <1>7, <1>8, <1>4, <2>1, ConstFacts
       DEF HasKept, HasServer, HasClient, HasClient2, WriterAt, Kind, Advances
  <2>2. CASE d = "down"
    BY <1>1, <1>2, <1>3, <1>7, <1>8, <1>4, <2>2, ConstFacts
       DEF HasKept, HasServer, HasClient, HasClient2, WriterAt, Kind, Advances
  <2>. QED  BY <2>1, <2>2 DEF Dirs
<1>10. Kind(c)'
  <2>1. \A e \in Dirs : /\ writer'[c][e].pc = "none" <=> writer[c][e].pc = "none"
                        /\ reader'[c][e] = reader[c][e]
    BY <1>2 DEF WriterAt, OnlyReads
  <2>2. writer'[c].up.pc \in {"insert", "recv"} => AtClient
    BY <1>1, <1>2, <1>8, ConstFacts DEF WriterAt, Advances, Kind
  <2>3. writer'[c].down.pc \notin {"insert", "recv"}
    BY <1>1, <1>2, <1>8, ConstFacts DEF WriterAt, Advances, Kind
  <2>4. env.calm => writer'[c].up.pc # "recv"
    BY <1>1, <1>2, <1>8, ConstFacts DEF WriterAt, Advances, Kind
  <2>. QED  BY <1>2, <1>7, <1>8, <2>1, <2>2, <2>3, <2>4 DEF Kind, OnlyReads
<1>11. Pkts(c)'
  <2>0. Pkts(c) /\ Live(c)
    BY <1>3 DEF Self
  <2>1. \A e \in Dirs : /\ count'[c][e] <= read'[c][e]
                        /\ reader'[c][e].pc = "send" => count'[c][e] > 0
                        /\ writer'[c][e].first = 1 <=> read'[c][e] = 0
    BY <1>1, <1>2, <2>0 DEF Advances, Pkts, OnlyReads, WriterAt
  <2>2. AtClient /\ writer'[c].up.pc = "insert" => read'[c].up = 0
    BY <1>1, <1>2, <2>0, ConstFacts DEF Advances, Pkts, WriterAt
  <2>3. AtClient /\ writer'[c].up.pc \in {"recv", "end", "flag", "done"} => read'[c].up > 0
    BY <1>1, <1>2, <2>0, ConstFacts DEF Advances, Pkts, WriterAt, Stops
  <2>. QED  BY <1>3, <1>7, <2>1, <2>2, <2>3 DEF Pkts, Live
<1>12. Owned(c)' /\ Named(c)'
  BY <1>5, <1>6, <1>9, <1>4, SocketsKept
<1>13. Answer(c)' => Answered(c)'
  <2> SUFFICES ASSUME Answer(c) PROVE Answered(c)'
    BY <1>7
  <2>1. d = "down" /\ Answered(c) /\ AtClient
    BY <1>3, ConstFacts DEF Answer, Flow, Dirs
  <2>2. c - N \in Conns /\ c - N # c
    BY ConstFacts DEF Answer
  <2>3. read'[c - N] = read[c - N]
    BY <1>1, <2>2 DEF Advances
  <2>. QED  BY <1>1, <1>2, <1>7, <2>1, <2>3 DEF Answered, Advances, OnlyReads, WriterAt, Stops
<1>14. Signs(c)'
  <2>0. Signs(c)
    BY <1>3 DEF Self
  <2>1. \A e \in Dirs : writer'[c][e].pc # "none" /\ Q(c, e)' = "ended"
                          => writer'[c][e].pc \in {"end", "flag", "done"}
    BY <1>1, <1>2, <2>0 DEF Signs, Advances, WriterAt
  <2>2. ~AtClient /\ writer'[c].down.pc \in {"end", "flag", "done"} =>
          P(c).client >= 0 \/ (read'[c].up = 0 /\ writer'[c].up.pc \in {"flag", "done"})
    <3>1. CASE d = "up"
      BY <1>1, <1>2, <2>0, <3>1, ConstFacts DEF Signs, Advances, WriterAt
    <3>2. CASE d = "down"
      BY <1>1, <1>2, <2>0, <3>2, ConstFacts DEF Signs, Advances, WriterAt, Stops
    <3>. QED  BY <3>1, <3>2 DEF Dirs
  <2>3. ~AtClient /\ P(c).closewaiting = 1 => read'[c].up = 0 /\ writer'[c].up.pc \in {"flag", "done"}
    <3>1. CASE d = "up"
      BY <1>1, <1>2, <2>0, <3>1, ConstFacts DEF Signs, Advances, WriterAt
    <3>2. CASE d = "down"
      BY <1>1, <1>2, <2>0, <3>2, ConstFacts DEF Signs, Advances, WriterAt
    <3>. QED  BY <3>1, <3>2 DEF Dirs
  <2>4. Flow(c) => P(c).server \in Descriptors
    BY <2>0 DEF Signs
  <2>. QED  BY <1>6, <1>7, <2>1, <2>2, <2>3, <2>4 DEF Signs
<1>15. NumbersOf(c)
  <2> SUFFICES ASSUME AtClient, NEW n \in Flows, n = c \/ n + N = c PROVE Number(n)'
    BY DEF NumbersOf
  <2>1. Number(n) /\ n \in Conns /\ n + N \in Conns /\ n + N # n
    BY ConstFacts DEF Inv, Numbers
  <2>2. writer'[n].up.pc \in {"run", "recv", "end"} => writer[n].up.pc \in {"run", "recv", "end"}
    BY <1>2, <2>1, ConstFacts DEF WriterAt
  <2>3. writer'[n].up.pc = "insert" <=> writer[n].up.pc = "insert"
    BY <1>2, <2>1, ConstFacts DEF WriterAt
  <2>4. P(n)' = P(n) /\ P(n + N)' = P(n + N) /\ (Started(n)' <=> Started(n))
        /\ \A f : Owns(n, "server", f)' <=> Owns(n, "server", f)
    BY <1>2 DEF OnlyReads, P, Started, Owns
  <2>. QED  BY <1>2, <2>1, <2>2, <2>3, <2>4 DEF Number, OnlyReads
<1>16. OwnersRight(c) /\ SidsKept(c) /\ SlotUse(c)
  BY <1>2, SameOwners, HoldsKept DEF OnlyReads
<1>17. Self(c)'
  BY <1>10, <1>11, <1>12, <1>13, <1>14 DEF Self
<1>. QED  BY <1>2, <1>3, <1>5, <1>15, <1>16, <1>17, TaskKeeps

-----------------------------------------------------------------------------
(* Steps of a reader that take, send and drop packets, or leave.           *)

SendStep(c, d) ==
  \/ Send(c, d) \/ Leave(c, d)
  \/ Take(c, d) /\ P(c)[Target(c, d)] >= 0
  \/ d = "down" /\ TakeAnswer(c) /\ reader[c].down.pktid # 0

OnlySends ==
  UNCHANGED <<env, owner, sids, para, queue, idx, waiting, slotOf, writer, read, closed>>

Moves(c, d, l) ==
  /\ ReaderAt(c, d, l) /\ reader'[c][d].pktid = reader[c][d].pktid
  /\ \A b \in Conns : b # c => count'[b] = count[b]
  /\ \A e \in Dirs : e # d => count'[c][e] = count[c][e]
  /\ count'[c][d] <= read[c][d]
  /\ l = "send" => count'[c][d] > 0
  /\ AtClient /\ d = "down" =>
       /\ l # "close"
       /\ l \in {"send", "delete"} => reader[c].down.pktid # 0
       /\ reader[c].down.pktid = 0 => count'[c].down = count[c].down
  /\ l = "delete" => AtClient /\ d = "down"

\* the counter of failed sends is the only thing a failed one changes
LEMMA SendDoes ==
  ASSUME Inv, NEW c \in Conns, NEW d \in Dirs, Send(c, d)
  PROVE  OnlySends /\ Typed' /\ Moves(c, d, "run")
<1>1. reader[c][d].pc = "send" /\ OnlySends
  BY DEF Send, OnlySends
<1>2. /\ Typed /\ Self(c) /\ Pkts(c) /\ Kind(c) /\ slotOf[c] \in Slots
      /\ AtClient /\ d = "down" => Answered(c)
  BY <1>1, ReaderOf DEF Self
<1>3. count[c][d] \in Nat /\ read[c][d] \in Nat /\ count[c][d] > 0 /\ count[c][d] <= read[c][d]
      /\ read[c][d] <= MaxPkts + 1 /\ MaxPkts \in Nat
  <2>1. count[c][d] \in Nat /\ read[c][d] \in Nat
    BY FirstRead
  <2>2. count[c][d] > 0 /\ count[c][d] <= read[c][d]
    BY <1>1, <1>2 DEF Pkts
  <2>3. read[c][d] \in 0..(MaxPkts + 1) /\ MaxPkts \in Nat
    BY <1>2, ConstFacts DEF Typed, CountTyped
  <2>. QED  BY <2>1, <2>2, <2>3
<1> DEFINE T == [pc : ReaderLabels, pktid : Flows \union {0}, tries : 0..MaxTries]
           B == 0..(MaxPkts + 1)
<1>4. reader \in [Conns -> [Dirs -> T]] /\ count \in [Conns -> [Dirs -> B]]
  BY <1>2 DEF Typed, TaskTyped, CountTyped
<1>5. \E t \in 0..MaxTries : reader' = [reader EXCEPT ![c][d].pc = "run", ![c][d].tries = t]
  <2>1. MaxTries \in Nat /\ reader[c][d].tries \in 0..MaxTries
    BY <1>4, ConstFacts
  <2>2. reader[c][d].tries < MaxTries => reader[c][d].tries + 1 \in 0..MaxTries
    BY <2>1
  <2>3. 0 \in 0..MaxTries
    BY <2>1
  <2>4. \/ reader' = [reader EXCEPT ![c][d].pc = "run", ![c][d].tries = 0]
        \/ /\ reader[c][d].tries < MaxTries
           /\ reader' = [reader EXCEPT ![c][d].pc = "run", ![c][d].tries = reader[c][d].tries + 1]
    BY <1>4 DEF Send
  <2>. QED  BY <2>2, <2>3, <2>4
<1>6. PICK t \in 0..MaxTries : reader' = [reader EXCEPT ![c][d].pc = "run", ![c][d].tries = t]
  BY <1>5
<1>7. reader' \in [Conns -> [Dirs -> T]] /\ ReaderAt(c, d, "run")
      /\ reader'[c][d].pktid = reader[c][d].pktid
  <2> DEFINE x == [reader[c][d] EXCEPT !.pc = "run", !.tries = t]
  <2>1. x \in T /\ x.pc = "run" /\ x.pktid = reader[c][d].pktid
    <3>1. reader[c][d] \in T /\ "run" \in ReaderLabels
      BY <1>4 DEF ReaderLabels
    <3>. QED  BY <1>6, <3>1
  <2>2. reader' = [reader EXCEPT ![c][d] = x]
    BY <1>4, <1>6
  <2> HIDE DEF x, T
  <2>3. /\ reader' \in [Conns -> [Dirs -> T]] /\ reader'[c][d] = x
        /\ \A b \in Conns : b # c => reader'[b] = reader[b]
        /\ \A e \in Dirs : e # d => reader'[c][e] = reader[c][e]
    BY <1>4, <2>1, <2>2
  <2>. QED  BY <2>1, <2>3 DEF ReaderAt
<1>8. /\ count' \in [Conns -> [Dirs -> B]]
      /\ \A b \in Conns : b # c => count'[b] = count[b]
      /\ \A e \in Dirs : e # d => count'[c][e] = count[c][e]
      /\ count'[c][d] <= read[c][d]
  <2>1. CASE count' = count
    BY <1>3, <1>4, <2>1
  <2>2. CASE count' = [count EXCEPT ![c][d] = count[c][d] - 1]
    <3> DEFINE k == count[c][d] - 1
    <3>1. k \in B /\ k <= read[c][d]
      BY <1>3
    <3> HIDE DEF k, B
    <3>2. count' = [count EXCEPT ![c][d] = k]
      BY <2>2 DEF k
    <3>. QED  BY <1>4, <3>1, <3>2
  <2>3. count' = count \/ count' = [count EXCEPT ![c][d] = count[c][d] - 1]
    BY <1>4 DEF Send
  <2>. QED  BY <2>1, <2>2, <2>3
<1>9. AtClient /\ d = "down" => reader[c].down.pktid # 0
  <2> SUFFICES ASSUME AtClient, d = "down" PROVE reader[c].down.pktid # 0
    OBVIOUS
  <2>1. Answered(c) /\ c - N \in Flows /\ reader[c].down.pc = "send"
    BY <1>1, ReaderOf, ConstFacts DEF Answer
  <2>. QED  BY <2>1, ConstFacts DEF Answered
<1>10. Typed'
  BY <1>1, <1>2, <1>7, <1>8 DEF Typed, SlotTyped, SidTyped, TaskTyped, CountTyped, OnlySends
<1>. QED  BY <1>1, <1>7, <1>8, <1>9, <1>10 DEF Moves

LEMMA LabelDoes ==
  ASSUME Inv, NEW c \in Conns, NEW d \in Dirs, OnlySends, UNCHANGED count,
         NEW l \in ReaderLabels, R(c, d, l),
         l = "send" => count[c][d] > 0,
         AtClient /\ d = "down" =>
           l # "close" /\ (l \in {"send", "delete"} => reader[c].down.pktid # 0),
         l = "delete" => AtClient /\ d = "down"
  PROVE  Typed' /\ Moves(c, d, l)
<1>1. Typed /\ TaskTyped /\ Pkts(c)
  BY DEF Inv, Self, Typed
<1>2. /\ reader' \in [Conns -> [Dirs -> [pc : ReaderLabels, pktid : Flows \union {0}, tries : 0..MaxTries]]]
      /\ ReaderAt(c, d, l) /\ reader'[c][d].pktid = reader[c][d].pktid
  BY <1>1, RDoes
<1>3. Typed'
  BY <1>1, <1>2 DEF Typed, SlotTyped, SidTyped, TaskTyped, CountTyped, OnlySends
<1>. QED  BY <1>1, <1>2, <1>3 DEF Moves, Pkts

LEMMA SendStepDoes ==
  ASSUME Inv, NEW c \in Conns, NEW d \in Dirs, SendStep(c, d)
  PROVE  /\ OnlySends /\ Typed' /\ reader[c][d].pc \in {"run", "send"}
         /\ \E l \in {"run", "send", "delete", "close"} : Moves(c, d, l)
<1>0. {"run", "send", "delete", "close"} \subseteq ReaderLabels
  BY DEF ReaderLabels
<1>1. CASE Send(c, d)
  <2>1. reader[c][d].pc = "send"
    BY <1>1 DEF Send
  <2>. QED  BY <1>1, <2>1, SendDoes
<1>2. CASE Leave(c, d)
  <2>1. /\ reader[c][d].pc = "run" /\ OnlySends /\ UNCHANGED count
        /\ Q(c, d) = "ended" /\ count[c][d] = 0
        /\ R(c, d, IF ToBrowser(c, d) THEN "delete" ELSE "close")
    BY <1>2 DEF Leave, OnlySends
  <2>2. CASE AtClient /\ d = "down"
    <3>1. R(c, d, "delete")
      BY <2>1, <2>2 DEF ToBrowser
    <3>2. Self(c) /\ Answered(c) /\ Live(c)
      BY <2>1, <2>2, ReaderOf
    <3>3. writer[c].down.pc # "none"
      BY <2>1, <2>2, <3>2, ConstFacts DEF Self, Kind
    <3>4. writer[c].down.pc \in {"end", "flag", "done"}
      BY <2>1, <2>2, <3>2, <3>3, ConstFacts DEF Self, Signs
    <3>5. read[c].down > 0 /\ count[c].down = 0
      BY <2>1, <2>2, <3>2, <3>4 DEF Answered
    <3>6. reader[c].down.pktid # 0
      BY <3>2, <3>5 DEF Answered
    <3>. QED  BY <1>0, <2>1, <2>2, <3>1, <3>6, LabelDoes
  <2>3. CASE ~(AtClient /\ d = "down")
    <3>1. R(c, d, "close")
      BY <2>1, <2>3 DEF ToBrowser
    <3>. QED  BY <1>0, <2>1, <2>3, <3>1, LabelDoes
  <2>. QED  BY <2>2, <2>3
<1>3. CASE Take(c, d) /\ P(c)[Target(c, d)] >= 0
  <2>1. /\ reader[c][d].pc = "run" /\ OnlySends /\ UNCHANGED count
        /\ count[c][d] > 0 /\ R(c, d, "send") /\ ~(AtClient /\ d = "down")
    BY <1>3 DEF Take, OnlySends, Pending, ToBrowser
  <2>. QED  BY <1>0, <2>1, LabelDoes
<1>4. CASE d = "down" /\ TakeAnswer(c) /\ reader[c].down.pktid # 0
  <2>1. /\ reader[c][d].pc = "run" /\ OnlySends /\ UNCHANGED count
        /\ count[c][d] > 0 /\ R(c, d, "send") /\ AtClient
    BY <1>4 DEF TakeAnswer, OnlySends, Pending, ToBrowser
  <2>. QED  BY <1>0, <1>4, <2>1, LabelDoes
<1>. QED  BY <1>1, <1>2, <1>3, <1>4 DEF SendStep

LEMMA SendKeeps ==
  ASSUME Inv, NEW c \in Conns, NEW d \in Dirs, SendStep(c, d)
  PROVE  Inv'
<1>1. PICK l \in {"run", "send", "delete", "close"} : Moves(c, d, l)
  BY SendStepDoes
<1>2. OnlySends /\ Typed' /\ reader[c][d].pc \in {"run", "send"} /\ ReaderAt(c, d, l)
  BY <1>1, SendStepDoes DEF Moves
<1>3. /\ Live(c) /\ slotOf[c] \in Slots /\ Has(c, d) /\ Self(c) /\ Typed
      /\ AtClient /\ d = "up" => c \in Flows /\ Flow(c)
      /\ AtClient /\ d = "down" => Answer(c) /\ Answered(c) /\ ~Flow(c)
      /\ ~AtClient => c \in Flows /\ c <= N /\ ~Flow(c) /\ ~Answer(c)
  BY <1>2, ReaderOf
<1>4. /\ env' = env /\ owner' = owner /\ sids' = sids /\ para' = para /\ queue' = queue
      /\ idx' = idx /\ waiting' = waiting /\ slotOf' = slotOf /\ writer' = writer
      /\ read' = read /\ closed' = closed
  BY <1>2 DEF OnlySends
<1>5. Frame(c)
  BY <1>1, <1>2, <1>4 DEF Frame, Moves, ReaderAt
<1>6. SidsInSlot(c) /\ P(c)' = P(c)
  BY <1>3, <1>4, SameSlot
<1>7. /\ AtClient' <=> AtClient
      /\ Started(c)' <=> Started(c)
      /\ Began(c)' <=> Began(c)
      /\ \A e : Has(c, e)' <=> Has(c, e)
      /\ Flow(c)' <=> Flow(c)
      /\ Answer(c)' <=> Answer(c)
  BY <1>4 DEF AtClient, Started, Began, Has, Flow, Answer
<1>8. HasKept(c)
  <2>1. CASE d = "up"
    BY <1>1, <1>2, <1>4, <1>7, <2>1, ConstFacts
       DEF HasKept, HasServer, HasClient, HasClient2, ReaderAt, Moves
  <2>2. CASE d = "down"
    BY <1>1, <1>2, <1>4, <1>7, <2>2, ConstFacts
       DEF HasKept, HasServer, HasClient, HasClient2, ReaderAt, Moves
  <2>. QED  BY <2>1, <2>2 DEF Dirs
<1>9. Kind(c)'
  <2>0. Kind(c)
    BY <1>3 DEF Self
  <2>1. \A e \in Dirs : reader'[c][e].pc = "none" <=> reader[c][e].pc = "none"
    BY <1>2 DEF ReaderAt
  <2>2. reader'[c].up.pc # "delete"
    BY <1>1, <1>2, <2>0, ConstFacts DEF ReaderAt, Moves, Kind
  <2>3. reader'[c].down.pc = "delete" => AtClient
    BY <1>1, <1>2, <2>0, ConstFacts DEF ReaderAt, Moves, Kind
  <2>. QED  BY <1>4, <1>7, <2>0, <2>1, <2>2, <2>3 DEF Kind
<1>10. Pkts(c)'
  <2>1. Pkts(c)
    BY <1>3 DEF Self
  <2>2. \A e \in Dirs : /\ count'[c][e] <= read'[c][e]
                        /\ reader'[c][e].pc = "send" => count'[c][e] > 0
    BY <1>1, <1>2, <1>4, <2>1 DEF Moves, Pkts, ReaderAt
  <2>. QED  BY <1>4, <1>7, <2>1, <2>2 DEF Pkts
<1>11. Owned(c)' /\ Named(c)'
  BY <1>4, <1>5, <1>6, <1>8, SocketsKept
<1>12. Answer(c)' => Answered(c)'
  <2> SUFFICES ASSUME Answer(c) PROVE Answered(c)'
    BY <1>7
  <2>1. d = "down" /\ Answered(c) /\ AtClient
    BY <1>3, ConstFacts DEF Answer, Flow, Dirs
  <2>2. reader'[c].down.pc = l /\ reader'[c].down.pktid = reader[c].down.pktid
    BY <1>1, <1>2, <2>1 DEF Moves, ReaderAt
  <2>. QED  BY <1>1, <1>2, <1>4, <1>7, <2>1, <2>2 DEF Answered, Moves
<1>13. Signs(c)'
  <2>1. Signs(c)
    BY <1>3 DEF Self
  <2>2. \A e \in Dirs : Q(c, e)' = Q(c, e)
    BY <1>4 DEF Q
  <2>. QED  BY <1>4, <1>6, <1>7, <2>1, <2>2 DEF Signs
<1>14. NumbersOf(c)
  <2> SUFFICES ASSUME AtClient, NEW n \in Flows, n = c \/ n + N = c PROVE Number(n)'
    BY DEF NumbersOf
  <2>1. Number(n) /\ n \in Conns /\ n + N \in Conns /\ n + N # n
    BY ConstFacts DEF Inv, Numbers
  <2>2. P(n)' = P(n) /\ P(n + N)' = P(n + N) /\ (Started(n)' <=> Started(n))
        /\ \A f : Owns(n, "server", f)' <=> Owns(n, "server", f)
    BY <1>4 DEF P, Started, Owns
  <2>3. reader'[n + N].down.pc \in {"close", "wait", "done"}
          <=> reader[n + N].down.pc \in {"close", "wait", "done"}
    <3>1. CASE n + N = c /\ d = "down"
      BY <1>1, <1>2, <2>1, <3>1, ConstFacts DEF Moves, ReaderAt
    <3>2. CASE ~(n + N = c /\ d = "down")
      BY <1>2, <2>1, <3>2, ConstFacts DEF ReaderAt, Dirs
    <3>. QED  BY <3>1, <3>2
  <2>4. reader'[n + N].down.pktid = reader[n + N].down.pktid
        /\ (reader'[n + N].down.pc \in {"wait", "done"} => reader[n + N].down.pc \in {"wait", "done"})
        /\ (reader'[n + N].down.pc \in {"run", "send", "delete", "close"}
              => reader[n + N].down.pc \in {"run", "send", "delete", "close"})
    <3>1. CASE n + N = c /\ d = "down"
      BY <1>1, <1>2, <2>1, <3>1, ConstFacts DEF Moves, ReaderAt
    <3>2. CASE ~(n + N = c /\ d = "down")
      BY <1>2, <2>1, <3>2, ConstFacts DEF ReaderAt, Dirs
    <3>. QED  BY <3>1, <3>2
  <2>. QED  BY <1>4, <2>1, <2>2, <2>3, <2>4 DEF Number
<1>15. OwnersRight(c) /\ SidsKept(c)
  BY <1>4, SameOwners
<1>16. SlotUse(c)
  <2>1. Holds(c) => Holds(c)'
    <3>1. \A e \in Dirs : reader[c][e].pc \notin {"none", "done"} => reader'[c][e].pc \notin {"none", "done"}
      BY <1>2 DEF ReaderAt
    <3>2. Returner(c) \in Dirs /\ Returner(c)' = Returner(c)
      BY <1>7, ConstFacts DEF Returner, ServerOf
    <3>. QED  BY <3>1, <3>2 DEF Holds
  <2>. QED  BY <1>4, <2>1 DEF SlotUse
<1>17. Self(c)'
  BY <1>9, <1>10, <1>11, <1>12, <1>13 DEF Self
<1>. QED  BY <1>2, <1>3, <1>5, <1>14, <1>15, <1>16, <1>17, TaskKeeps

-----------------------------------------------------------------------------
(* The first packet of a connection opens the socket, or finds it.         *)

LEMMA AnswerFlow ==
  ASSUME Inv, NEW c \in Conns, Answer(c), Began(c)
  PROVE  /\ AtClient /\ c - N \in Flows /\ c - N \in Conns /\ (c - N) + N = c /\ c - N # c
         /\ Started(c - N) /\ read[c - N].up > 0 /\ writer[c - N].up.pc # "insert"
         /\ Number(c - N)
<1>1. AtClient /\ c - N \in Flows /\ c - N \in Conns /\ (c - N) + N = c /\ c - N # c
  BY ConstFacts DEF Answer
<1>2. Answered(c) /\ Pkts(c - N) /\ Number(c - N)
  BY <1>1 DEF Inv, Self, Numbers
<1>3. read[c - N].up > 0
  BY <1>2 DEF Answered
<1>4. read[c - N].up # 0
  BY <1>1, <1>3, FirstRead, ConstFacts
<1>. QED  BY <1>1, <1>2, <1>3, <1>4 DEF Pkts

LEMMA NotFree == \A b \in Conns, e \in Ends : <<b, e>> # Free
BY ConstFacts DEF Free

Opens(c, d) == owner' = Opened(c, Target(c, d)) /\ Set(c, Target(c, d), Unused)
Misses(c, d) == Set(c, Target(c, d), NoSid) /\ UNCHANGED owner

LEMMA TakeFacts ==
  ASSUME Inv, NEW c \in Conns, NEW d \in Dirs, Take(c, d), ~(P(c)[Target(c, d)] >= 0)
  PROVE  /\ reader[c][d].pc = "run" /\ count[c][d] > 0 /\ ~(AtClient /\ d = "down")
         /\ Opens(c, d) \/ Misses(c, d)
         /\ R(c, d, "send")
         /\ UNCHANGED <<env, sids, queue, idx, waiting, slotOf, writer, count, read, closed>>
         /\ d = "up" => Target(c, d) = "client" /\ HasClient(c)
         /\ d = "down" => Target(c, d) = "client2" /\ HasClient2(c)
         /\ \A f \in Descriptors : owner[f] # <<c, Target(c, d)>>
         /\ Unused \in Descriptors /\ owner[Unused] = Free
         /\ ~AtClient => writer[c].down.pc = "run" \/ d = "down"
<1>1. /\ reader[c][d].pc = "run" /\ count[c][d] > 0 /\ ~(AtClient /\ d = "down")
      /\ Opens(c, d) \/ Misses(c, d)
      /\ R(c, d, "send")
      /\ UNCHANGED <<env, sids, queue, idx, waiting, slotOf, writer, count, read, closed>>
  BY DEF Take, Pending, ToBrowser, Opens, Misses
<1>2. Self(c) /\ Live(c) /\ Has(c, d) /\ Kind(c) /\ Owned(c) /\ Signs(c) /\ Pkts(c) /\ c <= N
      /\ (~AtClient => ~Flow(c) /\ ~Answer(c)) /\ c \in Flows
  BY <1>1, ReaderOf, ConstFacts DEF Self, Dirs
<1>3. d = "up" /\ ~AtClient => writer[c].down.pc = "run"
  <2> SUFFICES ASSUME d = "up", ~AtClient PROVE writer[c].down.pc = "run"
    OBVIOUS
  <2>1. writer[c].down.pc \in WriterLabels
    BY ConstFacts DEF Inv, Typed, TaskTyped
  <2>2. Has(c, "down") /\ Started(c)
    BY <1>2 DEF Has, Live
  <2>3. writer[c].down.pc \notin {"none", "insert", "recv"}
    BY <1>2, <2>2, ConstFacts, SettingFacts DEF Kind
  <2>4. read[c].up # 0
    BY <1>1, <1>2, FirstRead, ConstFacts DEF Pkts
  <2>5. ~(P(c).client >= 0)
    BY DEF Target
  <2>6. writer[c].down.pc \notin {"end", "flag", "done"}
    BY <1>2, <2>4, <2>5 DEF Signs
  <2>. QED  BY <2>1, <2>3, <2>6 DEF WriterLabels
<1>4. d = "up" => Target(c, d) = "client" /\ HasClient(c)
  BY <1>1, <1>2, <1>3, ConstFacts DEF Target, HasClient
<1>5. d = "down" => Target(c, d) = "client2" /\ HasClient2(c)
  BY <1>1, <1>2, ConstFacts DEF Target, HasClient2
<1>6. ASSUME NEW f \in Descriptors PROVE owner[f] # <<c, Target(c, d)>>
  <2>1. f >= 0
    BY ConstFacts
  <2>2. P(c)[Target(c, d)] # f
    BY <2>1
  <2>. QED  BY <1>2, <1>4, <1>5, <2>2 DEF Owned, Dirs
<1>7. <<c, Target(c, d)>> \in Sockets
  BY <1>1, <1>2, <1>4, <1>5 DEF Sockets, Dirs, Ends
<1>8. Unused \in Descriptors /\ owner[Unused] = Free
  BY <1>6, <1>7, Lowest
<1>. QED  BY <1>1, <1>3, <1>4, <1>5, <1>6, <1>8 DEF Dirs

LEMMA TakeKeeps ==
  ASSUME Inv, NEW c \in Conns, NEW d \in Dirs, Take(c, d), ~(P(c)[Target(c, d)] >= 0)
  PROVE  Inv'
<1> DEFINE g == Target(c, d)
           v == P(c)'[g]
<1>1. /\ reader[c][d].pc = "run" /\ count[c][d] > 0 /\ ~(AtClient /\ d = "down")
      /\ d = "up" => g = "client" /\ HasClient(c)
      /\ d = "down" => g = "client2" /\ HasClient2(c)
      /\ \A f \in Descriptors : owner[f] # <<c, g>>
      /\ Unused \in Descriptors /\ owner[Unused] = Free
      /\ ~AtClient => writer[c].down.pc = "run" \/ d = "down"
      /\ R(c, d, "send")
  BY TakeFacts
<1>2. /\ env' = env /\ sids' = sids /\ queue' = queue /\ idx' = idx /\ waiting' = waiting
      /\ slotOf' = slotOf /\ writer' = writer /\ count' = count /\ read' = read /\ closed' = closed
  BY TakeFacts
<1>3. /\ Live(c) /\ slotOf[c] \in Slots /\ Self(c) /\ Typed /\ c \in Flows /\ c <= N
      /\ AtClient => d = "up" /\ Flow(c)
      /\ ~Answer(c)
  <2>1. /\ Live(c) /\ slotOf[c] \in Slots /\ Self(c) /\ Typed
        /\ AtClient => c \in Flows /\ Flow(c) /\ d = "up"
        /\ ~AtClient => c \in Flows /\ ~Answer(c)
    BY <1>1, ReaderOf DEF Dirs
  <2>2. c \in Flows /\ c <= N /\ ~(c > N)
    BY <2>1, ConstFacts
  <2>. QED  BY <2>1, <2>2 DEF Answer
<1>4. TaskTyped /\ SlotTyped
  BY <1>3 DEF Typed
<1>5. /\ reader' \in [Conns -> [Dirs -> [pc : ReaderLabels, pktid : Flows \union {0}, tries : 0..MaxTries]]]
      /\ ReaderAt(c, d, "send")
  BY <1>1, <1>4, RDoes DEF ReaderLabels
<1>6. g \in Fields /\ g \in Ends /\ g \in {"client", "client2"}
  BY <1>1 DEF Fields, Ends, Dirs
<1>7. /\ para' \in [Slots -> SlotRecord] /\ PutIn(c, g, v)
      /\ owner' \in [Descriptors -> {Free} \union (Conns \X Ends)]
      /\ \A f \in Descriptors : owner'[f] # owner[f] => owner[f] = Free /\ owner'[f] = <<c, g>>
      /\ \A f \in Descriptors : owner'[f] = <<c, g>> => v = f
      /\ v >= 0 => v \in Descriptors /\ owner'[v] = <<c, g>>
  <2>1. CASE Opens(c, d)
    <3>1. owner' = Opened(c, g) /\ Set(c, g, Unused)
      BY <2>1 DEF Opens
    <3>2. /\ owner' \in [Descriptors -> {Free} \union (Conns \X Ends)]
          /\ owner'[Unused] = <<c, g>>
          /\ \A f \in Descriptors : f # Unused => owner'[f] = owner[f]
      BY <1>1, <1>4, <1>6, <3>1, OpenDoes
    <3>3. Unused \in Sids
      BY <1>1 DEF Sids
    <3>4. para' \in [Slots -> SlotRecord] /\ PutIn(c, g, Unused)
      BY <1>2, <1>3, <1>4, <1>6, <3>1, <3>3, SetDoes
    <3>5. v = Unused
      BY <3>4 DEF PutIn
    <3>. QED  BY <1>1, <3>2, <3>4, <3>5
  <2>2. CASE Misses(c, d)
    <3>1. owner' = owner /\ Set(c, g, NoSid)
      BY <2>2 DEF Misses
    <3>2. NoSid \in Sids /\ ~(NoSid >= 0)
      BY DEF Sids, NoSid
    <3>3. para' \in [Slots -> SlotRecord] /\ PutIn(c, g, NoSid)
      BY <1>2, <1>3, <1>4, <1>6, <3>1, <3>2, SetDoes
    <3>4. v = NoSid
      BY <3>3 DEF PutIn
    <3>. QED  BY <1>1, <1>4, <3>1, <3>2, <3>3, <3>4 DEF SlotTyped
  <2>. QED  BY <2>1, <2>2, TakeFacts
<1> HIDE DEF g, v
<1>8. Typed'
  BY <1>2, <1>3, <1>5, <1>7 DEF Typed, SlotTyped, SidTyped, TaskTyped, CountTyped
<1>9. Frame(c)
  BY <1>2, <1>5, <1>7 DEF Frame, ReaderAt, PutIn
<1>10. /\ AtClient' <=> AtClient
       /\ Started(c)' <=> Started(c)
       /\ Began(c)' <=> Began(c)
       /\ \A e : Has(c, e)' <=> Has(c, e)
       /\ Flow(c)' <=> Flow(c)
       /\ Answer(c)' <=> Answer(c)
  BY <1>2 DEF AtClient, Started, Began, Has, Flow, Answer
<1>11. HasKept(c)
  <2>1. CASE d = "up"
    BY <1>1, <1>2, <1>5, <1>10, <2>1, ConstFacts
       DEF HasKept, HasServer, HasClient, HasClient2, ReaderAt
  <2>2. CASE d = "down"
    BY <1>1, <1>2, <1>5, <1>10, <2>2, ConstFacts
       DEF HasKept, HasServer, HasClient, HasClient2, ReaderAt
  <2>. QED  BY <2>1, <2>2 DEF Dirs
<1>12. \A f \in Descriptors, b \in Conns, e \in Ends :
         <<b, e>> # <<c, g>> => (owner'[f] = <<b, e>> <=> owner[f] = <<b, e>>)
  <2>1. ASSUME NEW f \in Descriptors, NEW b \in Conns, NEW e \in Ends, <<b, e>> # <<c, g>>
        PROVE  owner'[f] = <<b, e>> <=> owner[f] = <<b, e>>
    BY <1>7, <2>1, NotFree
  <2>. QED  BY <2>1
<1>13. \A h \in Fields : h # g => P(c)'[h] = P(c)[h]
  BY <1>7 DEF PutIn
<1>14. P(c)'.server = P(c).server /\ P(c)'.closewaiting = P(c).closewaiting
       /\ P(c)'.usedflag = P(c).usedflag
  BY <1>6, <1>13 DEF Fields
<1>15. /\ g = "client" => P(c)'.client = v /\ P(c)'.client2 = P(c).client2 /\ HasClient(c)
       /\ g = "client2" => P(c)'.client2 = v /\ P(c)'.client = P(c).client /\ HasClient2(c)
  BY <1>1, <1>13 DEF Fields, v, Dirs
<1>16. Kind(c)'
  <2>0. Kind(c)
    BY <1>3 DEF Self
  <2>1. \A e \in Dirs : reader'[c][e].pc = "none" <=> reader[c][e].pc = "none"
    BY <1>1, <1>5 DEF ReaderAt
  <2>2. reader'[c].up.pc # "delete" /\ (reader'[c].down.pc = "delete" => AtClient)
    BY <1>5, <2>0, ConstFacts DEF ReaderAt, Kind
  <2>. QED  BY <1>2, <1>10, <2>0, <2>1, <2>2 DEF Kind
<1>17. Pkts(c)'
  <2>1. Pkts(c)
    BY <1>3 DEF Self
  <2>2. \A e \in Dirs : reader'[c][e].pc = "send" => count[c][e] > 0
    BY <1>1, <1>5, <2>1 DEF Pkts, ReaderAt
  <2>. QED  BY <1>2, <1>10, <2>1, <2>2 DEF Pkts
<1>18. Owned(c)'
  <2>1. Owned(c)
    BY <1>3 DEF Self
  <2>2. ASSUME NEW f \in Descriptors, owner'[f] = <<c, "server">>
        PROVE  Began(c) /\ (Started(c) /\ ~Flow(c) => HasServer(c) /\ P(c).server = f)
    BY <1>6, <1>12, <2>1, <2>2 DEF Owned, Ends
  <2>3. ASSUME NEW f \in Descriptors, owner'[f] = <<c, "client">>
        PROVE  HasClient(c) /\ P(c)'.client = f
    BY <1>6, <1>7, <1>12, <1>15, <2>1, <2>3 DEF Owned, Ends
  <2>4. ASSUME NEW f \in Descriptors, owner'[f] = <<c, "client2">>
        PROVE  HasClient2(c) /\ P(c)'.client2 = f
    BY <1>6, <1>7, <1>12, <1>15, <2>1, <2>4 DEF Owned, Ends
  <2>. QED  BY <1>10, <1>11, <1>14, <2>2, <2>3, <2>4 DEF Owned, HasKept
<1>19. Named(c)'
  <2>1. Named(c)
    BY <1>3 DEF Self
  <2>2. HasServer(c) => Owns(c, "server", P(c).server)'
    BY <1>6, <1>12, <1>14, <2>1 DEF Named, Owns, Ends
  <2>3. HasClient(c) /\ P(c)'.client >= 0 => Owns(c, "client", P(c).client)'
    BY <1>6, <1>7, <1>12, <1>15, <2>1 DEF Named, Owns, Ends
  <2>4. HasClient2(c) /\ P(c)'.client2 >= 0 => Owns(c, "client2", P(c).client2)'
    BY <1>6, <1>7, <1>12, <1>15, <2>1 DEF Named, Owns, Ends
  <2>. QED  BY <1>11, <2>2, <2>3, <2>4 DEF Named, HasKept
<1>20. Signs(c)'
  <2>1. Signs(c)
    BY <1>3 DEF Self, Live
  <2>2. \A e \in Dirs : Q(c, e)' = Q(c, e)
    BY <1>2 DEF Q
  <2>3. ~AtClient /\ writer[c].down.pc \in {"end", "flag", "done"} => P(c)'.client = P(c).client
    BY <1>1, <1>6, <1>15 DEF Dirs
  <2>. QED  BY <1>2, <1>10, <1>14, <2>1, <2>2, <2>3 DEF Signs
<1>21. NumbersOf(c)
  <2> SUFFICES ASSUME AtClient, NEW n \in Flows, n = c \/ n + N = c PROVE Number(n)'
    BY DEF NumbersOf
  <2>1. Number(n) /\ n \in Conns /\ n + N \in Conns /\ n + N # n /\ n = c
    BY <1>3, ConstFacts DEF Inv, Numbers
  <2>2. reader'[n + N] = reader[n + N] /\ writer' = writer
    BY <1>2, <1>5, <2>1 DEF ReaderAt
  <2>3. P(n)'.server = P(n).server /\ (Started(n)' <=> Started(n))
    BY <1>10, <1>14, <2>1
  <2>4. \A f : Owns(n, "server", f)' <=> Owns(n, "server", f)
    BY <1>6, <1>12, <2>1 DEF Owns, Ends
  <2>5. \A f \in Descriptors : owner'[f] = <<n, "server">> <=> owner[f] = <<n, "server">>
    BY <1>6, <1>12, <2>1 DEF Ends
  <2>6. reader[n + N].down.pc \in {"run", "send", "delete", "close"} => P(n + N)' = P(n + N)
    <3> SUFFICES ASSUME reader[n + N].down.pc \in {"run", "send", "delete", "close"}
                 PROVE  P(n + N)' = P(n + N)
      OBVIOUS
    <3>1. Live(n + N)
      BY <2>1, ReaderOf, ConstFacts
    <3>. QED  BY <1>3, <1>9, <2>1, <3>1, LiveApart DEF Frame, P
  <2>. QED  BY <1>2, <2>1, <2>2, <2>3, <2>4, <2>5, <2>6 DEF Number
<1>22. OwnersRight(c)
  <2>1. \A b \in Conns : b # c => OwnersKept(b)
    BY <1>12 DEF OwnersKept
  <2>2. OneOwner'
    BY <1>1, <1>7 DEF OneOwner, Inv
  <2>. QED  BY <2>1, <2>2 DEF OwnersRight
<1>23. SidsKept(c)
  BY <1>2, <1>12, ConstFacts DEF SidsKept, SidKept, OwnersKept
<1>24. SlotUse(c)
  <2>1. Holds(c) => Holds(c)'
    <3>1. \A e \in Dirs : reader[c][e].pc \notin {"none", "done"} => reader'[c][e].pc \notin {"none", "done"}
      BY <1>5 DEF ReaderAt
    <3>2. Returner(c) \in Dirs /\ Returner(c)' = Returner(c)
      BY <1>10, ConstFacts DEF Returner, ServerOf
    <3>. QED  BY <3>1, <3>2 DEF Holds
  <2>2. para'[slotOf[c]].usedflag = para[slotOf[c]].usedflag
    BY <1>2, <1>14 DEF P
  <2>. QED  BY <2>1, <2>2 DEF SlotUse
<1>25. Self(c)'
  BY <1>3, <1>10, <1>16, <1>17, <1>18, <1>19, <1>20 DEF Self
<1>. QED  BY <1>3, <1>8, <1>9, <1>21, <1>22, <1>23, <1>24, <1>25, TaskKeeps

(* The first answer finds the browser's socket.                            *)
LEMMA AnswerKeeps ==
  ASSUME Inv, NEW c \in Conns, TakeAnswer(c), reader[c].down.pktid = 0
  PROVE  Inv'
<1> DEFINE n == c - N
           v == SidOf(n)
<1>1. /\ env' = env /\ owner' = owner /\ sids' = sids /\ queue' = queue /\ idx' = idx
      /\ waiting' = waiting /\ slotOf' = slotOf /\ writer' = writer /\ count' = count
      /\ read' = read /\ closed' = closed
      /\ reader[c].down.pc = "run" /\ count[c].down > 0 /\ AtClient
      /\ reader' = [reader EXCEPT ![c].down.pc = "send", ![c].down.pktid = n]
      /\ Set(c, "client", v)
  BY DEF TakeAnswer, Pending, ToBrowser
<1>2. /\ Live(c) /\ slotOf[c] \in Slots /\ Self(c) /\ Typed /\ Answer(c) /\ Answered(c) /\ ~Flow(c)
  BY <1>1, ReaderOf, ConstFacts
<1>3. /\ n \in Flows /\ n \in Conns /\ n + N = c /\ n # c
      /\ Started(n) /\ writer[n].up.pc # "insert" /\ Number(n) /\ ~(c <= N)
  BY <1>2, AnswerFlow, ConstFacts DEF Began, Live, Answer
<1>4. n \in DOMAIN sids /\ v \in Descriptors /\ Owns(n, "server", v)
  BY <1>1, <1>3 DEF Number, SidOf, Owns
<1> HIDE DEF n, v
<1>5. TaskTyped /\ SlotTyped
  BY <1>2 DEF Typed
<1>6. para' \in [Slots -> SlotRecord] /\ PutIn(c, "client", v)
  <2>1. v \in Sids /\ "client" \in Fields
    BY <1>4 DEF Sids, Fields
  <2>. QED  BY <1>1, <1>2, <1>5, <2>1, SetDoes
<1>7. /\ reader' \in [Conns -> [Dirs -> [pc : ReaderLabels, pktid : Flows \union {0}, tries : 0..MaxTries]]]
      /\ ReaderAt(c, "down", "send") /\ reader'[c].down.pktid = n
  <2> DEFINE T == [pc : ReaderLabels, pktid : Flows \union {0}, tries : 0..MaxTries]
             x == [reader[c]["down"] EXCEPT !.pc = "send", !.pktid = n]
  <2>1. reader \in [Conns -> [Dirs -> T]] /\ "down" \in Dirs
    BY <1>5, ConstFacts DEF TaskTyped
  <2>2. x \in T /\ x.pc = "send" /\ x.pktid = n
    <3>1. reader[c]["down"] \in T /\ "send" \in ReaderLabels
      BY <2>1 DEF ReaderLabels
    <3>. QED  BY <1>3, <3>1
  <2>3. reader' = [reader EXCEPT ![c]["down"] = x]
    BY <1>1, <2>1
  <2> HIDE DEF x, T
  <2>4. /\ reader' \in [Conns -> [Dirs -> T]] /\ reader'[c]["down"] = x
        /\ \A b \in Conns : b # c => reader'[b] = reader[b]
        /\ \A e \in Dirs : e # "down" => reader'[c][e] = reader[c][e]
    BY <2>1, <2>2, <2>3
  <2>. QED  BY <2>2, <2>4 DEF ReaderAt, T
<1>8. Typed'
  BY <1>1, <1>2, <1>6, <1>7 DEF Typed, SlotTyped, SidTyped, TaskTyped, CountTyped
<1>9. Frame(c)
  BY <1>1, <1>6, <1>7 DEF Frame, ReaderAt, PutIn
<1>10. /\ AtClient' <=> AtClient
       /\ Started(c)' <=> Started(c)
       /\ Began(c)' <=> Began(c)
       /\ \A e : Has(c, e)' <=> Has(c, e)
       /\ Flow(c)' <=> Flow(c)
       /\ Answer(c)' <=> Answer(c)
  BY <1>1 DEF AtClient, Started, Began, Has, Flow, Answer
<1>11. P(c)'.server = P(c).server /\ P(c)'.usedflag = P(c).usedflag /\ P(c)'.client = v
  BY <1>6 DEF Fields, PutIn
<1>12. /\ HasServer(c)' <=> HasServer(c)
       /\ ~HasClient(c) /\ ~HasClient2(c) /\ ~HasClient(c)' /\ ~HasClient2(c)'
  BY <1>1, <1>3, <1>10 DEF HasServer, HasClient, HasClient2
<1>13. Kind(c)'
  <2>0. Kind(c)
    BY <1>2 DEF Self
  <2>1. \A e \in Dirs : reader'[c][e].pc = "none" <=> reader[c][e].pc = "none"
    BY <1>1, <1>7 DEF ReaderAt
  <2>2. reader'[c].up.pc # "delete" /\ (reader'[c].down.pc = "delete" => AtClient)
    BY <1>1, <1>7, <2>0, ConstFacts DEF ReaderAt, Kind
  <2>. QED  BY <1>1, <1>10, <2>0, <2>1, <2>2 DEF Kind
<1>14. Pkts(c)'
  <2>1. Pkts(c)
    BY <1>2 DEF Self
  <2>2. \A e \in Dirs : reader'[c][e].pc = "send" => count[c][e] > 0
    BY <1>1, <1>7, <2>1 DEF Pkts, ReaderAt
  <2>. QED  BY <1>1, <1>10, <2>1, <2>2 DEF Pkts
<1>15. Owned(c)' /\ Named(c)'
  <2>1. Owned(c) /\ Named(c)
    BY <1>2 DEF Self
  <2>. QED  BY <1>1, <1>10, <1>11, <1>12, <2>1 DEF Owned, Named, Owns
<1>16. Answered(c)'
  BY <1>1, <1>2, <1>7, <1>10 DEF Answered, ReaderAt, n
<1>17. Signs(c)'
  <2>1. Signs(c)
    BY <1>2 DEF Self
  <2>2. \A e \in Dirs : Q(c, e)' = Q(c, e)
    BY <1>1 DEF Q
  <2>. QED  BY <1>1, <1>2, <1>10, <2>1, <2>2 DEF Signs
<1>18. NumbersOf(c)
  <2> SUFFICES ASSUME NEW m \in Flows, m = c \/ m + N = c PROVE Number(m)'
    BY DEF NumbersOf
  <2>1. m = n
    BY <1>3, ConstFacts DEF n
  <2>2. P(n)'.server = P(n).server \/ ~Live(n)
    BY <1>2, <1>3, <1>9, LiveApart DEF Frame, P
  <2>3. writer[n].up.pc \in {"run", "recv", "end", "insert"} => P(n)'.server = P(n).server
    BY <1>3, <2>2, WriterOf, ConstFacts
  <2>4. (Started(n)' <=> Started(n)) /\ \A f : Owns(n, "server", f)' <=> Owns(n, "server", f)
    BY <1>1 DEF Started, Owns
  <2>5. reader'[c].down.pc = "send"
    BY <1>7 DEF ReaderAt
  <2>. QED  BY <1>1, <1>3, <1>4, <1>11, <2>1, <2>3, <2>4, <2>5 DEF Number
<1>19. OwnersRight(c) /\ SidsKept(c)
  BY <1>1, SameOwners
<1>20. SlotUse(c)
  <2>1. Holds(c) => Holds(c)'
    <3>1. \A e \in Dirs : reader[c][e].pc \notin {"none", "done"} => reader'[c][e].pc \notin {"none", "done"}
      BY <1>7 DEF ReaderAt
    <3>2. Returner(c) \in Dirs /\ Returner(c)' = Returner(c)
      BY <1>10, ConstFacts DEF Returner, ServerOf
    <3>. QED  BY <3>1, <3>2 DEF Holds
  <2>2. para'[slotOf[c]].usedflag = para[slotOf[c]].usedflag
    BY <1>1, <1>11 DEF P
  <2>. QED  BY <2>1, <2>2 DEF SlotUse
<1>21. Self(c)'
  BY <1>13, <1>14, <1>15, <1>16, <1>17 DEF Self
<1>. QED  BY <1>2, <1>8, <1>9, <1>18, <1>19, <1>20, <1>21, TaskKeeps

-----------------------------------------------------------------------------
(* The number of a browser.                                                *)

LEMMA InsertKeeps ==
  ASSUME Inv, NEW c \in Conns, Insert(c)
  PROVE  Inv'
<1>1. /\ env' = env /\ owner' = owner /\ para' = para /\ queue' = queue /\ idx' = idx
      /\ waiting' = waiting /\ slotOf' = slotOf /\ reader' = reader /\ count' = count
      /\ read' = read /\ closed' = closed
      /\ writer[c].up.pc = "insert" /\ W(c, "up", "run") /\ sids' = Inserted(c, P(c).server)
  BY DEF Insert
<1>2. Self(c) /\ Kind(c) /\ Pkts(c) /\ Live(c) /\ slotOf[c] \in Slots /\ Typed
  BY <1>1, WriterOf, ConstFacts DEF Self
<1>3. AtClient /\ c \in Flows /\ Flow(c) /\ ~Answer(c) /\ c + N \in Conns /\ c + N # c /\ Answer(c + N)
      /\ (c + N) - N = c
  BY <1>1, <1>2, WriterOf, ConstFacts DEF Kind, Flow, Answer
<1>4. Number(c) /\ Owns(c, "server", P(c).server) /\ c \notin DOMAIN sids
  BY <1>1, <1>3 DEF Inv, Numbers, Number
<1>5. P(c).server \in Descriptors
  BY <1>4 DEF Owns
<1>6. TaskTyped /\ SidTyped
  BY <1>2 DEF Typed
<1>7. /\ writer' \in [Conns -> [Dirs -> [pc : WriterLabels, first : 0..1]]]
      /\ WriterAt(c, "up", "run") /\ writer'[c].up.first = writer[c].up.first
  BY <1>1, <1>6, WDoes, ConstFacts DEF WriterLabels
<1>8. /\ DOMAIN sids' = DOMAIN sids \union {c} /\ sids'[c] = P(c).server
      /\ \A m \in DOMAIN sids : sids'[m] = sids[m]
  BY <1>1, <1>4 DEF Inserted
<1>9. Typed'
  BY <1>1, <1>2, <1>3, <1>5, <1>6, <1>7, <1>8 DEF Typed, SlotTyped, SidTyped, TaskTyped, CountTyped
<1>10. Frame(c)
  BY <1>1, <1>7 DEF Frame, WriterAt
<1>11. /\ AtClient' <=> AtClient
       /\ Started(c)' <=> Started(c)
       /\ Began(c)' <=> Began(c)
       /\ \A e : Has(c, e)' <=> Has(c, e)
       /\ Flow(c)' <=> Flow(c)
       /\ Answer(c)' <=> Answer(c)
       /\ P(c)' = P(c)
  BY <1>1 DEF AtClient, Started, Began, Has, Flow, Answer, P
<1>12. HasKept(c)
  BY <1>1, <1>3, <1>7, <1>11 DEF HasKept, HasServer, HasClient, HasClient2
<1>13. Kind(c)'
  <2>1. \A e \in Dirs : writer'[c][e].pc = "none" <=> writer[c][e].pc = "none"
    BY <1>1, <1>7 DEF WriterAt
  <2>2. writer'[c].up.pc = "run" /\ writer'[c].down.pc = writer[c].down.pc
    BY <1>7, ConstFacts DEF WriterAt
  <2>. QED  BY <1>1, <1>2, <1>11, <2>1, <2>2 DEF Kind
<1>14. Pkts(c)'
  <2>1. \A e \in Dirs : writer'[c][e].first = writer[c][e].first
    BY <1>7 DEF WriterAt
  <2>2. writer'[c].up.pc = "run"
    BY <1>7 DEF WriterAt
  <2>. QED  BY <1>1, <1>2, <1>11, <2>1, <2>2 DEF Pkts
<1>15. Owned(c)' /\ Named(c)'
  BY <1>1, <1>10, <1>11, <1>12, SocketsKept DEF SidsInSlot
<1>16. Signs(c)'
  <2>1. Signs(c)
    BY <1>2 DEF Self
  <2>2. \A e \in Dirs : Q(c, e)' = Q(c, e)
    BY <1>1 DEF Q
  <2>3. writer'[c].up.pc = "run" /\ writer'[c].down.pc = writer[c].down.pc
        /\ \A e \in Dirs : e # "up" => writer'[c][e] = writer[c][e]
    BY <1>7, ConstFacts DEF WriterAt
  <2>4. Q(c, "up") # "ended"
    BY <1>1, <2>1, ConstFacts DEF Signs
  <2>. QED  BY <1>1, <1>3, <1>11, <2>1, <2>2, <2>3, <2>4 DEF Signs, Flow
<1>17. Number(c)'
  <2>1. ~Began(c + N)
    <3>1. read[c].up = 0
      BY <1>1, <1>2, <1>3 DEF Pkts
    <3>2. Answered(c + N)
      BY <1>3 DEF Inv, Self
    <3>. QED  BY <1>3, <3>1, <3>2 DEF Answered
  <2>2. reader[c + N].down.pc = "none"
    <3>1. Kind(c + N)
      BY <1>3 DEF Inv, Self
    <3>. QED  BY <2>1, <3>1, ConstFacts, SettingFacts, <1>2 DEF Kind, Began
  <2>3. writer'[c].up.pc = "run" /\ Started(c)
    BY <1>2, <1>7 DEF WriterAt, Live
  <2>4. Owns(c, "server", P(c).server)'
    BY <1>1, <1>4, <1>11 DEF Owns
  <2>. QED  BY <1>1, <1>8, <1>11, <2>2, <2>3, <2>4 DEF Number
<1>18. NumbersOf(c)
  BY <1>3, <1>17, ConstFacts DEF NumbersOf
<1>19. OwnersRight(c)
  BY <1>1 DEF Inv, OneOwner, OwnersRight, OwnersKept
<1>20. SidsKept(c)
  BY <1>1, <1>8 DEF SidsKept, SidKept, OwnersKept
<1>21. SlotUse(c)
  BY <1>1, HoldsKept
<1>22. Self(c)'
  BY <1>3, <1>11, <1>13, <1>14, <1>15, <1>16 DEF Self
<1>. QED  BY <1>2, <1>9, <1>10, <1>18, <1>19, <1>20, <1>21, <1>22, TaskKeeps

LEMMA DeleteKeeps ==
  ASSUME Inv, NEW c \in Conns, Delete(c)
  PROVE  Inv'
<1> DEFINE n == c - N
<1>1. /\ env' = env /\ owner' = owner /\ para' = para /\ queue' = queue /\ idx' = idx
      /\ waiting' = waiting /\ slotOf' = slotOf /\ writer' = writer /\ count' = count
      /\ read' = read /\ closed' = closed
      /\ reader[c].down.pc = "delete" /\ R(c, "down", "close") /\ sids' = Deleted(Browser(c))
  BY DEF Delete
<1>2. Self(c) /\ Kind(c) /\ Pkts(c) /\ Live(c) /\ slotOf[c] \in Slots /\ Typed
  BY <1>1, ReaderOf, ConstFacts DEF Self
<1>3. AtClient /\ Answer(c) /\ Answered(c) /\ ~Flow(c)
  BY <1>1, <1>2, ReaderOf, ConstFacts DEF Kind
<1>4. /\ n \in Flows /\ n \in Conns /\ n + N = c /\ n # c
      /\ Started(n) /\ writer[n].up.pc # "insert" /\ Number(n) /\ ~(c <= N)
  BY <1>2, <1>3, AnswerFlow, ConstFacts DEF Began, Live, Answer
<1>5. Browser(c) = n
  BY <1>1, <1>3 DEF Answered, Browser
<1> HIDE DEF n
<1>6. TaskTyped /\ SidTyped
  BY <1>2 DEF Typed
<1>7. /\ reader' \in [Conns -> [Dirs -> [pc : ReaderLabels, pktid : Flows \union {0}, tries : 0..MaxTries]]]
      /\ ReaderAt(c, "down", "close") /\ reader'[c].down.pktid = reader[c].down.pktid
  BY <1>1, <1>6, RDoes, ConstFacts DEF ReaderLabels
<1>8. /\ DOMAIN sids' = DOMAIN sids \ {n}
      /\ \A m \in DOMAIN sids' : sids'[m] = sids[m]
  BY <1>1, <1>5 DEF Deleted
<1>9. Typed'
  BY <1>1, <1>2, <1>6, <1>7, <1>8 DEF Typed, SlotTyped, SidTyped, TaskTyped, CountTyped
<1>10. Frame(c)
  BY <1>1, <1>7 DEF Frame, ReaderAt
<1>11. /\ AtClient' <=> AtClient
       /\ Started(c)' <=> Started(c)
       /\ Began(c)' <=> Began(c)
       /\ \A e : Has(c, e)' <=> Has(c, e)
       /\ Flow(c)' <=> Flow(c)
       /\ Answer(c)' <=> Answer(c)
       /\ P(c)' = P(c)
  BY <1>1 DEF AtClient, Started, Began, Has, Flow, Answer, P
<1>12. HasKept(c)
  BY <1>1, <1>3, <1>4, <1>11 DEF HasKept, HasServer, HasClient, HasClient2
<1>13. Kind(c)'
  <2>1. \A e \in Dirs : reader'[c][e].pc = "none" <=> reader[c][e].pc = "none"
    BY <1>1, <1>7 DEF ReaderAt
  <2>2. reader'[c].down.pc = "close" /\ reader'[c].up.pc = reader[c].up.pc
    BY <1>7, ConstFacts DEF ReaderAt
  <2>. QED  BY <1>1, <1>2, <1>11, <2>1, <2>2 DEF Kind
<1>14. Pkts(c)'
  <2>1. \A e \in Dirs : reader'[c][e].pc = "send" => reader[c][e].pc = "send"
    BY <1>7 DEF ReaderAt
  <2>. QED  BY <1>1, <1>2, <1>11, <2>1 DEF Pkts
<1>15. Owned(c)' /\ Named(c)'
  BY <1>1, <1>10, <1>11, <1>12, SocketsKept DEF SidsInSlot
<1>16. Signs(c)'
  <2>1. Signs(c)
    BY <1>2 DEF Self
  <2>2. \A e \in Dirs : Q(c, e)' = Q(c, e)
    BY <1>1 DEF Q
  <2>. QED  BY <1>1, <1>11, <2>1, <2>2 DEF Signs
<1>17. Answered(c)'
  BY <1>1, <1>3, <1>4, <1>7, <1>11, <1>5 DEF Answered, ReaderAt, Browser, n
<1>18. NumbersOf(c)
  <2> SUFFICES ASSUME NEW m \in Flows, m = c \/ m + N = c PROVE Number(m)'
    BY DEF NumbersOf
  <2>1. m = n
    BY <1>4, ConstFacts DEF n
  <2>2. reader'[c].down.pc = "close"
    BY <1>7 DEF ReaderAt
  <2>3. P(n)' = P(n) /\ (Started(n)' <=> Started(n))
        /\ \A f : Owns(n, "server", f)' <=> Owns(n, "server", f)
    BY <1>1 DEF P, Started, Owns
  <2>. QED  BY <1>1, <1>4, <1>8, <1>11, <1>7, <2>1, <2>2, <2>3 DEF Number
<1>19. OwnersRight(c)
  BY <1>1 DEF Inv, OneOwner, OwnersRight, OwnersKept
<1>20. SidsKept(c)
  BY <1>1, <1>4, <1>8, ConstFacts DEF SidsKept, SidKept, OwnersKept, n
<1>21. SlotUse(c)
  <2>1. Holds(c) => Holds(c)'
    <3>1. \A e \in Dirs : reader[c][e].pc \notin {"none", "done"} => reader'[c][e].pc \notin {"none", "done"}
      BY <1>7 DEF ReaderAt
    <3>2. Returner(c) \in Dirs /\ Returner(c)' = Returner(c)
      BY <1>11, ConstFacts DEF Returner, ServerOf
    <3>. QED  BY <3>1, <3>2 DEF Holds
  <2>. QED  BY <1>1, <2>1 DEF SlotUse
<1>22. Self(c)'
  BY <1>13, <1>14, <1>15, <1>16, <1>17 DEF Self
<1>. QED  BY <1>2, <1>9, <1>10, <1>18, <1>19, <1>20, <1>21, <1>22, TaskKeeps

-----------------------------------------------------------------------------
(* The end of a task.                                                      *)

LEMMA FlagKeeps ==
  ASSUME Inv, NEW c \in Conns, NEW d \in Dirs, WriterFlag(c, d)
  PROVE  Inv'
<1>1. /\ env' = env /\ owner' = owner /\ sids' = sids /\ queue' = queue /\ idx' = idx
      /\ waiting' = waiting /\ slotOf' = slotOf /\ reader' = reader /\ count' = count
      /\ read' = read /\ closed' = closed
      /\ writer[c][d].pc = "flag" /\ W(c, d, "done")
      /\ Set(c, "exitFlag", P(c).exitFlag \union {d})
  BY DEF WriterFlag
<1>2. Self(c) /\ Kind(c) /\ Pkts(c) /\ Live(c) /\ slotOf[c] \in Slots /\ Typed /\ Signs(c)
  BY <1>1, WriterOf DEF Self
<1>3. TaskTyped /\ SlotTyped
  BY <1>2 DEF Typed
<1>4. /\ writer' \in [Conns -> [Dirs -> [pc : WriterLabels, first : 0..1]]]
      /\ WriterAt(c, d, "done") /\ writer'[c][d].first = writer[c][d].first
  BY <1>1, <1>3, WDoes DEF WriterLabels
<1>5. para' \in [Slots -> SlotRecord] /\ PutIn(c, "exitFlag", P(c).exitFlag \union {d})
  <2>1. P(c) \in SlotRecord
    BY <1>2, <1>3 DEF SlotTyped, P
  <2>2. P(c).exitFlag \union {d} \in SUBSET Dirs /\ "exitFlag" \in Fields
    BY <2>1 DEF SlotRecord, Fields
  <2>. QED  BY <1>1, <1>2, <1>3, <2>2, SetDoes
<1>6. Typed'
  BY <1>1, <1>2, <1>4, <1>5 DEF Typed, SlotTyped, SidTyped, TaskTyped, CountTyped
<1>7. Frame(c)
  BY <1>1, <1>4, <1>5 DEF Frame, WriterAt, PutIn
<1>8. /\ AtClient' <=> AtClient
      /\ Started(c)' <=> Started(c)
      /\ Began(c)' <=> Began(c)
      /\ \A e : Has(c, e)' <=> Has(c, e)
      /\ Flow(c)' <=> Flow(c)
      /\ Answer(c)' <=> Answer(c)
  BY <1>1 DEF AtClient, Started, Began, Has, Flow, Answer
<1>9. SidsInSlot(c) /\ P(c)'.closewaiting = P(c).closewaiting /\ P(c)'.usedflag = P(c).usedflag
  BY <1>5 DEF PutIn, SidsInSlot, Fields
<1>10. HasKept(c)
  <2>1. writer'[c].up.pc \in {"run", "end"} <=> writer[c].up.pc \in {"run", "end"}
    BY <1>1, <1>4, ConstFacts DEF WriterAt
  <2>2. writer'[c].down.pc \in {"run", "end"} <=> writer[c].down.pc \in {"run", "end"}
    BY <1>1, <1>4, ConstFacts DEF WriterAt
  <2>. QED  BY <1>1, <1>8, <2>1, <2>2 DEF HasKept, HasServer, HasClient, HasClient2
<1>11. \A e \in Dirs, l \in WriterLabels \ {"flag", "done"} :
         writer'[c][e].pc = l <=> writer[c][e].pc = l
  BY <1>1, <1>4 DEF WriterAt
<1>12. Kind(c)'
  <2>1. \A e \in Dirs : writer'[c][e].pc = "none" <=> writer[c][e].pc = "none"
    BY <1>11 DEF WriterLabels
  <2>2. \A e \in Dirs : /\ writer'[c][e].pc = "insert" <=> writer[c][e].pc = "insert"
                        /\ writer'[c][e].pc = "recv" <=> writer[c][e].pc = "recv"
    BY <1>11 DEF WriterLabels
  <2>. QED  BY <1>1, <1>2, <1>8, <2>1, <2>2, ConstFacts DEF Kind
<1>13. Pkts(c)'
  <2>1. \A e \in Dirs : writer'[c][e].first = writer[c][e].first
    BY <1>4 DEF WriterAt
  <2>2. /\ writer'[c].up.pc = "insert" => writer[c].up.pc = "insert"
        /\ writer'[c].up.pc \in {"recv", "end", "flag", "done"}
             => writer[c].up.pc \in {"recv", "end", "flag", "done"}
    BY <1>1, <1>4, ConstFacts DEF WriterAt
  <2>. QED  BY <1>1, <1>2, <1>8, <2>1, <2>2 DEF Pkts
<1>14. Owned(c)' /\ Named(c)'
  BY <1>1, <1>7, <1>9, <1>10, SocketsKept
<1>15. Answer(c)' => Answered(c)'
  <2>1. writer'[c].down.pc \in {"end", "flag", "done"} => writer[c].down.pc \in {"end", "flag", "done"}
    BY <1>1, <1>4, ConstFacts DEF WriterAt
  <2>. QED  BY <1>1, <1>2, <1>8, <2>1 DEF Answered, Self
<1>16. Signs(c)'
  <2>1. \A e \in Dirs : Q(c, e)' = Q(c, e)
    BY <1>1 DEF Q
  <2>2. \A e \in Dirs : /\ writer'[c][e].pc \in {"end", "flag", "done"}
                             <=> writer[c][e].pc \in {"end", "flag", "done"}
                        /\ writer'[c][e].pc \in {"flag", "done"} <=> writer[c][e].pc \in {"flag", "done"}
                        /\ writer'[c][e].pc = "none" <=> writer[c][e].pc = "none"
    BY <1>1, <1>4 DEF WriterAt
  <2>. QED  BY <1>1, <1>2, <1>8, <1>9, <2>1, <2>2, ConstFacts DEF Signs, SidsInSlot
<1>17. NumbersOf(c)
  <2> SUFFICES ASSUME AtClient, NEW n \in Flows, n = c \/ n + N = c PROVE Number(n)'
    BY DEF NumbersOf
  <2>1. Number(n) /\ n \in Conns /\ n + N \in Conns /\ n + N # n
    BY ConstFacts DEF Inv, Numbers
  <2>2. (Started(n)' <=> Started(n)) /\ \A f : Owns(n, "server", f)' <=> Owns(n, "server", f)
    BY <1>1 DEF Started, Owns
  <2>3. \A b \in {n, n + N} : Live(b) => P(b)'.server = P(b).server /\ P(b)'.client = P(b).client
    <3> SUFFICES ASSUME NEW b \in {n, n + N}, Live(b)
                 PROVE  P(b)'.server = P(b).server /\ P(b)'.client = P(b).client
      OBVIOUS
    <3>1. CASE b = c
      BY <1>9, <3>1 DEF SidsInSlot
    <3>2. CASE b # c
      BY <1>2, <1>7, <2>1, <3>2, LiveApart DEF Frame, P
    <3>. QED  BY <3>1, <3>2
  <2>4. writer[n].up.pc \in {"run", "recv", "end", "insert"} => P(n)'.server = P(n).server
    BY <2>1, <2>3, WriterOf, ConstFacts
  <2>5. reader[n + N].down.pc \in {"run", "send", "delete", "close"} => P(n + N)'.client = P(n + N).client
    BY <2>1, <2>3, ReaderOf, ConstFacts
  <2>6. \A l \in {"run", "recv", "end", "insert"} : writer'[n].up.pc = l <=> writer[n].up.pc = l
    <3>1. CASE n = c
      BY <1>11, <3>1, ConstFacts DEF WriterLabels
    <3>2. CASE n # c
      BY <1>4, <2>1, <3>2 DEF WriterAt
    <3>. QED  BY <3>1, <3>2
  <2>. QED  BY <1>1, <2>1, <2>2, <2>4, <2>5, <2>6 DEF Number
<1>18. OwnersRight(c) /\ SidsKept(c)
  BY <1>1, SameOwners
<1>19. SlotUse(c)
  <2>1. Holds(c)' <=> Holds(c)
    BY <1>1, <1>8 DEF Holds, Returner
  <2>. QED  BY <1>1, <1>9, <2>1 DEF SlotUse, P
<1>20. Self(c)'
  BY <1>12, <1>13, <1>14, <1>15, <1>16 DEF Self
<1>. QED  BY <1>2, <1>6, <1>7, <1>17, <1>18, <1>19, <1>20, TaskKeeps

LEMMA FinishKeeps ==
  ASSUME Inv, NEW c \in Conns, NEW d \in Dirs, Finish(c, d)
  PROVE  Inv'
<1> DEFINE u == IF AtClient \/ d = "down" THEN 0 ELSE P(c).usedflag
<1>1. /\ env' = env /\ owner' = owner /\ sids' = sids /\ idx' = idx
      /\ waiting' = waiting /\ slotOf' = slotOf /\ writer' = writer /\ count' = count
      /\ read' = read /\ closed' = closed
      /\ reader[c][d].pc = "wait" /\ R(c, d, "done")
      /\ queue' = [queue EXCEPT ![slotOf[c]][d] = "gone"]
      /\ Set(c, "usedflag", u)
  BY DEF Finish
<1>2. /\ Self(c) /\ Kind(c) /\ Pkts(c) /\ Live(c) /\ slotOf[c] \in Slots /\ Typed /\ Signs(c) /\ Has(c, d)
  BY <1>1, ReaderOf DEF Self
<1>3. TaskTyped /\ SlotTyped
  BY <1>2 DEF Typed
<1>4. /\ reader' \in [Conns -> [Dirs -> [pc : ReaderLabels, pktid : Flows \union {0}, tries : 0..MaxTries]]]
      /\ ReaderAt(c, d, "done") /\ reader'[c][d].pktid = reader[c][d].pktid
  BY <1>1, <1>3, RDoes DEF ReaderLabels
<1>5. para' \in [Slots -> SlotRecord] /\ PutIn(c, "usedflag", u)
  <2>1. P(c) \in SlotRecord
    BY <1>2, <1>3 DEF SlotTyped, P
  <2>2. P(c).usedflag \in 0..1 /\ 0 \in 0..1
    BY <2>1 DEF SlotRecord
  <2>3. u \in 0..1 /\ "usedflag" \in Fields
    BY <2>2 DEF Fields
  <2> HIDE DEF u
  <2>. QED  BY <1>1, <1>2, <1>3, <2>3, SetDoes
<1>6. /\ queue' \in [Slots -> [Dirs -> QueueStates]]
      /\ \A s \in Slots : s # slotOf[c] => queue'[s] = queue[s]
      /\ Q(c, d)' = "gone" /\ \A e \in Dirs : e # d => Q(c, e)' = Q(c, e)
  BY <1>1, <1>2, <1>3, QueueDoes DEF QueueStates
<1>7. Typed'
  BY <1>1, <1>2, <1>4, <1>5, <1>6 DEF Typed, SlotTyped, SidTyped, TaskTyped, CountTyped
<1>8. Frame(c)
  BY <1>1, <1>4, <1>5, <1>6 DEF Frame, ReaderAt, PutIn
<1>9. /\ AtClient' <=> AtClient
      /\ Started(c)' <=> Started(c)
      /\ Began(c)' <=> Began(c)
      /\ \A e : Has(c, e)' <=> Has(c, e)
      /\ Flow(c)' <=> Flow(c)
      /\ Answer(c)' <=> Answer(c)
  BY <1>1 DEF AtClient, Started, Began, Has, Flow, Answer
<1>10. SidsInSlot(c) /\ P(c)'.closewaiting = P(c).closewaiting /\ P(c)'.usedflag = u
  BY <1>5 DEF PutIn, SidsInSlot, Fields
<1> HIDE DEF u
<1>11. \A b \in Conns, e \in Dirs, l \in ReaderLabels \ {"wait", "done"} :
         reader'[b][e].pc = l <=> reader[b][e].pc = l
  BY <1>1, <1>4 DEF ReaderAt
<1>12. HasKept(c)
  <2>1. /\ reader'[c].up.pc \in {"run", "send", "close"} <=> reader[c].up.pc \in {"run", "send", "close"}
        /\ reader'[c].down.pc \in {"run", "send", "close"} <=> reader[c].down.pc \in {"run", "send", "close"}
    <3>1. \A e \in Dirs : reader'[c][e].pc \in {"run", "send", "close"}
                             <=> reader[c][e].pc \in {"run", "send", "close"}
      BY <1>11 DEF ReaderLabels
    <3>. QED  BY <3>1, ConstFacts
  <2>. QED  BY <1>1, <1>9, <2>1 DEF HasKept, HasServer, HasClient, HasClient2
<1>13. Kind(c)'
  <2>1. \A e \in Dirs : /\ reader'[c][e].pc = "none" <=> reader[c][e].pc = "none"
                        /\ reader'[c][e].pc = "delete" <=> reader[c][e].pc = "delete"
    BY <1>11 DEF ReaderLabels
  <2>. QED  BY <1>1, <1>2, <1>9, <2>1, ConstFacts DEF Kind
<1>14. Pkts(c)'
  <2>1. \A e \in Dirs : reader'[c][e].pc = "send" <=> reader[c][e].pc = "send"
    BY <1>11 DEF ReaderLabels
  <2>. QED  BY <1>1, <1>2, <1>9, <2>1 DEF Pkts
<1>15. Owned(c)' /\ Named(c)'
  BY <1>1, <1>8, <1>10, <1>12, SocketsKept
<1>16. Answer(c)' => Answered(c)'
  <2>1. reader'[c].down.pktid = reader[c].down.pktid
    BY <1>4, ConstFacts DEF ReaderAt
  <2>2. /\ reader'[c].down.pc \in {"send", "delete", "close", "wait", "done"}
              => reader[c].down.pc \in {"send", "delete", "close", "wait", "done"}
        /\ reader'[c].down.pc = "none" <=> reader[c].down.pc = "none"
    BY <1>1, <1>4, ConstFacts DEF ReaderAt
  <2>. QED  BY <1>1, <1>2, <1>9, <2>1, <2>2 DEF Answered, Self
<1>17. Signs(c)'
  <2>1. \A e \in Dirs : Q(c, e)' = "ended" => Q(c, e) = "ended"
    BY <1>6
  <2>. QED  BY <1>1, <1>2, <1>9, <1>10, <2>1, ConstFacts DEF Signs, SidsInSlot
<1>18. NumbersOf(c)
  <2> SUFFICES ASSUME AtClient, NEW n \in Flows, n = c \/ n + N = c PROVE Number(n)'
    BY DEF NumbersOf
  <2>1. Number(n) /\ n \in Conns /\ n + N \in Conns /\ n + N # n
    BY ConstFacts DEF Inv, Numbers
  <2>2. (Started(n)' <=> Started(n)) /\ \A f : Owns(n, "server", f)' <=> Owns(n, "server", f)
    BY <1>1 DEF Started, Owns
  <2>3. \A b \in {n, n + N} : Live(b) => P(b)'.server = P(b).server /\ P(b)'.client = P(b).client
    <3> SUFFICES ASSUME NEW b \in {n, n + N}, Live(b)
                 PROVE  P(b)'.server = P(b).server /\ P(b)'.client = P(b).client
      OBVIOUS
    <3>1. CASE b = c
      BY <1>10, <3>1 DEF SidsInSlot
    <3>2. CASE b # c
      BY <1>2, <1>8, <2>1, <3>2, LiveApart DEF Frame, P
    <3>. QED  BY <3>1, <3>2
  <2>4. writer[n].up.pc \in {"run", "recv", "end", "insert"} => P(n)'.server = P(n).server
    BY <2>1, <2>3, WriterOf, ConstFacts
  <2>5. reader[n + N].down.pc \in {"run", "send", "delete", "close"} => P(n + N)'.client = P(n + N).client
    BY <2>1, <2>3, ReaderOf, ConstFacts
  <2>6. \A l \in {"run", "send", "delete", "close"} :
          reader'[n + N].down.pc = l <=> reader[n + N].down.pc = l
    BY <1>11, <2>1, ConstFacts DEF ReaderLabels
  <2>7. reader'[n + N].down.pktid = reader[n + N].down.pktid
    <3>1. CASE n + N = c
      BY <1>4, <3>1, ConstFacts DEF ReaderAt
    <3>2. CASE n + N # c
      BY <1>4, <2>1, <3>2 DEF ReaderAt
    <3>. QED  BY <3>1, <3>2
  <2>8. reader'[n + N].down.pc \in {"wait", "done"} <=> reader[n + N].down.pc \in {"wait", "done"}
    <3>1. CASE n + N = c /\ d = "down"
      BY <1>1, <1>4, <3>1 DEF ReaderAt
    <3>2. CASE ~(n + N = c /\ d = "down")
      BY <1>4, <2>1, <3>2, ConstFacts DEF ReaderAt
    <3>. QED  BY <3>1, <3>2
  <2>. QED  BY <1>1, <2>1, <2>2, <2>4, <2>5, <2>6, <2>7, <2>8 DEF Number
<1>19. OwnersRight(c) /\ SidsKept(c)
  BY <1>1, SameOwners
<1>20. SlotUse(c)
  <2> SUFFICES ASSUME para'[slotOf[c]].usedflag = 1
               PROVE  para[slotOf[c]].usedflag = 1 /\ (Holds(c) => Holds(c)')
    BY DEF SlotUse
  <2>1. u = 1
    BY <1>1, <1>10 DEF P
  <2>2. ~AtClient /\ d = "up" /\ P(c).usedflag = 1
    BY <2>1 DEF u, Dirs
  <2>3. reader'[c]["down"] = reader[c]["down"]
    BY <1>4, <2>2, ConstFacts DEF ReaderAt
  <2>4. Returner(c) = "down" /\ Returner(c)' = "down"
    BY <1>9, <2>2 DEF Returner
  <2>. QED  BY <2>2, <2>3, <2>4 DEF Holds, P
<1>21. Self(c)'
  BY <1>13, <1>14, <1>15, <1>16, <1>17 DEF Self
<1>. QED  BY <1>2, <1>7, <1>8, <1>18, <1>19, <1>20, <1>21, TaskKeeps

-----------------------------------------------------------------------------
(* A task closes a socket: one of its connection, or what brings answers   *)
(* the browser's.                                                          *)

LEMMA ReleaseOwn ==
  ASSUME Inv, NEW c \in Conns, NEW e \in Ends, NEW x, owner' = Released(x),
         x \in Descriptors => owner[x] = <<c, e>>,
         \A f \in Descriptors : owner[f] = <<c, e>> => f = x
  PROVE  /\ owner' \in [Descriptors -> {Free} \union (Conns \X Ends)]
         /\ \A f \in Descriptors : owner'[f] # <<c, e>>
         /\ \A f \in Descriptors, b \in Conns, k \in Ends :
              <<b, k>> # <<c, e>> => (owner'[f] = <<b, k>> <=> owner[f] = <<b, k>>)
         /\ OneOwner'
<1>1. SlotTyped /\ OneOwner
  BY DEF Inv, Typed
<1>2. /\ owner' \in [Descriptors -> {Free} \union (Conns \X Ends)]
      /\ x \in Descriptors => owner'[x] = Free
      /\ \A f \in Descriptors : f # x => owner'[f] = owner[f]
  BY <1>1, ReleaseDoes
<1>3. \A b \in Conns, k \in Ends : <<b, k>> # Free
  BY NotFree
<1>4. ASSUME NEW f \in Descriptors PROVE owner'[f] # <<c, e>>
  BY <1>2, <1>3
<1>5. ASSUME NEW f \in Descriptors, NEW b \in Conns, NEW k \in Ends, <<b, k>> # <<c, e>>
      PROVE  owner'[f] = <<b, k>> <=> owner[f] = <<b, k>>
  <2>1. CASE f = x
    BY <1>2, <1>3, <1>5, <2>1
  <2>2. CASE f # x
    BY <1>2, <2>2
  <2>. QED  BY <2>1, <2>2
<1>6. OneOwner'
  BY <1>1, <1>2 DEF OneOwner
<1>. QED  BY <1>2, <1>4, <1>5, <1>6

HasEnd(c, e) == IF e = "server" THEN HasServer(c) ELSE IF e = "client" THEN HasClient(c) ELSE HasClient2(c)

\* what is left of a connection that has closed one of its sockets
Closed(c, e) ==
  /\ \A f \in Descriptors : owner'[f] # <<c, e>>
  /\ \A f \in Descriptors, b \in Conns, k \in Ends :
       <<b, k>> # <<c, e>> => (owner'[f] = <<b, k>> <=> owner[f] = <<b, k>>)
  /\ ~HasEnd(c, e)'
  /\ \A k \in Ends : k # e => (HasEnd(c, k)' <=> HasEnd(c, k)) /\ P(c)'[k] = P(c)[k]

LEMMA EndFields ==
  ASSUME NEW c \in Conns
  PROVE  /\ HasEnd(c, "server") <=> HasServer(c)
         /\ HasEnd(c, "client") <=> HasClient(c)
         /\ HasEnd(c, "client2") <=> HasClient2(c)
         /\ HasEnd(c, "server")' <=> HasServer(c)'
         /\ HasEnd(c, "client")' <=> HasClient(c)'
         /\ HasEnd(c, "client2")' <=> HasClient2(c)'
BY DEF HasEnd

LEMMA ClosedSockets ==
  ASSUME Inv, NEW c \in Conns, Frame(c), NEW e \in Ends, Closed(c, e)
  PROVE  Owned(c)' /\ Named(c)'
<1>1. Owned(c) /\ Named(c)
  BY DEF Inv, Self
<1>2. (Started(c)' <=> Started(c)) /\ (Began(c)' <=> Began(c)) /\ (Flow(c)' <=> Flow(c))
  BY DEF Frame, Started, Began, Flow, AtClient
<1>3. CASE e = "server"
  <2>1. ~HasServer(c)' /\ (HasClient(c)' <=> HasClient(c)) /\ (HasClient2(c)' <=> HasClient2(c))
        /\ P(c)'.client = P(c).client /\ P(c)'.client2 = P(c).client2
    BY <1>3, EndFields DEF Closed, Ends
  <2>2. \A f \in Descriptors : /\ owner'[f] # <<c, "server">>
                               /\ owner'[f] = <<c, "client">> <=> owner[f] = <<c, "client">>
                               /\ owner'[f] = <<c, "client2">> <=> owner[f] = <<c, "client2">>
    BY <1>3 DEF Closed, Ends
  <2>. QED  BY <1>1, <1>2, <2>1, <2>2 DEF Owned, Named, Owns
<1>4. CASE e = "client"
  <2>1. ~HasClient(c)' /\ (HasServer(c)' <=> HasServer(c)) /\ (HasClient2(c)' <=> HasClient2(c))
        /\ P(c)'.server = P(c).server /\ P(c)'.client2 = P(c).client2
    BY <1>4, EndFields DEF Closed, Ends
  <2>2. \A f \in Descriptors : /\ owner'[f] # <<c, "client">>
                               /\ owner'[f] = <<c, "server">> <=> owner[f] = <<c, "server">>
                               /\ owner'[f] = <<c, "client2">> <=> owner[f] = <<c, "client2">>
    BY <1>4 DEF Closed, Ends
  <2>. QED  BY <1>1, <1>2, <2>1, <2>2 DEF Owned, Named, Owns
<1>5. CASE e = "client2"
  <2>1. ~HasClient2(c)' /\ (HasServer(c)' <=> HasServer(c)) /\ (HasClient(c)' <=> HasClient(c))
        /\ P(c)'.server = P(c).server /\ P(c)'.client = P(c).client
    BY <1>5, EndFields DEF Closed, Ends
  <2>2. \A f \in Descriptors : /\ owner'[f] # <<c, "client2">>
                               /\ owner'[f] = <<c, "server">> <=> owner[f] = <<c, "server">>
                               /\ owner'[f] = <<c, "client">> <=> owner[f] = <<c, "client">>
    BY <1>5 DEF Closed, Ends
  <2>. QED  BY <1>1, <1>2, <2>1, <2>2 DEF Owned, Named, Owns
<1>. QED  BY <1>3, <1>4, <1>5 DEF Ends

(* The numbers where the tasks are as they were.                           *)
NumbersQuiet(n) ==
  /\ sids' = sids /\ AtClient
  /\ \A f \in Descriptors : owner'[f] = <<n, "server">> <=> owner[f] = <<n, "server">>
  /\ \A l \in {"run", "recv", "end"} : writer'[n].up.pc = l => writer[n].up.pc \in {"run", "recv", "end"}
  /\ writer'[n].up.pc = "insert" <=> writer[n].up.pc = "insert"
  /\ reader'[n + N].down = reader[n + N].down

LEMMA QuietNumber ==
  ASSUME Inv, NEW c \in Conns, Frame(c), Live(c), NEW n \in Flows, NumbersQuiet(n),
         n = c => P(n)'.server = P(n).server,
         n + N = c => P(n + N)'.client = P(n + N).client
  PROVE  Number(n)'
<1>1. Number(n) /\ n \in Conns /\ n + N \in Conns /\ n + N # n
  BY ConstFacts DEF Inv, Numbers, NumbersQuiet
<1>2. (Started(n)' <=> Started(n)) /\ \A f : Owns(n, "server", f)' <=> Owns(n, "server", f)
  BY DEF Started, Owns, Frame, NumbersQuiet
<1>3. \A b \in {n, n + N} : b # c /\ Live(b) => P(b)' = P(b)
  BY <1>1, LiveApart DEF Frame, P
<1>4. writer[n].up.pc \in {"run", "recv", "end", "insert"} => P(n)'.server = P(n).server
  <2> SUFFICES ASSUME writer[n].up.pc \in {"run", "recv", "end", "insert"} PROVE P(n)'.server = P(n).server
    OBVIOUS
  <2>1. Live(n)
    BY <1>1, WriterOf, ConstFacts
  <2>. QED  BY <1>1, <1>3, <2>1
<1>5. reader[n + N].down.pc \in {"run", "send", "delete", "close"} => P(n + N)'.client = P(n + N).client
  <2> SUFFICES ASSUME reader[n + N].down.pc \in {"run", "send", "delete", "close"}
               PROVE  P(n + N)'.client = P(n + N).client
    OBVIOUS
  <2>1. Live(n + N)
    BY <1>1, ReaderOf, ConstFacts
  <2>. QED  BY <1>1, <1>3, <2>1
<1>. QED  BY <1>1, <1>2, <1>4, <1>5 DEF Number, NumbersQuiet

\* a writer at its end goes on to tell
Ended(c, d) ==
  /\ env' = env /\ sids' = sids /\ queue' = queue /\ idx' = idx
  /\ waiting' = waiting /\ slotOf' = slotOf /\ reader' = reader /\ count' = count
  /\ read' = read /\ closed' = closed
  /\ writer[c][d].pc = "end" /\ W(c, d, "flag")

LEMMA EndedKeeps ==
  ASSUME Inv, NEW c \in Conns, NEW d \in Dirs, Ended(c, d),
         para' \in [Slots -> SlotRecord], owner' \in [Descriptors -> {Free} \union (Conns \X Ends)],
         \A s \in Slots : s # slotOf[c] => para'[s] = para[s]
  PROVE  /\ Live(c) /\ Self(c) /\ Typed /\ slotOf[c] \in Slots /\ Frame(c) /\ Typed'
         /\ Kind(c)' /\ Pkts(c)'
         /\ Answer(c)' => Answered(c)'
         /\ \A e \in Dirs : e # d => writer'[c][e] = writer[c][e]
         /\ writer'[c][d].pc = "flag"
<1>1. /\ env' = env /\ sids' = sids /\ queue' = queue /\ idx' = idx
      /\ waiting' = waiting /\ slotOf' = slotOf /\ reader' = reader /\ count' = count
      /\ read' = read /\ closed' = closed
      /\ writer[c][d].pc = "end" /\ W(c, d, "flag")
  BY DEF Ended
<1>2. Self(c) /\ Kind(c) /\ Pkts(c) /\ Live(c) /\ slotOf[c] \in Slots /\ Typed
  BY <1>1, WriterOf DEF Self
<1>3. TaskTyped
  BY <1>2 DEF Typed
<1>4. /\ writer' \in [Conns -> [Dirs -> [pc : WriterLabels, first : 0..1]]]
      /\ WriterAt(c, d, "flag") /\ writer'[c][d].first = writer[c][d].first
  BY <1>1, <1>3, WDoes DEF WriterLabels
<1>5. Typed'
  BY <1>1, <1>2, <1>4 DEF Typed, SlotTyped, SidTyped, TaskTyped, CountTyped
<1>6. Frame(c)
  BY <1>1, <1>4 DEF Frame, WriterAt
<1>7. /\ AtClient' <=> AtClient
      /\ Started(c)' <=> Started(c)
      /\ Began(c)' <=> Began(c)
      /\ \A e : Has(c, e)' <=> Has(c, e)
      /\ Answer(c)' <=> Answer(c)
  BY <1>1 DEF AtClient, Started, Began, Has, Answer
<1>8. \A e \in Dirs : /\ writer'[c][e].pc = "none" <=> writer[c][e].pc = "none"
                      /\ writer'[c][e].pc = "insert" <=> writer[c][e].pc = "insert"
                      /\ writer'[c][e].pc = "recv" <=> writer[c][e].pc = "recv"
                      /\ writer'[c][e].pc \in {"end", "flag", "done"}
                           <=> writer[c][e].pc \in {"end", "flag", "done"}
                      /\ writer'[c][e].first = writer[c][e].first
  BY <1>1, <1>4 DEF WriterAt
<1>9. Kind(c)'
  BY <1>1, <1>2, <1>7, <1>8, ConstFacts DEF Kind
<1>10. Pkts(c)'
  BY <1>1, <1>2, <1>7, <1>8, ConstFacts DEF Pkts
<1>11. Answer(c)' => Answered(c)'
  BY <1>1, <1>2, <1>7, <1>8, ConstFacts DEF Answered, Self
<1>. QED  BY <1>2, <1>4, <1>5, <1>6, <1>9, <1>10, <1>11 DEF WriterAt

LEMMA CloseBrowser ==
  ASSUME Inv, NEW c \in Conns, AtClient, WriterClose(c, "up")
  PROVE  Inv'
<1>1. writer[c].up.pc = "end" /\ Ended(c, "up")
  BY DEF WriterClose, Ended
<1>2. writer[c].up.first = 0
  <2>1. Pkts(c)
    BY DEF Inv, Self
  <2>2. read[c].up > 0
    BY <1>1, <2>1 DEF Pkts
  <2>. QED  BY <2>2, FirstRead, ConstFacts
<1>3. owner' = owner /\ para' = para /\ slotOf' = slotOf /\ env' = env /\ sids' = sids /\ reader' = reader
      /\ queue' = queue /\ read' = read
  BY <1>1, <1>2 DEF WriterClose
<1>4. para' \in [Slots -> SlotRecord] /\ owner' \in [Descriptors -> {Free} \union (Conns \X Ends)]
  BY <1>3 DEF Inv, Typed, SlotTyped
<1>5. /\ Live(c) /\ Self(c) /\ Typed /\ slotOf[c] \in Slots /\ Frame(c) /\ Typed'
      /\ Kind(c)' /\ Pkts(c)'
      /\ Answer(c)' => Answered(c)'
      /\ \A e \in Dirs : e # "up" => writer'[c][e] = writer[c][e]
      /\ writer'[c]["up"].pc = "flag"
  BY <1>1, <1>3, <1>4, EndedKeeps, ConstFacts
<1>6. c \in Flows /\ Flow(c) /\ c + N # c
  BY <1>1, WriterOf, ConstFacts
<1>7. /\ AtClient' <=> AtClient
      /\ Started(c)' <=> Started(c)
      /\ Flow(c)' <=> Flow(c)
      /\ P(c)' = P(c)
  BY <1>3 DEF AtClient, Started, Flow, P
<1>8. HasKept(c)
  BY <1>3, <1>6, <1>7 DEF HasKept, HasServer, HasClient, HasClient2
<1>9. Owned(c)' /\ Named(c)'
  BY <1>3, <1>5, <1>7, <1>8, SocketsKept DEF SidsInSlot
<1>10. Signs(c)'
  <2>1. Signs(c)
    BY <1>5 DEF Self
  <2>2. \A e \in Dirs : Q(c, e)' = Q(c, e)
    BY <1>3 DEF Q
  <2>. QED  BY <1>1, <1>5, <1>7, <2>1, <2>2 DEF Signs
<1>11. Self(c)'
  BY <1>5, <1>9, <1>10 DEF Self
<1>12. NumbersOf(c)
  <2> SUFFICES ASSUME NEW n \in Flows, n = c \/ n + N = c PROVE Number(n)'
    BY DEF NumbersOf
  <2>1. n = c
    BY <1>6, ConstFacts
  <2>2. NumbersQuiet(n)
    BY <1>1, <1>3, <1>5, <2>1 DEF NumbersQuiet
  <2>. QED  BY <1>5, <1>6, <1>7, <2>1, <2>2, QuietNumber
<1>13. OwnersRight(c) /\ SidsKept(c) /\ SlotUse(c)
  BY <1>3, SameOwners, HoldsKept
<1>. QED  BY <1>5, <1>11, <1>12, <1>13, TaskKeeps

\* whoever closes a socket of its own
LEMMA ClosedOwners ==
  ASSUME Inv, NEW c \in Conns, NEW e \in Ends, Closed(c, e), OneOwner'
  PROVE  /\ OwnersRight(c)
         /\ sids' = sids => SidsKept(c)
         /\ \A n \in Flows : <<n, "server">> # <<c, e>> =>
              \A f \in Descriptors : owner'[f] = <<n, "server">> <=> owner[f] = <<n, "server">>
<1>1. \A b \in Conns : b # c => OwnersKept(b)
  BY DEF Closed, OwnersKept
<1>2. OwnersRight(c)
  BY <1>1 DEF OwnersRight
<1>3. sids' = sids => SidsKept(c)
  BY <1>1, ConstFacts DEF SidsKept, SidKept
<1>4. ASSUME NEW n \in Flows, <<n, "server">> # <<c, e>>, NEW f \in Descriptors
      PROVE  owner'[f] = <<n, "server">> <=> owner[f] = <<n, "server">>
  BY <1>4, ConstFacts DEF Closed, Ends
<1>. QED  BY <1>2, <1>3, <1>4

LEMMA CloseServer ==
  ASSUME Inv, NEW c \in Conns, NEW d \in Dirs, WriterClose(c, d),
         (AtClient /\ d = "down") \/ (~AtClient /\ d = "up")
  PROVE  Inv'
<1> DEFINE x == P(c).server
           w == IF ~AtClient /\ writer[c].up.first = 1 THEN 1 ELSE P(c).closewaiting
<1>1. Ended(c, d) /\ writer[c][d].pc = "end"
  BY DEF WriterClose, Ended
<1>2. Live(c) /\ Self(c) /\ Typed /\ slotOf[c] \in Slots /\ ~Flow(c) /\ Started(c)
      /\ (AtClient => c > N /\ Answer(c)) /\ (~AtClient => c <= N /\ ~Answer(c))
  BY <1>1, WriterOf DEF Live, Answer
<1>3. SlotTyped /\ Owned(c) /\ Named(c) /\ Signs(c) /\ Pkts(c) /\ Kind(c)
  BY <1>2 DEF Typed, Self
<1>4. HasServer(c)
  BY <1>1, <1>2 DEF HasServer
<1>5. owner[x] = <<c, "server">> /\ x \in Descriptors
      /\ \A f \in Descriptors : owner[f] = <<c, "server">> => f = x
  BY <1>2, <1>3, <1>4 DEF Owned, Named, Owns
<1>6. owner' = Released(x)
      /\ para' = [para EXCEPT ![slotOf[c]].server = NoSid, ![slotOf[c]].closewaiting = w]
      /\ slotOf' = slotOf /\ env' = env /\ sids' = sids /\ reader' = reader
      /\ queue' = queue /\ read' = read
  <2>1. Sid(c, d) = x /\ ~(AtClient /\ d = "up") /\ ~(~AtClient /\ d = "down")
    BY DEF Sid, Source, Dirs
  <2>2. para[slotOf[c]].closewaiting = P(c).closewaiting
    BY DEF P
  <2>3. para' = [para EXCEPT ![slotOf[c]].server = NoSid,
                             ![slotOf[c]].closewaiting =
                                IF ~AtClient /\ writer[c].up.first = 1 THEN 1 ELSE @]
    BY <2>1 DEF WriterClose
  <2>4. para' = [para EXCEPT ![slotOf[c]].server = NoSid, ![slotOf[c]].closewaiting = w]
    BY <1>2, <1>3, <2>2, <2>3 DEF SlotTyped
  <2> HIDE DEF x, w
  <2>. QED  BY <2>1, <2>4 DEF WriterClose
<1>7. w \in 0..1 /\ P(c) \in SlotRecord
  BY <1>2, <1>3 DEF SlotTyped, SlotRecord, P
<1> HIDE DEF x, w
<1>8. /\ owner' \in [Descriptors -> {Free} \union (Conns \X Ends)]
      /\ \A f \in Descriptors : owner'[f] # <<c, "server">>
      /\ \A f \in Descriptors, b \in Conns, k \in Ends :
           <<b, k>> # <<c, "server">> => (owner'[f] = <<b, k>> <=> owner[f] = <<b, k>>)
      /\ OneOwner'
  BY <1>5, <1>6, ReleaseOwn DEF Ends
<1>9. /\ para' \in [Slots -> SlotRecord]
      /\ \A s \in Slots : s # slotOf[c] => para'[s] = para[s]
      /\ P(c)'.closewaiting = w /\ P(c)'.client = P(c).client /\ P(c)'.client2 = P(c).client2
      /\ P(c)'.usedflag = P(c).usedflag
  BY <1>2, <1>3, <1>6, <1>7 DEF SlotTyped, SlotRecord, P
<1>10. /\ Frame(c) /\ Typed'
       /\ Kind(c)' /\ Pkts(c)'
       /\ Answer(c)' => Answered(c)'
       /\ \A e \in Dirs : e # d => writer'[c][e] = writer[c][e]
       /\ writer'[c][d].pc = "flag"
  BY <1>1, <1>8, <1>9, EndedKeeps
<1>11. /\ AtClient' <=> AtClient
       /\ Started(c)' <=> Started(c)
       /\ Flow(c)' <=> Flow(c)
  BY <1>6 DEF AtClient, Started, Flow
<1>12. Closed(c, "server")
  <2>1. ~HasServer(c)'
    BY <1>10, <1>11, ConstFacts DEF HasServer
  <2>2. HasClient(c)' <=> HasClient(c)
    BY <1>2, <1>6, <1>10, <1>11, ConstFacts DEF HasClient
  <2>3. HasClient2(c)' <=> HasClient2(c)
    BY <1>6, <1>11 DEF HasClient2
  <2>. QED  BY <1>8, <1>9, <2>1, <2>2, <2>3, EndFields DEF Closed, Ends
<1>13. Owned(c)' /\ Named(c)'
  BY <1>10, <1>12, ClosedSockets DEF Ends
<1>14. Signs(c)'
  <2>1. \A e \in Dirs : Q(c, e)' = Q(c, e)
    BY <1>6 DEF Q
  <2>2. \A e \in Dirs : writer'[c][e].pc # "none" /\ Q(c, e)' = "ended"
                          => writer'[c][e].pc \in {"end", "flag", "done"}
    BY <1>3, <1>10, <2>1 DEF Signs
  <2>3. CASE AtClient
    BY <1>2, <1>11, <2>2, <2>3 DEF Signs
  <2>4. CASE ~AtClient
    <3>1. d = "up" /\ writer[c].up.pc = "end" /\ writer'[c].down = writer[c].down
          /\ writer'[c].up.pc = "flag"
      BY <1>1, <1>10, <2>4, ConstFacts
    <3>2. P(c).closewaiting # 1
      BY <1>3, <2>4, <3>1 DEF Signs
    <3>3. w = 1 => read[c].up = 0
      BY <3>2, FirstRead, ConstFacts DEF w
    <3>4. writer[c].down.pc \in {"end", "flag", "done"} => P(c).client >= 0
      BY <1>3, <2>4, <3>1 DEF Signs
    <3>. QED  BY <1>2, <1>6, <1>9, <1>11, <2>2, <2>4, <3>1, <3>3, <3>4 DEF Signs
  <2>. QED  BY <2>3, <2>4
<1>15. Self(c)'
  BY <1>10, <1>13, <1>14 DEF Self
<1>16. OwnersRight(c) /\ SidsKept(c)
       /\ \A n \in Flows : <<n, "server">> # <<c, "server">> =>
            \A f \in Descriptors : owner'[f] = <<n, "server">> <=> owner[f] = <<n, "server">>
  BY <1>6, <1>8, <1>12, ClosedOwners DEF Ends
<1>17. NumbersOf(c)
  <2> SUFFICES ASSUME AtClient, NEW n \in Flows, n = c \/ n + N = c PROVE Number(n)'
    BY DEF NumbersOf
  <2>1. n # c /\ n + N = c /\ n \in Conns
    BY <1>2, ConstFacts
  <2>2. writer'[n] = writer[n]
    BY <1>10, <2>1 DEF Frame
  <2>3. NumbersQuiet(n)
    BY <1>6, <1>16, <2>1, <2>2 DEF NumbersQuiet
  <2>. QED  BY <1>2, <1>9, <1>10, <2>1, <2>3, QuietNumber
<1>18. SlotUse(c)
  BY <1>6, <1>9, <1>11 DEF SlotUse, Holds, Returner, P
<1>. QED  BY <1>2, <1>10, <1>15, <1>16, <1>17, <1>18, TaskKeeps

LEMMA CloseOrigin ==
  ASSUME Inv, NEW c \in Conns, ~AtClient, WriterClose(c, "down")
  PROVE  Inv'
<1> DEFINE x == P(c).client
<1>1. Ended(c, "down") /\ writer[c].down.pc = "end"
  BY DEF WriterClose, Ended
<1>2. Live(c) /\ Self(c) /\ Typed /\ slotOf[c] \in Slots /\ ~Flow(c) /\ c <= N /\ ~Answer(c) /\ c \in Flows
  BY <1>1, WriterOf, ConstFacts
<1>3. SlotTyped /\ Owned(c) /\ Named(c) /\ Signs(c) /\ Pkts(c) /\ Kind(c)
  BY <1>2 DEF Typed, Self
<1>4. HasClient(c)
  BY <1>1, <1>2 DEF HasClient
<1>5. (x \in Descriptors => owner[x] = <<c, "client">>)
      /\ \A f \in Descriptors : owner[f] = <<c, "client">> => f = x
  BY <1>2, <1>3, <1>4, ConstFacts DEF Owned, Named, Owns
<1>6. owner' = Released(x) /\ para' = para
      /\ slotOf' = slotOf /\ env' = env /\ sids' = sids /\ reader' = reader
      /\ queue' = queue /\ read' = read
  BY DEF WriterClose, Sid, Source
<1> HIDE DEF x
<1>7. /\ owner' \in [Descriptors -> {Free} \union (Conns \X Ends)]
      /\ \A f \in Descriptors : owner'[f] # <<c, "client">>
      /\ \A f \in Descriptors, b \in Conns, k \in Ends :
           <<b, k>> # <<c, "client">> => (owner'[f] = <<b, k>> <=> owner[f] = <<b, k>>)
      /\ OneOwner'
  BY <1>5, <1>6, ReleaseOwn DEF Ends
<1>8. para' \in [Slots -> SlotRecord] /\ P(c)' = P(c)
  BY <1>3, <1>6 DEF SlotTyped, P
<1>9. /\ Frame(c) /\ Typed'
      /\ Kind(c)' /\ Pkts(c)'
      /\ Answer(c)' => Answered(c)'
      /\ \A e \in Dirs : e # "down" => writer'[c][e] = writer[c][e]
      /\ writer'[c]["down"].pc = "flag"
  BY <1>1, <1>6, <1>7, <1>8, EndedKeeps, ConstFacts
<1>10. /\ AtClient' <=> AtClient
       /\ Started(c)' <=> Started(c)
       /\ Flow(c)' <=> Flow(c)
  BY <1>6 DEF AtClient, Started, Flow
<1>11. Closed(c, "client")
  <2>1. ~HasClient(c)'
    BY <1>9, <1>10 DEF HasClient
  <2>2. HasServer(c)' <=> HasServer(c)
    BY <1>9, <1>10, ConstFacts DEF HasServer
  <2>3. HasClient2(c)' <=> HasClient2(c)
    BY <1>6, <1>10 DEF HasClient2
  <2>. QED  BY <1>7, <1>8, <2>1, <2>2, <2>3, EndFields DEF Closed, Ends
<1>12. Owned(c)' /\ Named(c)'
  BY <1>9, <1>11, ClosedSockets DEF Ends
<1>13. Signs(c)'
  <2>1. \A e \in Dirs : Q(c, e)' = Q(c, e)
    BY <1>6 DEF Q
  <2>2. \A e \in Dirs : writer'[c][e].pc # "none" /\ Q(c, e)' = "ended"
                          => writer'[c][e].pc \in {"end", "flag", "done"}
    BY <1>3, <1>9, <2>1 DEF Signs
  <2>3. writer'[c].up = writer[c].up
    BY <1>9, ConstFacts
  <2>. QED  BY <1>1, <1>3, <1>6, <1>8, <1>10, <2>2, <2>3 DEF Signs
<1>14. Self(c)'
  BY <1>9, <1>12, <1>13 DEF Self
<1>15. OwnersRight(c) /\ SidsKept(c)
  BY <1>6, <1>7, <1>11, ClosedOwners DEF Ends
<1>16. NumbersOf(c)
  BY DEF NumbersOf
<1>17. SlotUse(c)
  BY <1>6, HoldsKept
<1>. QED  BY <1>2, <1>9, <1>14, <1>15, <1>16, <1>17, TaskKeeps

\* a reader that has closed waits for its writer
Waits(c, d) ==
  /\ env' = env /\ sids' = sids /\ queue' = queue /\ idx' = idx
  /\ waiting' = waiting /\ slotOf' = slotOf /\ writer' = writer /\ count' = count
  /\ read' = read /\ closed' = closed
  /\ reader[c][d].pc = "close" /\ R(c, d, "wait")

LEMMA WaitsKeeps ==
  ASSUME Inv, NEW c \in Conns, NEW d \in Dirs, Waits(c, d),
         para' \in [Slots -> SlotRecord], owner' \in [Descriptors -> {Free} \union (Conns \X Ends)],
         \A s \in Slots : s # slotOf[c] => para'[s] = para[s],
         P(c)'.usedflag = P(c).usedflag
  PROVE  /\ Live(c) /\ Self(c) /\ Typed /\ slotOf[c] \in Slots /\ Frame(c) /\ Typed'
         /\ Kind(c)' /\ Pkts(c)' /\ SlotUse(c)
         /\ Answer(c)' => Answered(c)'
         /\ \A e \in Dirs : e # d => reader'[c][e] = reader[c][e]
         /\ reader'[c][d].pc = "wait"
         /\ \A e \in Dirs : reader'[c][e].pktid = reader[c][e].pktid
<1>1. /\ env' = env /\ sids' = sids /\ queue' = queue /\ idx' = idx
      /\ waiting' = waiting /\ slotOf' = slotOf /\ writer' = writer /\ count' = count
      /\ read' = read /\ closed' = closed
      /\ reader[c][d].pc = "close" /\ R(c, d, "wait")
  BY DEF Waits
<1>2. Self(c) /\ Kind(c) /\ Pkts(c) /\ Live(c) /\ slotOf[c] \in Slots /\ Typed
  BY <1>1, ReaderOf DEF Self
<1>3. TaskTyped
  BY <1>2 DEF Typed
<1>4. /\ reader' \in [Conns -> [Dirs -> [pc : ReaderLabels, pktid : Flows \union {0}, tries : 0..MaxTries]]]
      /\ ReaderAt(c, d, "wait") /\ reader'[c][d].pktid = reader[c][d].pktid
  BY <1>1, <1>3, RDoes DEF ReaderLabels
<1>5. Typed'
  BY <1>1, <1>2, <1>4 DEF Typed, SlotTyped, SidTyped, TaskTyped, CountTyped
<1>6. Frame(c)
  BY <1>1, <1>4 DEF Frame, ReaderAt
<1>7. /\ AtClient' <=> AtClient
      /\ Started(c)' <=> Started(c)
      /\ Began(c)' <=> Began(c)
      /\ \A e : Has(c, e)' <=> Has(c, e)
      /\ Answer(c)' <=> Answer(c)
  BY <1>1 DEF AtClient, Started, Began, Has, Answer
<1>8. \A e \in Dirs : /\ reader'[c][e].pc = "none" <=> reader[c][e].pc = "none"
                      /\ reader'[c][e].pc = "delete" <=> reader[c][e].pc = "delete"
                      /\ reader'[c][e].pc = "send" <=> reader[c][e].pc = "send"
                      /\ reader'[c][e].pc \in {"none", "done"} <=> reader[c][e].pc \in {"none", "done"}
                      /\ reader'[c][e].pc \in {"send", "delete", "close", "wait", "done"}
                           <=> reader[c][e].pc \in {"send", "delete", "close", "wait", "done"}
                      /\ reader'[c][e].pktid = reader[c][e].pktid
  BY <1>1, <1>4 DEF ReaderAt
<1>9. Kind(c)'
  BY <1>1, <1>2, <1>7, <1>8, ConstFacts DEF Kind
<1>10. Pkts(c)'
  BY <1>1, <1>2, <1>7, <1>8, ConstFacts DEF Pkts
<1>11. Answer(c)' => Answered(c)'
  BY <1>1, <1>2, <1>7, <1>8, ConstFacts DEF Answered, Self
<1>12. SlotUse(c)
  <2>1. Returner(c) \in Dirs /\ Returner(c)' = Returner(c)
    BY <1>7, ConstFacts DEF Returner, ServerOf
  <2>2. Holds(c)' <=> Holds(c)
    BY <1>8, <2>1 DEF Holds
  <2>3. para'[slotOf[c]].usedflag = para[slotOf[c]].usedflag
    BY <1>1 DEF P
  <2>. QED  BY <2>2, <2>3 DEF SlotUse
<1>. QED  BY <1>2, <1>4, <1>5, <1>6, <1>8, <1>9, <1>10, <1>11, <1>12 DEF ReaderAt

LEMMA CloseNothing ==
  ASSUME Inv, NEW c \in Conns, ~AtClient, ReaderClose(c, "up")
  PROVE  Inv'
<1>1. /\ Waits(c, "up") /\ owner' = owner /\ para' = para /\ slotOf' = slotOf /\ env' = env
      /\ sids' = sids /\ queue' = queue /\ read' = read /\ writer' = writer
  BY DEF ReaderClose, Waits
<1>2. para' \in [Slots -> SlotRecord] /\ owner' \in [Descriptors -> {Free} \union (Conns \X Ends)]
      /\ P(c)' = P(c)
  BY <1>1 DEF Inv, Typed, SlotTyped, P
<1>3. /\ Live(c) /\ Self(c) /\ Typed /\ slotOf[c] \in Slots /\ Frame(c) /\ Typed'
      /\ Kind(c)' /\ Pkts(c)' /\ SlotUse(c)
      /\ Answer(c)' => Answered(c)'
      /\ \A e \in Dirs : e # "up" => reader'[c][e] = reader[c][e]
  BY <1>1, <1>2, WaitsKeeps, ConstFacts
<1>4. (AtClient' <=> AtClient) /\ (Started(c)' <=> Started(c)) /\ (Flow(c)' <=> Flow(c))
  BY <1>1 DEF AtClient, Started, Flow
<1>5. reader'[c].down = reader[c].down
  BY <1>3, ConstFacts
<1>6. HasKept(c)
  BY <1>1, <1>4, <1>5 DEF HasKept, HasServer, HasClient, HasClient2
<1>7. Owned(c)' /\ Named(c)'
  BY <1>1, <1>2, <1>3, <1>6, SocketsKept DEF SidsInSlot
<1>8. Signs(c)'
  <2>1. Signs(c) /\ \A e \in Dirs : Q(c, e)' = Q(c, e)
    BY <1>1, <1>3 DEF Self, Q
  <2>. QED  BY <1>1, <1>2, <1>4, <2>1 DEF Signs
<1>9. Self(c)' /\ NumbersOf(c) /\ OwnersRight(c) /\ SidsKept(c)
  BY <1>1, <1>3, <1>7, <1>8, SameOwners DEF Self, NumbersOf
<1>. QED  BY <1>3, <1>9, TaskKeeps

\* A socket of the slot is unset and its stopflag written.
LEMMA EndUnset ==
  ASSUME SlotTyped, NEW c \in Conns, slotOf[c] \in Slots, slotOf' = slotOf,
         NEW e \in {"client", "client2"}, NEW w \in 0..1,
         para' = [para EXCEPT ![slotOf[c]][e] = Unset, ![slotOf[c]].stopflag = w]
  PROVE  /\ para' \in [Slots -> SlotRecord]
         /\ \A s \in Slots : s # slotOf[c] => para'[s] = para[s]
         /\ P(c)'.closewaiting = P(c).closewaiting /\ P(c)'.usedflag = P(c).usedflag
         /\ \A k \in Ends : k # e => P(c)'[k] = P(c)[k]
<1> DEFINE s == slotOf[c]
           q == para[s]
           r == [q EXCEPT ![e] = Unset, !.stopflag = w]
<1>1. para \in [Slots -> SlotRecord] /\ s \in Slots /\ q \in SlotRecord
  BY DEF SlotTyped
<1>2. Unset \in Sids
  BY DEF Sids
<1>3. /\ r \in SlotRecord /\ r.closewaiting = q.closewaiting /\ r.usedflag = q.usedflag
      /\ \A k \in Ends : k # e => r[k] = q[k]
  <2>1. CASE e = "client"
    <3>1. r = [q EXCEPT !.client = Unset, !.stopflag = w]
      BY <2>1
    <3> HIDE DEF r, q
    <3>. QED  BY <1>1, <1>2, <2>1, <3>1 DEF SlotRecord, Ends
  <2>2. CASE e = "client2"
    <3>1. r = [q EXCEPT !.client2 = Unset, !.stopflag = w]
      BY <2>2
    <3> HIDE DEF r, q
    <3>. QED  BY <1>1, <1>2, <2>2, <3>1 DEF SlotRecord, Ends
  <2>. QED  BY <2>1, <2>2
<1>4. para' = [para EXCEPT ![s] = r]
  <2>1. \A x : ([para EXCEPT ![s][e] = Unset, ![s].stopflag = x] = [para EXCEPT ![s] = [q EXCEPT ![e] = Unset, !.stopflag = x]])
    BY <1>1
  <2>. QED  BY <2>1
<1>5. P(c) = q /\ P(c)' = para'[s]
  BY DEF P
<1> HIDE DEF s, q, r
<1>6. P(c)' = r
  BY <1>1, <1>4, <1>5
<1>7. /\ para' \in [Slots -> SlotRecord]
      /\ \A t \in Slots : t # s => para'[t] = para[t]
  BY <1>1, <1>3, <1>4
<1>. QED  BY <1>3, <1>5, <1>6, <1>7 DEF s

LEMMA CloseTarget ==
  ASSUME Inv, NEW c \in Conns, NEW d \in Dirs, ReaderClose(c, d),
         (AtClient /\ d = "up") \/ (~AtClient /\ d = "down")
  PROVE  Inv'
<1>0. Target(c, d) \in Ends
  BY DEF Target, Ends
<1> SUFFICES ASSUME NEW e \in Ends, e = Target(c, d) PROVE Inv'
  BY <1>0
<1> DEFINE x == P(c)[e]
           w == IF d = "down" THEN 1 ELSE P(c).stopflag
<1>1. Waits(c, d) /\ reader[c][d].pc = "close"
  BY DEF ReaderClose, Waits
<1>2. Live(c) /\ Self(c) /\ Typed /\ slotOf[c] \in Slots /\ c <= N /\ c \in Flows
      /\ (~AtClient => ~Answer(c))
  BY <1>1, ReaderOf, ConstFacts
<1>3. SlotTyped /\ Owned(c) /\ Named(c) /\ Signs(c)
  BY <1>2 DEF Typed, Self
<1>4. /\ HasEnd(c, e) /\ e # "server"
      /\ d = "up" => e = "client" /\ AtClient
      /\ d = "down" => e = "client2" /\ ~AtClient
  BY <1>1, <1>2 DEF Target, HasEnd, HasClient, HasClient2, Ends, Dirs
<1>5. /\ x \in Descriptors => owner[x] = <<c, e>>
      /\ \A f \in Descriptors : owner[f] = <<c, e>> => f = x
  <2>1. CASE d = "up"
    BY <1>2, <1>3, <1>4, <2>1, ConstFacts, EndFields DEF Owned, Named, Owns
  <2>2. CASE d = "down"
    BY <1>2, <1>3, <1>4, <2>2, ConstFacts, EndFields DEF Owned, Named, Owns
  <2>. QED  BY <2>1, <2>2 DEF Dirs
<1>6. owner' = Released(x)
      /\ para' = [para EXCEPT ![slotOf[c]][e] = Unset, ![slotOf[c]].stopflag = w]
      /\ slotOf' = slotOf /\ env' = env /\ sids' = sids /\ writer' = writer
      /\ queue' = queue /\ read' = read
  <2>1. ~(~AtClient /\ d = "up")
    OBVIOUS
  <2>2. owner' = Released(x)
    BY <2>1 DEF ReaderClose
  <2>3. para' = [para EXCEPT ![slotOf[c]][e] = Unset, ![slotOf[c]].stopflag = IF d = "down" THEN 1 ELSE @]
    BY <2>1 DEF ReaderClose
  <2>4. para' = [para EXCEPT ![slotOf[c]][e] = Unset, ![slotOf[c]].stopflag = w]
    <3>1. P(c).stopflag = para[slotOf[c]].stopflag
      BY DEF P
    <3>2. e = "client" \/ e = "client2"
      BY <1>4 DEF Dirs
    <3>3. CASE e = "client"
      BY <1>2, <1>3, <2>3, <3>1, <3>3 DEF SlotTyped, SlotRecord
    <3>4. CASE e = "client2"
      BY <1>2, <1>3, <2>3, <3>1, <3>4 DEF SlotTyped, SlotRecord
    <3>. QED  BY <3>2, <3>3, <3>4
  <2> HIDE DEF x, w
  <2>. QED  BY <2>2, <2>4 DEF ReaderClose
<1>7. w \in 0..1 /\ Unset \in Sids
  <2>1. P(c) \in SlotRecord
    BY <1>2, <1>3 DEF SlotTyped, P
  <2>. QED  BY <2>1 DEF SlotRecord, Sids
<1> HIDE DEF x, w
<1>8. /\ owner' \in [Descriptors -> {Free} \union (Conns \X Ends)]
      /\ \A f \in Descriptors : owner'[f] # <<c, e>>
      /\ \A f \in Descriptors, b \in Conns, k \in Ends :
           <<b, k>> # <<c, e>> => (owner'[f] = <<b, k>> <=> owner[f] = <<b, k>>)
      /\ OneOwner'
  <2>1. owner' = Released(x)
    BY <1>6
  <2>. QED  BY <1>5, <2>1, ReleaseOwn
<1>9. /\ para' \in [Slots -> SlotRecord]
      /\ \A s \in Slots : s # slotOf[c] => para'[s] = para[s]
      /\ P(c)'.closewaiting = P(c).closewaiting /\ P(c)'.usedflag = P(c).usedflag
      /\ \A k \in Ends : k # e => P(c)'[k] = P(c)[k]
  <2>1. e \in {"client", "client2"}
    BY <1>4 DEF Dirs
  <2>. QED  BY <1>2, <1>3, <1>6, <1>7, <2>1, EndUnset
<1>10. /\ Frame(c) /\ Typed'
       /\ Kind(c)' /\ Pkts(c)' /\ SlotUse(c)
       /\ Answer(c)' => Answered(c)'
       /\ \A k \in Dirs : k # d => reader'[c][k] = reader[c][k]
       /\ reader'[c][d].pc = "wait"
  BY <1>1, <1>8, <1>9, WaitsKeeps
<1>11. /\ AtClient' <=> AtClient
       /\ Started(c)' <=> Started(c)
       /\ Flow(c)' <=> Flow(c)
  BY <1>6 DEF AtClient, Started, Flow
<1>12. Closed(c, e)
  <2>1. HasServer(c)' <=> HasServer(c)
    BY <1>6, <1>11 DEF HasServer
  <2>2. CASE d = "up"
    <3>1. ~HasClient(c)' /\ ~HasClient2(c)' /\ ~HasClient2(c)
      BY <1>4, <1>10, <1>11, <2>2 DEF HasClient, HasClient2
    <3>2. \A k \in Ends : k # e => (HasEnd(c, k)' <=> HasEnd(c, k))
      BY <1>4, <2>1, <2>2, <3>1, EndFields DEF Ends
    <3>3. ~HasEnd(c, e)'
      <4>1. ~HasEnd(c, "client")'
        BY <3>1, EndFields
      <4>. QED  BY <1>4, <2>2, <4>1
    <3>. QED  BY <1>8, <1>9, <3>2, <3>3 DEF Closed
  <2>3. CASE d = "down"
    <3>1. ~HasClient2(c)' /\ (HasClient(c)' <=> HasClient(c))
      BY <1>4, <1>6, <1>10, <1>11, <2>3 DEF HasClient, HasClient2
    <3>2. \A k \in Ends : k # e => (HasEnd(c, k)' <=> HasEnd(c, k))
      BY <1>4, <2>1, <2>3, <3>1, EndFields DEF Ends
    <3>3. ~HasEnd(c, e)'
      <4>1. ~HasEnd(c, "client2")'
        BY <3>1, EndFields
      <4>. QED  BY <1>4, <2>3, <4>1
    <3>. QED  BY <1>8, <1>9, <3>2, <3>3 DEF Closed
  <2>. QED  BY <2>2, <2>3 DEF Dirs
<1>13. Owned(c)' /\ Named(c)'
  BY <1>4, <1>10, <1>12, ClosedSockets
<1>14. Signs(c)'
  <2>1. \A k \in Dirs : Q(c, k)' = Q(c, k)
    BY <1>6 DEF Q
  <2>2. P(c)'.server = P(c).server /\ (~AtClient => P(c)'.client = P(c).client)
    BY <1>4, <1>9 DEF Ends, Dirs
  <2>. QED  BY <1>3, <1>6, <1>9, <1>11, <2>1, <2>2 DEF Signs
<1>15. Self(c)'
  BY <1>10, <1>13, <1>14 DEF Self
<1>16. OwnersRight(c) /\ SidsKept(c)
       /\ \A n \in Flows : <<n, "server">> # <<c, e>> =>
            \A f \in Descriptors : owner'[f] = <<n, "server">> <=> owner[f] = <<n, "server">>
  BY <1>4, <1>6, <1>8, <1>12, ClosedOwners
<1>17. NumbersOf(c)
  <2> SUFFICES ASSUME AtClient, NEW n \in Flows, n = c \/ n + N = c PROVE Number(n)'
    BY DEF NumbersOf
  <2>1. n = c /\ n + N # c /\ n + N \in Conns
    BY <1>2, ConstFacts
  <2>2. reader'[n + N] = reader[n + N]
    BY <1>10, <2>1 DEF Frame
  <2>3. NumbersQuiet(n)
    BY <1>4, <1>6, <1>16, <2>2 DEF NumbersQuiet
  <2>4. P(c)'.server = P(c).server
    BY <1>4, <1>9 DEF Ends
  <2>. QED  BY <1>2, <1>10, <2>1, <2>3, <2>4, QuietNumber
<1>. QED  BY <1>2, <1>10, <1>15, <1>16, <1>17, TaskKeeps

LEMMA CloseForBrowser ==
  ASSUME Inv, NEW c \in Conns, AtClient, ReaderClose(c, "down")
  PROVE  Inv'
<1> DEFINE n == c - N
           x == P(c).client
<1>1. Waits(c, "down") /\ reader[c].down.pc = "close"
  BY DEF ReaderClose, Waits
<1>2. Live(c) /\ Self(c) /\ Typed /\ slotOf[c] \in Slots /\ ~Flow(c) /\ Answer(c) /\ Answered(c)
  BY <1>1, ReaderOf, ConstFacts
<1>3. SlotTyped /\ Owned(c) /\ Named(c) /\ Signs(c)
  BY <1>2 DEF Typed, Self
<1>4. /\ n \in Flows /\ n \in Conns /\ n + N = c /\ n # c /\ n # 0
      /\ Started(n) /\ writer[n].up.pc # "insert" /\ Number(n) /\ ~(c <= N)
  BY <1>2, AnswerFlow, ConstFacts DEF Began, Live, Answer
<1>5. Owns(n, "server", x) /\ n \notin DOMAIN sids
  <2>1. reader[c].down.pktid # 0
    BY <1>1, <1>2, <1>4 DEF Answered
  <2>. QED  BY <1>1, <1>4, <2>1 DEF Number
<1>6. owner[x] = <<n, "server">> /\ x \in Descriptors
      /\ \A f \in Descriptors : owner[f] = <<n, "server">> => f = x
  <2>1. owner[x] = <<n, "server">> /\ x \in Descriptors
    BY <1>5 DEF Owns
  <2>2. owner[x] # Free
    BY <1>4, <2>1, NotFree DEF Ends
  <2>. QED  BY <2>1, <2>2 DEF Inv, OneOwner
<1>7. owner' = Released(x)
      /\ para' = [para EXCEPT ![slotOf[c]].client = Unset, ![slotOf[c]].stopflag = 1]
      /\ slotOf' = slotOf /\ env' = env /\ sids' = sids /\ writer' = writer
      /\ queue' = queue /\ read' = read /\ waiting' = waiting
  BY DEF ReaderClose, Target
<1> HIDE DEF x, n
<1>8. /\ owner' \in [Descriptors -> {Free} \union (Conns \X Ends)]
      /\ \A f \in Descriptors : owner'[f] # <<n, "server">>
      /\ \A f \in Descriptors, b \in Conns, k \in Ends :
           <<b, k>> # <<n, "server">> => (owner'[f] = <<b, k>> <=> owner[f] = <<b, k>>)
      /\ OneOwner'
  BY <1>4, <1>6, <1>7, ReleaseOwn DEF Ends
<1>9. /\ para' \in [Slots -> SlotRecord]
      /\ \A s \in Slots : s # slotOf[c] => para'[s] = para[s]
      /\ P(c)'.closewaiting = P(c).closewaiting /\ P(c)'.usedflag = P(c).usedflag
      /\ P(c)'.server = P(c).server
  <2>1. para' = [para EXCEPT ![slotOf[c]]["client"] = Unset, ![slotOf[c]].stopflag = 1]
    BY <1>7
  <2>2. /\ para' \in [Slots -> SlotRecord]
        /\ \A s \in Slots : s # slotOf[c] => para'[s] = para[s]
        /\ P(c)'.closewaiting = P(c).closewaiting /\ P(c)'.usedflag = P(c).usedflag
        /\ \A k \in Ends : k # "client" => P(c)'[k] = P(c)[k]
    <3>1. slotOf' = slotOf /\ 1 \in 0..1 /\ "client" \in {"client", "client2"}
      BY <1>7
    <3>. QED  BY <1>2, <1>3, <2>1, <3>1, EndUnset
  <2>. QED  BY <2>2 DEF Ends
<1>10. /\ Frame(c) /\ Typed'
       /\ Kind(c)' /\ Pkts(c)' /\ SlotUse(c)
       /\ Answer(c)' => Answered(c)'
       /\ \A k \in Dirs : k # "down" => reader'[c][k] = reader[c][k]
       /\ reader'[c]["down"].pc = "wait"
  BY <1>1, <1>8, <1>9, WaitsKeeps, ConstFacts
<1>11. /\ AtClient' <=> AtClient
       /\ Started(c)' <=> Started(c)
       /\ Flow(c)' <=> Flow(c)
       /\ Began(c)' <=> Began(c)
  BY <1>7 DEF AtClient, Started, Flow, Began
<1>12. \A b \in Conns : b # n => OwnersKept(b)
  BY <1>8 DEF OwnersKept
<1>13. Owned(c)' /\ Named(c)'
  <2>1. OwnersKept(c)
    BY <1>4, <1>12
  <2>2. ~HasClient(c) /\ ~HasClient2(c) /\ ~HasClient(c)' /\ ~HasClient2(c)'
        /\ (HasServer(c)' <=> HasServer(c))
    BY <1>4, <1>7, <1>11 DEF HasClient, HasClient2, HasServer
  <2>. QED  BY <1>3, <1>9, <1>11, <2>1, <2>2 DEF Owned, Named, OwnersKept, Owns, Ends
<1>14. Signs(c)'
  <2>1. \A k \in Dirs : Q(c, k)' = Q(c, k)
    BY <1>7 DEF Q
  <2>. QED  BY <1>2, <1>3, <1>7, <1>9, <1>11, <2>1 DEF Signs
<1>15. Self(c)'
  BY <1>10, <1>13, <1>14 DEF Self
<1>16. Self(n)'
  <2>1. Self(n) /\ Owned(n) /\ Named(n) /\ Kind(n) /\ Pkts(n)
    BY <1>4 DEF Inv, Self
  <2>2. /\ writer'[n] = writer[n] /\ reader'[n] = reader[n] /\ slotOf'[n] = slotOf[n]
        /\ count'[n] = count[n] /\ read'[n] = read[n]
    BY <1>4, <1>7, <1>10 DEF Frame
  <2>3. /\ Started(n)' <=> Started(n)
        /\ Began(n)' <=> Began(n)
        /\ HasServer(n)' <=> HasServer(n)
        /\ HasClient(n)' <=> HasClient(n)
        /\ HasClient2(n)' <=> HasClient2(n)
        /\ Live(n)' <=> Live(n)
        /\ Flow(n)' <=> Flow(n)
    BY <1>4, <1>10, OthersLike
  <2>4. Live(n) => P(n)' = P(n) /\ \A k \in Dirs : Q(n, k)' = Q(n, k)
    <3> SUFFICES ASSUME Live(n) PROVE P(n)' = P(n) /\ \A k \in Dirs : Q(n, k)' = Q(n, k)
      OBVIOUS
    <3>1. slotOf[n] # slotOf[c] /\ slotOf[n] \in Slots
      BY <1>2, <1>4, LiveApart
    <3>. QED  BY <1>4, <1>10, <3>1 DEF Frame, P, Q
  <2>5. ~Live(n) => ~HasServer(n) /\ ~HasClient(n) /\ ~HasClient2(n)
    BY <1>2, <1>4, <2>1, Idle
  <2>6. Flow(n) /\ ~HasServer(n) /\ ~Answer(n)'
    BY <1>4, <1>11, ConstFacts DEF Flow, HasServer, Answer
  <2>7. Kind(n)'
    <3>1. \A k : Has(n, k)' <=> Has(n, k)
      BY <1>11 DEF Has
    <3>. QED  BY <1>7, <1>11, <2>1, <2>2, <2>3, <3>1 DEF Kind
  <2>8. Pkts(n)'
    BY <1>11, <2>1, <2>2, <2>3 DEF Pkts
  <2>9. Owned(n)'
    <3>1. \A f \in Descriptors : /\ owner'[f] # <<n, "server">>
                                 /\ owner'[f] = <<n, "client">> <=> owner[f] = <<n, "client">>
                                 /\ owner'[f] = <<n, "client2">> <=> owner[f] = <<n, "client2">>
      BY <1>4, <1>8 DEF Ends
    <3>. QED  BY <2>1, <2>3, <2>4, <2>5, <3>1 DEF Owned
  <2>10. Named(n)'
    <3>1. \A f \in Descriptors : /\ owner'[f] = <<n, "client">> <=> owner[f] = <<n, "client">>
                                 /\ owner'[f] = <<n, "client2">> <=> owner[f] = <<n, "client2">>
      BY <1>4, <1>8 DEF Ends
    <3>. QED  BY <2>1, <2>3, <2>4, <2>5, <2>6, <3>1 DEF Named, Owns
  <2>11. Live(n)' => Signs(n)'
    <3> SUFFICES ASSUME Live(n) PROVE Signs(n)'
      BY <2>3
    <3>. QED  BY <1>11, <2>1, <2>2, <2>3, <2>4 DEF Self, Signs
  <2>. QED  BY <2>6, <2>7, <2>8, <2>9, <2>10, <2>11 DEF Self
<1>17. OwnersRight(c)
  BY <1>4, <1>8, <1>12, <1>16 DEF OwnersRight
<1>18. SidsKept(c)
  <2>1. \A m \in Flows : m + N # c => m # n
    BY <1>4
  <2>. QED  BY <1>7, <1>12, <2>1, ConstFacts DEF SidsKept, SidKept
<1>19. NumbersOf(c)
  <2> SUFFICES ASSUME NEW m \in Flows, m = c \/ m + N = c PROVE Number(m)'
    BY DEF NumbersOf
  <2>1. m = n
    BY <1>4, ConstFacts DEF n
  <2>. QED  BY <1>4, <1>5, <1>7, <1>8, <1>10, <2>1 DEF Number
<1>. QED  BY <1>2, <1>10, <1>15, <1>17, <1>18, <1>19, TaskKeeps

-----------------------------------------------------------------------------
(* The servers, and the far ends.                                          *)

\* what is said of a connection holds on when nothing of it changes
LEMMA LikeSelf ==
  ASSUME Inv, NEW b \in Conns, env' = env,
         writer'[b] = writer[b], reader'[b] = reader[b], slotOf'[b] = slotOf[b],
         count'[b] = count[b], read' = read,
         "server" \in closed'[b] => "server" \in closed[b] \/ (Answer(b) => read[b].down > 0),
         Began(b)' <=> Began(b),
         OwnersKept(b),
         Live(b) => P(b)' = P(b) /\ \A d \in Dirs : Q(b, d)' = Q(b, d)
  PROVE  Self(b)'
<1>1. Self(b) /\ Typed
  BY DEF Inv
<1>2. AtClient' <=> AtClient
  BY DEF AtClient
<1>3. Started(b)' <=> Started(b)
  BY DEF Started
<1>4. Gone(b)' <=> Gone(b)
  BY DEF Gone
<1>5. /\ HasServer(b)' <=> HasServer(b)
      /\ HasClient(b)' <=> HasClient(b)
      /\ HasClient2(b)' <=> HasClient2(b)
      /\ Live(b)' <=> Live(b)
      /\ Flow(b)' <=> Flow(b)
      /\ Answer(b)' <=> Answer(b)
  BY <1>2, <1>3, <1>4 DEF HasServer, HasClient, HasClient2, Live, Flow, Answer
<1>6. ~Live(b) => ~HasServer(b) /\ ~HasClient(b) /\ ~HasClient2(b)
  BY <1>1, Idle DEF Self
<1>7. Kind(b)'
  <2>1. \A d : Has(b, d)' <=> Has(b, d)
    BY <1>2 DEF Has
  <2>. QED  BY <1>1, <1>2, <1>3, <2>1 DEF Self, Kind
<1>8. Pkts(b)'
  BY <1>1, <1>2, <1>3 DEF Self, Pkts
<1>9. Owned(b)'
  BY <1>1, <1>3, <1>5, <1>6 DEF Self, Owned, OwnersKept, Ends
<1>10. Named(b)'
  BY <1>1, <1>5, <1>6 DEF Self, Named, OwnersKept, Ends, Owns
<1>11. Answer(b)' => Answered(b)'
  <2> SUFFICES ASSUME Answer(b) PROVE Answered(b)'
    BY <1>5
  <2>1. Answered(b)
    BY <1>1 DEF Self
  <2>. QED  BY <2>1 DEF Answered
<1>12. Live(b)' => Signs(b)'
  <2> SUFFICES ASSUME Live(b) PROVE Signs(b)'
    BY <1>5
  <2>. QED  BY <1>1, <1>2, <1>5 DEF Self, Signs
<1>. QED  BY <1>7, <1>8, <1>9, <1>10, <1>11, <1>12 DEF Self

LEMMA LikeNumber ==
  ASSUME Inv, AtClient, NEW n \in Flows, OwnersKept(n), SidKept(n),
         writer'[n] = writer[n], reader'[n + N] = reader[n + N], slotOf'[n] = slotOf[n],
         Live(n) => P(n)' = P(n),
         Live(n + N) => P(n + N)' = P(n + N)
  PROVE  Number(n)'
<1>1. Typed /\ Number(n)
  BY DEF Inv, Numbers
<1>2. n \in Conns /\ n + N \in Conns
  BY ConstFacts
<1>3. Self(n) /\ Self(n + N)
  BY <1>2 DEF Inv
<1>4. Started(n)' <=> Started(n)
  BY DEF Started
<1>5. writer[n].up.pc \in {"insert", "run", "recv", "end"} => P(n)'.server = P(n).server
  BY <1>1, <1>2, <1>3, RunsLive, ConstFacts DEF Self
<1>6. reader[n + N].down.pc \in {"run", "send", "delete", "close"}
        => P(n + N)'.client = P(n + N).client
  BY <1>1, <1>2, <1>3, RunsLive, ConstFacts DEF Self
<1>7. \A f : Owns(n, "server", f)' <=> Owns(n, "server", f)
  BY DEF OwnersKept, Owns, Ends
<1>8. \A f \in Descriptors : owner'[f] = <<n, "server">> <=> owner[f] = <<n, "server">>
  BY DEF OwnersKept, Ends
<1>. QED  BY <1>1, <1>4, <1>5, <1>6, <1>7, <1>8 DEF Number, SidKept

\* when nothing moves but a search or a far end
LEMMA SameRules ==
  ASSUME Inv, env' = env, owner' = owner, para' = para, waiting' = waiting, slotOf' = slotOf,
         writer' = writer, reader' = reader
  PROVE  SlotRules' /\ OneOwner'
<1>1. SlotRules /\ OneOwner
  BY DEF Inv
<1>2. \A b \in Conns : (Gone(b)' <=> Gone(b)) /\ (Holds(b)' <=> Holds(b))
  BY DEF Gone, Holds, Returner, AtClient
<1>3. \A b : Started(b)' <=> Started(b)
  BY DEF Started
<1>4. ASSUME NEW v \in Servers, waiting[v] # 0
      PROVE  /\ ServerOf(waiting[v]) = v /\ ~Started(waiting[v])'
             /\ \E f \in Descriptors : owner'[f] = <<waiting[v], "server">>
  BY <1>1, <1>3, <1>4 DEF SlotRules
<1>5. \A a, b \in Conns : a # b /\ Started(a)' /\ slotOf'[a] = slotOf'[b] => Gone(a)' \/ Gone(b)'
  BY <1>1, <1>2, <1>3 DEF SlotRules
<1>6. \A s \in Slots : para'[s].usedflag = 1 => \E b \in Conns : slotOf'[b] = s /\ Holds(b)'
  BY <1>1, <1>2 DEF SlotRules
<1>7. SlotRules'
  BY <1>4, <1>5, <1>6 DEF SlotRules
<1>8. OneOwner'
  BY <1>1 DEF OneOwner
<1>. QED  BY <1>7, <1>8

LEMMA SearchKeeps ==
  ASSUME Inv, NEW v \in Servers, Search(v)
  PROVE  Inv'
<1>1. /\ idx' = [idx EXCEPT ![v] = (@ + 1) % NSlots]
      /\ env' = env /\ owner' = owner /\ sids' = sids /\ para' = para /\ queue' = queue
      /\ waiting' = waiting /\ slotOf' = slotOf /\ writer' = writer /\ reader' = reader
      /\ count' = count /\ read' = read /\ closed' = closed
  BY DEF Search
<1>2. Typed'
  <2>1. idx' \in [Servers -> 0..(NSlots - 1)]
    BY <1>1, ConstFacts DEF Inv, Typed, SlotTyped
  <2>. QED  BY <1>1, <2>1 DEF Inv, Typed, SlotTyped, SidTyped, TaskTyped, CountTyped
<1>3. \A b \in Conns : P(b)' = P(b) /\ OwnersKept(b) /\ (Began(b)' <=> Began(b))
                       /\ \A d \in Dirs : Q(b, d)' = Q(b, d)
  BY <1>1 DEF P, OwnersKept, Began, Started, Q
<1>4. \A b \in Conns : Self(b)'
  BY <1>1, <1>3, LikeSelf
<1>5. Numbers'
  BY <1>1, <1>3, LikeNumber, ConstFacts DEF Numbers, AtClient, SidKept
<1>6. SlotRules' /\ OneOwner'
  BY <1>1, SameRules
<1>. QED  BY <1>2, <1>4, <1>5, <1>6 DEF Inv

LEMMA ClosesKeeps ==
  ASSUME Inv, NEW c \in Conns, NEW e \in Ends, Closes(c, e)
  PROVE  Inv'
<1>1. /\ closed' = [closed EXCEPT ![c] = @ \union {e}]
      /\ env' = env /\ owner' = owner /\ sids' = sids /\ para' = para /\ queue' = queue
      /\ waiting' = waiting /\ slotOf' = slotOf /\ writer' = writer /\ reader' = reader
      /\ count' = count /\ read' = read /\ idx' = idx
  BY DEF Closes
<1>2. closed \in [Conns -> SUBSET Ends]
  BY DEF Inv, Typed, CountTyped
<1>3. Typed'
  <2>1. closed' \in [Conns -> SUBSET Ends]
    BY <1>1, <1>2
  <2>. QED  BY <1>1, <2>1 DEF Inv, Typed, SlotTyped, SidTyped, TaskTyped, CountTyped
<1>4. \A b \in Conns : P(b)' = P(b) /\ OwnersKept(b) /\ (Began(b)' <=> Began(b))
                       /\ \A d \in Dirs : Q(b, d)' = Q(b, d)
  BY <1>1 DEF P, OwnersKept, Began, Started, Q
<1>5. ASSUME NEW b \in Conns
      PROVE  "server" \in closed'[b] => "server" \in closed[b] \/ (Answer(b) => read[b].down > 0)
  <2>1. CASE b # c
    BY <1>1, <1>2, <2>1
  <2>2. CASE b = c /\ e # "server"
    BY <1>1, <1>2, <2>2
  <2>3. CASE b = c /\ e = "server"
    BY <2>3 DEF Closes, Answer
  <2>. QED  BY <2>1, <2>2, <2>3
<1>6. \A b \in Conns : Self(b)'
  BY <1>1, <1>4, <1>5, LikeSelf
<1>7. Numbers'
  BY <1>1, <1>4, LikeNumber, ConstFacts DEF Numbers, AtClient, SidKept
<1>8. SlotRules' /\ OneOwner'
  BY <1>1, SameRules
<1>. QED  BY <1>3, <1>6, <1>7, <1>8 DEF Inv

-----------------------------------------------------------------------------
(* A connection comes.                                                     *)

\* no answers have come to a browser that is not served
LEMMA NoAnswers ==
  ASSUME Inv, AtClient, NEW n \in Flows, ~Started(n)
  PROVE  /\ ~Began(n + N) /\ ~Started(n + N)
         /\ reader[n + N].down.pc = "none" /\ n \notin DOMAIN sids
         /\ writer[n].up.pc = "none"
<1>1. n \in Conns /\ n + N \in Conns /\ n + N > N /\ (n + N) - N = n
  BY ConstFacts
<1>2. Self(n) /\ Self(n + N) /\ Number(n) /\ Typed
  BY <1>1 DEF Inv, Numbers
<1>3. read[n].up = 0
  BY <1>2 DEF Self, Pkts
<1>4. Answered(n + N)
  BY <1>1, <1>2 DEF Self, Answer
<1>5. ~Began(n + N)
  BY <1>1, <1>3, <1>4 DEF Answered
<1>6. reader[n + N].down.pc = "none" /\ writer[n].up.pc = "none"
  BY <1>2, <1>5, ConstFacts, SettingFacts DEF Self, Kind, Began
<1>. QED  BY <1>2, <1>5, <1>6 DEF Number, Began

LEMMA AcceptKeeps ==
  ASSUME Inv, NEW c \in Conns, Accept(c)
  PROVE  Inv'
<1> DEFINE v == ServerOf(c)
<1>1. /\ Comes(c) /\ waiting[v] = 0 /\ owner' = Opened(c, "server")
      /\ waiting' = [waiting EXCEPT ![v] = c]
      /\ env' = env /\ sids' = sids /\ para' = para /\ queue' = queue /\ idx' = idx
      /\ slotOf' = slotOf /\ writer' = writer /\ reader' = reader
      /\ count' = count /\ read' = read /\ closed' = closed
  BY DEF Accept
<1>2. v \in Servers /\ waiting \in [Servers -> Conns \union {0}] /\ Typed /\ SlotTyped
  BY DEF ServerOf, Servers, Inv, Typed, SlotTyped
<1>3. ~Started(c) /\ ~Began(c) /\ Self(c)
  BY <1>1, <1>2 DEF Comes, Started, Began, Inv
<1>4. \A f \in Descriptors, e \in Ends : owner[f] # <<c, e>>
  <2>1. ~HasServer(c) /\ ~HasClient(c) /\ ~HasClient2(c)
    BY <1>2, <1>3, Idle DEF Self, Live
  <2>. QED  BY <1>3, <2>1 DEF Self, Owned, Ends
<1>5. Unused \in Descriptors /\ owner[Unused] = Free
  <2>1. AtClient \/ c \in Flows
    BY <1>1, ConstFacts DEF Comes
  <2>2. <<c, "server">> \in Sockets
    BY <2>1 DEF Sockets, Ends
  <2>3. \A f \in Descriptors : owner[f] # <<c, "server">>
    BY <1>4 DEF Ends
  <2>. QED  BY <2>2, <2>3, Lowest
<1>6. /\ owner' \in [Descriptors -> {Free} \union (Conns \X Ends)]
      /\ owner'[Unused] = <<c, "server">>
      /\ \A f \in Descriptors : f # Unused => owner'[f] = owner[f]
  BY <1>1, <1>2, <1>5, OpenDoes DEF Ends
<1>7. \A b \in Conns, e \in Ends : <<b, e>> # Free
  BY NotFree
<1>8. ASSUME NEW b \in Conns, NEW e \in Ends, <<b, e>> # <<c, "server">>, NEW f \in Descriptors
      PROVE  owner'[f] = <<b, e>> <=> owner[f] = <<b, e>>
  <2>1. CASE f = Unused
    BY <1>5, <1>6, <1>7, <1>8, <2>1
  <2>2. CASE f # Unused
    BY <1>6, <2>2
  <2>. QED  BY <2>1, <2>2
<1>9. \A b \in Conns : b # c => OwnersKept(b)
  BY <1>8 DEF OwnersKept
<1>10. /\ waiting' \in [Servers -> Conns \union {0}] /\ waiting'[v] = c
       /\ \A u \in Servers : u # v => waiting'[u] = waiting[u]
  BY <1>1, <1>2
<1>11. Typed'
  BY <1>1, <1>2, <1>6, <1>10 DEF Typed, SlotTyped, SidTyped, TaskTyped, CountTyped
<1>12. AtClient' <=> AtClient
  BY <1>1 DEF AtClient
<1>13. \A b \in Conns : (Started(b)' <=> Started(b)) /\ P(b)' = P(b) /\ \A d \in Dirs : Q(b, d)' = Q(b, d)
  BY <1>1 DEF Started, P, Q
<1>14. ASSUME NEW b \in Conns, b # c PROVE Began(b)' <=> Began(b)
  <2>1. ServerOf(b) \in Servers /\ b # 0
    BY ConstFacts DEF ServerOf
  <2>2. waiting'[ServerOf(b)] = b <=> waiting[ServerOf(b)] = b
    BY <1>1, <1>10, <1>14, <2>1
  <2>. QED  BY <1>13, <2>2 DEF Began
<1>15. ASSUME NEW b \in Conns, b # c PROVE Self(b)'
  BY <1>1, <1>9, <1>13, <1>14, <1>15, LikeSelf
<1>16. Self(c)'
  <2>1. Began(c)' /\ ~Started(c)' /\ ~Live(c)'
    BY <1>3, <1>10, <1>13 DEF Began, Live
  <2>2. ~HasServer(c)' /\ ~HasClient(c)' /\ ~HasClient2(c)'
    <3>1. ~HasServer(c) /\ ~HasClient(c) /\ ~HasClient2(c)
      BY <1>2, <1>3, Idle DEF Self, Live
    <3>2. Flow(c)' <=> Flow(c)
      BY <1>12 DEF Flow
    <3>. QED  BY <1>1, <1>12, <1>13, <3>1, <3>2 DEF HasServer, HasClient, HasClient2
  <2>3. Kind(c)'
    <3>1. AtClient \/ c <= N
      BY <1>1 DEF Comes
    <3>2. \A d : Has(c, d)' <=> Has(c, d)
      BY <1>12 DEF Has
    <3>. QED  BY <1>1, <1>3, <1>12, <1>13, <3>1, <3>2 DEF Self, Kind
  <2>4. Pkts(c)'
    BY <1>1, <1>3, <1>12, <1>13 DEF Self, Pkts
  <2>5. Owned(c)'
    <3>1. \A f \in Descriptors : owner'[f] # <<c, "client">> /\ owner'[f] # <<c, "client2">>
      BY <1>4, <1>8 DEF Ends
    <3>. QED  BY <2>1, <3>1 DEF Owned
  <2>6. Named(c)'
    BY <2>2 DEF Named
  <2>7. Answer(c)' => Answered(c)'
    <3> SUFFICES ASSUME Answer(c) PROVE Answered(c)'
      BY <1>12 DEF Answer
    <3>1. Answered(c)
      BY <1>3 DEF Self
    <3>2. read[c - N].up > 0
      <4>1. c > N /\ c - N \in Conns
        BY ConstFacts DEF Answer
      <4>2. ~(c <= N)
        BY <4>1, ConstFacts
      <4>3. read[c - N].up > count[c - N].up
        BY <1>1, <4>2 DEF Comes
      <4>4. read[c - N].up \in Nat /\ count[c - N].up \in Nat
        BY <4>1, FirstRead, ConstFacts
      <4>. QED  BY <4>3, <4>4
    <3>. QED  BY <1>1, <3>1, <3>2 DEF Answered
  <2>. QED  BY <2>1, <2>3, <2>4, <2>5, <2>6, <2>7 DEF Self
<1>17. Numbers'
  <2> SUFFICES ASSUME AtClient, NEW n \in Flows PROVE Number(n)'
    BY <1>12 DEF Numbers
  <2>1. CASE n # c
    <3>1. OwnersKept(n) /\ SidKept(n)
      BY <1>1, <1>9, <2>1, ConstFacts DEF SidKept
    <3>. QED  BY <1>1, <1>13, <3>1, LikeNumber, ConstFacts
  <2>2. CASE n = c
    <3>1. reader[n + N].down.pc = "none" /\ n \notin DOMAIN sids /\ writer[n].up.pc = "none"
      BY <1>3, <2>2, NoAnswers
    <3>2. ~Started(n)'
      BY <1>3, <1>13, <2>2
    <3>. QED  BY <1>1, <3>1, <3>2 DEF Number
  <2>. QED  BY <2>1, <2>2
<1>18. SlotRules'
  <2>1. SlotRules
    BY DEF Inv
  <2>2. ASSUME NEW u \in Servers, NEW b \in Conns, waiting'[u] = b
        PROVE  /\ ServerOf(b) = u /\ ~Started(b)'
               /\ \E f \in Descriptors : owner'[f] = <<b, "server">>
    <3>1. CASE u = v
      <4>1. b = c
        BY <1>10, <2>2, <3>1
      <4>. QED  BY <1>3, <1>5, <1>6, <1>13, <3>1, <4>1
    <3>2. CASE u # v
      <4>1. waiting[u] = b /\ b # 0
        BY <1>10, <2>2, <3>2, ConstFacts
      <4>2. ServerOf(b) = u /\ ~Started(b) /\ \E f \in Descriptors : owner[f] = <<b, "server">>
        BY <2>1, <4>1 DEF SlotRules
      <4>3. OwnersKept(b)
        BY <1>9, <3>2, <4>2
      <4>. QED  BY <1>13, <4>2, <4>3 DEF OwnersKept, Ends
    <3>. QED  BY <3>1, <3>2
  <2>3. \A b \in Conns : (Gone(b)' <=> Gone(b)) /\ (Holds(b)' <=> Holds(b))
    BY <1>1 DEF Gone, Holds, Returner, AtClient
  <2>4. \A a, b \in Conns : a # b /\ Started(a)' /\ slotOf'[a] = slotOf'[b] => Gone(a)' \/ Gone(b)'
    BY <1>1, <1>13, <2>1, <2>3 DEF SlotRules
  <2>5. \A s \in Slots : para'[s].usedflag = 1 => \E b \in Conns : slotOf'[b] = s /\ Holds(b)'
    BY <1>1, <2>1, <2>3 DEF SlotRules
  <2>6. ASSUME NEW u \in Servers, waiting'[u] # 0
        PROVE  (ServerOf(waiting[u]) = u /\ ~Started(waiting[u])
                /\ \E f \in Descriptors : owner[f] = <<waiting[u], "server">>)'
    <3>1. PICK b \in Conns : waiting'[u] = b
      BY <1>10, <2>6
    <3>2. ServerOf(b) = u /\ ~Started(b)' /\ \E f \in Descriptors : owner'[f] = <<b, "server">>
      BY <2>2, <3>1
    <3>. QED  BY <3>1, <3>2 DEF ServerOf, Started
  <2>. QED  BY <2>4, <2>5, <2>6 DEF SlotRules
<1>19. OneOwner'
  <2> SUFFICES ASSUME NEW f \in Descriptors, NEW g \in Descriptors, owner'[f] = owner'[g],
                      owner'[f] # Free, f # g
               PROVE  FALSE
    BY DEF OneOwner
  <2>1. OneOwner
    BY DEF Inv
  <2>2. \A h \in Descriptors : owner[h] # <<c, "server">>
    BY <1>4 DEF Ends
  <2>3. CASE f # Unused /\ g # Unused
    BY <1>6, <2>1, <2>3 DEF OneOwner
  <2>4. CASE f = Unused
    BY <1>6, <2>2, <2>4
  <2>5. CASE g = Unused
    BY <1>6, <2>2, <2>5
  <2>. QED  BY <2>3, <2>4, <2>5
<1>. QED  BY <1>11, <1>15, <1>16, <1>17, <1>18, <1>19 DEF Inv

-----------------------------------------------------------------------------
(* A connection gets its slot.                                             *)

\* Fill(v) for connection c, slot s and the socket f of the connection
Fills(v, c, s, f) ==
  /\ waiting[v] = c
  /\ \A b \in Conns : slotOf[b] = s => Gone(b)
  /\ owner[f] = <<c, "server">>
  /\ para' = [para EXCEPT ![s] =
       [Empty EXCEPT !.usedflag = 1, !.server = f, !.client = Unset, !.client2 = Unset,
                     !.exitFlag = IF AtClient THEN {} ELSE para[s].exitFlag]]
  /\ queue' = [queue EXCEPT ![s] = [d \in Dirs |-> IF Has(c, d) THEN "open" ELSE @[d]]]
  /\ slotOf' = [slotOf EXCEPT ![c] = s]
  /\ writer' = [writer EXCEPT ![c] = [d \in Dirs |->
       IF ~Has(c, d) THEN @[d] ELSE [@[d] EXCEPT !.pc = IF AtClient /\ d = "up" THEN "insert" ELSE "run"]]]
  /\ reader' = [reader EXCEPT ![c] = [d \in Dirs |->
       IF Has(c, d) THEN [@[d] EXCEPT !.pc = "run"] ELSE @[d]]]
  /\ waiting' = [waiting EXCEPT ![v] = 0]
  /\ idx' = [idx EXCEPT ![v] = (@ + 1) % NSlots]
  /\ env' = env /\ owner' = owner /\ sids' = sids
  /\ count' = count /\ read' = read /\ closed' = closed

LEMMA FillIs ==
  ASSUME Inv, Held, Sound, NEW v \in Servers, Fill(v)
  PROVE  \E c \in Conns, s \in Slots, f \in Descriptors : Fills(v, c, s, f)
<1>1. Typed /\ SlotRules
  BY DEF Inv
<1>2. waiting[v] \in Conns /\ <<v, idx[v]>> \in Slots
  BY <1>1 DEF Fill, Typed, SlotTyped, Slots
<1>3. \E f \in Descriptors : owner[f] = <<waiting[v], "server">>
  BY <1>1, <1>2, ConstFacts DEF SlotRules
<1> DEFINE s == <<v, idx[v]>>
<1>4. PICK f \in Accepted(waiting[v]) : para' = [para EXCEPT ![s] =
        [Empty EXCEPT !.usedflag = 1, !.server = f, !.client = Unset, !.client2 = Unset,
                      !.exitFlag = IF AtClient THEN {} ELSE para[s].exitFlag]]
  BY DEF Fill
<1>5. f \in Descriptors /\ owner[f] = <<waiting[v], "server">>
  BY <1>3, <1>4 DEF Accepted
<1>6. \A b \in Conns : slotOf[b] = s => Gone(b)
  <2>1. CASE ~AtClient
    BY <2>1 DEF Sound, Fill
  <2>2. CASE AtClient
    <3> SUFFICES ASSUME NEW b \in Conns, slotOf[b] = s, ~Gone(b) PROVE FALSE
      OBVIOUS
    <3>1. Live(b)
      BY <1>2, ConstFacts DEF Live, Started
    <3>2. para[s].usedflag = 1
      BY <2>2, <3>1 DEF Held, Keeps, P
    <3>. QED  BY <3>2 DEF Fill
  <2>. QED  BY <2>1, <2>2
<1>7. Fills(v, waiting[v], s, f)
  BY <1>4, <1>5, <1>6 DEF Fill, Fills
<1> HIDE DEF s
<1>. QED  BY <1>2, <1>5, <1>7 DEF s

\* what the step does, one value at a time
FillDone(v, c, s, f) ==
  /\ ~Started(c) /\ Began(c) /\ ServerOf(c) = v
  /\ para'[s].usedflag = 1 /\ para'[s].server = f /\ para'[s].client = Unset
  /\ para'[s].client2 = Unset /\ para'[s].closewaiting = 0
  /\ \A t \in Slots : t # s => para'[t] = para[t] /\ queue'[t] = queue[t]
  /\ slotOf'[c] = s
  /\ \A d \in Dirs :
       /\ writer[c][d].pc = "none" /\ reader[c][d].pc = "none" /\ read[c][d] = 0 /\ count[c][d] = 0
       /\ writer'[c][d].first = writer[c][d].first
       /\ reader'[c][d].pktid = reader[c][d].pktid
       /\ Has(c, d) => /\ writer'[c][d].pc = (IF AtClient /\ d = "up" THEN "insert" ELSE "run")
                       /\ reader'[c][d].pc = "run" /\ queue'[s][d] = "open"
       /\ ~Has(c, d) => writer'[c][d].pc = "none" /\ reader'[c][d].pc = "none"
  /\ \A b \in Conns : b # c => writer'[b] = writer[b] /\ reader'[b] = reader[b] /\ slotOf'[b] = slotOf[b]
  /\ \A u \in Servers : u # v => waiting'[u] = waiting[u]
  /\ waiting'[v] = 0

\* a slot that is taken is cleared first
Cleared(f, g) ==
  [Empty EXCEPT !.usedflag = 1, !.server = f, !.client = Unset, !.client2 = Unset, !.exitFlag = g]

LEMMA ClearSlot ==
  ASSUME NEW f \in Descriptors, NEW g \in SUBSET Dirs
  PROVE  /\ Cleared(f, g) \in SlotRecord /\ Cleared(f, g).usedflag = 1
         /\ Cleared(f, g).server = f /\ Cleared(f, g).client = Unset
         /\ Cleared(f, g).client2 = Unset /\ Cleared(f, g).closewaiting = 0
<1> DEFINE r == Cleared(f, g)
           r1 == [Empty EXCEPT !.usedflag = 1]
           r2 == [r1 EXCEPT !.server = f]
           r3 == [r2 EXCEPT !.client = Unset]
           r4 == [r3 EXCEPT !.client2 = Unset]
<1>1. Empty \in SlotRecord
  BY DEF Empty, SlotRecord, Sids
<1>2. Unset \in Sids /\ f \in Descriptors \union {NoSid, 0}
  BY DEF Sids
<1>3. /\ r = [r4 EXCEPT !.exitFlag = g] /\ r.usedflag = 1 /\ r.server = f /\ r.client = Unset
      /\ r.client2 = Unset /\ r.closewaiting = 0
  BY DEF Empty, Cleared
<1> HIDE DEF r
<1>4. r1 \in SlotRecord
  BY <1>1 DEF SlotRecord
<1> HIDE DEF r1
<1>5. r2 \in SlotRecord
  BY <1>2, <1>4 DEF SlotRecord
<1> HIDE DEF r2
<1>6. r3 \in SlotRecord
  BY <1>2, <1>5 DEF SlotRecord
<1> HIDE DEF r3
<1>7. r4 \in SlotRecord
  BY <1>2, <1>6 DEF SlotRecord
<1> HIDE DEF r4
<1>8. r \in SlotRecord
  BY <1>3, <1>7 DEF SlotRecord
<1>. QED  BY <1>3, <1>8 DEF r

LEMMA FillDoes ==
  ASSUME Inv, NEW v \in Servers, NEW c \in Conns, NEW s \in Slots, NEW f \in Descriptors,
         Fills(v, c, s, f)
  PROVE  FillDone(v, c, s, f) /\ Typed'
<1>1. SlotTyped /\ TaskTyped /\ SlotRules /\ Self(c) /\ Typed
  BY DEF Inv, Typed
<1>2. ~Started(c) /\ Began(c) /\ ServerOf(c) = v
  BY <1>1, ConstFacts DEF Fills, SlotRules, Began
<1>3. \A d \in Dirs : /\ writer[c][d].pc = "none" /\ reader[c][d].pc = "none"
                      /\ read[c][d] = 0 /\ count[c][d] = 0
  <2> SUFFICES ASSUME NEW d \in Dirs
               PROVE  /\ writer[c][d].pc = "none" /\ reader[c][d].pc = "none"
                      /\ read[c][d] = 0 /\ count[c][d] = 0
    OBVIOUS
  <2>1. read[c][d] = 0 /\ count[c][d] <= read[c][d]
    BY <1>1, <1>2 DEF Self, Pkts, Dirs
  <2>2. writer[c][d].pc = "none" /\ reader[c][d].pc = "none"
    BY <1>1, <1>2, SettingFacts DEF Self, Kind
  <2>. QED  BY <2>1, <2>2, FirstRead
<1>4. /\ para' \in [Slots -> SlotRecord]
      /\ para'[s].usedflag = 1 /\ para'[s].server = f /\ para'[s].client = Unset
      /\ para'[s].client2 = Unset /\ para'[s].closewaiting = 0
      /\ \A t \in Slots : t # s => para'[t] = para[t]
  <2> DEFINE g == IF AtClient THEN {} ELSE para[s].exitFlag
             r == Cleared(f, g)
  <2>1. para \in [Slots -> SlotRecord] /\ g \in SUBSET Dirs
    BY <1>1 DEF SlotTyped, SlotRecord
  <2>2. para' = [para EXCEPT ![s] = r]
    BY DEF Fills, Cleared
  <2> HIDE DEF g
  <2>3. r \in SlotRecord /\ r.usedflag = 1 /\ r.server = f /\ r.client = Unset
        /\ r.client2 = Unset /\ r.closewaiting = 0
    BY <2>1, ClearSlot
  <2> HIDE DEF r
  <2>. QED  BY <2>1, <2>2, <2>3
<1>5. /\ queue' \in [Slots -> [Dirs -> QueueStates]]
      /\ \A t \in Slots : t # s => queue'[t] = queue[t]
      /\ \A d \in Dirs : Has(c, d) => queue'[s][d] = "open"
  <2> DEFINE q == [d \in Dirs |-> IF Has(c, d) THEN "open" ELSE queue[s][d]]
  <2>1. queue \in [Slots -> [Dirs -> QueueStates]]
    BY <1>1 DEF SlotTyped
  <2>2. queue' = [queue EXCEPT ![s] = q]
    BY DEF Fills
  <2>3. q \in [Dirs -> QueueStates] /\ \A d \in Dirs : Has(c, d) => q[d] = "open"
    BY <2>1 DEF QueueStates
  <2> HIDE DEF q
  <2>. QED  BY <2>1, <2>2, <2>3
<1>6. /\ writer' \in [Conns -> [Dirs -> [pc : WriterLabels, first : 0..1]]]
      /\ \A b \in Conns : b # c => writer'[b] = writer[b]
      /\ \A d \in Dirs :
           /\ writer'[c][d].first = writer[c][d].first
           /\ Has(c, d) => writer'[c][d].pc = (IF AtClient /\ d = "up" THEN "insert" ELSE "run")
           /\ ~Has(c, d) => writer'[c][d] = writer[c][d]
  <2> DEFINE T == [pc : WriterLabels, first : 0..1]
             l(d) == IF AtClient /\ d = "up" THEN "insert" ELSE "run"
             x(d) == IF ~Has(c, d) THEN writer[c][d] ELSE [writer[c][d] EXCEPT !.pc = l(d)]
             w == [d \in Dirs |-> x(d)]
  <2>1. writer \in [Conns -> [Dirs -> T]]
    BY <1>1 DEF TaskTyped
  <2>2. writer' = [writer EXCEPT ![c] = w]
    BY DEF Fills
  <2>3. ASSUME NEW d \in Dirs
        PROVE  /\ x(d) \in T /\ x(d).first = writer[c][d].first
               /\ Has(c, d) => x(d).pc = l(d)
               /\ ~Has(c, d) => x(d) = writer[c][d]
    <3>1. writer[c][d] \in T /\ l(d) \in WriterLabels
      BY <2>1 DEF WriterLabels
    <3>. QED  BY <3>1
  <2> HIDE DEF x, l, T
  <2>4. w \in [Dirs -> T] /\ \A d \in Dirs : w[d] = x(d)
    BY <2>3
  <2> HIDE DEF w
  <2>5. writer' \in [Conns -> [Dirs -> T]] /\ writer'[c] = w
        /\ \A b \in Conns : b # c => writer'[b] = writer[b]
    BY <2>1, <2>2, <2>4
  <2>6. \A d \in Dirs : writer'[c][d] = x(d)
    BY <2>4, <2>5
  <2>7. ASSUME NEW d \in Dirs
        PROVE  /\ writer'[c][d].first = writer[c][d].first
               /\ Has(c, d) => writer'[c][d].pc = l(d)
               /\ ~Has(c, d) => writer'[c][d] = writer[c][d]
    <3>1. writer'[c][d] = x(d)
      BY <2>6
    <3>. QED  BY <2>3, <3>1
  <2>8. writer' \in [Conns -> [Dirs -> [pc : WriterLabels, first : 0..1]]]
    BY <2>5 DEF T
  <2>. QED  BY <2>5, <2>7, <2>8 DEF l
<1>7. /\ reader' \in [Conns -> [Dirs -> [pc : ReaderLabels, pktid : Flows \union {0}, tries : 0..MaxTries]]]
      /\ \A b \in Conns : b # c => reader'[b] = reader[b]
      /\ \A d \in Dirs :
           /\ reader'[c][d].pktid = reader[c][d].pktid
           /\ Has(c, d) => reader'[c][d].pc = "run"
           /\ ~Has(c, d) => reader'[c][d] = reader[c][d]
  <2> DEFINE T == [pc : ReaderLabels, pktid : Flows \union {0}, tries : 0..MaxTries]
             x(d) == IF Has(c, d) THEN [reader[c][d] EXCEPT !.pc = "run"] ELSE reader[c][d]
             w == [d \in Dirs |-> x(d)]
  <2>1. reader \in [Conns -> [Dirs -> T]]
    BY <1>1 DEF TaskTyped
  <2>2. reader' = [reader EXCEPT ![c] = w]
    BY DEF Fills
  <2>3. ASSUME NEW d \in Dirs
        PROVE  /\ x(d) \in T /\ x(d).pktid = reader[c][d].pktid
               /\ Has(c, d) => x(d).pc = "run"
               /\ ~Has(c, d) => x(d) = reader[c][d]
    <3>1. reader[c][d] \in T /\ "run" \in ReaderLabels
      BY <2>1 DEF ReaderLabels
    <3>. QED  BY <3>1
  <2> HIDE DEF x, T
  <2>4. w \in [Dirs -> T] /\ \A d \in Dirs : w[d] = x(d)
    BY <2>3
  <2> HIDE DEF w
  <2>5. reader' \in [Conns -> [Dirs -> T]] /\ reader'[c] = w
        /\ \A b \in Conns : b # c => reader'[b] = reader[b]
    BY <2>1, <2>2, <2>4
  <2>6. \A d \in Dirs : reader'[c][d] = x(d)
    BY <2>4, <2>5
  <2>7. ASSUME NEW d \in Dirs
        PROVE  /\ reader'[c][d].pktid = reader[c][d].pktid
               /\ Has(c, d) => reader'[c][d].pc = "run"
               /\ ~Has(c, d) => reader'[c][d] = reader[c][d]
    <3>1. reader'[c][d] = x(d)
      BY <2>6
    <3>. QED  BY <2>3, <3>1
  <2>8. reader' \in [Conns -> [Dirs -> [pc : ReaderLabels, pktid : Flows \union {0}, tries : 0..MaxTries]]]
    BY <2>5 DEF T
  <2>. QED  BY <2>5, <2>7, <2>8
<1>8. /\ slotOf' \in [Conns -> Slots \union {NoSlot}] /\ slotOf'[c] = s
      /\ \A b \in Conns : b # c => slotOf'[b] = slotOf[b]
      /\ waiting' \in [Servers -> Conns \union {0}] /\ waiting'[v] = 0
      /\ \A u \in Servers : u # v => waiting'[u] = waiting[u]
  BY <1>1 DEF Fills, SlotTyped
<1>9. idx' \in [Servers -> 0..(NSlots - 1)]
  BY <1>1, ConstFacts DEF Fills, SlotTyped
<1>10. Typed'
  <2>1. env' = env /\ owner' = owner /\ sids' = sids /\ count' = count /\ read' = read /\ closed' = closed
    BY DEF Fills
  <2>2. SlotTyped'
    BY <1>1, <1>4, <1>5, <1>8, <1>9, <2>1 DEF SlotTyped
  <2>3. TaskTyped'
    BY <1>6, <1>7 DEF TaskTyped
  <2>4. SidTyped' /\ CountTyped'
    BY <1>1, <2>1 DEF Typed, SidTyped, CountTyped
  <2>. QED  BY <2>2, <2>3, <2>4 DEF Typed
<1>11. FillDone(v, c, s, f)
  BY <1>2, <1>3, <1>4, <1>5, <1>6, <1>7, <1>8 DEF FillDone
<1>. QED  BY <1>10, <1>11

LEMMA FillSelf ==
  ASSUME Inv, NEW v \in Servers, NEW c \in Conns, NEW s \in Slots, NEW f \in Descriptors,
         Fills(v, c, s, f), FillDone(v, c, s, f)
  PROVE  Self(c)'
<1>1. /\ env' = env /\ owner' = owner /\ sids' = sids
      /\ count' = count /\ read' = read /\ closed' = closed
      /\ owner[f] = <<c, "server">>
  BY DEF Fills
<1>2. /\ ~Started(c) /\ Began(c) /\ slotOf'[c] = s
      /\ \A d \in Dirs :
           /\ writer[c][d].pc = "none" /\ reader[c][d].pc = "none" /\ read[c][d] = 0 /\ count[c][d] = 0
           /\ writer'[c][d].first = writer[c][d].first
           /\ reader'[c][d].pktid = reader[c][d].pktid
           /\ Has(c, d) => /\ writer'[c][d].pc = (IF AtClient /\ d = "up" THEN "insert" ELSE "run")
                           /\ reader'[c][d].pc = "run" /\ queue'[s][d] = "open"
           /\ ~Has(c, d) => writer'[c][d].pc = "none" /\ reader'[c][d].pc = "none"
      /\ para'[s].server = f /\ para'[s].client = Unset
      /\ para'[s].client2 = Unset /\ para'[s].closewaiting = 0
  BY DEF FillDone
<1>3. Self(c) /\ Typed /\ OneOwner
  BY DEF Inv
<1>4. Started(c)' /\ Began(c)'
  BY <1>2, ConstFacts DEF Started, Began
<1>5. AtClient' <=> AtClient
  BY <1>1 DEF AtClient
<1>6. /\ Flow(c)' <=> Flow(c)
      /\ Answer(c)' <=> Answer(c)
      /\ \A d : Has(c, d)' <=> Has(c, d)
  BY <1>5 DEF Flow, Answer, Has
<1>7. P(c)' = para'[s] /\ \A d \in Dirs : Q(c, d)' = queue'[s][d]
  BY <1>2 DEF P, Q
<1>8. AtClient \/ c <= N
  BY <1>2, <1>3 DEF Self, Kind
<1>9. Kind(c)'
  <2>1. \A d \in Dirs : /\ Has(c, d) <=> writer'[c][d].pc # "none"
                        /\ writer'[c][d].pc = "none" <=> reader'[c][d].pc = "none"
    BY <1>2, SettingFacts, <1>3
  <2>2. /\ writer'[c].up.pc \in {"none", "insert", "run"} /\ writer'[c].down.pc \in {"none", "run"}
        /\ reader'[c].up.pc \in {"none", "run"} /\ reader'[c].down.pc \in {"none", "run"}
        /\ writer'[c].up.pc = "insert" => AtClient
    BY <1>2, <1>3, SettingFacts DEF Dirs
  <2>. QED  BY <1>4, <1>5, <1>6, <1>8, <2>1, <2>2 DEF Kind
<1>10. Pkts(c)'
  <2>1. \A d \in Dirs : /\ count'[c][d] <= read'[c][d]
                        /\ reader'[c][d].pc # "send"
                        /\ writer'[c][d].first = 1 <=> read'[c][d] = 0
    <3>1. \A d \in Dirs : writer[c][d].first = 1
      BY <1>2, FirstRead
    <3>2. \A d \in Dirs : reader'[c][d].pc # "send"
      BY <1>2
    <3>3. \A d \in Dirs : read'[c][d] = 0 /\ count'[c][d] = 0
      BY <1>1, <1>2
    <3>. QED  BY <1>2, <3>1, <3>2, <3>3
  <2>2. writer'[c].up.pc \in {"none", "insert", "run"} /\ read'[c].up = 0
    BY <1>1, <1>2 DEF Dirs
  <2>. QED  BY <1>4, <1>5, <2>1, <2>2 DEF Pkts
<1>11. ~HasClient2(c) /\ ~HasClient(c)
  BY <1>2, <1>3, Idle DEF Self, Live
<1>12. \A g \in Descriptors : /\ owner'[g] # <<c, "client">> /\ owner'[g] # <<c, "client2">>
                              /\ owner'[g] = <<c, "server">> => g = f
  <2>1. <<c, "server">> # Free
    BY NotFree DEF Ends
  <2>. QED  BY <1>1, <1>3, <1>11, <2>1 DEF Self, Owned, OneOwner
<1>13. Started(c)' /\ ~Flow(c)' => HasServer(c)'
  <2> SUFFICES ASSUME ~Flow(c) PROVE HasServer(c)'
    BY <1>6
  <2>1. CASE AtClient
    <3>1. Has(c, "down")
      BY <2>1, ConstFacts DEF Has, ServerOf, Flow
    <3>2. writer'[c].down.pc = "run"
      BY <1>2, <3>1, ConstFacts
    <3>. QED  BY <1>4, <1>5, <1>6, <2>1, <3>2 DEF HasServer
  <2>2. CASE ~AtClient
    <3>1. Has(c, "up")
      BY <1>8, <2>2 DEF Has
    <3>2. writer'[c].up.pc = "run"
      BY <1>2, <2>2, <3>1, ConstFacts
    <3>. QED  BY <1>4, <1>5, <1>6, <2>2, <3>2 DEF HasServer
  <2>. QED  BY <2>1, <2>2
<1>14. Owned(c)'
  BY <1>2, <1>4, <1>7, <1>12, <1>13 DEF Owned
<1>15. Named(c)'
  <2>1. ~(Unset >= 0)
    BY DEF Unset
  <2>. QED  BY <1>1, <1>2, <1>7, <2>1 DEF Named, Owns
<1>16. Answer(c)' => Answered(c)'
  <2> SUFFICES ASSUME Answer(c) PROVE Answered(c)'
    BY <1>6
  <2>1. Answered(c)
    BY <1>3 DEF Self
  <2>2. /\ writer'[c].down.pc \in {"none", "run"} /\ reader'[c].down.pc \in {"none", "run"}
        /\ reader'[c].down.pktid = 0 /\ count'[c].down = read'[c].down
        /\ "server" \notin closed'[c]
    <3>1. writer'[c].down.pc \in {"none", "run"} /\ reader'[c].down.pc \in {"none", "run"}
      BY <1>2, <1>3, ConstFacts, SettingFacts
    <3>2. reader'[c].down.pktid = 0
      BY <1>2, <2>1, ConstFacts DEF Answered
    <3>3. count'[c].down = read'[c].down /\ ~(read[c].down > 0)
      BY <1>1, <1>2, ConstFacts
    <3>4. "server" \notin closed'[c]
      BY <1>1, <2>1, <3>3 DEF Answered
    <3>. QED  BY <3>1, <3>2, <3>3, <3>4
  <2>3. read'[c - N].up > 0
    BY <1>1, <1>2, <2>1 DEF Answered
  <2>. QED  BY <2>2, <2>3 DEF Answered
<1>17. Signs(c)'
  <2>1. \A d \in Dirs : writer'[c][d].pc # "none" => Q(c, d)' = "open"
    BY <1>2, <1>3, <1>7, SettingFacts
  <2>2. writer'[c].down.pc \in {"none", "run"} /\ P(c)'.closewaiting = 0 /\ P(c)'.server \in Descriptors
    BY <1>2, <1>3, <1>7, ConstFacts, SettingFacts
  <2>. QED  BY <2>1, <2>2 DEF Signs
<1>. QED  BY <1>9, <1>10, <1>14, <1>15, <1>16, <1>17 DEF Self

LEMMA FillKeeps ==
  ASSUME Inv, Held, Sound, NEW v \in Servers, Fill(v)
  PROVE  Inv'
<1>1. PICK c \in Conns, s \in Slots, f \in Descriptors : Fills(v, c, s, f)
  BY FillIs
<1>2. FillDone(v, c, s, f) /\ Typed'
  BY <1>1, FillDoes
<1>3. /\ env' = env /\ owner' = owner /\ sids' = sids
      /\ count' = count /\ read' = read /\ closed' = closed
      /\ \A b \in Conns : slotOf[b] = s => Gone(b)
  BY <1>1 DEF Fills
<1>4. /\ ~Started(c) /\ Began(c) /\ ServerOf(c) = v
      /\ slotOf'[c] = s
      /\ \A t \in Slots : t # s => para'[t] = para[t] /\ queue'[t] = queue[t]
      /\ \A b \in Conns : b # c => writer'[b] = writer[b] /\ reader'[b] = reader[b] /\ slotOf'[b] = slotOf[b]
      /\ \A u \in Servers : u # v => waiting'[u] = waiting[u]
      /\ waiting'[v] = 0
  BY <1>2 DEF FillDone
<1>5. Typed /\ SlotRules /\ OneOwner /\ waiting \in [Servers -> Conns \union {0}]
  BY DEF Inv, Typed, SlotTyped
<1>6. AtClient' <=> AtClient
  BY <1>3 DEF AtClient
<1>7. \A b \in Conns : OwnersKept(b)
  BY <1>3 DEF OwnersKept
<1>8. ASSUME NEW b \in Conns, b # c PROVE Began(b)' <=> Began(b)
  <2>1. Started(b)' <=> Started(b)
    BY <1>4, <1>8 DEF Started
  <2>2. waiting'[ServerOf(b)] = b <=> waiting[ServerOf(b)] = b
    <3>1. waiting[v] = c
      BY <1>1 DEF Fills
    <3>2. ServerOf(b) \in Servers /\ b # 0
      BY ConstFacts DEF ServerOf
    <3>. QED  BY <1>4, <1>8, <3>1, <3>2
  <2>. QED  BY <2>1, <2>2 DEF Began
<1>9. ASSUME NEW b \in Conns, b # c, Live(b) PROVE P(b)' = P(b) /\ \A d \in Dirs : Q(b, d)' = Q(b, d)
  <2>1. slotOf[b] # s /\ slotOf[b] \in Slots
    BY <1>3, <1>5, <1>9, LiveSlot DEF Live
  <2>. QED  BY <1>4, <1>9, <2>1 DEF P, Q
<1>10. ASSUME NEW b \in Conns, b # c PROVE Self(b)'
  BY <1>3, <1>4, <1>7, <1>8, <1>9, <1>10, LikeSelf
<1>11. Self(c)'
  BY <1>1, <1>2, FillSelf
<1>12. Numbers'
  <2> SUFFICES ASSUME AtClient, NEW n \in Flows PROVE Number(n)'
    BY <1>6 DEF Numbers
  <2>1. n \in Conns /\ n + N \in Conns /\ n + N # n
    BY ConstFacts
  <2>2. Number(n) /\ Self(n) /\ Self(n + N)
    BY <2>1 DEF Inv, Numbers
  <2>3. SidKept(n) /\ OwnersKept(n)
    BY <1>3, <1>7, <2>1 DEF SidKept
  <2>4. CASE n # c /\ n + N # c
    BY <1>4, <1>9, <2>1, <2>3, <2>4, LikeNumber
  <2>5. CASE n = c
    <3>1. reader'[n + N].down.pc = "none" /\ n \notin DOMAIN sids'
      BY <1>3, <1>4, <2>1, <2>5, NoAnswers
    <3>2. writer'[n].up.pc = "insert" /\ P(n)'.server = f
      <4>1. Has(n, "up")
        BY <2>5, ConstFacts DEF Has, ServerOf
      <4>2. writer'[n].up.pc = "insert"
        BY <1>2, <2>5, <4>1, ConstFacts DEF FillDone
      <4>3. P(n)'.server = f
        BY <1>2, <2>5 DEF FillDone, P
      <4>. QED  BY <4>2, <4>3
    <3>3. Owns(n, "server", f)'
      BY <1>1, <1>3, <2>5 DEF Fills, Owns
    <3>. QED  BY <3>1, <3>2, <3>3 DEF Number
  <2>6. CASE n + N = c
    <3>1. reader[n + N].down.pc = "none" /\ reader'[n + N].down.pc = "run"
          /\ reader'[n + N].down.pktid = 0
      <4>1. Has(c, "down") /\ Answer(c)
        BY <2>6, ConstFacts DEF Has, ServerOf, Answer
      <4>2. Answered(c)
        BY <2>2, <2>6, <4>1 DEF Self
      <4>. QED  BY <1>2, <2>6, <4>1, <4>2, ConstFacts DEF FillDone, Answered
    <3>2. writer'[n] = writer[n] /\ slotOf'[n] = slotOf[n]
      BY <1>4, <2>1, <2>6
    <3>3. writer[n].up.pc \in {"insert", "run", "recv", "end"} => P(n)'.server = P(n).server
      BY <1>5, <1>9, <2>1, <2>2, <2>6, RunsLive, ConstFacts DEF Self
    <3>4. \A g : Owns(n, "server", g)' <=> Owns(n, "server", g)
      BY <1>3 DEF Owns
    <3>5. Started(n)' <=> Started(n)
      BY <3>2 DEF Started
    <3>. QED  BY <1>3, <2>2, <3>1, <3>2, <3>3, <3>4, <3>5 DEF Number
  <2>. QED  BY <2>4, <2>5, <2>6
<1>13. SlotRules'
  <2>1. ASSUME NEW b \in Conns, b # c
        PROVE  (Gone(b)' <=> Gone(b)) /\ (Holds(b)' <=> Holds(b)) /\ (Started(b)' <=> Started(b))
    BY <1>3, <1>4, <2>1 DEF Gone, Holds, Returner, AtClient, Started
  <2>2. ASSUME NEW u \in Servers, waiting'[u] # 0
        PROVE  (ServerOf(waiting[u]) = u /\ ~Started(waiting[u])
                /\ \E g \in Descriptors : owner[g] = <<waiting[u], "server">>)'
    <3>1. u # v /\ waiting'[u] = waiting[u] /\ waiting[u] \in Conns
      BY <1>4, <1>5, <2>2
    <3>2. PICK b \in Conns : waiting[u] = b
      BY <3>1
    <3>3. ServerOf(b) = u /\ ~Started(b) /\ \E g \in Descriptors : owner[g] = <<b, "server">>
      BY <1>5, <2>2, <3>1, <3>2 DEF SlotRules
    <3>4. b # c
      BY <1>4, <3>1, <3>3
    <3>5. ServerOf(b) = u /\ ~Started(b)' /\ \E g \in Descriptors : owner'[g] = <<b, "server">>
      BY <1>3, <2>1, <3>3, <3>4
    <3>6. waiting'[u] = b
      BY <3>1, <3>2
    <3>. QED  BY <3>5, <3>6 DEF ServerOf, Started
  <2>3. ASSUME NEW a \in Conns, NEW b \in Conns, a # b, Started(a)', slotOf'[a] = slotOf'[b]
        PROVE  Gone(a)' \/ Gone(b)'
    <3>1. CASE a = c
      BY <1>3, <1>4, <2>1, <2>3, <3>1
    <3>2. CASE b = c
      BY <1>3, <1>4, <2>1, <2>3, <3>2
    <3>3. CASE a # c /\ b # c
      BY <1>4, <1>5, <2>1, <2>3, <3>3 DEF SlotRules
    <3>. QED  BY <3>1, <3>2, <3>3
  <2>4. ASSUME NEW t \in Slots, para'[t].usedflag = 1
        PROVE  \E b \in Conns : slotOf'[b] = t /\ Holds(b)'
    <3>1. CASE t = s
      <4>1. Returner(c) \in Dirs /\ Has(c, Returner(c)) /\ Returner(c)' = Returner(c)
        <5>1. AtClient \/ c <= N
          BY <1>4 DEF Inv, Self, Kind
        <5>. QED  BY <1>6, <5>1, ConstFacts DEF Returner, Has, ServerOf
      <4>2. reader'[c][Returner(c)].pc = "run"
        BY <1>2, <4>1 DEF FillDone
      <4>3. Holds(c)'
        BY <4>1, <4>2 DEF Holds
      <4>. QED  BY <1>4, <3>1, <4>3
    <3>2. CASE t # s
      <4>1. PICK b \in Conns : slotOf[b] = t /\ Holds(b)
        BY <1>4, <1>5, <2>4, <3>2 DEF SlotRules
      <4>2. b # c
        BY <1>4, <4>1, ConstFacts DEF Started
      <4>. QED  BY <1>4, <2>1, <4>1, <4>2
    <3>. QED  BY <3>1, <3>2
  <2>. QED  BY <2>2, <2>3, <2>4 DEF SlotRules
<1>14. OneOwner'
  BY <1>3, <1>5 DEF OneOwner
<1>. QED  BY <1>2, <1>10, <1>11, <1>12, <1>13, <1>14 DEF Inv

-----------------------------------------------------------------------------
(* The theorems.                                                           *)

LEMMA WriterKeeps ==
  ASSUME Inv, NEW c \in Conns, NEW d \in Dirs, Writer(c, d)
  PROVE  Inv'
<1>1. CASE Insert(c)
  BY <1>1, InsertKeeps
<1>2. CASE ReadStep(c, d)
  BY <1>2, ReadKeeps
<1>3. CASE WriterClose(c, d)
  <2>1. d = "up" \/ d = "down"
    BY DEF Dirs
  <2>2. CASE AtClient /\ d = "up"
    BY <1>3, <2>2, CloseBrowser
  <2>3. CASE (AtClient /\ d = "down") \/ (~AtClient /\ d = "up")
    BY <1>3, <2>3, CloseServer
  <2>4. CASE ~AtClient /\ d = "down"
    BY <1>3, <2>4, CloseOrigin
  <2>. QED  BY <2>1, <2>2, <2>3, <2>4
<1>4. CASE WriterFlag(c, d)
  BY <1>4, FlagKeeps
<1>. QED  BY <1>1, <1>2, <1>3, <1>4 DEF Writer, ReadStep

LEMMA ReaderKeeps ==
  ASSUME Inv, NEW c \in Conns, NEW d \in Dirs, Reader(c, d)
  PROVE  Inv'
<1>1. CASE d = "down" /\ TakeAnswer(c)
  <2>1. CASE reader[c].down.pktid = 0
    BY <1>1, <2>1, AnswerKeeps
  <2>2. CASE reader[c].down.pktid # 0
    BY <1>1, <2>2, SendKeeps DEF SendStep
  <2>. QED  BY <2>1, <2>2
<1>2. CASE d = "down" /\ Delete(c)
  BY <1>2, DeleteKeeps
<1>3. CASE Take(c, d)
  <2>1. CASE P(c)[Target(c, d)] >= 0
    BY <1>3, <2>1, SendKeeps DEF SendStep
  <2>2. CASE ~(P(c)[Target(c, d)] >= 0)
    BY <1>3, <2>2, TakeKeeps
  <2>. QED  BY <2>1, <2>2
<1>4. CASE Send(c, d) \/ Leave(c, d)
  BY <1>4, SendKeeps DEF SendStep
<1>5. CASE ReaderClose(c, d)
  <2>1. d = "up" \/ d = "down"
    BY DEF Dirs
  <2>2. CASE ~AtClient /\ d = "up"
    BY <1>5, <2>2, CloseNothing
  <2>3. CASE (AtClient /\ d = "up") \/ (~AtClient /\ d = "down")
    BY <1>5, <2>3, CloseTarget
  <2>4. CASE AtClient /\ d = "down"
    BY <1>5, <2>4, CloseForBrowser
  <2>. QED  BY <2>1, <2>2, <2>3, <2>4
<1>6. CASE Finish(c, d)
  BY <1>6, FinishKeeps
<1>. QED  BY <1>1, <1>2, <1>3, <1>4, <1>5, <1>6 DEF Reader

LEMMA StutterKeeps ==
  ASSUME Inv, UNCHANGED vars
  PROVE  Inv'
<1>1. /\ env' = env /\ owner' = owner /\ sids' = sids /\ para' = para /\ queue' = queue
      /\ waiting' = waiting /\ slotOf' = slotOf /\ writer' = writer /\ reader' = reader
      /\ count' = count /\ read' = read /\ idx' = idx /\ closed' = closed
  BY DEF vars
<1>2. Typed'
  BY <1>1 DEF Inv, Typed, SlotTyped, SidTyped, TaskTyped, CountTyped
<1>3. \A b \in Conns : P(b)' = P(b) /\ OwnersKept(b) /\ (Began(b)' <=> Began(b))
                       /\ \A d \in Dirs : Q(b, d)' = Q(b, d)
  BY <1>1 DEF P, OwnersKept, Began, Started, Q
<1>4. \A b \in Conns : Self(b)'
  BY <1>1, <1>3, LikeSelf
<1>5. Numbers'
  BY <1>1, <1>3, LikeNumber, ConstFacts DEF Numbers, AtClient, SidKept
<1>6. SlotRules' /\ OneOwner'
  BY <1>1, SameRules
<1>. QED  BY <1>2, <1>4, <1>5, <1>6 DEF Inv

LEMMA StepInv ==
  ASSUME Inv, Held, Sound, [Next]_vars
  PROVE  Inv'
<1>1. CASE \E c \in Conns : Accept(c)
  BY <1>1, AcceptKeeps
<1>2. CASE \E v \in Servers : Search(v) \/ Fill(v)
  BY <1>2, SearchKeeps, FillKeeps
<1>3. CASE \E c \in Conns, e \in Ends : Closes(c, e)
  BY <1>3, ClosesKeeps
<1>4. CASE \E c \in Conns, d \in Dirs : Writer(c, d) \/ Reader(c, d)
  BY <1>4, WriterKeeps, ReaderKeeps
<1>5. CASE UNCHANGED vars
  BY <1>5, StutterKeeps
<1>. QED  BY <1>1, <1>2, <1>3, <1>4, <1>5 DEF Next

-----------------------------------------------------------------------------
(* The forward proxy keeps the slot of a task that runs.                   *)

\* what a step of a task of c leaves as it is for the others
Apart(c) ==
  /\ env' = env /\ slotOf' = slotOf
  /\ \A b \in Conns : b # c => writer'[b] = writer[b] /\ reader'[b] = reader[b]
  /\ \A s \in Slots : s # slotOf[c] => para'[s] = para[s]
FlagsKept(c) == P(c)'.usedflag = P(c).usedflag /\ P(c)'.exitFlag = P(c).exitFlag
StillDone(c) == \A d \in Dirs : writer[c][d].pc = "done" => writer'[c][d].pc = "done"

LEMMA HeldIf ==
  ASSUME Inv, Held, AtClient, NEW c \in Conns, Live(c), Apart(c), Live(c)' => Keeps(c)'
  PROVE  Held'
<1> SUFFICES ASSUME NEW b \in Conns, Live(b)' PROVE Keeps(b)'
  BY DEF Held
<1>1. CASE b = c
  BY <1>1
<1>2. CASE b # c
  <2>1. writer'[b] = writer[b] /\ reader'[b] = reader[b] /\ slotOf'[b] = slotOf[b]
    BY <1>2 DEF Apart
  <2>2. Live(b)
    BY <2>1 DEF Live, Gone, Started
  <2>3. slotOf[b] # slotOf[c] /\ slotOf[b] \in Slots
    BY <1>2, <2>2, LiveApart
  <2>4. P(b)' = P(b)
    BY <2>1, <2>3 DEF Apart, P
  <2>. QED  BY <2>1, <2>2, <2>4 DEF Held, Keeps
<1>. QED  BY <1>1, <1>2

LEMMA HeldQuiet ==
  ASSUME Inv, Held, AtClient, NEW c \in Conns, Live(c), Apart(c), FlagsKept(c), StillDone(c)
  PROVE  Held'
<1>1. Keeps(c)
  BY DEF Held
<1>2. Keeps(c)'
  BY <1>1 DEF Keeps, FlagsKept, StillDone
<1>. QED  BY <1>2, HeldIf

\* a socket of the slot is set, and at most one of the other marks
LEMMA FlagsApart ==
  ASSUME SlotTyped, NEW c \in Conns, slotOf[c] \in Slots, slotOf' = slotOf,
         NEW g \in {"server", "client", "client2"}, NEW h \in {"closewaiting", "stopflag"}, NEW x, NEW y,
         \/ para' = [para EXCEPT ![slotOf[c]][g] = x]
         \/ para' = [para EXCEPT ![slotOf[c]][g] = x, ![slotOf[c]][h] = y]
  PROVE  FlagsKept(c) /\ \A s \in Slots : s # slotOf[c] => para'[s] = para[s]
<1>1. para \in [Slots -> SlotRecord] /\ para[slotOf[c]] \in SlotRecord
  BY DEF SlotTyped
<1>2. CASE para' = [para EXCEPT ![slotOf[c]][g] = x]
  BY <1>1, <1>2 DEF FlagsKept, P, SlotRecord
<1>3. CASE para' = [para EXCEPT ![slotOf[c]][g] = x, ![slotOf[c]][h] = y]
  BY <1>1, <1>3 DEF FlagsKept, P, SlotRecord
<1>. QED  BY <1>2, <1>3

LEMMA WriterHolds ==
  ASSUME Inv, Held, AtClient, NEW c \in Conns, NEW d \in Dirs, Writer(c, d)
  PROVE  Held'
<1>1. writer[c][d].pc \notin {"none", "done"} /\ slotOf' = slotOf /\ env' = env /\ reader' = reader
  <2>1. CASE Insert(c) /\ d = "up"
    BY <2>1 DEF Insert
  <2>2. CASE ReadStep(c, d)
    BY <2>2, ReadStepDoes DEF OnlyReads
  <2>3. CASE WriterClose(c, d) \/ WriterFlag(c, d)
    BY <2>3 DEF WriterClose, WriterFlag
  <2>. QED  BY <2>1, <2>2, <2>3 DEF Writer, ReadStep
<1>2. Live(c) /\ slotOf[c] \in Slots /\ Typed /\ Keeps(c)
  BY <1>1, WriterOf DEF Held
<1>3. SlotTyped /\ TaskTyped
  BY <1>2 DEF Typed
<1>4. ASSUME NEW l \in WriterLabels, WriterAt(c, d, l), para' = para
      PROVE  Held'
  <2>1. Apart(c) /\ FlagsKept(c) /\ StillDone(c)
    BY <1>1, <1>4 DEF Apart, FlagsKept, StillDone, WriterAt, P
  <2>. QED  BY <1>2, <2>1, HeldQuiet
<1>5. CASE Insert(c) /\ d = "up"
  <2>1. WriterAt(c, d, "run") /\ "run" \in WriterLabels /\ para' = para
    BY <1>3, <1>5, WDoes DEF Insert, WriterLabels
  <2>. QED  BY <1>4, <2>1
<1>6. CASE ReadStep(c, d)
  <2>1. PICK l \in {"run", "recv", "end"} : Advances(c, d, l)
    BY <1>6, ReadStepDoes
  <2>2. WriterAt(c, d, l) /\ l \in WriterLabels /\ para' = para
    BY <1>6, <2>1, ReadStepDoes DEF Advances, OnlyReads, WriterLabels
  <2>. QED  BY <1>4, <2>2
<1>7. CASE WriterClose(c, d)
  <2>1. WriterAt(c, d, "flag")
    BY <1>3, <1>7, WDoes DEF WriterClose, WriterLabels
  <2>2. \/ para' = para
        \/ para' = [para EXCEPT ![slotOf[c]]["server"] = NoSid, ![slotOf[c]]["closewaiting"] = @]
    BY <1>7 DEF WriterClose
  <2>3. FlagsKept(c) /\ \A s \in Slots : s # slotOf[c] => para'[s] = para[s]
    <3>1. CASE para' = para
      BY <3>1, <1>1 DEF FlagsKept, P
    <3>2. CASE para' = [para EXCEPT ![slotOf[c]]["server"] = NoSid, ![slotOf[c]]["closewaiting"] = @]
      <4>1. para \in [Slots -> SlotRecord] /\ para[slotOf[c]] \in SlotRecord
        BY <1>2, <1>3 DEF SlotTyped
      <4>. QED  BY <1>1, <1>2, <3>2, <4>1 DEF FlagsKept, P, SlotRecord
    <3>. QED  BY <2>2, <3>1, <3>2
  <2>4. Apart(c) /\ StillDone(c)
    BY <1>1, <2>1, <2>3 DEF Apart, StillDone, WriterAt
  <2>. QED  BY <1>2, <2>3, <2>4, HeldQuiet
<1>8. CASE WriterFlag(c, d)
  <2>1. WriterAt(c, d, "done")
    BY <1>3, <1>8, WDoes DEF WriterFlag, WriterLabels
  <2>2. P(c).exitFlag \in SUBSET Dirs
    BY <1>2, <1>3 DEF SlotTyped, SlotRecord, P
  <2>3. P(c).exitFlag \union {d} \in SUBSET Dirs /\ "exitFlag" \in Fields /\ "usedflag" \in Fields
    BY <2>2 DEF Fields
  <2>4. PutIn(c, "exitFlag", P(c).exitFlag \union {d})
    <3>1. Set(c, "exitFlag", P(c).exitFlag \union {d})
      BY <1>8 DEF WriterFlag
    <3>. QED  BY <1>1, <1>2, <1>3, <2>3, <3>1, SetDoes
  <2>5. P(c)'.usedflag = P(c).usedflag /\ P(c)'.exitFlag = P(c).exitFlag \union {d}
    BY <2>3, <2>4 DEF PutIn
  <2>6. Keeps(c)'
    BY <1>2, <2>1, <2>5 DEF Keeps, WriterAt
  <2>7. Apart(c)
    BY <1>1, <2>1, <2>4 DEF Apart, WriterAt, PutIn
  <2>. QED  BY <1>2, <2>6, <2>7, HeldIf
<1>. QED  BY <1>5, <1>6, <1>7, <1>8 DEF Writer, ReadStep

LEMMA ReaderHolds ==
  ASSUME Inv, Held, AtClient, NEW c \in Conns, NEW d \in Dirs, Reader(c, d)
  PROVE  Held'
<1>1. reader[c][d].pc \notin {"none", "done"} /\ slotOf' = slotOf /\ env' = env /\ writer' = writer
  BY DEF Reader, Take, TakeAnswer, Send, Leave, Delete, ReaderClose, Finish, Pending
<1>2. Live(c) /\ slotOf[c] \in Slots /\ Typed /\ Keeps(c) /\ Has(c, d)
  BY <1>1, ReaderOf DEF Held
<1>3. SlotTyped /\ TaskTyped
  BY <1>2 DEF Typed
<1>4. \A b \in Conns : b # c => reader'[b] = reader[b]
  <2>1. DOMAIN reader = Conns
    BY <1>3 DEF TaskTyped
  <2>. QED  BY <2>1 DEF Reader, Take, TakeAnswer, Send, Leave, Delete, ReaderClose, Finish, R
<1>5. ASSUME FlagsKept(c) /\ \A s \in Slots : s # slotOf[c] => para'[s] = para[s]
      PROVE  Held'
  <2>1. Apart(c) /\ StillDone(c)
    BY <1>1, <1>4, <1>5 DEF Apart, StillDone
  <2>. QED  BY <1>2, <1>5, <2>1, HeldQuiet
<1>6. CASE Finish(c, d)
  <2>1. writer[c][d].pc = "done"
    BY <1>2, <1>6 DEF Finish, Keeps
  <2>2. ReaderAt(c, d, "done")
    BY <1>3, <1>6, RDoes DEF Finish, ReaderLabels
  <2>3. \A k \in Dirs : k # d => writer[c][k].pc = "none" /\ reader[c][k].pc = "none"
    <3>1. Kind(c)
      BY DEF Inv, Self
    <3>2. \A k \in Dirs : k # d => ~Has(c, k)
      BY <1>2 DEF Has
    <3>. QED  BY <3>1, <3>2 DEF Kind
  <2>4. Gone(c)'
    BY <1>1, <2>1, <2>2, <2>3 DEF Gone, ReaderAt
  <2>5. \A s \in Slots : s # slotOf[c] => para'[s] = para[s]
    <3>1. DOMAIN para = Slots
      BY <1>3 DEF SlotTyped
    <3>. QED  BY <1>6, <3>1 DEF Finish, Set
  <2>6. Apart(c)
    BY <1>1, <1>4, <2>5 DEF Apart
  <2>. QED  BY <1>2, <2>4, <2>6, HeldIf DEF Live
<1>7. CASE ~Finish(c, d)
  <2>1. \/ para' = para
        \/ \E x : para' = [para EXCEPT ![slotOf[c]]["client"] = x]
        \/ \E x, y : para' = [para EXCEPT ![slotOf[c]]["client"] = x, ![slotOf[c]]["stopflag"] = y]
    <3>1. Target(c, d) = "client"
      BY DEF Target
    <3>2. CASE Take(c, d)
      BY <3>1, <3>2 DEF Take, Set
    <3>3. CASE TakeAnswer(c)
      BY <3>3 DEF TakeAnswer, Set
    <3>4. CASE ReaderClose(c, d)
      <4>1. PICK y : y = IF d = "down" THEN 1 ELSE para[slotOf[c]].stopflag
        OBVIOUS
      <4>2. para' = [para EXCEPT ![slotOf[c]]["client"] = Unset, ![slotOf[c]]["stopflag"] = IF d = "down" THEN 1 ELSE @]
        BY <3>1, <3>4 DEF ReaderClose
      <4>3. para' = [para EXCEPT ![slotOf[c]]["client"] = Unset, ![slotOf[c]]["stopflag"] = y]
        <5>1. para \in [Slots -> SlotRecord] /\ para[slotOf[c]] \in SlotRecord
          BY <1>2, <1>3 DEF SlotTyped
        <5>. QED  BY <1>2, <4>1, <4>2, <5>1 DEF SlotRecord
      <4>. QED  BY <4>3
    <3>5. CASE Send(c, d) \/ Leave(c, d) \/ Delete(c)
      BY <3>5 DEF Send, Leave, Delete
    <3>. QED  BY <1>7, <3>2, <3>3, <3>4, <3>5 DEF Reader
  <2>2. CASE para' = para
    BY <1>1, <1>5, <2>2 DEF FlagsKept, P
  <2>3. ASSUME NEW x, para' = [para EXCEPT ![slotOf[c]]["client"] = x]
        PROVE  Held'
    BY <1>1, <1>2, <1>3, <1>5, <2>3, FlagsApart
  <2>4. ASSUME NEW x, NEW y, para' = [para EXCEPT ![slotOf[c]]["client"] = x, ![slotOf[c]]["stopflag"] = y]
        PROVE  Held'
    BY <1>1, <1>2, <1>3, <1>5, <2>4, FlagsApart
  <2>. QED  BY <2>1, <2>2, <2>3, <2>4
<1>. QED  BY <1>6, <1>7

LEMMA StepHeld ==
  ASSUME Inv, Held, Sound, [Next]_vars
  PROVE  Held'
<1>1. ASSUME UNCHANGED <<env, para, slotOf, writer, reader>>
      PROVE  Held'
  BY <1>1 DEF Held, Keeps, Live, Started, Gone, P, AtClient
<1>2. CASE (\E c \in Conns : Accept(c)) \/ (\E v \in Servers : Search(v)) \/ UNCHANGED vars
           \/ (\E c \in Conns, k \in Ends : Closes(c, k))
  BY <1>1, <1>2 DEF Accept, Search, Closes, vars
<1>3. ASSUME NEW v \in Servers, Fill(v)
      PROVE  Held'
  <2>1. PICK c \in Conns, s \in Slots, f \in Descriptors : Fills(v, c, s, f)
    BY <1>3, FillIs
  <2>2. FillDone(v, c, s, f)
    BY <2>1, FillDoes
  <2> SUFFICES ASSUME AtClient, NEW b \in Conns, Live(b)' PROVE Keeps(b)'
    <3>1. env' = env
      BY <2>1 DEF Fills
    <3>. QED  BY <3>1 DEF Held, AtClient
  <2>3. CASE b = c
    <3>1. P(b)' = para'[s] /\ para'[s].usedflag = 1
      BY <2>2, <2>3 DEF FillDone, P
    <3>2. para'[s].exitFlag = {}
      <4>1. para \in [Slots -> SlotRecord]
        BY DEF Inv, Typed, SlotTyped
      <4>2. para' = [para EXCEPT ![s] = Cleared(f, {})]
        BY <2>1 DEF Fills, Cleared
      <4>3. Cleared(f, {}).exitFlag = {}
        BY DEF Cleared, Empty
      <4>. QED  BY <4>1, <4>2, <4>3
    <3>. QED  BY <3>1, <3>2 DEF Keeps
  <2>4. CASE b # c
    <3>1. writer'[b] = writer[b] /\ reader'[b] = reader[b] /\ slotOf'[b] = slotOf[b]
      BY <2>2, <2>4 DEF FillDone
    <3>2. Live(b) /\ slotOf[b] \in Slots /\ slotOf[b] # s
      <4>1. Live(b) /\ Typed
        BY <3>1 DEF Live, Gone, Started, Inv
      <4>. QED  BY <2>1, <4>1, LiveSlot DEF Fills, Live
    <3>3. P(b)' = P(b)
      BY <2>2, <3>1, <3>2 DEF FillDone, P
    <3>. QED  BY <3>1, <3>2, <3>3 DEF Held, Keeps
  <2>. QED  BY <2>3, <2>4
<1>4. ASSUME NEW c \in Conns, NEW d \in Dirs, Writer(c, d) \/ Reader(c, d)
      PROVE  Held'
  <2>1. CASE AtClient
    BY <1>4, <2>1, WriterHolds, ReaderHolds
  <2>2. CASE ~AtClient
    <3>1. env' = env
      BY <1>4 DEF Writer, Reader, Insert, Test, UpRecv, Timeout, DoRecv, Told, WriterClose, WriterFlag,
                  TakeAnswer, Delete, Take, Send, Leave, ReaderClose, Finish
    <3>. QED  BY <2>2, <3>1 DEF Held, AtClient
  <2>. QED  BY <2>1, <2>2
<1>. QED  BY <1>2, <1>3, <1>4 DEF Next

LEMMA SoundKept ==
  ASSUME [Next]_vars
  PROVE  Sound' <=> Sound
<1>1. env' = env
  <2>1. CASE (\E c \in Conns : Accept(c)) \/ UNCHANGED vars \/ (\E c \in Conns, k \in Ends : Closes(c, k))
    BY <2>1 DEF Accept, Closes, vars
  <2>2. CASE \E v \in Servers : Search(v) \/ Fill(v)
    BY <2>2 DEF Search, Fill
  <2>3. CASE \E c \in Conns, d \in Dirs : Writer(c, d)
    BY <2>3 DEF Writer, Insert, Test, UpRecv, Timeout, DoRecv, Told, WriterClose, WriterFlag
  <2>4. CASE \E c \in Conns, d \in Dirs : Reader(c, d)
    BY <2>4 DEF Reader, TakeAnswer, Delete, Take, Send, Leave, ReaderClose, Finish
  <2>. QED  BY <2>1, <2>2, <2>3, <2>4 DEF Next
<1>. QED  BY <1>1 DEF Sound, AtClient

(* What the steps keep holds always, where no slot is refilled early.      *)
Safe == Sound => Inv /\ Held
LEMMA SafeAlways == Spec => []Safe
<1>1. Init => Safe
  <2> SUFFICES ASSUME Init PROVE Inv /\ Held
    BY DEF Safe
  <2>1. \A c \in Conns : ~Started(c)
    BY DEF Init, Started
  <2>. QED  BY <2>1, InitInv DEF Held, Live
<1>2. Safe /\ [Next]_vars => Safe'
  BY StepInv, StepHeld, SoundKept DEF Safe
<1>. QED  BY <1>1, <1>2, PTL DEF Spec

LEMMA InvLeaksNothing ==
  ASSUME Inv, Held
  PROVE  NothingLeaks
<1>1. Typed /\ SlotRules
  BY DEF Inv
<1>2. TypeOK
  BY <1>1 DEF Typed, SlotTyped, SidTyped, TaskTyped, CountTyped, TypeOK, SlotRecord, Sids,
          QueueStates, WriterLabels, ReaderLabels
<1>3. ASSUME NEW c \in Conns, Started(c), Gone(c), NEW f \in Descriptors, owner[f][1] = c
      PROVE  AtClient /\ c <= N /\ owner[f][2] = "server"
  <2>1. owner[f] # Free
    <3>1. Free[1] = 0 /\ c # 0
      BY ConstFacts DEF Free
    <3>. QED  BY <1>3, <3>1
  <2>2. PICK b \in Conns, e \in Ends : owner[f] = <<b, e>>
    BY <1>1, <2>1 DEF Typed, SlotTyped
  <2>3. b = c
    BY <1>3, <2>2
  <2>4. Kind(c) /\ Owned(c)
    BY DEF Inv, Self
  <2>5. ~HasServer(c) /\ ~HasClient(c) /\ ~HasClient2(c)
    BY <1>1, <1>3, <2>4, Idle DEF Live
  <2>6. e = "server" /\ Flow(c)
    BY <1>3, <2>2, <2>3, <2>4, <2>5 DEF Owned, Ends
  <2>. QED  BY <2>2, <2>6 DEF Flow
<1>4. ASSUME NEW c \in Conns, Started(c), \A b \in Conns : slotOf[b] = slotOf[c] => Gone(b)
      PROVE  P(c).usedflag = 0
  <2>1. slotOf[c] \in Slots
    BY <1>1, <1>4, LiveSlot
  <2>2. para[slotOf[c]].usedflag # 1
    <3> SUFFICES ASSUME para[slotOf[c]].usedflag = 1 PROVE FALSE
      OBVIOUS
    <3>1. PICK b \in Conns : slotOf[b] = slotOf[c] /\ Holds(b)
      BY <1>1, <2>1 DEF SlotRules
    <3>2. Gone(b) /\ Returner(b) \in Dirs
      BY <1>4, <3>1, ConstFacts DEF Returner, ServerOf
    <3>. QED  BY <3>1, <3>2 DEF Gone, Holds
  <2>3. para[slotOf[c]].usedflag \in 0..1
    BY <1>1, <2>1 DEF Typed, SlotTyped, SlotRecord
  <2>. QED  BY <2>2, <2>3 DEF P
<1>5. ASSUME AtClient, NEW n \in Flows, Started(n + N), Gone(n + N)
      PROVE  n \notin DOMAIN sids /\ \A f \in Descriptors : owner[f] # <<n, "server">>
  <2>1. n + N \in Conns /\ n + N > N
    BY ConstFacts
  <2>2. Kind(n + N) /\ Number(n)
    BY <1>5, <2>1 DEF Inv, Self, Numbers
  <2>3. Has(n + N, "down")
    BY <1>5, <2>1 DEF Has, ServerOf
  <2>4. reader[n + N].down.pc # "none"
    BY <1>5, <2>2, <2>3, ConstFacts DEF Kind
  <2>5. reader[n + N].down.pc = "done"
    BY <1>5, <2>4, ConstFacts DEF Gone
  <2>. QED  BY <2>2, <2>5 DEF Number
<1>6. ASSUME AtClient, NEW c \in Conns, Started(c), P(c).usedflag = 0
      PROVE  Gone(c)
  <2>1. ~Keeps(c)
    BY <1>6 DEF Keeps
  <2>. QED  BY <1>6, <2>1 DEF Held, Live
<1>. QED  BY <1>2, <1>3, <1>4, <1>5, <1>6 DEF NothingLeaks

(* At the forward proxy, and at a reverse proxy that refills no slot while *)
(* UP tasks run: when the tasks of a connection have gone, its sockets are *)
(* closed and its slot is free, whatever fails and whoever closes first,   *)
(* although the tasks close sockets by descriptors that they read in a     *)
(* slot (tcp_socketprox.cpp:361-389, 513-554); a browser's socket and      *)
(* number go with the connection that brought its answers.  The forward    *)
(* proxy needs no assumption: its slot is taken while a task of it runs    *)
(* (lines 528-554 wait for exitFlag).                                      *)
THEOREM LeaksHold == Spec => [](Sound => NothingLeaks)
<1>1. Safe => (Sound => NothingLeaks)
  BY InvLeaksNothing DEF Safe
<1>. QED  BY <1>1, SafeAlways, PTL

\* the sockets that the tasks of a connection use
SocketsRight(c) ==
  /\ \A d \in Dirs : ~(AtClient /\ d = "up") /\ writer[c][d].pc \in {"run", "end"} /\ Sid(c, d) >= 0
       => Owns(c, Source(c, d), Sid(c, d))
  /\ reader[c].down.pc \in {"send", "delete", "close"} /\ P(c)[Target(c, "down")] >= 0 =>
       IF AtClient THEN Owns(Browser(c), "server", P(c).client) ELSE Owns(c, "client2", P(c).client2)
  /\ reader[c].up.pc = "send" /\ writer[c].down.pc \in {"none", "run"} /\ P(c).client >= 0
       => Owns(c, "client", P(c).client)

LEMMA InvSocketsRight ==
  ASSUME Inv, NEW c \in Conns
  PROVE  SocketsRight(c)
<1>1. Self(c) /\ Kind(c) /\ Named(c)
  BY DEF Inv, Self
<1>2. ASSUME NEW d \in Dirs, ~(AtClient /\ d = "up"), writer[c][d].pc \in {"run", "end"}, Sid(c, d) >= 0
      PROVE  Owns(c, Source(c, d), Sid(c, d))
  <2>1. Started(c) /\ ~Flow(c) /\ (~AtClient => c <= N) /\ (d = "up" \/ d = "down")
    BY <1>2, WriterOf DEF Live, Dirs
  <2>2. CASE ~AtClient /\ d = "down"
    BY <1>1, <1>2, <2>1, <2>2 DEF Source, Sid, HasClient, Named
  <2>3. CASE AtClient \/ d = "up"
    BY <1>1, <1>2, <2>1, <2>3 DEF Source, Sid, HasServer, Named
  <2>. QED  BY <2>1, <2>2, <2>3
<1>3. ASSUME reader[c].down.pc \in {"send", "delete", "close"}, P(c)[Target(c, "down")] >= 0, AtClient
      PROVE  Owns(Browser(c), "server", P(c).client)
  <2>1. Answer(c) /\ Answered(c)
    BY <1>3, ReaderOf, ConstFacts
  <2>2. c - N \in Flows /\ (c - N) + N = c /\ c - N # 0
    BY <2>1, ConstFacts DEF Answer
  <2>3. reader[c].down.pktid = c - N
    BY <1>3, <2>1 DEF Answered
  <2>4. Number(c - N)
    BY <1>3, <2>2 DEF Inv, Numbers
  <2>. QED  BY <1>3, <2>2, <2>3, <2>4 DEF Number, Browser
<1>4. ASSUME reader[c].down.pc \in {"send", "delete", "close"}, P(c)[Target(c, "down")] >= 0, ~AtClient
      PROVE  Owns(c, "client2", P(c).client2)
  <2>1. HasClient2(c)
    BY <1>1, <1>4 DEF Kind, HasClient2
  <2>. QED  BY <1>1, <1>4, <2>1 DEF Target, Named
<1>5. ASSUME reader[c].up.pc = "send", writer[c].down.pc \in {"none", "run"}, P(c).client >= 0
      PROVE  Owns(c, "client", P(c).client)
  <2>1. Started(c) /\ c <= N
    BY <1>5, ReaderOf, ConstFacts DEF Live, Flow
  <2>2. ~AtClient => writer[c].down.pc # "none"
    BY <1>1, <2>1, ConstFacts DEF Kind, Has
  <2>3. HasClient(c)
    BY <1>5, <2>1, <2>2 DEF HasClient
  <2>. QED  BY <1>1, <1>5, <2>3 DEF Named
<1>. QED  BY <1>2, <1>3, <1>4, <1>5 DEF SocketsRight

ReadsOwn(n) == env.calm => (read[n].up # read'[n].up => Owns(n, "server", P(n).server))

LEMMA OwnStreamStep ==
  ASSUME Inv, [Next]_vars, NEW n \in Flows
  PROVE  ReadsOwn(n)
<1>1. n \in Conns
  BY ConstFacts
<1>2. CASE read' = read
  BY <1>2 DEF ReadsOwn
<1>3. ASSUME NEW c \in Conns, NEW d \in Dirs, ReadStep(c, d)
      PROVE  ReadsOwn(n)
  <2> SUFFICES ASSUME env.calm, read[n].up # read'[n].up PROVE Owns(n, "server", P(n).server)
    BY DEF ReadsOwn
  <2>1. writer[c][d].pc \in {"run", "recv"}
        /\ (Gets(c, d) \/ Stops(c, d) \/ Pauses(c, d) \/ Resumes(c, d))
    BY <1>3, ReadStepIs
  <2>2. read' = [read EXCEPT ![c][d] = @ + 1]
    BY <2>1 DEF Gets, Stops, Pauses, Resumes, Packet, End
  <2>3. c = n /\ d = "up"
    <3>1. read \in [Conns -> [Dirs -> 0..(MaxPkts + 1)]]
      BY DEF Inv, Typed, CountTyped
    <3>. QED  BY <1>1, <2>2, <3>1, ConstFacts
  <2>4. /\ Live(n) /\ Started(n) /\ Self(n)
        /\ AtClient => Flow(n)
        /\ ~AtClient => ~Flow(n)
    BY <2>1, <2>3, WriterOf DEF Live
  <2>5. writer[n].up.pc = "run"
    BY <2>1, <2>3, <2>4 DEF Self, Kind
  <2>6. CASE ~AtClient
    BY <2>4, <2>5, <2>6 DEF Self, Named, HasServer
  <2>7. CASE AtClient
    <3>1. Test(n)
      BY <1>3, <2>3, <2>5, <2>7 DEF ReadStep, UpRecv, DoRecv, Told
    <3>2. P(n).server = SidOf(n)
      <4> SUFFICES ASSUME P(n).server # SidOf(n) PROVE FALSE
        OBVIOUS
      <4>1. read' = read
        BY <3>1 DEF Test, End
      <4>. QED  BY <4>1
    <3>3. P(n).server \in Descriptors
      BY <2>4, <2>7 DEF Self, Signs
    <3>4. n \in DOMAIN sids /\ P(n).server = sids[n]
      BY <3>2, <3>3, ConstFacts DEF SidOf
    <3>5. Number(n)
      BY <2>7 DEF Inv, Numbers
    <3>. QED  BY <3>4, <3>5 DEF Number
  <2>. QED  BY <2>6, <2>7
<1>4. CASE \E c \in Conns, d \in Dirs : Writer(c, d)
  <2>1. PICK c \in Conns, d \in Dirs : Writer(c, d)
    BY <1>4
  <2>2. ReadStep(c, d) \/ read' = read
    BY <2>1 DEF Writer, ReadStep, Insert, WriterClose, WriterFlag
  <2>. QED  BY <1>2, <1>3, <2>2
<1>5. CASE \E c \in Conns, d \in Dirs : Reader(c, d)
  <2>1. PICK c \in Conns, d \in Dirs : Reader(c, d)
    BY <1>5
  <2>2. (TakeAnswer(c) \/ Delete(c)) => read' = read
    BY DEF TakeAnswer, Delete
  <2>3. (Take(c, d) \/ Send(c, d) \/ Leave(c, d)) => read' = read
    BY DEF Take, Send, Leave
  <2>4. (ReaderClose(c, d) \/ Finish(c, d)) => read' = read
    BY DEF ReaderClose, Finish
  <2>. QED  BY <1>2, <2>1, <2>2, <2>3, <2>4 DEF Reader
<1>6. CASE \E c \in Conns : Accept(c)
  BY <1>2, <1>6 DEF Accept
<1>7. CASE \E v \in Servers : Search(v) \/ Fill(v)
  BY <1>2, <1>7 DEF Search, Fill
<1>8. CASE (\E c \in Conns, e \in Ends : Closes(c, e)) \/ UNCHANGED vars
  BY <1>2, <1>8 DEF Closes, vars
<1>. QED  BY <1>4, <1>5, <1>6, <1>7, <1>8 DEF Next

(* At the forward proxy, and at a reverse proxy that refills no slot while *)
(* UP tasks run, a task reads, sends to and closes only sockets of its own *)
(* flow, although the descriptor of a closed socket is handed out again at *)
(* once; the forward proxy reads no other browser's stream, as long as no  *)
(* socket is closed between its test and the recv                          *)
(* (tcp_socketprox.cpp:275).                                               *)
THEOREM OwnStreamHolds == Spec => OwnStream
<1>1. Safe => (Sound => \A c \in Conns : Started(c) =>
       /\ \A d \in Dirs : ~(AtClient /\ d = "up") /\ writer[c][d].pc \in {"run", "end"} /\ Sid(c, d) >= 0
            => Owns(c, Source(c, d), Sid(c, d))
       /\ reader[c].down.pc \in {"send", "delete", "close"} /\ P(c)[Target(c, "down")] >= 0 =>
            IF AtClient THEN Owns(Browser(c), "server", P(c).client) ELSE Owns(c, "client2", P(c).client2)
       /\ reader[c].up.pc = "send" /\ writer[c].down.pc \in {"none", "run"} /\ P(c).client >= 0
            => Owns(c, "client", P(c).client))
  <2>1. Inv => \A c \in Conns : SocketsRight(c)
    BY InvSocketsRight
  <2>. QED  BY <2>1 DEF SocketsRight, Safe
<1>2. Safe /\ [Next]_vars =>
        [Sound /\ env.calm =>
           \A n \in Flows : read[n].up # read'[n].up => Owns(n, "server", P(n).server)]_vars
  BY OwnStreamStep DEF ReadsOwn, Safe
<1>. QED  BY <1>1, <1>2, SafeAlways, PTL DEF Spec, OwnStream
=============================================================================
