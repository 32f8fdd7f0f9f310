--------------------------- MODULE CommConnProofs ---------------------------
(***************************************************************************)
(* Proofs about CommConn for any connections, workers and requests.        *)
(***************************************************************************)
EXTENDS CommConn, Integers, SequenceTheorems, TLAPS

-----------------------------------------------------------------------------
(* The inductive invariant.                                                *)

Req == [kind : Kinds, len : Lengths, at : Nat]
ConnType == [open : BOOLEAN, peer : {"none", "up", "gone"}, sent : Nat, taken : Nat, reqs : Seq(Req)]
SlotType == [used : BOOLEAN, sid : Conns \cup {NoConn}]
TaskType == [pc : {"none", "queued", "recv", "handle", "send", "end", "close", "unset", "gone"},
             slot : Slots, pbuf : {"in", "out"}, head : 0..Junk, ret : Nat, got : Nat,
             reply : {"none", "ok", "invalid", "zeros"}]

ConnsType == conn \in [Conns -> ConnType]
SlotsType == slot \in [Slots -> SlotType]
MainType == main \in [pc : {"start", "accept", "search", "fill", "destroy", "gone"},
                      sid : Conns \cup {NoConn}, i : Slots]
TasksType == task \in [Conns -> TaskType]
MadeType == made \in [Conns -> [1..Requests -> Nat]]
BackType == back \in [Conns -> Seq({"ok", "invalid", "zeros"})]

Held(c) == task[c].pc \in {"queued", "recv", "handle", "send", "end"}
Live(c) == Held(c) \/ task[c].pc \in {"close", "unset"}

\* A task that has not given its slot back has it for itself, even when a slot
\* is filled again too early: only its descriptor may be gone.
SlotsHeld ==
  /\ \A c \in Conns : Held(c) => slot[task[c].slot].used /\ slot[task[c].slot].sid \in {c, NoConn}
  /\ \A c, d \in Conns : Held(c) /\ Held(d) /\ task[c].slot = task[d].slot => c = d

\* What run() knows at each place.
MainAt ==
  /\ main.pc \in {"search", "fill"} =>
       /\ main.sid \in Conns /\ task[main.sid].pc = "none" /\ conn[main.sid].peer # "none"
       /\ ~env.quick => conn[main.sid].open
  /\ main.pc = "fill" =>
       /\ slot[main.i].used
       /\ \A c \in Conns : Held(c) => task[c].slot # main.i
       /\ ~env.quick => \A c \in Conns : Live(c) => task[c].slot # main.i
  /\ main.pc \in {"start", "gone"} => \A c \in Conns : ~Live(c)
  /\ main.pc = "destroy" => \A c \in Conns : task[c].pc # "queued"

\* When slots are not filled too early, a task has its slot and its descriptor
\* to the end.
Patient ==
  ~env.quick =>
    /\ \A c \in Conns : Live(c) => slot[task[c].slot].sid = c /\ (conn[c].open \/ task[c].pc = "unset")
    /\ \A c, d \in Conns : Live(c) /\ Live(d) /\ task[c].slot = task[d].slot => c = d
    /\ ~env.fails => \A c \in Conns : task[c].pc \in {"unset", "gone"} => ~conn[c].open

\* Requests begin one after the other, within what was sent.
Ordered(r, s) ==
  /\ \A m \in 1..Len(r) : r[m].at < s
  /\ \A m, n \in 1..Len(r) : m < n => r[m].at < r[n].at

\* rcvedLen is what was taken of the connection.
RequestedAt(c) ==
  /\ task[c].pc \in {"none", "queued"} => task[c].got = 0 /\ task[c].pbuf = "in"
  /\ conn[c].peer = "none" => task[c].pc = "none"
  /\ task[c].got = conn[c].taken
  /\ Len(conn[c].reqs) <= Requests /\ Ordered(conn[c].reqs, conn[c].sent)

\* The request whose head the buffer holds, when it is one.
Headed(c) == task[c].head \in 1..Requests
InHand(c) == conn[c].reqs[task[c].head]

\* A task that is to handle a request has got as much as it is long; the last
\* piece began with it, until the first answer; after that there was more.
InBufferAt(c) ==
  /\ task[c].pc \in {"handle", "send"} \/ task[c].pbuf = "out" => task[c].head # Nothing
  /\ Headed(c) => task[c].head <= Len(conn[c].reqs)
  /\ Headed(c) /\ (task[c].pc \in {"handle", "send"} \/ task[c].pbuf = "out") => InHand(c).len <= task[c].got
  /\ Headed(c) /\ task[c].pc = "handle" /\ task[c].pbuf = "out" => InHand(c).len < task[c].got
  /\ Headed(c) /\ task[c].pc = "handle" /\ task[c].pbuf = "in" =>
       task[c].got = InHand(c).at + task[c].ret /\ task[c].ret > 0
  /\ task[c].pc = "send" => task[c].reply # "none"

\* Request m of connection c was executed: with the units that the requests
\* before it are shorter, before what the task has got, and before the request
\* in hand; when it was answered, nothing can be executed any more.
Was(c, m) == made[c][m] # 0
WasRight(c, m) ==
  /\ m <= Len(conn[c].reqs) /\ made[c][m] + conn[c].reqs[m].at = conn[c].reqs[m].len
  /\ conn[c].reqs[m].at < task[c].got
  /\ Headed(c) /\ task[c].pc = "handle" /\ task[c].pbuf = "in" => m < task[c].head
  /\ conn[c].reqs[m].kind # "silent" /\ task[c].pc \in {"recv", "handle"} => task[c].pbuf = "out"

AnyWas(c) == \E m \in 1..Requests : Was(c, m)

ExecutedAt(c) ==
  /\ \A m \in 1..Requests : Was(c, m) => WasRight(c, m)
  /\ \A m, n \in 1..Requests : m < n /\ Was(c, m) /\ Was(c, n) => conn[c].reqs[m].kind = "silent"

AnsweredAt(c) ==
  /\ task[c].pc = "send" /\ task[c].reply = "ok" => back[c] = <<>> /\ AnyWas(c)
  /\ back[c] # <<>> => task[c].pbuf = "out"
  /\ \A k \in 1..Len(back[c]) : back[c][k] = "ok" => k = 1 /\ AnyWas(c)

ServedAt(c) == RequestedAt(c) /\ InBufferAt(c) /\ ExecutedAt(c) /\ AnsweredAt(c)

Served == \A c \in Conns : ServedAt(c)

Inductive == TypeOK /\ SlotsHeld /\ MainAt /\ Patient /\ Served

LEMMA TypeParts ==
  TypeOK <=> env \in Settings /\ ConnsType /\ SlotsType /\ MainType /\ TasksType /\ MadeType /\ BackType
BY DEF TypeOK, ConnsType, ConnType, Req, SlotsType, SlotType, MainType, TasksType, TaskType, MadeType, BackType

LEMMA Constants ==
  /\ Workers \in Nat \ {0} /\ Requests \in Nat \ {0} /\ Junk = Requests + 1 /\ Junk \in Nat
  /\ NoConn \notin Conns /\ 0 \in Slots /\ Nothing = 0 /\ Lengths \subseteq Nat \ {0}
BY WorkersAssumption, RequestsAssumption, ConnsAssumption, LengthsAssumption DEF Junk, NoConn, Slots, Nothing

(* The setting is what it is.                                              *)
LEMMA Fixed == [Next]_vars => env' = env
BY DEF Next, Run, Task, Connect, Request, Leave, Listen, NoMemory, Accept, AcceptFails, Destroyed, Search,
       Fill, Begin, Recv, RecvEnds, Handle, Send, SendFails, Release, Close, Unset, vars

-----------------------------------------------------------------------------
(* What the actions do to the records.                                     *)

OtherTasks(c) == \A d \in Conns \ {c} : task'[d] = task[d]
OtherConns(c) == \A d \in Conns \ {c} : conn'[d] = conn[d]
OtherSlots(i) == \A j \in Slots \ {i} : slot'[j] = slot[j]

\* Task c goes elsewhere and keeps the rest.
Moves(c, pc) ==
  /\ OtherTasks(c)
  /\ task'[c].pc = pc /\ task'[c].slot = task[c].slot /\ task'[c].pbuf = task[c].pbuf
  /\ task'[c].head = task[c].head /\ task'[c].got = task[c].got /\ task'[c].reply = task[c].reply
  /\ task'[c].ret = task[c].ret

LEMMA GotoMoves ==
  ASSUME TasksType, NEW c \in Conns,
         NEW pc \in {"none", "queued", "recv", "handle", "send", "end", "close", "unset", "gone"}, Goto(c, pc)
  PROVE  Moves(c, pc) /\ TasksType'
<1>1. Moves(c, pc)
  BY DEF Goto, Moves, OtherTasks, TasksType, TaskType
<1>2. TasksType'
  BY DEF Goto, TasksType, TaskType
<1>. QED  BY <1>1, <1>2

(* A task in recv or send talks to its own connection.                     *)
LEMMA OwnSid ==
  ASSUME TypeOK, SlotsHeld, NEW c \in Conns, Held(c), Alive(c)
  PROVE  Sid(c) = c /\ conn[c].open
BY Constants DEF SlotsHeld, Alive, Sid

\* What Recv(c) does when it gets n units.
Receives(c, n) ==
  /\ task[c].pc = "recv" /\ conn[c].open /\ n \in Nat /\ 1 <= n
  /\ OtherTasks(c) /\ OtherConns(c)
  /\ task'[c].slot = task[c].slot /\ task'[c].pbuf = task[c].pbuf /\ task'[c].reply = task[c].reply
  /\ task'[c].got = task[c].got + n /\ task'[c].ret = n
  /\ task'[c].head = HeadAfter(c)
  /\ task'[c].pc \in {"recv", "handle"}
  /\ task'[c].pc = "handle" => task'[c].head = Junk \/ ~(conn[c].reqs[HeadAfter(c)].len > task'[c].got)
  /\ conn'[c].open = conn[c].open /\ conn'[c].peer = conn[c].peer /\ conn'[c].reqs = conn[c].reqs
  /\ conn'[c].sent = conn[c].sent /\ conn'[c].taken = conn[c].taken + n

LEMMA TaskUpdate ==
  ASSUME TasksType, NEW c \in Conns, NEW pc \in {"recv", "handle"}, NEW h \in 0..Junk, NEW n \in Nat, NEW g \in Nat,
         task' = [task EXCEPT ![c].head = h, ![c].ret = n, ![c].got = g, ![c].pc = pc]
  PROVE  /\ TasksType' /\ OtherTasks(c)
         /\ task'[c].slot = task[c].slot /\ task'[c].pbuf = task[c].pbuf /\ task'[c].reply = task[c].reply
         /\ task'[c].got = g /\ task'[c].ret = n /\ task'[c].head = h /\ task'[c].pc = pc
<1>1. TasksType'
  <2>2. task'[c] \in TaskType
    BY ZenonT(60) DEF TasksType, TaskType
  <2>3. \A d \in Conns : task'[d] \in TaskType
    BY <2>2 DEF TasksType
  <2>4. DOMAIN task' = Conns /\ task' = [d \in Conns |-> task'[d]]
    BY Zenon DEF TasksType
  <2>. QED  BY <2>3, <2>4 DEF TasksType, TaskType
<1>2. OtherTasks(c)
  BY DEF TasksType, TaskType, OtherTasks
<1>3. task'[c].slot = task[c].slot /\ task'[c].pbuf = task[c].pbuf
  BY DEF TasksType, TaskType
<1>4. task'[c].reply = task[c].reply
  BY DEF TasksType, TaskType
<1>5. task'[c].got = g /\ task'[c].head = h
  BY DEF TasksType, TaskType
<1>6. task'[c].pc = pc
  BY DEF TasksType, TaskType
<1>7. task'[c].ret = n
  BY DEF TasksType, TaskType
<1>. QED  BY <1>1, <1>2, <1>3, <1>4, <1>5, <1>6, <1>7

LEMMA TakenUpdate ==
  ASSUME ConnsType, NEW c \in Conns, NEW n \in Nat, conn' = [conn EXCEPT ![c].taken = n]
  PROVE  /\ ConnsType' /\ OtherConns(c) /\ conn'[c].taken = n /\ conn'[c].sent = conn[c].sent
         /\ conn'[c].open = conn[c].open /\ conn'[c].peer = conn[c].peer /\ conn'[c].reqs = conn[c].reqs
<1>1. ConnsType'
  BY DEF ConnsType, ConnType
<1>2. conn'[c].open = conn[c].open /\ conn'[c].peer = conn[c].peer /\ conn'[c].reqs = conn[c].reqs
  BY DEF ConnsType, ConnType
<1>3. OtherConns(c) /\ conn'[c].taken = n /\ conn'[c].sent = conn[c].sent
  BY DEF ConnsType, ConnType, OtherConns
<1>. QED  BY <1>1, <1>2, <1>3

LEMMA ReqsType ==
  ASSUME ConnsType, NEW c \in Conns
  PROVE  /\ conn[c].reqs \in Seq(Req) /\ Len(conn[c].reqs) \in Nat
         /\ conn[c].sent \in Nat /\ conn[c].taken \in Nat
         /\ \A m \in 1..Len(conn[c].reqs) :
              /\ conn[c].reqs[m].kind \in Kinds /\ conn[c].reqs[m].at \in Nat
              /\ conn[c].reqs[m].len \in Nat /\ conn[c].reqs[m].len > 0
<1>1. conn[c].reqs \in Seq(Req) /\ conn[c].sent \in Nat /\ conn[c].taken \in Nat
  BY DEF ConnsType, ConnType
<1>2. Len(conn[c].reqs) \in Nat /\ \A m \in 1..Len(conn[c].reqs) : conn[c].reqs[m] \in Req
  BY <1>1, LenProperties, ElementOfSeq
<1>3. \A r \in Req : r.kind \in Kinds /\ r.at \in Nat /\ r.len \in Lengths
  BY DEF Req
<1>4. \A n \in Lengths : n \in Nat /\ n > 0
  BY Constants
<1>. QED  BY <1>1, <1>2, <1>3, <1>4

(* The buffer begins with a head where the piece begins a request.         *)
LEMMA HeadFound ==
  ASSUME TypeOK, Served, NEW c \in Conns
  PROVE  /\ HeadAfter(c) \in 0..Junk
         /\ task[c].pbuf = "out" => HeadAfter(c) = task[c].head
         /\ task[c].pbuf = "in" => \/ HeadAfter(c) = Junk
                                  \/ /\ HeadAfter(c) \in 1..Len(conn[c].reqs)
                                     /\ conn[c].reqs[HeadAfter(c)].at = conn[c].taken
<1>0. ConnsType /\ TasksType /\ Junk = Requests + 1 /\ Requests \in Nat \ {0}
  BY TypeParts, Constants
<1>1. /\ task[c].pbuf \in {"in", "out"} /\ task[c].head \in 0..Junk
      /\ Len(conn[c].reqs) \in Nat /\ Len(conn[c].reqs) <= Requests
  BY <1>0, ReqsType DEF TasksType, TaskType, Served, ServedAt, RequestedAt
<1> DEFINE starts == {m \in 1..Len(conn[c].reqs) : conn[c].reqs[m].at = conn[c].taken}
<1>2. CASE task[c].pbuf = "out"
  BY <1>1, <1>2 DEF HeadAfter
<1>3. CASE task[c].pbuf = "in" /\ starts = {}
  BY <1>0, <1>3 DEF HeadAfter
<1>4. CASE task[c].pbuf = "in" /\ starts # {}
  <2>1. HeadAfter(c) = CHOOSE m \in starts : TRUE
    BY <1>4 DEF HeadAfter
  <2>2. (CHOOSE m \in starts : TRUE) \in starts
    BY <1>4
  <2>3. PICK m \in starts : HeadAfter(c) = m
    BY <2>1, <2>2
  <2>4. m \in 1..Len(conn[c].reqs) /\ conn[c].reqs[m].at = conn[c].taken
    OBVIOUS
  <2>5. m \in 0..Junk
    BY <1>0, <1>1, <2>4
  <2>. QED  BY <1>4, <2>3, <2>4, <2>5
<1>. QED  BY <1>1, <1>2, <1>3, <1>4

LEMMA RecvReceives ==
  ASSUME TypeOK, SlotsHeld, Served, NEW c \in Conns, Recv(c)
  PROVE  TasksType' /\ ConnsType' /\ \E n \in Nat : Receives(c, n)
<1>0. ConnsType /\ TasksType /\ Junk = Requests + 1 /\ Requests \in Nat \ {0}
  BY TypeParts, Constants
<1>1. task[c].pc = "recv" /\ Sid(c) = c /\ conn[c].open
  BY OwnSid DEF Recv, Held
<1> DEFINE h == HeadAfter(c)
           most == conn[c].sent - conn[c].taken
<1>2. PICK n \in IF env.whole THEN {most} ELSE 1..most : \E more \in Promises(c, h, Count(c) + n) :
        /\ n > 0
        /\ task' = [task EXCEPT ![c].head = h, ![c].ret = n, ![c].got = Count(c) + n,
                                ![c].pc = IF more THEN "recv" ELSE "handle"]
        /\ conn' = [conn EXCEPT ![c].taken = conn[c].taken + n]
  BY <1>1, Zenon DEF Recv
<1>3. n \in Nat /\ 1 <= n /\ conn[c].taken \in Nat
  <2>1. most \in Int
    BY <1>0, ReqsType
  <2>2. n \in Int /\ n > 0
    BY <1>2, <2>1
  <2>. QED  BY <1>0, <2>2, ReqsType
<1>4. PICK more \in Promises(c, h, Count(c) + n) :
        task' = [task EXCEPT ![c].head = h, ![c].ret = n, ![c].got = Count(c) + n,
                            ![c].pc = IF more THEN "recv" ELSE "handle"]
  BY <1>2
<1>5. conn' = [conn EXCEPT ![c].taken = conn[c].taken + n]
  BY <1>2
<1>6. h \in 0..Junk
  BY HeadFound
<1>7. Count(c) = task[c].got /\ task[c].got \in Nat
  BY <1>0 DEF Count, TasksType, TaskType
<1> DEFINE g == task[c].got + n
           pc == IF more THEN "recv" ELSE "handle"
<1>8. g \in Nat /\ pc \in {"recv", "handle"}
  BY <1>3, <1>7
<1>9. pc = "handle" => h = Junk \/ ~(conn[c].reqs[h].len > g)
  BY <1>4, <1>7 DEF Promises
<1>10. task' = [task EXCEPT ![c].head = h, ![c].ret = n, ![c].got = g, ![c].pc = pc]
  BY <1>4, <1>7, Zenon
<1> HIDE DEF h, g, pc
<1>13. /\ TasksType' /\ OtherTasks(c)
       /\ task'[c].slot = task[c].slot /\ task'[c].pbuf = task[c].pbuf /\ task'[c].reply = task[c].reply
       /\ task'[c].got = g /\ task'[c].ret = n /\ task'[c].head = h /\ task'[c].pc = pc
  <2>1. TasksType /\ c \in Conns /\ pc \in {"recv", "handle"} /\ h \in 0..Junk /\ g \in Nat /\ n \in Nat
    BY <1>0, <1>3, <1>6, <1>8
  <2>. QED  BY <1>10, <2>1, TaskUpdate, ZenonT(60)
<1> DEFINE t == conn[c].taken + n
<1>14. t \in Nat /\ conn' = [conn EXCEPT ![c].taken = t]
  BY <1>3, <1>5
<1> HIDE DEF t
<1>15. /\ ConnsType' /\ OtherConns(c) /\ conn'[c].taken = t /\ conn'[c].sent = conn[c].sent
       /\ conn'[c].open = conn[c].open /\ conn'[c].peer = conn[c].peer /\ conn'[c].reqs = conn[c].reqs
  BY <1>0, <1>14, TakenUpdate
<1>16. Receives(c, n)
  BY <1>1, <1>3, <1>8, <1>9, <1>13, <1>15 DEF Receives, h, g, t
<1>. QED  BY <1>3, <1>13, <1>15, <1>16

\* A request is put after the others.
OneMore(c) ==
  /\ conn[c].peer = "up" /\ OtherConns(c)
  /\ conn'[c].open = conn[c].open /\ conn'[c].peer = conn[c].peer /\ conn'[c].taken = conn[c].taken
  /\ Len(conn'[c].reqs) = Len(conn[c].reqs) + 1 /\ Len(conn'[c].reqs) <= Requests
  /\ \A m \in 1..Len(conn[c].reqs) : conn'[c].reqs[m] = conn[c].reqs[m]
  /\ conn'[c].reqs[Len(conn[c].reqs) + 1].at = conn[c].sent
  /\ conn'[c].sent > conn[c].sent

LEMMA RequestDoes ==
  ASSUME TypeOK, NEW c \in Conns, NEW k \in Kinds, NEW n \in Lengths, Request(c, k, n)
  PROVE  ConnsType' /\ OneMore(c)
<1>0. ConnsType /\ Requests \in Nat \ {0} /\ env.most \in 1..Requests /\ n \in Nat \ {0}
  BY TypeParts, Constants, SettingsAssumption DEF SettingType
<1> DEFINE r == conn[c].reqs
           x == [kind |-> k, len |-> n, at |-> conn[c].sent]
           r2 == Append(r, x)
           s2 == conn[c].sent + n
<1>1. r \in Seq(Req) /\ Len(r) \in Nat /\ conn[c].sent \in Nat
  BY <1>0, ReqsType
<1>2. Len(r) < Requests
  BY <1>0, <1>1 DEF Request
<1>3. x \in Req /\ x.at = conn[c].sent
  BY <1>1 DEF Req
<1>4. conn' = [conn EXCEPT ![c].reqs = r2, ![c].sent = s2]
  BY Zenon DEF Request
<1> HIDE DEF x
<1>5. /\ r2 \in Seq(Req) /\ Len(r2) = Len(r) + 1
      /\ \A m \in 1..Len(r) : r2[m] = r[m]
      /\ r2[Len(r) + 1] = x
  BY <1>1, <1>3, AppendProperties
<1>6. s2 \in Nat /\ s2 > conn[c].sent
  BY <1>0, <1>1
<1> HIDE DEF r2, s2
<1>7. /\ ConnsType' /\ OtherConns(c) /\ conn'[c].sent = s2 /\ conn'[c].reqs = r2
      /\ conn'[c].open = conn[c].open /\ conn'[c].peer = conn[c].peer /\ conn'[c].taken = conn[c].taken
  <2>1. ConnsType'
    BY ZenonT(60), <1>0, <1>4, <1>5, <1>6 DEF ConnsType, ConnType
  <2>. QED  BY <1>0, <1>4, <2>1 DEF ConnsType, ConnType, OtherConns
<1>8. conn[c].peer = "up"
  BY DEF Request
<1>. QED  BY <1>0, <1>1, <1>2, <1>3, <1>5, <1>6, <1>7, <1>8 DEF OneMore

(* A handler runs at most once for what is in the buffer.              *)
LEMMA HandleDoes ==
  ASSUME TypeOK, NEW c \in Conns, Handle(c)
  PROVE  /\ TasksType' /\ MadeType' /\ OtherTasks(c) /\ task[c].pc = "handle"
         /\ task'[c].slot = task[c].slot /\ task'[c].pbuf = task[c].pbuf
         /\ task'[c].head = task[c].head /\ task'[c].got = task[c].got /\ task'[c].ret = task[c].ret
         /\ task'[c].reply = Answer(c)
         /\ task'[c].pc = IF Answer(c) = "none" THEN "recv" ELSE "send"
         /\ Answer(c) = "ok" => Accepted(c)
         /\ Accepted(c) => Answer(c) = IF Kind(c) = "silent" THEN "none" ELSE "ok"
         /\ \A d \in Conns : \A m \in 1..Requests :
              made'[d][m] = IF Accepted(c) /\ d = c /\ m = task[c].head THEN made[d][m] + task[c].ret ELSE made[d][m]
<1>0. TasksType /\ MadeType
  BY TypeParts
<1>1. Answer(c) \in {"none", "ok", "invalid", "zeros"} /\ (Answer(c) = "ok" => Accepted(c))
      /\ (Accepted(c) => Answer(c) = IF Kind(c) = "silent" THEN "none" ELSE "ok")
  BY DEF Answer, Accepted
<1> DEFINE a == Answer(c)
           pc == IF a = "none" THEN "recv" ELSE "send"
<1>2. pc \in {"recv", "send"} /\ task[c].pc = "handle"
  BY DEF Handle
<1>3. task' = [task EXCEPT ![c].reply = a, ![c].pc = pc]
  BY DEF Handle
<1> HIDE DEF a, pc
<1>4. TasksType'
  BY <1>0, <1>1, <1>2, <1>3 DEF TasksType, TaskType, a
<1>5. OtherTasks(c) /\ task'[c].slot = task[c].slot /\ task'[c].pbuf = task[c].pbuf
  BY <1>0, <1>3 DEF TasksType, TaskType, OtherTasks
<1>6. task'[c].head = task[c].head /\ task'[c].got = task[c].got /\ task'[c].ret = task[c].ret
  BY <1>0, <1>3 DEF TasksType, TaskType
<1>7. task'[c].reply = a /\ task'[c].pc = pc
  BY <1>0, <1>3 DEF TasksType, TaskType
<1> DEFINE h == task[c].head
           n == task[c].ret
<1>8. CASE Accepted(c)
  <2>1. made' = [made EXCEPT ![c][h] = made[c][h] + n]
    BY <1>8 DEF Handle
  <2>0. n \in Nat
    BY <1>0 DEF TasksType, TaskType
  <2> HIDE DEF h, n
  <2>2. \A d \in Conns : \A m \in 1..Requests :
          made'[d][m] = IF d = c /\ m = h THEN made[d][m] + n ELSE made[d][m]
    BY <1>0, <2>1 DEF MadeType
  <2>3. MadeType'
    <3>1. \A d \in Conns : DOMAIN made'[d] = 1..Requests /\ made'[d] = [m \in 1..Requests |-> made'[d][m]]
      BY <1>0, <2>1 DEF MadeType
    <3>2. \A d \in Conns : \A m \in 1..Requests : made'[d][m] \in Nat
      <4>1. \A d \in Conns : \A m \in 1..Requests : made[d][m] \in Nat
        BY <1>0 DEF MadeType
      <4>. QED  BY <2>0, <2>2, <4>1
    <3>3. \A d \in Conns : made'[d] \in [1..Requests -> Nat]
      BY <3>1, <3>2
    <3>4. made' = [d \in Conns |-> made'[d]]
      BY <1>0, <2>1, Zenon DEF MadeType
    <3>. QED  BY <3>3, <3>4 DEF MadeType
  <2>. QED  BY <1>1, <1>2, <1>4, <1>5, <1>6, <1>7, <1>8, <2>2, <2>3, Zenon DEF a, pc, h, n
<1>9. CASE ~Accepted(c)
  <2>1. made' = made
    BY <1>9 DEF Handle
  <2>2. MadeType'
    BY <1>0, <2>1 DEF MadeType
  <2>. QED  BY <1>1, <1>2, <1>4, <1>5, <1>6, <1>7, <1>9, <2>1, <2>2, Zenon DEF a, pc
<1>. QED  BY <1>8, <1>9

(* An answer goes to the task's own peer.                                  *)
LEMMA SendDoes ==
  ASSUME TypeOK, SlotsHeld, Served, NEW c \in Conns, Send(c)
  PROVE  /\ TasksType' /\ BackType' /\ OtherTasks(c) /\ task[c].pc = "send"
         /\ task'[c].slot = task[c].slot /\ task'[c].pbuf = "out" /\ task'[c].pc = "recv"
         /\ task'[c].head = task[c].head /\ task'[c].got = task[c].got
         /\ back'[c] = Append(back[c], task[c].reply)
         /\ \A d \in Conns \ {c} : back'[d] = back[d]
<1>0. TasksType /\ BackType
  BY TypeParts
<1>1. task[c].pc = "send" /\ Sid(c) = c
  BY OwnSid DEF Send, Held
<1>2. task' = [task EXCEPT ![c].pbuf = "out", ![c].reply = "none", ![c].pc = "recv"]
  BY DEF Send
<1>3. TasksType'
  <2>1. task'[c] \in TaskType
    BY <1>0, <1>2 DEF TasksType, TaskType
  <2>2. \A d \in Conns : task'[d] \in TaskType
    BY <1>0, <1>2, <2>1 DEF TasksType
  <2>3. DOMAIN task' = Conns /\ task' = [d \in Conns |-> task'[d]]
    BY <1>0, <1>2, Zenon DEF TasksType
  <2>. QED  BY <2>2, <2>3 DEF TasksType, TaskType
<1>4. OtherTasks(c) /\ task'[c].slot = task[c].slot
  BY <1>0, <1>2 DEF TasksType, TaskType, OtherTasks
<1>5. task'[c].pbuf = "out" /\ task'[c].pc = "recv"
  BY <1>0, <1>2 DEF TasksType, TaskType
<1>6. task'[c].head = task[c].head /\ task'[c].got = task[c].got
  BY <1>0, <1>2 DEF TasksType, TaskType
<1> DEFINE r == task[c].reply
<1>7. r \in {"ok", "invalid", "zeros"}
  BY <1>0, <1>1 DEF TasksType, TaskType, Served, ServedAt, InBufferAt
<1>8. back' = [back EXCEPT ![c] = Append(back[c], r)]
  BY <1>1 DEF Send
<1> HIDE DEF r
<1>9. BackType' /\ back'[c] = Append(back[c], r) /\ \A d \in Conns \ {c} : back'[d] = back[d]
  <2>1. back[c] \in Seq({"ok", "invalid", "zeros"})
    BY <1>0 DEF BackType
  <2> DEFINE b == Append(back[c], r)
  <2>2. b \in Seq({"ok", "invalid", "zeros"})
    BY <1>7, <2>1
  <2>3. back' = [back EXCEPT ![c] = b]
    BY <1>8
  <2> HIDE DEF b
  <2>4. BackType' /\ back'[c] = b /\ \A d \in Conns \ {c} : back'[d] = back[d]
    BY <1>0, <2>2, <2>3 DEF BackType
  <2>. QED  BY <2>4 DEF b
<1>. QED  BY <1>1, <1>3, <1>4, <1>5, <1>6, <1>9 DEF r

(* close() changes nothing but that the connection is open.                *)
LEMMA CloseDoes ==
  ASSUME TypeOK, NEW c \in Conns, Close(c)
  PROVE  /\ ConnsType' /\ Moves(c, "unset") /\ TasksType'
         /\ \A d \in Conns : /\ conn'[d].peer = conn[d].peer /\ conn'[d].reqs = conn[d].reqs
                             /\ conn'[d].sent = conn[d].sent /\ conn'[d].taken = conn[d].taken
                             /\ (d # Sid(c) \/ conn'[d].open) => conn'[d] = conn[d]
         /\ Sid(c) \in Conns => ~conn'[Sid(c)].open
<1>0. ConnsType /\ TasksType /\ SlotsType /\ NoConn \notin Conns
  BY TypeParts, Constants
<1>1. Moves(c, "unset") /\ TasksType'
  BY <1>0, GotoMoves DEF Close
<1> DEFINE e == Sid(c)
<1>2. CASE e = NoConn
  <2>1. conn' = conn
    BY <1>2 DEF Close
  <2>. QED  BY <1>0, <1>1, <1>2, <2>1 DEF ConnsType, ConnType
<1>3. CASE e # NoConn
  <2>1. e \in Conns
    BY <1>0, <1>3 DEF Sid, SlotsType, SlotType, TasksType, TaskType
  <2>2. conn' = [conn EXCEPT ![e].open = FALSE]
    BY <1>3 DEF Close
  <2> HIDE DEF e
  <2>3. ConnsType' /\ ~conn'[e].open
    BY <1>0, <2>1, <2>2 DEF ConnsType, ConnType
  <2>4. conn'[e].peer = conn[e].peer /\ conn'[e].reqs = conn[e].reqs
    BY <1>0, <2>1, <2>2 DEF ConnsType, ConnType
  <2>5. conn'[e].sent = conn[e].sent /\ conn'[e].taken = conn[e].taken
    BY <1>0, <2>1, <2>2 DEF ConnsType, ConnType
  <2>6. \A d \in Conns \ {e} : conn'[d] = conn[d]
    BY <1>0, <2>1, <2>2 DEF ConnsType, ConnType
  <2>7. ASSUME NEW d \in Conns
        PROVE  /\ conn'[d].peer = conn[d].peer /\ conn'[d].reqs = conn[d].reqs
               /\ conn'[d].sent = conn[d].sent /\ conn'[d].taken = conn[d].taken
               /\ (d # e \/ conn'[d].open) => conn'[d] = conn[d]
    BY <2>3, <2>4, <2>5, <2>6
  <2>. QED  BY <1>1, <2>1, <2>3, <2>7 DEF e
<1>. QED  BY <1>2, <1>3

(* The pool drops the tasks that wait.                                     *)
LEMMA AcceptFailsDoes ==
  ASSUME TypeOK, AcceptFails
  PROVE  /\ TasksType'
         /\ \A c \in Conns :
              /\ task'[c].pc = IF task[c].pc = "queued" THEN "gone" ELSE task[c].pc
              /\ task'[c].slot = task[c].slot /\ task'[c].pbuf = task[c].pbuf /\ task'[c].head = task[c].head
              /\ task'[c].got = task[c].got /\ task'[c].reply = task[c].reply /\ task'[c].ret = task[c].ret
<1>0. TasksType
  BY TypeParts
<1>1. task' = [c \in Conns |-> IF task[c].pc = "queued" THEN [task[c] EXCEPT !.pc = "gone"] ELSE task[c]]
  BY DEF AcceptFails
<1>2. ASSUME NEW c \in Conns, task[c].pc = "queued"
      PROVE  /\ task'[c] \in TaskType /\ task'[c].pc = "gone"
             /\ task'[c].slot = task[c].slot /\ task'[c].pbuf = task[c].pbuf /\ task'[c].head = task[c].head
             /\ task'[c].got = task[c].got /\ task'[c].reply = task[c].reply /\ task'[c].ret = task[c].ret
  <2> DEFINE t == task[c]
  <2>1. task'[c] = [t EXCEPT !.pc = "gone"] /\ t \in TaskType
    BY <1>0, <1>1, <1>2 DEF TasksType
  <2> HIDE DEF t
  <2>2. [t EXCEPT !.pc = "gone"] \in TaskType
    BY <2>1 DEF TaskType
  <2>3. /\ [t EXCEPT !.pc = "gone"].pc = "gone" /\ [t EXCEPT !.pc = "gone"].slot = t.slot
        /\ [t EXCEPT !.pc = "gone"].pbuf = t.pbuf /\ [t EXCEPT !.pc = "gone"].head = t.head
        /\ [t EXCEPT !.pc = "gone"].got = t.got /\ [t EXCEPT !.pc = "gone"].reply = t.reply
        /\ [t EXCEPT !.pc = "gone"].ret = t.ret
    BY <2>1 DEF TaskType
  <2>. QED  BY <2>1, <2>2, <2>3, Zenon DEF t
<1>3. ASSUME NEW c \in Conns, task[c].pc # "queued"
      PROVE  task'[c] \in TaskType /\ task'[c] = task[c]
  BY <1>0, <1>1, <1>3 DEF TasksType
<1>4. TasksType'
  <2>1. \A c \in Conns : task'[c] \in TaskType
    BY <1>2, <1>3
  <2>2. task' = [c \in Conns |-> task'[c]]
    BY <1>1, Zenon
  <2>. QED  BY <2>1, <2>2 DEF TasksType, TaskType
<1>. QED  BY <1>2, <1>3, <1>4

(* A peer connects, or leaves.                                             *)
LEMMA PeerDoes ==
  ASSUME TypeOK, NEW c \in Conns
  PROVE  /\ Connect(c) => /\ ConnsType' /\ OtherConns(c) /\ conn[c].peer = "none"
                          /\ conn'[c].peer = "up" /\ conn'[c].open
                          /\ conn'[c].sent = conn[c].sent /\ conn'[c].taken = conn[c].taken /\ conn'[c].reqs = conn[c].reqs
         /\ Leave(c) => /\ ConnsType' /\ OtherConns(c) /\ conn[c].peer = "up" /\ conn'[c].peer = "gone"
                        /\ conn'[c].open = conn[c].open
                        /\ conn'[c].sent = conn[c].sent /\ conn'[c].taken = conn[c].taken /\ conn'[c].reqs = conn[c].reqs
<1>0. ConnsType
  BY TypeParts
<1>1. ASSUME Connect(c)
      PROVE  ConnsType' /\ OtherConns(c) /\ conn[c].peer = "none" /\ conn'[c].peer = "up" /\ conn'[c].open
             /\ conn'[c].sent = conn[c].sent /\ conn'[c].taken = conn[c].taken /\ conn'[c].reqs = conn[c].reqs
  <2>1. conn[c].peer = "none" /\ conn' = [conn EXCEPT ![c].peer = "up", ![c].open = TRUE]
    BY <1>1 DEF Connect
  <2>2. ConnsType'
    BY <1>0, <2>1 DEF ConnsType, ConnType
  <2>3. OtherConns(c)
    BY <1>0, <2>1 DEF ConnsType, ConnType, OtherConns
  <2>4. conn'[c].peer = "up" /\ conn'[c].open
    BY <1>0, <2>1 DEF ConnsType, ConnType
  <2>5. conn'[c].sent = conn[c].sent /\ conn'[c].taken = conn[c].taken /\ conn'[c].reqs = conn[c].reqs
    BY <1>0, <2>1 DEF ConnsType, ConnType
  <2>. QED  BY <2>1, <2>2, <2>3, <2>4, <2>5
<1>2. ASSUME Leave(c)
      PROVE  ConnsType' /\ OtherConns(c) /\ conn[c].peer = "up" /\ conn'[c].peer = "gone"
             /\ conn'[c].open = conn[c].open
             /\ conn'[c].sent = conn[c].sent /\ conn'[c].taken = conn[c].taken /\ conn'[c].reqs = conn[c].reqs
  <2>1. conn[c].peer = "up" /\ conn' = [conn EXCEPT ![c].peer = "gone"]
    BY <1>2 DEF Leave
  <2>2. ConnsType'
    BY <1>0, <2>1 DEF ConnsType, ConnType
  <2>. QED  BY <1>0, <2>1, <2>2 DEF ConnsType, ConnType, OtherConns
<1>. QED  BY <1>1, <1>2

(* A slot is used or given back, filled or emptied.                        *)
LEMMA SlotDoes ==
  ASSUME TypeOK, NEW i \in Slots
  PROVE  /\ \A b \in BOOLEAN : slot' = [slot EXCEPT ![i].used = b] =>
              SlotsType' /\ OtherSlots(i) /\ slot'[i].used = b /\ slot'[i].sid = slot[i].sid
         /\ \A s \in Conns \cup {NoConn} : slot' = [slot EXCEPT ![i].sid = s] =>
              SlotsType' /\ OtherSlots(i) /\ slot'[i].sid = s /\ slot'[i].used = slot[i].used
<1>0. SlotsType
  BY TypeParts
<1>1. ASSUME NEW b \in BOOLEAN, slot' = [slot EXCEPT ![i].used = b]
      PROVE  SlotsType' /\ OtherSlots(i) /\ slot'[i].used = b /\ slot'[i].sid = slot[i].sid
  <2>1. SlotsType'
    BY <1>0, <1>1 DEF SlotsType, SlotType
  <2>2. OtherSlots(i) /\ slot'[i].sid = slot[i].sid
    BY <1>0, <1>1 DEF SlotsType, SlotType, OtherSlots
  <2>3. slot'[i].used = b
    BY <1>0, <1>1, Zenon DEF SlotsType, SlotType
  <2>. QED  BY <2>1, <2>2, <2>3
<1>2. ASSUME NEW s \in Conns \cup {NoConn}, slot' = [slot EXCEPT ![i].sid = s]
      PROVE  SlotsType' /\ OtherSlots(i) /\ slot'[i].sid = s /\ slot'[i].used = slot[i].used
  <2>1. SlotsType'
    BY <1>0, <1>2 DEF SlotsType, SlotType
  <2>2. OtherSlots(i) /\ slot'[i].sid = s
    BY <1>0, <1>2 DEF SlotsType, SlotType, OtherSlots
  <2>3. slot'[i].used = slot[i].used
    BY <1>0, <1>2 DEF SlotsType, SlotType
  <2>. QED  BY <2>1, <2>2, <2>3
<1>. QED  BY <1>1, <1>2

(* A slot is filled, and the task for it queued.                           *)
LEMMA FillDoes ==
  ASSUME TypeOK, MainAt, Fill
  PROVE  LET c == main.sid IN
         /\ c \in Conns /\ TasksType' /\ SlotsType' /\ MainType' /\ OtherTasks(c) /\ OtherSlots(main.i)
         /\ task'[c] = TaskAt("queued", main.i) /\ main'.pc = "accept"
         /\ slot'[main.i].sid = c /\ slot'[main.i].used = slot[main.i].used /\ main.i \in Slots
<1>0. TasksType /\ main.i \in Slots /\ main.sid \in Conns /\ Workers \in Nat \ {0} /\ NoConn \notin Conns
  BY TypeParts, Constants DEF MainType, MainAt, Fill
<1> DEFINE c == main.sid
           i == main.i
<1>1. task' = [task EXCEPT ![c] = TaskAt("queued", i)]
  BY DEF Fill
<1>2. TaskAt("queued", i) \in TaskType
  BY <1>0, Constants DEF TaskAt, TaskType, Nothing
<1>3. TasksType' /\ OtherTasks(c) /\ task'[c] = TaskAt("queued", i)
  BY <1>0, <1>1, <1>2 DEF TasksType, TaskType, OtherTasks
<1>4. SlotsType' /\ OtherSlots(i) /\ slot'[i].sid = c /\ slot'[i].used = slot[i].used
  BY <1>0, SlotDoes DEF Fill
<1>5. NextSlot \in Slots
  BY <1>0 DEF NextSlot, Slots
<1>6. MainType' /\ main'.pc = "accept"
  BY <1>5 DEF MainType, Fill
<1>. QED  BY <1>0, <1>3, <1>4, <1>6

(* The other changes of slots and tasks.                             *)

LEMMA SearchDoes ==
  ASSUME TypeOK, Search
  PROVE  /\ main.pc = "search" /\ main.i \in Slots /\ MainType' /\ SlotsType' /\ main'.sid = main.sid
         /\ \/ main'.pc = "search" /\ slot' = slot
            \/ /\ main'.pc = "fill" /\ main'.i = main.i /\ ~slot[main.i].used
               /\ OtherSlots(main.i) /\ slot'[main.i].used /\ slot'[main.i].sid = slot[main.i].sid
               /\ ~env.quick => \A c \in Running : task[c].slot # main.i
<1>0. SlotsType /\ MainType /\ main.i \in Slots /\ main.pc = "search" /\ Workers \in Nat \ {0}
  BY TypeParts, Constants DEF MainType, Search
<1>1. CASE slot[main.i].used
  <2>1. main' = [pc |-> "search", sid |-> main.sid, i |-> NextSlot] /\ slot' = slot
    BY <1>1 DEF Search
  <2>2. NextSlot \in Slots
    BY <1>0 DEF NextSlot, Slots
  <2>. QED  BY <1>0, <2>1, <2>2 DEF MainType, SlotsType, SlotType
<1>2. CASE ~slot[main.i].used
  <2>1. /\ main' = [pc |-> "fill", sid |-> main.sid, i |-> main.i]
        /\ slot' = [slot EXCEPT ![main.i].used = TRUE]
        /\ ~env.quick => \A c \in Running : task[c].slot # main.i
    BY <1>2 DEF Search, Goes
  <2>2. SlotsType' /\ OtherSlots(main.i) /\ slot'[main.i].used = TRUE /\ slot'[main.i].sid = slot[main.i].sid
    BY <1>0, <2>1, SlotDoes
  <2>. QED  BY <1>0, <1>2, <2>1, <2>2 DEF MainType
<1>. QED  BY <1>1, <1>2

LEMMA ReleaseDoes ==
  ASSUME TypeOK, NEW c \in Conns, Release(c)
  PROVE  /\ Moves(c, "close") /\ TasksType' /\ SlotsType' /\ task[c].pc = "end" /\ task[c].slot \in Slots
         /\ OtherSlots(task[c].slot) /\ slot'[task[c].slot].sid = slot[task[c].slot].sid
<1>0. TasksType /\ task[c].slot \in Slots
  BY TypeParts DEF TasksType, TaskType
<1>1. Moves(c, "close") /\ TasksType' /\ task[c].pc = "end"
  BY <1>0, GotoMoves DEF Release
<1>2. slot' = [slot EXCEPT ![task[c].slot].used = FALSE]
  BY DEF Release
<1>. QED  BY <1>0, <1>1, <1>2, SlotDoes

LEMMA UnsetDoes ==
  ASSUME TypeOK, NEW c \in Conns, Unset(c)
  PROVE  /\ Moves(c, "gone") /\ TasksType' /\ SlotsType' /\ task[c].pc = "unset" /\ task[c].slot \in Slots
         /\ OtherSlots(task[c].slot) /\ slot'[task[c].slot].sid = NoConn
         /\ slot'[task[c].slot].used = slot[task[c].slot].used
<1>0. TasksType /\ task[c].slot \in Slots
  BY TypeParts DEF TasksType, TaskType
<1>1. Moves(c, "gone") /\ TasksType' /\ task[c].pc = "unset"
  BY <1>0, GotoMoves DEF Unset
<1>2. slot' = [slot EXCEPT ![task[c].slot].sid = NoConn]
  BY DEF Unset
<1>. QED  BY <1>0, <1>1, <1>2, SlotDoes

-----------------------------------------------------------------------------
(* One step.                                                               *)

LEMMA TypeStep ==
  ASSUME TypeOK, SlotsHeld, MainAt, Served, [Next]_vars
  PROVE  (ConnsType /\ SlotsType /\ MainType /\ TasksType /\ MadeType /\ BackType)'
<1>0. ConnsType /\ SlotsType /\ MainType /\ TasksType /\ MadeType /\ BackType
  BY TypeParts
<1>1. ASSUME NEW c \in Conns, Connect(c) PROVE (ConnsType /\ SlotsType /\ MainType /\ TasksType /\ MadeType /\ BackType)'
  BY <1>0, <1>1, PeerDoes DEF Connect, ConnsType, ConnType, SlotsType, SlotType, MainType, TasksType, TaskType, MadeType, BackType, Goes
<1>2. ASSUME NEW c \in Conns, NEW k \in Kinds, NEW n \in Lengths, Request(c, k, n) PROVE (ConnsType /\ SlotsType /\ MainType /\ TasksType /\ MadeType /\ BackType)'
  BY <1>0, <1>2, RequestDoes DEF Request, ConnsType, ConnType, SlotsType, SlotType, MainType, TasksType, TaskType, MadeType, BackType, Goes
<1>3. ASSUME NEW c \in Conns, Leave(c) PROVE (ConnsType /\ SlotsType /\ MainType /\ TasksType /\ MadeType /\ BackType)'
  BY <1>0, <1>3, PeerDoes DEF Leave, ConnsType, ConnType, SlotsType, SlotType, MainType, TasksType, TaskType, MadeType, BackType, Goes
<1>4. ASSUME Listen PROVE (ConnsType /\ SlotsType /\ MainType /\ TasksType /\ MadeType /\ BackType)'
  BY <1>0, <1>4, Constants DEF Listen, ConnsType, ConnType, SlotsType, SlotType, MainType, TasksType, TaskType, MadeType, BackType, Goes
<1>5. ASSUME NoMemory PROVE (ConnsType /\ SlotsType /\ MainType /\ TasksType /\ MadeType /\ BackType)'
  BY <1>0, <1>5 DEF NoMemory, ConnsType, ConnType, SlotsType, SlotType, MainType, TasksType, TaskType, MadeType, BackType, Goes
<1>6. ASSUME NEW c \in Conns, Accept(c) PROVE (ConnsType /\ SlotsType /\ MainType /\ TasksType /\ MadeType /\ BackType)'
  BY <1>0, <1>6 DEF Accept, ConnsType, ConnType, SlotsType, SlotType, MainType, TasksType, TaskType, MadeType, BackType, Goes
<1>7. ASSUME AcceptFails PROVE (ConnsType /\ SlotsType /\ MainType /\ TasksType /\ MadeType /\ BackType)'
  BY <1>0, <1>7, AcceptFailsDoes DEF AcceptFails, ConnsType, ConnType, SlotsType, SlotType, MainType, TasksType, TaskType, MadeType, BackType, Goes
<1>8. ASSUME Destroyed PROVE (ConnsType /\ SlotsType /\ MainType /\ TasksType /\ MadeType /\ BackType)'
  BY <1>0, <1>8 DEF Destroyed, ConnsType, ConnType, SlotsType, SlotType, MainType, TasksType, TaskType, MadeType, BackType, Goes
<1>9. ASSUME Search PROVE (ConnsType /\ SlotsType /\ MainType /\ TasksType /\ MadeType /\ BackType)'
  BY <1>0, <1>9, SearchDoes DEF Search, ConnsType, ConnType, SlotsType, SlotType, MainType, TasksType, TaskType, MadeType, BackType, Goes
<1>10. ASSUME Fill PROVE (ConnsType /\ SlotsType /\ MainType /\ TasksType /\ MadeType /\ BackType)'
  BY <1>0, <1>10, FillDoes DEF Fill, ConnsType, ConnType, SlotsType, SlotType, MainType, TasksType, TaskType, MadeType, BackType, Goes
<1>11. ASSUME NEW c \in Conns, Begin(c) PROVE (ConnsType /\ SlotsType /\ MainType /\ TasksType /\ MadeType /\ BackType)'
  <2>1. TasksType'
    BY <1>0, <1>11, GotoMoves DEF Begin
  <2>. QED  BY <1>0, <1>11, <2>1 DEF Begin, ConnsType, ConnType, SlotsType, SlotType, MainType, TasksType, TaskType, MadeType, BackType, Goes
<1>12. ASSUME NEW c \in Conns, Recv(c) PROVE (ConnsType /\ SlotsType /\ MainType /\ TasksType /\ MadeType /\ BackType)'
  BY <1>0, <1>12, RecvReceives DEF Recv, ConnsType, ConnType, SlotsType, SlotType, MainType, TasksType, TaskType, MadeType, BackType, Goes
<1>13. ASSUME NEW c \in Conns, RecvEnds(c) PROVE (ConnsType /\ SlotsType /\ MainType /\ TasksType /\ MadeType /\ BackType)'
  <2>1. TasksType'
    BY <1>0, <1>13, GotoMoves DEF RecvEnds
  <2>. QED  BY <1>0, <1>13, <2>1 DEF RecvEnds, ConnsType, ConnType, SlotsType, SlotType, MainType, TasksType, TaskType, MadeType, BackType, Goes
<1>14. ASSUME NEW c \in Conns, Handle(c) PROVE (ConnsType /\ SlotsType /\ MainType /\ TasksType /\ MadeType /\ BackType)'
  BY <1>0, <1>14, HandleDoes DEF Handle, ConnsType, ConnType, SlotsType, SlotType, MainType, TasksType, TaskType, MadeType, BackType, Goes
<1>15. ASSUME NEW c \in Conns, Send(c) PROVE (ConnsType /\ SlotsType /\ MainType /\ TasksType /\ MadeType /\ BackType)'
  BY <1>0, <1>15, SendDoes DEF Send, ConnsType, ConnType, SlotsType, SlotType, MainType, TasksType, TaskType, MadeType, BackType, Goes
<1>16. ASSUME NEW c \in Conns, SendFails(c) PROVE (ConnsType /\ SlotsType /\ MainType /\ TasksType /\ MadeType /\ BackType)'
  <2>1. TasksType'
    BY <1>0, <1>16, GotoMoves DEF SendFails
  <2>. QED  BY <1>0, <1>16, <2>1 DEF SendFails, ConnsType, ConnType, SlotsType, SlotType, MainType, TasksType, TaskType, MadeType, BackType, Goes
<1>17. ASSUME NEW c \in Conns, Release(c) PROVE (ConnsType /\ SlotsType /\ MainType /\ TasksType /\ MadeType /\ BackType)'
  BY <1>0, <1>17, ReleaseDoes DEF Release, ConnsType, ConnType, SlotsType, SlotType, MainType, TasksType, TaskType, MadeType, BackType, Goes
<1>18. ASSUME NEW c \in Conns, Close(c) PROVE (ConnsType /\ SlotsType /\ MainType /\ TasksType /\ MadeType /\ BackType)'
  BY <1>0, <1>18, CloseDoes DEF Close, ConnsType, ConnType, SlotsType, SlotType, MainType, TasksType, TaskType, MadeType, BackType, Goes
<1>19. ASSUME NEW c \in Conns, Unset(c) PROVE (ConnsType /\ SlotsType /\ MainType /\ TasksType /\ MadeType /\ BackType)'
  BY <1>0, <1>19, UnsetDoes DEF Unset, ConnsType, ConnType, SlotsType, SlotType, MainType, TasksType, TaskType, MadeType, BackType, Goes
<1>20. CASE UNCHANGED vars
  BY <1>0, <1>20 DEF vars, ConnsType, ConnType, SlotsType, SlotType, MainType, TasksType, TaskType, MadeType, BackType, Goes
<1>. QED
  BY <1>1, <1>2, <1>3, <1>4, <1>5, <1>6, <1>7, <1>8, <1>9, <1>10, <1>11, <1>12, <1>13, <1>14, <1>15, <1>16, <1>17, <1>18, <1>19, <1>20 DEF Next, Run, Task

LEMMA SlotsStep ==
  ASSUME TypeOK, SlotsHeld, MainAt, Patient, Served, [Next]_vars
  PROVE  SlotsHeld'
<1>0. /\ ConnsType /\ SlotsType /\ MainType /\ TasksType /\ env' = env /\ main.i \in Slots /\ NoConn \notin Conns
      /\ \A d \in Conns : task[d].slot \in Slots
  BY TypeParts, Constants, Fixed DEF MainType, TasksType, TaskType
<1>1. ASSUME NEW c \in Conns, Connect(c) PROVE SlotsHeld'
  BY <1>0, <1>1 DEF Connect, SlotsHeld, Held
<1>2. ASSUME NEW c \in Conns, NEW k \in Kinds, NEW n \in Lengths, Request(c, k, n) PROVE SlotsHeld'
  BY <1>0, <1>2 DEF Request, SlotsHeld, Held
<1>3. ASSUME NEW c \in Conns, Leave(c) PROVE SlotsHeld'
  BY <1>0, <1>3 DEF Leave, SlotsHeld, Held
<1>4. ASSUME Listen PROVE SlotsHeld'
  <2>1. \A d \in Conns : ~Held(d)
    BY <1>4 DEF Listen, MainAt, Live
  <2>. QED  BY <1>0, <1>4, <2>1 DEF Listen, SlotsHeld, Held
<1>5. ASSUME NoMemory PROVE SlotsHeld'
  BY <1>0, <1>5 DEF NoMemory, SlotsHeld, Held
<1>6. ASSUME NEW c \in Conns, Accept(c) PROVE SlotsHeld'
  BY <1>0, <1>6 DEF Accept, SlotsHeld, Held
<1>7. ASSUME AcceptFails PROVE SlotsHeld'
  <2>1. \A d \in Conns : /\ task'[d].pc = IF task[d].pc = "queued" THEN "gone" ELSE task[d].pc
                         /\ task'[d].slot = task[d].slot
    BY <1>7, AcceptFailsDoes
  <2>. QED  BY <1>0, <1>7, <2>1 DEF AcceptFails, Goes, SlotsHeld, Held
<1>8. ASSUME Destroyed PROVE SlotsHeld'
  BY <1>0, <1>8 DEF Destroyed, SlotsHeld, Held
<1>9. ASSUME Search PROVE SlotsHeld'
  <2>1. \/ main'.pc = "search" /\ slot' = slot
        \/ /\ main'.pc = "fill" /\ main'.i = main.i /\ ~slot[main.i].used
           /\ OtherSlots(main.i) /\ slot'[main.i].used /\ slot'[main.i].sid = slot[main.i].sid
           /\ ~env.quick => \A c \in Running : task[c].slot # main.i
    BY <1>9, SearchDoes
  <2>2. main.pc = "search" /\ main'.sid = main.sid /\ task' = task /\ conn' = conn
    BY <1>9, SearchDoes DEF Search
  <2>. QED  BY <1>0, <2>1, <2>2 DEF OtherSlots, Running, SlotsHeld, Held
<1>10. ASSUME Fill PROVE SlotsHeld'
  <2> DEFINE e == main.sid
  <2>1. /\ e \in Conns /\ OtherTasks(e) /\ OtherSlots(main.i) /\ task'[e] = TaskAt("queued", main.i)
        /\ main'.pc = "accept" /\ slot'[main.i].sid = e /\ slot'[main.i].used = slot[main.i].used
    BY <1>10, FillDoes
  <2>2. main.pc = "fill" /\ conn' = conn /\ task'[e].pc = "queued" /\ task'[e].slot = main.i
    BY <1>10, <2>1 DEF Fill, TaskAt
  <2> HIDE DEF e
  <2>3. e = main.sid
    BY DEF e
  <2>. QED  BY <1>0, <2>1, <2>2, <2>3 DEF OtherTasks, OtherSlots, SlotsHeld, Held, MainAt
<1>11. ASSUME NEW c \in Conns, Begin(c) PROVE SlotsHeld'
  <2>1. Moves(c, "recv")
    BY <1>0, <1>11, GotoMoves DEF Begin
  <2>. QED  BY <1>0, <1>11, <2>1 DEF Begin, Moves, OtherTasks, SlotsHeld, Held
<1>12. ASSUME NEW c \in Conns, Recv(c) PROVE SlotsHeld'
  <2>1. PICK n \in Nat : Receives(c, n)
    BY <1>12, RecvReceives
  <2>2. slot' = slot /\ main' = main
    BY <1>12 DEF Recv
  <2>. QED  BY <1>0, <2>1, <2>2 DEF Receives, OtherTasks, OtherConns, SlotsHeld, Held
<1>13. ASSUME NEW c \in Conns, RecvEnds(c) PROVE SlotsHeld'
  <2>1. Moves(c, "end")
    BY <1>0, <1>13, GotoMoves DEF RecvEnds
  <2>. QED  BY <1>0, <1>13, <2>1 DEF RecvEnds, Moves, OtherTasks, SlotsHeld, Held
<1>14. ASSUME NEW c \in Conns, Handle(c) PROVE SlotsHeld'
  <2>1. /\ OtherTasks(c) /\ task[c].pc = "handle" /\ task'[c].slot = task[c].slot
        /\ task'[c].pc \in {"recv", "send"}
    BY <1>14, HandleDoes
  <2>2. slot' = slot /\ main' = main /\ conn' = conn
    BY <1>14 DEF Handle
  <2>. QED  BY <1>0, <2>1, <2>2 DEF OtherTasks, SlotsHeld, Held
<1>15. ASSUME NEW c \in Conns, Send(c) PROVE SlotsHeld'
  <2>1. /\ OtherTasks(c) /\ task[c].pc = "send" /\ task'[c].slot = task[c].slot /\ task'[c].pc = "recv"
    BY <1>15, SendDoes
  <2>2. slot' = slot /\ main' = main /\ conn' = conn
    BY <1>15 DEF Send
  <2>. QED  BY <1>0, <2>1, <2>2 DEF OtherTasks, SlotsHeld, Held
<1>16. ASSUME NEW c \in Conns, SendFails(c) PROVE SlotsHeld'
  <2>1. Moves(c, "end")
    BY <1>0, <1>16, GotoMoves DEF SendFails
  <2>. QED  BY <1>0, <1>16, <2>1 DEF SendFails, Moves, OtherTasks, SlotsHeld, Held
<1>17. ASSUME NEW c \in Conns, Release(c) PROVE SlotsHeld'
  <2>1. /\ Moves(c, "close") /\ task[c].pc = "end"
        /\ OtherSlots(task[c].slot) /\ slot'[task[c].slot].sid = slot[task[c].slot].sid
    BY <1>17, ReleaseDoes
  <2>2. main' = main /\ conn' = conn
    BY <1>17 DEF Release
  <2>. QED  BY <1>0, <2>1, <2>2 DEF Moves, OtherTasks, OtherSlots, SlotsHeld, Held
<1>18. ASSUME NEW c \in Conns, Close(c) PROVE SlotsHeld'
  <2>1. Moves(c, "unset") /\ slot' = slot /\ main' = main /\ task[c].pc = "close"
    BY <1>18, CloseDoes DEF Close
  <2>2. /\ \A d \in Conns : /\ conn'[d].peer = conn[d].peer
                            /\ (d # Sid(c) \/ conn'[d].open) => conn'[d] = conn[d]
        /\ Sid(c) \in Conns => ~conn'[Sid(c)].open
    BY <1>18, CloseDoes
  <2>. QED  BY <1>0, <2>1, <2>2 DEF Moves, OtherTasks, Sid, SlotsHeld, Held
<1>19. ASSUME NEW c \in Conns, Unset(c) PROVE SlotsHeld'
  <2>1. /\ Moves(c, "gone") /\ task[c].pc = "unset" /\ OtherSlots(task[c].slot)
        /\ slot'[task[c].slot].sid = NoConn /\ slot'[task[c].slot].used = slot[task[c].slot].used
    BY <1>19, UnsetDoes
  <2>2. main' = main /\ conn' = conn
    BY <1>19 DEF Unset
  <2>. QED  BY <1>0, <2>1, <2>2 DEF Moves, OtherTasks, OtherSlots, SlotsHeld, Held
<1>20. CASE UNCHANGED vars
  BY <1>0, <1>20 DEF vars, SlotsHeld, Held
<1>. QED
  BY <1>1, <1>2, <1>3, <1>4, <1>5, <1>6, <1>7, <1>8, <1>9, <1>10, <1>11, <1>12, <1>13, <1>14, <1>15, <1>16, <1>17, <1>18, <1>19, <1>20 DEF Next, Run, Task

LEMMA MainStep ==
  ASSUME TypeOK, SlotsHeld, MainAt, Patient, Served, [Next]_vars
  PROVE  MainAt'
<1>0. /\ ConnsType /\ SlotsType /\ MainType /\ TasksType /\ env' = env /\ main.i \in Slots /\ NoConn \notin Conns
      /\ \A d \in Conns : task[d].slot \in Slots
  BY TypeParts, Constants, Fixed DEF MainType, TasksType, TaskType
<1>1. ASSUME NEW c \in Conns, Connect(c) PROVE MainAt'
  <2>1. OtherConns(c) /\ conn'[c].peer = "up" /\ conn'[c].open
    BY <1>1, PeerDoes
  <2>. QED  BY ZenonT(60), <1>0, <1>1, <2>1 DEF Connect, MainAt, Held, Live, OtherConns
<1>2. ASSUME NEW c \in Conns, NEW k \in Kinds, NEW n \in Lengths, Request(c, k, n) PROVE MainAt'
  <2>1. OneMore(c)
    BY <1>2, RequestDoes
  <2>2. slot' = slot /\ main' = main /\ task' = task
    BY <1>2 DEF Request
  <2>. QED  BY <1>0, <2>1, <2>2 DEF OneMore, OtherConns, MainAt, Held, Live
<1>3. ASSUME NEW c \in Conns, Leave(c) PROVE MainAt'
  <2>1. OtherConns(c) /\ conn'[c].peer = "gone" /\ conn'[c].open = conn[c].open
    BY <1>3, PeerDoes
  <2>. QED  BY <1>0, <1>3, <2>1 DEF Leave, MainAt, Held, Live, OtherConns
<1>4. ASSUME Listen PROVE MainAt'
  BY <1>0, <1>4 DEF Listen, MainAt, Held, Live
<1>5. ASSUME NoMemory PROVE MainAt'
  BY <1>0, <1>5 DEF NoMemory, Goes, MainAt, Held, Live
<1>6. ASSUME NEW c \in Conns, Accept(c) PROVE MainAt'
  BY <1>0, <1>6 DEF Accept, Waiting, MainAt, Held, Live
<1>7. ASSUME AcceptFails PROVE MainAt'
  <2>1. \A d \in Conns : /\ task'[d].pc = IF task[d].pc = "queued" THEN "gone" ELSE task[d].pc
                         /\ task'[d].slot = task[d].slot
    BY <1>7, AcceptFailsDoes
  <2>. QED  BY <1>0, <1>7, <2>1 DEF AcceptFails, Goes, MainAt, Held, Live
<1>8. ASSUME Destroyed PROVE MainAt'
  BY <1>0, <1>8 DEF Destroyed, Goes, Running, MainAt, Held, Live
<1>9. ASSUME Search PROVE MainAt'
  <2>1. \/ main'.pc = "search" /\ slot' = slot
        \/ /\ main'.pc = "fill" /\ main'.i = main.i /\ ~slot[main.i].used
           /\ OtherSlots(main.i) /\ slot'[main.i].used /\ slot'[main.i].sid = slot[main.i].sid
           /\ ~env.quick => \A c \in Running : task[c].slot # main.i
    BY <1>9, SearchDoes
  <2>2. main.pc = "search" /\ main'.sid = main.sid /\ task' = task /\ conn' = conn
    BY <1>9, SearchDoes DEF Search
  <2>. QED  BY <1>0, <2>1, <2>2 DEF OtherSlots, Running, MainAt, Held, Live, SlotsHeld
<1>10. ASSUME Fill PROVE MainAt'
  <2> DEFINE e == main.sid
  <2>1. /\ e \in Conns /\ OtherTasks(e) /\ OtherSlots(main.i) /\ task'[e] = TaskAt("queued", main.i)
        /\ main'.pc = "accept" /\ slot'[main.i].sid = e /\ slot'[main.i].used = slot[main.i].used
    BY <1>10, FillDoes
  <2>2. main.pc = "fill" /\ conn' = conn /\ task'[e].pc = "queued" /\ task'[e].slot = main.i
    BY <1>10, <2>1 DEF Fill, TaskAt
  <2> HIDE DEF e
  <2>3. e = main.sid
    BY DEF e
  <2>. QED  BY <1>0, <2>1, <2>2, <2>3 DEF OtherTasks, OtherSlots, MainAt, Held, Live
<1>11. ASSUME NEW c \in Conns, Begin(c) PROVE MainAt'
  <2>1. Moves(c, "recv")
    BY <1>0, <1>11, GotoMoves DEF Begin
  <2>. QED  BY <1>0, <1>11, <2>1 DEF Begin, Moves, OtherTasks, MainAt, Held, Live
<1>12. ASSUME NEW c \in Conns, Recv(c) PROVE MainAt'
  <2>1. PICK n \in Nat : Receives(c, n)
    BY <1>12, RecvReceives
  <2>2. slot' = slot /\ main' = main
    BY <1>12 DEF Recv
  <2>. QED  BY <1>0, <2>1, <2>2 DEF Receives, OtherTasks, OtherConns, MainAt, Held, Live
<1>13. ASSUME NEW c \in Conns, RecvEnds(c) PROVE MainAt'
  <2>1. Moves(c, "end")
    BY <1>0, <1>13, GotoMoves DEF RecvEnds
  <2>. QED  BY <1>0, <1>13, <2>1 DEF RecvEnds, Moves, OtherTasks, MainAt, Held, Live
<1>14. ASSUME NEW c \in Conns, Handle(c) PROVE MainAt'
  <2>1. /\ OtherTasks(c) /\ task[c].pc = "handle" /\ task'[c].slot = task[c].slot
        /\ task'[c].pc \in {"recv", "send"}
    BY <1>14, HandleDoes
  <2>2. slot' = slot /\ main' = main /\ conn' = conn
    BY <1>14 DEF Handle
  <2>. QED  BY <1>0, <2>1, <2>2 DEF OtherTasks, MainAt, Held, Live
<1>15. ASSUME NEW c \in Conns, Send(c) PROVE MainAt'
  <2>1. /\ OtherTasks(c) /\ task[c].pc = "send" /\ task'[c].slot = task[c].slot /\ task'[c].pc = "recv"
    BY <1>15, SendDoes
  <2>2. slot' = slot /\ main' = main /\ conn' = conn
    BY <1>15 DEF Send
  <2>. QED  BY <1>0, <2>1, <2>2 DEF OtherTasks, MainAt, Held, Live
<1>16. ASSUME NEW c \in Conns, SendFails(c) PROVE MainAt'
  <2>1. Moves(c, "end")
    BY <1>0, <1>16, GotoMoves DEF SendFails
  <2>. QED  BY <1>0, <1>16, <2>1 DEF SendFails, Moves, OtherTasks, MainAt, Held, Live
<1>17. ASSUME NEW c \in Conns, Release(c) PROVE MainAt'
  <2>1. /\ Moves(c, "close") /\ task[c].pc = "end"
        /\ OtherSlots(task[c].slot) /\ slot'[task[c].slot].sid = slot[task[c].slot].sid
    BY <1>17, ReleaseDoes
  <2>2. main' = main /\ conn' = conn
    BY <1>17 DEF Release
  <2>. QED  BY <1>0, <2>1, <2>2 DEF Moves, OtherTasks, OtherSlots, MainAt, Held, Live
<1>18. ASSUME NEW c \in Conns, Close(c) PROVE MainAt'
  <2>1. Moves(c, "unset") /\ slot' = slot /\ main' = main /\ task[c].pc = "close"
    BY <1>18, CloseDoes DEF Close
  <2>2. /\ \A d \in Conns : /\ conn'[d].peer = conn[d].peer
                            /\ (d # Sid(c) \/ conn'[d].open) => conn'[d] = conn[d]
        /\ Sid(c) \in Conns => ~conn'[Sid(c)].open
    BY <1>18, CloseDoes
  <2>. QED  BY <1>0, <2>1, <2>2 DEF Moves, OtherTasks, Sid, MainAt, Held, Live, Patient
<1>19. ASSUME NEW c \in Conns, Unset(c) PROVE MainAt'
  <2>1. /\ Moves(c, "gone") /\ task[c].pc = "unset" /\ OtherSlots(task[c].slot)
        /\ slot'[task[c].slot].sid = NoConn /\ slot'[task[c].slot].used = slot[task[c].slot].used
    BY <1>19, UnsetDoes
  <2>2. main' = main /\ conn' = conn
    BY <1>19 DEF Unset
  <2>. QED  BY <1>0, <2>1, <2>2 DEF Moves, OtherTasks, OtherSlots, MainAt, Held, Live
<1>20. CASE UNCHANGED vars
  BY <1>0, <1>20 DEF vars, MainAt, Held, Live
<1>. QED
  BY <1>1, <1>2, <1>3, <1>4, <1>5, <1>6, <1>7, <1>8, <1>9, <1>10, <1>11, <1>12, <1>13, <1>14, <1>15, <1>16, <1>17, <1>18, <1>19, <1>20 DEF Next, Run, Task

LEMMA PatientStep ==
  ASSUME TypeOK, SlotsHeld, MainAt, Patient, Served, [Next]_vars
  PROVE  Patient'
<1>0. /\ ConnsType /\ SlotsType /\ MainType /\ TasksType /\ env' = env /\ main.i \in Slots /\ NoConn \notin Conns
      /\ \A d \in Conns : task[d].slot \in Slots
  BY TypeParts, Constants, Fixed DEF MainType, TasksType, TaskType
<1>1. ASSUME NEW c \in Conns, Connect(c) PROVE Patient'
  <2>1. OtherConns(c) /\ conn[c].peer = "none" /\ conn'[c].peer = "up" /\ conn'[c].open
        /\ conn'[c].sent = conn[c].sent /\ conn'[c].taken = conn[c].taken /\ conn'[c].reqs = conn[c].reqs
    BY <1>1, PeerDoes
  <2>2. slot' = slot /\ main' = main /\ task' = task /\ made' = made /\ back' = back
    BY <1>1 DEF Connect
  <2>. QED  BY <1>0, <2>1, <2>2 DEF OtherConns, Patient, Held, Live, Served, ServedAt, RequestedAt
<1>2. ASSUME NEW c \in Conns, NEW k \in Kinds, NEW n \in Lengths, Request(c, k, n) PROVE Patient'
  <2>1. OneMore(c)
    BY <1>2, RequestDoes
  <2>2. slot' = slot /\ main' = main /\ task' = task /\ made' = made /\ back' = back
    BY <1>2 DEF Request
  <2>. QED  BY <1>0, <2>1, <2>2 DEF OneMore, OtherConns, Patient, Held, Live
<1>3. ASSUME NEW c \in Conns, Leave(c) PROVE Patient'
  <2>1. OtherConns(c) /\ conn[c].peer = "up" /\ conn'[c].peer = "gone" /\ conn'[c].open = conn[c].open
        /\ conn'[c].sent = conn[c].sent /\ conn'[c].taken = conn[c].taken /\ conn'[c].reqs = conn[c].reqs
    BY <1>3, PeerDoes
  <2>2. slot' = slot /\ main' = main /\ task' = task /\ made' = made /\ back' = back
    BY <1>3 DEF Leave
  <2>. QED  BY <1>0, <2>1, <2>2 DEF OtherConns, Patient, Held, Live
<1>4. ASSUME Listen PROVE Patient'
  BY <1>0, <1>4 DEF Listen, MainAt, Patient, Held, Live
<1>5. ASSUME NoMemory PROVE Patient'
  BY <1>0, <1>5 DEF NoMemory, Patient, Held, Live
<1>6. ASSUME NEW c \in Conns, Accept(c) PROVE Patient'
  BY <1>0, <1>6 DEF Accept, Patient, Held, Live
<1>7. ASSUME AcceptFails PROVE Patient'
  <2>1. \A d \in Conns : /\ task'[d].pc = IF task[d].pc = "queued" THEN "gone" ELSE task[d].pc
                         /\ task'[d].slot = task[d].slot
    BY <1>7, AcceptFailsDoes
  <2>. QED  BY <1>0, <1>7, <2>1 DEF AcceptFails, Goes, Patient, Held, Live
<1>8. ASSUME Destroyed PROVE Patient'
  BY <1>0, <1>8 DEF Destroyed, Patient, Held, Live
<1>9. ASSUME Search PROVE Patient'
  <2>1. \/ main'.pc = "search" /\ slot' = slot
        \/ /\ main'.pc = "fill" /\ main'.i = main.i /\ ~slot[main.i].used
           /\ OtherSlots(main.i) /\ slot'[main.i].used /\ slot'[main.i].sid = slot[main.i].sid
           /\ ~env.quick => \A c \in Running : task[c].slot # main.i
    BY <1>9, SearchDoes
  <2>2. main.pc = "search" /\ main'.sid = main.sid /\ task' = task /\ conn' = conn
    BY <1>9, SearchDoes DEF Search
  <2>. QED  BY <1>0, <2>1, <2>2 DEF OtherSlots, Running, Patient, Held, Live
<1>10. ASSUME Fill PROVE Patient'
  <2> DEFINE e == main.sid
  <2>1. /\ e \in Conns /\ OtherTasks(e) /\ OtherSlots(main.i) /\ task'[e] = TaskAt("queued", main.i)
        /\ main'.pc = "accept" /\ slot'[main.i].sid = e /\ slot'[main.i].used = slot[main.i].used
    BY <1>10, FillDoes
  <2>2. main.pc = "fill" /\ conn' = conn /\ task'[e].pc = "queued" /\ task'[e].slot = main.i
    BY <1>10, <2>1 DEF Fill, TaskAt
  <2> HIDE DEF e
  <2>3. e = main.sid
    BY DEF e
  <2>. QED  BY <1>0, <2>1, <2>2, <2>3 DEF OtherTasks, OtherSlots, Patient, Held, Live, MainAt
<1>11. ASSUME NEW c \in Conns, Begin(c) PROVE Patient'
  <2>1. Moves(c, "recv")
    BY <1>0, <1>11, GotoMoves DEF Begin
  <2>. QED  BY <1>0, <1>11, <2>1 DEF Begin, Moves, OtherTasks, Patient, Held, Live
<1>12. ASSUME NEW c \in Conns, Recv(c) PROVE Patient'
  <2>1. PICK n \in Nat : Receives(c, n)
    BY <1>12, RecvReceives
  <2>2. slot' = slot /\ main' = main
    BY <1>12 DEF Recv
  <2>3. /\ OtherTasks(c) /\ OtherConns(c) /\ task[c].pc = "recv" /\ conn[c].open /\ conn'[c].open = conn[c].open
        /\ task'[c].slot = task[c].slot /\ task'[c].pc \in {"recv", "handle"}
    BY <2>1 DEF Receives
  <2>4. ASSUME NEW d \in Conns
        PROVE  /\ task'[d].slot = task[d].slot /\ (task'[d].pc = "unset" <=> task[d].pc = "unset")
               /\ task'[d].pc = "gone" <=> task[d].pc = "gone"
               /\ task'[d].pc \in {"queued", "recv", "handle", "send", "end", "close", "unset"}
                    => task[d].pc \in {"queued", "recv", "handle", "send", "end", "close", "unset"}
    <3>1. CASE d = c
      BY <2>3, <3>1
    <3>2. CASE d # c
      BY <2>3, <3>2 DEF OtherTasks
    <3>. QED  BY <3>1, <3>2
  <2>5. \A d \in Conns : conn'[d].open = conn[d].open
    BY <2>3 DEF OtherConns
  <2>. QED  BY <1>0, <2>2, <2>4, <2>5 DEF Patient, Live, Held
<1>13. ASSUME NEW c \in Conns, RecvEnds(c) PROVE Patient'
  <2>1. Moves(c, "end")
    BY <1>0, <1>13, GotoMoves DEF RecvEnds
  <2>. QED  BY <1>0, <1>13, <2>1 DEF RecvEnds, Moves, OtherTasks, Patient, Held, Live
<1>14. ASSUME NEW c \in Conns, Handle(c) PROVE Patient'
  <2>1. /\ OtherTasks(c) /\ task[c].pc = "handle" /\ task'[c].slot = task[c].slot
        /\ task'[c].pc \in {"recv", "send"}
    BY <1>14, HandleDoes
  <2>2. slot' = slot /\ main' = main /\ conn' = conn
    BY <1>14 DEF Handle
  <2>. QED  BY <1>0, <2>1, <2>2 DEF OtherTasks, Patient, Held, Live
<1>15. ASSUME NEW c \in Conns, Send(c) PROVE Patient'
  <2>1. /\ OtherTasks(c) /\ task[c].pc = "send" /\ task'[c].slot = task[c].slot /\ task'[c].pc = "recv"
    BY <1>15, SendDoes
  <2>2. slot' = slot /\ main' = main /\ conn' = conn
    BY <1>15 DEF Send
  <2>. QED  BY <1>0, <2>1, <2>2 DEF OtherTasks, Patient, Held, Live
<1>16. ASSUME NEW c \in Conns, SendFails(c) PROVE Patient'
  <2>1. Moves(c, "end")
    BY <1>0, <1>16, GotoMoves DEF SendFails
  <2>. QED  BY <1>0, <1>16, <2>1 DEF SendFails, Moves, OtherTasks, Patient, Held, Live
<1>17. ASSUME NEW c \in Conns, Release(c) PROVE Patient'
  <2>1. /\ Moves(c, "close") /\ task[c].pc = "end"
        /\ OtherSlots(task[c].slot) /\ slot'[task[c].slot].sid = slot[task[c].slot].sid
    BY <1>17, ReleaseDoes
  <2>2. main' = main /\ conn' = conn
    BY <1>17 DEF Release
  <2>. QED  BY <1>0, <2>1, <2>2 DEF Moves, OtherTasks, OtherSlots, Patient, Held, Live
<1>18. ASSUME NEW c \in Conns, Close(c) PROVE Patient'
  <2>1. Moves(c, "unset") /\ slot' = slot /\ main' = main /\ task[c].pc = "close"
    BY <1>18, CloseDoes DEF Close
  <2>2. /\ \A d \in Conns : /\ conn'[d].peer = conn[d].peer
                            /\ (d # Sid(c) \/ conn'[d].open) => conn'[d] = conn[d]
        /\ Sid(c) \in Conns => ~conn'[Sid(c)].open
    BY <1>18, CloseDoes
  <2>. QED  BY <1>0, <2>1, <2>2 DEF Moves, OtherTasks, Sid, Patient, Held, Live
<1>19. ASSUME NEW c \in Conns, Unset(c) PROVE Patient'
  <2>1. /\ Moves(c, "gone") /\ task[c].pc = "unset" /\ OtherSlots(task[c].slot)
        /\ slot'[task[c].slot].sid = NoConn /\ slot'[task[c].slot].used = slot[task[c].slot].used
    BY <1>19, UnsetDoes
  <2>2. main' = main /\ conn' = conn
    BY <1>19 DEF Unset
  <2>. QED  BY <1>0, <2>1, <2>2 DEF Moves, OtherTasks, OtherSlots, Patient, Held, Live
<1>20. CASE UNCHANGED vars
  BY <1>0, <1>20 DEF vars, Patient, Held, Live
<1>. QED
  BY <1>1, <1>2, <1>3, <1>4, <1>5, <1>6, <1>7, <1>8, <1>9, <1>10, <1>11, <1>12, <1>13, <1>14, <1>15, <1>16, <1>17, <1>18, <1>19, <1>20 DEF Next, Run, Task

\* Connection d and its task are as they were, or the task goes where no
\* request is in hand.
QuietAt(d) ==
  /\ task'[d].pbuf = task[d].pbuf /\ task'[d].head = task[d].head /\ task'[d].ret = task[d].ret
  /\ task'[d].got = task[d].got /\ task'[d].reply = task[d].reply
  /\ conn'[d].reqs = conn[d].reqs /\ conn'[d].sent = conn[d].sent /\ conn'[d].taken = conn[d].taken
  /\ made'[d] = made[d] /\ back'[d] = back[d]
  /\ \/ task'[d].pc = task[d].pc /\ (conn'[d].peer = "none" => conn[d].peer = "none")
     \/ /\ task[d].pc # "none" /\ task'[d].pc \in {"recv", "end", "close", "unset", "gone"}
        /\ conn'[d].peer = conn[d].peer
        /\ task'[d].pc = "recv" => task[d].pc = "queued"

LEMMA NothingWas ==
  ASSUME TypeOK, NEW d \in Conns, ServedAt(d), task[d].got = 0
  PROVE  ~AnyWas(d)
<1>. SUFFICES ASSUME NEW m \in 1..Requests, Was(d, m) PROVE FALSE
  BY DEF AnyWas
<1>1. m <= Len(conn[d].reqs) /\ conn[d].reqs[m].at < 0
  BY DEF ServedAt, ExecutedAt, WasRight
<1>2. m \in 1..Len(conn[d].reqs)
  BY <1>1, TypeParts, ReqsType, Constants
<1>. QED  BY <1>1, <1>2, TypeParts, ReqsType

LEMMA QuietServed ==
  ASSUME TypeOK, NEW d \in Conns, ServedAt(d), QuietAt(d)
  PROVE  ServedAt(d)'
<1>1. RequestedAt(d)'
  BY DEF ServedAt, RequestedAt, QuietAt
<1>2. InBufferAt(d)'
  <2>1. (Headed(d)' <=> Headed(d)) /\ InHand(d)' = InHand(d)
    BY DEF QuietAt, Headed, InHand
  <2>2. /\ task'[d].pc \in {"handle", "send"} => task[d].pc = task'[d].pc
        /\ task'[d].pbuf = task[d].pbuf /\ task'[d].head = task[d].head /\ task'[d].ret = task[d].ret
        /\ task'[d].got = task[d].got /\ task'[d].reply = task[d].reply /\ conn'[d].reqs = conn[d].reqs
    BY DEF QuietAt
  <2>. QED  BY <2>1, <2>2 DEF ServedAt, InBufferAt
<1>3. ExecutedAt(d)'
  <2>1. \A m : Was(d, m)' <=> Was(d, m)
    BY DEF QuietAt, Was
  <2>2. ASSUME NEW m \in 1..Requests, Was(d, m) PROVE WasRight(d, m)'
    <3>1. WasRight(d, m)
      BY <2>2 DEF ServedAt, ExecutedAt
    <3>2. task[d].got # 0
      BY <2>2, NothingWas DEF AnyWas
    <3>3. task[d].pc # "queued"
      BY <3>2 DEF ServedAt, RequestedAt
    <3>4. (Headed(d)' <=> Headed(d)) /\ (task'[d].pc \in {"recv", "handle"} => task'[d].pc = task[d].pc)
      BY <3>3 DEF QuietAt, Headed
    <3>. QED  BY <3>1, <3>4 DEF WasRight, QuietAt
  <2>. QED  BY <2>1, <2>2 DEF ServedAt, ExecutedAt, QuietAt
<1>4. AnsweredAt(d)'
  <2>1. AnyWas(d)' <=> AnyWas(d)
    BY DEF QuietAt, AnyWas, Was
  <2>. QED  BY <2>1 DEF ServedAt, AnsweredAt, QuietAt
<1>. QED  BY <1>1, <1>2, <1>3, <1>4 DEF ServedAt

LEMMA OthersQuiet ==
  ASSUME NEW c \in Conns, OtherTasks(c), OtherConns(c), NEW d \in Conns \ {c}, made'[d] = made[d], back'[d] = back[d]
  PROVE  QuietAt(d)
BY DEF OtherTasks, OtherConns, QuietAt

(* A request is put on the wire: what has been received stays what it is.  *)
LEMMA RequestServed ==
  ASSUME TypeOK, Served, NEW c \in Conns, NEW k \in Kinds, NEW n \in Lengths, Request(c, k, n)
  PROVE  ServedAt(c)'
<1> DEFINE r == conn[c].reqs
           r2 == conn'[c].reqs
<1>0. /\ task' = task /\ made' = made /\ back' = back /\ OneMore(c) /\ Requests \in Nat \ {0}
      /\ RequestedAt(c) /\ InBufferAt(c) /\ ExecutedAt(c) /\ AnsweredAt(c)
  BY RequestDoes, Constants DEF Request, Served, ServedAt
<1>1. /\ conn[c].peer = "up" /\ conn'[c].peer = "up" /\ conn'[c].taken = conn[c].taken
      /\ Len(r2) = Len(r) + 1 /\ Len(r2) <= Requests /\ \A m \in 1..Len(r) : r2[m] = r[m]
      /\ r2[Len(r) + 1].at = conn[c].sent /\ conn'[c].sent > conn[c].sent
  BY <1>0 DEF OneMore
<1>2. /\ Len(r) \in Nat /\ conn[c].sent \in Nat /\ \A m \in 1..Len(r) : r[m].at \in Nat
  BY TypeParts, ReqsType
<1>20. conn'[c].sent \in Nat
  BY RequestDoes, ReqsType DEF ConnsType, ConnType
<1>3. Ordered(r2, conn'[c].sent)
  <2>1. Ordered(r, conn[c].sent)
    BY <1>0 DEF RequestedAt
  <2>2. ASSUME NEW m \in 1..Len(r2) PROVE r2[m].at <= conn[c].sent /\ r2[m].at \in Nat /\ (m \in 1..Len(r) => r2[m].at < conn[c].sent)
    <3>1. CASE m \in 1..Len(r)
      <4>1. r2[m] = r[m] /\ r[m].at \in Nat
        BY <1>1, <1>2, <3>1
      <4>2. r[m].at < conn[c].sent
        BY <2>1, <3>1 DEF Ordered
      <4>. QED  BY <1>2, <4>1, <4>2
    <3>2. CASE m = Len(r) + 1
      <4>1. r2[m].at = conn[c].sent
        BY <1>1, <3>2
      <4>2. m \notin 1..Len(r)
        BY <1>2, <3>2
      <4>. QED  BY <1>2, <4>1, <4>2
    <3>3. m \in 1..Len(r) \/ m = Len(r) + 1
      BY <1>1, <1>2
    <3>. QED  BY <3>1, <3>2, <3>3
  <2>3. ASSUME NEW m \in 1..Len(r2), NEW q \in 1..Len(r2), m < q PROVE r2[m].at < r2[q].at
    <3>1. m \in 1..Len(r)
      BY <1>1, <1>2, <2>3
    <3>2. CASE q \in 1..Len(r)
      BY <1>1, <2>1, <2>3, <3>1, <3>2 DEF Ordered
    <3>3. CASE q = Len(r) + 1
      BY <1>1, <2>2, <3>1, <3>3
    <3>. QED  BY <1>1, <1>2, <3>2, <3>3
  <2>. QED  BY <1>1, <1>2, <1>20, <2>2, <2>3 DEF Ordered
<1>4. RequestedAt(c)'
  BY <1>0, <1>1, <1>3 DEF RequestedAt
<1>5. InBufferAt(c)'
  <2>1. Headed(c)' <=> Headed(c)
    BY <1>0 DEF Headed
  <2>2. Headed(c) => task[c].head \in 1..Len(r) /\ InHand(c)' = InHand(c)
    <3> SUFFICES ASSUME Headed(c) PROVE task[c].head \in 1..Len(r) /\ InHand(c)' = InHand(c)
      OBVIOUS
    <3>1. task[c].head \in 1..Requests /\ task[c].head <= Len(r)
      BY <1>0 DEF InBufferAt, Headed
    <3>2. task[c].head \in 1..Len(r)
      BY <1>0, <1>2, <3>1
    <3>3. r2[task[c].head] = r[task[c].head]
      BY <1>1, <3>2
    <3>. QED  BY <1>0, <3>2, <3>3 DEF InHand
  <2>3. Headed(c) => task[c].head <= Len(r2)
    BY <1>1, <1>2, <2>2
  <2>. QED  BY <1>0, <2>1, <2>2, <2>3 DEF InBufferAt
<1>6. ExecutedAt(c)' /\ AnsweredAt(c)'
  <2>1. (\A m : Was(c, m)' <=> Was(c, m)) /\ (AnyWas(c)' <=> AnyWas(c)) /\ (Headed(c)' <=> Headed(c))
    BY <1>0 DEF Was, AnyWas, Headed
  <2>2. ASSUME NEW m \in 1..Requests, Was(c, m) PROVE WasRight(c, m)' /\ r2[m] = r[m]
    <3>1. WasRight(c, m)
      BY <1>0, <2>2 DEF ExecutedAt
    <3>2. m \in 1..Len(r) /\ r2[m] = r[m] /\ m <= Len(r2)
      BY <1>0, <1>1, <1>2, <3>1 DEF WasRight
    <3>. QED  BY <1>0, <2>1, <3>1, <3>2 DEF WasRight
  <2>3. ExecutedAt(c)'
    BY <1>0, <2>1, <2>2 DEF ExecutedAt
  <2>. QED  BY <1>0, <2>1, <2>3 DEF AnsweredAt
<1>. QED  BY <1>4, <1>5, <1>6 DEF ServedAt

(* A piece arrives: it begins with a request after all that were executed. *)
LEMMA RecvServed ==
  ASSUME TypeOK, SlotsHeld, Served, NEW c \in Conns, Recv(c)
  PROVE  ServedAt(c)'
<1> DEFINE r == conn[c].reqs
           h == HeadAfter(c)
<1>0. /\ made' = made /\ back' = back /\ Requests \in Nat \ {0} /\ Junk = Requests + 1 /\ Nothing = 0
      /\ RequestedAt(c) /\ InBufferAt(c) /\ ExecutedAt(c) /\ AnsweredAt(c)
  BY Constants DEF Recv, Served, ServedAt
<1>1. PICK n \in Nat : Receives(c, n)
  BY RecvReceives
<1>2. /\ 1 <= n /\ task[c].pc = "recv" /\ task'[c].pbuf = task[c].pbuf /\ task'[c].got = task[c].got + n
      /\ task'[c].ret = n /\ task'[c].head = h /\ task'[c].pc \in {"recv", "handle"}
      /\ task'[c].pc = "handle" => h = Junk \/ ~(r[h].len > task'[c].got)
      /\ conn'[c].peer = conn[c].peer /\ conn'[c].reqs = r
      /\ conn'[c].sent = conn[c].sent /\ conn'[c].taken = conn[c].taken + n
  BY <1>1 DEF Receives
<1>3. /\ h \in 0..Junk /\ (task[c].pbuf = "out" => h = task[c].head)
      /\ task[c].pbuf = "in" => h = Junk \/ (h \in 1..Len(r) /\ r[h].at = conn[c].taken)
  BY HeadFound
<1>4. /\ task[c].pbuf \in {"in", "out"} /\ task[c].got \in Nat /\ Len(r) \in Nat /\ Len(r) <= Requests
      /\ \A m \in 1..Len(r) : r[m].at \in Nat /\ r[m].len \in Nat
  BY <1>0, TypeParts, ReqsType DEF TasksType, TaskType, RequestedAt
<1> HIDE DEF h
<1>5. RequestedAt(c)'
  BY <1>0, <1>2, <1>4 DEF RequestedAt
<1>6. Headed(c)' => h \in 1..Len(r) /\ InHand(c)' = r[h]
  <2>1. Headed(c)' => h \in 1..Requests /\ InHand(c)' = r[h]
    BY <1>2 DEF Headed, InHand
  <2>2. CASE task[c].pbuf = "in"
    BY <1>0, <1>3, <2>1, <2>2
  <2>3. CASE task[c].pbuf = "out"
    BY <1>0, <1>3, <1>4, <2>1, <2>3 DEF InBufferAt, Headed
  <2>. QED  BY <1>4, <2>2, <2>3
<1>7. InBufferAt(c)'
  <2>1. task'[c].head # Nothing /\ (Headed(c)' => h <= Len(r))
    BY <1>0, <1>2, <1>3, <1>4, <1>6 DEF InBufferAt
  <2>2. Headed(c)' /\ task[c].pbuf = "out" => r[h].len < task'[c].got
    <3>1. Headed(c)' /\ task[c].pbuf = "out" => Headed(c) /\ InHand(c) = r[h]
      BY <1>2, <1>3 DEF Headed, InHand
    <3>2. Headed(c) /\ task[c].pbuf = "out" => InHand(c).len <= task[c].got
      BY <1>0 DEF InBufferAt
    <3>3. Headed(c)' => r[h].len \in Nat
      BY <1>4, <1>6
    <3>. QED  BY <1>2, <1>4, <3>1, <3>2, <3>3
  <2>3. Headed(c)' /\ task'[c].pc = "handle" => r[h].len <= task'[c].got
    BY <1>0, <1>2, <1>4, <1>6 DEF Headed
  <2>4. Headed(c)' /\ task[c].pbuf = "in" => task'[c].got = r[h].at + n /\ n > 0
    BY <1>0, <1>2, <1>3, <1>4, <1>6 DEF Headed, RequestedAt
  <2>5. Headed(c)' => r[h].len \in Nat /\ task'[c].got \in Nat
    BY <1>2, <1>4, <1>6
  <2>. QED  BY <1>2, <1>6, <2>1, <2>2, <2>3, <2>4, <2>5 DEF InBufferAt
<1>8. ExecutedAt(c)' /\ AnsweredAt(c)'
  <2>1. (\A m : Was(c, m)' <=> Was(c, m)) /\ (AnyWas(c)' <=> AnyWas(c))
    BY <1>0 DEF Was, AnyWas
  <2>2. ASSUME NEW m \in 1..Requests, Was(c, m) PROVE WasRight(c, m)'
    <3>1. /\ m <= Len(r) /\ made[c][m] + r[m].at = r[m].len /\ r[m].at < task[c].got
          /\ r[m].kind # "silent" => task[c].pbuf = "out"
      BY <1>0, <1>2, <2>2 DEF ExecutedAt, WasRight
    <3>2. m \in 1..Len(r) /\ r[m].at < task'[c].got
      BY <1>0, <1>2, <1>4, <3>1
    <3>3. Headed(c)' /\ task[c].pbuf = "in" => m < h
      <4>1. Headed(c)' /\ task[c].pbuf = "in" => r[m].at < r[h].at /\ h \in 1..Len(r)
        BY <1>0, <1>2, <1>3, <1>6, <3>1 DEF Headed, RequestedAt
      <4>2. h \in 1..Len(r) /\ ~(m < h) => h = m \/ r[h].at < r[m].at
        BY <1>0, <1>4, <3>2 DEF RequestedAt, Ordered
      <4>. QED  BY <1>4, <3>2, <4>1, <4>2
    <3>. QED  BY <1>0, <1>2, <3>1, <3>2, <3>3 DEF WasRight
  <2>3. ExecutedAt(c)'
    BY <1>0, <1>2, <2>1, <2>2 DEF ExecutedAt
  <2>. QED  BY <1>0, <1>2, <2>1, <2>3 DEF AnsweredAt
<1>. QED  BY <1>5, <1>7, <1>8 DEF ServedAt

(* The request in hand is executed when the task has got as many units as  *)
(* it is long: never before, and never after an answer.                    *)
LEMMA HandleServed ==
  ASSUME TypeOK, Served, NEW c \in Conns, Handle(c)
  PROVE  ServedAt(c)'
<1> DEFINE r == conn[c].reqs
           h == task[c].head
<1>0. /\ conn' = conn /\ back' = back /\ Requests \in Nat \ {0} /\ Junk = Requests + 1 /\ Nothing = 0
      /\ RequestedAt(c) /\ InBufferAt(c) /\ ExecutedAt(c) /\ AnsweredAt(c)
  BY Constants DEF Handle, Served, ServedAt
<1>1. /\ task[c].pc = "handle" /\ task'[c].pbuf = task[c].pbuf /\ task'[c].head = h
      /\ task'[c].got = task[c].got /\ task'[c].ret = task[c].ret /\ task'[c].reply = Answer(c)
      /\ task'[c].pc = IF Answer(c) = "none" THEN "recv" ELSE "send"
      /\ Answer(c) = "ok" => Accepted(c)
      /\ Accepted(c) => Answer(c) = IF Kind(c) = "silent" THEN "none" ELSE "ok"
      /\ \A m \in 1..Requests : made'[c][m] = IF Accepted(c) /\ m = h THEN made[c][m] + task[c].ret ELSE made[c][m]
  BY HandleDoes
<1>2. /\ task[c].pbuf \in {"in", "out"} /\ task[c].got \in Nat /\ task[c].ret \in Nat /\ h \in 0..Junk
      /\ Len(r) \in Nat /\ Len(r) <= Requests
      /\ \A m \in 1..Len(r) : r[m].at \in Nat /\ r[m].len \in Nat
      /\ \A m \in 1..Requests : made[c][m] \in Nat
  BY <1>0, TypeParts, ReqsType DEF TasksType, TaskType, RequestedAt, MadeType
<1>3. (Headed(c)' <=> Headed(c)) /\ InHand(c)' = InHand(c) /\ InHand(c) = r[h]
  BY <1>0, <1>1 DEF Headed, InHand
<1>4. RequestedAt(c)'
  BY <1>0, <1>1 DEF RequestedAt
<1>5. InBufferAt(c)'
  BY <1>0, <1>1, <1>3 DEF InBufferAt
<1>6. ASSUME Accepted(c)
      PROVE  /\ h \in 1..Len(r) /\ h \in 1..Requests /\ Headed(c) /\ task[c].pbuf = "in" /\ back[c] = <<>>
             /\ made[c][h] = 0 /\ task[c].ret > 0 /\ task[c].ret + r[h].at = r[h].len /\ r[h].at < task[c].got
             /\ r[h].kind # "silent" => task'[c].pc = "send"
  <2>1. h # Junk /\ task[c].got = r[h].len /\ Kind(c) = r[h].kind
    BY <1>6 DEF Accepted, Kind
  <2>2. h \in 1..Requests /\ Headed(c) /\ h \in 1..Len(r)
    BY <1>0, <1>1, <1>2, <2>1 DEF InBufferAt, Headed
  <2>3. task[c].pbuf = "in"
    BY <1>0, <1>1, <1>2, <1>3, <2>1, <2>2 DEF InBufferAt
  <2>4. task[c].got = r[h].at + task[c].ret /\ task[c].ret > 0
    BY <1>0, <1>1, <1>3, <2>2, <2>3 DEF InBufferAt
  <2>5. back[c] = <<>>
    BY <1>0, <2>3 DEF AnsweredAt
  <2>6. ~Was(c, h)
    BY <1>0, <1>1, <2>2, <2>3 DEF ExecutedAt, WasRight
  <2>7. r[h].kind # "silent" => task'[c].pc = "send"
    BY <1>1, <1>6, <2>1
  <2>. QED  BY <1>2, <2>1, <2>2, <2>3, <2>4, <2>5, <2>6, <2>7 DEF Was
<1>7. \A m \in 1..Requests : Was(c, m)' <=> (Was(c, m) \/ (Accepted(c) /\ m = h))
  BY <1>1, <1>2, <1>6 DEF Was
<1>8. ASSUME NEW m \in 1..Requests, Was(c, m) PROVE WasRight(c, m)' /\ (Accepted(c) => m < h /\ r[m].kind = "silent")
  <2>1. WasRight(c, m)
    BY <1>0, <1>8 DEF ExecutedAt
  <2>2. Accepted(c) => m < h /\ r[m].kind = "silent"
    BY <1>1, <1>6, <2>1 DEF WasRight
  <2>3. made'[c][m] = made[c][m]
    BY <1>1, <1>2, <1>6, <1>8 DEF Was
  <2>. QED  BY <1>0, <1>1, <1>3, <2>1, <2>2, <2>3 DEF WasRight
<1>9. ASSUME NEW m \in 1..Requests, Accepted(c), m = h PROVE WasRight(c, m)'
  <2>1. made'[c][m] + r[m].at = r[m].len
    BY <1>1, <1>2, <1>6, <1>9
  <2>. QED  BY <1>0, <1>1, <1>2, <1>6, <1>9, <2>1 DEF WasRight
<1>10. ExecutedAt(c)'
  <2>1. ASSUME NEW m \in 1..Requests, NEW n \in 1..Requests, m < n, Was(c, m)', Was(c, n)'
        PROVE  r[m].kind = "silent"
    <3>1. CASE Was(c, m) /\ Was(c, n)
      BY <1>0, <2>1, <3>1 DEF ExecutedAt
    <3>2. CASE Was(c, m) /\ ~Was(c, n)
      BY <1>7, <1>8, <2>1, <3>2
    <3>3. CASE ~Was(c, m)
      <4>1. m = h /\ Accepted(c) /\ Was(c, n)
        BY <1>7, <2>1, <3>3
      <4>. QED  BY <1>8, <2>1, <4>1
    <3>. QED  BY <3>1, <3>2, <3>3
  <2>2. ASSUME NEW m \in 1..Requests, Was(c, m)' PROVE WasRight(c, m)'
    BY <1>7, <1>8, <1>9, <2>2
  <2>. QED  BY <1>0, <2>1, <2>2 DEF ExecutedAt
<1>11. AnsweredAt(c)'
  <2>1. (AnyWas(c) => AnyWas(c)') /\ (Accepted(c) => AnyWas(c)')
    BY <1>6, <1>7 DEF AnyWas
  <2>. QED  BY <1>0, <1>1, <1>6, <2>1 DEF AnsweredAt
<1>. QED  BY <1>4, <1>5, <1>10, <1>11 DEF ServedAt

(* After an answer the buffer that was handled is not received into.       *)
LEMMA SendServed ==
  ASSUME TypeOK, SlotsHeld, Served, NEW c \in Conns, Send(c)
  PROVE  ServedAt(c)'
<1>0. /\ conn' = conn /\ made' = made
      /\ RequestedAt(c) /\ InBufferAt(c) /\ ExecutedAt(c) /\ AnsweredAt(c)
  BY DEF Send, Served, ServedAt
<1>1. /\ task[c].pc = "send" /\ task'[c].pbuf = "out" /\ task'[c].pc = "recv"
      /\ task'[c].head = task[c].head /\ task'[c].got = task[c].got
      /\ back'[c] = Append(back[c], task[c].reply)
  BY SendDoes
<1>2. (Headed(c)' <=> Headed(c)) /\ InHand(c)' = InHand(c)
  BY <1>0, <1>1 DEF Headed, InHand
<1>3. RequestedAt(c)'
  BY <1>0, <1>1 DEF RequestedAt
<1>4. InBufferAt(c)'
  BY <1>0, <1>1, <1>2 DEF InBufferAt
<1>5. (\A m : Was(c, m)' <=> Was(c, m)) /\ (AnyWas(c)' <=> AnyWas(c))
  BY <1>0 DEF Was, AnyWas
<1>6. ExecutedAt(c)'
  BY <1>0, <1>1, <1>5 DEF ExecutedAt, WasRight
<1>7. AnsweredAt(c)'
  <2> DEFINE b == back[c]
             b2 == back'[c]
  <2>1. b \in Seq({"ok", "invalid", "zeros"})
    BY TypeParts DEF BackType
  <2>2. /\ Len(b) \in Nat /\ Len(b2) = Len(b) + 1
        /\ \A k \in 1..Len(b) : b2[k] = b[k]
        /\ b2[Len(b) + 1] = task[c].reply
    BY <1>1, <2>1, AppendProperties
  <2>3. ASSUME NEW k \in 1..Len(b2), b2[k] = "ok" PROVE k = 1 /\ AnyWas(c)
    <3>1. CASE k \in 1..Len(b)
      BY <1>0, <2>2, <2>3, <3>1 DEF AnsweredAt
    <3>2. CASE k = Len(b) + 1
      <4>1. b = <<>> /\ AnyWas(c)
        BY <1>0, <1>1, <2>2, <2>3, <3>2 DEF AnsweredAt
      <4>2. Len(b) = 0
        BY <4>1
      <4>. QED  BY <3>2, <4>1, <4>2
    <3>. QED  BY <2>2, <3>1, <3>2
  <2>. QED  BY <1>1, <1>5, <2>3 DEF AnsweredAt
<1>. QED  BY <1>3, <1>4, <1>6, <1>7 DEF ServedAt

(* A task begins with nothing received.                                    *)
LEMMA FillServed ==
  ASSUME TypeOK, MainAt, Served, Fill, NEW e \in Conns, e = main.sid
  PROVE  ServedAt(e)' /\ OtherTasks(e)
<1>1. OtherTasks(e) /\ task'[e] = TaskAt("queued", main.i)
  BY FillDoes
<1>2. /\ task'[e].pc = "queued" /\ task'[e].pbuf = "in" /\ task'[e].got = 0
      /\ task'[e].head = Nothing /\ task'[e].reply = "none"
  BY <1>1 DEF TaskAt
<1>3. conn' = conn /\ made' = made /\ back' = back /\ task[e].pc = "none" /\ conn[e].peer # "none"
  BY DEF Fill, MainAt
<1>4. /\ ServedAt(e) /\ RequestedAt(e) /\ AnsweredAt(e)
  BY <1>1 DEF Served, ServedAt
<1>5. task[e].got = 0 /\ task[e].pbuf = "in"
  BY <1>3, <1>4 DEF RequestedAt
<1>6. ~AnyWas(e) /\ ~AnyWas(e)' /\ \A m \in 1..Requests : ~Was(e, m)'
  <2>1. ~AnyWas(e)
    BY <1>1, <1>4, <1>5, NothingWas
  <2>. QED  BY <1>3, <2>1 DEF AnyWas, Was
<1>7. RequestedAt(e)'
  BY <1>2, <1>3, <1>4, <1>5 DEF RequestedAt
<1>8. InBufferAt(e)'
  BY <1>2, Constants DEF InBufferAt, Headed
<1>9. ExecutedAt(e)'
  BY <1>6 DEF ExecutedAt
<1>10. AnsweredAt(e)'
  BY <1>2, <1>3, <1>4, <1>5, <1>6 DEF AnsweredAt
<1>. QED  BY <1>1, <1>7, <1>8, <1>9, <1>10 DEF ServedAt

LEMMA ServedStep ==
  ASSUME TypeOK, SlotsHeld, MainAt, Patient, Served, [Next]_vars
  PROVE  Served'
<1>0. TasksType /\ \A d \in Conns : ServedAt(d)
  BY TypeParts DEF Served
<1>. SUFFICES ASSUME NEW d \in Conns PROVE ServedAt(d)'
  BY DEF Served
<1>a. QuietAt(d) => ServedAt(d)'
  BY <1>0, QuietServed
<1>1. ASSUME NEW c \in Conns, Connect(c) \/ Leave(c) PROVE ServedAt(d)'
  BY <1>a, <1>1, PeerDoes DEF Connect, Leave, OtherConns, QuietAt
<1>2. ASSUME NEW c \in Conns, NEW k \in Kinds, NEW n \in Lengths, Request(c, k, n) PROVE ServedAt(d)'
  <2>1. CASE d = c
    BY <1>2, <2>1, RequestServed
  <2>2. CASE d # c
    <3>1. OneMore(c) /\ task' = task /\ made' = made /\ back' = back
      BY <1>2, RequestDoes DEF Request
    <3>. QED  BY <1>a, <2>2, <3>1 DEF OneMore, OtherConns, QuietAt
  <2>. QED  BY <2>1, <2>2
<1>3. ASSUME Listen \/ NoMemory \/ (\E c \in Conns : Accept(c)) \/ Destroyed \/ Search PROVE ServedAt(d)'
  <2>1. UNCHANGED <<conn, task, made, back>>
    BY <1>3 DEF Listen, NoMemory, Accept, Destroyed, Search
  <2>. QED  BY <1>a, <2>1 DEF QuietAt
<1>4. CASE AcceptFails
  BY <1>a, <1>4, AcceptFailsDoes DEF AcceptFails, QuietAt
<1>5. CASE Fill
  <2>0. PICK e \in Conns : e = main.sid
    BY <1>5, FillDoes
  <2>1. ServedAt(e)' /\ OtherTasks(e) /\ conn' = conn /\ made' = made /\ back' = back
    BY <1>5, <2>0, FillServed DEF Fill
  <2>2. d # e => QuietAt(d)
    BY <2>1 DEF OtherTasks, QuietAt
  <2>. QED  BY <1>a, <2>1, <2>2
<1>6. ASSUME NEW c \in Conns, Begin(c) PROVE ServedAt(d)'
  <2>1. Moves(c, "recv") /\ task[c].pc = "queued" /\ conn' = conn /\ made' = made /\ back' = back
    BY <1>0, <1>6, GotoMoves DEF Begin
  <2>. QED  BY <1>a, <2>1 DEF Moves, OtherTasks, QuietAt
<1>7. ASSUME NEW c \in Conns, Recv(c) PROVE ServedAt(d)'
  <2>1. PICK n \in Nat : Receives(c, n)
    BY <1>7, RecvReceives
  <2>2. made' = made /\ back' = back /\ OtherTasks(c) /\ OtherConns(c)
    BY <1>7, <2>1 DEF Recv, Receives
  <2>3. d # c => QuietAt(d)
    BY <2>2, OthersQuiet
  <2>. QED  BY <1>a, <1>7, <2>3, RecvServed
<1>8. ASSUME NEW c \in Conns, RecvEnds(c) \/ SendFails(c) PROVE ServedAt(d)'
  <2>1. Moves(c, "end") /\ task[c].pc \in {"recv", "send"} /\ conn' = conn /\ made' = made /\ back' = back
    BY <1>0, <1>8, GotoMoves DEF RecvEnds, SendFails
  <2>. QED  BY <1>a, <2>1 DEF Moves, OtherTasks, QuietAt
<1>9. ASSUME NEW c \in Conns, Handle(c) PROVE ServedAt(d)'
  <2>1. OtherTasks(c) /\ conn' = conn /\ back' = back
    BY <1>9, HandleDoes DEF Handle
  <2>2. d # c => made'[d] = made[d]
    <3>1. \A m \in 1..Requests : d # c => made'[d][m] = made[d][m]
      BY <1>9, HandleDoes
    <3>2. MadeType /\ MadeType'
      BY <1>9, HandleDoes, TypeParts
    <3>3. made[d] \in [1..Requests -> Nat] /\ made'[d] \in [1..Requests -> Nat]
      BY <3>2 DEF MadeType
    <3>4. /\ made[d] = [m \in 1..Requests |-> made[d][m]]
          /\ made'[d] = [m \in 1..Requests |-> made'[d][m]]
      BY <3>3
    <3>. QED  BY <3>1, <3>4
  <2>3. d # c => QuietAt(d)
    BY <2>1, <2>2 DEF OtherTasks, QuietAt
  <2>. QED  BY <1>a, <1>9, <2>3, HandleServed
<1>10. ASSUME NEW c \in Conns, Send(c) PROVE ServedAt(d)'
  <2>1. OtherTasks(c) /\ conn' = conn /\ made' = made /\ \A e \in Conns \ {c} : back'[e] = back[e]
    BY <1>10, SendDoes DEF Send
  <2>2. d # c => QuietAt(d)
    BY <2>1 DEF OtherTasks, QuietAt
  <2>. QED  BY <1>a, <1>10, <2>2, SendServed
<1>11. ASSUME NEW c \in Conns, Release(c) PROVE ServedAt(d)'
  <2>1. Moves(c, "close") /\ task[c].pc = "end" /\ conn' = conn /\ made' = made /\ back' = back
    BY <1>11, ReleaseDoes DEF Release
  <2>. QED  BY <1>a, <2>1 DEF Moves, OtherTasks, QuietAt
<1>12. ASSUME NEW c \in Conns, Close(c) PROVE ServedAt(d)'
  <2>1. Moves(c, "unset") /\ task[c].pc = "close" /\ made' = made /\ back' = back
    BY <1>12 , CloseDoes DEF Close
  <2>2. /\ conn'[d].peer = conn[d].peer /\ conn'[d].reqs = conn[d].reqs
        /\ conn'[d].sent = conn[d].sent /\ conn'[d].taken = conn[d].taken
    BY <1>12, CloseDoes
  <2>. QED  BY <1>a, <2>1, <2>2 DEF Moves, OtherTasks, QuietAt
<1>13. ASSUME NEW c \in Conns, Unset(c) PROVE ServedAt(d)'
  <2>1. Moves(c, "gone") /\ task[c].pc = "unset" /\ conn' = conn /\ made' = made /\ back' = back
    BY <1>13, UnsetDoes DEF Unset
  <2>. QED  BY <1>a, <2>1 DEF Moves, OtherTasks, QuietAt
<1>14. CASE UNCHANGED vars
  BY <1>a, <1>14 DEF vars, QuietAt
<1>. QED
  BY <1>1, <1>2, <1>3, <1>4, <1>5, <1>6, <1>7, <1>8, <1>9, <1>10, <1>11, <1>12, <1>13, <1>14 DEF Next, Run, Task

LEMMA InitInductive == Init => Inductive
<1> SUFFICES ASSUME Init PROVE Inductive
  OBVIOUS
<1>0. /\ Workers \in Nat \ {0} /\ Requests \in Nat \ {0} /\ Junk = Requests + 1
      /\ NoConn = 0 /\ NoConn \notin Conns /\ 0 \in Slots /\ Nothing = 0
  BY Constants DEF NoConn
<1>1. \A c \in Conns : /\ task[c] = NoTask /\ back[c] = <<>> /\ conn[c].reqs = <<>>
                       /\ conn[c].sent = 0 /\ conn[c].taken = 0
                       /\ ~conn[c].open /\ conn[c].peer = "none" /\ \A m \in 1..Requests : made[c][m] = 0
  BY DEF Init
<1>2. /\ NoTask.pc = "none" /\ NoTask.slot = 0 /\ NoTask.pbuf = "in" /\ NoTask.head = Nothing
      /\ NoTask.got = 0 /\ NoTask.ret = 0 /\ NoTask.reply = "none"
  BY DEF NoTask, TaskAt
<1>3. TypeOK
  <2>1. NoTask \in TaskType
    BY <1>0 DEF NoTask, TaskAt, TaskType, Nothing
  <2>2. TasksType
    BY <2>1 DEF Init, TasksType
  <2>3. ConnsType /\ SlotsType /\ MainType /\ MadeType /\ BackType
    BY <1>0 DEF Init, ConnsType, ConnType, SlotsType, SlotType, MainType, MadeType, BackType
  <2>. QED  BY <2>2, <2>3, TypeParts DEF Init
<1>4. SlotsHeld /\ MainAt /\ Patient
  <2>1. main.pc = "start" /\ \A c \in Conns : ~Held(c) /\ ~Live(c) /\ task[c].pc = "none"
    BY <1>1, <1>2 DEF Init, Held, Live
  <2>. QED  BY <2>1 DEF SlotsHeld, MainAt, Patient
<1>5. ASSUME NEW c \in Conns PROVE ServedAt(c)
  <2>1. RequestedAt(c)
    BY <1>0, <1>1, <1>2 DEF RequestedAt, Ordered
  <2>2. InBufferAt(c)
    BY <1>0, <1>1, <1>2 DEF InBufferAt, Headed
  <2>3. ExecutedAt(c) /\ AnsweredAt(c)
    BY <1>1, <1>2 DEF ExecutedAt, AnsweredAt, Was
  <2>. QED  BY <2>1, <2>2, <2>3 DEF ServedAt
<1>. QED  BY <1>3, <1>4, <1>5 DEF Inductive, Served

LEMMA StepInductive == Inductive /\ [Next]_vars => Inductive'
<1> SUFFICES ASSUME Inductive, [Next]_vars PROVE Inductive'
  OBVIOUS
<1>0. TypeOK /\ SlotsHeld /\ MainAt /\ Patient /\ Served
  BY DEF Inductive
<1>1. TypeOK'
  <2>1. (ConnsType /\ SlotsType /\ MainType /\ TasksType /\ MadeType /\ BackType)'
    BY <1>0, TypeStep
  <2>2. env' \in Settings
    BY <1>0, Fixed, TypeParts
  <2>. QED  BY <2>1, <2>2 DEF TypeOK, ConnsType, ConnType, Req, SlotsType, SlotType, MainType, TasksType, TaskType,
                              MadeType, BackType
<1>2. SlotsHeld' /\ MainAt' /\ Patient' /\ Served'
  BY <1>0, SlotsStep, MainStep, PatientStep, ServedStep
<1>. QED  BY <1>1, <1>2 DEF Inductive

(* For any connections, workers, requests and lengths, and in every        *)
(* setting: slots and tasks belong together, what run() has found stays    *)
(* true while it fills a slot, and what a task has got and executed agrees *)
(* with what was sent.                                                     *)
THEOREM InductiveHolds == Spec => []Inductive
BY InitInductive, StepInductive, PTL DEF Spec

(* A task of serverCommObj serves and closes its own connection only       *)
(* (unless a slot is filled again too early); a request is executed at     *)
(* most once, and a later one only with the part of it that makes          *)
(* rcvedLen its length, after silent ones that are shorter together; and   *)
(* "ok" is answered first, and for an executed request.                    *)
THEOREM ChannelHolds == Spec => []ChannelSound
<1>1. Inductive => OwnConnection
  <2> SUFFICES ASSUME Inductive, NEW c \in Conns
               PROVE  /\ ~env.quick => (task[c].pc \in {"queued", "recv", "handle", "send", "end", "close"}
                                          => Sid(c) = c /\ conn[c].open)
                      /\ ~env.quick /\ ~env.fails => (task[c].pc = "gone" => ~conn[c].open)
    BY DEF OwnConnection
  <2>. QED  BY DEF Inductive, Patient, Live, Held, Sid
<1>2. Inductive => ExecutedOnce
  <2> SUFFICES ASSUME Inductive, NEW c \in Conns
               PROVE  /\ \A m \in 1..Requests : made[c][m] # 0 =>
                           m <= Len(conn[c].reqs) /\ made[c][m] + conn[c].reqs[m].at = conn[c].reqs[m].len
                      /\ \A m, n \in 1..Requests : m < n /\ made[c][m] # 0 /\ made[c][n] # 0
                           => conn[c].reqs[m].kind = "silent"
                      /\ \A k \in 1..Len(back[c]) : back[c][k] = "ok" => k = 1 /\ \E m \in 1..Requests : made[c][m] # 0
    BY DEF ExecutedOnce
  <2>1. ExecutedAt(c) /\ AnsweredAt(c)
    BY DEF Inductive, Served, ServedAt
  <2>. QED  BY <2>1 DEF ExecutedAt, WasRight, Was, AnsweredAt, AnyWas
<1>3. Inductive => ChannelSound
  BY <1>1, <1>2 DEF ChannelSound, Inductive
<1>. QED  BY <1>3, InductiveHolds, PTL
=============================================================================
