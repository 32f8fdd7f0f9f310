------------------------------ MODULE CommConn ------------------------------
(***************************************************************************)
(* The command channel (sgg_comm.cpp): serverCommObj::run accepts          *)
(* connections and gives each a slot and a task of a thread pool;          *)
(* comm_threadmsgproc, the task, receives requests, has them executed and  *)
(* sends the answers.                                                      *)
(*                                                                         *)
(* A request is some units long: a head of one unit, which says how many   *)
(* there are, and a body that grows with its entries.  It arrives in       *)
(* pieces of any number of units; that no piece ends within a head, and    *)
(* that no body looks like a head of a known type, is assumed.  What a     *)
(* request does is ServerManage's and Audit's; how the pool runs its tasks *)
(* is ThreadPool's.                                                        *)
(***************************************************************************)
EXTENDS Naturals, Sequences, FiniteSets

CONSTANTS Conns,     \* the connections there may be
          Workers,   \* COMM_SEND_TASK_MAX_NUM: threads of the pool
          Requests,  \* bound: how many requests may come on one connection
          Lengths,   \* the units a request may be long, its msgLen
          Settings   \* the settings to check, see SettingType

ASSUME ConnsAssumption == 0 \notin Conns
ASSUME WorkersAssumption == Workers \in Nat \ {0}
ASSUME RequestsAssumption == Requests \in Nat \ {0}
ASSUME LengthsAssumption == Lengths \subseteq Nat \ {0}

Slots == 0..Workers      \* bufMap

\* What a request is: one of a known type with ackFlag, one without, one for a
\* report (of the audit or of the coding) without, or one of no known type.
Kinds == {"acked", "silent", "report", "unknown"}

\* What this process has to put up with; it never changes.
\*   quick   a slot may be filled while the task it belonged to closes its
\*           descriptor
\*   whole   a request arrives in one piece, and the peer sends none before
\*           the last has been taken
\*   fails   accept may fail, or memory may be short
\*   conns   the connections that come
\*   most    bound: how many requests come on one connection
\*   kinds   the kinds of requests that come
\*   lens    the lengths of the requests that come
SettingType == [quick : BOOLEAN, whole : BOOLEAN, fails : BOOLEAN, conns : SUBSET Conns,
                most : 1..Requests, kinds : SUBSET Kinds, lens : SUBSET Lengths]
ASSUME SettingsAssumption == Settings \subseteq SettingType

NoConn == 0
Nothing == 0     \* nothing was received yet
Junk == Requests + 1   \* a head that is no head: the unit of a body

VARIABLES env,    \* the setting
          conn,   \* Conns -> [open, peer, reqs, sent, taken]: our end, the
                  \* other end, the requests it sent, how many units it
                  \* sent and how many of them were taken
          slot,   \* Slots -> [used, sid]
          main,   \* run(): [pc, sid, i]
          task,   \* Conns -> [pc, slot, pbuf, head, ret, got, reply]: the
                  \* task made for a connection
          made,   \* history: Conns -> with how many units each request was
                  \* executed, added up
          back    \* history: Conns -> the answers sent

vars == <<env, conn, slot, main, task, made, back>>

Running == {c \in Conns : task[c].pc \notin {"none", "queued", "gone"}}

TaskAt(pc, i) == [pc |-> pc, slot |-> i, pbuf |-> "in", head |-> Nothing, ret |-> 0, got |-> 0, reply |-> "none"]
NoTask == TaskAt("none", 0)

Init ==
  /\ env \in Settings
  /\ conn = [c \in Conns |-> [open |-> FALSE, peer |-> "none", reqs |-> <<>>, sent |-> 0, taken |-> 0]]
  /\ slot = [i \in Slots |-> [used |-> FALSE, sid |-> NoConn]]
  /\ main = [pc |-> "start", sid |-> NoConn, i |-> 0]
  /\ task = [c \in Conns |-> NoTask]
  /\ made = [c \in Conns |-> [m \in 1..Requests |-> 0]]
  /\ back = [c \in Conns |-> <<>>]

-----------------------------------------------------------------------------
(* The peers.                                                              *)

Connect(c) ==
  /\ c \in env.conns
  /\ conn[c].peer = "none"
  /\ conn' = [conn EXCEPT ![c].peer = "up", ![c].open = TRUE]
  /\ UNCHANGED <<env, slot, main, task, made, back>>

\* A request begins after the units sent before it, at `at'.
Request(c, kind, len) ==
  /\ conn[c].peer = "up"
  /\ kind \in env.kinds
  /\ len \in env.lens
  /\ Len(conn[c].reqs) < env.most
  /\ env.whole => conn[c].sent = conn[c].taken
  /\ conn' = [conn EXCEPT ![c].reqs = Append(@, [kind |-> kind, len |-> len, at |-> conn[c].sent]),
                          ![c].sent = @ + len]
  /\ UNCHANGED <<env, slot, main, task, made, back>>

Leave(c) ==
  /\ conn[c].peer = "up"
  /\ conn' = [conn EXCEPT ![c].peer = "gone"]
  /\ UNCHANGED <<env, slot, main, task, made, back>>

-----------------------------------------------------------------------------
(* serverCommObj::run.                                                     *)

Waiting == {c \in Conns : conn[c].peer # "none" /\ conn[c].open /\ task[c].pc = "none"}

Goes(pc) == main' = [pc |-> pc, sid |-> main.sid, i |-> main.i]

\* The listening socket, the slots and the pool are there.
Listen ==
  /\ main.pc = "start"
  /\ slot' = [i \in Slots |-> [used |-> FALSE, sid |-> NoConn]]
  /\ main' = [pc |-> "accept", sid |-> NoConn, i |-> 0]
  /\ UNCHANGED <<env, conn, task, made, back>>

\* No memory for the slots or the pool: run() returns 0, and the thread of the
\* command channel takes that for a good end and does not call it again.
NoMemory ==
  /\ env.fails
  /\ main.pc = "start"
  /\ Goes("gone")
  /\ UNCHANGED <<env, conn, slot, task, made, back>>

Accept(c) ==
  /\ main.pc = "accept"
  /\ c \in Waiting
  /\ main' = [pc |-> "search", sid |-> c, i |-> main.i]
  /\ UNCHANGED <<env, conn, slot, task, made, back>>

\* run() returns an error; it is called again when the pool's threads are
\* gone.  What is queued is dropped.
AcceptFails ==
  /\ env.fails
  /\ main.pc = "accept"
  /\ Goes("destroy")
  /\ task' = [c \in Conns |-> IF task[c].pc = "queued" THEN [task[c] EXCEPT !.pc = "gone"] ELSE task[c]]
  /\ UNCHANGED <<env, conn, slot, made, back>>

Destroyed ==
  /\ main.pc = "destroy"
  /\ Running = {}
  /\ Goes("start")
  /\ UNCHANGED <<env, conn, slot, task, made, back>>

NextSlot == (main.i + 1) % (Workers + 1)

Search ==
  /\ main.pc = "search"
  /\ IF slot[main.i].used
     THEN main' = [pc |-> "search", sid |-> main.sid, i |-> NextSlot] /\ UNCHANGED slot
     ELSE /\ ~env.quick => \A c \in Running : task[c].slot # main.i
          /\ slot' = [slot EXCEPT ![main.i].used = TRUE]
          /\ Goes("fill")
  /\ UNCHANGED <<env, conn, task, made, back>>

Fill ==
  /\ main.pc = "fill"
  /\ slot' = [slot EXCEPT ![main.i].sid = main.sid]
  /\ task' = [task EXCEPT ![main.sid] = TaskAt("queued", main.i)]
  /\ main' = [pc |-> "accept", sid |-> NoConn, i |-> NextSlot]
  /\ UNCHANGED <<env, conn, made, back>>

Run == Listen \/ NoMemory \/ (\E c \in Conns : Accept(c)) \/ AcceptFails \/ Destroyed \/ Search \/ Fill

-----------------------------------------------------------------------------
(* The task of a connection (comm_threadmsgproc).                          *)

Goto(c, pc) == task' = [task EXCEPT ![c].pc = pc]
Sid(c) == slot[task[c].slot].sid
Alive(c) == Sid(c) # NoConn /\ conn[Sid(c)].open

Begin(c) ==
  /\ task[c].pc = "queued"
  /\ Cardinality(Running) < Workers
  /\ Goto(c, "recv")
  /\ UNCHANGED <<env, conn, slot, main, made, back>>

\* What the buffer begins with when a piece has arrived: always what the piece
\* begins with, the head of a request or a body, for each is received at the
\* start of a buffer; after the first answer at that of the answer.
HeadAfter(c) ==
  LET starts == {m \in 1..Len(conn[c].reqs) : conn[c].reqs[m].at = conn[c].taken}
  IN IF task[c].pbuf = "out" THEN task[c].head
     ELSE IF starts = {} THEN Junk ELSE CHOOSE m \in starts : TRUE

\* msgLen > rcvedLen for the head h and g units: a head that was overwritten by
\* a body promises anything.
Promises(c, h, g) == IF h = Junk THEN BOOLEAN ELSE {conn[c].reqs[h].len > g}

\* Faulty variant: what was received is counted from the last answer.
CountAfresh(c) == IF task[c].pbuf = "out" THEN 0 ELSE task[c].got

\* rcvedLen, which is never reset.
Count(c) == task[c].got

\* With env.whole nothing but one request is under way.
Recv(c) ==
  /\ task[c].pc = "recv"
  /\ Alive(c)
  /\ LET most == conn[Sid(c)].sent - conn[Sid(c)].taken
         h == HeadAfter(c)
     IN \E n \in IF env.whole THEN {most} ELSE 1..most : \E more \in Promises(c, h, Count(c) + n) :
          /\ n > 0
          /\ task' = [task EXCEPT ![c].head = h, ![c].ret = n, ![c].got = Count(c) + n,
                                  ![c].pc = IF more THEN "recv" ELSE "handle"]
          /\ conn' = [conn EXCEPT ![Sid(c)].taken = @ + n]
  /\ UNCHANGED <<env, slot, main, made, back>>

\* The peer has closed, or the descriptor is no longer open.
RecvEnds(c) ==
  /\ task[c].pc = "recv"
  /\ Alive(c) => conn[Sid(c)].peer = "gone" /\ conn[Sid(c)].sent = conn[Sid(c)].taken
  /\ Goto(c, "end")
  /\ UNCHANGED <<env, conn, slot, main, made, back>>

Kind(c) == IF task[c].head = Junk THEN "unknown" ELSE conn[c].reqs[task[c].head].kind

\* The handler wants msgLen to be all that was received, on this connection and
\* not of this request.
Accepted(c) == Kind(c) # "unknown" /\ task[c].got = conn[c].reqs[task[c].head].len

\* Faulty variant: a request of no known type is not answered.
AnswerKnown(c) ==
  IF Kind(c) = "unknown" THEN "none"
  ELSE IF Accepted(c) THEN IF Kind(c) = "silent" THEN "none" ELSE "ok"
  ELSE IF Kind(c) = "acked" THEN "invalid" ELSE "none"

\* Without a handler outLen stays the length of the whole, zeroed buffer.  A
\* report is sent whatever ackFlag says, once the request is accepted.
Answer(c) ==
  IF Kind(c) = "unknown" THEN "zeros"
  ELSE IF Accepted(c) THEN IF Kind(c) = "silent" THEN "none" ELSE "ok"
  ELSE IF Kind(c) = "acked" THEN "invalid" ELSE "none"

\* comm_serverMsgProc and the handler.  The last ret units are what has arrived
\* of the request; the rest is taken from what lies in the buffer.
Handle(c) ==
  /\ task[c].pc = "handle"
  /\ made' = IF Accepted(c) THEN [made EXCEPT ![c][task[c].head] = @ + task[c].ret] ELSE made
  /\ task' = [task EXCEPT ![c].reply = Answer(c),
                          ![c].pc = IF Answer(c) = "none" THEN "recv" ELSE "send"]
  /\ UNCHANGED <<env, conn, slot, main, back>>

Send(c) ==
  /\ task[c].pc = "send"
  /\ Alive(c)
  /\ back' = [back EXCEPT ![Sid(c)] = Append(@, task[c].reply)]
  /\ task' = [task EXCEPT ![c].pbuf = "out", ![c].reply = "none", ![c].pc = "recv"]
  /\ UNCHANGED <<env, conn, slot, main, made>>

SendFails(c) ==
  /\ task[c].pc = "send"
  /\ Alive(c) => conn[Sid(c)].peer = "gone"
  /\ Goto(c, "end")
  /\ UNCHANGED <<env, conn, slot, main, made, back>>

\* The end: first the slot is given back, then the descriptor is closed.
Release(c) ==
  /\ task[c].pc = "end"
  /\ slot' = [slot EXCEPT ![task[c].slot].used = FALSE]
  /\ Goto(c, "close")
  /\ UNCHANGED <<env, conn, main, made, back>>

Close(c) ==
  /\ task[c].pc = "close"
  /\ conn' = IF Sid(c) = NoConn THEN conn ELSE [conn EXCEPT ![Sid(c)].open = FALSE]
  /\ Goto(c, "unset")
  /\ UNCHANGED <<env, slot, main, made, back>>

Unset(c) ==
  /\ task[c].pc = "unset"
  /\ slot' = [slot EXCEPT ![task[c].slot].sid = NoConn]
  /\ Goto(c, "gone")
  /\ UNCHANGED <<env, conn, main, made, back>>

Task(c) == \/ Begin(c) \/ Recv(c) \/ RecvEnds(c) \/ Handle(c) \/ Send(c) \/ SendFails(c)
           \/ Release(c) \/ Close(c) \/ Unset(c)

Next == \/ \E c \in Conns : Connect(c) \/ (\E k \in Kinds, n \in Lengths : Request(c, k, n)) \/ Leave(c)
        \/ Run
        \/ \E c \in Conns : Task(c)

Spec == Init /\ [][Next]_vars

\* The threads are scheduled; what peers do is theirs.
FairSpec == Spec /\ WF_vars(Run) /\ \A c \in Conns : WF_vars(Task(c))

-----------------------------------------------------------------------------
\* What each variable holds.
TypeOK ==
  /\ env \in Settings
  /\ conn \in [Conns -> [open : BOOLEAN, peer : {"none", "up", "gone"},
                         sent : Nat, taken : Nat,
                         reqs : Seq([kind : Kinds, len : Lengths, at : Nat])]]
  /\ slot \in [Slots -> [used : BOOLEAN, sid : Conns \cup {NoConn}]]
  /\ main \in [pc : {"start", "accept", "search", "fill", "destroy", "gone"},
               sid : Conns \cup {NoConn}, i : Slots]
  /\ task \in [Conns -> [pc : {"none", "queued", "recv", "handle", "send", "end", "close", "unset", "gone"},
                         slot : Slots, pbuf : {"in", "out"}, head : 0..Junk, ret : Nat, got : Nat,
                         reply : {"none", "ok", "invalid", "zeros"}]]
  /\ made \in [Conns -> [1..Requests -> Nat]]
  /\ back \in [Conns -> Seq({"ok", "invalid", "zeros"})]

\* A slot is its connection's from when it is filled until the task has closed
\* the descriptor, which nobody else does, and which the task does unless the
\* pool drops it; except when a slot is filled again before its last task has
\* closed (comm_threadmsgproc clears usedflag first).
OwnConnection == \A c \in Conns :
  /\ ~env.quick => (task[c].pc \in {"queued", "recv", "handle", "send", "end", "close"}
                      => Sid(c) = c /\ conn[c].open)
  /\ ~env.quick /\ ~env.fails => (task[c].pc = "gone" => ~conn[c].open)

\* However requests are cut, joined and repeated, and also when slots are filled
\* early: only a request that is longer than all the ones sent before it can be
\* executed, once, when its head began a piece and as many of its units have
\* come as it is longer (all of the first request, a part of a later one, as
\* rcvedLen counts the earlier ones too); a request that is executed after
\* another finds that one silent; and only the first answer of a connection can
\* be "ok", when a request was executed.
ExecutedOnce == \A c \in Conns :
  /\ \A m \in 1..Requests : made[c][m] # 0 =>
       m <= Len(conn[c].reqs) /\ made[c][m] + conn[c].reqs[m].at = conn[c].reqs[m].len
  /\ \A m, n \in 1..Requests : m < n /\ made[c][m] # 0 /\ made[c][n] # 0 => conn[c].reqs[m].kind = "silent"
  /\ \A k \in 1..Len(back[c]) : back[c][k] = "ok" => k = 1 /\ \E m \in 1..Requests : made[c][m] # 0

ChannelSound == TypeOK /\ OwnConnection /\ ExecutedOnce

\* The first request of a connection a running task serves, when it arrives in
\* one piece and wants an answer, is executed and answered, unless the peer
\* leaves before; and one of an unknown type is answered too.
FirstAnswered == \A c \in Conns :
  env.whole /\ ~env.quick /\ c \in Running /\ conn[c].reqs # <<>> /\ conn[c].reqs[1].kind # "silent"
    ~> \/ conn[c].peer = "gone"
       \/ back[c] # <<>> /\ back[c][1] = IF conn[c].reqs[1].kind = "unknown" THEN "zeros" ELSE "ok"
=============================================================================
