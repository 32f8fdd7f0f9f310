---------------------------- MODULE ServerManage ----------------------------
(***************************************************************************)
(* The servers of one process: tcp_server_manage and udp_server_manage     *)
(* (tcp_socket.cpp, udp_socket.cpp), the commands that add and remove      *)
(* servers (comm_AddServerMsgProc, comm_RmvServerMsgProc in sgg_comm.cpp)  *)
(* and the main loop that starts and supervises them (sgg_admin_process).  *)
(*                                                                         *)
(* A server object is run by a thread of its own.  The map of the servers  *)
(* is guarded by a read-write lock: the main thread reads it, a task of    *)
(* the command channel writes it.                                          *)
(***************************************************************************)
EXTENDS Naturals, FiniteSets, FiniteSetsExt

CONSTANTS Ports,       \* the ports a server may listen on
          Threads,     \* as many threads as may exist at a time
          Commanders,  \* tasks of the command channel
          Commands,    \* how many commands each of them brings
          Settings     \* the settings to check, see SettingType

NoThread == 0       \* thrId == 0
Freed == 0          \* the object was destroyed

ASSUME PortsAssumption == Ports \subseteq Nat \ {Freed} /\ IsFiniteSet(Ports)
ASSUME ThreadsAssumption == Threads \subseteq Nat \ {0} /\ IsFiniteSet(Threads)
ASSUME CommandsAssumption == Commands \in Nat
ASSUME CommandersAssumption == {"free", "main"} \cap Commanders = {}   \* see rwlock

\* What this process has to put up with; it never changes.
\*   kind   the protocol of its servers (the other manager is never ready)
\*   early  commands arrive before run() has started the configured servers
\*   fails  pthread_create may fail
\*   nomem  a server may find no memory for its sessions
SettingType == [kind : {"tcp", "udp"}, early : BOOLEAN, fails : BOOLEAN, nomem : BOOLEAN]
ASSUME SettingsAssumption == Settings \subseteq SettingType
\* Where pthread_create does not fail there is a thread for every server.
ASSUME EnoughThreads ==
  \A s \in Settings : s.fails \/ Cardinality(Ports) <= Cardinality(Threads)

VARIABLES env,       \* the setting
          servers,   \* the map: port -> [thr, run, stop]
          thread,    \* Threads -> [pc, of]: of is the port of its object, or Freed
          rwlock,    \* the read-write lock: "free", "main" (reading) or a commander
          mpc,       \* the main thread
          todo,      \* the servers the main thread has still to visit in a loop
          ready,     \* init() has been called: confInfo.location is valid
          cmd        \* Commanders -> [pc, left, ports, answer]

vars == <<env, servers, thread, rwlock, mpc, todo, ready, cmd>>

Has(p) == p \in DOMAIN servers
Live == {t \in Threads : thread[t].pc \in {"new", "up", "ending"}}
Of(p) == {t \in Threads : thread[t].of = p /\ thread[t].pc # "none"}

-----------------------------------------------------------------------------
(* The server objects.                                                     *)

\* The constructor, then init(): a server that does not run.
NewServer == [thr |-> NoThread, run |-> 0, stop |-> FALSE]

\* init(); that of a UDP server leaves its shutdown as it is.
Initialised(o) ==
  [thr |-> o.thr, run |-> 0, stop |-> IF env.kind = "udp" THEN o.stop ELSE FALSE]

\* The map s without the servers ps.
Without(s, ps) == [p \in DOMAIN s \ ps |-> s[p]]

\* The threads of erased servers, running ones in freed memory.
Orphaned(th, ps) == [t \in Threads |-> IF th[t].of \in ps THEN [th[t] EXCEPT !.of = Freed] ELSE th[t]]

Unused == {t \in Threads : thread[t].pc = "none"}

\* pthread_create for the server of port p; it was old.
Created(p, old) ==
  /\ Unused # {}
  /\ LET t == Min(Unused)
     IN /\ thread' = [thread EXCEPT ![t] = [pc |-> "new", of |-> p]]
        /\ servers' = [q \in DOMAIN servers \cup {p} |->
                         IF q = p THEN [old EXCEPT !.thr = t] ELSE servers[q]]

CreateFails == env.fails \/ Unused = {}

\* Faulty variant: a server is not told.
ToldNot(ps) == servers

\* setshutdown(1) of the servers ps.
Told(ps) == [p \in DOMAIN servers |->
               IF p \in ps THEN [servers[p] EXCEPT !.stop = TRUE] ELSE servers[p]]

\* pthread_join of the thread of p returns once that thread has ended.
CanJoin(p) == thread[servers[p].thr].pc = "gone"
Joined(p) == [thread EXCEPT ![servers[p].thr] = [pc |-> "none", of |-> Freed]]

-----------------------------------------------------------------------------
(* The thread of a server (tcpSvrManageThrdProc, udpSvrManageThrdProc).    *)

\* A thread whose object is gone writes into freed memory.
SetRun(t, n) == servers' = IF Has(thread[t].of)
                           THEN [servers EXCEPT ![thread[t].of].run = n] ELSE servers

ThreadUnchanged == UNCHANGED <<env, rwlock, mpc, todo, ready, cmd>>

\* run() begins: runFlag = 1.
RunBegins(t) ==
  /\ thread[t].pc = "new"
  /\ thread' = [thread EXCEPT ![t].pc = "up"]
  /\ SetRun(t, 1)
  /\ ThreadUnchanged

\* A TCP server finds no memory for its sessions and returns at once.
RunNoMemory(t) ==
  /\ env.nomem /\ env.kind = "tcp"
  /\ thread[t].pc = "up"
  /\ thread' = [thread EXCEPT ![t].pc = "gone"]
  /\ UNCHANGED servers
  /\ ThreadUnchanged

\* Told to stop, or because it cannot listen, accept or create its threads,
\* a server leaves its loop; a TCP server takes its sessions down.
RunLeaves(t) ==
  /\ thread[t].pc = "up"
  /\ thread' = [thread EXCEPT ![t].pc = "ending"]
  /\ UNCHANGED servers
  /\ ThreadUnchanged

\* The last statement of run(): runFlag = 2.  The thread ends.
RunReturns(t) ==
  /\ thread[t].pc = "ending"
  /\ thread' = [thread EXCEPT ![t].pc = "gone"]
  /\ SetRun(t, 2)
  /\ ThreadUnchanged

ServerThread(t) == RunBegins(t) \/ RunNoMemory(t) \/ RunLeaves(t) \/ RunReturns(t)

-----------------------------------------------------------------------------
(* The main thread: sgg_admin_process in the loop of main(), and run() of  *)
(* the manager.                                                            *)

MainUnchanged == UNCHANGED <<env, cmd>>

\* The configuration file is read; the command channel and the manager know
\* their configuration from now on.  (A file that cannot be read, or whose
\* ranges do not fit, is read again a second later.)
ReadConf ==
  /\ mpc = "conf"
  /\ \E a, b \in Ports : todo' = {p \in Ports : a <= p /\ p <= b}
  /\ ready' = TRUE
  /\ mpc' = "insert"
  /\ UNCHANGED <<servers, thread, rwlock>>
  /\ MainUnchanged

\* The configured servers go into the map, those that are not there yet.
InsertAll ==
  /\ mpc = "insert" /\ rwlock = "free"
  /\ servers' = [p \in DOMAIN servers \cup todo |-> IF Has(p) THEN servers[p] ELSE NewServer]
  /\ mpc' = "lock"
  /\ UNCHANGED <<thread, rwlock, todo, ready>>
  /\ MainUnchanged

StartLock ==
  /\ mpc = "lock" /\ rwlock = "free"
  /\ rwlock' = "main"
  /\ todo' = DOMAIN servers
  /\ mpc' = "start"
  /\ UNCHANGED <<servers, thread, ready>>
  /\ MainUnchanged

\* init() and pthread_create for each server in the map, whoever put it there.
StartOne ==
  /\ mpc = "start" /\ todo # {}
  /\ Created(Min(todo), Initialised(servers[Min(todo)]))
  /\ todo' = todo \ {Min(todo)}
  /\ UNCHANGED <<rwlock, mpc, ready>>
  /\ MainUnchanged

\* The lock is given back and every server is taken down again.
StartFails ==
  /\ mpc = "start" /\ todo # {} /\ CreateFails
  /\ servers' = [servers EXCEPT ![Min(todo)] = Initialised(@)]
  /\ rwlock' = "free"
  /\ todo' = DOMAIN servers
  /\ mpc' = "end"
  /\ UNCHANGED <<thread, ready>>
  /\ MainUnchanged

Leave == /\ mpc \in {"start", "round"} /\ todo = {}
         /\ rwlock' = "free"
         /\ mpc' = "watch"
         /\ UNCHANGED <<servers, thread, todo, ready>>
         /\ MainUnchanged

\* After 30 s the servers are looked at.  A thread that was created before
\* has begun by then.
Round ==
  /\ mpc = "watch" /\ rwlock = "free"
  /\ \A t \in Threads : thread[t].pc # "new"
  /\ rwlock' = "main"
  /\ todo' = DOMAIN servers
  /\ mpc' = "round"
  /\ UNCHANGED <<servers, thread, ready>>
  /\ MainUnchanged

Pass == /\ todo' = todo \ {Min(todo)}
        /\ UNCHANGED <<servers, thread, rwlock, mpc, ready>>
        /\ MainUnchanged

StillRuns == /\ mpc = "round" /\ todo # {}
             /\ servers[Min(todo)].run # 2
             /\ Pass

\* The thread of a server that has stopped is joined.
Reclaim ==
  /\ mpc = "round" /\ todo # {}
  /\ LET p == Min(todo)
     IN /\ servers[p].run = 2 /\ servers[p].thr # NoThread /\ CanJoin(p)
        /\ thread' = Joined(p)
        /\ servers' = [servers EXCEPT ![p].thr = NoThread]
  /\ UNCHANGED <<rwlock, mpc, todo, ready>>
  /\ MainUnchanged

\* It runs again, with whatever its flags were.
Rerun ==
  /\ mpc = "round" /\ todo # {}
  /\ LET p == Min(todo)
     IN /\ servers[p].run = 2 /\ servers[p].thr = NoThread
        /\ Created(p, servers[p])
  /\ todo' = todo \ {Min(todo)}
  /\ UNCHANGED <<rwlock, mpc, ready>>
  /\ MainUnchanged

RerunFails ==
  /\ mpc = "round" /\ todo # {} /\ CreateFails
  /\ servers[Min(todo)].run = 2 /\ servers[Min(todo)].thr = NoThread
  /\ Pass

\* Not all servers could be started: those with a thread are told to stop,
\* without the lock.  The TCP manager waits for each of them.
EndTcp ==
  /\ env.kind = "tcp"
  /\ mpc \in {"end", "join"} /\ todo # {}
  /\ LET p == Min(todo)
         visit == Has(p) /\ servers[p].thr # NoThread
     IN \/ /\ mpc = "end" /\ visit
           /\ servers' = Told({p})
           /\ mpc' = "join"
           /\ UNCHANGED <<thread, todo>>
        \/ /\ mpc = "join" => (Has(p) => CanJoin(p))
           /\ mpc = "end" => ~visit
           /\ thread' = IF mpc = "join" /\ Has(p) THEN Joined(p) ELSE thread
           /\ todo' = todo \ {p}
           /\ mpc' = "end"
           /\ UNCHANGED servers
  /\ UNCHANGED <<rwlock, ready>>
  /\ MainUnchanged

\* The UDP manager does not wait.
EndUdp ==
  /\ env.kind = "udp"
  /\ mpc = "end" /\ todo # {}
  /\ servers' = Told({p \in todo : Has(p) /\ servers[p].thr # NoThread})
  /\ todo' = {}
  /\ UNCHANGED <<thread, rwlock, mpc, ready>>
  /\ MainUnchanged

\* Five seconds later the map is emptied, and main() starts over.
ClearAll ==
  /\ mpc = "end" /\ todo = {}
  /\ servers' = Without(servers, DOMAIN servers)
  /\ thread' = Orphaned(thread, DOMAIN servers)
  /\ mpc' = "conf"
  /\ UNCHANGED <<rwlock, todo, ready>>
  /\ MainUnchanged

Main == \/ ReadConf \/ InsertAll \/ StartLock \/ StartOne \/ StartFails \/ Leave
        \/ Round \/ StillRuns \/ Reclaim \/ Rerun \/ RerunFails
        \/ EndTcp \/ EndUdp \/ ClearAll

-----------------------------------------------------------------------------
(* The command channel.                                                    *)

CommandUnchanged == UNCHANGED <<env, mpc, todo, ready>>

\* A request arrives that names some ports, all of the same protocol.
Command(c) ==
  /\ cmd[c].pc = "idle" /\ cmd[c].left > 0
  /\ env.early \/ mpc \in {"watch", "round"}
  /\ \E ps \in SUBSET Ports \ {{}}, op \in {"add", "tell"} :
        cmd' = [cmd EXCEPT ![c] = [pc |-> op, left |-> @.left - 1, ports |-> ps, answer |-> "none"]]
  /\ UNCHANGED <<servers, thread, rwlock>>
  /\ CommandUnchanged

Answer(c, a) ==
  cmd' = [cmd EXCEPT ![c] = [pc |-> "idle", left |-> @.left, ports |-> {}, answer |-> a]]

\* The manager does not know where it is yet (ERR_SGG_SERVER_M_NOT_READY).
NotReady(c) ==
  /\ cmd[c].pc \in {"add", "tell"} /\ ~ready
  /\ Answer(c, "not ready")
  /\ UNCHANGED <<servers, thread, rwlock>>
  /\ CommandUnchanged

\* add() of the next port: the whole of it holds the lock.
NextPort(c) == Min(cmd[c].ports)

\* Faulty variant: a port that is taken gets another thread.
AddOneAgain(c) ==
  /\ cmd[c].pc = "add" /\ ready /\ rwlock = "free" /\ cmd[c].ports # {}
  /\ Created(NextPort(c), NewServer)
  /\ cmd' = [cmd EXCEPT ![c].ports = @ \ {NextPort(c)}]
  /\ UNCHANGED rwlock
  /\ CommandUnchanged

AddOne(c) ==
  /\ cmd[c].pc = "add" /\ ready /\ rwlock = "free" /\ cmd[c].ports # {}
  /\ ~Has(NextPort(c))
  /\ Created(NextPort(c), NewServer)
  /\ cmd' = [cmd EXCEPT ![c].ports = @ \ {NextPort(c)}]
  /\ UNCHANGED rwlock
  /\ CommandUnchanged

AddTcp(c) == env.kind = "tcp" /\ AddOne(c)
AddUdp(c) == env.kind = "udp" /\ AddOne(c)

\* No thread: the server is erased again, and the command goes on as if it
\* had been added.
AddFails(c) ==
  /\ cmd[c].pc = "add" /\ ready /\ rwlock = "free" /\ cmd[c].ports # {}
  /\ ~Has(NextPort(c)) /\ CreateFails
  /\ cmd' = [cmd EXCEPT ![c].ports = @ \ {NextPort(c)}]
  /\ UNCHANGED <<servers, thread, rwlock>>
  /\ CommandUnchanged

\* The port is taken: the rest of the request is dropped.
AddExists(c) ==
  /\ cmd[c].pc = "add" /\ ready /\ rwlock = "free" /\ cmd[c].ports # {}
  /\ Has(NextPort(c))
  /\ Answer(c, "exists")
  /\ UNCHANGED <<servers, thread, rwlock>>
  /\ CommandUnchanged

Added(c) == /\ cmd[c].pc = "add" /\ ready /\ cmd[c].ports = {}
            /\ Answer(c, "ok")
            /\ UNCHANGED <<servers, thread, rwlock>>
            /\ CommandUnchanged

\* Faulty variant: the lock is held for telling them only.
RmvTellUnlocked(c) ==
  /\ cmd[c].pc = "tell" /\ ready /\ rwlock = "free"
  /\ servers' = Told(cmd[c].ports)
  /\ cmd' = [cmd EXCEPT ![c].pc = "join"]
  /\ UNCHANGED <<thread, rwlock>>
  /\ CommandUnchanged

\* rmv(): under the lock, first all servers are told to stop.
RmvTell(c) ==
  /\ cmd[c].pc = "tell" /\ ready /\ rwlock = "free"
  /\ rwlock' = c
  /\ servers' = Told(cmd[c].ports)
  /\ cmd' = [cmd EXCEPT ![c].pc = "join"]
  /\ UNCHANGED thread
  /\ CommandUnchanged

\* Then they are joined and erased one after the other.
RmvOne(c) ==
  /\ cmd[c].pc = "join" /\ cmd[c].ports # {}
  /\ LET p == Min(cmd[c].ports)
     IN /\ Has(p) /\ servers[p].thr # NoThread => CanJoin(p)
        /\ thread' = Orphaned(IF Has(p) /\ servers[p].thr # NoThread THEN Joined(p) ELSE thread, {p})
        /\ servers' = Without(servers, {p})
        /\ cmd' = [cmd EXCEPT ![c].ports = @ \ {p}]
  /\ UNCHANGED rwlock
  /\ CommandUnchanged

RmvTcp(c) == env.kind = "tcp" /\ RmvOne(c)
RmvUdp(c) == env.kind = "udp" /\ RmvOne(c)

Removed(c) == /\ cmd[c].pc = "join" /\ cmd[c].ports = {}
              /\ rwlock' = "free"
              /\ Answer(c, "ok")
              /\ UNCHANGED <<servers, thread>>
              /\ CommandUnchanged

Commander(c) == \/ NotReady(c)
                \/ AddTcp(c) \/ AddUdp(c) \/ AddFails(c) \/ AddExists(c) \/ Added(c)
                \/ RmvTell(c) \/ RmvTcp(c) \/ RmvUdp(c) \/ Removed(c)

-----------------------------------------------------------------------------
Init == /\ env \in Settings
        /\ servers = [p \in {} |-> NewServer]
        /\ thread = [t \in Threads |-> [pc |-> "none", of |-> Freed]]
        /\ rwlock = "free"
        /\ mpc = "conf"
        /\ todo = {}
        /\ ready = FALSE
        /\ cmd = [c \in Commanders |-> [pc |-> "idle", left |-> Commands, ports |-> {}, answer |-> "none"]]

Next == \/ \E t \in Threads : ServerThread(t)
        \/ Main
        \/ \E c \in Commanders : Commander(c) \/ Command(c)

Spec == Init /\ [][Next]_vars

\* Threads run.  A server leaves its loop when it is told to (StopEnds of
\* TcpSession).  A task that waits for the lock gets it.
FairSpec == /\ Spec
            /\ \A t \in Threads :
                 WF_vars(\/ RunBegins(t) \/ RunReturns(t)
                         \/ RunLeaves(t) /\ Has(thread[t].of) /\ servers[thread[t].of].stop)
            /\ SF_vars(Main)
            /\ \A c \in Commanders : SF_vars(Commander(c))

-----------------------------------------------------------------------------
(* Properties.                                                             *)

\* What each variable holds.
TypeOK ==
  /\ env \in Settings
  /\ DOMAIN servers \subseteq Ports
  /\ \A p \in DOMAIN servers :
       servers[p] \in [thr : Threads \cup {NoThread}, run : 0..2, stop : BOOLEAN]
  /\ thread \in [Threads -> [pc : {"none", "new", "up", "ending", "gone"}, of : Ports \cup {Freed}]]
  /\ mpc \in {"conf", "insert", "lock", "start", "watch", "round", "end", "join"}
  /\ todo \subseteq Ports
  /\ ready \in BOOLEAN
  /\ cmd \in [Commanders -> [pc : {"idle", "add", "tell", "join"}, left : 0..Commands,
                             ports : SUBSET Ports,
                             answer : {"none", "ok", "exists", "not ready"}]]

\* The lock is held exactly while the main thread goes through the servers
\* and while a command removes some.
LockHeld == rwlock = IF mpc \in {"start", "round"} THEN "main"
                     ELSE IF \E c \in Commanders : cmd[c].pc = "join"
                     THEN CHOOSE c \in Commanders : cmd[c].pc = "join" ELSE "free"

\* Every thread of a server, running or ended, is the one thrId names, so
\* that it is joined some day and never runs twice on the same object.
OneThread == \A p \in DOMAIN servers : Of(p) \subseteq {servers[p].thr}

\* No thread outlives its server.
NoThreadLeft == \A t \in Threads : thread[t].pc # "none" => thread[t].of # Freed

\* Adding, removing, supervising and a start that fails halfway keep servers
\* and threads together: one thread per server at most, known to it, and none
\* without.  Not so when a command comes before run() starts the servers (it
\* would start those of the command again, tcp_socket.cpp:1230), nor where
\* the UDP manager, which does not wait, cannot create a thread
\* (udp_socket.cpp:2213).
ServersSound ==
  /\ TypeOK /\ LockHeld
  /\ ~env.early => OneThread
  /\ ~env.early /\ (env.kind = "tcp" \/ ~env.fails) => NoThreadLeft

\* A server that was told to stop never gets another thread: the removal
\* holds the lock from telling it until it is erased, so the supervisor,
\* which runs stopped servers again, does not see it (tcp_socket.cpp:1152).
StopsForGood ==
  [][\A p \in DOMAIN servers :
       servers[p].stop /\ Has(p)' => servers'[p].thr \in {servers[p].thr, NoThread}]_vars

\* Every command is answered, also those that wait for servers to stop.
\* (Where a server was started twice the supervisor may join the thread that
\* runs, and never lets go of the lock.)
CommandsReturn ==
  \A c \in Commanders : (cmd[c].pc # "idle" /\ ~env.early) ~> (cmd[c].pc = "idle")

\* A supervised server whose thread has ended runs again or is removed,
\* unless it ended for want of memory and left runFlag 1 (tcp_socket.cpp:821).
ServersComeBack ==
  \A p \in Ports : (/\ ~env.early /\ ~env.fails /\ ~env.nomem
                    /\ mpc \in {"watch", "round"}
                    /\ Has(p) /\ Of(p) \cap Live = {})
                   ~> (~Has(p) \/ Of(p) \cap Live # {})

\* The main thread and the commands get on in spite of each other.
Progress == CommandsReturn /\ ServersComeBack
=============================================================================
