---------------------------- MODULE ServerProofs ----------------------------
(***************************************************************************)
(* Proofs about the servers of both managers (ServerManage) for all ports, *)
(* any number of threads and of tasks of the command channel, and every    *)
(* setting, and about the pool that runs a server's sessions (ThreadPool)  *)
(* for every number of threads, every queue size and every number of tasks.*)
(***************************************************************************)
EXTENDS ServerManage, ThreadPool, SequenceTheorems, FiniteSetTheorems, WellFoundedInduction, TLAPS

(* A set of numbers has a least one. *)
LEMMA MinIsLeast ==
  ASSUME NEW S \in SUBSET Nat, S # {}
  PROVE  Min(S) \in S /\ \A y \in S : Min(S) <= y
<1>1. PICK x \in S : \A y \in S : ~ (<<y, x>> \in OpToRel(<, Nat))
  BY NatLessThanWellFounded, WFMin
<1>2. ASSUME NEW y \in S PROVE x <= y
  <2>1. ~(y < x)
    <3>1. SUFFICES ASSUME y < x PROVE <<y, x>> \in OpToRel(<, Nat)
      BY <1>1
    <3>2. <<y, x>> \in Nat \X Nat /\ <<y, x>>[1] < <<y, x>>[2]
      BY <3>1
    <3>. QED  BY <3>2, Zenon DEF OpToRel
  <2>. QED  BY <2>1
<1>. QED  BY <1>2 DEF Min

-----------------------------------------------------------------------------
(* The lock.                                                               *)

Joins(c) == cmd[c].pc = "join"

\* Either the main thread holds the lock, or one command does, or nobody; and
\* while the main thread holds it the servers it has still to visit are there.
LockRules ==
  /\ mpc \in {"start", "round"} => rwlock = "main" /\ todo \subseteq DOMAIN servers
  /\ \A c \in Commanders : Joins(c) => rwlock = c
  /\ rwlock \in Commanders => Joins(rwlock)
  /\ rwlock = "main" => mpc \in {"start", "round"}
  /\ rwlock \in Commanders \cup {"free", "main"}

(* Of the lock rules LockHeld is what the code's users see. *)
LEMMA LockRulesGiveLockHeld == LockRules => LockHeld
<1> SUFFICES ASSUME LockRules PROVE LockHeld
  OBVIOUS
<1>0. "free" \notin Commanders /\ "main" \notin Commanders
  BY CommandersAssumption
<1>1. CASE mpc \in {"start", "round"}
  BY <1>1 DEF LockRules, LockHeld
<1>2. CASE mpc \notin {"start", "round"} /\ \E c \in Commanders : Joins(c)
  <2> DEFINE j == CHOOSE c \in Commanders : cmd[c].pc = "join"
  <2>1. j \in Commanders /\ Joins(j)
    BY <1>2 DEF Joins
  <2>2. rwlock = j
    BY <2>1 DEF LockRules
  <2>. QED  BY <1>2, <2>2 DEF LockHeld, Joins
<1>3. CASE mpc \notin {"start", "round"} /\ ~ \E c \in Commanders : Joins(c)
  BY <1>3, <1>0 DEF LockRules, LockHeld, Joins
<1>. QED  BY <1>1, <1>2, <1>3

(* What the next server to visit, or the next port of a request, is. *)
LEMMA NextTodo ==
  ASSUME TypeOK, todo # {}
  PROVE  Min(todo) \in todo /\ Min(todo) \in Ports
<1>1. todo \in SUBSET Nat /\ todo \subseteq Ports
  BY PortsAssumption DEF TypeOK
<1>. QED  BY <1>1, MinIsLeast

LEMMA NextOfCommand ==
  ASSUME TypeOK, NEW c \in Commanders, cmd[c].ports # {}
  PROVE  Min(cmd[c].ports) \in cmd[c].ports /\ Min(cmd[c].ports) \in Ports
<1>1. cmd[c].ports \in SUBSET Nat /\ cmd[c].ports \subseteq Ports
  BY PortsAssumption DEF TypeOK
<1>. QED  BY <1>1, MinIsLeast

(* What pthread_create does: an unused thread becomes the server's. *)
LEMMA CreatedThread ==
  ASSUME TypeOK, NEW p, NEW old, Created(p, old)
  PROVE  \E t \in Threads :
           /\ thread[t].pc = "none"
           /\ thread' = [thread EXCEPT ![t] = [pc |-> "new", of |-> p]]
           /\ servers' = [q \in DOMAIN servers \cup {p} |->
                            IF q = p THEN [old EXCEPT !.thr = t] ELSE servers[q]]
<1>1. Unused \in SUBSET Nat /\ Unused # {}
  BY ThreadsAssumption DEF Created, Unused
<1>2. Min(Unused) \in Unused
  BY <1>1, MinIsLeast
<1>. QED  BY <1>2 DEF Created, Unused

(* The same when the server is one of type T: it stays well formed. *)
ServerType == [thr : Threads \cup {NoThread}, run : 0..2, stop : BOOLEAN]

LEMMA CreatedTypes ==
  ASSUME TypeOK, NEW p \in Ports, NEW old \in ServerType, Created(p, old)
  PROVE  /\ DOMAIN servers' = DOMAIN servers \cup {p}
         /\ DOMAIN servers' \subseteq Ports
         /\ \A q \in DOMAIN servers' : servers'[q] \in ServerType
         /\ thread' \in [Threads -> [pc : {"none", "new", "up", "ending", "gone"}, of : Ports \cup {Freed}]]
<1>1. PICK t \in Threads :
           /\ thread[t].pc = "none"
           /\ thread' = [thread EXCEPT ![t] = [pc |-> "new", of |-> p]]
           /\ servers' = [q \in DOMAIN servers \cup {p} |->
                            IF q = p THEN [old EXCEPT !.thr = t] ELSE servers[q]]
  BY CreatedThread
<1>2. [old EXCEPT !.thr = t] \in ServerType
  BY DEF ServerType
<1>3. thread' \in [Threads -> [pc : {"none", "new", "up", "ending", "gone"}, of : Ports \cup {Freed}]]
  BY <1>1 DEF TypeOK
<1>. QED  BY <1>1, <1>2, <1>3 DEF TypeOK, ServerType

(* The constructor makes a well formed server. *)
LEMMA NewServerType == NewServer \in ServerType
BY DEF NewServer, ServerType, NoThread

(* And init() keeps one well formed, and its thread. *)
LEMMA InitialisedType ==
  ASSUME NEW o \in ServerType
  PROVE  Initialised(o) \in ServerType /\ Initialised(o).thr = o.thr
<1> DEFINE b == IF env.kind = "udp" THEN o.stop ELSE FALSE
<1>1. b \in BOOLEAN /\ o.thr \in Threads \cup {NoThread}
  BY DEF ServerType
<1>2. Initialised(o) = [thr |-> o.thr, run |-> 0, stop |-> b]
  BY DEF Initialised
<1> HIDE DEF b
<1>. QED  BY <1>1, <1>2 DEF ServerType

(* Every step keeps the lock rules. *)
LEMMA LockStep ==
  ASSUME TypeOK, LockRules, [Next]_vars
  PROVE  LockRules'
<1>0. "free" \notin Commanders /\ "main" \notin Commanders
  BY CommandersAssumption
<1>1. ASSUME NEW t \in Threads, RunBegins(t) PROVE LockRules'
  BY <1>1, <1>0 DEF RunBegins, ThreadUnchanged, SetRun, LockRules, Joins
<1>2. ASSUME NEW t \in Threads, RunNoMemory(t) PROVE LockRules'
  BY <1>2, <1>0 DEF RunNoMemory, ThreadUnchanged, LockRules, Joins
<1>3. ASSUME NEW t \in Threads, RunLeaves(t) PROVE LockRules'
  BY <1>3, <1>0 DEF RunLeaves, ThreadUnchanged, LockRules, Joins
<1>4. ASSUME NEW t \in Threads, RunReturns(t) PROVE LockRules'
  BY <1>4, <1>0 DEF RunReturns, ThreadUnchanged, SetRun, LockRules, Joins
<1>5. ASSUME ReadConf PROVE LockRules'
  BY <1>5, <1>0 DEF ReadConf, MainUnchanged, LockRules, Joins
<1>6. ASSUME InsertAll PROVE LockRules'
  BY <1>6, <1>0 DEF InsertAll, MainUnchanged, LockRules, Joins
<1>7. ASSUME StartLock PROVE LockRules'
  BY <1>7, <1>0 DEF StartLock, MainUnchanged, LockRules, Joins
<1>8. ASSUME StartOne PROVE LockRules'
  <2>1. Min(todo) \in todo
    BY <1>8, NextTodo DEF StartOne
  <2>2. DOMAIN servers' = DOMAIN servers \cup {Min(todo)}
    BY <1>8 DEF StartOne, Created
  <2>. QED  BY <1>8, <2>1, <2>2 DEF StartOne, MainUnchanged, LockRules, Joins
<1>9. ASSUME StartFails PROVE LockRules'
  BY <1>9, <1>0 DEF StartFails, MainUnchanged, LockRules, Joins
<1>10. ASSUME Leave PROVE LockRules'
  BY <1>10, <1>0 DEF Leave, MainUnchanged, LockRules, Joins
<1>11. ASSUME Round PROVE LockRules'
  BY <1>11, <1>0 DEF Round, MainUnchanged, LockRules, Joins
<1>12. ASSUME StillRuns PROVE LockRules'
  BY <1>12, <1>0 DEF StillRuns, Pass, MainUnchanged, LockRules, Joins
<1>13. ASSUME Reclaim PROVE LockRules'
  BY <1>13, <1>0 DEF Reclaim, MainUnchanged, LockRules, Joins
<1>14. ASSUME Rerun PROVE LockRules'
  <2>1. Min(todo) \in todo
    BY <1>14, NextTodo DEF Rerun
  <2>2. DOMAIN servers' = DOMAIN servers \cup {Min(todo)}
    BY <1>14 DEF Rerun, Created
  <2>. QED  BY <1>14, <2>1, <2>2 DEF Rerun, MainUnchanged, LockRules, Joins
<1>15. ASSUME RerunFails PROVE LockRules'
  BY <1>15, <1>0 DEF RerunFails, Pass, MainUnchanged, LockRules, Joins
<1>16. ASSUME EndTcp PROVE LockRules'
  BY <1>16, <1>0 DEF EndTcp, MainUnchanged, LockRules, Joins
<1>17. ASSUME EndUdp PROVE LockRules'
  BY <1>17, <1>0 DEF EndUdp, MainUnchanged, LockRules, Joins
<1>18. ASSUME ClearAll PROVE LockRules'
  BY <1>18, <1>0 DEF ClearAll, MainUnchanged, Without, LockRules, Joins
<1>19. ASSUME NEW c \in Commanders, NotReady(c) PROVE LockRules'
  <2>1. \A d \in Commanders : cmd'[d].pc = IF d = c THEN "idle" ELSE cmd[d].pc
    BY <1>19 DEF NotReady, Answer, TypeOK
  <2>. QED  BY <1>19, <2>1, <1>0 DEF NotReady, CommandUnchanged, LockRules, Joins
<1>20. ASSUME NEW c \in Commanders, AddOne(c) PROVE LockRules'
  <2>1. \A d \in Commanders : cmd'[d].pc = IF d = c THEN cmd[c].pc ELSE cmd[d].pc
    BY <1>20 DEF AddOne, TypeOK
  <2>. QED  BY <1>20, <2>1, <1>0 DEF AddOne, CommandUnchanged, LockRules, Joins
<1>21. ASSUME NEW c \in Commanders, AddFails(c) PROVE LockRules'
  <2>1. \A d \in Commanders : cmd'[d].pc = IF d = c THEN cmd[c].pc ELSE cmd[d].pc
    BY <1>21 DEF AddFails, TypeOK
  <2>. QED  BY <1>21, <2>1, <1>0 DEF AddFails, CommandUnchanged, LockRules, Joins
<1>22. ASSUME NEW c \in Commanders, AddExists(c) PROVE LockRules'
  <2>1. \A d \in Commanders : cmd'[d].pc = IF d = c THEN "idle" ELSE cmd[d].pc
    BY <1>22 DEF AddExists, Answer, TypeOK
  <2>. QED  BY <1>22, <2>1, <1>0 DEF AddExists, CommandUnchanged, LockRules, Joins
<1>23. ASSUME NEW c \in Commanders, Added(c) PROVE LockRules'
  <2>1. \A d \in Commanders : cmd'[d].pc = IF d = c THEN "idle" ELSE cmd[d].pc
    BY <1>23 DEF Added, Answer, TypeOK
  <2>. QED  BY <1>23, <2>1, <1>0 DEF Added, CommandUnchanged, LockRules, Joins
<1>24. ASSUME NEW c \in Commanders, RmvTell(c) PROVE LockRules'
  <2>1. \A d \in Commanders : cmd'[d].pc = IF d = c THEN "join" ELSE cmd[d].pc
    BY <1>24 DEF RmvTell, TypeOK
  <2>. QED  BY <1>24, <2>1, <1>0 DEF RmvTell, CommandUnchanged, LockRules, Joins
<1>25. ASSUME NEW c \in Commanders, RmvOne(c) PROVE LockRules'
  <2>1. \A d \in Commanders : cmd'[d].pc = IF d = c THEN "join" ELSE cmd[d].pc
    BY <1>25 DEF RmvOne, TypeOK
  <2>. QED  BY <1>25, <2>1, <1>0 DEF RmvOne, CommandUnchanged, LockRules, Joins
<1>26. ASSUME NEW c \in Commanders, Removed(c) PROVE LockRules'
  <2>1. \A d \in Commanders : cmd'[d].pc = IF d = c THEN "idle" ELSE cmd[d].pc
    BY <1>26 DEF Removed, Answer, TypeOK
  <2>. QED  BY <1>26, <2>1, <1>0 DEF Removed, CommandUnchanged, LockRules, Joins
<1>27. ASSUME NEW c \in Commanders, Command(c) PROVE LockRules'
  <2>1. PICK ps \in SUBSET Ports \ {{}}, op \in {"add", "tell"} :
          cmd' = [cmd EXCEPT ![c] = [pc |-> op, left |-> @.left - 1, ports |-> ps, answer |-> "none"]]
    BY <1>27 DEF Command
  <2>2. cmd'[c].pc \in {"add", "tell"} /\ \A d \in Commanders \ {c} : cmd'[d] = cmd[d]
    BY <2>1 DEF TypeOK
  <2>. QED  BY <1>27, <2>2, <1>0 DEF Command, CommandUnchanged, LockRules, Joins
<1>28. CASE UNCHANGED vars
  BY <1>28, <1>0 DEF vars, LockRules, Joins
<1>. QED
  BY <1>1, <1>2, <1>3, <1>4, <1>5, <1>6, <1>7, <1>8, <1>9, <1>10, <1>11,
     <1>12, <1>13, <1>14, <1>15, <1>16, <1>17, <1>18, <1>19, <1>20, <1>21,
     <1>22, <1>23, <1>24, <1>25, <1>26, <1>27, <1>28 DEF Next, ServerThread,
     Main, Commander, AddTcp, AddUdp, RmvTcp, RmvUdp

(* TypeOK in parts. *)
ThreadType == [pc : {"none", "new", "up", "ending", "gone"}, of : Ports \cup {Freed}]
CommandType == [pc : {"idle", "add", "tell", "join"}, left : 0..Commands, ports : SUBSET Ports,
                answer : {"none", "ok", "exists", "not ready"}]

ServersType == DOMAIN servers \subseteq Ports /\ \A p \in DOMAIN servers : servers[p] \in ServerType
ThreadsType == thread \in [Threads -> ThreadType]
CommandsType == cmd \in [Commanders -> CommandType]
RestType == /\ env \in Settings
            /\ mpc \in {"conf", "insert", "lock", "start", "watch", "round", "end", "join"}
            /\ todo \subseteq Ports
            /\ ready \in BOOLEAN

(* The parts together are TypeOK. *)
LEMMA TypeParts == TypeOK <=> ServersType /\ ThreadsType /\ CommandsType /\ RestType
BY DEF TypeOK, ServersType, ThreadsType, CommandsType, RestType, ServerType, ThreadType, CommandType

(* What the helpers of the actions keep well formed. *)
LEMMA AnswerType ==
  ASSUME CommandsType, NEW c \in Commanders, NEW a \in {"ok", "exists", "not ready"}, Answer(c, a)
  PROVE  CommandsType'
<1> DEFINE r == [pc |-> "idle", left |-> cmd[c].left, ports |-> {}, answer |-> a]
<1>1. r \in CommandType
  BY DEF CommandsType, CommandType
<1>2. cmd' = [cmd EXCEPT ![c] = r]
  BY DEF Answer
<1> HIDE DEF r
<1>. QED  BY <1>1, <1>2 DEF CommandsType

LEMMA PortDroppedType ==
  ASSUME CommandsType, NEW c \in Commanders, NEW p, cmd' = [cmd EXCEPT ![c].ports = @ \ {p}]
  PROVE  CommandsType'
BY DEF CommandsType, CommandType

LEMMA SetRunType ==
  ASSUME ServersType, NEW t \in Threads, NEW n \in 0..2, SetRun(t, n)
  PROVE  ServersType' /\ DOMAIN servers' = DOMAIN servers
BY DEF SetRun, Has, ServersType, ServerType

LEMMA ToldType ==
  ASSUME ServersType, NEW ps, servers' = Told(ps)
  PROVE  ServersType' /\ DOMAIN servers' = DOMAIN servers
BY DEF Told, ServersType, ServerType

LEMMA JoinedType ==
  ASSUME ServersType, ThreadsType, NEW p \in DOMAIN servers
  PROVE  Joined(p) \in [Threads -> ThreadType]
BY DEF Joined, ServersType, ServerType, ThreadsType, ThreadType

LEMMA OrphanedType ==
  ASSUME NEW th \in [Threads -> ThreadType], NEW ps
  PROVE  Orphaned(th, ps) \in [Threads -> ThreadType]
BY DEF Orphaned, ThreadType

LEMMA WithoutType ==
  ASSUME ServersType, NEW ps, servers' = Without(servers, ps)
  PROVE  ServersType' /\ DOMAIN servers' = DOMAIN servers \ ps
BY DEF Without, ServersType

(* Every step keeps TypeOK; that a server in the loop is still in the map  *)
(* comes from the lock rules.                                              *)
LEMMA TypeStep ==
  ASSUME TypeOK, LockRules, [Next]_vars
  PROVE  TypeOK'
<1> SUFFICES (ServersType /\ ThreadsType /\ CommandsType /\ RestType)'
  BY DEF TypeOK, ServersType, ThreadsType, CommandsType, RestType, ServerType, ThreadType, CommandType
<1>0. ServersType /\ ThreadsType /\ CommandsType /\ RestType
  BY TypeParts
<1>1. ASSUME NEW t \in Threads, RunBegins(t) PROVE (ServersType /\ ThreadsType /\ CommandsType /\ RestType)'
  <2>1. ServersType'
    BY <1>1, <1>0, SetRunType DEF RunBegins
  <2>2. ThreadsType'
    BY <1>1, <1>0 DEF RunBegins, ThreadsType, ThreadType
  <2>. QED  BY <1>1, <1>0, <2>1, <2>2 DEF RunBegins, ThreadUnchanged, RestType, CommandsType
<1>2. ASSUME NEW t \in Threads, RunNoMemory(t) PROVE (ServersType /\ ThreadsType /\ CommandsType /\ RestType)'
  <2>1. ThreadsType'
    BY <1>2, <1>0 DEF RunNoMemory, ThreadsType, ThreadType
  <2>. QED  BY <1>2, <1>0, <2>1 DEF RunNoMemory, ThreadUnchanged, RestType, ServersType, CommandsType
<1>3. ASSUME NEW t \in Threads, RunLeaves(t) PROVE (ServersType /\ ThreadsType /\ CommandsType /\ RestType)'
  <2>1. ThreadsType'
    BY <1>3, <1>0 DEF RunLeaves, ThreadsType, ThreadType
  <2>. QED  BY <1>3, <1>0, <2>1 DEF RunLeaves, ThreadUnchanged, RestType, ServersType, CommandsType
<1>4. ASSUME NEW t \in Threads, RunReturns(t) PROVE (ServersType /\ ThreadsType /\ CommandsType /\ RestType)'
  <2>1. ServersType'
    BY <1>4, <1>0, SetRunType DEF RunReturns
  <2>2. ThreadsType'
    BY <1>4, <1>0 DEF RunReturns, ThreadsType, ThreadType
  <2>. QED  BY <1>4, <1>0, <2>1, <2>2 DEF RunReturns, ThreadUnchanged, RestType, CommandsType
<1>5. ASSUME ReadConf PROVE (ServersType /\ ThreadsType /\ CommandsType /\ RestType)'
  <2>. QED  BY <1>5, <1>0 DEF ReadConf, MainUnchanged, RestType, ServersType, ThreadsType, CommandsType
<1>6. ASSUME InsertAll PROVE (ServersType /\ ThreadsType /\ CommandsType /\ RestType)'
  <2>1. ServersType'
    BY <1>6, <1>0, NewServerType DEF InsertAll, Has, ServersType, RestType
  <2>. QED  BY <1>6, <1>0, <2>1 DEF InsertAll, MainUnchanged, RestType, ThreadsType, CommandsType
<1>7. ASSUME StartLock PROVE (ServersType /\ ThreadsType /\ CommandsType /\ RestType)'
  <2>. QED  BY <1>7, <1>0 DEF StartLock, MainUnchanged, RestType, ServersType, ThreadsType, CommandsType
<1>8. ASSUME StartOne PROVE (ServersType /\ ThreadsType /\ CommandsType /\ RestType)'
  <2>1. /\ Min(todo) \in todo /\ Min(todo) \in Ports
        /\ Initialised(servers[Min(todo)]) \in ServerType
    BY <1>8, <1>0, NextTodo, InitialisedType DEF StartOne, LockRules, ServersType
  <2>2. ServersType'
    BY <1>8, <2>1, CreatedTypes DEF StartOne, ServersType
  <2>3. ThreadsType'
    BY <1>8, <2>1, CreatedTypes DEF StartOne, ThreadsType, ThreadType
  <2>. QED  BY <1>8, <1>0, <2>1, <2>2, <2>3 DEF StartOne, MainUnchanged, RestType, CommandsType
<1>9. ASSUME StartFails PROVE (ServersType /\ ThreadsType /\ CommandsType /\ RestType)'
  <2>1. Min(todo) \in DOMAIN servers
        /\ Initialised(servers[Min(todo)]) \in ServerType
    BY <1>9, <1>0, NextTodo, InitialisedType DEF StartFails, LockRules, ServersType
  <2>2. ServersType'
    BY <1>9, <1>0, <2>1 DEF StartFails, ServersType
  <2>. QED  BY <1>9, <1>0, <2>1, <2>2 DEF StartFails, MainUnchanged, RestType, ThreadsType, CommandsType, ServersType
<1>10. ASSUME Leave PROVE (ServersType /\ ThreadsType /\ CommandsType /\ RestType)'
  <2>. QED  BY <1>10, <1>0 DEF Leave, MainUnchanged, RestType, ServersType, ThreadsType, CommandsType
<1>11. ASSUME Round PROVE (ServersType /\ ThreadsType /\ CommandsType /\ RestType)'
  <2>. QED  BY <1>11, <1>0 DEF Round, MainUnchanged, RestType, ServersType, ThreadsType, CommandsType
<1>12. ASSUME StillRuns PROVE (ServersType /\ ThreadsType /\ CommandsType /\ RestType)'
  <2>. QED  BY <1>12, <1>0 DEF StillRuns, Pass, MainUnchanged, RestType, ServersType, ThreadsType, CommandsType
<1>13. ASSUME Reclaim PROVE (ServersType /\ ThreadsType /\ CommandsType /\ RestType)'
  <2>1. Min(todo) \in DOMAIN servers
    BY <1>13, NextTodo DEF Reclaim, LockRules
  <2>2. ServersType'
    BY <1>13, <1>0, <2>1 DEF Reclaim, ServersType, ServerType
  <2>3. ThreadsType'
    BY <1>13, <1>0, <2>1, JoinedType DEF Reclaim, ThreadsType
  <2>. QED  BY <1>13, <1>0, <2>1, <2>2, <2>3 DEF Reclaim, MainUnchanged, RestType, CommandsType
<1>14. ASSUME Rerun PROVE (ServersType /\ ThreadsType /\ CommandsType /\ RestType)'
  <2>1. /\ Min(todo) \in todo /\ Min(todo) \in Ports
        /\ servers[Min(todo)] \in ServerType
    BY <1>14, <1>0, NextTodo DEF Rerun, LockRules, ServersType
  <2>2. ServersType'
    BY <1>14, <2>1, CreatedTypes DEF Rerun, ServersType
  <2>3. ThreadsType'
    BY <1>14, <2>1, CreatedTypes DEF Rerun, ThreadsType, ThreadType
  <2>. QED  BY <1>14, <1>0, <2>1, <2>2, <2>3 DEF Rerun, MainUnchanged, RestType, CommandsType
<1>15. ASSUME RerunFails PROVE (ServersType /\ ThreadsType /\ CommandsType /\ RestType)'
  <2>. QED  BY <1>15, <1>0 DEF RerunFails, Pass, MainUnchanged, RestType, ServersType, ThreadsType, CommandsType
<1>16. ASSUME EndTcp PROVE (ServersType /\ ThreadsType /\ CommandsType /\ RestType)'
  <2>1. ServersType'
    BY <1>16, <1>0, ToldType DEF EndTcp, ServersType
  <2>2. ThreadsType'
    BY <1>16, <1>0, JoinedType DEF EndTcp, Has, ThreadsType
  <2>. QED  BY <1>16, <1>0, <2>1, <2>2 DEF EndTcp, MainUnchanged, RestType, CommandsType
<1>17. ASSUME EndUdp PROVE (ServersType /\ ThreadsType /\ CommandsType /\ RestType)'
  <2>1. ServersType'
    BY <1>17, <1>0, ToldType DEF EndUdp
  <2>. QED  BY <1>17, <1>0, <2>1 DEF EndUdp, MainUnchanged, RestType, ThreadsType, CommandsType
<1>18. ASSUME ClearAll PROVE (ServersType /\ ThreadsType /\ CommandsType /\ RestType)'
  <2>1. ServersType'
    BY <1>18, <1>0, WithoutType DEF ClearAll
  <2>2. ThreadsType'
    BY <1>18, <1>0, OrphanedType DEF ClearAll, ThreadsType
  <2>. QED  BY <1>18, <1>0, <2>1, <2>2 DEF ClearAll, MainUnchanged, RestType, CommandsType
<1>19. ASSUME NEW c \in Commanders, NotReady(c) PROVE (ServersType /\ ThreadsType /\ CommandsType /\ RestType)'
  <2>1. CommandsType'
    BY <1>19, <1>0, AnswerType DEF NotReady
  <2>. QED  BY <1>19, <1>0, <2>1 DEF NotReady, CommandUnchanged, RestType, ServersType, ThreadsType
<1>20. ASSUME NEW c \in Commanders, AddOne(c) PROVE (ServersType /\ ThreadsType /\ CommandsType /\ RestType)'
  <2>1. NextPort(c) \in Ports
    BY <1>20, NextOfCommand DEF AddOne, NextPort
  <2>2. ServersType'
    BY <1>20, <2>1, NewServerType, CreatedTypes DEF AddOne, ServersType
  <2>3. ThreadsType'
    BY <1>20, <2>1, NewServerType, CreatedTypes DEF AddOne, ThreadsType, ThreadType
  <2>4. CommandsType'
    BY <1>20, <1>0, PortDroppedType DEF AddOne
  <2>. QED  BY <1>20, <1>0, <2>1, <2>2, <2>3, <2>4 DEF AddOne, CommandUnchanged, RestType
<1>21. ASSUME NEW c \in Commanders, AddFails(c) PROVE (ServersType /\ ThreadsType /\ CommandsType /\ RestType)'
  <2>1. CommandsType'
    BY <1>21, <1>0, PortDroppedType DEF AddFails
  <2>. QED  BY <1>21, <1>0, <2>1 DEF AddFails, CommandUnchanged, RestType, ServersType, ThreadsType
<1>22. ASSUME NEW c \in Commanders, AddExists(c) PROVE (ServersType /\ ThreadsType /\ CommandsType /\ RestType)'
  <2>1. CommandsType'
    BY <1>22, <1>0, AnswerType DEF AddExists
  <2>. QED  BY <1>22, <1>0, <2>1 DEF AddExists, CommandUnchanged, RestType, ServersType, ThreadsType
<1>23. ASSUME NEW c \in Commanders, Added(c) PROVE (ServersType /\ ThreadsType /\ CommandsType /\ RestType)'
  <2>1. CommandsType'
    BY <1>23, <1>0, AnswerType DEF Added
  <2>. QED  BY <1>23, <1>0, <2>1 DEF Added, CommandUnchanged, RestType, ServersType, ThreadsType
<1>24. ASSUME NEW c \in Commanders, RmvTell(c) PROVE (ServersType /\ ThreadsType /\ CommandsType /\ RestType)'
  <2>1. ServersType'
    BY <1>24, <1>0, ToldType DEF RmvTell
  <2>2. CommandsType'
    BY <1>24, <1>0 DEF RmvTell, CommandsType, CommandType
  <2>. QED  BY <1>24, <1>0, <2>1, <2>2 DEF RmvTell, CommandUnchanged, RestType, ThreadsType
<1>25. ASSUME NEW c \in Commanders, RmvOne(c) PROVE (ServersType /\ ThreadsType /\ CommandsType /\ RestType)'
  <2>1. ServersType'
    BY <1>25, <1>0, WithoutType DEF RmvOne
  <2>2. ThreadsType'
    <3> DEFINE p == Min(cmd[c].ports)
               th == IF Has(p) /\ servers[p].thr # NoThread THEN Joined(p) ELSE thread
    <3>1. th \in [Threads -> ThreadType]
      BY <1>0, JoinedType DEF Has, ThreadsType
    <3>2. thread' = Orphaned(th, {p})
      BY <1>25 DEF RmvOne
    <3>. QED  BY <3>1, <3>2, OrphanedType DEF ThreadsType
  <2>3. CommandsType'
    BY <1>25, <1>0, PortDroppedType DEF RmvOne
  <2>. QED  BY <1>25, <1>0, <2>1, <2>2, <2>3 DEF RmvOne, CommandUnchanged, RestType
<1>26. ASSUME NEW c \in Commanders, Removed(c) PROVE (ServersType /\ ThreadsType /\ CommandsType /\ RestType)'
  <2>1. CommandsType'
    BY <1>26, <1>0, AnswerType DEF Removed
  <2>. QED  BY <1>26, <1>0, <2>1 DEF Removed, CommandUnchanged, RestType, ServersType, ThreadsType
<1>27. ASSUME NEW c \in Commanders, Command(c) PROVE (ServersType /\ ThreadsType /\ CommandsType /\ RestType)'
  <2>1. CommandsType'
    <3>1. PICK ps \in SUBSET Ports \ {{}}, op \in {"add", "tell"} :
            cmd' = [cmd EXCEPT ![c] = [pc |-> op, left |-> @.left - 1, ports |-> ps, answer |-> "none"]]
      BY <1>27 DEF Command
    <3>2. cmd[c].left \in 0..Commands /\ cmd[c].left > 0
      BY <1>27, <1>0 DEF Command, CommandsType, CommandType
    <3>3. cmd[c].left - 1 \in 0..Commands
      BY <3>2, CommandsAssumption
    <3>. QED  BY <3>1, <3>3, <1>0 DEF CommandsType, CommandType
  <2>. QED  BY <1>27, <1>0, <2>1 DEF Command, CommandUnchanged, RestType, ServersType, ThreadsType
<1>28. CASE UNCHANGED vars
  BY <1>28, <1>0 DEF vars, ServersType, ThreadsType, CommandsType, RestType
<1>. QED
  BY <1>1, <1>2, <1>3, <1>4, <1>5, <1>6, <1>7, <1>8, <1>9, <1>10, <1>11,
     <1>12, <1>13, <1>14, <1>15, <1>16, <1>17, <1>18, <1>19, <1>20, <1>21,
     <1>22, <1>23, <1>24, <1>25, <1>26, <1>27, <1>28 DEF Next, ServerThread,
     Main, Commander, AddTcp, AddUdp, RmvTcp, RmvUdp

-----------------------------------------------------------------------------
(* The threads.                                                            *)

Running(t) == thread[t].pc # "none"

\* Who is told to stop: a server in a start that failed, or one that a command
\* is about to erase.
ToldOnlyToErase ==
  \A p \in DOMAIN servers :
    servers[p].stop => mpc \in {"end", "join"} \/ \E c \in Commanders : Joins(c) /\ p \in cmd[c].ports

\* A thread belongs to a server of the map, or outlives its own.
Owned == \A t \in Threads : Running(t) => thread[t].of \in DOMAIN servers \cup {Freed}

\* Before the servers are started none of them has a thread.
NoneStarted ==
  /\ mpc \in {"conf", "insert", "lock"} => \A t \in Threads : Running(t) => thread[t].of = Freed
  /\ mpc = "start" => \A t \in Threads : Running(t) => thread[t].of \notin todo

\* Commands come after that.
NoCommandYet == mpc \notin {"watch", "round"} => \A c \in Commanders : cmd[c].pc = "idle"

\* Taking the servers down after a failed start, which the UDP manager needs a
\* failing pthread_create for, the TCP manager has still to visit every server
\* with a thread.
NoneLost ==
  env.kind = "tcp" \/ ~env.fails =>
    /\ NoThreadLeft
    /\ mpc \in {"end", "join"} =>
         env.kind = "tcp" /\ \A t \in Threads : Running(t) => thread[t].of \in todo

ThreadRules == ~env.early => OneThread /\ Owned /\ NoneStarted /\ NoCommandYet /\ NoneLost

(* Every step keeps ToldOnlyToErase. *)
LEMMA ToldStep ==
  ASSUME TypeOK, LockRules, ToldOnlyToErase, [Next]_vars
  PROVE  ToldOnlyToErase'
<1>0. ServersType /\ ThreadsType /\ CommandsType /\ RestType
  BY TypeParts
<1>1. ASSUME NEW t \in Threads, RunBegins(t) PROVE ToldOnlyToErase'
  <2>1. \A p \in DOMAIN servers' : servers'[p].stop => p \in DOMAIN servers /\ servers[p].stop
    BY <1>1 DEF RunBegins, SetRun, Has
  <2>. QED  BY <1>1, <2>1 DEF RunBegins, ThreadUnchanged, ToldOnlyToErase, Joins
<1>2. ASSUME NEW t \in Threads, RunNoMemory(t) PROVE ToldOnlyToErase'
  BY <1>2 DEF RunNoMemory, ThreadUnchanged, ToldOnlyToErase, Joins
<1>3. ASSUME NEW t \in Threads, RunLeaves(t) PROVE ToldOnlyToErase'
  BY <1>3 DEF RunLeaves, ThreadUnchanged, ToldOnlyToErase, Joins
<1>4. ASSUME NEW t \in Threads, RunReturns(t) PROVE ToldOnlyToErase'
  <2>1. \A p \in DOMAIN servers' : servers'[p].stop => p \in DOMAIN servers /\ servers[p].stop
    BY <1>4 DEF RunReturns, SetRun, Has
  <2>. QED  BY <1>4, <2>1 DEF RunReturns, ThreadUnchanged, ToldOnlyToErase, Joins
<1>5. ASSUME ReadConf PROVE ToldOnlyToErase'
  BY <1>5 DEF ReadConf, MainUnchanged, ToldOnlyToErase, Joins
<1>6. ASSUME InsertAll PROVE ToldOnlyToErase'
  <2>1. \A p \in DOMAIN servers' : servers'[p].stop => p \in DOMAIN servers /\ servers[p].stop
    BY <1>6, <1>0 DEF InsertAll, NewServer, Has
  <2>. QED  BY <1>6, <2>1 DEF InsertAll, MainUnchanged, ToldOnlyToErase, Joins
<1>7. ASSUME StartLock PROVE ToldOnlyToErase'
  BY <1>7 DEF StartLock, MainUnchanged, ToldOnlyToErase, Joins
<1>8. ASSUME StartOne PROVE ToldOnlyToErase'
  <2>1. Min(todo) \in DOMAIN servers
    BY <1>8, NextTodo DEF StartOne, LockRules
  <2>2. \A p \in DOMAIN servers' : servers'[p].stop => p \in DOMAIN servers /\ servers[p].stop
    BY <1>8, <2>1 DEF StartOne, Created, Initialised
  <2>. QED  BY <1>8, <2>2 DEF StartOne, MainUnchanged, ToldOnlyToErase, Joins
<1>9. ASSUME StartFails PROVE ToldOnlyToErase'
  BY <1>9 DEF StartFails, MainUnchanged, ToldOnlyToErase, Joins
<1>10. ASSUME Leave PROVE ToldOnlyToErase'
  BY <1>10 DEF Leave, MainUnchanged, ToldOnlyToErase, Joins
<1>11. ASSUME Round PROVE ToldOnlyToErase'
  BY <1>11 DEF Round, MainUnchanged, ToldOnlyToErase, Joins
<1>12. ASSUME StillRuns PROVE ToldOnlyToErase'
  BY <1>12 DEF StillRuns, Pass, MainUnchanged, ToldOnlyToErase, Joins
<1>13. ASSUME Reclaim PROVE ToldOnlyToErase'
  <2>1. \A p \in DOMAIN servers' : servers'[p].stop => p \in DOMAIN servers /\ servers[p].stop
    BY <1>13, <1>0 DEF Reclaim, ServersType, ServerType
  <2>. QED  BY <1>13, <2>1 DEF Reclaim, MainUnchanged, ToldOnlyToErase, Joins
<1>14. ASSUME Rerun PROVE ToldOnlyToErase'
  <2>1. Min(todo) \in DOMAIN servers
    BY <1>14, NextTodo DEF Rerun, LockRules
  <2>2. \A p \in DOMAIN servers' : servers'[p].stop => p \in DOMAIN servers /\ servers[p].stop
    BY <1>14, <2>1, CreatedThread DEF Rerun, Created
  <2>. QED  BY <1>14, <2>2 DEF Rerun, MainUnchanged, ToldOnlyToErase, Joins
<1>15. ASSUME RerunFails PROVE ToldOnlyToErase'
  BY <1>15 DEF RerunFails, Pass, MainUnchanged, ToldOnlyToErase, Joins
<1>16. ASSUME EndTcp PROVE ToldOnlyToErase'
  BY <1>16 DEF EndTcp, MainUnchanged, ToldOnlyToErase, Joins
<1>17. ASSUME EndUdp PROVE ToldOnlyToErase'
  BY <1>17 DEF EndUdp, MainUnchanged, ToldOnlyToErase, Joins
<1>18. ASSUME ClearAll PROVE ToldOnlyToErase'
  BY <1>18 DEF ClearAll, MainUnchanged, Without, ToldOnlyToErase, Joins
<1>19. ASSUME NEW c \in Commanders, NotReady(c) PROVE ToldOnlyToErase'
  <2>1. \A d \in Commanders : Joins(d) => Joins(d)' /\ cmd'[d].ports = cmd[d].ports
    BY <1>19, <1>0 DEF NotReady, Answer, Joins, CommandsType
  <2>. QED  BY <1>19, <2>1 DEF NotReady, CommandUnchanged, ToldOnlyToErase
<1>20. ASSUME NEW c \in Commanders, AddOne(c) PROVE ToldOnlyToErase'
  <2>1. \A d \in Commanders : Joins(d) => Joins(d)' /\ cmd'[d].ports = cmd[d].ports
    BY <1>20, <1>0 DEF AddOne, Joins, CommandsType
  <2>2. \A p \in DOMAIN servers' : servers'[p].stop => p \in DOMAIN servers /\ servers[p].stop
    BY <1>20 DEF AddOne, Created, NewServer
  <2>. QED  BY <1>20, <2>1, <2>2 DEF AddOne, CommandUnchanged, ToldOnlyToErase
<1>21. ASSUME NEW c \in Commanders, AddFails(c) PROVE ToldOnlyToErase'
  <2>1. \A d \in Commanders : Joins(d) => Joins(d)' /\ cmd'[d].ports = cmd[d].ports
    BY <1>21, <1>0 DEF AddFails, Joins, CommandsType
  <2>. QED  BY <1>21, <2>1 DEF AddFails, CommandUnchanged, ToldOnlyToErase
<1>22. ASSUME NEW c \in Commanders, AddExists(c) PROVE ToldOnlyToErase'
  <2>1. \A d \in Commanders : Joins(d) => Joins(d)' /\ cmd'[d].ports = cmd[d].ports
    BY <1>22, <1>0 DEF AddExists, Answer, Joins, CommandsType
  <2>. QED  BY <1>22, <2>1 DEF AddExists, CommandUnchanged, ToldOnlyToErase
<1>23. ASSUME NEW c \in Commanders, Added(c) PROVE ToldOnlyToErase'
  <2>1. \A d \in Commanders : Joins(d) => Joins(d)' /\ cmd'[d].ports = cmd[d].ports
    BY <1>23, <1>0 DEF Added, Answer, Joins, CommandsType
  <2>. QED  BY <1>23, <2>1 DEF Added, CommandUnchanged, ToldOnlyToErase
<1>24. ASSUME NEW c \in Commanders, RmvTell(c) PROVE ToldOnlyToErase'
  <2>1. \A d \in Commanders : /\ Joins(d) => Joins(d)'
                              /\ cmd'[d].ports = cmd[d].ports
    BY <1>24, <1>0 DEF RmvTell, Joins, CommandsType
  <2>2. Joins(c)'
    BY <1>24, <1>0 DEF RmvTell, Joins, CommandsType
  <2>3. \A p \in DOMAIN servers' :
           p \in DOMAIN servers /\ (servers'[p].stop => p \in cmd[c].ports \/ servers[p].stop)
    BY <1>24 DEF RmvTell, Told
  <2>. QED  BY <1>24, <2>1, <2>2, <2>3 DEF RmvTell, CommandUnchanged, ToldOnlyToErase
<1>25. ASSUME NEW c \in Commanders, RmvOne(c) PROVE ToldOnlyToErase'
  <2>1. \A d \in Commanders :
          Joins(d) => Joins(d)' /\ (cmd'[d].ports = cmd[d].ports \/ cmd'[d].ports = cmd[d].ports \ {Min(cmd[c].ports)})
    BY <1>25, <1>0 DEF RmvOne, Joins, CommandsType
  <2>2. \A p \in DOMAIN servers' : p # Min(cmd[c].ports) /\ p \in DOMAIN servers /\ servers'[p] = servers[p]
    BY <1>25 DEF RmvOne, Without
  <2>3. mpc' = mpc /\ cmd[c].pc = "join"
    BY <1>25 DEF RmvOne, CommandUnchanged
  <2> DEFINE m == Min(cmd[c].ports)
  <2>4. \A d \in Commanders :
          Joins(d) => Joins(d)' /\ (cmd'[d].ports = cmd[d].ports \/ cmd'[d].ports = cmd[d].ports \ {m})
    BY <2>1
  <2>5. \A p \in DOMAIN servers' : p # m /\ p \in DOMAIN servers /\ servers'[p] = servers[p]
    BY <2>2
  <2> HIDE DEF m
  <2>. QED  BY <2>3, <2>4, <2>5 DEF ToldOnlyToErase
<1>26. ASSUME NEW c \in Commanders, Removed(c) PROVE ToldOnlyToErase'
  <2>1. \A d \in Commanders : Joins(d) => cmd[d].ports = {} \/ (Joins(d)' /\ cmd'[d].ports = cmd[d].ports)
    BY <1>26, <1>0 DEF Removed, Answer, Joins, CommandsType
  <2>. QED  BY <1>26, <2>1 DEF Removed, CommandUnchanged, ToldOnlyToErase
<1>27. ASSUME NEW c \in Commanders, Command(c) PROVE ToldOnlyToErase'
  <2>1. \A d \in Commanders : Joins(d) => Joins(d)' /\ cmd'[d].ports = cmd[d].ports
    BY <1>27, <1>0 DEF Command, Joins, CommandsType
  <2>. QED  BY <1>27, <2>1 DEF Command, CommandUnchanged, ToldOnlyToErase
<1>28. CASE UNCHANGED vars
  BY <1>28 DEF vars, ToldOnlyToErase, Joins
<1>. QED
  BY <1>1, <1>2, <1>3, <1>4, <1>5, <1>6, <1>7, <1>8, <1>9, <1>10, <1>11,
     <1>12, <1>13, <1>14, <1>15, <1>16, <1>17, <1>18, <1>19, <1>20, <1>21,
     <1>22, <1>23, <1>24, <1>25, <1>26, <1>27, <1>28 DEF Next, ServerThread,
     Main, Commander, AddTcp, AddUdp, RmvTcp, RmvUdp

(* Told to stop, a server gets no other thread. *)
LEMMA StopStep ==
  ASSUME TypeOK, LockRules, ToldOnlyToErase, [Next]_vars
  PROVE  \A p \in DOMAIN servers :
           servers[p].stop /\ Has(p)' => servers'[p].thr \in {servers[p].thr, NoThread}
<1> SUFFICES ASSUME NEW p \in DOMAIN servers, servers[p].stop, p \in DOMAIN servers'
             PROVE  servers'[p].thr \in {servers[p].thr, NoThread}
  BY DEF Has
<1>0. mpc \notin {"start", "round"}
  BY CommandersAssumption DEF ToldOnlyToErase, LockRules
<1>1. ASSUME NEW t \in Threads, RunBegins(t) PROVE servers'[p].thr \in {servers[p].thr, NoThread}
  BY <1>1 DEF RunBegins, SetRun, Has
<1>2. ASSUME NEW t \in Threads, RunNoMemory(t) PROVE servers'[p].thr \in {servers[p].thr, NoThread}
  BY <1>2 DEF RunNoMemory
<1>3. ASSUME NEW t \in Threads, RunLeaves(t) PROVE servers'[p].thr \in {servers[p].thr, NoThread}
  BY <1>3 DEF RunLeaves
<1>4. ASSUME NEW t \in Threads, RunReturns(t) PROVE servers'[p].thr \in {servers[p].thr, NoThread}
  BY <1>4 DEF RunReturns, SetRun, Has
<1>5. ASSUME ReadConf PROVE servers'[p].thr \in {servers[p].thr, NoThread}
  BY <1>5 DEF ReadConf
<1>6. ASSUME InsertAll PROVE servers'[p].thr \in {servers[p].thr, NoThread}
  BY <1>6 DEF InsertAll, Has
<1>7. ASSUME StartLock PROVE servers'[p].thr \in {servers[p].thr, NoThread}
  BY <1>7 DEF StartLock
<1>8. ASSUME StartOne PROVE servers'[p].thr \in {servers[p].thr, NoThread}
  BY <1>8, <1>0 DEF StartOne
<1>9. ASSUME StartFails PROVE servers'[p].thr \in {servers[p].thr, NoThread}
  BY <1>9, <1>0 DEF StartFails
<1>10. ASSUME Leave PROVE servers'[p].thr \in {servers[p].thr, NoThread}
  BY <1>10, <1>0 DEF Leave
<1>11. ASSUME Round PROVE servers'[p].thr \in {servers[p].thr, NoThread}
  BY <1>11 DEF Round
<1>12. ASSUME StillRuns PROVE servers'[p].thr \in {servers[p].thr, NoThread}
  BY <1>12, <1>0 DEF StillRuns
<1>13. ASSUME Reclaim PROVE servers'[p].thr \in {servers[p].thr, NoThread}
  BY <1>13, <1>0 DEF Reclaim
<1>14. ASSUME Rerun PROVE servers'[p].thr \in {servers[p].thr, NoThread}
  BY <1>14, <1>0 DEF Rerun
<1>15. ASSUME RerunFails PROVE servers'[p].thr \in {servers[p].thr, NoThread}
  BY <1>15, <1>0 DEF RerunFails
<1>16. ASSUME EndTcp PROVE servers'[p].thr \in {servers[p].thr, NoThread}
  <2>1. servers' = servers \/ servers' = Told({Min(todo)})
    BY <1>16 DEF EndTcp
  <2>2. CASE servers' = Told({Min(todo)})
    BY <2>2 DEF Told
  <2>. QED  BY <2>1, <2>2
<1>17. ASSUME EndUdp PROVE servers'[p].thr \in {servers[p].thr, NoThread}
  BY <1>17 DEF EndUdp, Told
<1>18. ASSUME ClearAll PROVE servers'[p].thr \in {servers[p].thr, NoThread}
  BY <1>18 DEF ClearAll, Without
<1>19. ASSUME NEW c \in Commanders, NotReady(c) PROVE servers'[p].thr \in {servers[p].thr, NoThread}
  BY <1>19 DEF NotReady
<1>20. ASSUME NEW c \in Commanders, AddOne(c) PROVE servers'[p].thr \in {servers[p].thr, NoThread}
  BY <1>20 DEF AddOne, Created, Has
<1>21. ASSUME NEW c \in Commanders, AddFails(c) PROVE servers'[p].thr \in {servers[p].thr, NoThread}
  BY <1>21 DEF AddFails
<1>22. ASSUME NEW c \in Commanders, AddExists(c) PROVE servers'[p].thr \in {servers[p].thr, NoThread}
  BY <1>22 DEF AddExists
<1>23. ASSUME NEW c \in Commanders, Added(c) PROVE servers'[p].thr \in {servers[p].thr, NoThread}
  BY <1>23 DEF Added
<1>24. ASSUME NEW c \in Commanders, RmvTell(c) PROVE servers'[p].thr \in {servers[p].thr, NoThread}
  BY <1>24 DEF RmvTell, Told
<1>25. ASSUME NEW c \in Commanders, RmvOne(c) PROVE servers'[p].thr \in {servers[p].thr, NoThread}
  BY <1>25 DEF RmvOne, Without
<1>26. ASSUME NEW c \in Commanders, Removed(c) PROVE servers'[p].thr \in {servers[p].thr, NoThread}
  BY <1>26 DEF Removed
<1>27. ASSUME NEW c \in Commanders, Command(c) PROVE servers'[p].thr \in {servers[p].thr, NoThread}
  BY <1>27 DEF Command
<1>28. CASE UNCHANGED vars
  BY <1>28 DEF vars
<1>. QED
  BY <1>1, <1>2, <1>3, <1>4, <1>5, <1>6, <1>7, <1>8, <1>9, <1>10, <1>11,
     <1>12, <1>13, <1>14, <1>15, <1>16, <1>17, <1>18, <1>19, <1>20, <1>21,
     <1>22, <1>23, <1>24, <1>25, <1>26, <1>27, <1>28 DEF Next, ServerThread,
     Main, Commander, AddTcp, AddUdp, RmvTcp, RmvUdp

-----------------------------------------------------------------------------
(* Threads and servers.                                                    *)

(* A step that creates, joins or erases no thread and no server.           *)
LEMMA SameThreads ==
  ASSUME TypeOK, ThreadRules,
         UNCHANGED <<env, mpc>>, todo' \subseteq todo,
         mpc \notin {"end", "join"} \/ todo' = todo,
         DOMAIN servers' = DOMAIN servers,
         \A p \in DOMAIN servers : servers'[p].thr = servers[p].thr,
         \A t \in Threads : thread'[t].of = thread[t].of /\ (Running(t)' <=> Running(t)),
         mpc \in {"watch", "round"} \/ \A c \in Commanders : cmd[c].pc = "idle" => cmd'[c].pc = "idle"
  PROVE  ThreadRules'
<1> SUFFICES ASSUME ~env.early PROVE (OneThread /\ Owned /\ NoneStarted /\ NoCommandYet /\ NoneLost)'
  BY DEF ThreadRules
<1>0. OneThread /\ Owned /\ NoneStarted /\ NoCommandYet /\ NoneLost
  BY DEF ThreadRules
<1>1. OneThread'
  BY <1>0 DEF OneThread, Of, Running
<1>2. Owned'
  BY <1>0 DEF Owned
<1>3. NoneStarted'
  BY <1>0 DEF NoneStarted
<1>4. NoCommandYet'
  BY <1>0 DEF NoCommandYet
<1>5. NoneLost'
  BY <1>0 DEF NoneLost, NoThreadLeft, Running
<1>. QED  BY <1>1, <1>2, <1>3, <1>4, <1>5

(* The thread that serves no more is the only one that served port p. *)
LEMMA JoinedThread ==
  ASSUME TypeOK, NEW p \in DOMAIN servers, Of(p) \subseteq {servers[p].thr}
  PROVE  \A t \in Threads :
           LET j == Joined(p)[t] IN
           \/ j = thread[t] /\ (j.pc # "none" => thread[t].of # p)
           \/ j.pc = "none"
<1> SUFFICES ASSUME NEW t \in Threads
             PROVE  LET j == Joined(p)[t] IN
                    \/ j = thread[t] /\ (j.pc # "none" => thread[t].of # p)
                    \/ j.pc = "none"
  OBVIOUS
<1>0. thread \in [Threads -> ThreadType]
  BY TypeParts DEF ThreadsType
<1>1. CASE t = servers[p].thr
  BY <1>0, <1>1 DEF Joined
<1>2. CASE t # servers[p].thr
  <2>1. Joined(p)[t] = thread[t]
    BY <1>0, <1>2 DEF Joined
  <2>2. t \notin Of(p)
    BY <1>2
  <2>. QED  BY <2>1, <2>2 DEF Of
<1>. QED  BY <1>1, <1>2

(* Where threads do not fail to be created, there is one for every server. *)
LEMMA ThreadForEach ==
  ASSUME TypeOK, OneThread, NoThreadLeft, Owned, ~env.fails,
         NEW p \in DOMAIN servers, \A t \in Threads : Running(t) => thread[t].of # p
  PROVE  Unused # {}
<1> SUFFICES ASSUME Unused = {} PROVE FALSE
  OBVIOUS
<1> DEFINE f == [t \in Threads |-> thread[t].of]
<1>1. \A t \in Threads : Running(t)
  BY DEF Unused, Running
<1>2. \A t \in Threads : f[t] \in DOMAIN servers \ {p} /\ t = servers[f[t]].thr
  <2> SUFFICES ASSUME NEW t \in Threads
               PROVE  f[t] \in DOMAIN servers \ {p} /\ t = servers[f[t]].thr
    OBVIOUS
  <2>1. f[t] \in DOMAIN servers \ {p}
    BY <1>1 DEF Owned, NoThreadLeft, Running
  <2>2. t \in Of(f[t])
    BY <1>1 DEF Of, Running
  <2>. QED  BY <2>1, <2>2 DEF OneThread
<1>3. f \in Injection(Threads, Ports \ {p})
  <2>1. f \in [Threads -> Ports \ {p}]
    BY <1>2 DEF TypeOK
  <2>2. \A a, b \in Threads : f[a] = f[b] => a = b
    BY <1>2
  <2> HIDE DEF f
  <2>. QED  BY <2>1, <2>2 DEF Injection, IsInjective
<1>4. /\ IsFiniteSet(Ports) /\ p \in Ports /\ IsFiniteSet(Ports \ {p})
      /\ Cardinality(Ports \ {p}) = Cardinality(Ports) - 1
      /\ Cardinality(Ports) \in Nat
  BY PortsAssumption, FS_RemoveElement, FS_CardinalityType DEF TypeOK
<1>5. IsFiniteSet(Threads) /\ Cardinality(Threads) \in Nat
  BY ThreadsAssumption, FS_CardinalityType
<1>6. Cardinality(Threads) <= Cardinality(Ports \ {p})
  BY <1>3, <1>4, FS_Injection
<1>7. Cardinality(Ports) <= Cardinality(Threads)
  BY EnoughThreads DEF TypeOK
<1>. QED  BY <1>4, <1>5, <1>6, <1>7

(* pthread_create for a server without a thread. *)
LEMMA CreatedStep ==
  ASSUME TypeOK, NEW p \in Ports, NEW old, Created(p, old),
         \A q \in DOMAIN servers : q # p => Of(q) \subseteq {servers[q].thr},
         old \in ServerType, Of(p) = {}, Owned
  PROVE  /\ OneThread' /\ Owned'
         /\ NoThreadLeft => NoThreadLeft'
         /\ \A t \in Threads : Running(t)' => thread'[t].of = p \/ (Running(t) /\ thread'[t].of = thread[t].of)
<1>1. PICK t \in Threads :
           /\ thread[t].pc = "none"
           /\ thread' = [thread EXCEPT ![t] = [pc |-> "new", of |-> p]]
           /\ servers' = [q \in DOMAIN servers \cup {p} |->
                            IF q = p THEN [old EXCEPT !.thr = t] ELSE servers[q]]
  BY CreatedThread
<1>2. thread \in [Threads -> ThreadType] /\ p # Freed
  BY TypeParts, PortsAssumption DEF ThreadsType
<1>3. \A u \in Threads : thread'[u] = IF u = t THEN [pc |-> "new", of |-> p] ELSE thread[u]
  BY <1>1, <1>2
<1>4. \A u \in Threads : Running(u)' => (u = t /\ thread'[u].of = p) \/ (u # t /\ Running(u) /\ thread'[u] = thread[u])
  BY <1>3 DEF Running
<1>5. /\ DOMAIN servers' = DOMAIN servers \cup {p} /\ servers'[p].thr = t
      /\ \A q \in DOMAIN servers : q # p => servers'[q] = servers[q]
  BY <1>1 DEF ServerType
<1>6. OneThread'
  <2> SUFFICES ASSUME NEW q \in DOMAIN servers', NEW u \in Of(q)' PROVE u = servers'[q].thr
    BY DEF OneThread
  <2>1. u \in Threads /\ Running(u)' /\ thread'[u].of = q
    BY DEF Of, Running
  <2>2. CASE q = p
    BY <2>1, <2>2, <1>4, <1>5 DEF Of, Running
  <2>3. CASE q # p
    <3>1. u \in Of(q) /\ q \in DOMAIN servers
      BY <2>1, <2>3, <1>4, <1>5 DEF Of, Running
    <3>. QED  BY <3>1, <2>3, <1>5
  <2>. QED  BY <2>2, <2>3
<1>7. Owned'
  BY <1>4, <1>5 DEF Owned
<1>8. NoThreadLeft => NoThreadLeft'
  BY <1>4, <1>2 DEF NoThreadLeft, Running
<1>. QED  BY <1>4, <1>6, <1>7, <1>8

(* Every step keeps the rules of the threads. *)
LEMMA ThreadStep ==
  ASSUME TypeOK, LockRules, ThreadRules, [Next]_vars
  PROVE  ThreadRules'
<1>0. ServersType /\ ThreadsType /\ CommandsType /\ RestType
  BY TypeParts
<1>1. ASSUME NEW t \in Threads, RunBegins(t) PROVE ThreadRules'
  <2>1. \A u \in Threads : thread'[u].of = thread[u].of /\ (Running(u)' <=> Running(u))
    BY <1>1, <1>0 DEF RunBegins, Running, ThreadsType
  <2>2. DOMAIN servers' = DOMAIN servers /\ \A p \in DOMAIN servers : servers'[p].thr = servers[p].thr
    BY <1>1 DEF RunBegins, SetRun, Has
  <2>. QED  BY <1>1, <2>1, <2>2, SameThreads DEF RunBegins, ThreadUnchanged
<1>2. ASSUME NEW t \in Threads, RunNoMemory(t) PROVE ThreadRules'
  <2>1. \A u \in Threads : thread'[u].of = thread[u].of /\ (Running(u)' <=> Running(u))
    BY <1>2, <1>0 DEF RunNoMemory, Running, ThreadsType
  <2>. QED  BY <1>2, <2>1, SameThreads DEF RunNoMemory, ThreadUnchanged
<1>3. ASSUME NEW t \in Threads, RunLeaves(t) PROVE ThreadRules'
  <2>1. \A u \in Threads : thread'[u].of = thread[u].of /\ (Running(u)' <=> Running(u))
    BY <1>3, <1>0 DEF RunLeaves, Running, ThreadsType
  <2>. QED  BY <1>3, <2>1, SameThreads DEF RunLeaves, ThreadUnchanged
<1>4. ASSUME NEW t \in Threads, RunReturns(t) PROVE ThreadRules'
  <2>1. \A u \in Threads : thread'[u].of = thread[u].of /\ (Running(u)' <=> Running(u))
    BY <1>4, <1>0 DEF RunReturns, Running, ThreadsType
  <2>2. DOMAIN servers' = DOMAIN servers /\ \A p \in DOMAIN servers : servers'[p].thr = servers[p].thr
    BY <1>4 DEF RunReturns, SetRun, Has
  <2>. QED  BY <1>4, <2>1, <2>2, SameThreads DEF RunReturns, ThreadUnchanged
<1>5. ASSUME ReadConf PROVE ThreadRules'
  <2> SUFFICES ASSUME ~env.early PROVE (OneThread /\ Owned /\ NoneStarted /\ NoCommandYet /\ NoneLost)'
    BY <1>5 DEF ThreadRules, ReadConf, MainUnchanged
  <2>0. OneThread /\ Owned /\ NoneStarted /\ NoCommandYet /\ NoneLost
    BY <1>5 DEF ThreadRules, ReadConf, MainUnchanged
  <2>11. OneThread'
    BY <1>5, <1>0, <2>0 DEF ReadConf, MainUnchanged, OneThread, Of, Running
  <2>12. Owned'
    BY <1>5, <1>0, <2>0 DEF ReadConf, MainUnchanged, Owned, Running
  <2>13. NoneStarted'
    BY <1>5, <1>0, <2>0 DEF ReadConf, MainUnchanged, NoneStarted, Running
  <2>14. NoCommandYet'
    BY <1>5, <1>0, <2>0 DEF ReadConf, MainUnchanged, NoCommandYet
  <2>15. NoneLost'
    BY <1>5, <1>0, <2>0 DEF ReadConf, MainUnchanged, NoneLost, NoThreadLeft, Running, Owned
  <2>. QED  BY <2>11, <2>12, <2>13, <2>14, <2>15
<1>6. ASSUME InsertAll PROVE ThreadRules'
  <2> SUFFICES ASSUME ~env.early PROVE (OneThread /\ Owned /\ NoneStarted /\ NoCommandYet /\ NoneLost)'
    BY <1>6 DEF ThreadRules, InsertAll, MainUnchanged
  <2>0. OneThread /\ Owned /\ NoneStarted /\ NoCommandYet /\ NoneLost
    BY <1>6 DEF ThreadRules, InsertAll, MainUnchanged
  <2>1. \A p \in DOMAIN servers' : p \in Ports /\ p # Freed
    BY <1>6, <1>0, PortsAssumption DEF InsertAll, ServersType, RestType
  <2>2. \A t \in Threads : Running(t) => thread[t].of = Freed
    BY <1>6, <2>0 DEF InsertAll, NoneStarted
  <2>11. OneThread'
    BY <1>6, <1>0, <2>0, <2>1, <2>2 DEF InsertAll, MainUnchanged, OneThread, Of, Running
  <2>12. Owned'
    BY <1>6, <1>0, <2>0, <2>1, <2>2 DEF InsertAll, MainUnchanged, Owned, Running
  <2>13. NoneStarted'
    BY <1>6, <1>0, <2>0, <2>1, <2>2 DEF InsertAll, MainUnchanged, NoneStarted, Running
  <2>14. NoCommandYet'
    BY <1>6, <1>0, <2>0, <2>1, <2>2 DEF InsertAll, MainUnchanged, NoCommandYet
  <2>15. NoneLost'
    BY <1>6, <1>0, <2>0, <2>1, <2>2 DEF InsertAll, MainUnchanged, NoneLost, NoThreadLeft, Running, Owned
  <2>. QED  BY <2>11, <2>12, <2>13, <2>14, <2>15
<1>7. ASSUME StartLock PROVE ThreadRules'
  <2> SUFFICES ASSUME ~env.early PROVE (OneThread /\ Owned /\ NoneStarted /\ NoCommandYet /\ NoneLost)'
    BY <1>7 DEF ThreadRules, StartLock, MainUnchanged
  <2>0. OneThread /\ Owned /\ NoneStarted /\ NoCommandYet /\ NoneLost
    BY <1>7 DEF ThreadRules, StartLock, MainUnchanged
  <2>11. OneThread'
    BY <1>7, <1>0, <2>0 DEF StartLock, MainUnchanged, OneThread, Of, Running
  <2>12. Owned'
    BY <1>7, <1>0, <2>0 DEF StartLock, MainUnchanged, Owned, Running
  <2>13. NoneStarted'
    BY <1>7, <1>0, <2>0, PortsAssumption DEF StartLock, MainUnchanged, NoneStarted, ServersType, Running, Freed
  <2>14. NoCommandYet'
    BY <1>7, <1>0, <2>0 DEF StartLock, MainUnchanged, NoCommandYet
  <2>15. NoneLost'
    BY <1>7, <1>0, <2>0 DEF StartLock, MainUnchanged, NoneLost, NoThreadLeft, Running, Owned
  <2>. QED  BY <2>11, <2>12, <2>13, <2>14, <2>15
<1>8. ASSUME StartOne PROVE ThreadRules'
  <2> SUFFICES ASSUME ~env.early PROVE (OneThread /\ Owned /\ NoneStarted /\ NoCommandYet /\ NoneLost)'
    BY <1>8 DEF ThreadRules, StartOne, MainUnchanged
  <2>0. OneThread /\ Owned /\ NoneStarted /\ NoCommandYet /\ NoneLost
    BY <1>8 DEF ThreadRules, StartOne, MainUnchanged
  <2>1. Min(todo) \in DOMAIN servers /\ Min(todo) \in todo /\ Initialised(servers[Min(todo)]) \in ServerType
    BY <1>8, <1>0, NextTodo, InitialisedType DEF StartOne, LockRules, ServersType
  <2>2. Of(Min(todo)) = {}
    BY <1>8, <1>0, <2>0, <2>1, ThreadsAssumption DEF StartOne, NoneStarted, Of, Running
  <2>3. /\ OneThread' /\ Owned' /\ (NoThreadLeft => NoThreadLeft')
        /\ \A t \in Threads : Running(t)' => thread'[t].of = Min(todo) \/ (Running(t) /\ thread'[t].of = thread[t].of)
    BY <1>8, <1>0, <2>0, <2>1, <2>2, CreatedStep DEF StartOne, OneThread, ServersType
  <2>11. OneThread'
    BY <2>3
  <2>12. Owned'
    BY <2>3
  <2>13. NoneStarted'
    BY <1>8, <1>0, <2>0, <2>3 DEF StartOne, MainUnchanged, NoneStarted, Running
  <2>14. NoCommandYet'
    BY <1>8, <1>0, <2>0, <2>3 DEF StartOne, MainUnchanged, NoCommandYet
  <2>15. NoneLost'
    BY <1>8, <1>0, <2>0, <2>3 DEF StartOne, MainUnchanged, NoneLost, NoThreadLeft, Running, Owned
  <2>. QED  BY <2>11, <2>12, <2>13, <2>14, <2>15
<1>9. ASSUME StartFails PROVE ThreadRules'
  <2> SUFFICES ASSUME ~env.early PROVE (OneThread /\ Owned /\ NoneStarted /\ NoCommandYet /\ NoneLost)'
    BY <1>9 DEF ThreadRules, StartFails, MainUnchanged
  <2>0. OneThread /\ Owned /\ NoneStarted /\ NoCommandYet /\ NoneLost
    BY <1>9 DEF ThreadRules, StartFails, MainUnchanged
  <2>1. DOMAIN servers' = DOMAIN servers /\ \A p \in DOMAIN servers : servers'[p].thr = servers[p].thr
    BY <1>9, <1>0, InitialisedType DEF StartFails, ServersType
  <2>11. OneThread'
    BY <1>9, <1>0, <2>0, <2>1 DEF StartFails, MainUnchanged, OneThread, Of, Running
  <2>12. Owned'
    BY <1>9, <1>0, <2>0, <2>1 DEF StartFails, MainUnchanged, Owned, Running
  <2>13. NoneStarted'
    BY <1>9, <1>0, <2>0, <2>1 DEF StartFails, MainUnchanged, NoneStarted, Running
  <2>14. NoCommandYet'
    BY <1>9, <1>0, <2>0, <2>1 DEF StartFails, MainUnchanged, NoCommandYet
  <2>15. NoneLost'
    <3> SUFFICES ASSUME env.kind = "tcp" \/ ~env.fails
                 PROVE  NoThreadLeft' /\ env.kind = "tcp" /\ \A t \in Threads : Running(t)' => thread'[t].of \in todo'
      BY <1>9 DEF StartFails, MainUnchanged, NoneLost
    <3>1. NoThreadLeft
      BY <2>0 DEF NoneLost
    <3>2. \A t \in Threads : Running(t) => thread[t].of \in DOMAIN servers
      BY <3>1, <2>0 DEF NoThreadLeft, Owned, Running
    <3>3. env.kind = "tcp"
      <4> SUFFICES ASSUME ~env.fails PROVE FALSE
        OBVIOUS
      <4>1. Unused = {}
        BY <1>9 DEF StartFails, CreateFails
      <4>2. Min(todo) \in DOMAIN servers /\ Min(todo) \in todo
        BY <1>9, NextTodo DEF StartFails, LockRules
      <4>3. \A t \in Threads : Running(t) => thread[t].of # Min(todo)
        BY <1>9, <2>0, <4>2 DEF StartFails, NoneStarted
      <4>. QED  BY <4>1, <4>2, <4>3, <3>1, <2>0, ThreadForEach
    <3>. QED  BY <1>9, <3>1, <3>2, <3>3 DEF StartFails, NoThreadLeft, Running
  <2>. QED  BY <2>11, <2>12, <2>13, <2>14, <2>15
<1>10. ASSUME Leave PROVE ThreadRules'
  <2> SUFFICES ASSUME ~env.early PROVE (OneThread /\ Owned /\ NoneStarted /\ NoCommandYet /\ NoneLost)'
    BY <1>10 DEF ThreadRules, Leave, MainUnchanged
  <2>0. OneThread /\ Owned /\ NoneStarted /\ NoCommandYet /\ NoneLost
    BY <1>10 DEF ThreadRules, Leave, MainUnchanged
  <2>11. OneThread'
    BY <1>10, <1>0, <2>0 DEF Leave, MainUnchanged, OneThread, Of, Running
  <2>12. Owned'
    BY <1>10, <1>0, <2>0 DEF Leave, MainUnchanged, Owned, Running
  <2>13. NoneStarted'
    BY <1>10, <1>0, <2>0 DEF Leave, MainUnchanged, NoneStarted, Running
  <2>14. NoCommandYet'
    BY <1>10, <1>0, <2>0 DEF Leave, MainUnchanged, NoCommandYet
  <2>15. NoneLost'
    BY <1>10, <1>0, <2>0 DEF Leave, MainUnchanged, NoneLost, NoThreadLeft, Running, Owned
  <2>. QED  BY <2>11, <2>12, <2>13, <2>14, <2>15
<1>11. ASSUME Round PROVE ThreadRules'
  <2> SUFFICES ASSUME ~env.early PROVE (OneThread /\ Owned /\ NoneStarted /\ NoCommandYet /\ NoneLost)'
    BY <1>11 DEF ThreadRules, Round, MainUnchanged
  <2>0. OneThread /\ Owned /\ NoneStarted /\ NoCommandYet /\ NoneLost
    BY <1>11 DEF ThreadRules, Round, MainUnchanged
  <2>11. OneThread'
    BY <1>11, <1>0, <2>0 DEF Round, MainUnchanged, OneThread, Of, Running
  <2>12. Owned'
    BY <1>11, <1>0, <2>0 DEF Round, MainUnchanged, Owned, Running
  <2>13. NoneStarted'
    BY <1>11, <1>0, <2>0 DEF Round, MainUnchanged, NoneStarted, Running
  <2>14. NoCommandYet'
    BY <1>11, <1>0, <2>0 DEF Round, MainUnchanged, NoCommandYet
  <2>15. NoneLost'
    BY <1>11, <1>0, <2>0 DEF Round, MainUnchanged, NoneLost, NoThreadLeft, Running, Owned
  <2>. QED  BY <2>11, <2>12, <2>13, <2>14, <2>15
<1>12. ASSUME StillRuns PROVE ThreadRules'
  <2>1. todo' \subseteq todo /\ mpc = "round"
    BY <1>12 DEF StillRuns, Pass
  <2>. QED  BY <1>12, <2>1, SameThreads DEF StillRuns, Pass, MainUnchanged, Running
<1>13. ASSUME Reclaim PROVE ThreadRules'
  <2> SUFFICES ASSUME ~env.early PROVE (OneThread /\ Owned /\ NoneStarted /\ NoCommandYet /\ NoneLost)'
    BY <1>13 DEF ThreadRules, Reclaim, MainUnchanged
  <2>0. OneThread /\ Owned /\ NoneStarted /\ NoCommandYet /\ NoneLost
    BY <1>13 DEF ThreadRules, Reclaim, MainUnchanged
  <2>1. Min(todo) \in DOMAIN servers
    BY <1>13, NextTodo DEF Reclaim, LockRules
  <2>2. \A t \in Threads : Running(t)' => Running(t) /\ thread'[t].of = thread[t].of /\ thread[t].of # Min(todo)
    BY <1>13, <2>0, <2>1, JoinedThread DEF Reclaim, Running, OneThread
  <2>3. /\ DOMAIN servers' = DOMAIN servers
        /\ \A p \in DOMAIN servers : p # Min(todo) => servers'[p].thr = servers[p].thr
    BY <1>13 DEF Reclaim
  <2>11. OneThread'
    BY <1>13, <1>0, <2>0, <2>1, <2>2, <2>3 DEF Reclaim, MainUnchanged, OneThread, Of, Running
  <2>12. Owned'
    BY <1>13, <1>0, <2>0, <2>1, <2>2, <2>3 DEF Reclaim, MainUnchanged, Owned, Running
  <2>13. NoneStarted'
    BY <1>13, <1>0, <2>0, <2>1, <2>2, <2>3 DEF Reclaim, MainUnchanged, NoneStarted, Running
  <2>14. NoCommandYet'
    BY <1>13, <1>0, <2>0, <2>1, <2>2, <2>3 DEF Reclaim, MainUnchanged, NoCommandYet
  <2>15. NoneLost'
    BY <1>13, <1>0, <2>0, <2>1, <2>2, <2>3 DEF Reclaim, MainUnchanged, NoneLost, NoThreadLeft, Running, Owned
  <2>. QED  BY <2>11, <2>12, <2>13, <2>14, <2>15
<1>14. ASSUME Rerun PROVE ThreadRules'
  <2> SUFFICES ASSUME ~env.early PROVE (OneThread /\ Owned /\ NoneStarted /\ NoCommandYet /\ NoneLost)'
    BY <1>14 DEF ThreadRules, Rerun, MainUnchanged
  <2>0. OneThread /\ Owned /\ NoneStarted /\ NoCommandYet /\ NoneLost
    BY <1>14 DEF ThreadRules, Rerun, MainUnchanged
  <2>1. Min(todo) \in DOMAIN servers /\ Min(todo) \in todo /\ servers[Min(todo)] \in ServerType
    BY <1>14, <1>0, NextTodo DEF Rerun, LockRules, ServersType
  <2>2. Of(Min(todo)) = {}
    BY <1>14, <1>0, <2>0, <2>1, ThreadsAssumption DEF Rerun, OneThread, Of, NoThread
  <2>3. /\ OneThread' /\ Owned' /\ (NoThreadLeft => NoThreadLeft')
        /\ \A t \in Threads : Running(t)' => thread'[t].of = Min(todo) \/ (Running(t) /\ thread'[t].of = thread[t].of)
    BY <1>14, <1>0, <2>0, <2>1, <2>2, CreatedStep DEF Rerun, OneThread, ServersType
  <2>11. OneThread'
    BY <2>3
  <2>12. Owned'
    BY <2>3
  <2>13. NoneStarted'
    BY <1>14, <1>0, <2>0, <2>3 DEF Rerun, MainUnchanged, NoneStarted, Running
  <2>14. NoCommandYet'
    BY <1>14, <1>0, <2>0, <2>3 DEF Rerun, MainUnchanged, NoCommandYet
  <2>15. NoneLost'
    BY <1>14, <1>0, <2>0, <2>3 DEF Rerun, MainUnchanged, NoneLost, NoThreadLeft, Running, Owned
  <2>. QED  BY <2>11, <2>12, <2>13, <2>14, <2>15
<1>15. ASSUME RerunFails PROVE ThreadRules'
  <2>1. todo' \subseteq todo /\ mpc = "round"
    BY <1>15 DEF RerunFails, Pass
  <2>. QED  BY <1>15, <2>1, SameThreads DEF RerunFails, Pass, MainUnchanged, Running
<1>16. ASSUME EndTcp PROVE ThreadRules'
  <2> SUFFICES ASSUME ~env.early PROVE (OneThread /\ Owned /\ NoneStarted /\ NoCommandYet /\ NoneLost)'
    BY <1>16 DEF ThreadRules, EndTcp, MainUnchanged
  <2>0. OneThread /\ Owned /\ NoneStarted /\ NoCommandYet /\ NoneLost
    BY <1>16 DEF ThreadRules, EndTcp, MainUnchanged
  <2> DEFINE p == Min(todo)
  <2>1. \/ servers' = Told({p}) /\ UNCHANGED <<thread, todo>> /\ mpc' = "join"
        \/ /\ servers' = servers /\ todo' = todo \ {p} /\ mpc' = "end"
           /\ mpc = "join" => thread' = IF Has(p) THEN Joined(p) ELSE thread
           /\ mpc = "end" => thread' = thread /\ ~(Has(p) /\ servers[p].thr # NoThread)
    BY <1>16 DEF EndTcp
  <2>2. /\ DOMAIN servers' = DOMAIN servers
        /\ \A q \in DOMAIN servers : servers'[q].thr = servers[q].thr
    <3>1. CASE servers' = Told({p})
      BY <3>1 DEF Told
    <3>. QED  BY <2>1, <3>1
  <2>3. p # Freed
    BY <1>16, NextTodo, PortsAssumption DEF EndTcp
  <2>4. \A t \in Threads : Running(t)' => /\ Running(t) /\ thread'[t].of = thread[t].of
                                          /\ thread[t].of = p => p \in todo'
    <3>1. CASE servers' = Told({p}) /\ UNCHANGED <<thread, todo>> /\ mpc' = "join"
      BY <1>16, <3>1, NextTodo DEF EndTcp, Running
    <3>2. CASE mpc = "join" /\ Has(p) /\ thread' = Joined(p)
      BY <3>2, <2>0, JoinedThread DEF Running, OneThread, Has
    <3>3. CASE thread' = thread /\ (~Has(p) \/ servers[p].thr = NoThread)
      <4>1. \A t \in Threads : Running(t) => thread[t].of # p
        BY <3>3, <2>0, <2>3, ThreadsAssumption DEF Owned, OneThread, Of, Running, Has, NoThread
      <4>. QED  BY <3>3, <4>1 DEF Running
    <3>. QED  BY <1>16, <2>1, <3>1, <3>2, <3>3 DEF EndTcp
  <2>5. mpc \in {"end", "join"} /\ mpc' \in {"end", "join"} /\ UNCHANGED <<env, cmd>>
        /\ env.kind = "tcp" /\ todo \ {p} \subseteq todo' 
    BY <1>16, <2>1 DEF EndTcp, MainUnchanged
  <2> HIDE DEF p
  <2>11. OneThread'
    BY <1>16, <1>0, <2>0, <2>2, <2>4, <2>5 DEF OneThread, Of, Running
  <2>12. Owned'
    BY <1>16, <1>0, <2>0, <2>2, <2>4, <2>5 DEF Owned, Running
  <2>13. NoneStarted'
    BY <1>16, <1>0, <2>0, <2>2, <2>4, <2>5 DEF NoneStarted, Running
  <2>14. NoCommandYet'
    BY <1>16, <1>0, <2>0, <2>2, <2>4, <2>5 DEF NoCommandYet
  <2>15. NoneLost'
    BY <1>16, <1>0, <2>0, <2>2, <2>4, <2>5 DEF NoneLost, NoThreadLeft, Running, Owned
  <2>. QED  BY <2>11, <2>12, <2>13, <2>14, <2>15
<1>17. ASSUME EndUdp PROVE ThreadRules'
  <2> SUFFICES ASSUME ~env.early PROVE (OneThread /\ Owned /\ NoneStarted /\ NoCommandYet /\ NoneLost)'
    BY <1>17 DEF ThreadRules, EndUdp, MainUnchanged
  <2>0. OneThread /\ Owned /\ NoneStarted /\ NoCommandYet /\ NoneLost
    BY <1>17 DEF ThreadRules, EndUdp, MainUnchanged
  <2>1. /\ DOMAIN servers' = DOMAIN servers
        /\ \A q \in DOMAIN servers : servers'[q].thr = servers[q].thr
    BY <1>17 DEF EndUdp, Told
  <2>11. OneThread'
    BY <1>17, <1>0, <2>0, <2>1 DEF EndUdp, MainUnchanged, OneThread, Of, Running
  <2>12. Owned'
    BY <1>17, <1>0, <2>0, <2>1 DEF EndUdp, MainUnchanged, Owned, Running
  <2>13. NoneStarted'
    BY <1>17, <1>0, <2>0, <2>1 DEF EndUdp, MainUnchanged, NoneStarted, Running
  <2>14. NoCommandYet'
    BY <1>17, <1>0, <2>0, <2>1 DEF EndUdp, MainUnchanged, NoCommandYet
  <2>15. NoneLost'
    BY <1>17, <1>0, <2>0, <2>1 DEF EndUdp, MainUnchanged, NoneLost, NoThreadLeft, Running, Owned
  <2>. QED  BY <2>11, <2>12, <2>13, <2>14, <2>15
<1>18. ASSUME ClearAll PROVE ThreadRules'
  <2> SUFFICES ASSUME ~env.early PROVE (OneThread /\ Owned /\ NoneStarted /\ NoCommandYet /\ NoneLost)'
    BY <1>18 DEF ThreadRules, ClearAll, MainUnchanged
  <2>0. OneThread /\ Owned /\ NoneStarted /\ NoCommandYet /\ NoneLost
    BY <1>18 DEF ThreadRules, ClearAll, MainUnchanged
  <2>1. DOMAIN servers' = {}
    BY <1>18 DEF ClearAll, Without
  <2>2. \A t \in Threads : Running(t)' => /\ Running(t)
                                          /\ thread'[t].of = IF thread[t].of \in DOMAIN servers THEN Freed ELSE thread[t].of
    BY <1>18, <1>0 DEF ClearAll, Orphaned, Running, ThreadsType, ThreadType
  <2>11. OneThread'
    BY <1>18, <1>0, <2>0, <2>1, <2>2 DEF ClearAll, MainUnchanged, OneThread, Of, Running
  <2>12. Owned'
    BY <1>18, <1>0, <2>0, <2>1, <2>2 DEF ClearAll, MainUnchanged, Owned, Running
  <2>13. NoneStarted'
    BY <1>18, <1>0, <2>0, <2>1, <2>2 DEF ClearAll, MainUnchanged, NoneStarted, Owned, Running
  <2>14. NoCommandYet'
    BY <1>18, <1>0, <2>0, <2>1, <2>2 DEF ClearAll, MainUnchanged, NoCommandYet
  <2>15. NoneLost'
    BY <1>18, <1>0, <2>0, <2>1, <2>2 DEF ClearAll, MainUnchanged, NoneLost, NoThreadLeft, Running, Owned
  <2>. QED  BY <2>11, <2>12, <2>13, <2>14, <2>15
<1>19. ASSUME NEW c \in Commanders, NotReady(c) PROVE ThreadRules'
  <2>1. \A d \in Commanders : cmd[d].pc = "idle" => cmd'[d].pc = "idle"
    BY <1>19, <1>0 DEF NotReady, Answer, CommandsType
  <2>. QED  BY <1>19, <2>1, SameThreads DEF NotReady, CommandUnchanged, Running
<1>20. ASSUME NEW c \in Commanders, AddOne(c) PROVE ThreadRules'
  <2> SUFFICES ASSUME ~env.early PROVE (OneThread /\ Owned /\ NoneStarted /\ NoCommandYet /\ NoneLost)'
    BY <1>20 DEF ThreadRules, AddOne, CommandUnchanged
  <2>0. OneThread /\ Owned /\ NoneStarted /\ NoCommandYet /\ NoneLost
    BY <1>20 DEF ThreadRules, AddOne, CommandUnchanged
  <2>1. NextPort(c) \in Ports /\ NextPort(c) \notin DOMAIN servers /\ NewServer \in ServerType
    BY <1>20, <1>0, NextOfCommand, NewServerType DEF AddOne, NextPort, Has
  <2>2. Of(NextPort(c)) = {}
    BY <1>20, <1>0, <2>0, <2>1, PortsAssumption DEF Owned, Of, Running, Freed
  <2>3. /\ OneThread' /\ Owned' /\ (NoThreadLeft => NoThreadLeft')
        /\ \A t \in Threads : Running(t)' => thread'[t].of = NextPort(c) \/ (Running(t) /\ thread'[t].of = thread[t].of)
    BY <1>20, <1>0, <2>0, <2>1, <2>2, CreatedStep DEF AddOne, OneThread, ServersType
  <2>4. mpc \in {"watch", "round"} /\ UNCHANGED <<env, mpc>>
    BY <1>20, <2>0 DEF AddOne, CommandUnchanged, NoCommandYet
  <2>11. OneThread'
    BY <2>3
  <2>12. Owned'
    BY <2>3
  <2>13. NoneStarted'
    BY <2>0, <2>3, <2>4 DEF NoneStarted, Running
  <2>14. NoCommandYet'
    BY <2>0, <2>3, <2>4 DEF NoCommandYet
  <2>15. NoneLost'
    BY <2>0, <2>3, <2>4 DEF NoneLost, NoThreadLeft, Running, Owned
  <2>. QED  BY <2>11, <2>12, <2>13, <2>14, <2>15
<1>21. ASSUME NEW c \in Commanders, AddFails(c) PROVE ThreadRules'
  <2>1. \A d \in Commanders : cmd[d].pc = "idle" => cmd'[d].pc = "idle"
    BY <1>21, <1>0 DEF AddFails, CommandsType
  <2>. QED  BY <1>21, <2>1, SameThreads DEF AddFails, CommandUnchanged, Running
<1>22. ASSUME NEW c \in Commanders, AddExists(c) PROVE ThreadRules'
  <2>1. \A d \in Commanders : cmd[d].pc = "idle" => cmd'[d].pc = "idle"
    BY <1>22, <1>0 DEF AddExists, Answer, CommandsType
  <2>. QED  BY <1>22, <2>1, SameThreads DEF AddExists, CommandUnchanged, Running
<1>23. ASSUME NEW c \in Commanders, Added(c) PROVE ThreadRules'
  <2>1. \A d \in Commanders : cmd[d].pc = "idle" => cmd'[d].pc = "idle"
    BY <1>23, <1>0 DEF Added, Answer, CommandsType
  <2>. QED  BY <1>23, <2>1, SameThreads DEF Added, CommandUnchanged, Running
<1>24. ASSUME NEW c \in Commanders, RmvTell(c) PROVE ThreadRules'
  <2>1. \A d \in Commanders : cmd[d].pc = "idle" => cmd'[d].pc = "idle"
    BY <1>24, <1>0 DEF RmvTell, CommandsType
  <2>2. DOMAIN servers' = DOMAIN servers /\ \A p \in DOMAIN servers : servers'[p].thr = servers[p].thr
    BY <1>24 DEF RmvTell, Told
  <2>. QED  BY <1>24, <2>1, <2>2, SameThreads DEF RmvTell, CommandUnchanged, Running
<1>25. ASSUME NEW c \in Commanders, RmvOne(c) PROVE ThreadRules'
  <2> SUFFICES ASSUME ~env.early PROVE (OneThread /\ Owned /\ NoneStarted /\ NoCommandYet /\ NoneLost)'
    BY <1>25 DEF ThreadRules, RmvOne, CommandUnchanged
  <2>0. OneThread /\ Owned /\ NoneStarted /\ NoCommandYet /\ NoneLost
    BY <1>25 DEF ThreadRules, RmvOne, CommandUnchanged
  <2> DEFINE p == Min(cmd[c].ports)
             th == IF Has(p) /\ servers[p].thr # NoThread THEN Joined(p) ELSE thread
  <2>1. /\ thread' = Orphaned(th, {p}) /\ servers' = Without(servers, {p})
    BY <1>25 DEF RmvOne
  <2>2. p # Freed /\ mpc \in {"watch", "round"} /\ UNCHANGED <<env, mpc>>
    BY <1>25, <2>0, NextOfCommand, PortsAssumption DEF RmvOne, NoCommandYet, CommandUnchanged
  <2>3. \A t \in Threads : th[t].pc # "none" => th[t] = thread[t] /\ thread[t].of # p
    <3>1. CASE Has(p) /\ servers[p].thr # NoThread
      BY <3>1, <2>0, JoinedThread DEF OneThread, Has
    <3>2. CASE ~(Has(p) /\ servers[p].thr # NoThread)
      BY <3>2, <2>0, <2>2, ThreadsAssumption DEF Owned, OneThread, Of, Running, Has, NoThread
    <3>. QED  BY <3>1, <3>2
  <2>4. th \in [Threads -> ThreadType]
    BY <1>0, JoinedType DEF Has, ThreadsType
  <2>5. \A t \in Threads : /\ thread'[t].pc = th[t].pc
                           /\ th[t].of # p => thread'[t] = th[t]
    BY <2>1, <2>4 DEF Orphaned, ThreadType
  <2>6. \A t \in Threads : Running(t)' => Running(t) /\ thread'[t].of = thread[t].of /\ thread[t].of # p
    BY <2>3, <2>5 DEF Running
  <2>7. DOMAIN servers' = DOMAIN servers \ {p} /\ \A q \in DOMAIN servers' : servers'[q] = servers[q]
    BY <2>1 DEF Without
  <2> HIDE DEF p, th
  <2>11. OneThread'
    BY <1>25, <1>0, <2>0, <2>2, <2>6, <2>7 DEF OneThread, Of, Running
  <2>12. Owned'
    BY <1>25, <1>0, <2>0, <2>2, <2>6, <2>7 DEF Owned, Running
  <2>13. NoneStarted'
    BY <1>25, <1>0, <2>0, <2>2, <2>6, <2>7 DEF NoneStarted, Running
  <2>14. NoCommandYet'
    BY <1>25, <1>0, <2>0, <2>2, <2>6, <2>7 DEF NoCommandYet
  <2>15. NoneLost'
    BY <1>25, <1>0, <2>0, <2>2, <2>6, <2>7 DEF NoneLost, NoThreadLeft, Running, Owned
  <2>. QED  BY <2>11, <2>12, <2>13, <2>14, <2>15
<1>26. ASSUME NEW c \in Commanders, Removed(c) PROVE ThreadRules'
  <2>1. \A d \in Commanders : cmd[d].pc = "idle" => cmd'[d].pc = "idle"
    BY <1>26, <1>0 DEF Removed, Answer, CommandsType
  <2>. QED  BY <1>26, <2>1, SameThreads DEF Removed, CommandUnchanged, Running
<1>27. ASSUME NEW c \in Commanders, Command(c) PROVE ThreadRules'
  <2> SUFFICES ASSUME ~env.early PROVE (OneThread /\ Owned /\ NoneStarted /\ NoCommandYet /\ NoneLost)'
    BY <1>27 DEF ThreadRules, Command, CommandUnchanged
  <2>0. OneThread /\ Owned /\ NoneStarted /\ NoCommandYet /\ NoneLost
    BY <1>27 DEF ThreadRules, Command, CommandUnchanged
  <2>1. mpc \in {"watch", "round"}
    BY <1>27 DEF Command
  <2>11. OneThread'
    BY <1>27, <1>0, <2>0, <2>1 DEF Command, CommandUnchanged, OneThread, Of, Running
  <2>12. Owned'
    BY <1>27, <1>0, <2>0, <2>1 DEF Command, CommandUnchanged, Owned, Running
  <2>13. NoneStarted'
    BY <1>27, <1>0, <2>0, <2>1 DEF Command, CommandUnchanged, NoneStarted, Running
  <2>14. NoCommandYet'
    BY <1>27, <1>0, <2>0, <2>1 DEF Command, CommandUnchanged, NoCommandYet
  <2>15. NoneLost'
    BY <1>27, <1>0, <2>0, <2>1 DEF Command, CommandUnchanged, NoneLost, NoThreadLeft, Running, Owned
  <2>. QED  BY <2>11, <2>12, <2>13, <2>14, <2>15
<1>28. CASE UNCHANGED vars
  BY <1>28 DEF vars, OneThread, Of, Running, Owned, NoneStarted, NoCommandYet, NoneLost, ThreadRules, NoThreadLeft
<1>. QED
  BY <1>1, <1>2, <1>3, <1>4, <1>5, <1>6, <1>7, <1>8, <1>9, <1>10, <1>11,
     <1>12, <1>13, <1>14, <1>15, <1>16, <1>17, <1>18, <1>19, <1>20, <1>21,
     <1>22, <1>23, <1>24, <1>25, <1>26, <1>27, <1>28 DEF Next, ServerThread,
     Main, Commander, AddTcp, AddUdp, RmvTcp, RmvUdp

-----------------------------------------------------------------------------
(* The theorems.                                                           *)

Inductive == TypeOK /\ LockRules /\ ToldOnlyToErase /\ ThreadRules

(* The whole invariant, initially and over a step. *)
LEMMA InitInductive == Init => Inductive
<1> SUFFICES ASSUME Init PROVE Inductive
  OBVIOUS
<1>1. TypeOK
  <2>1. cmd \in [Commanders -> CommandType]
    BY CommandsAssumption DEF Init, CommandType
  <2>2. thread \in [Threads -> ThreadType]
    BY DEF Init, ThreadType
  <2>. QED  BY <2>1, <2>2, TypeParts DEF Init, ServersType, ThreadsType, CommandsType, RestType
<1>2. LockRules /\ ToldOnlyToErase
  BY CommandersAssumption DEF Init, LockRules, Joins, ToldOnlyToErase
<1>3. ThreadRules
  BY DEF Init, ThreadRules, OneThread, Of, Owned, NoneStarted, NoCommandYet, NoneLost, NoThreadLeft, Running
<1>. QED  BY <1>1, <1>2, <1>3 DEF Inductive

LEMMA StepInductive == Inductive /\ [Next]_vars => Inductive'
BY TypeStep, LockStep, ToldStep, ThreadStep DEF Inductive

(* Whatever happens, the inductive invariant holds. *)
THEOREM InductiveHolds == Spec => []Inductive
<1>. QED  BY InitInductive, StepInductive, PTL DEF Spec

(* ServersSound of the model, for any number of ports, threads and commands *)
(* and in every setting: one thread per server, and the map's lock held by  *)
(* whom it should be (tcp_server_manage, udp_server_manage).                *)
THEOREM ServersHold == Spec => []ServersSound
<1>1. Inductive => ServersSound
  BY LockRulesGiveLockHeld DEF Inductive, ThreadRules, NoneLost, ServersSound
<1>. QED  BY <1>1, InductiveHolds, PTL

(* StopsForGood of the model: a server told to stop never gets another      *)
(* thread, though the supervisor runs stopped servers again.                *)
THEOREM StopsHold == Spec => StopsForGood
<1>1. Inductive /\ [Next]_vars =>
        [\A p \in DOMAIN servers :
           servers[p].stop /\ Has(p)' => servers'[p].thr \in {servers[p].thr, NoThread}]_vars
  BY StopStep DEF Inductive
<1>. QED  BY <1>1, InductiveHolds, PTL DEF Spec, StopsForGood

-----------------------------------------------------------------------------
(* The thread pool: lists of tasks.                                        *)

(* Taking the head of the second of two sequences to the end of the first   *)
(* does not change their concatenation.                                     *)
LEMMA MoveHead ==
  ASSUME NEW S, NEW s \in Seq(S), NEW q \in Seq(S), q # <<>>
  PROVE  /\ Append(s, Head(q)) \in Seq(S)
         /\ Tail(q) \in Seq(S)
         /\ Append(s, Head(q)) \o Tail(q) = s \o q
<1> DEFINE a == Append(s, Head(q))
           l == a \o Tail(q)
           r == s \o q
<1>1. /\ Head(q) \in S /\ Tail(q) \in Seq(S) /\ Len(Tail(q)) = Len(q) - 1
      /\ \A i \in 1..Len(Tail(q)) : Tail(q)[i] = q[i + 1]
      /\ Len(q) \in Nat \ {0} /\ Len(s) \in Nat
  BY HeadTailProperties, EmptySeq, LenProperties
<1>2. Head(q) = q[1]
  BY <1>1
<1>3. /\ a \in Seq(S) /\ Len(a) = Len(s) + 1
      /\ \A i \in 1..Len(s) : a[i] = s[i]
      /\ a[Len(s) + 1] = q[1]
  BY <1>1, <1>2, AppendProperties
<1> HIDE DEF a
<1>4. /\ l \in Seq(S) /\ Len(l) = Len(a) + Len(Tail(q))
      /\ \A i \in 1..Len(a) + Len(Tail(q)) :
           l[i] = IF i <= Len(a) THEN a[i] ELSE Tail(q)[i - Len(a)]
  BY <1>1, <1>3, ConcatProperties
<1>5. /\ r \in Seq(S) /\ Len(r) = Len(s) + Len(q)
      /\ \A i \in 1..Len(s) + Len(q) :
           r[i] = IF i <= Len(s) THEN s[i] ELSE q[i - Len(s)]
  BY ConcatProperties
<1> HIDE DEF l, r
<1>6. Len(l) = Len(r)
  BY <1>1, <1>3, <1>4, <1>5
<1>7. ASSUME NEW i \in 1..Len(l) PROVE l[i] = r[i]
  <2>1. CASE i <= Len(s)
    BY <2>1, <1>1, <1>3, <1>4, <1>5, <1>6
  <2>2. CASE i = Len(s) + 1
    BY <2>2, <1>1, <1>3, <1>4, <1>5, <1>6
  <2>3. CASE i > Len(s) + 1
    <3>1. l[i] = Tail(q)[i - Len(a)] /\ r[i] = q[i - Len(s)]
      BY <2>3, <1>1, <1>3, <1>4, <1>5, <1>6
    <3>2. /\ i - Len(a) \in 1..Len(Tail(q))
          /\ i - Len(a) + 1 = i - Len(s)
      BY <2>3, <1>1, <1>3, <1>4
    <3>. QED  BY <3>1, <3>2, <1>1
  <2>. QED  BY <2>1, <2>2, <2>3, <1>1, <1>3, <1>4
<1>8. l = r
  BY <1>4, <1>5, <1>6, <1>7, SeqEqual
<1>. QED
  BY <1>1, <1>3, <1>8 DEF a, l, r

(* The tasks up to a number, one after the other. *)
LEMMA CountUp ==
  ASSUME NEW n \in Nat
  PROVE  /\ [i \in 1..n |-> i] \in Seq(Nat)
         /\ Append([i \in 1..n |-> i], n + 1) = [i \in 1..(n + 1) |-> i]
<1> DEFINE c(m) == [i \in 1..m |-> i]
<1>1. \A m \in Nat : c(m) \in Seq(Nat) /\ Len(c(m)) = m
  OBVIOUS
<1>2. c(n) \in Seq(Nat) /\ Len(c(n)) = n /\ n + 1 \in Nat
      /\ c(n + 1) \in Seq(Nat) /\ Len(c(n + 1)) = n + 1
  BY <1>1
<1>3. /\ Append(c(n), n + 1) \in Seq(Nat)
      /\ Len(Append(c(n), n + 1)) = n + 1
      /\ \A i \in 1..n : Append(c(n), n + 1)[i] = c(n)[i]
      /\ Append(c(n), n + 1)[n + 1] = n + 1
  BY <1>2, AppendProperties
<1>4. ASSUME NEW i \in 1..(n + 1) PROVE Append(c(n), n + 1)[i] = c(n + 1)[i]
  BY <1>3
<1>. QED
  BY <1>2, <1>3, <1>4, SeqEqual

-----------------------------------------------------------------------------
\* Type correctness.

\* A worker between dequeuing and finishing holds a task; the administrator
\* logs a failure about a slot of the pool.
TaskHeld == \A w \in Slots : wpc[w] \in {"took", "run"} => task[w] \in Tasks
LogsSlot == apc = "log" => at < MaxThr

TypeInv == PoolTypeOK /\ TaskHeld /\ LogsSlot

LEMMA InitType == PoolInit => TypeInv
<1> SUFFICES ASSUME PoolInit PROVE TypeInv
  OBVIOUS
<1>1. <<>> \in Seq(Tasks) /\ Len(<<>>) = 0
  BY EmptySeq
<1>2. used \subseteq Slots /\ threads \subseteq Slots
  BY PoolAssumption DEF PoolInit, Slots
<1>3. wpc \in [Slots -> {"check", "none"}]
  BY DEF PoolInit
<1>4. task \in [Slots -> Tasks \union {0}]
  BY DEF PoolInit
<1>. QED
  BY <1>1, <1>2, <1>3, <1>4, PoolAssumption
  DEF PoolInit, TypeInv, PoolTypeOK, TaskHeld, LogsSlot, Working

LEMMA WorkerType ==
  ASSUME TypeInv, NEW w \in Slots, Worker(w) \/ WakeUnsignalled(w)
  PROVE  TypeInv'
<1>1. CASE DecideToSleep(w)
  BY <1>1 DEF DecideToSleep, Goto, TypeInv, PoolTypeOK, TaskHeld, LogsSlot,
              Working, avars, ovars
<1>2. CASE Sleep(w)
  BY <1>2 DEF Sleep, Goto, TypeInv, PoolTypeOK, TaskHeld, LogsSlot, Working,
              avars, ovars
<1>3. CASE Exit(w)
  BY <1>3 DEF Exit, Goto, TypeInv, PoolTypeOK, TaskHeld, LogsSlot, Working, pool,
              avars, ovars
<1>4. CASE Take(w)
  <2>1. /\ Head(queue) \in Tasks /\ Tail(queue) \in Seq(Tasks)
        /\ Len(Tail(queue)) = Len(queue) - 1 /\ Len(queue) \in Nat
        /\ Append(started, Head(queue)) \in Seq(Tasks)
    BY <1>4, HeadTailProperties, LenProperties, AppendProperties
    DEF Take, TypeInv, PoolTypeOK
  <2>. QED
    BY <1>4, <2>1, PoolAssumption
    DEF Take, Goto, TypeInv, PoolTypeOK, TaskHeld, LogsSlot, Working, avars
<1>5. CASE Start(w)
  BY <1>5 DEF Start, Goto, TypeInv, PoolTypeOK, TaskHeld, LogsSlot, Working,
              avars, ovars
<1>6. CASE Return(w)
  BY <1>6 DEF Return, Goto, TypeInv, PoolTypeOK, TaskHeld, LogsSlot, Working,
              pool, avars, ovars
<1>7. CASE Finish(w)
  BY <1>7 DEF Finish, Goto, TypeInv, PoolTypeOK, TaskHeld, LogsSlot, Working,
              avars, ovars
<1>8. CASE WakeUnsignalled(w)
  BY <1>8 DEF WakeUnsignalled, Goto, TypeInv, PoolTypeOK, TaskHeld, LogsSlot,
              Working, pool, avars, ovars
<1>. QED
  BY <1>1, <1>2, <1>3, <1>4, <1>5, <1>6, <1>7, <1>8 DEF Worker

LEMMA AdminType == TypeInv /\ Administrator => TypeInv'
<1> SUFFICES ASSUME TypeInv, Administrator PROVE TypeInv'
  OBVIOUS
<1> USE PoolAssumption DEF TypeInv, PoolTypeOK, TaskHeld, LogsSlot, Working,
        AdminUnchanged, ovars
<1>1. CASE AdminLook
  <2>1. seen' \in [queue : Nat, live : Nat, busy : Int]
    <3>1. Len(queue) \in Nat /\ live \in Nat
      BY LenProperties
    <3>. QED  BY <1>1, <3>1 DEF AdminLook
  <2>. QED  BY <1>1, <2>1 DEF AdminLook
<1>2. CASE AdminDecide  BY <1>2 DEF AdminDecide
<1>3. CASE AdminEnter  BY <1>3 DEF AdminEnter
<1>4. CASE AdminSkip  BY <1>4 DEF AdminSkip, MoreToCreate
<1>5. CASE AdminCreate \/ AdminCreateFails
  <2>1. at \in Slots /\ at + 1 \in 0..MaxThr
    BY <1>5 DEF AdminCreate, AdminCreateFails, MoreToCreate, Slots
  <2>2. /\ add + 1 \in 0..CreateMax
        /\ live + 1 \in 0..MaxThr
        /\ at < MaxThr
    BY <1>5 DEF AdminCreate, AdminCreateFails, MoreToCreate
  <2>3. CASE AdminCreate
    <3>1. wpc' \in [Slots -> Working \union {"none", "exited"}]
      BY <2>3 DEF AdminCreate
    <3>2. \A w \in Slots : wpc'[w] \in {"took", "run"} => wpc[w] = wpc'[w]
      BY <2>3, <2>1 DEF AdminCreate
    <3>. QED  BY <2>1, <2>2, <2>3, <3>1, <3>2 DEF AdminCreate
  <2>4. CASE AdminCreateFails
    BY <2>1, <2>2, <2>4 DEF AdminCreateFails
  <2>. QED  BY <1>5, <2>3, <2>4
<1>6. CASE AdminLogged  BY <1>6 DEF AdminLogged
<1>7. CASE AdminLeave  BY <1>7 DEF AdminLeave
<1>8. CASE AdminHead  BY <1>8 DEF AdminHead
<1>9. CASE AdminCancelled  BY <1>9 DEF AdminCancelled
<1>. QED
  BY <1>1, <1>2, <1>3, <1>4, <1>5, <1>6, <1>7, <1>8, <1>9 DEF Administrator

LEMMA OwnerType == TypeInv /\ Owner => TypeInv'
<1> SUFFICES ASSUME TypeInv, Owner PROVE TypeInv'
  OBVIOUS
<1> USE PoolAssumption DEF TypeInv, PoolTypeOK, TaskHeld, LogsSlot, Working,
        OwnerUnchanged, avars
<1>1. CASE AddTask
  <2>1. added + 1 \in Tasks /\ added + 1 \in 0..NTasks
    BY <1>1 DEF AddTask, HasTask, Tasks
  <2>2. /\ Append(queue, added + 1) \in Seq(Tasks)
        /\ Len(Append(queue, added + 1)) = Len(queue) + 1
        /\ Len(queue) \in Nat
    BY <2>1, AppendProperties, LenProperties
  <2>3. /\ wpc' \in [Slots -> Working \union {"none", "exited"}]
        /\ \A w \in Slots : wpc'[w] \in {"took", "run"} => wpc[w] = wpc'[w]
    BY <1>1 DEF AddTask, Goto, Asleep
  <2>. QED  BY <1>1, <2>1, <2>2, <2>3 DEF AddTask
<1>2. CASE AddFull  BY <1>2 DEF AddFull
<1>3. CASE Destroy  BY <1>3 DEF Destroy
<1>4. CASE CancelAdmin  BY <1>4 DEF CancelAdmin
<1>5. CASE JoinAdmin  BY <1>5 DEF JoinAdmin
<1>6. CASE Broadcast
  <2>1. /\ wpc' \in [Slots -> Working \union {"none", "exited"}]
        /\ \A w \in Slots : wpc'[w] \in {"took", "run"} => wpc[w] = wpc'[w]
    BY <1>6 DEF Broadcast
  <2>2. k' \in 0..MaxThr
    BY <1>6 DEF Broadcast
  <2>3. opc' \in {"broadcast", "join"}
    BY <1>6 DEF Broadcast
  <2>. QED  BY <1>6, <2>1, <2>2, <2>3 DEF Broadcast
<1>7. CASE Join  BY <1>7 DEF Join, LastToJoin
<1>. QED
  BY <1>1, <1>2, <1>3, <1>4, <1>5, <1>6, <1>7 DEF Owner

\* Whether pthread_create may fail does not change.
LEMMA ScarceFixed == [PoolNext]_poolVars => scarce' = scarce
BY DEF PoolNext, poolVars, Worker, DecideToSleep, Sleep, Exit, Take, Start, Return,
       Finish, WakeUnsignalled, Administrator, AdminLook, AdminDecide,
       AdminEnter, AdminSkip, AdminCreate, AdminCreateFails, AdminLogged,
       AdminLeave, AdminHead, AdminCancelled, AdminUnchanged, Owner, AddTask,
       AddFull, Destroy, CancelAdmin, JoinAdmin, Broadcast, Join,
       OwnerUnchanged, avars

LEMMA StepType == TypeInv /\ [PoolNext]_poolVars => TypeInv'
<1> SUFFICES ASSUME TypeInv, [PoolNext]_poolVars PROVE TypeInv'
  OBVIOUS
<1>1. CASE UNCHANGED poolVars
  BY <1>1 DEF TypeInv, PoolTypeOK, TaskHeld, LogsSlot, poolVars, pool, wvars, avars,
              ovars
<1>. QED
  BY <1>1, WorkerType, AdminType, OwnerType DEF PoolNext

(* In every reachable state the variables have their types, and the queue,  *)
(* the workers and the administrator's loop stay inside the arrays that     *)
(* threadpool_create allocated (threadpool.cpp:136, 145).                   *)
THEOREM TypeCorrect == PoolSpec => []PoolTypeOK
<1>1. TypeInv => PoolTypeOK
  BY DEF TypeInv
<1>. QED
  BY InitType, StepType, <1>1, PTL DEF PoolSpec

-----------------------------------------------------------------------------
\* The order of the tasks.

LEMMA TasksAreNat == Seq(Tasks) \subseteq Seq(Nat)
BY PoolAssumption, SeqMonotonic DEF Tasks

LEMMA StepOrder ==
  TypeInv /\ EachTaskOnce /\ [PoolNext]_poolVars => EachTaskOnce'
<1> SUFFICES ASSUME TypeInv, EachTaskOnce, [PoolNext]_poolVars PROVE EachTaskOnce'
  OBVIOUS
<1>1. CASE UNCHANGED <<started, queue, added>>
  BY <1>1 DEF EachTaskOnce
<1>2. ASSUME NEW w \in Slots, Take(w) PROVE EachTaskOnce'
  <2>1. started \in Seq(Tasks) /\ queue \in Seq(Tasks) /\ queue # <<>>
    BY <1>2 DEF TypeInv, PoolTypeOK, Take
  <2>2. Append(started, Head(queue)) \o Tail(queue) = started \o queue
    BY <2>1, MoveHead
  <2>. QED  BY <1>2, <2>2 DEF Take, EachTaskOnce
<1>3. CASE AddTask
  <2>1. /\ started \in Seq(Nat) /\ queue \in Seq(Nat)
        /\ added \in Nat /\ added + 1 \in Nat
    BY TasksAreNat, PoolAssumption DEF TypeInv, PoolTypeOK
  <2>2. started \o Append(queue, added + 1)
          = Append(started \o queue, added + 1)
    <3>1. /\ <<added + 1>> \in Seq(Nat)
          /\ started \o queue \in Seq(Nat)
          /\ Append(queue, added + 1) = queue \o <<added + 1>>
      BY <2>1, ConcatProperties, AppendIsConcat
    <3>2. Append(started \o queue, added + 1)
            = (started \o queue) \o <<added + 1>>
      BY <2>1, <3>1, AppendIsConcat
    <3>. QED  BY <2>1, <3>1, <3>2, ConcatAssociative
  <2>3. Append(started \o queue, added + 1) = [n \in 1..(added + 1) |-> n]
    BY <2>1, CountUp DEF EachTaskOnce
  <2>4. /\ started' = started /\ queue' = Append(queue, added + 1)
        /\ added' = added + 1
    BY <1>3 DEF AddTask, OwnerUnchanged
  <2>. QED  BY <2>2, <2>3, <2>4 DEF EachTaskOnce
<1>4. CASE UNCHANGED poolVars
  BY <1>1, <1>4 DEF poolVars, pool, wvars, ovars
<1>5. CASE Administrator
  BY <1>1, <1>5
  DEF Administrator, AdminLook, AdminDecide, AdminEnter, AdminSkip,
      AdminCreate, AdminCreateFails, AdminLogged, AdminLeave, AdminHead,
      AdminCancelled, AdminUnchanged, ovars
<1>6. CASE Owner
  BY <1>1, <1>3, <1>6
  DEF Owner, AddFull, Destroy, CancelAdmin, JoinAdmin, Broadcast, Join,
      OwnerUnchanged
<1>7. ASSUME NEW w \in Slots, Worker(w) \/ WakeUnsignalled(w)
      PROVE  EachTaskOnce'
  BY <1>1, <1>2, <1>7
  DEF Worker, WakeUnsignalled, DecideToSleep, Sleep, Exit, Start, Return,
      Finish, pool, ovars
<1>. QED
  BY <1>4, <1>5, <1>6, <1>7 DEF PoolNext

(* Whatever the number of workers, tasks are dequeued in the order they were *)
(* added, each exactly once (threadpool.cpp:404-411, 457-462).              *)
THEOREM OrderHolds == PoolSpec => []EachTaskOnce
<1>1. PoolInit => EachTaskOnce
  BY EmptySeq, ConcatEmptySeq DEF PoolInit, EachTaskOnce
<1>. QED
  BY InitType, StepType, StepOrder, <1>1, PTL DEF PoolSpec

-----------------------------------------------------------------------------
\* The slots, their threads and the lock.

AdminHolds == apc \in {"grow", "log"} => lock = Admin

SlotInv == SlotsOfThreads /\ AdminHolds /\ live >= MinThr
           /\ (~scarce => apc # "log" /\ (apc = "grow" => at <= live))

LEMMA InitSlots == PoolInit => SlotInv
BY PoolAssumption
DEF PoolInit, SlotInv, SlotsOfThreads, AdminHolds, Slots, Nobody

LEMMA StepSlots == TypeInv /\ SlotInv /\ [PoolNext]_poolVars => SlotInv'
<1> SUFFICES ASSUME TypeInv, SlotInv, [PoolNext]_poolVars PROVE SlotInv'
  OBVIOUS
<1> USE DEF SlotInv, SlotsOfThreads, AdminHolds
<1>0. /\ Admin \notin Slots /\ Nobody \notin Slots /\ Admin # Nobody
      /\ wpc \in [Slots -> Working \union {"none", "exited"}]
      /\ scarce' = scarce
  BY ScarceFixed DEF Slots, Admin, Nobody, TypeInv, PoolTypeOK
<1>1. ASSUME NEW w \in Slots, Worker(w) \/ WakeUnsignalled(w) PROVE SlotInv'
  <2>1. /\ UNCHANGED <<used, threads, live, apc, at>>
        /\ \E p \in Working \union {"exited"} : wpc' = [wpc EXCEPT ![w] = p]
        /\ wpc[w] # "none"
    BY <1>1
    DEF Worker, DecideToSleep, Sleep, Exit, Take, Start, Return, Finish,
        WakeUnsignalled, Goto, Working, pool, avars
  <2>2. \A v \in Slots : wpc'[v] # "none" <=> v \in threads'
    BY <1>0, <2>1 DEF Working
  <2>3. (\A v \in Slots : wpc'[v] = "toSleep" <=> lock' = v)
        /\ (apc' \in {"grow", "log"} => lock' = Admin)
    <3>1. CASE DecideToSleep(w)
      BY <1>0, <2>1, <3>1 DEF DecideToSleep, Goto
    <3>2. CASE Sleep(w)
      BY <1>0, <2>1, <3>2 DEF Sleep, Goto
    <3>3. CASE Exit(w) \/ Take(w) \/ Start(w) \/ Return(w) \/ Finish(w)
               \/ WakeUnsignalled(w)
      BY <1>0, <2>1, <3>3
      DEF Exit, Take, Start, Return, Finish, WakeUnsignalled, Goto, pool
    <3>. QED  BY <1>1, <3>1, <3>2, <3>3 DEF Worker
  <2>. QED  BY <1>0, <2>1, <2>2, <2>3
<1>2. CASE Administrator
  <2>1. CASE AdminLook \/ AdminDecide \/ AdminHead \/ AdminCancelled
             \/ AdminLogged
    BY <1>0, <2>1 DEF AdminLook, AdminDecide, AdminHead, AdminCancelled, AdminLogged
  <2>2. CASE AdminEnter \/ AdminLeave
    BY <1>0, <2>2 DEF AdminEnter, AdminLeave
  <2>3. CASE AdminSkip
    <3>1. ~scarce => at + 1 <= live
      BY <2>3 DEF AdminSkip, TypeInv, PoolTypeOK
    <3>. QED  BY <1>0, <2>3, <3>1 DEF AdminSkip
  <2>4. CASE AdminCreate
    <3>1. at \in Slots /\ at \notin threads /\ at \in Nat /\ live \in Nat
      BY <2>4, PoolAssumption
      DEF AdminCreate, MoreToCreate, TypeInv, PoolTypeOK, Slots
    <3>2. \A v \in Slots : wpc'[v] = IF v = at THEN "check" ELSE wpc[v]
      BY <1>0, <2>4 DEF AdminCreate
    <3>3. wpc[at] = "none"
      BY <3>1
    <3>4. ~scarce => at = live
      BY <2>4, <3>1 DEF AdminCreate
    <3>5. ~scarce => threads' = 0..(live' - 1) /\ used' = threads'
      BY <2>4, <3>1, <3>4 DEF AdminCreate
    <3>6. \A v \in Slots : wpc'[v] # "none" <=> v \in threads'
      BY <2>4, <3>1, <3>2 DEF AdminCreate
    <3>7. \A v \in Slots : wpc'[v] = "toSleep" <=> lock' = v
      BY <1>0, <2>4, <3>1, <3>2, <3>3 DEF AdminCreate
    <3>8. threads' \subseteq used' /\ live' >= MinThr
      BY <2>4, <3>1, PoolAssumption DEF AdminCreate
    <3>9. ~scarce => apc' # "log" /\ at' <= live'
      BY <2>4, <3>1, <3>4 DEF AdminCreate
    <3>10. lock' = Admin
      BY <2>4 DEF AdminCreate
    <3>. QED  BY <1>0, <3>5, <3>6, <3>7, <3>8, <3>9, <3>10
  <2>5. CASE AdminCreateFails
    BY <1>0, <2>5 DEF AdminCreateFails
  <2>. QED  BY <1>2, <2>1, <2>2, <2>3, <2>4, <2>5 DEF Administrator
<1>3. CASE Owner
  <2>1. UNCHANGED <<used, threads, live, apc, at, lock>>
    BY <1>3
    DEF Owner, AddTask, AddFull, Destroy, CancelAdmin, JoinAdmin, Broadcast,
        Join, OwnerUnchanged, avars
  <2>2. \A v \in Slots : \/ wpc'[v] = wpc[v]
                         \/ wpc[v] = "asleep" /\ wpc'[v] = "check"
    BY <1>0, <1>3
    DEF Owner, AddTask, AddFull, Destroy, CancelAdmin, JoinAdmin, Broadcast,
        Join, Goto, Asleep
  <2>. QED  BY <1>0, <2>1, <2>2
<1>4. CASE UNCHANGED poolVars
  BY <1>4 DEF poolVars, pool, wvars, avars
<1>. QED
  BY <1>1, <1>2, <1>3, <1>4 DEF PoolNext

(* No slot ever gets a second thread, and the lock has one holder, even when *)
(* threads cannot be created (threadpool.cpp:158-172, 299-317).              *)
THEOREM SlotsHold == PoolSpec => []SlotsOfThreads
<1>1. SlotInv => SlotsOfThreads
  BY DEF SlotInv
<1>. QED
  BY InitType, StepType, InitSlots, StepSlots, <1>1, PTL DEF PoolSpec

-----------------------------------------------------------------------------
\* The count of busy workers.

Inside == {w \in Slots : wpc[w] \in {"run", "ran"}}

(* busy_thr_num counts a finite set, so that one more or one less counts.   *)
LEMMA InsideFinite == IsFiniteSet(Inside) /\ Cardinality(Inside) \in Nat
<1>1. IsFiniteSet(Slots)
  BY PoolAssumption, FS_Interval DEF Slots
<1>2. Inside \subseteq Slots
  BY DEF Inside
<1>. QED  BY <1>1, <1>2, FS_Subset, FS_CardinalityType

(* No worker is in a task at the beginning.                                 *)
LEMMA InitBusy == PoolInit => BusyExact
<1> SUFFICES ASSUME PoolInit PROVE BusyExact
  OBVIOUS
<1>1. {w \in Slots : wpc[w] \in {"run", "ran"}} = {}
  BY DEF PoolInit
<1>. QED  BY <1>1, FS_EmptySet DEF PoolInit, BusyExact

(* The counter changes exactly where a worker enters or leaves a task.      *)
LEMMA StepBusy == TypeInv /\ SlotInv /\ BusyExact /\ [PoolNext]_poolVars => BusyExact'
<1> SUFFICES ASSUME TypeInv, SlotInv, BusyExact, [PoolNext]_poolVars PROVE BusyExact'
  OBVIOUS
<1>0. wpc \in [Slots -> Working \union {"none", "exited"}] /\ busy = Cardinality(Inside)
  BY DEF TypeInv, PoolTypeOK, BusyExact, Inside
<1>a. ASSUME busy' = busy, \A v \in Slots : wpc'[v] \in {"run", "ran"} <=> wpc[v] \in {"run", "ran"}
      PROVE  BusyExact'
  <2>1. {v \in Slots : wpc'[v] \in {"run", "ran"}} = Inside
    BY <1>a DEF Inside
  <2>. QED  BY <1>0, <1>a, <2>1 DEF BusyExact
<1>1. ASSUME NEW w \in Slots, Start(w) PROVE BusyExact'
  <2>1. wpc[w] = "took" /\ busy' = busy + 1 /\ wpc' = [wpc EXCEPT ![w] = "run"]
    BY <1>1 DEF Start, Goto
  <2>2. w \notin Inside /\ {v \in Slots : wpc'[v] \in {"run", "ran"}} = Inside \cup {w}
    BY <1>0, <2>1 DEF Inside
  <2>3. Cardinality(Inside \cup {w}) = Cardinality(Inside) + 1
    BY <2>2, InsideFinite, FS_AddElement
  <2>. QED  BY <1>0, <2>1, <2>2, <2>3 DEF BusyExact
<1>2. ASSUME NEW w \in Slots, Finish(w) PROVE BusyExact'
  <2>1. wpc[w] = "ran" /\ busy' = busy - 1 /\ wpc' = [wpc EXCEPT ![w] = "check"]
    BY <1>2 DEF Finish, Goto
  <2>2. w \in Inside /\ {v \in Slots : wpc'[v] \in {"run", "ran"}} = Inside \ {w}
    BY <1>0, <2>1 DEF Inside
  <2>3. Cardinality(Inside \ {w}) = Cardinality(Inside) - 1
    BY <2>2, InsideFinite, FS_RemoveElement
  <2>. QED  BY <1>0, <2>1, <2>2, <2>3 DEF BusyExact
<1>3. ASSUME NEW w \in Slots,
             DecideToSleep(w) \/ Sleep(w) \/ Exit(w) \/ Take(w) \/ Return(w) \/ WakeUnsignalled(w)
      PROVE  BusyExact'
  <2>1. /\ busy' = busy
        /\ \E p \in Working \union {"exited"} :
             wpc' = [wpc EXCEPT ![w] = p] /\ (p \in {"run", "ran"} <=> wpc[w] \in {"run", "ran"})
    BY <1>3 DEF DecideToSleep, Sleep, Exit, Take, Return, WakeUnsignalled, Goto, Working, pool
  <2>. QED  BY <1>0, <1>a, <2>1
<1>4. ASSUME Administrator PROVE BusyExact'
  <2>1. busy' = busy
    BY <1>4
    DEF Administrator, AdminLook, AdminDecide, AdminEnter, AdminSkip, AdminCreate,
        AdminCreateFails, AdminLogged, AdminLeave, AdminHead, AdminCancelled, AdminUnchanged
  <2>2. CASE AdminCreate
    <3>1. at \in Slots /\ at \notin threads
      BY <2>2, PoolAssumption
      DEF AdminCreate, MoreToCreate, SlotInv, SlotsOfThreads, TypeInv, PoolTypeOK, Slots
    <3>2. wpc[at] = "none" /\ wpc' = [wpc EXCEPT ![at] = "check"]
      BY <2>2, <3>1 DEF AdminCreate, SlotInv, SlotsOfThreads
    <3>. QED  BY <1>0, <1>a, <2>1, <3>1, <3>2
  <2>3. CASE ~AdminCreate
    <3>1. wpc' = wpc
      BY <1>4, <2>3
      DEF Administrator, AdminLook, AdminDecide, AdminEnter, AdminSkip,
          AdminCreateFails, AdminLogged, AdminLeave, AdminHead, AdminCancelled
    <3>. QED  BY <1>a, <2>1, <3>1
  <2>. QED  BY <2>2, <2>3
<1>5. ASSUME Owner PROVE BusyExact'
  <2>1. busy' = busy
    BY <1>5
    DEF Owner, AddTask, AddFull, Destroy, CancelAdmin, JoinAdmin, Broadcast, Join, OwnerUnchanged
  <2>2. \A v \in Slots : \/ wpc'[v] = wpc[v]
                         \/ wpc[v] = "asleep" /\ wpc'[v] = "check"
    BY <1>0, <1>5
    DEF Owner, AddTask, AddFull, Destroy, CancelAdmin, JoinAdmin, Broadcast, Join, Goto, Asleep
  <2>. QED  BY <1>a, <2>1, <2>2
<1>6. CASE UNCHANGED poolVars
  BY <1>a, <1>6 DEF poolVars, pool, wvars
<1>. QED
  BY <1>1, <1>2, <1>3, <1>4, <1>5, <1>6 DEF PoolNext, Worker

(* The administrator decides on a true count of the workers inside a task,   *)
(* however many there are (threadpool.cpp:420-429, 278-280).                *)
THEOREM BusyHolds == PoolSpec => []BusyExact
<1>1. PoolInit => TypeInv /\ SlotInv /\ BusyExact
  BY InitType, InitSlots, InitBusy
<1>2. TypeInv /\ SlotInv /\ BusyExact /\ [PoolNext]_poolVars => (TypeInv /\ SlotInv /\ BusyExact)'
  BY StepType, StepSlots, StepBusy
<1>. QED
  BY <1>1, <1>2, PTL DEF PoolSpec

-----------------------------------------------------------------------------
\* Freeing the pool.

Ended(w) == wpc[w] \in {"none", "exited"}

\* Every task dequeued has returned or is with a worker.
TasksAccounted ==
  \A n \in 1..Len(started) :
    \/ started[n] \in done
    \/ \E w \in Slots : wpc[w] \in {"took", "run"} /\ task[w] = started[n]

FreeInv == /\ opc \in {"broadcast", "join", "freed"} => apc \in {"none", "exited"}
           /\ opc = "join" => \A w \in Slots : w < k => Ended(w)
           /\ opc = "freed" /\ ~scarce => \A w \in Slots : Ended(w)
           /\ TasksAccounted

LEMMA InitFree == PoolInit => FreeInv
BY EmptySeq DEF PoolInit, FreeInv, TasksAccounted

LEMMA StepAccounted ==
  TypeInv /\ SlotInv /\ TasksAccounted /\ [PoolNext]_poolVars => TasksAccounted'
<1> SUFFICES ASSUME TypeInv, SlotInv, TasksAccounted, [PoolNext]_poolVars
             PROVE  TasksAccounted'
  OBVIOUS
<1>0. wpc \in [Slots -> Working \union {"none", "exited"}]
      /\ task \in [Slots -> Tasks \union {0}]
  BY DEF TypeInv, PoolTypeOK
<1>1. ASSUME UNCHANGED <<started, done, task>>,
             \A w \in Slots : wpc[w] \in {"took", "run"}
                               => wpc'[w] \in {"took", "run"}
      PROVE  TasksAccounted'
  BY <1>1 DEF TasksAccounted
<1>2. ASSUME NEW w \in Slots, Worker(w) \/ WakeUnsignalled(w)
      PROVE  TasksAccounted'
  <2>1. CASE DecideToSleep(w) \/ Sleep(w) \/ Exit(w) \/ WakeUnsignalled(w)
    BY <1>0, <1>1, <2>1
    DEF DecideToSleep, Sleep, Exit, WakeUnsignalled, Goto
  <2>2. CASE Take(w)
    <3>1. /\ started \in Seq(Tasks) /\ Head(queue) \in Tasks
          /\ started' = Append(started, Head(queue))
      BY <2>2, HeadTailProperties DEF Take, TypeInv, PoolTypeOK
    <3>2. /\ Len(started) \in Nat /\ Len(started') = Len(started) + 1
          /\ \A n \in 1..Len(started) : started'[n] = started[n]
          /\ started'[Len(started) + 1] = Head(queue)
      BY <3>1, AppendProperties, LenProperties
    <3>3. /\ wpc'[w] = "took" /\ task'[w] = Head(queue) /\ done' = done
          /\ \A v \in Slots : wpc[v] \in {"took", "run"} =>
               wpc'[v] = wpc[v] /\ task'[v] = task[v]
      BY <1>0, <2>2 DEF Take, Goto
    <3>4. ASSUME NEW n \in 1..Len(started')
          PROVE  \/ started'[n] \in done'
                 \/ \E v \in Slots : /\ wpc'[v] \in {"took", "run"}
                                    /\ task'[v] = started'[n]
      <4>1. CASE n = Len(started) + 1
        BY <4>1, <3>2, <3>3
      <4>2. CASE n \in 1..Len(started)
        BY <4>2, <3>2, <3>3 DEF TasksAccounted
      <4>. QED  BY <4>1, <4>2, <3>2
    <3>. QED  BY <3>4 DEF TasksAccounted
  <2>3. CASE Start(w)
    BY <1>0, <1>1, <2>3 DEF Start, Goto
  <2>4. CASE Return(w)
    <3>1. /\ UNCHANGED <<started, task>> /\ done' = done \union {task[w]}
          /\ \A v \in Slots : v # w => wpc'[v] = wpc[v]
      BY <1>0, <2>4 DEF Return, Goto
    <3>. QED  BY <3>1 DEF TasksAccounted
  <2>5. CASE Finish(w)
    <3>1. /\ UNCHANGED <<started, done>>
          /\ \A v \in Slots : wpc[v] \in {"took", "run"} =>
               wpc'[v] = wpc[v] /\ task'[v] = task[v]
      BY <1>0, <2>5 DEF Finish, Goto
    <3>. QED  BY <3>1 DEF TasksAccounted
  <2>. QED  BY <1>2, <2>1, <2>2, <2>3, <2>4, <2>5 DEF Worker
<1>3. CASE Administrator
  <2>1. UNCHANGED <<started, done, task>>
    BY <1>3
    DEF Administrator, AdminLook, AdminDecide, AdminEnter, AdminSkip,
        AdminCreate, AdminCreateFails, AdminLogged, AdminLeave, AdminHead,
        AdminCancelled, AdminUnchanged
  <2>2. CASE AdminCreate
    <3>1. at \notin used /\ \A w \in Slots : w # at => wpc'[w] = wpc[w]
      BY <1>0, <2>2 DEF AdminCreate
    <3>2. at \in Slots => wpc[at] = "none"
      BY <3>1 DEF SlotInv, SlotsOfThreads
    <3>. QED  BY <1>1, <2>1, <3>1, <3>2
  <2>3. CASE UNCHANGED wpc
    BY <1>1, <2>1, <2>3
  <2>. QED
    BY <1>3, <2>2, <2>3
    DEF Administrator, AdminLook, AdminDecide, AdminEnter, AdminSkip,
        AdminCreateFails, AdminLogged, AdminLeave, AdminHead, AdminCancelled
<1>4. CASE Owner
  <2>1. UNCHANGED <<started, done, task>>
    BY <1>4
    DEF Owner, AddTask, AddFull, Destroy, CancelAdmin, JoinAdmin, Broadcast,
        Join, OwnerUnchanged
  <2>2. \A v \in Slots : wpc[v] # "asleep" => wpc'[v] = wpc[v]
    BY <1>0, <1>4
    DEF Owner, AddTask, AddFull, Destroy, CancelAdmin, JoinAdmin, Broadcast,
        Join, Goto, Asleep
  <2>. QED  BY <1>1, <2>1, <2>2
<1>5. CASE UNCHANGED poolVars
  BY <1>1, <1>5 DEF poolVars, wvars
<1>. QED
  BY <1>2, <1>3, <1>4, <1>5 DEF PoolNext

LEMMA StepFree == TypeInv /\ SlotInv /\ FreeInv /\ [PoolNext]_poolVars => FreeInv'
<1> SUFFICES ASSUME TypeInv, SlotInv, FreeInv, [PoolNext]_poolVars PROVE FreeInv'
  OBVIOUS
<1>0. wpc \in [Slots -> Working \union {"none", "exited"}]
      /\ live \in 0..MaxThr /\ k \in 0..MaxThr
  BY DEF TypeInv, PoolTypeOK
<1>1. TasksAccounted' /\ scarce' = scarce
  BY StepAccounted, ScarceFixed DEF FreeInv
<1>2. ASSUME NEW w \in Slots, Worker(w) \/ WakeUnsignalled(w) PROVE FreeInv'
  <2>1. /\ UNCHANGED <<apc, k>>
        /\ \/ opc' = opc
           \/ opc = "full" /\ opc' = "serve"
    BY <1>2
    DEF Worker, DecideToSleep, Sleep, Exit, Take, Start, Return, Finish,
        WakeUnsignalled, avars, ovars
  <2>2. ~Ended(w) /\ \A v \in Slots : v # w => wpc'[v] = wpc[v]
    BY <1>0, <1>2
    DEF Worker, DecideToSleep, Sleep, Exit, Take, Start, Return, Finish,
        WakeUnsignalled, Goto, Ended
  <2>. QED  BY <1>1, <2>1, <2>2 DEF FreeInv, Ended
<1>3. CASE Administrator
  <2>1. /\ opc' = opc /\ k' = k
        /\ apc \notin {"none", "exited"}
    BY <1>3
    DEF Administrator, AdminLook, AdminDecide, AdminEnter, AdminSkip,
        AdminCreate, AdminCreateFails, AdminLogged, AdminLeave, AdminHead,
        AdminCancelled, AdminUnchanged, ovars
  <2>. QED  BY <1>1, <2>1 DEF FreeInv
<1>4. CASE Owner
  <2>1. apc' = apc
    BY <1>4
    DEF Owner, AddTask, AddFull, Destroy, CancelAdmin, JoinAdmin, Broadcast,
        Join, OwnerUnchanged, avars
  <2>2. CASE AddTask \/ AddFull \/ Destroy \/ CancelAdmin \/ JoinAdmin
    BY <1>1, <2>1, <2>2
    DEF AddTask, AddFull, HasTask, Destroy, CancelAdmin, JoinAdmin, FreeInv
  <2>3. CASE Broadcast
    <3>1. opc' = "broadcast" \/ (opc' = "join" /\ k' = 0)
      BY <2>3 DEF Broadcast
    <3>2. opc' = "join" => \A w \in Slots : w < k' => Ended(w)'
      BY <3>1 DEF Slots
    <3>. QED  BY <1>1, <2>1, <2>3, <3>1, <3>2 DEF FreeInv, Broadcast
  <2>4. CASE Join
    <3>1. /\ opc = "join" /\ wpc' = wpc
          /\ \A w \in Slots : w < k => Ended(w)
      BY <2>4 DEF Join, FreeInv
    <3>2. \A w \in Slots : w \notin threads => Ended(w)
      BY DEF SlotInv, SlotsOfThreads, Ended
    <3>3. CASE k < live
      <4>1. /\ opc' = "join" /\ k' = k + 1
            /\ k \in threads => wpc[k] = "exited"
        BY <2>4, <3>1, <3>3, <1>0 DEF Join, LastToJoin
      <4>2. k \in Slots => Ended(k)
        BY <4>1, <3>2 DEF Ended
      <4>3. \A w \in Slots : w < k + 1 => Ended(w)
        BY <3>1, <4>2, <1>0 DEF Slots
      <4>. QED  BY <1>1, <2>1, <3>1, <4>1, <4>3 DEF FreeInv, Ended
    <3>4. CASE k >= live
      <4>1. opc' = "freed"
        BY <2>4, <3>4, <1>0 DEF Join, LastToJoin
      <4>2. ~scarce => \A w \in Slots : w < live \/ w \notin threads
        BY <1>0 DEF SlotInv, SlotsOfThreads, Slots
      <4>3. ~scarce => \A w \in Slots : Ended(w)
        BY <3>1, <3>2, <3>4, <4>2, <1>0 DEF Slots
      <4>. QED  BY <1>1, <2>1, <3>1, <4>1, <4>3 DEF FreeInv, Ended
    <3>. QED  BY <3>3, <3>4, <1>0
  <2>. QED  BY <1>4, <2>2, <2>3, <2>4 DEF Owner
<1>5. CASE UNCHANGED poolVars
  BY <1>1, <1>5 DEF FreeInv, Ended, poolVars, wvars, avars, ovars
<1>. QED
  BY <1>2, <1>3, <1>4, <1>5 DEF PoolNext

(* As long as pthread_create succeeds, threadpool_destroy frees the pool only *)
(* after every worker and the administrator have ended and every task that   *)
(* was dequeued has returned, however many workers were added meanwhile      *)
(* (threadpool.cpp:228-254).                                                 *)
THEOREM FreeIsSafe == PoolSpec => []FreeIsLast
<1>1. FreeInv => FreeIsLast
  BY DEF FreeInv, FreeIsLast, NoThreadAfterFree, TasksAccounted, Ended
<1>. QED
  BY InitType, StepType, InitSlots, StepSlots, InitFree, StepFree, <1>1, PTL
  DEF PoolSpec
=============================================================================
