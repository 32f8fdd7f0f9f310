----------------------------- MODULE ThreadPool -----------------------------
(***************************************************************************)
(* threadpool.cpp: a pool of worker threads with a bounded task queue, an  *)
(* administrator thread that adds workers, and the server thread that owns *)
(* the pool: the only one that adds tasks, and the one that destroys it.   *)
(*                                                                         *)
(* Slot i of the pool is thrdpara[i] with threads[i].  The step between    *)
(* testing a predicate and sleeping in pthread_cond_wait is explicit,      *)
(* because threadpool_destroy sets shutdown and broadcasts without taking  *)
(* the lock.  Shrinking is compiled out (#if 0), so wait_exit_thr_num is   *)
(* always 0 and workers end only on shutdown.  The ring task_queue is the  *)
(* sequence of the tasks in it.                                            *)
(*                                                                         *)
(* The tasks are those of run() in tcp_socket.cpp: a session is a writer   *)
(* (an odd number) and the reader that follows it, and they need each      *)
(* other, so that a session with one worker only never ends.               *)
(***************************************************************************)
EXTENDS Integers, Sequences, FiniteSets

CONSTANTS MinThr, MaxThr,   \* min_thr_num, max_thr_num
          QueueMax,         \* queue_max_size
          SpareThr,         \* DEFAULT_DELETE_THREAD_NUM, the reserve of idle
                            \* workers the administrator aims at
          CreateMax,        \* DEFAULT_CREATE_THREAD_NUM, per round
          Lines,            \* sgg_multi_lines: sessions at a time
          NTasks,           \* bound: tasks the owner adds, two per session
          CreateMayFail     \* consider pthread_create failing as well

ASSUME PoolAssumption ==
  /\ MinThr \in Nat \ {0}
  /\ MaxThr \in Nat /\ MinThr <= MaxThr
  /\ QueueMax \in Nat \ {0}
  /\ SpareThr \in Nat /\ CreateMax \in Nat \ {0}
  /\ Lines \in Nat \ {0} /\ NTasks \in Nat
  /\ CreateMayFail \in BOOLEAN

Slots == 0..(MaxThr - 1)
Tasks == 1..NTasks
Admin == -1         \* as holder of the lock
Nobody == -2

VARIABLES scarce,    \* pthread_create may fail; it does not change
          used,      \* slots whose thrdpara[i].index >= 0
          threads,   \* slots whose threads[i] # 0
          live, busy,
          queue,     \* task_queue, front first
          shutdown,
          lock,      \* holder of pool->lock between two steps
          wpc,       \* per slot: where the worker is
          task,      \* per slot: the task it took last, 0 for none
          apc,       \* where the administrator is
          seen,      \* its queue_size, live_thr_num and busy_thr_num
          at, add,   \* its loop variable i and its add
          cancelled, \* pthread_cancel was called on it
          opc,       \* where the owner is
          added,     \* tasks the owner has added
          k,         \* the i of the loops of threadpool_destroy
          started,   \* tasks in the order they were dequeued
          done       \* tasks that returned

wvars == <<wpc, task, started, done>>
avars == <<scarce, apc, seen, at, add>>
ovars == <<opc, added, k, cancelled>>
pool == <<used, threads, live, busy, queue, shutdown, lock>>
poolVars == <<pool, wvars, avars, ovars>>

Working == {"check", "toSleep", "asleep", "took", "run", "ran"}

\* threadpool_create: a failed pthread_create is only logged
PoolInit ==
  /\ scarce \in (IF CreateMayFail THEN BOOLEAN ELSE {FALSE})
  /\ used = 0..(MinThr - 1)
  /\ threads \in (IF scarce THEN SUBSET used ELSE {used})
  /\ live = MinThr
  /\ busy = 0
  /\ queue = <<>>
  /\ shutdown = FALSE
  /\ lock = Nobody
  /\ wpc = [i \in Slots |-> IF i \in threads THEN "check" ELSE "none"]
  /\ task = [i \in Slots |-> 0]
  /\ apc \in (IF scarce THEN {"head", "none"} ELSE {"head"})
  /\ seen = [queue |-> 0, live |-> 0, busy |-> 0]
  /\ at = 0
  /\ add = 0
  /\ cancelled = FALSE
  /\ opc = "serve"
  /\ added = 0
  /\ k = 0
  /\ started = <<>>
  /\ done = {}

-----------------------------------------------------------------------------
\* A worker (threadpool_thread).

Asleep == {w \in Slots : wpc[w] = "asleep"}
Goto(w, where) == wpc' = [wpc EXCEPT ![w] = where]

\* the predicate holds: the worker will wait, with the lock still its own
DecideToSleep(w) == /\ wpc[w] = "check"
                    /\ lock = Nobody
                    /\ queue = <<>> /\ ~shutdown
                    /\ lock' = w
                    /\ Goto(w, "toSleep")
                    /\ UNCHANGED <<used, threads, live, busy, queue, shutdown,
                                   task, started, done, avars, ovars>>

\* pthread_cond_wait on queue_not_empty
Sleep(w) == /\ wpc[w] = "toSleep"
            /\ lock' = Nobody
            /\ Goto(w, "asleep")
            /\ UNCHANGED <<used, threads, live, busy, queue, shutdown, task,
                           started, done, avars, ovars>>

Exit(w) == /\ wpc[w] = "check"
           /\ lock = Nobody
           /\ shutdown
           /\ Goto(w, "exited")
           /\ UNCHANGED <<pool, task, started, done, avars, ovars>>

\* Faulty variant: the owner waiting for room is not told.
TakeSilently(w) == /\ wpc[w] = "check"
                   /\ lock = Nobody
                   /\ queue # <<>> /\ ~shutdown
                   /\ task' = [task EXCEPT ![w] = Head(queue)]
                   /\ started' = Append(started, Head(queue))
                   /\ queue' = Tail(queue)
                   /\ Goto(w, "took")
                   /\ UNCHANGED <<used, threads, live, busy, shutdown, lock,
                                  done, avars, ovars>>

\* Faulty variant: the task stays at the front of the queue.
TakeTwice(w) == /\ wpc[w] = "check"
                /\ lock = Nobody
                /\ queue # <<>> /\ ~shutdown
                /\ task' = [task EXCEPT ![w] = Head(queue)]
                /\ started' = Append(started, Head(queue))
                /\ opc' = IF opc = "full" THEN "serve" ELSE opc
                /\ Goto(w, "took")
                /\ UNCHANGED <<used, threads, live, busy, queue, shutdown,
                               lock, done, avars, added, k, cancelled>>

\* dequeue, broadcast queue_not_full
Take(w) == /\ wpc[w] = "check"
           /\ lock = Nobody
           /\ queue # <<>> /\ ~shutdown
           /\ task' = [task EXCEPT ![w] = Head(queue)]
           /\ started' = Append(started, Head(queue))
           /\ queue' = Tail(queue)
           /\ opc' = IF opc = "full" THEN "serve" ELSE opc
           /\ Goto(w, "took")
           /\ UNCHANGED <<used, threads, live, busy, shutdown, lock, done,
                          avars, added, k, cancelled>>

Start(w) == /\ wpc[w] = "took"
            /\ busy' = busy + 1
            /\ Goto(w, "run")
            /\ UNCHANGED <<used, threads, live, queue, shutdown, lock, task,
                           started, done, avars, ovars>>

\* A writer fills its rings until its reader empties them; a reader leaves
\* after its writer (exitFlag).
MayReturn(t) ==
  IF t % 2 = 1 THEN shutdown \/ \E i \in 1..Len(started) : started[i] = t + 1
               ELSE t - 1 \in done

\* the task function returns
Return(w) == /\ wpc[w] = "run"
             /\ MayReturn(task[w])
             /\ done' = done \union {task[w]}
             /\ Goto(w, "ran")
             /\ UNCHANGED <<pool, task, started, avars, ovars>>

\* Faulty variant: the counter is not brought back.
FinishUncounted(w) == /\ wpc[w] = "ran"
                      /\ task' = [task EXCEPT ![w] = 0]
                      /\ Goto(w, "check")
                      /\ UNCHANGED <<pool, started, done, avars, ovars>>

Finish(w) == /\ wpc[w] = "ran"
             /\ busy' = busy - 1
             /\ task' = [task EXCEPT ![w] = 0]
             /\ Goto(w, "check")
             /\ UNCHANGED <<used, threads, live, queue, shutdown, lock,
                            started, done, avars, ovars>>

\* pthread_cond_wait may return unsignalled; the loop tests again
WakeUnsignalled(w) == /\ wpc[w] = "asleep"
                      /\ Goto(w, "check")
                      /\ UNCHANGED <<pool, task, started, done, avars, ovars>>

Worker(w) == \/ DecideToSleep(w) \/ Sleep(w) \/ Exit(w)
             \/ Take(w) \/ Start(w) \/ Return(w) \/ Finish(w)

-----------------------------------------------------------------------------
\* The administrator (admin_thread).

AdminUnchanged == UNCHANGED <<scarce, busy, queue, shutdown, task, started,
                              done, ovars>>

\* sleep(1) is over: look at queue_size and live_thr_num under the lock
AdminLook == /\ apc = "sleep"
             /\ lock = Nobody
             /\ seen' = [seen EXCEPT !.queue = Len(queue), !.live = live]
             /\ apc' = "looked"
             /\ UNCHANGED <<used, threads, live, lock, wpc, at, add>>
             /\ AdminUnchanged

\* busy_thr_num, under a lock of its own, and the decision to add workers
AdminDecide ==
  /\ apc = "looked"
  /\ seen' = [seen EXCEPT !.busy = busy]
  /\ apc' = IF /\ seen.queue >= 1 \/ busy + SpareThr > seen.live
               /\ seen.live <= MaxThr
              THEN "enter" ELSE "head"
  /\ UNCHANGED <<used, threads, live, lock, wpc, at, add>>
  /\ AdminUnchanged

AdminEnter == /\ apc = "enter"
              /\ lock = Nobody
              /\ lock' = Admin
              /\ at' = MinThr
              /\ add' = 0
              /\ apc' = "grow"
              /\ UNCHANGED <<used, threads, live, wpc, seen>>
              /\ AdminUnchanged

\* Faulty variant: the last slot is off by one, live_thr_num is not looked at.
MoreToCreateLoose == at <= MaxThr /\ add < CreateMax
MoreToCreate == at < MaxThr /\ add < CreateMax /\ live < MaxThr

AdminSkip == /\ apc = "grow"
             /\ MoreToCreate
             /\ at \in used
             /\ at' = at + 1
             /\ UNCHANGED <<used, threads, live, lock, wpc, apc, seen, add>>
             /\ AdminUnchanged

AdminCreate == /\ apc = "grow"
               /\ MoreToCreate
               /\ at \notin used
               /\ used' = used \union {at}
               /\ threads' = threads \union {at}
               /\ live' = live + 1
               /\ wpc' = [wpc EXCEPT ![at] = "check"]
               /\ at' = at + 1
               /\ add' = add + 1
               /\ UNCHANGED <<lock, apc, seen>>
               /\ AdminUnchanged

\* Faulty variant: threads[i] keeps what pthread_create left in it.
AdminCreateFailsStale == /\ scarce
                         /\ apc = "grow"
                         /\ MoreToCreate
                         /\ at \notin used
                         /\ used' = used \union {at}
                         /\ threads' = threads \union {at}
                         /\ apc' = "log"
                         /\ add' = add + 1
                         /\ UNCHANGED <<live, lock, wpc, seen, at>>
                         /\ AdminUnchanged

\* pthread_create fails: logged while the lock is held, and the slot stays used
AdminCreateFails == /\ scarce
                    /\ apc = "grow"
                    /\ MoreToCreate
                    /\ at \notin used
                    /\ used' = used \union {at}
                    /\ apc' = "log"
                    /\ add' = add + 1
                    /\ UNCHANGED <<threads, live, lock, wpc, seen, at>>
                    /\ AdminUnchanged

AdminLogged == /\ apc = "log"
               /\ at' = at + 1
               /\ apc' = "grow"
               /\ UNCHANGED <<used, threads, live, lock, wpc, seen, add>>
               /\ AdminUnchanged

AdminLeave == /\ apc = "grow"
              /\ ~MoreToCreate
              /\ lock' = Nobody
              /\ apc' = "head"
              /\ UNCHANGED <<used, threads, live, wpc, seen, at, add>>
              /\ AdminUnchanged

\* while (!pool->shutdown)
AdminHead == /\ apc = "head"
             /\ apc' = IF shutdown THEN "exited" ELSE "sleep"
             /\ UNCHANGED <<used, threads, live, lock, wpc, seen, at, add>>
             /\ AdminUnchanged

\* the cancellation points: sleep, and writing the log
AdminCancelled == /\ cancelled
                  /\ apc \in {"sleep", "log"}
                  /\ apc' = "exited"
                  /\ UNCHANGED <<used, threads, live, lock, wpc, seen, at, add>>
                  /\ AdminUnchanged

Administrator == \/ AdminLook \/ AdminDecide \/ AdminEnter \/ AdminSkip
                 \/ AdminCreate \/ AdminCreateFails \/ AdminLogged
                 \/ AdminLeave \/ AdminHead \/ AdminCancelled

-----------------------------------------------------------------------------
\* The owner: run() of the server, threadpool_add_task, threadpool_destroy.

OwnerUnchanged == UNCHANGED <<used, threads, live, busy, task, started, done,
                              avars>>

\* sessions whose reader has not cleared usedflag
Sessions == {n \in 1..NTasks : n % 2 = 0 /\ n - 1 <= added /\ n \notin done}

\* the next task is the reader of the last writer, or a slot is free
HasTask == /\ opc = "serve"
           /\ added < NTasks
           /\ added % 2 = 1 \/ Cardinality(Sessions) < Lines

\* append, signal queue_not_empty: one sleeping worker wakes
AddTask == /\ HasTask
           /\ lock = Nobody
           /\ Len(queue) < QueueMax
           /\ queue' = Append(queue, added + 1)
           /\ added' = added + 1
           /\ \/ \E w \in Asleep : Goto(w, "check")
              \/ Asleep = {} /\ UNCHANGED wpc
           /\ UNCHANGED <<shutdown, lock, opc, k, cancelled>>
           /\ OwnerUnchanged

\* no room: pthread_cond_wait on queue_not_full
AddFull == /\ HasTask
           /\ lock = Nobody
           /\ Len(queue) = QueueMax
           /\ opc' = "full"
           /\ UNCHANGED <<queue, wpc, shutdown, lock, added, k, cancelled>>
           /\ OwnerUnchanged

\* between two sessions, without the lock
Destroy == /\ opc = "serve"
           /\ added % 2 = 0
           /\ shutdown' = TRUE
           /\ opc' = IF apc = "none" THEN "broadcast" ELSE "cancel"
           /\ UNCHANGED <<queue, wpc, lock, added, k, cancelled>>
           /\ OwnerUnchanged

CancelAdmin == /\ opc = "cancel"
               /\ cancelled' = TRUE
               /\ opc' = "joinAdmin"
               /\ UNCHANGED <<queue, wpc, shutdown, lock, added, k>>
               /\ OwnerUnchanged

JoinAdmin == /\ opc = "joinAdmin"
             /\ apc = "exited"
             /\ opc' = "broadcast"
             /\ UNCHANGED <<queue, wpc, shutdown, lock, added, k, cancelled>>
             /\ OwnerUnchanged

\* one broadcast per worker, without the lock
Broadcast == /\ opc = "broadcast"
             /\ \/ /\ k < live
                   /\ wpc' = [w \in Slots |-> IF wpc[w] = "asleep" THEN "check"
                                                                 ELSE wpc[w]]
                   /\ k' = k + 1
                   /\ UNCHANGED opc
                \/ /\ k >= live
                   /\ k' = 0
                   /\ opc' = "join"
                   /\ UNCHANGED wpc
             /\ UNCHANGED <<queue, shutdown, lock, added, cancelled>>
             /\ OwnerUnchanged

\* Faulty variant: the workers the administrator added are not waited for.
LastToJoinMin == MinThr
LastToJoin == live

Join == /\ opc = "join"
        /\ \/ /\ k < LastToJoin
              /\ k \in threads => wpc[k] = "exited"
              /\ k' = k + 1
              /\ UNCHANGED opc
           \/ /\ k >= LastToJoin
              /\ opc' = "freed"
              /\ UNCHANGED k
        /\ UNCHANGED <<queue, wpc, shutdown, lock, added, cancelled>>
        /\ OwnerUnchanged

Owner == \/ AddTask \/ AddFull
         \/ Destroy \/ CancelAdmin \/ JoinAdmin \/ Broadcast \/ Join

PoolNext ==
  \/ \E w \in Slots : Worker(w) \/ WakeUnsignalled(w)
  \/ Administrator
  \/ Owner

PoolSpec == PoolInit /\ [][PoolNext]_poolVars

\* Threads run, and a thread that finds the lock free again and again gets
\* it; nothing makes the owner destroy the pool, but once begun it goes on.
PoolFairSpec ==
  /\ PoolSpec
  /\ \A w \in Slots : SF_poolVars(Worker(w))
  /\ SF_poolVars(Administrator)
  /\ SF_poolVars(AddTask)
  /\ WF_poolVars(CancelAdmin \/ JoinAdmin \/ Broadcast \/ Join)

-----------------------------------------------------------------------------
\* Properties.

\* Types of the variables; the counters stay within the sizes given to
\* threadpool_create, so no loop indexes past thrdpara or threads.
PoolTypeOK ==
  /\ scarce \in BOOLEAN
  /\ used \subseteq Slots
  /\ threads \subseteq Slots
  /\ live \in 0..MaxThr
  /\ busy \in Int
  /\ queue \in Seq(Tasks)
  /\ Len(queue) <= QueueMax
  /\ shutdown \in BOOLEAN
  /\ lock \in Slots \union {Admin, Nobody}
  /\ wpc \in [Slots -> Working \union {"none", "exited"}]
  /\ task \in [Slots -> Tasks \union {0}]
  /\ apc \in {"sleep", "looked", "enter", "grow", "log", "head",
              "none", "exited"}
  /\ seen \in [queue : Nat, live : Nat, busy : Int]
  /\ at \in 0..MaxThr
  /\ add \in 0..CreateMax
  /\ cancelled \in BOOLEAN
  /\ opc \in {"serve", "full", "cancel", "joinAdmin", "broadcast",
              "join", "freed"}
  /\ added \in 0..NTasks
  /\ k \in 0..MaxThr
  /\ started \in Seq(Tasks)
  /\ done \subseteq Tasks

\* Tasks are dequeued in the order they were added, each once, and none is
\* lost while the pool lives, however many workers take them.
EachTaskOnce == started \o queue = [n \in 1..added |-> n]

\* A slot with a running thread is marked used, so the administrator never
\* starts a second thread on it; the first live_thr_num slots are the ones
\* with a thread; two threads never hold the lock.
SlotsOfThreads ==
  /\ \A w \in Slots : wpc[w] # "none" <=> w \in threads
  /\ threads \subseteq used
  /\ ~scarce => threads = 0..(live - 1) /\ used = threads
  /\ \A w \in Slots : wpc[w] = "toSleep" <=> lock = w

\* busy_thr_num is the number of workers inside a task: no increment is lost
\* and the administrator decides on a number that was true.
BusyExact == busy = Cardinality({w \in Slots : wpc[w] \in {"run", "ran"}})

\* "等待线程结束 先是pthread_exit 然后等待其结束" (threadpool.cpp:243): the
\* pool is freed only after every thread that uses it has ended, and every
\* task taken from the queue has returned.
NoThreadAfterFree ==
  opc = "freed" => /\ \A w \in Slots : wpc[w] \in {"none", "exited"}
                   /\ apc \in {"none", "exited"}
                   /\ \A n \in 1..Len(started) : started[n] \in done

\* That promise (threadpool.cpp:243) is kept as long as every thread could be
\* created: then live_thr_num counts the slots the join loop has to visit.
FreeIsLast == ~scarce => NoThreadAfterFree

\* Every session comes about and ends unless the pool is destroyed: with
\* workers for all sessions (tcp_socket.cpp:848) no task waits for a task
\* that never gets a worker, and no wakeup between the owner, the workers
\* and the administrator is lost, as long as threads can be created.
EveryTaskReturns == \A n \in Tasks : <>(n \in done \/ shutdown \/ scarce)

\* "通知所有线程去自杀" (threadpool.cpp:237): all workers are told to end, so
\* threadpool_destroy returns.
DestroyReturns == shutdown ~> (opc = "freed")
=============================================================================
