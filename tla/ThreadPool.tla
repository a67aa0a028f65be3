----------------------------- MODULE ThreadPool -----------------------------
(***************************************************************************)
(* The thread pool of util_thread: ThreadPool.cpp, ThreadPoolThread.cpp    *)
(* and, of BaseThread.cpp, WaitCondition, start, stop and join.  One action *)
(* is one critical section, or one step between two.                       *)
(*                                                                         *)
(* The actors are the pool's own thread (pool), its workers and the        *)
(* threads of forced tasks (pc), a client that hands tasks over, and the   *)
(* user's thread that logs in, logs out and deletes the pool the way       *)
(* User::doLogIn, cleanUp and destroy do (phase).  A forced task is the    *)
(* only task of its thread and stands for it.  Nobody pauses the pool.     *)
(***************************************************************************)
EXTENDS Naturals, Sequences, FiniteSets, Functions

CONSTANTS
  NumWorkers,   \* m_uiCount
  Queueable,    \* tasks for queueTask
  Forcible,     \* tasks for forceTask
  Queuers,      \* tasks whose doTask queues another one (GatherInfoTask,
                \* MigrateStandaloneTask: ItemInfo::setIconUrl)
  Tools,        \* the DownloadToolTasks of ToolManager, all of them forced
  MaxLogins,    \* bound on log-ins
  MaxTasks,     \* bound on the tasks handed over
  Client,
  None

Workers == 1..NumWorkers
Threads == Workers \union Forcible
Tasks == Queueable \union Forcible
Actors == Threads \union {Client}

ASSUME ThreadPoolAssumption ==
  /\ NumWorkers \in Nat \ {0}
  /\ Queueable \intersect Forcible = {}
  /\ Tools \subseteq Forcible
  /\ Workers \intersect Forcible = {}
  /\ Client \notin Threads
  /\ None \notin Tasks \union Threads
  /\ MaxLogins \in Nat
  /\ MaxTasks \in Nat

VARIABLES
  taskList,     \* m_vTaskList
  isBlocked,    \* m_bIsTaskBlocked
  made,         \* workers in m_vThreadList
  forcedList,   \* m_vForcedList
  pool,         \* where ThreadPool::run is
  note,         \* m_WaitCondition of the pool has been notified
  poolStop,     \* m_bStop of the pool
  pc,           \* where a thread, or the client, is
  noted,        \* m_WaitCondition of a worker has been notified
  stop,         \* m_bStop of a thread
  task,         \* `task', the local variable of doTask
  mTask,        \* m_pTask
  pushing,      \* the task an actor is about to add
  phase,        \* what the user's thread is doing
  sub,          \* ... with the thread it is stopping,
  cur,          \* which is this one,
  todo,         \* and the threads it has yet to reach
  quit,         \* is it User::destroy, or only a log-out
  logins,
  offered,      \* history: tasks somebody handed over,
  over,         \* tasks that were run, refused or purged,
  told          \* and tasks whose onStop was called

listVars == <<taskList, isBlocked, offered, over>>
poolVars == <<made, pool, note, poolStop>>
threadVars == <<pc, noted, stop, task, mTask, pushing>>
userVars == <<phase, sub, cur, todo, quit, logins, told>>
vars == <<listVars, forcedList, poolVars, threadVars, userVars>>

PoolPlaces == {"create", "launch", "loop", "sweep", "start", "recount", "look", "again",
               "wait", "end"}
Places == {"off", "idle", "loop", "get", "wait", "hold", "run", "push", "notify", "force",
           "ran", "done", "fin", "end"}
Phases == {"out", "in", "purge", "purgeForced", "drain", "block", "stop", "stopWorkers",
           "stopForced", "joinPool", "clear", "endWorkers", "endForced", "gone"}

TypeOK ==
  /\ taskList \in Seq(Queueable)
  /\ isBlocked \in BOOLEAN
  /\ made \in 0..NumWorkers
  /\ forcedList \in SUBSET Forcible
  /\ pool \in PoolPlaces
  /\ note \in BOOLEAN
  /\ poolStop \in BOOLEAN
  /\ pc \in [Actors -> Places]
  /\ noted \in [Workers -> BOOLEAN]
  /\ stop \in [Threads -> BOOLEAN]
  /\ task \in [Threads -> Tasks \union {None}]
  /\ mTask \in [Threads -> Tasks \union {None}]
  /\ pushing \in [Actors -> Tasks \union {None}]
  /\ phase \in Phases
  /\ sub \in {"pick", "ask", "join"}
  /\ cur \in Threads \union {None}
  /\ todo \in SUBSET Threads
  /\ quit \in BOOLEAN
  /\ logins \in 0..MaxLogins
  /\ offered \in SUBSET Tasks
  /\ over \in SUBSET Tasks
  /\ told \in SUBSET Tasks

\* User::init creates the pool and blocks it.
Init ==
  /\ taskList = <<>>
  /\ isBlocked = TRUE
  /\ made = 0
  /\ forcedList = {}
  /\ pool = "create"
  /\ note = FALSE
  /\ poolStop = FALSE
  /\ pc = [a \in Actors |-> IF a = Client THEN "idle" ELSE "off"]
  /\ noted = [w \in Workers |-> FALSE]
  /\ stop = [t \in Threads |-> FALSE]
  /\ task = [t \in Threads |-> None]
  /\ mTask = [t \in Threads |-> None]
  /\ pushing = [a \in Actors |-> None]
  /\ phase = "out"
  /\ sub = "pick"
  /\ cur = None
  /\ todo = {}
  /\ quit = FALSE
  /\ logins = 0
  /\ offered = {}
  /\ over = {}
  /\ told = {}

Goto(a, place) == pc' = [pc EXCEPT ![a] = place]
Listed == 1..made
HasTask == {w \in Listed : mTask[w] # None}

\* The mutexes the user's thread holds over several steps; everybody else's
\* critical sections are single actions.
TaskMutexFree == phase \notin {"purge", "purgeForced"}
ThreadMutexFree == phase \notin {"purge", "stopWorkers", "endWorkers"}
ForcedMutexFree == phase \notin {"purgeForced", "stopForced", "endForced"}
----------------------------------------------------------------------------
\* A slip: x <= m_uiCount.
CreateOneMore ==
  /\ pool = "create"
  /\ IF made <= NumWorkers
     THEN made' = made + 1 /\ pool' = "launch"
     ELSE pool' = "loop" /\ UNCHANGED made
  /\ UNCHANGED <<listVars, forcedList, note, poolStop, threadVars, userVars>>

\* ThreadPool::run.  The workers are created without m_ThreadMutex; a caller
\* of the pool may come first and meets those in the list so far.
CreateWorker ==
  /\ pool = "create"
  /\ IF made < NumWorkers
     THEN made' = made + 1 /\ pool' = "launch"
     ELSE pool' = "loop" /\ UNCHANGED made
  /\ UNCHANGED <<listVars, forcedList, note, poolStop, threadVars, userVars>>

LaunchWorker ==
  /\ pool = "launch"
  /\ Goto(made, "loop")
  /\ pool' = "create"
  /\ UNCHANGED <<listVars, forcedList, made, note, poolStop, noted, stop, task, mTask,
                 pushing, userVars>>

PoolLoop ==
  /\ pool = "loop"
  /\ pool' = IF poolStop THEN "end" ELSE "sweep"
  /\ UNCHANGED <<listVars, forcedList, made, note, poolStop, threadVars, userVars>>

\* removedForced: m_bCompTask is the last thing a forced thread sets.
RemovedForced ==
  /\ pool = "sweep"
  /\ ForcedMutexFree
  /\ forcedList' = {t \in forcedList : pc[t] # "end"}
  /\ pool' = "start"
  /\ UNCHANGED <<listVars, made, note, poolStop, threadVars, userVars>>

\* A slip: the threads with a task are notified.
StartBusyThreads ==
  /\ pool = "start"
  /\ ThreadMutexFree
  /\ noted' = [w \in Workers |-> noted[w] \/ w \in HasTask]
  /\ pool' = "recount"
  /\ UNCHANGED <<listVars, forcedList, made, note, poolStop, pc, stop, task, mTask,
                 pushing, userVars>>

\* The first activeThreads and startNewTasks
StartNewTasks ==
  /\ pool = "start"
  /\ ThreadMutexFree
  /\ noted' = [w \in Workers |-> noted[w] \/ w \in Listed \ HasTask]
  /\ pool' = "recount"
  /\ UNCHANGED <<listVars, forcedList, made, note, poolStop, pc, stop, task, mTask,
                 pushing, userVars>>

\* The second activeThreads, and the read of the list's size after it, share no
\* lock.
Recount ==
  /\ pool = "recount"
  /\ ThreadMutexFree
  /\ pool' = IF Cardinality(HasTask) = NumWorkers THEN "again" ELSE "look"
  /\ UNCHANGED <<listVars, forcedList, made, note, poolStop, threadVars, userVars>>

LookAtList ==
  /\ pool = "look"
  /\ pool' = IF taskList = <<>> THEN "again" ELSE "loop"
  /\ UNCHANGED <<listVars, forcedList, made, note, poolStop, threadVars, userVars>>

\* Nothing to start: the pool waits, if it is not stopped.
SleepOrNot ==
  /\ pool = "again"
  /\ pool' = IF poolStop THEN "loop" ELSE "wait"
  /\ UNCHANGED <<listVars, forcedList, made, note, poolStop, threadVars, userVars>>

\* WaitCondition::wait returns once it has seen a notification, and resets it.
PoolWakes ==
  /\ pool = "wait"
  /\ note
  /\ note' = FALSE
  /\ pool' = "loop"
  /\ UNCHANGED <<listVars, forcedList, made, poolStop, threadVars, userVars>>

Pool ==
  \/ CreateWorker \/ LaunchWorker \/ PoolLoop \/ RemovedForced
  \/ StartNewTasks \/ Recount \/ LookAtList \/ SleepOrNot \/ PoolWakes
----------------------------------------------------------------------------
\* ThreadPoolThread::run of a worker
WorkerLoop(w) ==
  /\ pc[w] = "loop"
  /\ Goto(w, IF stop[w] THEN "end" ELSE "get")
  /\ UNCHANGED <<listVars, forcedList, poolVars, noted, stop, task, mTask, pushing, userVars>>

\* A slip: the task stays in the list.
GetTaskKeeps(w) ==
  /\ pc[w] = "get"
  /\ TaskMutexFree
  /\ IF taskList = <<>>
     THEN Goto(w, "idle") /\ UNCHANGED task
     ELSE Goto(w, "hold") /\ task' = [task EXCEPT ![w] = Head(taskList)]
  /\ UNCHANGED <<listVars, forcedList, poolVars, noted, stop, mTask, pushing, userVars>>

\* ThreadPool::getTask
GetTask(w) ==
  /\ pc[w] = "get"
  /\ TaskMutexFree
  /\ IF taskList = <<>>
     THEN Goto(w, "idle") /\ UNCHANGED <<task, taskList>>
     ELSE /\ Goto(w, "hold")
          /\ task' = [task EXCEPT ![w] = Head(taskList)]
          /\ taskList' = Tail(taskList)
  /\ UNCHANGED <<isBlocked, offered, over, forcedList, poolVars, noted, stop, mTask,
                 pushing, userVars>>

NoTask(w) ==
  /\ pc[w] = "idle"
  /\ Goto(w, IF stop[w] THEN "loop" ELSE "wait")
  /\ UNCHANGED <<listVars, forcedList, poolVars, noted, stop, task, mTask, pushing, userVars>>

WorkerWakes(w) ==
  /\ pc[w] = "wait"
  /\ noted[w]
  /\ noted' = [noted EXCEPT ![w] = FALSE]
  /\ Goto(w, "loop")
  /\ UNCHANGED <<listVars, forcedList, poolVars, stop, task, mTask, pushing, userVars>>

\* doTask, of a worker or of a forced thread: the task becomes m_pTask only
\* after it was taken.
Register(t) ==
  /\ pc[t] = "hold"
  /\ mTask' = [mTask EXCEPT ![t] = task[t]]
  /\ Goto(t, "run")
  /\ UNCHANGED <<listVars, forcedList, poolVars, noted, stop, task, pushing, userVars>>

\* task->doTask() queues another task: the check of m_bIsTaskBlocked, ...
TaskQueues(t, new) ==
  /\ pc[t] = "run"
  /\ task[t] \in Queuers
  /\ offered' = offered \union {new}
  /\ IF isBlocked
     THEN over' = over \union {new} /\ UNCHANGED <<pc, pushing>>
     ELSE /\ Goto(t, "push")
          /\ pushing' = [pushing EXCEPT ![t] = new]
          /\ UNCHANGED over
  /\ UNCHANGED <<taskList, isBlocked, forcedList, poolVars, noted, stop, task, mTask,
                 userVars>>

\* ... the list, ...
PushTask(a) ==
  /\ pc[a] = "push"
  /\ TaskMutexFree
  /\ taskList' = Append(taskList, pushing[a])
  /\ pushing' = [pushing EXCEPT ![a] = None]
  /\ Goto(a, "notify")
  /\ UNCHANGED <<isBlocked, offered, over, forcedList, poolVars, noted, stop, task, mTask,
                 userVars>>

\* A slip: only a pool that sleeps is notified.
NotifySleeper(a) ==
  /\ pc[a] = "notify"
  /\ note' = (note \/ pool = "wait")
  /\ Goto(a, IF a = Client THEN "idle" ELSE "run")
  /\ UNCHANGED <<listVars, forcedList, made, pool, poolStop, noted, stop, task, mTask,
                 pushing, userVars>>

\* ... and the pool.
NotifyPool(a) ==
  /\ pc[a] = "notify"
  /\ note' = TRUE
  /\ Goto(a, IF a = Client THEN "idle" ELSE "run")
  /\ UNCHANGED <<listVars, forcedList, made, pool, poolStop, noted, stop, task, mTask,
                 pushing, userVars>>

\* ToolManager::startDownload calls forceTask with m_DownloadLock held, ...
DownloadLocked == pc[Client] = "force" /\ pushing[Client] \in Tools

\* ... which the end of a tool's download takes (eraseDownload).
MayEnd(t) == task[t] \in Tools => ~DownloadLocked

\* task->doTask() returns.
DoTaskEnds(t) ==
  /\ pc[t] = "run"
  /\ MayEnd(t)
  /\ over' = over \union {task[t]}
  /\ Goto(t, "ran")
  /\ UNCHANGED <<taskList, isBlocked, offered, forcedList, poolVars, noted, stop, task,
                 mTask, pushing, userVars>>

Unregister(t) ==
  /\ pc[t] = "ran"
  /\ mTask' = [mTask EXCEPT ![t] = None]
  /\ Goto(t, "done")
  /\ UNCHANGED <<listVars, forcedList, poolVars, noted, stop, task, pushing, userVars>>

\* onCompleteEvent and ThreadPool::onThreadComplete
Complete(t) ==
  /\ pc[t] = "done"
  /\ note' = (note \/ ~poolStop)
  /\ task' = [task EXCEPT ![t] = None]
  /\ Goto(t, IF t \in Workers THEN "loop" ELSE "fin")
  /\ UNCHANGED <<listVars, forcedList, made, pool, poolStop, noted, stop, mTask, pushing,
                 userVars>>

\* m_bCompTask, the end of a forced thread
ForcedEnds(t) ==
  /\ pc[t] = "fin"
  /\ Goto(t, "end")
  /\ UNCHANGED <<listVars, forcedList, poolVars, noted, stop, task, mTask, pushing, userVars>>

\* Every task is an object of its own, handed over once.
New(S) == {t \in S \ offered : Cardinality(offered) < MaxTasks}

Worker(w) == WorkerLoop(w) \/ GetTask(w) \/ NoTask(w) \/ WorkerWakes(w)

DoTask(t) ==
  \/ Register(t) \/ PushTask(t) \/ NotifyPool(t) \/ DoTaskEnds(t) \/ Unregister(t)
  \/ Complete(t) \/ ForcedEnds(t)
  \/ \E new \in New(Queueable) : TaskQueues(t, new)
----------------------------------------------------------------------------
\* The clients of the pool have ended before it is deleted (User::cleanUp).
Serving == phase \in {"out", "in", "purge", "purgeForced", "drain", "block"}

\* queueTask reads m_bIsTaskBlocked before it takes the mutex.
QueueTask(t) ==
  /\ Serving
  /\ pc[Client] = "idle"
  /\ offered' = offered \union {t}
  /\ IF isBlocked
     THEN over' = over \union {t} /\ UNCHANGED <<pc, pushing>>
     ELSE /\ Goto(Client, "push")
          /\ pushing' = [pushing EXCEPT ![Client] = t]
          /\ UNCHANGED over
  /\ UNCHANGED <<taskList, isBlocked, forcedList, poolVars, noted, stop, task, mTask,
                 userVars>>

\* The caller of forceTask creates the task, ...
CreateForced(t) ==
  /\ Serving
  /\ pc[Client] = "idle"
  /\ offered' = offered \union {t}
  /\ pushing' = [pushing EXCEPT ![Client] = t]
  /\ Goto(Client, "force")
  /\ UNCHANGED <<taskList, isBlocked, over, forcedList, poolVars, noted, stop, task, mTask,
                 userVars>>

\* ... and forceTask, blocked or not, a thread whose task source it is.
ForceTask(t) ==
  /\ pc[Client] = "force"
  /\ t = pushing[Client]
  /\ ForcedMutexFree
  /\ forcedList' = forcedList \union {t}
  /\ task' = [task EXCEPT ![t] = t]
  /\ pushing' = [pushing EXCEPT ![Client] = None]
  /\ pc' = [pc EXCEPT ![t] = "hold", ![Client] = "idle"]
  /\ UNCHANGED <<listVars, poolVars, noted, stop, mTask, userVars>>

ClientCalls ==
  \/ \E t \in New(Queueable) : QueueTask(t)
  \/ \E t \in New(Forcible) : CreateForced(t)
ClientGoesOn == PushTask(Client) \/ NotifyPool(Client) \/ \E t \in Forcible : ForceTask(t)
----------------------------------------------------------------------------
\* User::doLogIn: unBlockTasks
LogIn ==
  /\ phase = "out"
  /\ logins < MaxLogins
  /\ logins' = logins + 1
  /\ phase' = "in"
  /\ isBlocked' = FALSE
  /\ UNCHANGED <<taskList, offered, over, forcedList, poolVars, threadVars, sub, cur, todo,
                 quit, told>>

\* User::logOut or User::destroy, that is User::cleanUp, calls purgeTasks.
CleanUp(q) ==
  /\ phase \in {"in"} \union {x \in {"out"} : q}
  /\ quit' = q
  /\ phase' = "purge"
  /\ todo' = Listed
  /\ UNCHANGED <<listVars, forcedList, poolVars, threadVars, sub, cur, logins, told>>

\* stopTask of each worker, with m_TaskMutex and m_ThreadMutex held
StopTask(w) ==
  /\ phase = "purge"
  /\ w \in todo
  /\ told' = told \union ({mTask[w]} \ {None})
  /\ todo' = todo \ {w}
  /\ UNCHANGED <<listVars, forcedList, poolVars, threadVars, phase, sub, cur, quit, logins>>

StopPhases == {"purgeForced", "stopWorkers", "stopForced", "endWorkers", "endForced"}

\* BaseThread::stop: nothing for a thread that was not started, only join for
\* one that was stopped before, ...
StopThread(t) ==
  /\ phase \in StopPhases
  /\ sub = "pick"
  /\ t \in todo
  /\ todo' = todo \ {t}
  /\ IF pc[t] = "off"
     THEN UNCHANGED <<sub, cur, stop>>
     ELSE /\ cur' = t
          /\ sub' = IF stop[t] THEN "join" ELSE "ask"
          /\ stop' = [stop EXCEPT ![t] = TRUE]
  /\ UNCHANGED <<listVars, forcedList, poolVars, pc, noted, task, mTask, pushing, phase,
                 quit, logins, told>>

\* A slip: onStop does not wake its thread.
OnStopSilent ==
  /\ sub = "ask"
  /\ told' = told \union ({mTask[cur]} \ {None})
  /\ sub' = "join"
  /\ UNCHANGED <<listVars, forcedList, poolVars, pc, noted, stop, task, mTask, pushing,
                 phase, cur, todo, quit, logins>>

\* ... else ThreadPoolThread::onStop, ...
OnStop ==
  /\ sub = "ask"
  /\ told' = told \union ({mTask[cur]} \ {None})
  /\ noted' = [w \in Workers |-> noted[w] \/ w = cur]
  /\ sub' = "join"
  /\ UNCHANGED <<listVars, forcedList, poolVars, pc, stop, task, mTask, pushing, phase, cur,
                 todo, quit, logins>>

\* ... and join.
Join ==
  /\ sub = "join"
  /\ pc[cur] = "end"
  /\ sub' = "pick"
  /\ cur' = None
  /\ UNCHANGED <<listVars, forcedList, poolVars, threadVars, phase, todo, quit, logins, told>>

\* A loop over threads is over, and so the user's thread goes from here to there.
Passes(here, there) ==
  /\ phase = here
  /\ todo = {}
  /\ sub = "pick"
  /\ phase' = there
  /\ UNCHANGED <<poolStop, made, pool, isBlocked, offered, threadVars, sub, cur, quit, logins,
                 told>>

ClearTasks ==
  /\ taskList' = <<>>
  /\ over' = over \union Range(taskList)

PurgeForced ==
  /\ Passes("purge", "purgeForced")
  /\ todo' = forcedList
  /\ UNCHANGED <<taskList, over, forcedList, note>>

PurgeList ==
  /\ Passes("purgeForced", "drain")
  /\ forcedList' = {}
  /\ ClearTasks
  /\ UNCHANGED <<todo, note>>

\* A slip: purgeTasks does not wait for the workers.
DrainAtOnce ==
  /\ Passes("drain", "block")
  /\ UNCHANGED <<todo, taskList, over, forcedList, note>>

\* while (activeThreads() > 0) gcSleep(50)
Drain ==
  /\ HasTask = {}
  /\ Passes("drain", "block")
  /\ UNCHANGED <<todo, taskList, over, forcedList, note>>

\* The rest of User::cleanUp: blockTasks.
BlockTasks ==
  /\ phase = "block"
  /\ phase' = IF quit THEN "stop" ELSE "out"
  /\ isBlocked' = TRUE
  /\ UNCHANGED <<taskList, offered, over, forcedList, poolVars, threadVars, sub, cur, todo,
                 quit, logins, told>>

\* ThreadPool::cleanup: nonBlockStop sets m_bStop and calls onStop, ...
StopPool ==
  /\ phase = "stop"
  /\ pc[Client] = "idle"
  /\ poolStop' = TRUE
  /\ phase' = "stopWorkers"
  /\ todo' = Listed
  /\ UNCHANGED <<listVars, forcedList, made, pool, note, threadVars, sub, cur, quit, logins,
                 told>>

OnStopForced ==
  /\ Passes("stopWorkers", "stopForced")
  /\ todo' = forcedList
  /\ UNCHANGED <<taskList, over, forcedList, note>>

OnStopNotify ==
  /\ Passes("stopForced", "joinPool")
  /\ note' = TRUE
  /\ UNCHANGED <<todo, taskList, over, forcedList>>

\* ... the pool's thread is joined, ...
JoinPool ==
  /\ pool = "end"
  /\ Passes("joinPool", "clear")
  /\ UNCHANGED <<todo, taskList, over, forcedList, note>>

\* A slip: the workers are deleted, not stopped again.
ClearAndForget ==
  /\ Passes("clear", "endWorkers")
  /\ ClearTasks
  /\ todo' = {}
  /\ UNCHANGED <<forcedList, note>>

\* ... and the lists are cleared: the workers onStop did not reach end here.
ClearList ==
  /\ Passes("clear", "endWorkers")
  /\ ClearTasks
  /\ todo' = Listed
  /\ UNCHANGED <<forcedList, note>>

EndForced ==
  /\ Passes("endWorkers", "endForced")
  /\ todo' = forcedList
  /\ UNCHANGED <<taskList, over, forcedList, note>>

Deleted ==
  /\ Passes("endForced", "gone")
  /\ forcedList' = {}
  /\ UNCHANGED <<todo, taskList, over, note>>

User ==
  \/ \E w \in Workers : StopTask(w)
  \/ \E t \in Threads : StopThread(t)
  \/ OnStop \/ Join \/ PurgeForced \/ PurgeList \/ Drain \/ BlockTasks \/ StopPool
  \/ OnStopForced \/ OnStopNotify \/ JoinPool \/ ClearList \/ EndForced \/ Deleted
----------------------------------------------------------------------------
\* wait_for may return without a notification or a timeout, and wait with it.
SpuriousWakeup ==
  /\ \/ /\ pool = "wait"
        /\ pool' = "loop"
        /\ UNCHANGED pc
     \/ \E w \in Workers : /\ pc[w] = "wait"
                           /\ Goto(w, "loop")
                           /\ UNCHANGED pool
  /\ UNCHANGED <<listVars, forcedList, made, note, poolStop, noted, stop, task, mTask,
                 pushing, userVars>>

Next ==
  \/ Pool
  \/ \E w \in Workers : Worker(w)
  \/ \E t \in Threads : DoTask(t)
  \/ ClientCalls \/ ClientGoesOn \/ LogIn \/ (\E q \in BOOLEAN : CleanUp(q))
  \/ User \/ SpuriousWakeup

Spec == Init /\ [][Next]_vars

\* Threads are scheduled, doTask returns, and a call that has begun goes on;
\* nobody has to log in or out, to queue anything, or to wake up by chance.
Fairness ==
  /\ WF_vars(Pool)
  /\ \A w \in Workers : WF_vars(Worker(w) \/ DoTask(w))
  /\ \A t \in Forcible : WF_vars(DoTask(t))
  /\ WF_vars(ClientGoesOn)
  /\ WF_vars(User)

FairSpec == Spec /\ Fairness
----------------------------------------------------------------------------
Taken == {t \in Threads : pc[t] \in {"hold", "run", "push", "notify"}}

\* Behind its threads the pool is the abstract queue: a task is started once,
\* in order, or never, and a purged one does not come back.
Abstract == INSTANCE TaskQueue WITH waiting <- taskList,
                                    running <- {task[t] : t \in Taken},
                                    over <- over
QueueSpec == Abstract!Spec

\* The pool and all its workers never sleep, without a wake-up on its way, over
\* a task in the list: the notifications of ThreadPool.cpp:168, 242 and 333 are
\* enough although the list's size and the busy threads are read without a
\* common lock (ThreadPool.cpp:214).
NobodySleepsOnWork ==
  \/ taskList = <<>>
  \/ poolStop
  \/ pool # "wait" \/ note
  \/ \E a \in Actors : pc[a] = "notify"
  \/ \E w \in Workers : pc[w] # "wait" \/ noted[w]

\* A task purgeTasks told to stop is not running any more when it has returned.
ToldIsOver ==
  phase \in {"block", "out", "in"} => \A t \in Threads : pc[t] = "run" => task[t] \notin told

\* When cleanup has returned, and the pool's memory goes, none of its threads
\* is left: neither a forced one nor a worker that was created during the stop.
NothingSurvives ==
  phase = "gone" => /\ pool = "end"
                    /\ \A w \in Workers : pc[w] = "end"
                    /\ \A t \in Forcible : pc[t] \in {"off", "end"}

\* purgeTasks joins a forced thread that waits for a mutex purgeTasks holds, or
\* for m_DownloadLock whose holder does.
Deadlocked ==
  /\ phase = "purgeForced"
  /\ sub = "join"
  /\ pc[cur] = "push" \/ (pc[cur] = "run" /\ ~MayEnd(cur))

\* Whatever was handed over is run, refused or purged in the end.
EverythingIsServed == (offered # over) ~> (offered = over \/ Deadlocked)

\* purgeTasks, "remove all tasks from pool" (ThreadPool.h:94), and cleanup
\* return, unless ...
CallsReturn == (phase \notin {"out", "in", "gone"}) ~> (phase \in {"out", "in", "gone"} \/ Deadlocked)

\* ... and without the unless.
PurgeReturns == (phase = "purge") ~> (phase = "block")
=============================================================================
