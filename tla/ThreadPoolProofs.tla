-------------------------- MODULE ThreadPoolProofs --------------------------
(***************************************************************************)
(* For any number of workers and tasks: the pool implements the abstract   *)
(* queue, nobody sleeps over a task, what a purge has told to stop is      *)
(* over, no thread survives cleanup, and what a stop joins can go on to    *)
(* its end.                                                                *)
(***************************************************************************)
EXTENDS ThreadPool, FiniteSetTheorems, TLAPS

USE ThreadPoolAssumption

\* A thread has a task of its own, and has registered it as m_pTask.
Holding == {"hold", "run", "push", "notify", "ran", "done"}
Registered == {"run", "push", "notify", "ran"}

\* What each actor carries where.
PlaceInv ==
  /\ pc[Client] \in {"idle", "push", "notify", "force"}
  /\ \A w \in Workers : /\ pc[w] \notin {"force", "fin"}
                        /\ pc[w] \in Holding => task[w] \in Queueable
                        /\ pc[w] \notin Holding => task[w] = None
  /\ \A f \in Forcible : /\ pc[f] \notin {"idle", "loop", "get", "wait", "force"}
                         /\ pc[f] \in Holding => task[f] = f
                         /\ pc[f] \notin Holding => task[f] = None
  /\ \A t \in Threads : mTask[t] = IF pc[t] \in Registered THEN task[t] ELSE None
  /\ \A a \in Actors : /\ pc[a] = "push" => pushing[a] \in Queueable
                       /\ pc[a] = "force" => pushing[a] \in Forcible
                       /\ pc[a] \notin {"push", "force"} => pushing[a] = None

\* The user's thread is stopping one thread, or none.
SubInv ==
  /\ sub = "pick" <=> cur = None
  /\ sub # "pick" => phase \in StopPhases

\* Once the pool has decided to sleep, whoever gave it something to do, and every
\* worker that was busy, is still on the way to notify it.
AwakeInv ==
  \/ pool \notin {"again", "wait"}
  \/ taskList = <<>>
  \/ note
  \/ poolStop
  \/ \E a \in Actors : pc[a] = "notify"
  \/ \E w \in Workers : pc[w] \in Registered \union {"done"}

\* A task is in one place: to be added, in the list, with a thread, or over.
OnceInv ==
  /\ over \subseteq offered
  /\ IsInjective(taskList)
  /\ Range(taskList) \subseteq offered \ over
  /\ \A a \in Actors : pushing[a] # None => pushing[a] \in offered \ (over \union Range(taskList))
  /\ \A a, b \in Actors : pushing[a] # None /\ pushing[a] = pushing[b] => a = b
  /\ \A t \in Taken : task[t] \in offered \ (over \union Range(taskList))
  /\ \A t \in Taken, a \in Actors : task[t] # pushing[a]
  /\ \A t, u \in Taken : task[t] = task[u] => t = u
  /\ \A t \in Threads : pc[t] \in {"ran", "done"} => task[t] \in over
  /\ \A f \in Forcible : pc[f] # "off" => f \in offered /\ \A a \in Actors : pushing[a] # f

\* A task that was told to stop is over or registered with a thread; outside the
\* purge and the cleanup it is over.
Underway(t) == pc[t] \in {"run", "push", "notify"}
Ending == {"stopWorkers", "stopForced", "joinPool", "clear", "endWorkers", "endForced", "gone"}

ToldInv ==
  /\ \A x \in told : x \in over \/ \E t \in Threads : Underway(t) /\ task[t] = x
  /\ phase \in {"block", "out", "in"} =>
       \A w \in Workers : Underway(w) => task[w] \notin told
  /\ phase \notin Ending =>
       \A f \in Forcible : Underway(f) /\ f \in told => phase = "purgeForced" /\ cur = f

\* Which threads exist, and which are left, while the pool is stopped.
EndInv ==
  /\ pool \notin {"create", "launch"} => made = NumWorkers
  /\ pool = "launch" => made \in Workers /\ pc[made] = "off"
  /\ \A w \in Workers : w > made => pc[w] = "off"
  /\ \A w \in Workers : w <= made /\ pc[w] = "off" => pool = "launch" /\ w = made
  /\ phase \in {"clear", "endWorkers", "endForced", "gone"} => pool = "end"
  /\ phase = "endWorkers" => \A w \in Workers : w \in todo \/ cur = w \/ pc[w] = "end"
  /\ phase \in {"endForced", "gone"} => \A w \in Workers : pc[w] = "end"
  /\ \A f \in Forcible : f \in forcedList \/ pc[f] \in {"off", "end"}
  /\ phase \in {"purgeForced", "endForced"} =>
       \A f \in Forcible : f \in todo \/ cur = f \/ pc[f] \in {"off", "end"}
  /\ phase = "gone" => \A f \in Forcible : pc[f] \in {"off", "end"}
  /\ phase \in Ending => pc[Client] = "idle"

IInv ==
  /\ TypeOK
  /\ PlaceInv
  /\ SubInv
  /\ AwakeInv
  /\ OnceInv
  /\ ToldInv
  /\ EndInv

USE DEF listVars, poolVars, threadVars, userVars, vars, Goto

----------------------------------------------------------------------------
\* Workers, forced threads and the client are different actors.
LEMMA Kinds ==
  /\ Workers \subseteq Threads /\ Forcible \subseteq Threads /\ Threads \subseteq Actors
  /\ \A t \in Threads : t \in Workers \/ t \in Forcible
  /\ \A a \in Actors : a \in Threads \/ a = Client
  /\ Client \in Actors /\ Client \notin Threads
  /\ \A f \in Forcible : f \notin Workers /\ f \notin Queueable
  /\ Queueable \subseteq Tasks /\ Forcible \subseteq Tasks
  /\ None \notin Tasks /\ None \notin Threads
BY DEF Threads, Tasks, Actors

LEMMA WorkersAre ==
  /\ \A w : w \in Workers <=> w \in Nat /\ w >= 1 /\ w <= NumWorkers
  /\ NumWorkers \in Nat /\ NumWorkers >= 1
BY DEF Workers

LEMMA ListedAre ==
  ASSUME TypeOK
  PROVE  \A w : w \in Listed <=> w \in Workers /\ w <= made
<1>1. made \in Nat /\ made <= NumWorkers
  BY WorkersAre DEF TypeOK
<1> QED BY <1>1, WorkersAre DEF Listed

\* An actor goes from one place to another.
LEMMA GotoTyped ==
  ASSUME TypeOK, NEW a \in Actors, NEW l \in Places, Goto(a, l)
  PROVE  /\ pc' \in [Actors -> Places]
         /\ pc'[a] = l
         /\ \A b \in Actors : b # a => pc'[b] = pc[b]
BY DEF TypeOK

\* What is queued are tasks, and who stops a thread stops some thread: a step
\* keeps the types.
LEMMA TypePool ==
  ASSUME TypeOK, Pool
  PROVE  TypeOK'
<1>1. CASE CreateWorker
  BY <1>1 DEF TypeOK, CreateWorker, PoolPlaces
<1>2. CASE LaunchWorker
  BY <1>2 DEF TypeOK, LaunchWorker, PoolPlaces, Places
<1>3. CASE PoolLoop
  BY <1>3 DEF TypeOK, PoolLoop, PoolPlaces
<1>4. CASE RemovedForced
  BY <1>4 DEF TypeOK, RemovedForced, PoolPlaces
<1>5. CASE StartNewTasks
  BY <1>5 DEF TypeOK, StartNewTasks, PoolPlaces
<1>6. CASE Recount \/ LookAtList \/ SleepOrNot \/ PoolWakes
  BY <1>6 DEF TypeOK, Recount, LookAtList, SleepOrNot, PoolWakes, PoolPlaces
<1> QED BY <1>1, <1>2, <1>3, <1>4, <1>5, <1>6 DEF Pool

LEMMA TypeThreads ==
  ASSUME TypeOK, PlaceInv,
         \/ \E w \in Workers : Worker(w)
         \/ \E t \in Threads : DoTask(t)
         \/ ClientCalls \/ ClientGoesOn
  PROVE  TypeOK'
<1>1. ASSUME NEW w \in Workers, WorkerLoop(w) \/ NoTask(w) \/ WorkerWakes(w)
      PROVE  TypeOK'
  <2>1. pc' \in [Actors -> Places]
    BY <1>1, Kinds, GotoTyped DEF WorkerLoop, NoTask, WorkerWakes, Places
  <2> QED BY <1>1, <2>1 DEF TypeOK, WorkerLoop, NoTask, WorkerWakes
<1>2. ASSUME NEW w \in Workers, GetTask(w)
      PROVE  TypeOK'
  <2>1. pc' \in [Actors -> Places]
    BY <1>2, Kinds, GotoTyped DEF GetTask, Places
  <2>2. taskList' \in Seq(Queueable) /\ task' \in [Threads -> Tasks \union {None}]
    <3>1. taskList \in Seq(Queueable) /\ task \in [Threads -> Tasks \union {None}]
      BY DEF TypeOK
    <3>2. taskList # <<>> => Head(taskList) \in Tasks /\ Tail(taskList) \in Seq(Queueable)
      BY <3>1, Kinds
    <3> QED BY <1>2, <3>1, <3>2 DEF GetTask
  <2> QED BY <1>2, <2>1, <2>2 DEF TypeOK, GetTask
<1>3. ASSUME NEW t \in Threads, Register(t) \/ Unregister(t) \/ ForcedEnds(t) \/ DoTaskEnds(t)
      PROVE  TypeOK'
  <2>1. pc' \in [Actors -> Places]
    BY <1>3, Kinds, GotoTyped DEF Register, Unregister, ForcedEnds, DoTaskEnds, Places
  <2>2. mTask' \in [Threads -> Tasks \union {None}]
    BY <1>3 DEF TypeOK, Register, Unregister, ForcedEnds, DoTaskEnds
  <2>3. DoTaskEnds(t) => task[t] \in Tasks
    BY Kinds DEF DoTaskEnds, PlaceInv, Holding
  <2> QED BY <1>3, <2>1, <2>2, <2>3 DEF TypeOK, Register, Unregister, ForcedEnds, DoTaskEnds
<1>4. ASSUME NEW t \in Threads, Complete(t)
      PROVE  TypeOK'
  <2>1. pc' \in [Actors -> Places]
    BY <1>4, Kinds, GotoTyped DEF Complete, Places
  <2> QED BY <1>4, <2>1 DEF TypeOK, Complete
<1>5. ASSUME NEW a \in Actors, PushTask(a) \/ NotifyPool(a)
      PROVE  TypeOK'
  <2>1. pc' \in [Actors -> Places]
    BY <1>5, GotoTyped DEF PushTask, NotifyPool, Places
  <2>2. taskList' \in Seq(Queueable)
    <3>1. taskList \in Seq(Queueable)
      BY DEF TypeOK
    <3>2. pc[a] = "push" => pushing[a] \in Queueable
      BY DEF PlaceInv
    <3> QED BY <1>5, <3>1, <3>2 DEF PushTask, NotifyPool
  <2> QED BY <1>5, <2>1, <2>2 DEF TypeOK, PushTask, NotifyPool
<1>6. ASSUME NEW t \in Threads, NEW new \in Queueable, TaskQueues(t, new)
      PROVE  TypeOK'
  <2>1. pc' \in [Actors -> Places]
    BY <1>6, Kinds, GotoTyped DEF TypeOK, TaskQueues, Places
  <2> QED BY <1>6, <2>1, Kinds DEF TypeOK, TaskQueues
<1>7. ASSUME NEW t \in Tasks, (t \in Queueable /\ QueueTask(t)) \/ CreateForced(t)
      PROVE  TypeOK'
  <2>1. pc' \in [Actors -> Places]
    BY <1>7, Kinds, GotoTyped DEF TypeOK, QueueTask, CreateForced, Places
  <2> QED BY <1>7, <2>1, Kinds DEF TypeOK, QueueTask, CreateForced
<1>8. ASSUME NEW t \in Forcible, ForceTask(t)
      PROVE  TypeOK'
  <2>1. pc' \in [Actors -> Places]
    BY <1>8, Kinds DEF TypeOK, ForceTask, Places
  <2> QED BY <1>8, <2>1, Kinds DEF TypeOK, ForceTask
<1>9. ASSUME NEW t \in Threads, DoTask(t)
      PROVE  TypeOK'
  BY <1>9, <1>3, <1>4, <1>5, <1>6, Kinds DEF DoTask, New
<1> QED BY <1>1, <1>2, <1>5, <1>7, <1>8, <1>9, Kinds
        DEF Worker, ClientCalls, ClientGoesOn, New

LEMMA TypeUser ==
  ASSUME TypeOK, SubInv,
         LogIn \/ (\E q \in BOOLEAN : CleanUp(q)) \/ User \/ SpuriousWakeup
  PROVE  TypeOK'
<1>0. Listed \subseteq Threads
  BY ListedAre, Kinds
<1>1. CASE LogIn
  <2>1. logins' \in 0..MaxLogins
    BY <1>1 DEF TypeOK, LogIn
  <2> QED BY <1>1, <2>1 DEF TypeOK, LogIn, Phases
<1>2. ASSUME NEW q \in BOOLEAN, CleanUp(q)
      PROVE  TypeOK'
  BY <1>0, <1>2 DEF TypeOK, CleanUp, Phases
<1>3. ASSUME NEW w \in Workers, StopTask(w)
      PROVE  TypeOK'
  BY <1>3, Kinds DEF TypeOK, StopTask
<1>4. ASSUME NEW t \in Threads, StopThread(t)
      PROVE  TypeOK'
  BY <1>4 DEF TypeOK, StopThread
<1>5. CASE OnStop
  <2>1. mTask[cur] \in Tasks \union {None}
    BY <1>5 DEF TypeOK, SubInv, OnStop
  <2>2. noted' \in [Workers -> BOOLEAN]
    BY <1>5 DEF OnStop
  <2> QED BY <1>5, <2>1, <2>2 DEF TypeOK, OnStop
<1>6. CASE Join
  BY <1>6 DEF TypeOK, Join
<1>7. CASE PurgeForced \/ Drain \/ OnStopForced \/ OnStopNotify \/ JoinPool \/ EndForced
           \/ Deleted
  BY <1>7, Kinds DEF TypeOK, Passes, PurgeForced, Drain, OnStopForced, OnStopNotify,
              JoinPool, EndForced, Deleted, Phases
<1>8. CASE PurgeList \/ ClearList
  <2>1. over \union Range(taskList) \subseteq Tasks /\ <<>> \in Seq(Queueable)
    BY Kinds DEF TypeOK, Range
  <2> QED BY <1>0, <1>8, <2>1 DEF TypeOK, Passes, PurgeList, ClearList, ClearTasks, Phases
<1>9. CASE BlockTasks \/ StopPool
  BY <1>0, <1>9 DEF TypeOK, BlockTasks, StopPool, Phases
<1>10. CASE SpuriousWakeup
  <2>1. pc' \in [Actors -> Places]
    BY <1>10, Kinds, GotoTyped DEF TypeOK, SpuriousWakeup, Places
  <2> QED BY <1>10, <2>1 DEF TypeOK, SpuriousWakeup, PoolPlaces
<1> QED BY <1>1, <1>2, <1>3, <1>4, <1>5, <1>6, <1>7, <1>8, <1>9, <1>10 DEF User

----------------------------------------------------------------------------
\* The steps of the user's thread move nobody else.
LEMMA UserMovesNobody ==
  ASSUME LogIn \/ (\E q \in BOOLEAN : CleanUp(q)) \/ User
  PROVE  UNCHANGED <<pc, task, mTask, pushing>>
BY DEF LogIn, CleanUp, User, StopTask, StopThread, OnStop, Join, Passes, PurgeForced, PurgeList,
       Drain, BlockTasks, StopPool, OnStopForced, OnStopNotify, JoinPool, ClearList, EndForced,
       Deleted

\* Nor do those of the pool's thread, but for the launch of a worker.
LEMMA PoolMovesNobody ==
  ASSUME Pool, ~LaunchWorker
  PROVE  UNCHANGED <<pc, task, mTask, pushing>>
BY DEF Pool, CreateWorker, PoolLoop, RemovedForced, StartNewTasks, Recount, LookAtList,
       SleepOrNot, PoolWakes

\* What an actor has in hand fits the place it is at.
LEMMA PlaceWorker ==
  ASSUME TypeOK, PlaceInv, NEW w \in Workers,
         Worker(w) \/ (pool = "launch" /\ w = made /\ pc[w] = "off" /\ LaunchWorker)
                   \/ (pc[w] = "wait" /\ Goto(w, "loop") /\ UNCHANGED <<task, mTask, pushing>>)
  PROVE  PlaceInv'
<1>1. CASE GetTask(w) /\ taskList # <<>>
  <2>1. Head(taskList) \in Queueable
    BY <1>1 DEF TypeOK
  <2> QED BY <1>1, <2>1, Kinds DEF GetTask, PlaceInv, TypeOK, Holding, Registered
<1>2. CASE ~(GetTask(w) /\ taskList # <<>>)
  BY <1>2, Kinds DEF Worker, WorkerLoop, GetTask, NoTask, WorkerWakes, LaunchWorker,
                     PlaceInv, TypeOK, Holding, Registered
<1> QED BY <1>1, <1>2

LEMMA PlaceTask ==
  ASSUME TypeOK, PlaceInv, NEW t \in Threads, DoTask(t)
  PROVE  PlaceInv'
<1>1. CASE Register(t) \/ DoTaskEnds(t) \/ Unregister(t)
  BY <1>1, Kinds DEF Register, DoTaskEnds, Unregister, PlaceInv, TypeOK, Holding, Registered
<1>2. CASE PushTask(t) \/ NotifyPool(t)
  BY <1>2, Kinds DEF PushTask, NotifyPool, PlaceInv, TypeOK, Holding, Registered
<1>3. CASE Complete(t) \/ ForcedEnds(t)
  <2>1. CASE Complete(t) /\ t \in Workers
    BY <2>1, Kinds DEF Complete, PlaceInv, TypeOK, Holding, Registered
  <2>2. CASE Complete(t) /\ t \in Forcible
    BY <2>2, Kinds DEF Complete, PlaceInv, TypeOK, Holding, Registered
  <2>3. CASE ForcedEnds(t)
    BY <2>3, Kinds DEF ForcedEnds, PlaceInv, TypeOK, Holding, Registered
  <2> QED BY <1>3, <2>1, <2>2, <2>3, Kinds
<1>4. ASSUME NEW new \in Queueable, TaskQueues(t, new)
      PROVE  PlaceInv'
  BY <1>4, Kinds DEF TaskQueues, PlaceInv, TypeOK, Holding, Registered
<1> QED BY <1>1, <1>2, <1>3, <1>4 DEF DoTask, New

\* A task that is to be forced has no thread yet.
LEMMA ForcedIsNew ==
  ASSUME TypeOK, OnceInv, NEW f \in Forcible, ForceTask(f)
  PROVE  pc[f] = "off"
BY Kinds DEF ForceTask, OnceInv, TypeOK

LEMMA PlaceClient ==
  ASSUME TypeOK, PlaceInv, OnceInv, ClientCalls \/ ClientGoesOn
  PROVE  PlaceInv'
<1>1. ASSUME NEW t \in Queueable, QueueTask(t)
      PROVE  PlaceInv'
  BY <1>1, Kinds DEF QueueTask, PlaceInv, TypeOK, Holding, Registered
<1>2. ASSUME NEW t \in Forcible, CreateForced(t)
      PROVE  PlaceInv'
  BY <1>2, Kinds DEF CreateForced, PlaceInv, TypeOK, Holding, Registered
<1>3. CASE PushTask(Client) \/ NotifyPool(Client)
  BY SMTT(60), <1>3, Kinds DEF PushTask, NotifyPool, PlaceInv, TypeOK, Holding, Registered
<1>4. ASSUME NEW t \in Forcible, ForceTask(t)
      PROVE  PlaceInv'
  <2>1. pc[t] = "off"
    BY <1>4, ForcedIsNew
  <2> QED BY <1>4, <2>1, Kinds DEF ForceTask, PlaceInv, TypeOK, Holding, Registered
<1> QED BY <1>1, <1>2, <1>3, <1>4 DEF ClientCalls, ClientGoesOn, New

----------------------------------------------------------------------------
\* Only the user's thread takes another step of a stop.
LEMMA SubStep ==
  ASSUME TypeOK, SubInv, Next
  PROVE  SubInv'
<1>1. CASE UNCHANGED <<sub, cur, phase>>
  BY <1>1 DEF SubInv
<1>2. CASE LogIn \/ \E q \in BOOLEAN : CleanUp(q)
  BY <1>2 DEF LogIn, CleanUp, SubInv, StopPhases
<1>3. CASE User
  <2>1. ASSUME NEW t \in Threads, StopThread(t)
        PROVE  SubInv'
    BY <2>1, Kinds DEF StopThread, SubInv
  <2>2. CASE BlockTasks \/ StopPool
    BY <2>2 DEF BlockTasks, StopPool, SubInv, StopPhases
  <2>3. CASE OnStop \/ Join \/ \E w \in Workers : StopTask(w)
    BY <2>3 DEF OnStop, Join, StopTask, SubInv
  <2>4. CASE \/ PurgeForced \/ PurgeList \/ Drain \/ OnStopForced \/ OnStopNotify \/ JoinPool
             \/ ClearList \/ EndForced \/ Deleted
    BY <2>4 DEF Passes, PurgeForced, PurgeList, Drain, OnStopForced, OnStopNotify, JoinPool,
                ClearList, EndForced, Deleted, SubInv
  <2> QED BY <1>3, <2>1, <2>2, <2>3, <2>4 DEF User
<1>4. Pool \/ SpuriousWakeup => UNCHANGED <<sub, cur, phase>>
  BY DEF Pool, CreateWorker, LaunchWorker, PoolLoop, RemovedForced, StartNewTasks, Recount,
         LookAtList, SleepOrNot, PoolWakes, SpuriousWakeup
<1>5. ASSUME \/ \E w \in Workers : Worker(w)
             \/ \E t \in Threads : DoTask(t)
             \/ ClientCalls \/ ClientGoesOn
      PROVE  UNCHANGED <<sub, cur, phase>>
  BY <1>5 DEF Worker, WorkerLoop, GetTask, NoTask, WorkerWakes, DoTask, Register, PushTask,
              NotifyPool, DoTaskEnds, Unregister, Complete, ForcedEnds, TaskQueues,
              ClientCalls, ClientGoesOn, QueueTask, CreateForced, ForceTask
<1> QED BY <1>1, <1>2, <1>3, <1>4, <1>5 DEF Next

----------------------------------------------------------------------------
\* The pool never sleeps over a task that nobody is about to tell it of.
LEMMA AwakePool ==
  ASSUME TypeOK, PlaceInv, AwakeInv, Pool \/ SpuriousWakeup
  PROVE  AwakeInv'
<1>1. CASE Recount
  <2>1. CASE HasTask = {}
    <3>1. Cardinality(HasTask) # NumWorkers
      BY <2>1, FS_EmptySet, WorkersAre
    <3> QED BY <1>1, <3>1 DEF Recount, AwakeInv
  <2>2. ASSUME NEW w \in HasTask
        PROVE  AwakeInv'
    <3>1. w \in Workers /\ mTask[w] # None
      BY ListedAre DEF HasTask
    <3>2. pc[w] \in Registered
      BY <3>1, Kinds DEF PlaceInv
    <3> QED BY <1>1, <3>1, <3>2 DEF Recount, AwakeInv
  <2> QED BY <2>1, <2>2
<1>2. CASE LookAtList \/ SleepOrNot \/ PoolWakes
  BY <1>2 DEF LookAtList, SleepOrNot, PoolWakes, AwakeInv
<1>3. CASE CreateWorker \/ LaunchWorker \/ PoolLoop \/ RemovedForced \/ StartNewTasks
  BY <1>3 DEF CreateWorker, LaunchWorker, PoolLoop, RemovedForced, StartNewTasks, AwakeInv
<1>4. CASE SpuriousWakeup
  <2>1. CASE pool' = "loop"
    BY <2>1 DEF AwakeInv
  <2>2. ASSUME NEW w \in Workers, pc[w] = "wait", Goto(w, "loop"), UNCHANGED pool
        PROVE  AwakeInv'
    BY <1>4, <2>2 DEF SpuriousWakeup, AwakeInv, TypeOK, Registered
  <2> QED BY <1>4, <2>1, <2>2 DEF SpuriousWakeup
<1> QED BY <1>1, <1>2, <1>3, <1>4 DEF Pool

LEMMA AwakeThreads ==
  ASSUME TypeOK, PlaceInv, AwakeInv, OnceInv,
         \/ \E w \in Workers : Worker(w)
         \/ \E t \in Threads : DoTask(t)
         \/ ClientCalls \/ ClientGoesOn
  PROVE  AwakeInv'
<1>1. ASSUME NEW w \in Workers, Worker(w)
      PROVE  AwakeInv'
  <2>1. taskList = <<>> => taskList' = <<>>
    BY <1>1 DEF Worker, WorkerLoop, GetTask, NoTask, WorkerWakes
  <2>2. pc[w] \notin Registered \union {"done"} /\ UNCHANGED <<pool, note, poolStop>>
    BY <1>1 DEF Worker, WorkerLoop, GetTask, NoTask, WorkerWakes, Registered
  <2>3. \A a \in Actors : a # w => pc'[a] = pc[a]
    BY <1>1 DEF Worker, WorkerLoop, GetTask, NoTask, WorkerWakes, TypeOK
  <2> QED BY <2>1, <2>2, <2>3, Kinds DEF AwakeInv, Registered
<1>2. ASSUME NEW t \in Threads,
             Register(t) \/ DoTaskEnds(t) \/ Unregister(t) \/ ForcedEnds(t)
      PROVE  AwakeInv'
  BY <1>2, Kinds DEF Register, DoTaskEnds, Unregister, ForcedEnds, AwakeInv, TypeOK, Registered
<1>3. ASSUME NEW t \in Threads, Complete(t)
      PROVE  AwakeInv'
  BY <1>3 DEF Complete, AwakeInv, TypeOK
<1>4. ASSUME NEW a \in Actors, PushTask(a) \/ NotifyPool(a)
      PROVE  AwakeInv'
  BY <1>4 DEF PushTask, NotifyPool, AwakeInv, TypeOK
<1>5. ASSUME NEW t \in Threads, NEW new \in Queueable, TaskQueues(t, new)
      PROVE  AwakeInv'
  BY <1>5, Kinds DEF TaskQueues, AwakeInv, TypeOK, Registered
<1>6. ASSUME NEW t \in Tasks, QueueTask(t) \/ CreateForced(t)
      PROVE  AwakeInv'
  BY <1>6, Kinds DEF QueueTask, CreateForced, AwakeInv, TypeOK, Registered
<1>7. ASSUME NEW f \in Forcible, ForceTask(f)
      PROVE  AwakeInv'
  <2>1. pc[f] = "off"
    BY <1>7, ForcedIsNew
  <2> QED BY <1>7, <2>1, Kinds DEF ForceTask, AwakeInv, TypeOK, Registered
<1>8. ASSUME NEW t \in Threads, DoTask(t)
      PROVE  AwakeInv'
  BY <1>8, <1>2, <1>3, <1>4, <1>5, Kinds DEF DoTask, New
<1> QED BY <1>1, <1>4, <1>6, <1>7, <1>8, Kinds DEF ClientCalls, ClientGoesOn, New

LEMMA AwakeUser ==
  ASSUME AwakeInv, LogIn \/ (\E q \in BOOLEAN : CleanUp(q)) \/ User
  PROVE  AwakeInv'
<1>1. UNCHANGED <<pc, pool>> /\ (note => note') /\ (poolStop => poolStop')
  BY DEF LogIn, CleanUp, User, StopTask, StopThread, OnStop, Join, Passes, PurgeForced,
         PurgeList, Drain, BlockTasks, StopPool, OnStopForced, OnStopNotify, JoinPool,
         ClearList, EndForced, Deleted
<1>2. taskList' = taskList \/ taskList' = <<>>
  BY DEF LogIn, CleanUp, User, StopTask, StopThread, OnStop, Join, PurgeForced, PurgeList,
         Drain, BlockTasks, StopPool, OnStopForced, OnStopNotify, JoinPool, ClearList,
         ClearTasks, EndForced, Deleted
<1> QED BY <1>1, <1>2 DEF AwakeInv

----------------------------------------------------------------------------
\* Nobody comes back from the end of a thread, and only forceTask starts a forced
\* one.
Remains ==
  /\ UNCHANGED <<pool, made, phase, cur, todo>>
  /\ \A w \in Workers : /\ pc'[w] = "off" <=> pc[w] = "off"
                        /\ pc[w] = "end" => pc'[w] = "end"

LEMMA ThreadsRemain ==
  ASSUME TypeOK, PlaceInv, OnceInv,
         \/ \E w \in Workers : Worker(w)
         \/ \E t \in Threads : DoTask(t)
         \/ ClientCalls \/ ClientGoesOn
  PROVE  /\ Remains
         /\ \A f \in Forcible : f \in forcedList => f \in forcedList'
         /\ \A f \in Forcible : pc[f] \in {"off", "end"} =>
              pc'[f] = pc[f] \/ (f \in forcedList' /\ pc[Client] = "force" /\ ForcedMutexFree)
         /\ phase \in Ending /\ pc[Client] = "idle" => pc'[Client] = "idle"
<1>1. ASSUME NEW w \in Workers, Worker(w)
      PROVE  /\ UNCHANGED <<pool, made, phase, cur, todo, forcedList>>
             /\ \A v \in Workers : /\ pc'[v] = "off" <=> pc[v] = "off"
                                   /\ pc[v] = "end" => pc'[v] = "end"
             /\ \A a \in Actors : a \notin Workers => pc'[a] = pc[a]
  <2>1. UNCHANGED <<pool, made, phase, cur, todo, forcedList>>
    BY <1>1 DEF Worker, WorkerLoop, GetTask, NoTask, WorkerWakes
  <2> QED BY <1>1, <2>1, Kinds DEF Worker, WorkerLoop, GetTask, NoTask, WorkerWakes, TypeOK
<1>2. ASSUME NEW t \in Threads, DoTask(t)
      PROVE  /\ UNCHANGED <<pool, made, phase, cur, todo, forcedList>>
             /\ \A u \in Threads : /\ pc'[u] = "off" <=> pc[u] = "off"
                                   /\ pc[u] = "end" => pc'[u] = "end"
             /\ pc'[Client] = pc[Client]
  <2>1. UNCHANGED <<pool, made, phase, cur, todo, forcedList>>
    BY <1>2 DEF DoTask, Register, PushTask, NotifyPool, DoTaskEnds, Unregister, Complete,
                ForcedEnds, TaskQueues
  <2>2. /\ pc[t] \notin {"off", "end"} /\ pc'[t] # "off"
        /\ \A a \in Actors : a # t => pc'[a] = pc[a]
    BY <1>2, Kinds DEF DoTask, Register, PushTask, NotifyPool, DoTaskEnds, Unregister, Complete,
                       ForcedEnds, TaskQueues, TypeOK
  <2> QED BY <2>1, <2>2, Kinds
<1>3. ASSUME NEW t \in Tasks, QueueTask(t) \/ CreateForced(t)
      PROVE  /\ UNCHANGED <<pool, made, phase, cur, todo, forcedList>>
             /\ \A u \in Threads : pc'[u] = pc[u]
             /\ phase \notin Ending
  BY <1>3, Kinds DEF QueueTask, CreateForced, TypeOK, Serving, Ending
<1>4. ASSUME PushTask(Client) \/ NotifyPool(Client)
      PROVE  /\ UNCHANGED <<pool, made, phase, cur, todo, forcedList>>
             /\ \A u \in Threads : pc'[u] = pc[u]
             /\ pc[Client] # "idle"
  BY <1>4, Kinds DEF PushTask, NotifyPool, TypeOK
<1>5. ASSUME NEW f \in Forcible, ForceTask(f)
      PROVE  /\ UNCHANGED <<pool, made, phase, cur, todo>>
             /\ forcedList' = forcedList \union {f}
             /\ \A u \in Threads : u # f => pc'[u] = pc[u]
             /\ pc[Client] = "force" /\ ForcedMutexFree
  BY <1>5, Kinds DEF ForceTask, TypeOK
<1>6. CASE \E w \in Workers : Worker(w)
  BY <1>1, <1>6, Kinds DEF Remains
<1>7. CASE \E t \in Threads : DoTask(t)
  BY <1>2, <1>7, Kinds DEF Remains
<1>8. CASE ClientCalls
  BY <1>3, <1>8, Kinds DEF Remains, ClientCalls, New
<1>9. CASE ClientGoesOn
  BY <1>4, <1>5, <1>9, Kinds DEF Remains, ClientGoesOn
<1> QED BY <1>6, <1>7, <1>8, <1>9

LEMMA EndThreads ==
  ASSUME TypeOK, PlaceInv, OnceInv, EndInv,
         \/ \E w \in Workers : Worker(w)
         \/ \E t \in Threads : DoTask(t)
         \/ ClientCalls \/ ClientGoesOn
  PROVE  EndInv'
<1>1. phase \in {"purgeForced", "endForced", "gone"} => pc[Client] # "force" \/ ~ForcedMutexFree
  BY DEF EndInv, Ending, ForcedMutexFree
<1> QED BY <1>1, ThreadsRemain DEF Remains, EndInv, Ending

LEMMA EndPool ==
  ASSUME TypeOK, EndInv, Pool \/ SpuriousWakeup
  PROVE  EndInv'
<1>1. CASE CreateWorker
  <2>1. CASE made < NumWorkers
    <3>1. made \in Nat /\ made' = made + 1 /\ pool' = "launch" /\ made' \in Workers
      BY <1>1, <2>1, WorkersAre DEF CreateWorker, TypeOK
    <3>2. \A w \in Workers : w <= made' => w <= made \/ w = made'
      BY <3>1, WorkersAre
    <3>3. \A w \in Workers : w > made' => w > made
      BY <3>1, WorkersAre
    <3>4. made' > made
      BY <3>1
    <3> QED BY <1>1, <3>1, <3>2, <3>3, <3>4 DEF CreateWorker, EndInv, Ending
  <2>2. CASE ~(made < NumWorkers)
    <3>1. made = NumWorkers
      BY <2>2, WorkersAre DEF TypeOK
    <3> QED BY <1>1, <2>2, <3>1 DEF CreateWorker, EndInv, Ending
  <2> QED BY <2>1, <2>2
<1>2. CASE LaunchWorker
  BY <1>2, WorkersAre, Kinds DEF LaunchWorker, EndInv, TypeOK, Ending
<1>3. CASE RemovedForced
  BY <1>3 DEF RemovedForced, EndInv, Ending
<1>4. CASE PoolLoop \/ StartNewTasks \/ Recount \/ LookAtList \/ SleepOrNot \/ PoolWakes
  BY <1>4 DEF PoolLoop, StartNewTasks, Recount, LookAtList, SleepOrNot, PoolWakes, EndInv, Ending
<1>5. CASE SpuriousWakeup
  BY <1>5, Kinds DEF SpuriousWakeup, EndInv, TypeOK, Ending
<1> QED BY <1>1, <1>2, <1>3, <1>4, <1>5 DEF Pool

LEMMA EndUser ==
  ASSUME TypeOK, SubInv, EndInv,
         LogIn \/ (\E q \in BOOLEAN : CleanUp(q)) \/ User
  PROVE  EndInv'
<1>1. UNCHANGED <<pc, pool, made>>
  BY DEF LogIn, CleanUp, User, StopTask, StopThread, OnStop, Join, Passes, PurgeForced,
         PurgeList, Drain, BlockTasks, StopPool, OnStopForced, OnStopNotify, JoinPool,
         ClearList, EndForced, Deleted
<1>2. CASE LogIn \/ BlockTasks \/ (\E q \in BOOLEAN : CleanUp(q)) \/ StopPool
  BY <1>1, <1>2 DEF LogIn, BlockTasks, CleanUp, StopPool, EndInv, Ending
<1>3. CASE OnStop \/ \E w \in Workers : StopTask(w)
  BY <1>1, <1>3 DEF OnStop, StopTask, EndInv, Ending
<1>4. ASSUME NEW t \in Threads, StopThread(t)
      PROVE  EndInv'
  <2>1. UNCHANGED <<phase, forcedList>> /\ cur = None /\ t # None
    BY <1>4, Kinds DEF StopThread, SubInv
  <2>2. \A u \in Threads : u \in todo => u \in todo' \/ cur' = u \/ pc[u] = "off"
    BY <1>4 DEF StopThread
  <2>3. phase = "endWorkers" => \A w \in Workers : pc[w] # "off"
    BY WorkersAre DEF EndInv
  <2> QED BY <1>1, <2>1, <2>2, <2>3, Kinds DEF EndInv, Ending
<1>5. CASE Join
  BY <1>1, <1>5, Kinds DEF Join, EndInv, Ending
<1>6. CASE Drain \/ OnStopForced \/ OnStopNotify \/ JoinPool \/ PurgeForced
  BY <1>1, <1>6 DEF Passes, Drain, OnStopForced, OnStopNotify, JoinPool, PurgeForced, EndInv,
                    Ending
<1>7. CASE PurgeList
  BY <1>1, <1>7, Kinds DEF Passes, PurgeList, EndInv, SubInv, Ending
<1>8. CASE ClearList
  <2>1. \A w \in Workers : w \in Listed
    BY <1>8, ListedAre, WorkersAre DEF Passes, ClearList, EndInv
  <2> QED BY <1>1, <1>8, <2>1 DEF Passes, ClearList, EndInv, Ending
<1>9. CASE EndForced \/ Deleted
  BY <1>1, <1>9, Kinds DEF Passes, EndForced, Deleted, EndInv, SubInv, Ending
<1> QED BY <1>2, <1>3, <1>4, <1>5, <1>6, <1>7, <1>8, <1>9 DEF User

----------------------------------------------------------------------------
\* What a sequence without repetitions holds when something is added at its end or
\* taken from its head.
LEMMA AddLast ==
  ASSUME NEW S, NEW s \in Seq(S), NEW x \in S
  PROVE  /\ Range(Append(s, x)) = Range(s) \union {x}
         /\ IsInjective(s) /\ x \notin Range(s) => IsInjective(Append(s, x))
<1>1. /\ DOMAIN s = 1..Len(s) /\ Len(s) \in Nat
      /\ DOMAIN Append(s, x) = 1..(Len(s) + 1)
      /\ \A i \in 1..Len(s) : Append(s, x)[i] = s[i]
      /\ Append(s, x)[Len(s) + 1] = x
  OBVIOUS
<1>2. \A i \in 1..(Len(s) + 1) : i \in 1..Len(s) \/ i = Len(s) + 1
  BY <1>1
<1>3. Range(Append(s, x)) = Range(s) \union {x}
  BY <1>1, <1>2 DEF Range
<1>4. IsInjective(s) /\ x \notin Range(s) => IsInjective(Append(s, x))
  BY <1>1, <1>2 DEF Range, IsInjective
<1> QED BY <1>3, <1>4

LEMMA TakeFirst ==
  ASSUME NEW S, NEW s \in Seq(S), s # <<>>
  PROVE  /\ Range(s) = Range(Tail(s)) \union {Head(s)}
         /\ IsInjective(s) => IsInjective(Tail(s)) /\ Head(s) \notin Range(Tail(s))
<1>1. /\ DOMAIN s = 1..Len(s) /\ Len(s) \in Nat /\ Len(s) >= 1
      /\ DOMAIN Tail(s) = 1..(Len(s) - 1)
      /\ \A i \in 1..(Len(s) - 1) : Tail(s)[i] = s[i + 1]
      /\ Head(s) = s[1]
  OBVIOUS
<1>2. \A i \in 1..Len(s) : i = 1 \/ (i - 1 \in 1..(Len(s) - 1) /\ Tail(s)[i - 1] = s[i])
  BY <1>1
<1>3. \A i \in 1..(Len(s) - 1) : i + 1 \in 1..Len(s) /\ i + 1 # 1
  BY <1>1
<1>4. Range(s) = Range(Tail(s)) \union {Head(s)}
  <2>1. \A y \in Range(s) : y \in Range(Tail(s)) \/ y = Head(s)
    <3>1. SUFFICES ASSUME NEW i \in 1..Len(s), s[i] # Head(s)
                   PROVE  s[i] \in Range(Tail(s))
      BY <1>1 DEF Range
    <3> QED BY <1>1, <1>2, <3>1 DEF Range
  <2>2. \A y \in Range(Tail(s)) : y \in Range(s)
    BY <1>1, <1>3 DEF Range
  <2>3. Head(s) \in Range(s)
    BY <1>1 DEF Range
  <2> QED BY <2>1, <2>2, <2>3
<1>5. IsInjective(s) => IsInjective(Tail(s)) /\ Head(s) \notin Range(Tail(s))
  BY <1>1, <1>3 DEF Range, IsInjective
<1> QED BY <1>4, <1>5

LEMMA NoList ==
  Range(<<>>) = {} /\ IsInjective(<<>>)
BY DEF Range, IsInjective

----------------------------------------------------------------------------
\* A task is in one place.
LEMMA OnceWorker ==
  ASSUME TypeOK, PlaceInv, OnceInv, NEW w \in Workers, Worker(w)
  PROVE  OnceInv'
<1>1. CASE GetTask(w) /\ taskList # <<>>
  <2>1. /\ Range(taskList) = Range(taskList') \union {Head(taskList)}
        /\ IsInjective(taskList') /\ Head(taskList) \notin Range(taskList')
    <3>1. taskList \in Seq(Queueable)
      BY DEF TypeOK
    <3>2. taskList' = Tail(taskList) /\ IsInjective(taskList)
      BY <1>1 DEF GetTask, OnceInv
    <3> QED BY <1>1, <3>1, <3>2, TakeFirst
  <2>2. /\ task'[w] = Head(taskList) /\ Taken' = Taken \union {w}
        /\ w \notin Taken /\ w \in Threads /\ Taken \subseteq Threads
        /\ \A t \in Threads : t # w => task'[t] = task[t] /\ pc'[t] = pc[t]
        /\ pc'[w] = "hold"
        /\ UNCHANGED <<over, offered, pushing>>
    BY <1>1, Kinds DEF GetTask, TypeOK, Taken
  <2>3. /\ Head(taskList) \in offered \ over
        /\ \A a \in Actors : pushing[a] # Head(taskList)
        /\ \A t \in Taken : task[t] # Head(taskList)
    BY <2>1, <2>2, Kinds DEF OnceInv, TypeOK
  <2>4. \A f \in Forcible : pc'[f] = pc[f]
    BY <2>2, Kinds
  <2> QED BY <2>1, <2>2, <2>3, <2>4 DEF OnceInv
<1>2. CASE ~(GetTask(w) /\ taskList # <<>>)
  <2>1. UNCHANGED <<over, offered, taskList, pushing, task>>
    BY <1>2 DEF Worker, WorkerLoop, GetTask, NoTask, WorkerWakes
  <2>2. /\ Taken' = Taken
        /\ \A t \in Threads : pc'[t] \in {"ran", "done"} => pc[t] \in {"ran", "done"}
        /\ \A f \in Forcible : pc'[f] = pc[f]
    BY <1>2, Kinds DEF Worker, WorkerLoop, GetTask, NoTask, WorkerWakes, TypeOK, Taken
  <2> QED BY <2>1, <2>2 DEF OnceInv
<1> QED BY <1>1, <1>2

LEMMA OnceTask ==
  ASSUME TypeOK, PlaceInv, OnceInv, NEW t \in Threads,
         \/ Register(t) \/ DoTaskEnds(t) \/ Unregister(t) \/ Complete(t) \/ ForcedEnds(t)
  PROVE  OnceInv'
<1>1. UNCHANGED <<offered, taskList, pushing>>
  BY DEF Register, DoTaskEnds, Unregister, Complete, ForcedEnds
<1>2. \A u \in Threads : u # t => pc'[u] = pc[u] /\ task'[u] = task[u]
  BY Kinds DEF Register, DoTaskEnds, Unregister, Complete, ForcedEnds, TypeOK
<1>3. pc[t] # "off"
  BY DEF Register, DoTaskEnds, Unregister, Complete, ForcedEnds
<1>4. CASE DoTaskEnds(t)
  <2>1. /\ t \in Taken /\ Taken' = Taken \ {t} /\ task' = task
        /\ over' = over \union {task[t]} /\ pc'[t] = "ran"
    BY <1>2, <1>4, Kinds DEF DoTaskEnds, TypeOK, Taken
  <2> QED BY <1>1, <1>2, <1>3, <2>1, Kinds DEF OnceInv
<1>5. CASE ~DoTaskEnds(t)
  <2>1. Taken' = Taken /\ UNCHANGED over
    BY <1>2, <1>5, Kinds DEF Register, Unregister, Complete, ForcedEnds, TypeOK, Taken
  <2>2. \A u \in Threads : u \in Taken \/ pc'[u] \in {"ran", "done"} => task'[u] = task[u]
    BY <1>2, <1>5, Kinds DEF Register, Unregister, Complete, ForcedEnds, TypeOK, Taken
  <2>3. pc'[t] \in {"ran", "done"} => pc[t] \in {"ran", "done"}
    BY <1>5, Kinds DEF Register, Unregister, Complete, ForcedEnds, TypeOK
  <2> QED BY <1>1, <1>2, <1>3, <2>1, <2>2, <2>3, Kinds DEF OnceInv, Taken
<1> QED BY <1>4, <1>5

LEMMA OncePush ==
  ASSUME TypeOK, PlaceInv, OnceInv, NEW a \in Actors, PushTask(a) \/ NotifyPool(a)
  PROVE  OnceInv'
<1>1. Taken' = Taken /\ UNCHANGED <<offered, over, task>>
  BY Kinds DEF PushTask, NotifyPool, Taken, TypeOK
<1>2. \A t \in Threads : t # a => pc'[t] = pc[t]
  BY Kinds DEF PushTask, NotifyPool, TypeOK
<1>3. pc[a] # "off" /\ pc'[a] \notin {"ran", "done"}
  BY DEF PushTask, NotifyPool, TypeOK
<1>4. CASE PushTask(a)
  <2>1. pushing[a] \in Queueable /\ pushing[a] # None
    BY <1>4, Kinds DEF PushTask, PlaceInv
  <2>2. pushing'[a] = None /\ \A b \in Actors : b # a => pushing'[b] = pushing[b]
    BY <1>4 DEF PushTask, TypeOK
  <2>3. Range(taskList') = Range(taskList) \union {pushing[a]} /\ IsInjective(taskList')
    BY <1>4, <2>1, AddLast DEF PushTask, OnceInv, TypeOK
  <2>4. \A t \in Taken : task[t] # None
    BY Kinds DEF OnceInv, TypeOK
  <2>5. \A b \in Actors : pushing'[b] # None => b # a /\ pushing'[b] = pushing[b]
    BY <2>2
  <2>6. \A t \in Taken, b \in Actors : task'[t] # pushing'[b]
    BY <1>1, <2>4, <2>5 DEF OnceInv
  <2>7. \A f \in Forcible : pc'[f] # "off" => f \in offered' /\ \A b \in Actors : pushing'[b] # f
    BY <1>1, <1>2, <1>3, <2>5, Kinds DEF OnceInv
  <2>8. \A t \in Threads : pc'[t] \in {"ran", "done"} => task'[t] \in over'
    BY <1>1, <1>2, <1>3 DEF OnceInv
  <2>9. \A b \in Actors : pushing'[b] # None => pushing'[b] \notin Range(taskList')
    BY <2>1, <2>3, <2>5 DEF OnceInv
  <2>10. Range(taskList') \subseteq offered' \ over'
    BY <1>1, <2>1, <2>3 DEF OnceInv
  <2>11. \A t \in Taken : task[t] \notin Range(taskList')
    BY <2>3 DEF OnceInv
  <2> QED BY <1>1, <2>3, <2>5, <2>6, <2>7, <2>8, <2>9, <2>10, <2>11 DEF OnceInv
<1>5. CASE NotifyPool(a)
  BY <1>1, <1>2, <1>3, <1>5 DEF NotifyPool, OnceInv
<1> QED BY <1>4, <1>5

\* Handing over a task that nobody handed over before
LEMMA OnceNew ==
  ASSUME TypeOK, OnceInv, NEW a \in Actors, NEW new \in Tasks, new \notin offered,
         offered' = offered \union {new},
         \/ over' = over \union {new} /\ pushing' = pushing
         \/ over' = over /\ pushing' = [pushing EXCEPT ![a] = new],
         UNCHANGED <<taskList, task>>,
         Taken' = Taken,
         \A t \in Threads : /\ pc'[t] \in {"ran", "done"} => pc[t] \in {"ran", "done"}
                            /\ pc'[t] # "off" => pc[t] # "off"
  PROVE  OnceInv'
<1>1. /\ new \notin over /\ new \notin Range(taskList) /\ new # None
      /\ \A b \in Actors : pushing[b] # new
      /\ \A t \in Taken : task[t] # new
  BY Kinds DEF OnceInv
<1>2. \A b \in Actors : b # a => pushing'[b] = pushing[b]
  BY DEF TypeOK
<1>3. pushing'[a] = pushing[a] \/ (pushing'[a] = new /\ over' = over)
  BY DEF TypeOK
<1>4. \A b \in Actors : pushing'[b] # None =>
        pushing'[b] \in offered' \ (over' \union Range(taskList))
  BY <1>1, <1>2, <1>3 DEF OnceInv
<1>5. \A b, c \in Actors : pushing'[b] # None /\ pushing'[b] = pushing'[c] => b = c
  BY <1>1, <1>2, <1>3 DEF OnceInv
<1>6. \A t \in Taken : task[t] \in offered' \ (over' \union Range(taskList))
  BY <1>1 DEF OnceInv
<1>7. \A t \in Taken, b \in Actors : task[t] # pushing'[b]
  BY <1>1, <1>2, <1>3 DEF OnceInv
<1>8. \A f \in Forcible : pc'[f] # "off" => f \in offered' /\ \A b \in Actors : pushing'[b] # f
  BY <1>2, <1>3, Kinds DEF OnceInv
<1>9. Range(taskList) \subseteq offered' \ over'
  BY <1>1 DEF OnceInv
<1>10. \A t \in Threads : pc'[t] \in {"ran", "done"} => task[t] \in over'
  BY DEF OnceInv
<1> QED BY <1>4, <1>5, <1>6, <1>7, <1>8, <1>9, <1>10 DEF OnceInv

LEMMA OnceThreads ==
  ASSUME TypeOK, PlaceInv, OnceInv,
         \/ \E w \in Workers : Worker(w)
         \/ \E t \in Threads : DoTask(t)
         \/ ClientCalls \/ ClientGoesOn
  PROVE  OnceInv'
<1>1. ASSUME NEW t \in Threads, NEW new \in New(Queueable), TaskQueues(t, new)
      PROVE  OnceInv'
  <2>1. Taken' = Taken /\ \A u \in Threads : u # t => pc'[u] = pc[u]
    BY <1>1, Kinds DEF TaskQueues, Taken, TypeOK
  <2>2. pc[t] = "run" /\ pc'[t] \notin {"ran", "done", "off"}
    BY <1>1, Kinds DEF TaskQueues, TypeOK
  <2> QED BY <1>1, <2>1, <2>2, Kinds, OnceNew DEF TaskQueues, New
<1>2. ASSUME NEW new \in Tasks, new \notin offered, QueueTask(new) \/ CreateForced(new)
      PROVE  OnceInv'
  <2>1. Taken' = Taken /\ \A u \in Threads : pc'[u] = pc[u]
    BY <1>2, Kinds DEF QueueTask, CreateForced, Taken, TypeOK
  <2> QED BY <1>2, <2>1, Kinds, OnceNew DEF QueueTask, CreateForced
<1>3. ASSUME NEW f \in Forcible, ForceTask(f)
      PROVE  OnceInv'
  <2>1. pc[f] = "off" /\ f = pushing[Client] /\ f # None /\ UNCHANGED <<taskList, offered, over>>
    BY <1>3, ForcedIsNew, Kinds DEF ForceTask
  <2>2. /\ Taken' = Taken \union {f} /\ f \notin Taken /\ task'[f] = f /\ Taken \subseteq Threads
        /\ \A t \in Threads : t # f => task'[t] = task[t] /\ pc'[t] = pc[t]
        /\ pc'[f] = "hold" /\ f \in Threads
    <3>1. /\ f \in Threads /\ f # Client /\ pc'[f] = "hold"
          /\ \A t \in Threads : t # f => pc'[t] = pc[t]
      BY <1>3, Kinds DEF ForceTask, TypeOK
    <3>2. task'[f] = f /\ \A t \in Threads : t # f => task'[t] = task[t]
      BY <1>3, Kinds DEF ForceTask, TypeOK
    <3>3. Taken' = Taken \union {f} /\ f \notin Taken
      <4>1. \A t : t \in Taken' <=> t \in Taken \/ t = f
        BY <3>1 DEF Taken
      <4>2. f \notin Taken
        BY <2>1 DEF Taken
      <4> QED BY <4>1, <4>2
    <3> QED BY <3>1, <3>2, <3>3 DEF Taken
  <2>3. pushing'[Client] = None /\ \A b \in Actors : b # Client => pushing'[b] = pushing[b]
    BY <1>3, Kinds DEF ForceTask, TypeOK
  <2>4. f \in offered \ (over \union Range(taskList))
    BY <2>1, Kinds DEF OnceInv
  <2>5. \A t \in Taken : task[t] # f /\ task[t] # None
    BY <2>1, Kinds DEF OnceInv, TypeOK
  <2>6. \A b \in Actors : pushing'[b] # f /\ (pushing'[b] # None => pushing'[b] = pushing[b])
    BY <2>1, <2>3, Kinds DEF OnceInv
  <2>7. \A t \in Taken', b \in Actors : task'[t] # pushing'[b]
    BY <2>2, <2>5, <2>6 DEF OnceInv
  <2>8. \A t \in Taken' : task'[t] \in offered \ (over \union Range(taskList))
    BY <2>2, <2>4 DEF OnceInv
  <2>9. \A t, u \in Taken' : task'[t] = task'[u] => t = u
    BY <2>2, <2>5 DEF OnceInv
  <2>10. \A g \in Forcible : pc'[g] # "off" => g \in offered /\ \A b \in Actors : pushing'[b] # g
    BY <2>2, <2>4, <2>6, Kinds DEF OnceInv
  <2>11. \A b, c \in Actors : pushing'[b] # None /\ pushing'[b] = pushing'[c] => b = c
    BY <2>6 DEF OnceInv
  <2> QED BY <2>1, <2>2, <2>6, <2>7, <2>8, <2>9, <2>10, <2>11 DEF OnceInv
<1>4. ASSUME NEW t \in Threads, DoTask(t)
      PROVE  OnceInv'
  BY <1>1, <1>4, OnceTask, OncePush, Kinds DEF DoTask
<1> QED BY <1>2, <1>3, <1>4, OnceWorker, OncePush, Kinds DEF ClientCalls, ClientGoesOn, New

LEMMA OnceUser ==
  ASSUME TypeOK, OnceInv, LogIn \/ (\E q \in BOOLEAN : CleanUp(q)) \/ User
  PROVE  OnceInv'
<1>1. UNCHANGED <<pc, task, pushing>> /\ Taken' = Taken
  BY UserMovesNobody DEF Taken
<1>2. UNCHANGED offered
  BY DEF LogIn, CleanUp, User, StopTask, StopThread, OnStop, Join, Passes, PurgeForced, PurgeList,
         Drain, BlockTasks, StopPool, OnStopForced, OnStopNotify, JoinPool, ClearList, EndForced,
         Deleted
<1>3. UNCHANGED <<taskList, over>> \/ ClearTasks
  BY DEF LogIn, CleanUp, User, StopTask, StopThread, OnStop, Join, PurgeForced, PurgeList,
         Drain, BlockTasks, StopPool, OnStopForced, OnStopNotify, JoinPool, ClearList, EndForced,
         Deleted
<1>4. CASE UNCHANGED <<taskList, over>>
  BY <1>1, <1>2, <1>4 DEF OnceInv
<1>5. CASE ClearTasks
  BY <1>1, <1>2, <1>5, NoList DEF OnceInv, ClearTasks
<1> QED BY <1>3, <1>4, <1>5

LEMMA OncePool ==
  ASSUME TypeOK, OnceInv, EndInv, Pool \/ SpuriousWakeup
  PROVE  OnceInv'
<1>1. UNCHANGED <<taskList, offered, over, task, pushing>>
  BY DEF Pool, CreateWorker, LaunchWorker, PoolLoop, RemovedForced, StartNewTasks, Recount,
         LookAtList, SleepOrNot, PoolWakes, SpuriousWakeup
<1>2. CASE UNCHANGED pc
  <2>1. Taken' = Taken
    BY <1>2 DEF Taken
  <2> QED BY <1>1, <1>2, <2>1 DEF OnceInv
<1>3. ASSUME NEW w \in Workers, pc[w] \in {"off", "wait"}, Goto(w, "loop")
      PROVE  OnceInv'
  <2>1. /\ Taken' = Taken
        /\ \A t \in Threads : pc'[t] \in {"ran", "done"} => pc[t] \in {"ran", "done"}
        /\ \A f \in Forcible : pc'[f] = pc[f]
    BY <1>3, Kinds DEF Taken, TypeOK
  <2> QED BY <1>1, <2>1 DEF OnceInv
<1>4. CASE LaunchWorker
  BY <1>3, <1>4 DEF LaunchWorker, EndInv
<1>5. CASE SpuriousWakeup
  BY <1>2, <1>3, <1>5 DEF SpuriousWakeup
<1> QED BY <1>2, <1>4, <1>5, PoolMovesNobody

----------------------------------------------------------------------------
\* A task that was told to stop is on its way to an end.
LEMMA ToldKept ==
  ASSUME ToldInv, UNCHANGED <<told, phase, cur>>, over \subseteq over',
         \A t \in Threads : /\ Underway(t)' <=> Underway(t)
                            /\ Underway(t) => task'[t] = task[t]
  PROVE  ToldInv'
<1>1. \A x \in told : x \in over' \/ \E t \in Threads : Underway(t)' /\ task'[t] = x
  BY DEF ToldInv
<1>2. phase \in {"block", "out", "in"} =>
        \A w \in Workers : Underway(w)' => task'[w] \notin told
  BY Kinds DEF ToldInv
<1>3. phase \notin Ending =>
        \A f \in Forcible : Underway(f)' /\ f \in told => phase = "purgeForced" /\ cur = f
  BY Kinds DEF ToldInv
<1> QED BY <1>1, <1>2, <1>3 DEF ToldInv

LEMMA ToldThreads ==
  ASSUME TypeOK, PlaceInv, OnceInv, ToldInv,
         \/ \E w \in Workers : Worker(w)
         \/ \E t \in Threads : DoTask(t)
         \/ ClientCalls \/ ClientGoesOn
  PROVE  ToldInv'
<1>1. ASSUME NEW t \in Threads, Register(t)
      PROVE  ToldInv'
  <2>1. /\ \A u \in Threads : Underway(u)' <=> Underway(u) \/ u = t
        /\ UNCHANGED <<task, over, told, phase, cur>>
    BY <1>1, Kinds DEF Register, TypeOK, Underway
  <2>2. task[t] \notin told
    <3>1. t \in Taken /\ ~Underway(t) /\ \A u \in Threads : Underway(u) => u \in Taken
      BY <1>1 DEF Register, Taken, Underway
    <3> QED BY <3>1 DEF OnceInv, ToldInv
  <2>3. \A f \in Forcible : f = t => task[t] = f
    BY <1>1 DEF Register, PlaceInv, Holding
  <2>4. \A x \in told : x \in over \/ \E u \in Threads : Underway(u)' /\ task[u] = x
    BY <2>1 DEF ToldInv
  <2>5. phase \in {"block", "out", "in"} =>
          \A w \in Workers : Underway(w)' => task[w] \notin told
    BY <2>1, <2>2, Kinds DEF ToldInv
  <2>6. phase \notin Ending =>
          \A f \in Forcible : Underway(f)' /\ f \in told => phase = "purgeForced" /\ cur = f
    BY <2>1, <2>2, <2>3, Kinds DEF ToldInv
  <2> QED BY <2>1, <2>4, <2>5, <2>6 DEF ToldInv
<1>2. ASSUME NEW t \in Threads, DoTaskEnds(t)
      PROVE  ToldInv'
  <2>1. /\ \A u \in Threads : Underway(u)' <=> Underway(u) /\ u # t
        /\ UNCHANGED <<task, told, phase, cur>> /\ over' = over \union {task[t]}
    BY <1>2, Kinds DEF DoTaskEnds, TypeOK, Underway
  <2>2. \A x \in told : x \in over' \/ \E u \in Threads : Underway(u)' /\ task[u] = x
    BY <2>1 DEF ToldInv
  <2>3. phase \in {"block", "out", "in"} =>
          \A w \in Workers : Underway(w)' => task[w] \notin told
    BY <2>1, Kinds DEF ToldInv
  <2>4. phase \notin Ending =>
          \A f \in Forcible : Underway(f)' /\ f \in told => phase = "purgeForced" /\ cur = f
    BY <2>1, Kinds DEF ToldInv
  <2> QED BY <2>1, <2>2, <2>3, <2>4 DEF ToldInv
<1>3. ASSUME NEW w \in Workers, Worker(w)
      PROVE  ToldInv'
  <2>1. /\ UNCHANGED <<told, phase, cur, over>>
        /\ \A t \in Threads : t # w => pc'[t] = pc[t] /\ task'[t] = task[t]
        /\ ~Underway(w) /\ ~Underway(w)'
    BY <1>3, Kinds DEF Worker, WorkerLoop, GetTask, NoTask, WorkerWakes, TypeOK, Underway
  <2>2. \A t \in Threads : /\ Underway(t)' <=> Underway(t)
                           /\ Underway(t) => task'[t] = task[t]
    BY <2>1 DEF Underway
  <2> QED BY <2>1, <2>2, ToldKept
<1>4. ASSUME NEW t \in Threads, Unregister(t) \/ Complete(t) \/ ForcedEnds(t)
      PROVE  ToldInv'
  <2>1. /\ UNCHANGED <<told, phase, cur, over>>
        /\ \A u \in Threads : u # t => pc'[u] = pc[u] /\ task'[u] = task[u]
        /\ ~Underway(t) /\ ~Underway(t)'
    BY <1>4, Kinds DEF Unregister, Complete, ForcedEnds, TypeOK, Underway
  <2>2. \A u \in Threads : /\ Underway(u)' <=> Underway(u)
                           /\ Underway(u) => task'[u] = task[u]
    BY <2>1 DEF Underway
  <2> QED BY <2>1, <2>2, ToldKept
<1>5. ASSUME NEW a \in Actors, PushTask(a) \/ NotifyPool(a)
      PROVE  ToldInv'
  <2>1. UNCHANGED <<told, phase, cur, over, task>>
    BY <1>5 DEF PushTask, NotifyPool
  <2>2. \A u \in Threads : Underway(u)' <=> Underway(u)
    BY <1>5, Kinds DEF PushTask, NotifyPool, TypeOK, Underway
  <2> QED BY <2>1, <2>2, ToldKept
<1>6. ASSUME NEW t \in Threads, NEW new, TaskQueues(t, new)
      PROVE  ToldInv'
  <2>1. UNCHANGED <<told, phase, cur, task>> /\ over \subseteq over'
    BY <1>6 DEF TaskQueues
  <2>2. \A u \in Threads : Underway(u)' <=> Underway(u)
    BY <1>6, Kinds DEF TaskQueues, TypeOK, Underway
  <2> QED BY <2>1, <2>2, ToldKept
<1>7. ASSUME NEW new, QueueTask(new) \/ CreateForced(new)
      PROVE  ToldInv'
  <2>1. UNCHANGED <<told, phase, cur, task>> /\ over \subseteq over'
    BY <1>7 DEF QueueTask, CreateForced
  <2>2. \A u \in Threads : Underway(u)' <=> Underway(u)
    BY <1>7, Kinds DEF QueueTask, CreateForced, TypeOK, Underway
  <2> QED BY <2>1, <2>2, ToldKept
<1>8. ASSUME NEW f \in Forcible, ForceTask(f)
      PROVE  ToldInv'
  <2>1. UNCHANGED <<told, phase, cur, over>> /\ pc[f] = "off" /\ pc'[f] = "hold"
    BY <1>8, ForcedIsNew, Kinds DEF ForceTask, TypeOK
  <2>2. \A u \in Threads : u # f => pc'[u] = pc[u] /\ task'[u] = task[u]
    BY <1>8, Kinds DEF ForceTask, TypeOK
  <2>3. \A u \in Threads : /\ Underway(u)' <=> Underway(u)
                           /\ Underway(u) => task'[u] = task[u]
    BY <2>1, <2>2 DEF Underway
  <2> QED BY <2>1, <2>3, ToldKept
<1>9. ASSUME NEW t \in Threads, DoTask(t)
      PROVE  ToldInv'
  BY <1>9, <1>1, <1>2, <1>4, <1>5, <1>6, Kinds DEF DoTask
<1> QED BY <1>3, <1>5, <1>7, <1>8, <1>9, Kinds DEF ClientCalls, ClientGoesOn

LEMMA ToldPool ==
  ASSUME TypeOK, ToldInv, EndInv, Pool \/ SpuriousWakeup
  PROVE  ToldInv'
<1>1. UNCHANGED <<told, phase, cur, over, task>>
  BY DEF Pool, CreateWorker, LaunchWorker, PoolLoop, RemovedForced, StartNewTasks, Recount,
         LookAtList, SleepOrNot, PoolWakes, SpuriousWakeup
<1>2. ASSUME NEW w \in Workers, pc[w] \in {"off", "wait"}, Goto(w, "loop")
      PROVE  \A t \in Threads : Underway(t)' <=> Underway(t)
  BY <1>2, Kinds DEF Underway, TypeOK
<1>3. CASE UNCHANGED pc
  <2>1. \A t \in Threads : Underway(t)' <=> Underway(t)
    BY <1>3 DEF Underway
  <2> QED BY <1>1, <2>1, ToldKept
<1>4. CASE LaunchWorker
  <2>1. \A t \in Threads : Underway(t)' <=> Underway(t)
    BY <1>2, <1>4 DEF LaunchWorker, EndInv
  <2> QED BY <1>1, <2>1, ToldKept
<1>5. CASE \E w \in Workers : pc[w] = "wait" /\ Goto(w, "loop")
  <2>1. \A t \in Threads : Underway(t)' <=> Underway(t)
    BY <1>2, <1>5
  <2> QED BY <1>1, <2>1, ToldKept
<1> QED BY <1>3, <1>4, <1>5, PoolMovesNobody DEF SpuriousWakeup

LEMMA ToldUser ==
  ASSUME TypeOK, PlaceInv, SubInv, OnceInv, ToldInv, EndInv,
         LogIn \/ (\E q \in BOOLEAN : CleanUp(q)) \/ User
  PROVE  ToldInv'
<1>1. UNCHANGED <<pc, task>> /\ \A t : Underway(t)' <=> Underway(t)
  BY UserMovesNobody DEF Underway
<1>2. over \subseteq over'
  BY DEF LogIn, CleanUp, User, StopTask, StopThread, OnStop, Join, Passes, PurgeForced, PurgeList,
         Drain, BlockTasks, StopPool, OnStopForced, OnStopNotify, JoinPool, ClearList,
         ClearTasks, EndForced, Deleted
<1>3. ASSUME NEW t \in Threads, told' = told \union ({mTask[t]} \ {None})
      PROVE  /\ \A x \in told' : x \in over \/ \E u \in Threads : Underway(u) /\ task[u] = x
             /\ \A f \in Forcible : Underway(f) /\ f \in told' => f \in told \/ f = t
  <2>1. mTask[t] # None => pc[t] \in Registered /\ mTask[t] = task[t]
    BY DEF PlaceInv
  <2>2. mTask[t] # None => task[t] \in over \/ Underway(t)
    BY <2>1 DEF OnceInv, Registered, Underway
  <2>3. \A f \in Forcible : mTask[t] = f /\ Underway(f) => t = f
    BY <2>1, Kinds DEF PlaceInv, Holding, Registered, Underway
  <2> QED BY <1>3, <2>1, <2>2, <2>3 DEF ToldInv
<1>4. ASSUME NEW w \in Workers, StopTask(w)
      PROVE  ToldInv'
  <2>1. phase = "purge" /\ UNCHANGED <<phase, cur, over>>
    BY <1>4 DEF StopTask
  <2> QED BY <1>1, <1>3, <1>4, <2>1, Kinds DEF StopTask, ToldInv
<1>5. CASE OnStop
  <2>1. cur \in Threads /\ phase \in StopPhases /\ UNCHANGED <<phase, cur, over>>
    BY <1>5 DEF OnStop, SubInv, TypeOK
  <2> QED BY <1>1, <1>3, <1>5, <2>1 DEF OnStop, ToldInv, StopPhases, Ending
<1>6. CASE LogIn \/ BlockTasks \/ (\E q \in BOOLEAN : CleanUp(q)) \/ StopPool
  BY <1>1, <1>2, <1>6 DEF LogIn, BlockTasks, CleanUp, StopPool, ToldInv, Ending
<1>7. ASSUME NEW t \in Threads, StopThread(t)
      PROVE  ToldInv'
  <2>1. UNCHANGED <<phase, told>> /\ cur = None /\ \A f \in Forcible : f # None
    BY <1>7, Kinds DEF StopThread, SubInv
  <2> QED BY <1>1, <1>2, <2>1 DEF ToldInv
<1>8. CASE Join
  <2>1. UNCHANGED <<phase, told>> /\ ~Underway(cur)
    BY <1>8 DEF Join, Underway
  <2> QED BY <1>1, <1>2, <2>1 DEF ToldInv
<1>9. CASE Drain
  <2>1. \A w \in Workers : ~Underway(w)
    <3>1. \A w \in Workers : w \in Listed => mTask[w] = None
      BY <1>9 DEF Drain, HasTask
    <3>2. \A w \in Workers : w \notin Listed => pc[w] = "off"
      BY ListedAre, WorkersAre DEF EndInv, TypeOK
    <3>3. \A w \in Workers : Underway(w) => task[w] # None /\ mTask[w] = task[w]
      BY Kinds DEF PlaceInv, Underway, Holding, Registered
    <3> QED BY <3>1, <3>2, <3>3 DEF Underway
  <2> QED BY <1>1, <1>2, <1>9, <2>1 DEF Drain, Passes, ToldInv, Ending
<1>10. CASE PurgeList \/ PurgeForced
  <2>1. cur = None /\ \A f \in Forcible : f # None
    BY <1>10, Kinds DEF PurgeList, PurgeForced, Passes, SubInv
  <2> QED BY <1>1, <1>2, <1>10, <2>1 DEF PurgeList, PurgeForced, Passes, ToldInv, Ending
<1>11. CASE OnStopForced \/ OnStopNotify \/ JoinPool \/ ClearList \/ EndForced \/ Deleted
  BY <1>1, <1>2, <1>11 DEF OnStopForced, OnStopNotify, JoinPool, ClearList, EndForced, Deleted,
                           Passes, ToldInv, Ending
<1> QED BY <1>4, <1>5, <1>6, <1>7, <1>8, <1>9, <1>10, <1>11 DEF User

----------------------------------------------------------------------------
\* The pool is a queue.
Running == {task[t] : t \in Taken}

\* While one worker is idle the others have fewer tasks than there are workers.
LEMMA FewerTasks ==
  ASSUME NEW w \in Workers, NEW g, NEW R,
         \A x \in R : \E v \in Workers \ {w} : g[v] = x
  PROVE  Cardinality(R) < NumWorkers
<1> DEFINE S == Workers \ {w}
           T == {g[v] : v \in S}
           f == [v \in S |-> g[v]]
<1>1. IsFiniteSet(Workers) /\ Cardinality(Workers) = NumWorkers
  BY FS_Interval, WorkersAre DEF Workers
<1>2. IsFiniteSet(S) /\ Cardinality(S) = NumWorkers - 1
  BY <1>1, FS_RemoveElement
<1>3. f \in Surjection(S, T)
  BY DEF Surjection
<1>4. IsFiniteSet(T) /\ Cardinality(T) <= Cardinality(S)
  BY <1>2, <1>3, FS_Surjection
<1>5. R \subseteq T
  OBVIOUS
<1>6. Cardinality(R) <= Cardinality(T) /\ Cardinality(R) \in Nat /\ Cardinality(T) \in Nat
  BY <1>4, <1>5, FS_Subset, FS_CardinalityType
<1> QED BY <1>2, <1>4, <1>6, WorkersAre

LEMMA SameRunning ==
  ASSUME Taken' = Taken, \A t \in Taken : task'[t] = task[t]
  PROVE  Running' = Running
BY DEF Running

LEMMA QueueWorker ==
  ASSUME TypeOK, PlaceInv, OnceInv, NEW w \in Workers, Worker(w)
  PROVE  Abstract!Next \/ UNCHANGED <<taskList, Running, over>>
<1>1. CASE GetTask(w) /\ taskList # <<>>
  <2>1. /\ task'[w] = Head(taskList) /\ taskList' = Tail(taskList)
        /\ w \notin Taken /\ w \in Threads /\ Taken \subseteq Threads
        /\ \A t \in Threads : t # w => task'[t] = task[t]
        /\ UNCHANGED over
    BY <1>1, Kinds DEF GetTask, TypeOK, Taken
  <2>2. Taken' = Taken \union {w}
    BY <1>1, Kinds DEF GetTask, TypeOK, Taken
  <2>3. Running' = Running \union {Head(taskList)}
    BY <2>1, <2>2 DEF Running
  <2>4. \A x \in Running \ Forcible : \E v \in Workers \ {w} : task[v] = x
    BY <2>1, Kinds DEF Running, Taken, PlaceInv, Holding
  <2>5. Cardinality(Running \ Forcible) < NumWorkers
    BY <2>4, FewerTasks
  <2>6. Abstract!Cardinality(Running \ Forcible) = Cardinality(Running \ Forcible)
    BY DEF Abstract!Cardinality, Cardinality
  <2>7. Abstract!StartFirst
    BY <1>1, <2>1, <2>3, <2>5, <2>6 DEF Abstract!StartFirst, Running
  <2> QED BY <2>7 DEF Abstract!Next
<1>2. CASE ~(GetTask(w) /\ taskList # <<>>)
  <2>1. Taken' = Taken /\ UNCHANGED <<task, taskList, over>>
    BY <1>2, Kinds DEF Worker, WorkerLoop, GetTask, NoTask, WorkerWakes, TypeOK, Taken
  <2> QED BY <2>1, SameRunning
<1> QED BY <1>1, <1>2

LEMMA QueueTaskEnds ==
  ASSUME TypeOK, PlaceInv, OnceInv, NEW t \in Threads, DoTaskEnds(t)
  PROVE  Abstract!Next
<1>1. /\ t \in Taken /\ UNCHANGED <<taskList, task>> /\ over' = over \union {task[t]}
      /\ \A u : u \in Taken' <=> u \in Taken /\ u # t
  <2>1. /\ pc[t] = "run" /\ pc'[t] = "ran" /\ \A u \in Threads : u # t => pc'[u] = pc[u]
        /\ UNCHANGED <<taskList, task>> /\ over' = over \union {task[t]}
    BY Kinds DEF DoTaskEnds, TypeOK
  <2> QED BY <2>1 DEF Taken
<1>2. \A u \in Taken : task[u] = task[t] => u = t
  BY <1>1 DEF OnceInv
<1>3. Running' = Running \ {task[t]} /\ task[t] \in Running
  BY <1>1, <1>2 DEF Running
<1>4. task[t] \in Abstract!Tasks
  BY <1>1 DEF OnceInv, TypeOK, Tasks, Abstract!Tasks
<1>5. \E x \in Abstract!Tasks : Abstract!Finish(x)
  BY <1>1, <1>3, <1>4 DEF Abstract!Finish, Running
<1> QED BY <1>5 DEF Abstract!Next

LEMMA QueuePush ==
  ASSUME TypeOK, PlaceInv, OnceInv, NEW a \in Actors, PushTask(a) \/ NotifyPool(a)
  PROVE  Abstract!Next \/ UNCHANGED <<taskList, Running, over>>
<1>1. Taken' = Taken /\ UNCHANGED <<over, task>>
  BY Kinds DEF PushTask, NotifyPool, Taken, TypeOK
<1>2. Running' = Running
  BY <1>1, SameRunning
<1>3. CASE PushTask(a)
  <2>1. pushing[a] \in Queueable /\ pushing[a] # None
    BY <1>3, Kinds DEF PushTask, PlaceInv
  <2>2. pushing[a] \notin Range(taskList) \union Running \union over
    BY <2>1 DEF OnceInv, Running
  <2>3. Abstract!Enter(pushing[a])
    BY <1>1, <1>2, <1>3, <2>2 DEF PushTask, Abstract!Enter, Abstract!Fresh, Abstract!Range, Range,
                                  Running
  <2> QED BY <2>1, <2>3 DEF Abstract!Next
<1>4. CASE NotifyPool(a)
  BY <1>1, <1>2, <1>4 DEF NotifyPool
<1> QED BY <1>3, <1>4

\* A task nobody handed over before is nowhere.
LEMMA NewIsFresh ==
  ASSUME TypeOK, OnceInv, NEW new \in Tasks, new \notin offered
  PROVE  Abstract!Fresh(new)
<1>1. new \notin Range(taskList) \union Running \union over
  BY DEF OnceInv, Running
<1> QED BY <1>1 DEF Abstract!Fresh, Abstract!Range, Range, Running

LEMMA QueueNew ==
  ASSUME TypeOK, OnceInv, NEW new \in Tasks, new \notin offered,
         \/ new \in Queueable /\ QueueTask(new)
         \/ new \in Queueable /\ \E t \in Threads : TaskQueues(t, new)
         \/ CreateForced(new)
  PROVE  Abstract!Next \/ UNCHANGED <<taskList, Running, over>>
<1>1. Taken' = Taken /\ UNCHANGED <<taskList, task>>
  BY Kinds DEF QueueTask, TaskQueues, CreateForced, Taken, TypeOK
<1>2. Running' = Running
  BY <1>1, SameRunning
<1>3. over' = over \/ (new \in Queueable /\ over' = over \union {new})
  BY DEF QueueTask, TaskQueues, CreateForced
<1>4. CASE new \in Queueable /\ over' = over \union {new}
  <2>1. Abstract!Refuse(new)
    BY <1>1, <1>2, <1>4, NewIsFresh DEF Abstract!Refuse, Running
  <2> QED BY <1>4, <2>1 DEF Abstract!Next
<1> QED BY <1>1, <1>2, <1>3, <1>4

LEMMA QueueForce ==
  ASSUME TypeOK, PlaceInv, OnceInv, NEW f \in Forcible, ForceTask(f)
  PROVE  Abstract!Next
<1>1. /\ pc[f] = "off" /\ f = pushing[Client] /\ f # None /\ UNCHANGED <<taskList, over>>
      /\ f \in Threads
  BY ForcedIsNew, Kinds DEF ForceTask
<1>2. f \notin Range(taskList) \union Running \union over
  BY <1>1, Kinds DEF OnceInv, Running
<1>3. \A u : u \in Taken' <=> u \in Taken \/ u = f
  <2>1. /\ f # Client /\ pc'[f] = "hold"
        /\ \A t \in Threads : t # f => pc'[t] = pc[t]
    BY <1>1, Kinds DEF ForceTask, TypeOK
  <2> QED BY <1>1, <2>1 DEF Taken
<1>4. f \notin Taken /\ Taken \subseteq Threads
  BY <1>1 DEF Taken
<1>5. task'[f] = f /\ \A t \in Threads : t # f => task'[t] = task[t]
  BY <1>1 DEF ForceTask, TypeOK
<1>6. Running' = Running \union {f}
  BY <1>3, <1>4, <1>5 DEF Running
<1>7. Abstract!StartNow(f)
  BY <1>1, <1>2, <1>6 DEF Abstract!StartNow, Abstract!Fresh, Abstract!Range, Range, Running
<1> QED BY <1>7 DEF Abstract!Next

LEMMA QueueThreads ==
  ASSUME TypeOK, PlaceInv, OnceInv,
         \/ \E w \in Workers : Worker(w)
         \/ \E t \in Threads : DoTask(t)
         \/ ClientCalls \/ ClientGoesOn
  PROVE  Abstract!Next \/ UNCHANGED <<taskList, Running, over>>
<1>1. ASSUME NEW t \in Threads, Register(t) \/ Unregister(t) \/ Complete(t) \/ ForcedEnds(t)
      PROVE  UNCHANGED <<taskList, Running, over>>
  <2>1. Taken' = Taken /\ UNCHANGED <<taskList, over>>
    BY <1>1, Kinds DEF Register, Unregister, Complete, ForcedEnds, TypeOK, Taken
  <2>2. \A u \in Taken : task'[u] = task[u]
    BY <1>1, Kinds DEF Register, Unregister, Complete, ForcedEnds, TypeOK, Taken
  <2> QED BY <2>1, <2>2, SameRunning
<1>2. ASSUME NEW t \in Threads, DoTask(t)
      PROVE  Abstract!Next \/ UNCHANGED <<taskList, Running, over>>
  <2>1. CASE \E new \in New(Queueable) : TaskQueues(t, new)
    BY <2>1, QueueNew, Kinds DEF New
  <2> QED BY <1>1, <1>2, <2>1, QueueTaskEnds, QueuePush, Kinds DEF DoTask
<1>3. CASE ClientCalls
  BY <1>3, QueueNew, Kinds DEF ClientCalls, New
<1>4. CASE ClientGoesOn
  BY <1>4, QueuePush, QueueForce, Kinds DEF ClientGoesOn
<1> QED BY <1>2, <1>3, <1>4, QueueWorker

LEMMA QueueRest ==
  ASSUME TypeOK, OnceInv, EndInv,
         Pool \/ SpuriousWakeup \/ LogIn \/ (\E q \in BOOLEAN : CleanUp(q)) \/ User
  PROVE  Abstract!Next \/ UNCHANGED <<taskList, Running, over>>
<1>1. CASE Pool \/ SpuriousWakeup
  <2>1. UNCHANGED <<taskList, task, over>>
    BY <1>1 DEF Pool, CreateWorker, LaunchWorker, PoolLoop, RemovedForced, StartNewTasks, Recount,
                LookAtList, SleepOrNot, PoolWakes, SpuriousWakeup
  <2>2. ASSUME NEW w \in Workers, pc[w] \in {"off", "wait"}, Goto(w, "loop")
        PROVE  Taken' = Taken
    BY <2>2, Kinds DEF Taken, TypeOK
  <2>3. UNCHANGED pc => Taken' = Taken
    BY DEF Taken
  <2>4. Taken' = Taken
    BY <1>1, <2>2, <2>3, PoolMovesNobody DEF LaunchWorker, EndInv, SpuriousWakeup
  <2> QED BY <2>1, <2>4, SameRunning
<1>2. CASE LogIn \/ (\E q \in BOOLEAN : CleanUp(q)) \/ User
  <2>1. Taken' = Taken /\ UNCHANGED task
    BY <1>2, UserMovesNobody DEF Taken
  <2>2. Running' = Running
    BY <2>1, SameRunning
  <2>3. UNCHANGED <<taskList, over>> \/ ClearTasks
    BY <1>2 DEF LogIn, CleanUp, User, StopTask, StopThread, OnStop, Join, PurgeForced, PurgeList,
           Drain, BlockTasks, StopPool, OnStopForced, OnStopNotify, JoinPool, ClearList,
           EndForced, Deleted
  <2>4. ClearTasks => Abstract!Purge
    BY <2>2 DEF ClearTasks, Abstract!Purge, Abstract!Range, Range, Running
  <2> QED BY <2>2, <2>3, <2>4 DEF Abstract!Next
<1> QED BY <1>1, <1>2

----------------------------------------------------------------------------
\* The invariant holds at first and every step keeps it.
LEMMA InitInv == Init => IInv
<1> SUFFICES ASSUME Init
             PROVE  IInv
  OBVIOUS
<1>1. \A a \in Actors : pc[a] = IF a = Client THEN "idle" ELSE "off"
  BY DEF Init
<1>2. \A t \in Threads : pc[t] = "off" /\ task[t] = None /\ mTask[t] = None
  BY <1>1, Kinds DEF Init
<1>3. TypeOK
  <2>1. <<>> \in Seq(Queueable) /\ 0 \in 0..NumWorkers /\ 0 \in 0..MaxLogins
    BY WorkersAre
  <2>2. pc \in [Actors -> Places]
    BY DEF Init, Places
  <2> QED BY <2>1, <2>2 DEF Init, TypeOK, PoolPlaces, Phases
<1>4. PlaceInv
  BY <1>1, <1>2, Kinds DEF Init, PlaceInv, Holding, Registered
<1>5. SubInv /\ AwakeInv
  BY DEF Init, SubInv, AwakeInv
<1>6. OnceInv
  <2>1. Taken = {}
    BY <1>2 DEF Taken
  <2>2. \A a \in Actors : pushing[a] = None
    BY DEF Init
  <2> QED BY <1>2, <2>1, <2>2, NoList, Kinds DEF Init, OnceInv
<1>7. ToldInv
  BY <1>2, Kinds DEF Init, ToldInv, Underway, Ending
<1>8. EndInv
  <2>1. \A w \in Workers : ~(w <= made)
    BY WorkersAre DEF Init
  <2> QED BY <1>1, <1>2, <2>1, Kinds DEF Init, EndInv, Ending
<1> QED BY <1>3, <1>4, <1>5, <1>6, <1>7, <1>8 DEF IInv

LEMMA NextInv == IInv /\ [Next]_vars => IInv'
<1> SUFFICES ASSUME IInv, [Next]_vars
             PROVE  IInv'
  OBVIOUS
<1> USE DEF IInv
<1>1. CASE UNCHANGED vars
  <2>1. Taken' = Taken /\ \A t : Underway(t)' <=> Underway(t)
    BY <1>1 DEF Taken, Underway
  <2> QED BY <1>1, <2>1 DEF TypeOK, PlaceInv, SubInv, AwakeInv, OnceInv, ToldInv, EndInv
<1>2. CASE \/ \E w \in Workers : Worker(w)
           \/ \E t \in Threads : DoTask(t)
           \/ ClientCalls \/ ClientGoesOn
  <2>1. PlaceInv'
    BY <1>2, PlaceWorker, PlaceTask, PlaceClient
  <2>2. Next
    BY <1>2 DEF Next
  <2> QED BY <1>2, <2>1, <2>2, TypeThreads, SubStep, AwakeThreads, OnceThreads, ToldThreads,
             EndThreads
<1>3. CASE LogIn \/ (\E q \in BOOLEAN : CleanUp(q)) \/ User
  <2>1. PlaceInv'
    BY <1>3, UserMovesNobody DEF PlaceInv
  <2>2. Next
    BY <1>3 DEF Next
  <2> QED BY <1>3, <2>1, <2>2, TypeUser, SubStep, AwakeUser, OnceUser, ToldUser, EndUser
<1>4. CASE Pool \/ SpuriousWakeup
  <2>1. PlaceInv'
    <3>1. CASE UNCHANGED <<pc, task, mTask, pushing>>
      BY <3>1 DEF PlaceInv
    <3>2. CASE LaunchWorker
      BY <3>2, PlaceWorker DEF LaunchWorker, EndInv
    <3>3. CASE SpuriousWakeup
      BY <3>1, <3>3, PlaceWorker DEF SpuriousWakeup
    <3> QED BY <1>4, <3>1, <3>2, <3>3, PoolMovesNobody
  <2>2. Next
    BY <1>4 DEF Next
  <2> QED BY <1>4, <2>1, <2>2, TypePool, TypeUser, SubStep, AwakePool, OncePool, ToldPool, EndPool
<1> QED BY <1>1, <1>2, <1>3, <1>4 DEF Next

\* Every reachable state satisfies the invariant.
THEOREM Invariance == Spec => []IInv
<1> QED BY InitInv, NextInv, PTL DEF Spec

----------------------------------------------------------------------------
\* Every variable keeps its type, and there are never more than NumWorkers workers.
THEOREM TypeCorrect == Spec => []TypeOK
<1>1. IInv => TypeOK
  BY DEF IInv
<1> QED BY <1>1, Invariance, PTL

\* No wake-up is lost: the pool and all its workers never sleep over a task in the list.
THEOREM NobodySleeps == Spec => []NobodySleepsOnWork
<1>1. IInv => NobodySleepsOnWork
  BY DEF IInv, AwakeInv, NobodySleepsOnWork, Registered
<1> QED BY <1>1, Invariance, PTL

\* A task that purgeTasks told to stop is not running when it has returned.
THEOREM PurgeIsThorough == Spec => []ToldIsOver
<1>1. IInv => ToldIsOver
  BY Kinds DEF IInv, ToldInv, PlaceInv, Holding, ToldIsOver, Underway, Ending
<1> QED BY <1>1, Invariance, PTL

\* No thread is left when cleanup has returned.
THEOREM CleanupIsThorough == Spec => []NothingSurvives
<1>1. IInv => NothingSurvives
  BY DEF IInv, EndInv, NothingSurvives
<1> QED BY <1>1, Invariance, PTL

\* The pool implements the abstract queue: each task starts once, in order, or
\* never, and at most NumWorkers of the queued ones run at a time.
THEOREM PoolIsAQueue == Spec => QueueSpec
<1>1. Init => Abstract!Init
  <2>1. Init => Running = {}
    BY Kinds DEF Init, Running, Taken
  <2> QED BY <2>1 DEF Init, Abstract!Init, Running
<1>2. IInv /\ [Next]_vars => [Abstract!Next]_Abstract!vars
  <2> SUFFICES ASSUME IInv, [Next]_vars
               PROVE  Abstract!Next \/ UNCHANGED <<taskList, Running, over>>
    BY DEF Abstract!vars, Running
  <2>1. CASE UNCHANGED vars
    <3>1. Taken' = Taken
      BY <2>1 DEF Taken
    <3> QED BY <2>1, <3>1, SameRunning
  <2>2. CASE Next
    BY <2>2, QueueThreads, QueueRest DEF IInv, Next
  <2> QED BY <2>1, <2>2
<1> QED BY <1>1, <1>2, Invariance, PTL DEF Spec, QueueSpec, Abstract!Spec

----------------------------------------------------------------------------
\* A thread that is joined was told to stop, and is awake to see it.
StopInv ==
  /\ sub # "pick" => stop[cur]
  /\ sub # "pick" => pc[cur] # "off"
  /\ \A w \in Workers : stop[w] => pc[w] # "wait" \/ noted[w] \/ (sub = "ask" /\ cur = w)
  /\ phase = "purgeForced" => todo \subseteq Forcible /\ cur \in Forcible \union {None}
  /\ phase \in Ending => poolStop
  /\ phase = "joinPool" /\ pool = "wait" => note

\* The user's thread joins a thread that runs on to its end, but for the deadlocks of
\* purgeTasks: it was started and told to stop, it is woken if it sleeps, and neither
\* m_TaskMutex nor m_DownloadLock holds it up. The pool's own thread is woken, too.
JoinsEnd ==
  /\ sub = "join" =>
       /\ pc[cur] # "off" /\ stop[cur]
       /\ cur \in Workers /\ pc[cur] = "wait" => noted[cur]
       /\ Deadlocked \/ ((pc[cur] \in {"get", "push"} => TaskMutexFree)
                           /\ (pc[cur] = "run" => MayEnd(cur)))
  /\ phase = "joinPool" /\ pool = "wait" => poolStop /\ note

LEMMA StopThreads ==
  ASSUME TypeOK, PlaceInv, SubInv, OnceInv, StopInv,
         \/ \E w \in Workers : Worker(w)
         \/ \E t \in Threads : DoTask(t)
         \/ ClientCalls \/ ClientGoesOn
  PROVE  StopInv'
<1> USE DEF TypeOK
<1>1. UNCHANGED <<stop, phase, sub, cur, todo, poolStop, pool>> /\ (note => note' \/ pool # "wait")
  BY DEF Worker, WorkerLoop, GetTask, NoTask, WorkerWakes, DoTask, Register, PushTask, NotifyPool,
         DoTaskEnds, Unregister, Complete, ForcedEnds, TaskQueues, ClientCalls, QueueTask,
         CreateForced, ClientGoesOn, ForceTask
<1>2. \A t \in Threads : pc[t] # "off" => pc'[t] # "off"
  <2>1. ASSUME NEW w \in Workers, Worker(w), NEW t \in Threads, pc[t] # "off" PROVE pc'[t] # "off"
    BY <2>1, Kinds DEF Worker, WorkerLoop, GetTask, NoTask, WorkerWakes
  <2>2. ASSUME NEW u \in Threads, DoTask(u), NEW t \in Threads, pc[t] # "off" PROVE pc'[t] # "off"
    BY <2>2, Kinds DEF DoTask, Register, PushTask, NotifyPool, DoTaskEnds, Unregister, Complete,
         ForcedEnds, TaskQueues
  <2>3. ASSUME ClientCalls \/ ClientGoesOn, NEW t \in Threads, pc[t] # "off" PROVE pc'[t] # "off"
    BY <2>3, Kinds DEF ClientCalls, QueueTask, CreateForced, ClientGoesOn, ForceTask, PushTask,
         NotifyPool, New
  <2> QED BY <2>1, <2>2, <2>3
<1>3. ASSUME NEW v \in Workers, stop[v], pc'[v] = "wait" PROVE pc[v] = "wait" /\ noted'[v] = noted[v]
  <2>1. ASSUME NEW w \in Workers, Worker(w) PROVE pc[v] = "wait" /\ noted'[v] = noted[v]
    BY <1>3, <2>1, Kinds DEF Worker, WorkerLoop, GetTask, NoTask, WorkerWakes
  <2>2. ASSUME NEW u \in Threads, DoTask(u) PROVE pc[v] = "wait" /\ noted'[v] = noted[v]
    BY <1>3, <2>2, Kinds DEF DoTask, Register, PushTask, NotifyPool, DoTaskEnds, Unregister, Complete,
         ForcedEnds, TaskQueues
  <2>3. ASSUME ClientCalls \/ ClientGoesOn PROVE pc[v] = "wait" /\ noted'[v] = noted[v]
    BY <1>3, <2>3, Kinds DEF ClientCalls, QueueTask, CreateForced, ClientGoesOn, ForceTask, PushTask,
         NotifyPool, New
  <2> QED BY <2>1, <2>2, <2>3
<1> QED BY <1>1, <1>2, <1>3 DEF StopInv, SubInv

LEMMA StopPoolKept ==
  ASSUME TypeOK, SubInv, StopInv, Pool \/ SpuriousWakeup
  PROVE  StopInv'
<1> USE DEF TypeOK
<1>1. UNCHANGED <<stop, phase, sub, cur, todo, poolStop>>
  BY DEF Pool, CreateWorker, LaunchWorker, PoolLoop, RemovedForced, StartNewTasks, Recount,
         LookAtList, SleepOrNot, PoolWakes, SpuriousWakeup
<1>2. /\ \A t \in Threads : pc[t] # "off" => pc'[t] # "off"
      /\ \A w \in Workers : pc'[w] = "wait" => pc[w] = "wait"
      /\ \A w \in Workers : noted[w] => noted'[w]
  <2>1. CASE LaunchWorker
    BY <2>1, Kinds DEF LaunchWorker
  <2>2. CASE SpuriousWakeup
    BY <2>2, Kinds DEF SpuriousWakeup
  <2>3. CASE Pool /\ ~LaunchWorker
    <3>1. UNCHANGED pc
      BY <2>3, PoolMovesNobody
    <3>2. \A w \in Workers : noted[w] => noted'[w]
      BY <2>3 DEF Pool, CreateWorker, PoolLoop, RemovedForced, StartNewTasks, Recount,
         LookAtList, SleepOrNot, PoolWakes
    <3> QED BY <3>1, <3>2
  <2> QED BY <2>1, <2>2, <2>3
<1>3. phase = "joinPool" /\ pool' = "wait" => note'
  <2>1. phase = "joinPool" => poolStop
    BY DEF StopInv, Ending
  <2> QED BY <2>1 DEF StopInv, Pool, CreateWorker, LaunchWorker, PoolLoop, RemovedForced,
         StartNewTasks, Recount, LookAtList, SleepOrNot, PoolWakes, SpuriousWakeup
<1> QED BY <1>1, <1>2, <1>3 DEF StopInv, SubInv

LEMMA StopUser ==
  ASSUME TypeOK, SubInv, StopInv, LogIn \/ (\E q \in BOOLEAN : CleanUp(q)) \/ User
  PROVE  StopInv'
<1> USE DEF TypeOK
<1>0. UNCHANGED <<pc, pool>>
  BY DEF LogIn, CleanUp, User, StopTask, StopThread, OnStop, Join, Passes, PurgeForced, PurgeList,
         Drain, BlockTasks, StopPool, OnStopForced, OnStopNotify, JoinPool, ClearList, EndForced,
         Deleted
<1>1. CASE LogIn \/ \E q \in BOOLEAN : CleanUp(q)
  BY <1>0, <1>1 DEF LogIn, CleanUp, StopInv, SubInv, Ending, StopPhases
<1>2. ASSUME NEW w \in Workers, StopTask(w) PROVE StopInv'
  BY <1>0, <1>2 DEF StopTask, StopInv, SubInv, Ending, StopPhases
<1>3. ASSUME NEW t \in Threads, StopThread(t) PROVE StopInv'
  <2>1. CASE pc[t] = "off"
    BY <1>0, <1>3, <2>1 DEF StopThread, StopInv, SubInv
  <2>2. CASE pc[t] # "off"
    <3>1. /\ cur' = t /\ sub' = IF stop[t] THEN "join" ELSE "ask"
          /\ stop' = [stop EXCEPT ![t] = TRUE] /\ t \in todo /\ todo' = todo \ {t} /\ sub = "pick"
          /\ UNCHANGED <<noted, phase, poolStop, note>>
      BY <1>3, <2>2 DEF StopThread
    <3>2. stop'[t] /\ pc'[t] # "off"
      BY <1>0, <2>2, <3>1
    <3>3. \A w \in Workers :
            stop'[w] => pc'[w] # "wait" \/ noted'[w] \/ (sub' = "ask" /\ cur' = w)
      BY <1>0, <3>1, Kinds DEF StopInv
    <3>4. phase = "purgeForced" => todo' \subseteq Forcible /\ cur' \in Forcible \union {None}
      BY <3>1 DEF StopInv
    <3> QED BY <1>0, <3>1, <3>2, <3>3, <3>4 DEF StopInv
  <2> QED BY <2>1, <2>2
<1>4. CASE OnStop
  BY <1>0, <1>4 DEF OnStop, StopInv, SubInv
<1>5. CASE Join
  BY <1>0, <1>5 DEF Join, StopInv, SubInv
<1>6. CASE PurgeForced \/ PurgeList \/ Drain \/ OnStopForced \/ OnStopNotify \/ JoinPool
           \/ ClearList \/ EndForced \/ Deleted
  <2>1. UNCHANGED <<stop, noted, sub, cur, poolStop>> /\ sub = "pick" /\ (note => note')
    BY <1>6 DEF Passes, PurgeForced, PurgeList, Drain, OnStopForced, OnStopNotify, JoinPool,
         ClearList, EndForced, Deleted
  <2>2. /\ phase' \in Ending => phase \in Ending
        /\ phase' = "joinPool" => note'
        /\ phase' = "purgeForced" => todo' \subseteq Forcible
    BY <1>6 DEF Passes, PurgeForced, PurgeList, Drain, OnStopForced, OnStopNotify, JoinPool,
         ClearList, EndForced, Deleted, Ending
  <2> QED BY <1>0, <2>1, <2>2 DEF StopInv, SubInv
<1>7. CASE BlockTasks \/ StopPool
  BY <1>0, <1>7 DEF BlockTasks, StopPool, StopInv, SubInv, Ending, StopPhases
<1> QED BY <1>1, <1>2, <1>3, <1>4, <1>5, <1>6, <1>7 DEF User

\* What purgeTasks and cleanup wait for comes, or they are deadlocked: the safe half of
\* CallsReturn, for any number of threads (BaseThread::stop, onStop, ThreadPool.cpp:137).
THEOREM JoinedThreadsEnd == Spec => []JoinsEnd
<1>1. Init => StopInv
  BY Kinds DEF Init, StopInv, Ending
<1>2. IInv /\ StopInv /\ [Next]_vars => StopInv'
  <2> SUFFICES ASSUME IInv, StopInv, [Next]_vars PROVE StopInv'
    OBVIOUS
  <2>1. CASE UNCHANGED vars
    BY <2>1 DEF StopInv
  <2> QED BY <2>1, StopThreads, StopPoolKept, StopUser DEF IInv, Next
<1>3. ASSUME IInv, StopInv PROVE JoinsEnd
  <2>1. ASSUME sub = "join", ~Deadlocked
        PROVE  /\ pc[cur] \in {"get", "push"} => TaskMutexFree
               /\ pc[cur] = "run" => MayEnd(cur)
    <3>1. phase \in StopPhases /\ cur # None
      BY <1>3, <2>1 DEF IInv, SubInv
    <3>2. CASE phase = "purgeForced"
      <4>1. cur \in Forcible
        BY <1>3, <3>1, <3>2 DEF StopInv
      <4>2. pc[cur] # "get"
        BY <1>3, <4>1 DEF IInv, PlaceInv
      <4> QED BY <2>1, <3>2, <4>2 DEF Deadlocked
    <3>3. CASE phase # "purgeForced"
      <4>1. pc[Client] = "idle" /\ TaskMutexFree
        BY <1>3, <3>1, <3>3 DEF IInv, EndInv, StopPhases, Ending, TaskMutexFree
      <4> QED BY <4>1 DEF MayEnd, DownloadLocked
    <3> QED BY <3>2, <3>3
  <2>2. sub = "join" => /\ pc[cur] # "off" /\ stop[cur]
                        /\ cur \in Workers /\ pc[cur] = "wait" => noted[cur]
    BY <1>3 DEF StopInv
  <2>3. phase = "joinPool" /\ pool = "wait" => poolStop /\ note
    BY <1>3 DEF StopInv, Ending
  <2> QED BY <2>1, <2>2, <2>3 DEF JoinsEnd
<1> QED BY <1>1, <1>2, <1>3, Invariance, PTL DEF Spec
=============================================================================
