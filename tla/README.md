# A verification project for desura-app

desura-app is the client of a game distribution service: it downloads, installs,
updates, verifies and uploads games packed in *mcf* files. It is written in C++ with
threads of its own (`src/src/static/util_thread`), pipes between its processes
(`src/src/static/ipc_pipe`) and a download engine that fetches one file from several
servers at once (`src/src/shared/mcfcore`). This directory holds TLA+ models of the parts
where the order of steps matters, the TLC runs that check them, and proofs, checked by
TLAPS, of what matters most.

Paths below are relative to `src/src`. `PROJECT.json` names, for every definition, the
lines of code it stands for.

## 1. Inventory

| component | code | state | operations | hard part |
|---|---|---|---|---|
| Provider manager | `shared/mcfcore/code/ProviderManager.cpp` | list of servers; for each its owner (a worker id), error count, end of its timeout | `getUrl`, `requestNewUrl`, `removeAgent`, `getName`, `hasValidAgents` | workers keep using a server after the lock is released; links expire; `requestNewUrl` is two critical sections |
| Provider list | `shared/usercore/code/MCFDownloadProviders.cpp` | servers named by the web service, in order of preference | `getDownloadProviders` (purge, refill), `getDownloadAuth`, `forceLoad` | a refill may fail, or name nothing new |
| Web get thread | `shared/mcfcore/code/thread/WGTController.cpp`, `WGTWorker.cpp`, `MCFServerCon.cpp` | queue of superblocks, work and worker counts; per worker its superblock, buffer, status, connection, error | controller: create workers, save buffers, check crcs, decide the end; worker: take or steal work, download, retry, change server; user: pause, unpause, stop | six mutexes, two counters read without them, steals, retries, lost wake-ups |
| Threads | `static/util_thread/code/BaseThread.cpp` | pause and stop flags, pause condition | `start`, `pause`, `unpause`, `doPause`, `nonBlockStop`, `stop`, `join` | waits without a predicate |
| Thread pool | `static/util_thread/code/ThreadPool.cpp`, `ThreadPoolThread.cpp` | task list, worker threads, forced threads | `queueTask`, `forceTask`, `purgeTasks`, `blockTasks`, `cleanup` | a task between the list and the worker is in neither |
| Inter-process calls | `static/ipc_pipe/code` | classes and their references on both sides, pending calls and locks, partial messages | call, answer, loopback, create and destroy a class, disconnect | late answers, reference counts over a pipe, framing |
| Mcf unpacking threads | `shared/mcfcore/code/thread/SFTController.cpp`, `SFTWorker.cpp` | files to take, per worker its status, file, offset and buffers | controller: fill buffers, end failed tasks; worker: take a file, write its blocks, check its hash | status, file and offset have no lock: each thread may act on what the other has changed |
| Mcf compression and hash threads | `shared/mcfcore/code/thread/SMT*`, `HGT*` | the same; one list for `HGT` | compress the files of an mcf; fetch what differs | as above; a writer that waits for blocks in order |
| Item handles and tasks | `shared/usercore/code/ItemHandle.cpp`, `ItemTaskGroup.cpp`, `ItemThread.cpp` | stage, thread and group of each item; per thread its list of tasks; per group its list and two indexes | install, update, verify, launch, pause, cancel; add to a group, start, force, cancel it | indexes without a lock, an event that calls the next item, a thread given up while tasks are added |
| Item and branch information | `ItemInfo.cpp`, `BranchInfo.cpp`, `BranchInstallInfo.cpp`, `ItemManager.cpp` | status flags, installed builds | parse, install, uninstall, save to the database | flags that contradict each other |
| Mcf manager | `McfManager.cpp` | saved mcf files by item, branch and build | `newMcf`, `saveMcf`, `backup`, `delMcf` | several tasks on one file |
| Tool manager | `ToolManager.cpp`, `ToolTransaction.cpp` | tools, downloads and install transactions | `downloadTools`, `installTools`, `removeTransaction` | transactions that share a tool |
| Uploads, users, login, update polling, user data | rest of `shared/usercore` | see `PROJECT.json` | | |
| Service core, service and tool pipes | `shared/servicecore`, `common/service_pipe`, `common/tool_pipe` | the process being installed or removed | install, uninstall, update | follows the pipes |
| Events, settings, wildcards | `include/Event.h`, `static/managers` | delegates, variables, nested wildcards | add, remove, raise; set, load, save; resolve | delegates removed while raised |
| File formats, utilities, interface, programs | `shared/mcfcore/code/mcf`, `static/umcf`, `static/util*`, `shared/uicore`, `executable`, `tools` | | | input and output, layout |

How they interact. A download task of an item owns an `MCF` object, which starts a web get
thread; its controller and workers share one provider manager, which asks the provider list,
which asks the web service. All threads derive from `BaseThread`. Tasks of a user run in the
thread pool or in the thread of an item; installs run in the service process, called through
the pipes. What makes a component correct is, for the provider manager: a server serves one
worker at a time, a worker has one server, failed and expired servers rest, and no usable
server is overlooked; for the web get thread: every block is fetched, checked and written
once, whatever is stolen, retried or refused, the two counters that decide the end are right,
the verdict fits what happened, and the threads end; for the pool: a task runs once, or was
purged, and stopping ends; for the unpacking threads: the verdict on a file fits what is on
the disk and no file is forgotten; for a task group: one item at a time, each in its turn, and
no task is queued to a thread that is on its way out.

## 2. What is modelled

### Providers, ProviderManager

`Providers.tla` has one operator per critical section of `m_WaitMutex`. `listed` is
`m_vProviderList` as a set, in the order of `arrived`, the names received from the web
service; `owner` is `m_iOwner`; `inTimeOut` the entries whose `m_tExpTime` lies ahead;
`expired` the links past their expiry. Time is two actions: any timeout may end
(`TimeOutEnds`) and any link with an expiry time may expire (`Expire`), at any moment, so
`m_uiErrCount`, which only stretches a timeout, is left out. `getUrl` covers its cleaning,
its look for the agent's own entry, the two looks for a free one with the refill between
them, and `GetUrlThrows` the exception of a failed web request. The web service names at most
one new server per answer.

`ProviderManager.tla` adds the callers. `got` is the copy of the server each worker goes on
using (`m_DownloadProvider`), `call` says whether it is between the two sections of
`requestNewUrl`.

### Download, WebGet

`Download.tla` is the abstract specification: blocks are fetched, judged, and written, lost or
fetched again; the verdict `complete` requires that nothing is left to fetch.

`WebGet.tla` is the engine. A block is its rank in the order on the web, a superblock an
interval of ranks. Initial states are all cuts of the blocks into superblocks that
`fillBlockList` can leave. Every worker has a program counter `pc` that names the place in
`WGTWorker::run`, `doDownload`, `newTask`, `writeData` or `requestNewUrl`; the controller has
`ctl` and the user's thread, in `onStop`, has `user`. One action is one critical section or
one step between two. Mutexes held over several actions are predicates on the program
counters: `FileFree` (`m_pFileMutex` during a steal), `InfoFree` (the victim's info mutex
between the check and the cut of a split), `ErrFree` (`m_ErrorMutex` during `requestNewUrl`).
The provider table is the one of `Providers`, extended, so the two run together.

| code | actions |
|---|---|
| `WGTWorker::run` | `Start`, `LoopHead`, `Awake`, `ErrCheck`, `Leave`, `Dies` |
| `newTask`, `stealBlocks`, `splitCurrentBlock` | `TakeQueued`, `LookForVictim`, `Split`, `Cut`, `Assign` |
| `doDownload`, `downloadRange` | `Connect`, `RenewUrl`, `RenewThrows`, `RangeDone`, `NetError`, `PartialFile`, `Refused` |
| `writeData`, `workerFinishedBlock` | `RecvBlock`, `PopFront`, `RefuseData` |
| `workerFinishedSuperBlock`, `reportError` | `Reset`, `Give`, `Report` |
| `requestNewUrl` | `RmAgent`, `GetNewUrl` |
| `WGTController::run`, `createWorkers` | `CreateWorker`, `CtlLoop`, `CtlWait`, `SpuriousWakeup`, `Scan`, `CheckRunning`, `CheckAgents`, `CtlDies`, `StopWorker`, `JoinWorker`, `Finish` |
| `saveBuffers`, `checkBlock`, `reportError` of the worker | `PopBuffer`, `WriteBlock`, `WriteFails`, `Requeue`, `Blame`, `Tell` |
| `pause`, `unpause`, `stop`, `onStop` | `Pause`, `Unpause`, `Stop`, `OnStopWorker`, `OnStopJoin` |
| time | `Environment` |

Left out of WebGet: the header download and the choice of files in `fillBlockList`, with its
early return; progress counters and events; bytes within a block (a block arrives with its
last byte); the counts of `stealBlocks` are taken in one step; `createWorkers` starts and
counts a worker in one step; a link that expires between `getUrl` and the check after it
counts as expiring later; what is undefined in C++ when two threads join one `std::thread` or
`onStop` walks a vector that is still being filled. Cutting a deque past its end is undefined
too; the outcome kept is a fault that ends the thief.

### TaskQueue, ThreadPool

`TaskQueue.tla` is the abstract specification: tasks start in the order they were queued, at
most `NumWorkers` at a time, a forced task beside them, and a task that has run, was refused
or was purged never comes back.

`ThreadPool.tla` is the pool. `pool` is the place of its own thread in `ThreadPool::run`; `pc`
the place of a worker, of the thread of a forced task (which stands for its task) or of the
client that hands tasks over; `phase` with `sub`, `cur` and `todo` says how far the user's
thread is in a log-out or in the deletion of the pool, and which thread it is stopping. A
mutex that the user's thread holds over several steps is a predicate on `phase`
(`TaskMutexFree`, `ThreadMutexFree`, `ForcedMutexFree`); every other critical section is one
action. Whoever notifies a condition sets its flag, and only its waiter resets it.

| code | actions |
|---|---|
| `ThreadPool::run`, `startNewTasks`, `activeThreads`, `removedForced` | `CreateWorker`, `LaunchWorker`, `PoolLoop`, `RemovedForced`, `StartNewTasks`, `Recount`, `LookAtList`, `SleepOrNot`, `PoolWakes` |
| `ThreadPoolThread::run`, `getTask` | `WorkerLoop`, `GetTask`, `NoTask`, `WorkerWakes` |
| `ThreadPoolThread::doTask`, `onThreadComplete` | `Register`, `DoTaskEnds`, `Unregister`, `Complete`, `ForcedEnds` |
| `queueTask`, by the client or by a task | `QueueTask`, `TaskQueues`, `PushTask`, `NotifyPool` |
| `forceTask` | `CreateForced`, `ForceTask` |
| `unBlockTasks`, `purgeTasks`, `blockTasks` | `LogIn`, `CleanUp`, `StopTask`, `PurgeForced`, `PurgeList`, `Drain`, `BlockTasks` |
| `BaseThread::stop`, `ThreadPoolThread::onStop`, `join` | `StopThread`, `OnStop`, `Join` |
| `cleanup`, `ThreadPool::onStop` | `StopPool`, `OnStopForced`, `OnStopNotify`, `JoinPool`, `ClearList`, `EndForced`, `Deleted` |
| `WaitCondition::wait` | `PoolWakes`, `WorkerWakes`, `SpuriousWakeup` |

The model has the two strays of this code: a task that a worker has taken from the list and
not yet registered survives `purgeTasks`, and so does one whose caller read
`m_bIsTaskBlocked` before the block and reaches the list after the purge. What is stated is
how far the damage goes: both still run once and in order, and a task that *was* told to stop
is over when `purgeTasks` returns.

Left out: `pause` (nobody pauses the pool); the first `activeThreads` of the loop is taken in
one step with `startNewTasks`; the vector of workers that grows without its mutex is read as
the workers in it so far, not as a torn vector; priorities; what a task does, but for the
mutexes it takes and the tasks it queues. The clients have ended when `cleanup` begins, as
`User::cleanUp` sees to (`StopPool` waits for them).

### IpcCalls

`IpcCalls.tla` has both ends of a pipe between usercore (the client) and the service. The
client's threads create a class, call it, and destroy it (`place`, `mine`, `lock`); a pipe
thread, a call thread and an event thread on each side pass the messages on. `classes` and
`sClasses` are `m_vClassList` of the two managers, `inbox` and `sInbox` the queues of their
`ProcessThread`s, `kills` and `sKills` the two `m_nKillCount`s. `sHand` is what a thread of the
service has executed and not yet answered, `task` the service task that a first call starts and
that fires events. `executed`, `fired`, `promised`, `handled` and `madeBy` are histories that
only the properties read.

| code | actions |
|---|---|
| `IPCManager::createClass` | `CreateClass`, `ClassCreated`, `CreateTimesOut` |
| `IPCClass::callFunction`, `IPCLock` | `CallFunction`, `CallReturns`, `CallTimesOut` |
| `IPCClass::destroy`, `IPCManager::destroyClass` | `Destroy`, `SendKill`, `KillAnswered`, `DestroyClass` |
| `recvMessage`, `processInternalMessage` | `ServerReceives`, `ClientReceives` |
| `ProcessThread::run`, `IPCClass::messageRecived` | `ServerTakes`, `ServerSends`, `ServerDestroys`, `ClientTakes`, `EventHandled` |
| events of a service task | `FireEvent` |
| `disconnectAndReconnect`, `disconnect`, `restart` | `Break`, `Disconnect`, `StopThreads`, `Restart` |

Every place where this code goes on after having released a lock is a step of its own: between
the look at `m_bDisconnected` and `sendMessage`, between the break of the pipe and the flag,
between an answer and the caller that reads it. A break loses what the service had and any
prefix of what was on the way to it; the messages the client had not written survive and reach
the next service, as `m_vPipeMsgs` does.

Left out: asynchronous calls and calls from the service to the client; loopback calls within
one process; framing and parts of messages (a message is one element of a queue here);
authentication and versions when the pipe is opened; wake-ups without a notification of the
30-second waits and of the wait for the kill. A connection is made before the model starts.

### ItemThread, ItemHandle, ItemTaskGroup

Three modules, each extending the one before: the threads of an item, the handle that owns one
of them and queues tasks to it, and the group that verifies items one after the other, with
those who fill it and the user. A thread is an item and a slot: a handle that gives its thread
up while tasks are still queued starts another one, and the pool ends the old one later
(`ending`), so several may exist. `call` says where a caller of `nextItem` or `startAction` is,
since the indexes `activeItem` and `lastActive` are read and written without a lock; `todo` holds
the items it has still to start, because `addHelper` may post an old verdict and so call
`nextItem` from inside itself. A worker in `good` or `bad` is inside the event of its verdict.

| code | actions |
|---|---|
| `ItemThread::run`, `performTask`, `getNewTask` | `ClearFlag`, `PopTask`, `SkipTask`, `TakeTask`, `DropTask`, `Leave` |
| `ItemThread::queueTask`, `purge`, destructor, `DeleteThread` | `StartThread`, `QueueTasks`, `PurgeTasks`, `EndThread`, `JoinThread` |
| `ItemHandle::registerTask`, `completeStage`, `stopThread` | `RegisterTasks`, `CompleteStage`, `OnTaskComplete` |
| `setStage` as a task starts, `GroupItemTask`, `VerifyServiceTask` | `OnTaskStart`, `BlankTask`, `GroupItemTask`, `FinishVerify`, `VerifySilent`, `OnError` |
| `ItemTaskGroup::nextItem`, `startAction`, `ItemHandle::verifyOveride` | `NextItem`, `NoneLeft`, `Finish`, `Advance`, `AdvanceToNull`, `PurgeItem`, `VerifyItem`, `EventReturns` |
| `addItem`, `setTaskGroup`, `start`, `finalize`, by the wizard or the start-up check | `FindItem`, `PushItem`, `CheckActive`, `Start`, `Finalize`, `FinalizeFinishes` |
| `cancelAll`, `force`, `verify` by the user | `CancelButton`, `ForceCrashes`, `ForceUnlisted`, `Verify` |

What the model shows and the properties name:

- `force` takes the item out of the group, which resets the handle's pointer to the group, and
  then calls through that pointer (`ForceCrashes`);
- an item added between the moment `nextItem` found none left and the moment it says so is
  started by nobody (`Missed`);
- a purge between the two sections of `getNewTask` is remembered by the flag
  `m_bDeleteCurrentTask` and skips the task that was queued *after* the purge (`FlagLeft`); a
  task queued to a thread that was given up is purged with it (`GivenUp`). Either way the
  awaited verdict never comes, and the group stands still (`Stalled`);
- a verification may end without any verdict (`VerifySilent`): when it is told to stop, when the mcf is
  still bad after its header was downloaded again (`VSCheckMcf.cpp:54`), and when an exception was
  thrown, which `checkMcf` and its like swallow. The item stays in `STAGE_VERIFY`, and a group that
  listens to it stands still as well (`Stalled`);
- an event whose `nextItem` found no item waiting may be overtaken: an item is added and verified,
  the group becomes final, and a later event sees a third item waiting before the first one goes on,
  finds the group final and empties the list; the later one then takes its item from an empty list
  and dereferences null (`AdvanceToNull`, which `Finished` in `OneMovesTheIndex` names). With two
  items this cannot happen: it takes one whose event is still open, one that ends and one that waits;
- after a cancel the group may listen to two items: `OneAtATime` is of a group the user leaves alone.

Left out: pauses, the other stages (download, install, launch, uninstall), the progress list and
`sort`, the lock of the list of helpers, and the order in which `m_ListLock` and the lock of a
handle's group are taken. An item whose wait was cancelled keeps `STAGE_WAIT` in the code, and does
so here.

### SaveFiles

`SaveFiles.tla` unpacks an mcf. The controller (`ctl`, `turn`, `reading`) goes round its workers
and pushes the next block of each one's file; a worker (`pc`, `mine`, `block`, `open`) takes a
file, writes what it gets, and checks the hash. `status`, `curFile` and `offset` of a worker are
shared without a lock, so every look at one of them and every change is an action of its own;
only the buffers (`vBuffer`) have a mutex. `endTask`, which both threads call, is four actions: the
error (`Judge`), the status, the file and the buffers. `disk` is what was written to each file, in
blocks; `told` the files whose failure has raised an error.

| code | actions |
|---|---|
| `SFTWorker::run`, `getStatus` | `AskStopped`, `Look` |
| `SFTController::newTask` | `AskTask`, `WaitTask`, `TakeFile`, `NoFileLeft`, `Leave`, `AssignFile`, `ResetOffset`, `Go` |
| `SFTWorker::newTask` | `OpenFile`, `OpenFails` |
| `doWork`, `getBlock`, `doWrite` | `GetBlock`, `EmptyFile`, `GetBlockOfNone`, `Write`, `WriteFails` |
| `finishFile`, `endTask` of the worker | `FinishFile`, `EndStatus`, `EndFile`, `EndBuffers` |
| `SFTController::run`, `workersDone` | `CtlLoop`, `WorkersDone`, `JoinWorkers` |
| `fillBuffers` | `CheckWorker` (four looks), `LookAtFile`, `LookAtOffset`, `ReadBlock`, `PushBlock`, `MarkEnd`, `Advance` |
| `reportError` and `endTask` of the controller | `ReadFails`, `FailStatus`, `FailFile`, `FailBuffers` |
| `stop` | `Stop` |

Without a failure, and with no empty file, the threads take turns in spite of the missing lock
(`Calm`, `VerdictFits`). A file that is empty, or does not open, or cannot be read or written, breaks
the turns, and the model then reaches what the properties except:

- the controller still pushes a block it had read for the last file, or one of the next file with
  the offset of the last one: a block is written twice. The hash is taken of as many bytes as the
  file should have, so a file with a surplus at its end is still flagged complete;
- `endTask` takes the task the worker has *by then*. The controller raises the error of a read, and
  before it takes the file the worker, which has seen the status `NULL`, is given the next one, and loses
  it: it turns round for ever on `CONTINUE` without a file (`NeverFed`). One error that comes in
  time is enough for this. A late block or a late error may also overwrite the `STOP` of a worker that
  has left, and the controller waits for it for ever (`NeverDone`);
- after a second failure, as of a write and a late read of the same file, the file that is lost in this
  way is neither complete nor named by an error, and its worker may go on to `STOP`: the unpacking then
  ends with an error about another file. `NoFileForgotten` says so: that an error was raised, if a
  file is missing, holds in any case; that each missing file had its own, after one failure;
- `newTask` finds the status changed under it and returns no file, and the worker goes on with a
  null pointer (`crashed`).

One more thing seen on the way, about no state: `endTask` raises the empty `e` and not the `err` it has
just filled (`SFTController.cpp:379`), so a listener never sees `ERR_HASHMISSMATCH`.

Left out: pauses, progress, the decompression within a block, torn copies of the shared pointer
`m_pCurFile`, and the choice of files in `fillFileList`.

## 3. The runs

Every run was chosen so that the case it is about happens: the mutants in `PROJECT.json`
show, property by property, a slip in the code that the run would find. TLC uses two workers.

| run | instance | checks |
|---|---|---|
| `providers` | 2 agents, 4 servers of which 2 are named first, some links expire | one server per agent, what an agent holds is its own, `getUrl` does not give up early |
| `webget_crc` | 3 blocks in one superblock, 2 workers, 2 servers, 1 wrong crc of the last block | no block lost or doubled, both counters right, a counted-out worker stays idle, one worker per server, `pop_front` safe, refinement of `Download` |
| `webget_live` | 1 block, 2 workers, one trouble of any kind (network, disk, crc, expired link, pause, stop), fair | the download ends; `stop` ends all threads and returns, unless a thread is lost |
| `webget_saved` | 1 block, no fault | **violated**: files flagged complete with a block unsaved |
| `webget_hang` | 1 block, 1 pause, stop, fair | **violated**: a stop is lost by `doPause` and the controller sleeps for ever |
| `pool` | 1 worker, 2 tasks to queue of which one queues another, 1 to force; log-in, log-out, deletion, fair | a told task is over after `purgeTasks`, no thread survives `cleanup`, nobody sleeps over a task, refinement of `TaskQueue`; every task is served, `purgeTasks` and `cleanup` return unless a forced task waits for a mutex of the purge |
| `pool_purge` | 1 worker, 2 forced downloads of tools, fair | **violated**: `purgeTasks` never returns |
| `ipc` | 1 task and 1 other thread, 2 classes, 2 calls of each, 1 event of each, 1 death of the service, fair | answers reach their own call; a kill is counted once, flushes the events, strands no call and deletes both classes; the two lists of classes agree; `destroy` returns while the service lives |
| `ipc_hang` | the same | **violated**: `destroy` never returns when the service dies after the kill was sent |
| `items` | 3 items of the wizard, 1 thread each, left alone; 2 or 1, filled in by the wizard or the start-up check; 1 verification by hand, 1 press of a button | one item at a time; one caller moves the indexes and finds the item it saw, unless the group is finished meanwhile; handles and threads agree |
| `items_live` | 2 items added to a running group, or 1 to one that waits; no buttons, fair | an item whose turn has come is verified; the group comes to every item, unless it was added just as the group ran out, or the awaited verification was lost or ended without a verdict |
| `save_files` | 2 workers, a file of 1 block and one of 0, 1 or 2, 1 buffer, 2 failures, stop at any moment, fair | verdicts fit while nothing failed; no file is forgotten: an error was raised if one is missing, after one failure for each; the threads end unless a failure has led to one of the hangs of section 2 |

Bounds. Two workers are enough for a thief and a victim; three blocks in one superblock are
the least that can be stolen (`MinSteal`), so `webget_crc` has three; every other hazard needs
one block per worker. One trouble, one wrong crc, one pause: each later one meets the same
states with the counters reset. The second server of `webget_live` is the one a refill names.
In `pool` the only worker can be busy, or be created late, while a second task waits, the case in
which a wake-up could be lost; the forced thread beside it is the second one that `purgeTasks`
and `cleanup` have to reach. One log-in, with the log-out and the deletion after it, meets every
phase; a second one meets the same states with some tasks used up (`MaxTasks` bounds them).
`MaxAttempts` is 1, or 0 in `webget_crc`, instead of 3. In `ipc` a second class is
what a kill or an answer could be mistaken for, and the first one a task makes after a restart;
two calls are an abandoned one and the one that might get its answer; one event can be before
or behind the kill; a task and a thread that only calls are the two roles of a thread, and a
second death would find the state of the first. In `items` two items are one that ends and the next
one, a third one the case in which an earlier event, still open, finishes the group; two threads of
an item are the one in use and the one given up; `MaxIndex` wraps around behind the list as `UINT_MAX`
does. What MC adds there is order: items are found in this order; three are left alone by the user
and have one thread each, to keep the run small; the verification by hand, and the force of
an item not yet listed, are looked at in a group of one. In `save_files` a file of one block is the
last as soon as it is read, one of two takes the only buffer twice, an empty one ends its task at
once; two workers share the list; one failure is enough to leave a late block behind, and the second one
to lose a file in silence.

Deadlock is not checked in the runs of `WebGet`, `ThreadPool`, `IpcCalls`, `ItemTaskGroup` and
`SaveFiles`: the download or the unpacking ends, the pool is deleted, the client may have used its
last class, the group may have come to its end; and each of the last two may crash.

Fairness (`FairSpec`) is weak fairness of each worker, of the controller and of the user's
thread once it has called: threads are scheduled by the operating system and a request of curl
ends one way or the other. For `ThreadPool` it is weak fairness of each thread, of the client once
its call has begun and of the user's thread; that includes that a task which was started ends
by itself. For `IpcCalls` it is weak fairness of the threads of both
processes, of a caller that waits (it wakes up or its 30 seconds end) and of a task that has
begun to destroy its class; nobody has to create, call or destroy anything, the service need
not die, and need not be started again. For `ItemTaskGroup` it is weak fairness of every thread of
an item (`m_WaitCond.wait(2)` wakes up by itself), of the pool that ends threads, of a call that
has begun and of whoever fills the group; the user need do nothing. For `SaveFiles` it is weak
fairness of each worker and of the controller. Nothing is assumed of faults, of timeouts or of the
user. The number of faults is bounded, as in every run: with endless crc errors a download does not
end.

Conditions inside properties. `Lost`, in those of `WebGet`, excludes executions in which an exception
of the web service has taken a thread out of its `run` (the controller then really may go on
for ever) and the wake-up that `webget_hang` shows to be lost. `Deadlocked`, in those of the pool, is
what `pool_purge` shows. `Undisturbed`, in those of the task group, leaves out what the user starts: a
verification by hand raises a verdict that the group may take for that of its own, and a cancel lets
it listen to two items. `FlagLeft`, `GivenUp`, `Missed` and `Stalled`, in its liveness properties, are
the four ways of section 2 to lose an item's turn. `Calm` and the
three ends of section 2 are those of `SaveFiles`. Each names states of a race
that section 2 describes or a finding shows; without it TLC finds the property violated.

## 4. The proofs

`ProvidersProofs.tla` proves, of each critical section separately, that it keeps `TableInv`
(types; one provider per agent; nothing in timeout is owned; owners are listed; each server is
named once and listed entries were named; a filled list holds all that is on offer) and what
it changes: `GetUrlOwners` says that `getUrl` takes an entry away from nobody.

`ProviderManagerProofs.tla` proves, for every set of agents and servers and every pattern of expiry,
the invariant `IInv`: `TypeOK`, `TableInv` and `HeldUnlessExpired`. `TableInv` is needed because two
owners of one entry or a timed-out owner would let a later call give away the server an agent holds;
`HeldUnlessExpired` because the agents' copies are no part of the table. From it follow the theorems
`TypeCorrect` (with it, no server is listed twice), `TableSafe`, `HeldSafe`, `Exclusive`,
`Preferred` and `NullMeansNone`; `Exclusive` and `Preferred` (two agents never use the same live
server; a new server is the most preferred usable one) are proved and in no run. The only assumption
is `ProvidersAssumption`: null values are no values, and the first answer of the web service names
no server twice (`processXml` drops doubles).

`WebGetProofs.tla` proves the engine of the download, for every number of blocks, set of
workers and servers, and every bound. Two facts are wanted of each counter, and neither is
inductive alone. The invariant `IInv` joins

- `TypeOK` and `TableInv` (the table shared with the workers stays the one of the lemmas of
  `ProvidersProofs`, whose steps are cited and not proved again);
- `CtlInv`: the places of the controller and of the user's thread that exclude each other, and
  which workers exist at each of them;
- `HoldInv`: at which places of its `run` a worker holds a superblock, and which part of it;
- `StealInv`: what a thief knows of its victim between the check and the cut of a split; it
  relies on the mutexes `FileFree` and `InfoFree`;
- `LinkInv`: the copy of the server a worker holds against its entry in the table;
- `WorkAccounted`, `RunningAccounted`, `CountedOutIsIdle` and `PopFrontSafe`, which the runs check.

Each action has a lemma per conjunct it can disturb; `Invariance` combines them. From it follow
`TypeCorrect`, `WorkIsAccounted`, `RunningIsAccounted`, `CountedOutStaysIdle`, `PopFrontIsSafe` and
`ServersAreNotShared`. A second invariant, `WaitInv`, gives the safe half of `Termination` and
`StopStops`: what the controller waits for is up to a worker that is still to come to it
(`WaitsAreAnswered`). The holder of an `m_ErrorMutex` is about to release it or was thrown out of
its `run`; while the controller loops, and the user has not stopped it, no worker that
`m_iRunningWorkers` counts has left; a worker that is joined was started and told to stop. The last
needs that the workers are told to stop only by a controller that has left its loop or by the user.
The assumptions are those on the constants (`WebGetAssumption` and `NoneAssumption`: null is neither
a superblock nor a buffer).

`WebGetBlocksProofs.tla` follows each block through the engine, beside `[]IInv` and from the same
assumptions. `BlockInOnePlace` adds up five cardinalities; its invariant `SpotInv` says the same as
cases: a block is in the queue or with a worker, or in a buffer or the controller's hand, or written,
and in one such place. The first cut of the file has it in one superblock by the least number
principle (`CutIsComplete`, `CutIsDisjoint`). Every step then moves blocks between two kinds of place
(`QueuedKept` and its neighbours say which it leaves alone) or within one: the cut of a split is the
hard one, since the two halves share the victim's blocks only if nothing was taken off its front since
the check, which is `StealInv`; `PopFrontSafe` makes the block that a worker drops the one it has just
handed over. From it follows `NoneLostOrDoubled`.

`EngineIsADownload` is the refinement. Handing over a block (`HandsRefines`) and judging one
(`JudgesRefines`) are moves of the block by `SpotInv`, the verdict (`FinishRefines`) finds no superblock
left by `WorkAccounted`, and every other step stutters (`RestStutters`). It needs `EndInv`: behind its
loop the controller has joined the workers up to the one it is at, so that none can hand over a block
after the verdict.

`ThreadPoolProofs.tla` proves the pool, for every number of workers, any sets of tasks (also of
tasks that queue tasks) and any pattern of log-ins. Its invariant `IInv` joins

- `TypeOK`, and `PlaceInv`: what a thread or the client has in hand at each place of its code;
- `SubInv`: the user's thread stops one thread at a time;
- `AwakeInv`: once the pool has decided to sleep, whoever added a task, and every worker it
  counted as busy, is still on the way to notify it. `NobodySleepsOnWork` alone is not
  inductive: the decision falls several steps before the sleep;
- `OnceInv`: a task is about to be added, in the list, with one thread, or over, and a forced
  task whose thread exists is not handed over again;
- `ToldInv`: a task told to stop is registered with a thread or over; it relies on the join of
  forced threads inside `purgeTasks` and on its wait for the workers;
- `EndInv`: which workers exist while the pool creates them, and which threads the loops of
  `purgeTasks` and `cleanup` have still to reach. It holds because a client has ended before
  `cleanup` and because `cleanup` stops the workers again after the pool's thread is joined.

From it follow `TypeCorrect`, `NobodySleeps`, `PurgeIsThorough`, `CleanupIsThorough` and, step
by step, `PoolIsAQueue`: the pool implements `TaskQueue`. Its only hard step is `GetTask`, where
`FewerTasks` counts: while one worker looks for a task the others hold fewer than `NumWorkers`.

A second invariant, `StopInv`, is about who is stopped: a thread that is joined was started and told
to stop, and is awake or notified; `purgeForced` joins forced threads only; `m_bStop` of the pool holds
throughout `cleanup`, and its own thread is notified before it is joined. With `IInv` it gives
`JoinedThreadsEnd`: but for the deadlock of `purgeTasks` with a forced thread, whomever the user's
thread joins can run on to its end, and no mutex or download lock holds it up.

`IpcCallsProofs.tla` proves the two processes, for any number of threads, classes, calls, events
and deaths of the service. Its invariant `IInv` joins

- `TypeOK`;
- `AnswerInv`: an answer, in the hand of a thread of the service, in the pipe or at the lock, is
  one to a call the service has run; that the answer a caller reads is its own follows only if
  this is known all the way;
- `OwnInv`: the tasks' classes are different, and a hand is about a class unless it is empty;
- `SentInv`: behind a kill the client sends nothing about that class. It holds because a task
  destroys its class when nobody is calling it, and is what makes a kill the last message;
- `KillInv`: how far the kill of a class has come in the service. Its count agrees with the queues
  that still hold the kill (`Counted`); behind it there is nothing of the class in a queue or hand
  (`Passed`); one thread alone answers (`OneAnswers`); a class that is not listed is in no queue
  (`Known`);
- `ToldInv`: the same for the answer in the client, so that a second one cannot be sent while the
  first is in the pipe, in a queue or counted;
- `ServiceThreadsLive`.

From it follow `TypeCorrect`, `AnswersAreMine`, `KilledAtMostOnce` and `ServiceLives`. The lemmas
at its head say once what adding to, taking from and cutting a queue does to what it holds; the
others are one per action and conjunct. The only assumptions are that the bounds are numbers and that
tasks are threads (`IpcAssumption`).

A second invariant, `LifeInv`, stands on `IInv` and follows a class from `createClass` until both
processes have forgotten it. Its parts are

- `DownInv`: a service that has died leaves nothing behind, so that what is in the pipe is of the
  living one;
- `CreateInv`: a class is asked for once, and until then neither the service nor the pipe knows it;
- `MatchInv`: the answer to `createClass` that a task waits for is the one for its own class;
- `ListInv`: a class on the client's list is a task's, and is *settled*, that is the service has it or
  has died since, unless its task is about to take it off the list;
- `WantedInv`: whatever is under way about a class (a call asked or answered, a kill, an event) finds
  it on the client's list. It has to say of every queue and hand on the way that an answer comes before
  the news of the kill (`AnswersFirst`), and that once the task leaves, nothing is to come;
- `FlowInv`: the events of a class, counted where they are: those the service has fired are with the
  client, run or in hand, or queued ahead of the news of the kill. `EventsFlushed` alone says nothing
  before `killed`; `Flow` has one case for each place the news may be in. That it does not matter which of
  the two threads of the client gets the second answer is the case where the event thread
  has counted and the call thread has not.

Counting in a queue needs that taking its head moves every index by one, a bijection (`Shifted`),
since induction over the queue is not to be had. From `LifeInv` follow `ListsAgree`,
`AnswersFindTheirClass` and `EventsAreFlushed`.

The third, `WaitInv`, is the safe half of `DestroyEnds`: while a task waits in `destroy` for a class of
the living service, its kill, or the answer, is under way (`KillUnderWay`). A kill that both threads
of a process had counted and neither had passed on would leave the task waiting for good;
`WaitInv` therefore adds up what the two have counted and what is still queued. From it follows
`KillsArrive`, which no run checks by itself; with `DestroyEnds`, TLC then shows that the threads
empty their queues.

`ItemTaskGroupProofs.tla` proves, for any items, threads, bounds and whatever the user does, that a
handle and its threads agree. Its invariant `IInv` joins

- `TypeOK`;
- `PlaceInv`: what a worker has in hand at each place of its code; a slot without a thread is neither
  stopped nor being ended, so that a new thread in it starts fresh;
- `CallInv`: a caller about to start an item has one to start;
- `ThreadsOwned`: it needs `PlaceInv`, because `registerTask` may start a thread in any free slot.

From it follow `TypeCorrect` and `HandlesOwnTheirThreads`. `Registering` says once what
`registerTask` keeps; it is called by items, callers and the user.

A second invariant, `CalmInv`, is of a group the user leaves alone, and is what stands in for the lock
of the indexes: there is one *turn*. A caller has it while it moves the index (`InTurn`) and until it
has started its item; then a verification has it, in one place of one thread's list or in its hand
(`Due`); the event of its verdict passes it on. Its parts are

- `OneTurn`: two callers, a caller and a verification, or two verifications never have it together,
  which is what both properties come down to;
- `UserInv`, `AdderInv`: the user starts nothing; whoever fills the group is inside `nextItem` only
  between two items, adds each item once, and nothing is due before `start`;
- `Distinct`, `CallsInv`: the list has no item twice, so it is not longer than the number of items and
  an index never reaches `UINT_MAX` (`ShortList`); a caller has one item to start;
- `IndexInv`: whoever has the turn has the item at the index; the helper is that item's; a verdict kept
  in a handle (`posted`) is that of an item the index has come to, so `addHelper` never finds one of
  the item it is about to verify. It holds until the list is emptied for good (`Finished`), after
  which an event may still be open, with the item it saw gone.

The steps that keep the turn where it is are treated by `WorkKept`, `TaskKept` and `TurnKept`, the ones
that pass it on by a lemma each; `NextCalm` combines them with `[]IInv`. From it follow
`OneVerifiedAtATime` and `IndexesNeedNoLock`. The proof found that what the run had checked with two items
was not so with three, which is why the run has three now and the properties name `Finished`. The
assumptions are `SlotAssumption` and `GroupAssumption`: bounds are numbers, and there are finitely many
items, not more than an unsigned int counts.

On `IInv` and `CalmInv` rests `OnlyMissedIsLeft`: a group left alone leaves no item behind, if none is
added between the two looks of `nextItem` at the end of the list (`Missed`). `NoneLeftBehind` says who
holds an item the group has not come to; that race is the only one.

`SaveFilesProofs.tla` proves the unpacking, for any files of any sizes and any number of workers,
buffers and failures. The invariant `IInv` holds whatever fails:

- `TypeOK`, and `HandInv`: what a thread has in hand at each place of its code;
- `TaskInv`: a worker's `curFile` is none or the file it is on, and its status fits its place, until
  the controller has begun to take the file;
- `WindowInv`: while the controller looks at a worker, only it could set `ENDFILE`; and whenever
  it takes a task away, an error was raised;
- `StopInv`: a worker with `STOP` has no file and the list is empty, and the controller joins after it
  has seen `STOP` of each.

From it follows `TypeCorrect`. The second, `CalmInv`, is of an unpacking in which nothing has failed and
no file is empty:

- `StatusInv`: the status of a worker at each place of its code, which is what replaces the lock: a
  worker leaves its file only after the controller has set `ENDFILE`, and takes one only when the
  controller has let go of it;
- `TurnInv`: what the controller has seen of a worker's info is still so when it uses it, at each of
  its looks;
- `StreamInv`: the blocks on the disk, in hand and in the buffers of a worker are those of its file,
  in order, as many as its offset says;
- `ApartInv`: no file is in two places, and nothing is written before it is opened;
- `JudgedInv`: the verdicts.

A failure is never undone, so a calm state was reached by steps without one (`QuietWorker`,
`QuietController`), and each part has a lemma about them. From it follows `VerdictsFit`. `CalmLeft` adds
which workers have left: from both follows `WaitsEnd`, the safe half of `Ends`. None of the hangs that
`Ends` allows an unpacking that failed befalls one that did not; and a worker with empty buffers has a
file of which there is more to read.

`NoneForgotten` follows each file. `PlaceInv` says that it is on the list, a worker's, complete or told,
as long as no error was raised or only one failure happened (`Traced`). It is kept by one failure because
of `LateInv` in `OneInv`: the file the controller reads is the one its worker is on, or that task has
ended with an error and there is more of it to read, so that the read fails by a failure of its own only.
A late error behind a write that failed needs a second failure. With two, a file may be lost in silence,
but by `WindowInv` an error was raised; so the theorem has two parts. The assumption is
`SaveAssumption`: sizes are numbers, there is a worker and a buffer, and null is no file.

Only model-checked: all liveness, which is out of the prover's reach, as is `ENABLED` (`Termination`,
`StopStops`, `EverythingIsServed`, `CallsReturn`, `DestroyEnds`, `DestroyDeletesBoth`, `TurnComes`,
`LineMoves` and `Ends`). Every invariant and action property of a passing run, and both refinements, are
stated by a theorem. `KillsArrive`, `WaitsAreAnswered`, `WaitsEnd`, `JoinedThreadsEnd` and
`OnlyMissedIsLeft` prove what `DestroyEnds`, `Termination`, `Ends`, `CallsReturn` and `LineMoves` rest on
besides fairness, that whoever is waited for is still on its way; no run checks those five invariants
by themselves.

## 5. The plan

Done: the servers and the web get thread, the thread pool, calls and the life of classes over a
pipe, the task groups of items and the threads under them, the unpacking of an mcf; with proofs
about each. Next, in this order:

1. The framing of messages over a pipe and their parts (`IPCManager::recvMessage`,
   `PendingPartRecvMessage`), as a pure algorithm checked against its definition for every cut of the
   stream: the step back over an incomplete message, in 32 bits without a sign, the comparison
   that holds back an exact fit, and the eight-bit number of a part.
2. The compression threads (`SMT*`), whose workers hand their blocks to a writer that takes them
   in order, and the file list of `fillBlockList` and `fillFileList`.
3. The other stages of an item handle (download, install, launch) and its pauses, tool
   transactions, the mcf manager, user threads, uploads.
4. Events whose delegates are removed while they are raised, nested wildcards.
5. Proofs: the safe half of `TurnComes`, as the five named above are those of the other liveness
   properties; it has to follow one verification from a list to a hand, and both ways to lose it.

Abstract specifications worth stating: for a compression thread, a list of blocks written in
order, each once; for an item, the stages it may pass through; for the framing, the sequence of
messages that was sent.

Not modelled, and why. The other user data, update polling and the web core are requests to a web
service or a database with one caller each: what they return is seen by the models as an outcome. File
formats, utilities, the updater and the programs are input and output. The interface keeps no state
that other parts rely on, but for the buttons of the wait page, which `ItemTaskGroup` has. The
service core follows the pipes. The rest is in the plan above.
