------------------------------- MODULE WebGet -------------------------------
(***************************************************************************)
(* The download engine: one WGTController thread that writes blocks to the *)
(* mcf file, and WGTWorker threads that fetch them                         *)
(* (mcfcore/code/thread/WGTController.cpp, WGTWorker.cpp).                  *)
(*                                                                         *)
(* A block is its rank in web order.  A superblock (a deque of blocks that *)
(* are contiguous on the web) is the interval of its ranks: pop_front adds *)
(* one to lo, a split cuts the interval in two.  One action is one         *)
(* critical section, or one step between two of them.  m_WaitCondition is  *)
(* not kept: the controller's wait(5) times out, so a notification only    *)
(* changes how long a turn of its loop takes.  A link that expires between *)
(* getUrl and the check right after it counts as expiring later.           *)
(***************************************************************************)
EXTENDS Providers

CONSTANTS
  NumBlocks,      \* blocks to download
  NumWorkers,     \* m_uiNumber
  MaxAttempts,    \* good socket errors in a row before a new url (3 in the code)
  MaxFaults,      \* bound: errors of the network or of the disk
  MaxCorrupt,     \* bound: blocks whose bytes fail the crc
  MaxPauses,      \* bound: pauses by the user
  MayStop,        \* whether the user may stop the download
  None            \* no superblock, no block

ASSUME WebGetAssumption ==
  /\ NumBlocks \in Nat \ {0}
  /\ NumWorkers \in Nat \ {0}
  /\ Ids = 1..NumWorkers
  /\ MaxAttempts \in Nat /\ MaxFaults \in Nat /\ MaxCorrupt \in Nat /\ MaxPauses \in Nat
  /\ MayStop \in BOOLEAN

Workers == Ids
Blocks == 1..NumBlocks

\* Superblocks: [lo, hi]; empty once every block is consumed (lo = hi + 1).
Super == [lo : 1..(NumBlocks + 1), hi : 0..NumBlocks]
SizeOf(s) == IF s.lo <= s.hi THEN s.hi + 1 - s.lo ELSE 0
Members(s) == s.lo .. s.hi

VARIABLES
  \* the controller
  ctl,        \* where WGTController::run is
  at,         \* the worker its current loop is at
  saveAll,    \* saveBuffers' allBlocks
  hand,       \* the buffered block saveBuffers has popped
  saved,      \* blocks written to the file
  lost,       \* blocks whose write failed
  result,     \* how run() ended
  \* what controller and workers share
  queue,      \* m_vSuperBlockList
  avail,      \* m_iAvailbleWork
  running,    \* m_iRunningWorkers
  \* the user's thread
  stopping,   \* the controller's m_bStop
  paused,     \* the controller's m_bPause
  user,       \* the worker onStop is stopping; 0 before, NumWorkers + 1 after
  wstop,      \* the m_bStop of each worker
  \* the workers
  pc,         \* where WGTWorker::run is
  sb,         \* m_pCurBlock
  status,     \* WGTWorkerInfo::status
  buf,        \* WGTWorkerInfo::vBuffer
  loot,       \* the victim and the cut of a steal in progress
  dl,         \* m_DownloadProvider (NoUrl once the worker has left)
  conn,       \* the provider m_pMcfCon is connected to
  attempt,    \* m_iAttempt
  due,        \* blocks the current range request has still to deliver
  err,        \* m_bError
  why,        \* why the worker gives its superblock back or asks for a new url
  \* the bounds
  faults, corrupt, pauses

ctlVars == <<ctl, at, saveAll, hand>>
fileVars == <<saved, lost, result>>
workVars == <<queue, avail, running>>
userVars == <<stopping, paused, user, wstop, pauses>>
taskVars == <<sb, status, buf, loot>>
linkVars == <<dl, conn, attempt, due>>
errVars == <<err, why>>
workerVars == <<pc, taskVars, linkVars, errVars>>
bounds == <<faults, corrupt>>
vars == <<ctlVars, fileVars, workVars, userVars, workerVars, bounds, provVars>>

Buffered == [blk : Blocks, ok : BOOLEAN, prov : Urls \union {NoUrl}]

ASSUME NoneAssumption == None \notin Super \union Buffered

CtlStates == {"create", "loop", "dopause", "waiting", "save", "check", "blame", "tell",
              "scan", "running", "agents", "stop", "join", "final", "end", "died"}
WorkerStates == {"idle", "start", "loop", "asleep", "errcheck", "task", "split", "cut",
                 "assign", "begin", "recv", "pop", "reset", "give", "rmagent",
                 "refused", "geturl", "report", "leave", "done", "died"}
Reasons == {"none", "canceled", "retry", "newurl", "fatal", "crc", "start"}

NoLoot == [from |-> 0, half |-> 0]

CtlTypeOK ==
  /\ ctl \in CtlStates
  /\ at \in Workers
  /\ saveAll \in BOOLEAN
  /\ hand \in Buffered \union {None}
  /\ saved \subseteq Blocks
  /\ lost \subseteq Blocks
  /\ result \in {"none", "complete", "failed", "stopped"}

WorkTypeOK ==
  /\ queue \in Seq(Super)
  /\ avail \in Nat
  /\ running \in Nat

UserTypeOK ==
  /\ stopping \in BOOLEAN
  /\ paused \in BOOLEAN
  /\ user \in 0..(NumWorkers + 1)
  /\ wstop \in [Workers -> BOOLEAN]
  /\ pauses \in 0..MaxPauses

TaskTypeOK ==
  /\ sb \in [Workers -> Super \union {None}]
  /\ status \in [Workers -> {"CONTINUE", "STOP"}]
  /\ buf \in [Workers -> Seq(Buffered)]
  /\ loot \in [Workers -> [from : Workers \union {0}, half : 0..NumBlocks]]

LinkTypeOK ==
  /\ dl \in [Workers -> Urls \union {NoUrl}]
  /\ conn \in [Workers -> Urls \union {NoUrl}]
  /\ attempt \in [Workers -> 0..MaxAttempts]
  /\ due \in [Workers -> 0..NumBlocks]

TypeOK ==
  /\ ProvidersTypeOK
  /\ CtlTypeOK
  /\ WorkTypeOK
  /\ UserTypeOK
  /\ pc \in [Workers -> WorkerStates]
  /\ TaskTypeOK
  /\ LinkTypeOK
  /\ err \in [Workers -> BOOLEAN]
  /\ why \in [Workers -> Reasons]
  /\ faults \in 0..MaxFaults
  /\ corrupt \in 0..MaxCorrupt

----------------------------------------------------------------------------
\* What fillBlockList leaves behind: every block, in web order, cut into
\* superblocks wherever the web offsets jump or the size limit is reached.
SuperBlockLists ==
  UNION {{q \in [1..k -> Super] : /\ q[1].lo = 1
                                  /\ q[k].hi = NumBlocks
                                  /\ \A i \in 1..k : q[i].lo <= q[i].hi
                                  /\ \A i \in 1..(k - 1) : q[i + 1].lo = q[i].hi + 1}
           : k \in Blocks}

Init ==
  /\ ProvidersInit
  /\ ctl = "create" /\ at = 1 /\ saveAll = FALSE /\ hand = None
  /\ saved = {} /\ lost = {} /\ result = "none"
  /\ queue \in SuperBlockLists
  /\ avail = Len(queue)
  /\ running = 0
  /\ stopping = FALSE /\ paused = FALSE /\ user = 0
  /\ wstop = [w \in Workers |-> FALSE]
  /\ pc = [w \in Workers |-> "idle"]
  /\ sb = [w \in Workers |-> None]
  /\ status = [w \in Workers |-> "CONTINUE"]
  /\ buf = [w \in Workers |-> <<>>]
  /\ loot = [w \in Workers |-> NoLoot]
  /\ dl = [w \in Workers |-> NoUrl]
  /\ conn = [w \in Workers |-> NoUrl]
  /\ attempt = [w \in Workers |-> 0]
  /\ due = [w \in Workers |-> 0]
  /\ err = [w \in Workers |-> FALSE]
  /\ why = [w \in Workers |-> "none"]
  /\ faults = 0 /\ corrupt = 0 /\ pauses = 0

----------------------------------------------------------------------------
\* Locks held across several actions.

\* m_pFileMutex: newTask holds it from finding the queue empty to the end of a steal.
FileFree == \A w \in Workers : pc[w] \notin {"split", "cut"}

\* WGTWorkerInfo::mutex of w: splitCurrentBlock holds it between its check of
\* the size and the cut itself.
InfoFree(w) == \A t \in Workers : ~(pc[t] = "cut" /\ loot[t].from = w)

\* m_ErrorMutex of w: run() holds it while it asks for a new url; a worker that
\* an exception takes out of run() there never releases it.
ErrFree(w) == why[w] # "crc"

\* WGTWorkerInfo::curBlock is set: newTask sets it in "assign" and
\* workerFinishedSuperBlock resets it before "give".
Shown(w) == sb[w] # None /\ pc[w] \notin {"assign", "give"}

\* BaseThread::isPaused of the controller
Paused == paused /\ ~stopping

Goto(w, l) == pc' = [pc EXCEPT ![w] = l]

\* Worker steps write neither the controller's variables nor the user's.
NotMine == UNCHANGED <<ctlVars, fileVars, userVars>>

----------------------------------------------------------------------------
\* WGTWorker::run, up to its loop.  A worker without a url reports the error
\* and leaves at once.
Start(w) ==
  /\ pc[w] = "start"
  /\ \E r \in Urls \union {NoUrl} :
       /\ GetUrl(w, r)
       /\ dl' = [dl EXCEPT ![w] = r]
       /\ IF r = NoUrl THEN /\ Goto(w, "report")
                            /\ why' = [why EXCEPT ![w] = "start"]
                       ELSE /\ Goto(w, "loop")
                            /\ UNCHANGED why
  /\ NotMine /\ UNCHANGED <<workVars, taskVars, conn, attempt, due, err, bounds>>

\* Slips in the loop's head: the worker's own status, or stop(), is not looked at.
LoopHeadIgnoresStatus(w) ==
  /\ pc[w] = "loop"
  /\ InfoFree(w)
  /\ Goto(w, IF wstop[w] \/ stopping THEN "leave" ELSE "errcheck")
  /\ NotMine /\ UNCHANGED <<workVars, taskVars, linkVars, errVars, bounds, provVars>>

LoopHeadIgnoresStop(w) ==
  /\ pc[w] = "loop"
  /\ InfoFree(w)
  /\ Goto(w, IF status[w] = "STOP" THEN "leave" ELSE "errcheck")
  /\ NotMine /\ UNCHANGED <<workVars, taskVars, linkVars, errVars, bounds, provVars>>

\* The head of run()'s loop: isThreadStopped, then getStatus.
LoopHead(w) ==
  /\ pc[w] = "loop"
  /\ InfoFree(w)
  /\ Goto(w, IF wstop[w] THEN "leave"
             ELSE IF Paused THEN "asleep"
             ELSE IF stopping \/ status[w] = "STOP" THEN "leave"
             ELSE "errcheck")
  /\ NotMine /\ UNCHANGED <<workVars, taskVars, linkVars, errVars, bounds, provVars>>

\* The worker sleeps until the pause is over; after 30 s it hangs up.
Awake(w) ==
  /\ pc[w] = "asleep"
  /\ ~Paused
  /\ InfoFree(w)
  /\ Goto(w, IF stopping \/ status[w] = "STOP" THEN "leave" ELSE "errcheck")
  /\ conn' \in {conn, [conn EXCEPT ![w] = NoUrl]}
  /\ NotMine /\ UNCHANGED <<workVars, taskVars, dl, attempt, due, errVars, bounds, provVars>>

\* An error the controller has reported makes the worker ask for a new url.
ErrCheck(w) ==
  /\ pc[w] = "errcheck"
  /\ IF err[w] THEN /\ Goto(w, "rmagent")
                    /\ why' = [why EXCEPT ![w] = "crc"]
               ELSE /\ Goto(w, IF sb[w] = None THEN "task" ELSE "begin")
                    /\ UNCHANGED why
  /\ NotMine /\ UNCHANGED <<workVars, taskVars, linkVars, err, bounds, provVars>>

\* run(), after its loop; the provider and the connection go with the worker.
Leave(w) ==
  /\ pc[w] = "leave"
  /\ RemoveAgent(w, FALSE)
  /\ Goto(w, "done")
  /\ dl' = [dl EXCEPT ![w] = NoUrl]
  /\ conn' = [conn EXCEPT ![w] = NoUrl]
  /\ NotMine /\ UNCHANGED <<workVars, taskVars, attempt, due, errVars, bounds>>

----------------------------------------------------------------------------
\* WGTController::newTask, in the worker's thread

\* It takes the front of the queue...
TakeQueued(w) ==
  /\ pc[w] = "task"
  /\ FileFree
  /\ queue # <<>>
  /\ sb' = [sb EXCEPT ![w] = Head(queue)]
  /\ queue' = Tail(queue)
  /\ Goto(w, "assign")
  /\ NotMine
  /\ UNCHANGED <<avail, running, status, buf, loot, linkVars, errVars, bounds, provVars>>

\* ... or, if it is empty, looks for the worker with most blocks left
\* (stealBlocks; the first of them), and finds nothing below three.
Count(v) == IF Shown(v) THEN SizeOf(sb[v]) ELSE 0

MinStealOne == 1     \* a slip: any superblock may be split
MinSteal == 3

LookForVictim(w) ==
  /\ pc[w] = "task"
  /\ FileFree
  /\ queue = <<>>
  /\ \E v \in Workers :
       /\ \A x \in Workers : Count(x) <= Count(v) /\ (x < v => Count(x) < Count(v))
       /\ IF Count(v) < MinSteal
          THEN /\ Goto(w, "report")
               /\ UNCHANGED loot
          ELSE /\ Goto(w, "split")
               /\ loot' = [loot EXCEPT ![w] = [from |-> v, half |-> Count(v) \div 2]]
  /\ NotMine
  /\ UNCHANGED <<workVars, sb, status, buf, linkVars, errVars, bounds, provVars>>

\* splitCurrentBlock: checks under the victim's info mutex...
Split(w) ==
  /\ pc[w] = "split"
  /\ LET v == loot[w].from IN
     IF Shown(v) /\ loot[w].half <= SizeOf(sb[v])
     THEN Goto(w, "cut") /\ UNCHANGED loot
     ELSE Goto(w, "report") /\ loot' = [loot EXCEPT ![w] = NoLoot]
  /\ NotMine
  /\ UNCHANGED <<workVars, sb, status, buf, linkVars, errVars, bounds, provVars>>

\* A slip in the cut: the victim keeps the second half too.
CutKeepsTail(w) ==
  /\ pc[w] = "cut"
  /\ sb' = [sb EXCEPT ![w] = [lo |-> sb[loot[w].from].lo + loot[w].half,
                              hi |-> sb[loot[w].from].hi]]
  /\ avail' = avail + 1
  /\ Goto(w, "assign")
  /\ loot' = [loot EXCEPT ![w] = NoLoot]
  /\ NotMine
  /\ UNCHANGED <<queue, running, status, buf, linkVars, errVars, bounds, provVars>>

\* ... then cuts under m_Lock.  The victim may have popped blocks since the
\* check; cutting beyond the end of the deque is undefined, and the outcome
\* kept here is the fault that takes the thief out of run().
Cut(w) ==
  /\ pc[w] = "cut"
  /\ LET v == loot[w].from
         half == loot[w].half
         s == sb[v]
     IN IF half <= SizeOf(s)
        THEN /\ sb' = [sb EXCEPT ![v].hi = s.lo + half - 1,
                                 ![w] = [lo |-> s.lo + half, hi |-> s.hi]]
             /\ avail' = avail + 1
             /\ Goto(w, "assign")
        ELSE /\ Goto(w, "died")
             /\ UNCHANGED <<sb, avail>>
  /\ loot' = [loot EXCEPT ![w] = NoLoot]
  /\ NotMine
  /\ UNCHANGED <<queue, running, status, buf, linkVars, errVars, bounds, provVars>>

\* setCurrentBlock
Assign(w) ==
  /\ pc[w] = "assign"
  /\ InfoFree(w)
  /\ status' = [status EXCEPT ![w] = "CONTINUE"]
  /\ Goto(w, "begin")
  /\ NotMine
  /\ UNCHANGED <<workVars, sb, buf, loot, linkVars, errVars, bounds, provVars>>

----------------------------------------------------------------------------
\* WGTWorker::doDownload with a superblock in hand

DlValid(w) == dl[w] \in Urls \ expired

HangUp(w) == conn' = [conn EXCEPT ![w] = NoUrl]

\* The range is asked for, over the connection there is: what is left of the
\* superblock at this moment.  A server may refuse the range of no bytes that
\* an empty superblock makes.
Connect(w) ==
  /\ pc[w] = "begin"
  /\ DlValid(w)
  /\ \/ /\ due' = [due EXCEPT ![w] = SizeOf(sb[w])]
        /\ conn' = IF conn[w] = NoUrl THEN [conn EXCEPT ![w] = dl[w]] ELSE conn
        /\ Goto(w, "recv")
        /\ UNCHANGED why
     \/ /\ SizeOf(sb[w]) = 0
        /\ HangUp(w)
        /\ why' = [why EXCEPT ![w] = "newurl"]
        /\ Goto(w, "reset")
        /\ UNCHANGED due
  /\ NotMine /\ UNCHANGED <<workVars, taskVars, dl, attempt, err, bounds, provVars>>

\* The link has expired: another url, or "No more download servers to use".
\* A connection that is open stays.
RenewUrl(w) ==
  /\ pc[w] = "begin"
  /\ ~DlValid(w)
  /\ \E r \in Urls \union {NoUrl} :
       /\ GetUrl(w, r)
       /\ dl' = [dl EXCEPT ![w] = r]
       /\ IF r = NoUrl THEN /\ Goto(w, "reset")
                            /\ why' = [why EXCEPT ![w] = "newurl"]
                       ELSE UNCHANGED <<pc, why>>
  /\ NotMine /\ UNCHANGED <<workVars, taskVars, conn, attempt, due, err, bounds>>

\* getName: the provider the table records for the worker
NameOf(w) == {u \in listed : owner[u] = w}
IsNameOf(p, w) == IF NameOf(w) = {} THEN p = NoUrl ELSE p \in First(NameOf(w), arrived)

\* writeData with the last bytes of the front block: the block goes to the
\* buffer (workerFinishedBlock) while it is still at the front of the deque.
RecvBlock(w, ok) ==
  /\ pc[w] = "recv"
  /\ due[w] > 0
  /\ ~wstop[w] /\ ~err[w]
  /\ SizeOf(sb[w]) > 0
  /\ InfoFree(w)
  /\ ok \/ corrupt < MaxCorrupt
  /\ \E p \in Urls \union {NoUrl} :
       /\ IsNameOf(p, w)
       /\ buf' = [buf EXCEPT ![w] = Append(@, [blk |-> sb[w].lo, ok |-> ok, prov |-> p])]
  /\ due' = [due EXCEPT ![w] = @ - 1]
  /\ corrupt' = IF ok THEN corrupt ELSE corrupt + 1
  /\ Goto(w, "pop")
  /\ NotMine
  /\ UNCHANGED <<workVars, sb, status, loot, dl, conn, attempt, errVars, faults, provVars>>

\* writeData, after workerFinishedBlock; it ends FALSE when the controller is paused.
PopFront(w) ==
  /\ pc[w] = "pop"
  /\ sb' = [sb EXCEPT ![w].lo = @ + 1]
  /\ Goto(w, IF Paused THEN "refused" ELSE "recv")
  /\ NotMine
  /\ UNCHANGED <<workVars, status, buf, loot, linkVars, errVars, bounds, provVars>>

\* writeData returns FALSE: stopped, an error reported by the controller, bytes
\* of blocks that another worker has stolen, or paused.  A stopped worker's
\* connection is aborted without waiting for data.
RefuseData(w) ==
  /\ pc[w] = "recv"
  /\ wstop[w] \/ (due[w] > 0 /\ (err[w] \/ SizeOf(sb[w]) = 0 \/ Paused))
  /\ Goto(w, "refused")
  /\ NotMine /\ UNCHANGED <<workVars, taskVars, linkVars, errVars, bounds, provVars>>

\* The exception of a range request: downloadRange hangs up.
Fails(w, reason) ==
  /\ why' = [why EXCEPT ![w] = reason]
  /\ Goto(w, "reset")
  /\ HangUp(w)
  /\ due' = [due EXCEPT ![w] = 0]

\* downloadRange returns: the superblock is finished if nothing is left of it.
RangeEnds(w) == Goto(w, IF SizeOf(sb[w]) = 0 THEN "reset" ELSE "loop")

\* What a refusal becomes: the progress callback aborts the transfer
\* (ERR_USERCANCELED), more data comes first (a write error of curl), or it was
\* the last chunk and the request ends well.
Refused(w) ==
  /\ pc[w] = "refused"
  /\ \/ Fails(w, "canceled")
     \/ due[w] > 0 /\ Fails(w, "newurl")
     \/ /\ RangeEnds(w)
        /\ due' = [due EXCEPT ![w] = 0]
        /\ UNCHANGED <<why, conn>>
  /\ NotMine /\ UNCHANGED <<workVars, taskVars, dl, attempt, err, bounds, provVars>>

RangeDone(w) ==
  /\ pc[w] = "recv"
  /\ due[w] = 0
  /\ RangeEnds(w)
  /\ NotMine /\ UNCHANGED <<workVars, taskVars, linkVars, errVars, bounds, provVars>>

\* downloadRange throws: a good socket error, or any other error of the server.
NetError(w, reason) ==
  /\ pc[w] = "recv"
  /\ faults < MaxFaults
  /\ faults' = faults + 1
  /\ Fails(w, reason)
  /\ NotMine /\ UNCHANGED <<workVars, taskVars, dl, attempt, err, corrupt, provVars>>

\* curl's "partial file" is no error to downloadRange: it returns early.
PartialFile(w) ==
  /\ pc[w] = "recv"
  /\ faults < MaxFaults
  /\ faults' = faults + 1
  /\ RangeEnds(w)
  /\ due' = [due EXCEPT ![w] = 0]
  /\ NotMine
  /\ UNCHANGED <<workVars, taskVars, dl, conn, attempt, errVars, corrupt, provVars>>

\* getUrl throws inside doDownload's try.
RenewThrows(w) ==
  /\ pc[w] = "begin"
  /\ ~DlValid(w)
  /\ GetUrlThrows(w)
  /\ why' = [why EXCEPT ![w] = "fatal"]
  /\ Goto(w, "reset")
  /\ NotMine /\ UNCHANGED <<workVars, taskVars, linkVars, err, bounds>>

----------------------------------------------------------------------------
\* workerFinishedSuperBlock: first the worker's info...
Reset(w) ==
  /\ pc[w] = "reset"
  /\ InfoFree(w)
  /\ status' = [status EXCEPT ![w] = "CONTINUE"]
  /\ Goto(w, "give")
  /\ NotMine
  /\ UNCHANGED <<workVars, sb, buf, loot, linkVars, errVars, bounds, provVars>>

\* ... then the superblock is dropped or queued again, and the handler of the
\* exception (if any) decides how the worker goes on: a cancelled or stopped
\* one just loops, a good socket error is retried a few times.
Retries(w) == why[w] = "retry" /\ ~wstop[w] /\ attempt[w] < MaxAttempts

Loops(w) ==
  \/ why[w] \in {"none", "canceled"}
  \/ why[w] \in {"retry", "newurl", "fatal"} /\ wstop[w]
  \/ Retries(w)

\* A slip: a superblock that was not finished is dropped like a finished one.
GiveDropsRest(w) ==
  /\ pc[w] = "give"
  /\ FileFree
  /\ sb' = [sb EXCEPT ![w] = None]
  /\ avail' = avail - 1
  /\ attempt' = IF Retries(w) THEN [attempt EXCEPT ![w] = @ + 1] ELSE attempt
  /\ Goto(w, IF Loops(w) THEN "loop" ELSE "rmagent")
  /\ why' = IF Loops(w) THEN [why EXCEPT ![w] = "none"] ELSE why
  /\ NotMine
  /\ UNCHANGED <<queue, running, status, buf, loot, dl, conn, due, err, bounds, provVars>>

Give(w) ==
  /\ pc[w] = "give"
  /\ FileFree
  /\ sb' = [sb EXCEPT ![w] = None]
  /\ IF SizeOf(sb[w]) = 0
     THEN avail' = avail - 1 /\ UNCHANGED queue
     ELSE queue' = Append(queue, sb[w]) /\ UNCHANGED avail
  /\ attempt' = IF Retries(w) THEN [attempt EXCEPT ![w] = @ + 1] ELSE attempt
  /\ IF Loops(w)
     THEN /\ Goto(w, "loop")
          /\ why' = [why EXCEPT ![w] = "none"]
     ELSE /\ Goto(w, IF why[w] \in {"fatal", "crc"} THEN "report" ELSE "rmagent")
          /\ UNCHANGED why
  /\ NotMine
  /\ UNCHANGED <<running, status, buf, loot, dl, conn, due, err, bounds, provVars>>

----------------------------------------------------------------------------
\* WGTWorker::requestNewUrl, in run() ("crc") or in the handler of an exception
RmAgent(w) ==
  /\ pc[w] = "rmagent"
  /\ RemoveAgent(w, TRUE)
  /\ Goto(w, "geturl")
  /\ NotMine /\ UNCHANGED <<workVars, taskVars, linkVars, errVars, bounds>>

\* A new provider: run() goes on to doDownload, the handler back to the loop.
\* None: the error is reported, the superblock in hand first given back.
GetNewUrl(w) ==
  /\ pc[w] = "geturl"
  /\ \E r \in Urls \union {NoUrl} :
       /\ GetUrl(w, r)
       /\ dl' = [dl EXCEPT ![w] = r]
       /\ \/ /\ r = NoUrl
             /\ Goto(w, IF sb[w] = None THEN "report" ELSE "reset")
             /\ UNCHANGED <<attempt, conn, why, err>>
          \/ /\ r # NoUrl
             /\ attempt' = [attempt EXCEPT ![w] = 0]
             /\ HangUp(w)
             /\ why' = [why EXCEPT ![w] = "none"]
             /\ err' = IF why[w] = "crc" THEN [err EXCEPT ![w] = FALSE] ELSE err
             /\ Goto(w, IF why[w] # "crc" THEN "loop"
                        ELSE IF sb[w] = None THEN "task" ELSE "begin")
  /\ NotMine /\ UNCHANGED <<workVars, taskVars, due, bounds>>

\* getUrl throws outside any try, or in doDownload a pointer that its catch does
\* not match: BaseThread catches it and the thread ends.
Dies(w) ==
  /\ pc[w] \in {"start", "geturl"} \/ (pc[w] = "begin" /\ ~DlValid(w))
  /\ GetUrlThrows(w)
  /\ Goto(w, "died")
  /\ NotMine /\ UNCHANGED <<workVars, taskVars, linkVars, errVars, bounds>>

\* Slips in reportError: the worker is told to stop but not counted out, or
\* counted out but not told.
ReportUncounted(w) ==
  /\ pc[w] = "report"
  /\ InfoFree(w)
  /\ status' = [status EXCEPT ![w] = "STOP"]
  /\ err' = IF why[w] = "crc" THEN [err EXCEPT ![w] = FALSE] ELSE err
  /\ why' = [why EXCEPT ![w] = "none"]
  /\ Goto(w, IF why[w] = "start" THEN "done" ELSE "loop")
  /\ NotMine /\ UNCHANGED <<workVars, sb, buf, loot, linkVars, bounds, provVars>>

ReportKeepsStatus(w) ==
  /\ pc[w] = "report"
  /\ InfoFree(w)
  /\ running' = running - 1
  /\ err' = IF why[w] = "crc" THEN [err EXCEPT ![w] = FALSE] ELSE err
  /\ why' = [why EXCEPT ![w] = "none"]
  /\ Goto(w, IF why[w] = "start" THEN "done" ELSE "loop")
  /\ NotMine /\ UNCHANGED <<queue, avail, taskVars, linkVars, bounds, provVars>>

\* The end of WGTController::reportError, and of newTask without work: the
\* worker is told to stop and counted out.
Report(w) ==
  /\ pc[w] = "report"
  /\ InfoFree(w)
  /\ status' = [status EXCEPT ![w] = "STOP"]
  /\ running' = running - 1
  /\ err' = IF why[w] = "crc" THEN [err EXCEPT ![w] = FALSE] ELSE err
  /\ why' = [why EXCEPT ![w] = "none"]
  /\ Goto(w, IF why[w] = "start" THEN "done" ELSE "loop")
  /\ NotMine
  /\ UNCHANGED <<queue, avail, sb, buf, loot, linkVars, bounds, provVars>>

----------------------------------------------------------------------------
\* WGTController::run.  createWorkers starts a worker, then counts it in; only
\* the controller reads the count, later, so the two are one step here.
NotWorkers == UNCHANGED <<userVars, workerVars>>

CreateWorker ==
  /\ ctl = "create"
  /\ Goto(at, "start")
  /\ running' = running + 1
  /\ IF at < NumWorkers THEN at' = at + 1 /\ UNCHANGED ctl
                        ELSE at' = 1 /\ ctl' = "loop"
  /\ UNCHANGED <<saveAll, hand, fileVars, queue, avail, userVars, taskVars, linkVars,
                 errVars, bounds, provVars>>

\* while (!isStopped()), and doPause's look at the pause
CtlLoop ==
  /\ ctl = "loop"
  /\ ctl' = IF stopping THEN "stop" ELSE IF Paused THEN "dopause" ELSE "save"
  /\ NotWorkers /\ UNCHANGED <<at, saveAll, hand, fileVars, workVars, bounds, provVars>>

\* doPause goes to wait, whatever has happened since it looked...
CtlWait ==
  /\ ctl = "dopause"
  /\ ctl' = "waiting"
  /\ NotWorkers /\ UNCHANGED <<at, saveAll, hand, fileVars, workVars, bounds, provVars>>

\* ... and condition variables may wake without a notification.
SpuriousWakeup ==
  /\ ctl = "waiting"
  /\ ctl' = "save"
  /\ NotWorkers /\ UNCHANGED <<at, saveAll, hand, fileVars, workVars, bounds, provVars>>

\* The end of saveBuffers' turn for one worker
NextBuffer ==
  IF at < NumWorkers THEN at' = at + 1 /\ ctl' = "save"
                     ELSE at' = 1 /\ ctl' = IF saveAll THEN "stop" ELSE "scan"

\* The end of one pass of saveBuffers' do-while
SameBuffer == IF saveAll THEN ctl' = "save" /\ UNCHANGED at ELSE NextBuffer

\* saveBuffers: popBlock
PopBuffer ==
  /\ ctl = "save"
  /\ InfoFree(at)
  /\ \/ /\ buf[at] # <<>>
        /\ hand' = Head(buf[at])
        /\ buf' = [buf EXCEPT ![at] = Tail(@)]
        /\ ctl' = "check"
        /\ UNCHANGED at
     \/ /\ buf[at] = <<>>
        /\ NextBuffer
        /\ UNCHANGED <<hand, buf>>
  /\ UNCHANGED <<saveAll, fileVars, workVars, userVars, pc, sb, status, loot, linkVars,
                 errVars, bounds, provVars>>

\* a good block is written...
WriteBlock ==
  /\ ctl = "check"
  /\ hand.ok
  /\ saved' = saved \union {hand.blk}
  /\ hand' = None
  /\ SameBuffer
  /\ NotWorkers /\ UNCHANGED <<saveAll, lost, result, workVars, bounds, provVars>>

\* ... or the disk fails: onErrorEvent, and on to the next worker
WriteFails ==
  /\ ctl = "check"
  /\ hand.ok
  /\ faults < MaxFaults
  /\ faults' = faults + 1
  /\ lost' = lost \union {hand.blk}
  /\ hand' = None
  /\ NextBuffer
  /\ NotWorkers /\ UNCHANGED <<saveAll, saved, result, workVars, corrupt, provVars>>

\* A slip: the new superblock is not added to the work available.
RequeueUncounted ==
  /\ ctl = "check"
  /\ ~hand.ok
  /\ FileFree
  /\ queue' = Append(queue, [lo |-> hand.blk, hi |-> hand.blk])
  /\ ctl' = "blame"
  /\ NotWorkers /\ UNCHANGED <<at, saveAll, hand, fileVars, avail, running, bounds, provVars>>

\* checkBlock: a bad block becomes a superblock of its own at the back of the queue...
Requeue ==
  /\ ctl = "check"
  /\ ~hand.ok
  /\ FileFree
  /\ queue' = Append(queue, [lo |-> hand.blk, hi |-> hand.blk])
  /\ avail' = avail + 1
  /\ ctl' = "blame"
  /\ NotWorkers /\ UNCHANGED <<at, saveAll, hand, fileVars, running, bounds, provVars>>

\* ... and its worker is blamed (WGTWorker::reportError), unless it has changed
\* providers meanwhile: the name is compared first...
Blame ==
  /\ ctl = "blame"
  /\ hand' = None
  /\ IF IsNameOf(hand.prov, at) THEN ctl' = "tell" /\ UNCHANGED at ELSE SameBuffer
  /\ NotWorkers /\ UNCHANGED <<saveAll, fileVars, workVars, bounds, provVars>>

\* ... then m_ErrorMutex is taken, which may wait for the worker's new url.
Tell ==
  /\ ctl = "tell"
  /\ ErrFree(at)
  /\ err' = [err EXCEPT ![at] = TRUE]
  /\ SameBuffer
  /\ UNCHANGED <<saveAll, hand, fileVars, workVars, userVars, pc, taskVars, linkVars, why,
                 bounds, provVars>>

\* isQueuedBlocks
Scan ==
  /\ ctl = "scan"
  /\ InfoFree(at)
  /\ IF buf[at] # <<>> THEN ctl' = "loop" /\ at' = 1
     ELSE IF at < NumWorkers THEN at' = at + 1 /\ UNCHANGED ctl
     ELSE at' = 1 /\ ctl' = "running"
  /\ NotWorkers /\ UNCHANGED <<saveAll, hand, fileVars, workVars, bounds, provVars>>

CheckRunning ==
  /\ ctl = "running"
  /\ ctl' = IF running = 0 THEN "stop" ELSE "agents"
  /\ NotWorkers /\ UNCHANGED <<at, saveAll, hand, fileVars, workVars, bounds, provVars>>

\* No provider out of timeout: save what is buffered and leave.  Otherwise
\* wait(5) and loop.
CheckAgents ==
  /\ ctl = "agents"
  /\ \E res \in BOOLEAN :
       /\ HasValidAgents(res)
       /\ ctl' = IF res THEN "loop" ELSE "save"
       /\ saveAll' = ~res
  /\ NotWorkers /\ UNCHANGED <<at, hand, fileVars, workVars, bounds>>

\* A failed web request takes the controller itself out of run().
CtlDies ==
  /\ ctl = "agents"
  /\ listed = {}
  /\ FetchPossible
  /\ ctl' = "died"
  /\ NotWorkers /\ UNCHANGED <<at, saveAll, hand, fileVars, workVars, bounds, provVars>>

\* worker->stop(), one worker after the other: tell it, hang up, join it.
StopWorker ==
  /\ ctl = "stop"
  /\ wstop' = [wstop EXCEPT ![at] = TRUE]
  /\ HangUp(at)
  /\ ctl' = "join"
  /\ UNCHANGED <<at, saveAll, hand, fileVars, workVars, stopping, paused, user, pauses,
                 pc, taskVars, dl, attempt, due, errVars, bounds, provVars>>

Ended(w) == pc[w] \in {"done", "died"}

JoinWorker ==
  /\ ctl = "join"
  /\ Ended(at)
  /\ IF at < NumWorkers THEN at' = at + 1 /\ ctl' = "stop"
                        ELSE at' = 1 /\ ctl' = "final"
  /\ NotWorkers /\ UNCHANGED <<saveAll, hand, fileVars, workVars, bounds, provVars>>

\* The verdict: with no work available every file is flagged FLAG_COMPLETE.
Finish ==
  /\ ctl = "final"
  /\ result' = IF avail = 0 THEN "complete" ELSE IF stopping THEN "stopped" ELSE "failed"
  /\ ctl' = "end"
  /\ NotWorkers /\ UNCHANGED <<at, saveAll, hand, saved, lost, workVars, bounds, provVars>>

----------------------------------------------------------------------------
\* The user's thread: pause(), unpause(), stop()
NotUsers == UNCHANGED <<at, saveAll, hand, fileVars, workVars, bounds, provVars>>

Alive == ctl \notin {"end", "died"}

\* notify_all of the pause's condition variable
WakeController == ctl' = IF ctl = "waiting" THEN "save" ELSE ctl

Pause ==
  /\ Alive /\ user = 0 /\ ~paused /\ pauses < MaxPauses
  /\ paused' = TRUE
  /\ pauses' = pauses + 1
  /\ NotUsers /\ UNCHANGED <<ctl, stopping, user, wstop, workerVars>>

Unpause ==
  /\ user = 0 /\ paused
  /\ paused' = FALSE
  /\ WakeController
  /\ NotUsers /\ UNCHANGED <<stopping, user, wstop, pauses, workerVars>>

\* nonBlockStop: unpause, m_bStop, then onStop, which stops the workers in turn
\* while the controller may be doing the same.
Stop ==
  /\ MayStop /\ Alive /\ user = 0
  /\ paused' = FALSE
  /\ WakeController
  /\ stopping' = TRUE
  /\ user' = 1
  /\ NotUsers /\ UNCHANGED <<wstop, pauses, workerVars>>

OnStopWorker ==
  /\ user \in Workers
  /\ pc[user] # "idle"
  /\ ~wstop[user]
  /\ wstop' = [wstop EXCEPT ![user] = TRUE]
  /\ HangUp(user)
  /\ NotUsers
  /\ UNCHANGED <<ctl, stopping, paused, user, pauses, pc, taskVars, dl, attempt, due, errVars>>

\* A worker that has not been started is passed over.
OnStopJoin ==
  /\ user \in Workers
  /\ pc[user] = "idle" \/ (wstop[user] /\ Ended(user))
  /\ user' = user + 1
  /\ NotUsers /\ UNCHANGED <<ctl, stopping, paused, wstop, pauses, workerVars>>

----------------------------------------------------------------------------
\* Timeouts end and links expire as long as the download lasts.
Environment ==
  /\ Alive
  /\ \E u \in Urls : TimeOutEnds(u) \/ Expire(u)
  /\ UNCHANGED <<ctlVars, fileVars, workVars, userVars, workerVars, bounds>>

Worker(w) ==
  \/ Start(w) \/ LoopHead(w) \/ Awake(w) \/ ErrCheck(w) \/ Leave(w)
  \/ TakeQueued(w) \/ LookForVictim(w) \/ Split(w) \/ Cut(w) \/ Assign(w)
  \/ Connect(w) \/ RenewUrl(w) \/ RecvBlock(w, TRUE) \/ PopFront(w)
  \/ RefuseData(w) \/ Refused(w) \/ RangeDone(w)
  \/ Reset(w) \/ Give(w) \/ RmAgent(w) \/ GetNewUrl(w) \/ Report(w)

Controller ==
  \/ CreateWorker \/ CtlLoop \/ CtlWait \/ PopBuffer \/ WriteBlock \/ Requeue
  \/ Blame \/ Tell \/ Scan \/ CheckRunning \/ CheckAgents \/ StopWorker \/ JoinWorker \/ Finish

User == Unpause \/ OnStopWorker \/ OnStopJoin

\* What may go wrong, or be asked for, at any time
Fault ==
  \/ \E w \in Workers : \/ RecvBlock(w, FALSE)
                        \/ NetError(w, "retry") \/ NetError(w, "newurl") \/ PartialFile(w)
                        \/ RenewThrows(w) \/ Dies(w)
  \/ WriteFails \/ CtlDies \/ SpuriousWakeup \/ Pause \/ Stop

Next == (\E w \in Workers : Worker(w)) \/ Controller \/ User \/ Fault \/ Environment

Spec == Init /\ [][Next]_vars

\* Every thread is scheduled again and again, a request ends one way or the
\* other, and a pause ends.  Nothing is asked of faults, of the user's stop or
\* of the providers' timeouts.
Fairness ==
  /\ \A w \in Workers : WF_vars(Worker(w))
  /\ WF_vars(Controller)
  /\ WF_vars(User)

FairSpec == Spec /\ Fairness

----------------------------------------------------------------------------
Holders == {w \in Workers : sb[w] # None}

\* The places a block can be in.  A block between workerFinishedBlock and
\* pop_front is still at the front of its superblock; it counts as fetched.
Queued(b) == {i \in DOMAIN queue : b \in Members(queue[i])}
Held(b) == {w \in Holders : /\ b \in Members(sb[w])
                            /\ ~(pc[w] = "pop" /\ b = sb[w].lo)}
InBuffer(b) ==
  UNION {{<<w, i>> : i \in {j \in DOMAIN buf[w] : buf[w][j].blk = b}} : w \in Workers}
InHand(b) == {c \in {"check"} : ctl = c /\ hand.blk = b}
Written(b) == {b} \intersect (saved \union lost)

\* No block is ever lost or downloaded into two places at once: it is in one
\* superblock, queued or held, or in one buffer, or in the controller's hand,
\* or it was written, or its write failed - whatever the steals, retries and
\* failed crcs.
BlockInOnePlace ==
  \A b \in Blocks :
    Cardinality(Queued(b)) + Cardinality(Held(b)) + Cardinality(InBuffer(b))
      + Cardinality(InHand(b)) + Cardinality(Written(b)) = 1

\* m_iAvailbleWork, read without a lock to decide that the download is
\* complete, counts the superblocks that are queued or held by a worker.
WorkAccounted == avail = Len(queue) + Cardinality(Holders)

\* m_iRunningWorkers, whose zero ends the controller's loop, counts the workers
\* that have not been told to stop; it is decremented once per worker.
Counted == {w \in Workers : pc[w] # "idle" /\ status[w] = "CONTINUE"}
RunningAccounted == running = Cardinality(Counted)

\* A worker that is counted out holds nothing and never takes work again.
CountedOutIsIdle ==
  \A w \in Workers :
    status[w] = "STOP" => sb[w] = None /\ pc[w] \in {"loop", "asleep", "leave", "done"}

\* A steal leaves its victim the block it is writing: pop_front never meets an
\* empty deque.
PopFrontSafe == \A w \in Workers : pc[w] = "pop" => sb[w] # None /\ SizeOf(sb[w]) > 0

\* Two workers never ask the same live server for data at the same time.
OneWorkerPerServer ==
  \A v, w \in Workers :
    (pc[v] = "recv" /\ pc[w] = "recv" /\ conn[v] = conn[w] /\ conn[v] \in Urls \ expired)
      => v = w

\* The abstract download: a block counts as fetched from the moment a worker
\* hands it over to the moment the controller has judged it.
BlockState(b) ==
  IF b \in saved THEN "saved"
  ELSE IF b \in lost THEN "lost"
  ELSE IF \/ ctl = "check" /\ hand.blk = b
          \/ \E w \in Workers : \E i \in DOMAIN buf[w] : buf[w][i].blk = b
       THEN "fetched"
  ELSE "todo"

Abstract == INSTANCE Download WITH block <- [b \in Blocks |-> BlockState(b)],
                                   verdict <- result

\* Whatever the steals, retries and failures of the threads, the download is
\* the abstract one: no block is written twice, is refetched once written or
\* lost, or is missing when the verdict is "complete".
DownloadSpec == Abstract!Spec

\* FLAG_COMPLETE, "file is complete" (MCFFileI.h:55): every block was written.
CompleteMeansSaved == result = "complete" => saved = Blocks

\* An exception has taken a thread out of its run(), or the controller waits in
\* doPause for a wake-up that came before the wait (BaseThread.cpp:251).
AnyDied == ctl = "died" \/ \E w \in Workers : pc[w] = "died"
WokenTooEarly == ctl = "waiting" /\ ~Paused
Lost == AnyDied \/ WokenTooEarly

\* run() ends, with a verdict, whatever is retried, paused or stopped, unless a
\* thread is lost.
Termination == <>(ctl = "end" \/ Lost)

\* stop() stops the thread: the controller and every worker end, and the
\* caller gets out of onStop, unless a thread is lost...
StopStops == stopping ~> (Lost \/ (ctl = "end" /\ user > NumWorkers
                                     /\ \A w \in Workers : pc[w] = "done"))

\* ... and if none died, as the header of stop() says.
StopReturns == stopping ~> (AnyDied \/ ctl = "end")
=============================================================================
