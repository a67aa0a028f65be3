----------------------------- MODULE SaveFiles -----------------------------
(***************************************************************************)
(* Unpacking an mcf: SFTController.cpp and SFTWorker.cpp of mcfcore, which *)
(* every install, update and repair runs in the service.  The controller   *)
(* reads the mcf and fills the buffers of its workers; a worker takes a    *)
(* file, writes its blocks and checks the hash of what it wrote.           *)
(*                                                                         *)
(* Only the buffers have a mutex.  status, curFile and offset of a worker  *)
(* are read and written by both threads without one, so each look at one   *)
(* of them, and each change of one, is a step of its own, in the order of  *)
(* the code: endTask is four steps, newTask six, a pass of fillBuffers     *)
(* over one worker up to ten.  A torn copy of curFile is left out.  So are *)
(* pauses, the progress, compression (a block of a compressed file is      *)
(* written once its bytes are unpacked) and a last block that is shorter.  *)
(***************************************************************************)
EXTENDS Integers, Sequences, FiniteSets

CONSTANTS
  Files,        \* the files to unpack: fillFileList has left out the others
  Sizes,        \* their numbers of blocks: a set of functions; 0 is an empty file
  NumWorkers,   \* m_uiNumber
  MaxBuffers,   \* buffers of one worker (4 in the code)
  MaxErrors,    \* bound on failures of the disk
  MayStop,      \* the user may stop the installation
  NoFile        \* nullptr

ASSUME SaveAssumption ==
  /\ Sizes \subseteq [Files -> Nat]
  /\ NumWorkers \in Nat \ {0}
  /\ MaxBuffers \in Nat \ {0}
  /\ MaxErrors \in Nat
  /\ MayStop \in BOOLEAN
  /\ NoFile \notin Files

Workers == 1..NumWorkers

VARIABLES
  size,         \* the blocks of each file
  fileList,     \* m_vFileList: the files nobody has taken
  status,       \* SFTWorkerInfo of each worker,
  curFile,      \* its m_pCurFile,
  offset,       \* the blocks of it that were read,
  vBuffer,      \* and its buffers
  pc,           \* where a worker is
  mine,         \* its m_pCurFile
  block,        \* the buffer in its hand
  open,         \* its file is open
  ctl,          \* where the controller is
  turn,         \* the worker it looks at
  reading,      \* what it reads: a file, and the offset as it was seen twice
  stopped,      \* m_bStop of the controller
  disk,         \* what was written to each file
  done,         \* the files that ended as COMPLETE
  told,         \* the files whose failure has raised an error
  errors,       \* failures of the disk so far
  crashed       \* a null pointer was dereferenced

infoVars == <<status, curFile, offset, vBuffer>>
workVars == <<pc, mine, block, open>>
ctlVars == <<ctl, turn, reading>>
fileVars == <<fileList, disk, done, told>>
vars == <<size, infoVars, workVars, ctlVars, fileVars, stopped, errors, crashed>>

Blocks == Files \X (Nat \ {0})
NoBlock == <<>>
NoRead == <<>>
BlocksOf(f) == [n \in 1..size[f] |-> <<f, n>>]
Places == {"loop", "look", "task", "take", "pop", "leave", "assign", "reset", "go", "open", "work",
           "drain", "write", "lastwrite", "finish", "null", "unset", "clear", "dead"}
CtlPlaces == {"loop", "check", "file?", "room?", "end?", "file", "diff", "seek", "push", "mark",
              "advance", "null", "unset", "clear", "done?", "join", "over"}

TypeOK ==
  /\ size \in Sizes
  /\ fileList \subseteq Files
  /\ status \in [Workers -> {"null", "wait", "stop", "endfile", "continue"}]
  /\ curFile \in [Workers -> Files \union {NoFile}]
  /\ offset \in [Workers -> Nat]
  /\ vBuffer \in [Workers -> Seq(Blocks)]
  /\ pc \in [Workers -> Places]
  /\ mine \in [Workers -> Files \union {NoFile}]
  /\ block \in [Workers -> Blocks \union {NoBlock}]
  /\ open \in [Workers -> BOOLEAN]
  /\ ctl \in CtlPlaces
  /\ turn \in Workers
  /\ reading \in (Files \X Nat \X Nat) \union {NoRead}
  /\ stopped \in BOOLEAN
  /\ disk \in [Files -> Seq(Blocks)]
  /\ done \subseteq Files
  /\ told \subseteq Files
  /\ errors \in 0..MaxErrors
  /\ crashed \in BOOLEAN

Init ==
  /\ size \in Sizes
  /\ fileList = Files
  /\ status = [w \in Workers |-> "null"]
  /\ curFile = [w \in Workers |-> NoFile]
  /\ offset = [w \in Workers |-> 0]
  /\ vBuffer = [w \in Workers |-> <<>>]
  /\ pc = [w \in Workers |-> "loop"]
  /\ mine = [w \in Workers |-> NoFile]
  /\ block = [w \in Workers |-> NoBlock]
  /\ open = [w \in Workers |-> FALSE]
  /\ ctl = "loop" /\ turn = 1 /\ reading = NoRead
  /\ stopped = FALSE
  /\ disk = [f \in Files |-> <<>>]
  /\ done = {} /\ told = {}
  /\ errors = 0 /\ crashed = FALSE

Goto(w, p) == pc' = [pc EXCEPT ![w] = p]
Fault == errors < MaxErrors /\ errors' = errors + 1

\* The controller holds the mutex of the buffers of w.
Locked(w) == ctl \in {"mark", "advance"} /\ turn = w

\* The changes of a worker's info, by it or by the controller.
SetStatus(w, s) == status' = [status EXCEPT ![w] = s] /\ UNCHANGED <<curFile, offset, vBuffer>>
SetFile(w, f) == curFile' = [curFile EXCEPT ![w] = f] /\ UNCHANGED <<status, offset, vBuffer>>
SetOffset(w, n) == offset' = [offset EXCEPT ![w] = n] /\ UNCHANGED <<status, curFile, vBuffer>>
SetBuffers(w, b) == vBuffer' = [vBuffer EXCEPT ![w] = b] /\ UNCHANGED <<status, curFile, offset>>

(***************************************************************************)
(* endTask begins with the error, unless the file is complete.  Then it    *)
(* sets the status, the file and, in their mutex, the buffers.             *)
(***************************************************************************)
Judge(f, ok) ==
  /\ done' = IF ok THEN done \union {f} ELSE done
  /\ told' = IF ok THEN told ELSE told \union {f}
  /\ UNCHANGED <<fileList, disk>>

-----------------------------------------------------------------------------
(***************************************************************************)
(* The worker.                                                             *)
(***************************************************************************)
\* run asks for its status, which is STOP when the controller was stopped.
AskStopped(w) ==
  /\ pc[w] = "loop"
  /\ Goto(w, IF stopped THEN "dead" ELSE "look")
  /\ UNCHANGED <<infoVars, mine, block, open, fileVars, errors>>

Look(w) ==
  /\ pc[w] = "look"
  /\ \E p \in {<<"stop", "dead">>, <<"null", "task">>, <<"endfile", "drain">>,
               <<"continue", "work">>, <<"wait", "loop">>} : status[w] = p[1] /\ Goto(w, p[2])
  /\ UNCHANGED <<infoVars, mine, block, open, fileVars, errors>>

\* newTask looks at the status again, which the controller may have changed,
AskTask(w) ==
  /\ pc[w] = "task"
  /\ mine' = [mine EXCEPT ![w] = NoFile]
  /\ Goto(w, IF status[w] = "null" THEN "take" ELSE "loop")
  /\ UNCHANGED <<infoVars, block, open, fileVars, errors>>

WaitTask(w) ==
  /\ pc[w] = "take"
  /\ SetStatus(w, "wait")
  /\ Goto(w, "pop")
  /\ UNCHANGED <<mine, block, open, fileVars, errors>>

\* takes a file from the list, in the mutex of the list,
TakeFile(w) ==
  /\ pc[w] = "pop"
  /\ \E f \in fileList :
       /\ fileList' = fileList \ {f}
       /\ mine' = [mine EXCEPT ![w] = f]
  /\ Goto(w, "assign")
  /\ UNCHANGED <<infoVars, block, open, disk, done, told, errors>>

NoFileLeft(w) ==
  /\ pc[w] = "pop" /\ fileList = {}
  /\ Goto(w, "leave")
  /\ UNCHANGED <<infoVars, mine, block, open, fileVars, errors>>

\* Slip: a worker without a file keeps the status of one that takes a file.
LeaveWaits(w) ==
  /\ pc[w] = "leave"
  /\ SetStatus(w, "wait")
  /\ Goto(w, "loop")
  /\ UNCHANGED <<mine, block, open, fileVars, errors>>

\* and is done when there is none;
Leave(w) ==
  /\ pc[w] = "leave"
  /\ SetStatus(w, "stop")
  /\ Goto(w, "loop")
  /\ UNCHANGED <<mine, block, open, fileVars, errors>>

\* otherwise it tells the controller the file, from its first block on.
AssignFile(w) ==
  /\ pc[w] = "assign"
  /\ SetFile(w, mine[w])
  /\ Goto(w, "reset")
  /\ UNCHANGED <<mine, block, open, fileVars, errors>>

\* Slip: the offset of the last file is kept.
KeepOffset(w) ==
  /\ pc[w] = "reset"
  /\ Goto(w, "go")
  /\ UNCHANGED <<infoVars, mine, block, open, fileVars, errors>>

ResetOffset(w) ==
  /\ pc[w] = "reset"
  /\ SetOffset(w, 0)
  /\ Goto(w, "go")
  /\ UNCHANGED <<mine, block, open, fileVars, errors>>

Go(w) ==
  /\ pc[w] = "go"
  /\ SetStatus(w, "continue")
  /\ Goto(w, "open")
  /\ UNCHANGED <<mine, block, open, fileVars, errors>>

OpenFile(w) ==
  /\ pc[w] = "open"
  /\ open' = [open EXCEPT ![w] = TRUE]
  /\ disk' = [disk EXCEPT ![mine[w]] = <<>>]
  /\ Goto(w, "loop")
  /\ UNCHANGED <<infoVars, mine, block, fileList, done, told, errors>>

OpenFails(w) ==
  /\ pc[w] = "open" /\ Fault
  /\ Judge(mine[w], FALSE)
  /\ Goto(w, "null")
  /\ UNCHANGED <<infoVars, mine, block, open>>

\* doWork takes a block.  After the last one, the file is finished.
GetBlock(w) ==
  /\ pc[w] \in {"work", "drain"} /\ mine[w] # NoFile /\ size[mine[w]] # 0 /\ ~Locked(w)
  /\ \/ /\ vBuffer[w] # <<>>
        /\ block' = [block EXCEPT ![w] = Head(vBuffer[w])]
        /\ SetBuffers(w, Tail(vBuffer[w]))
        /\ Goto(w, IF pc[w] = "work" THEN "write" ELSE "lastwrite")
     \/ /\ vBuffer[w] = <<>>
        /\ Goto(w, IF status[w] = "endfile" THEN "finish" ELSE IF pc[w] = "work" THEN "loop" ELSE "drain")
        /\ UNCHANGED <<block, infoVars>>
  /\ UNCHANGED <<mine, open, fileVars, errors>>

EmptyFile(w) ==
  /\ pc[w] \in {"work", "drain"} /\ mine[w] # NoFile /\ size[mine[w]] = 0
  /\ Goto(w, "finish")
  /\ UNCHANGED <<infoVars, mine, block, open, fileVars, errors>>

\* There is no file: newTask has returned none, and yet the status is not STOP.
GetBlockOfNone(w) ==
  /\ pc[w] \in {"work", "drain"} /\ mine[w] = NoFile
  /\ crashed' = TRUE
  /\ UNCHANGED <<infoVars, workVars, fileVars, errors>>

Write(w) ==
  /\ pc[w] \in {"write", "lastwrite"} /\ open[w]
  /\ disk' = [disk EXCEPT ![mine[w]] = Append(@, block[w])]
  /\ block' = [block EXCEPT ![w] = NoBlock]
  /\ Goto(w, IF pc[w] = "write" THEN "loop" ELSE "drain")
  /\ UNCHANGED <<infoVars, mine, open, fileList, done, told, errors>>

\* A write that fails ends the task, with the block still in the hand.
WriteFails(w) ==
  /\ pc[w] \in {"write", "lastwrite"}
  /\ IF open[w] THEN Fault ELSE UNCHANGED errors
  /\ Judge(mine[w], FALSE)
  /\ Goto(w, "null")
  /\ UNCHANGED <<infoVars, mine, block, open>>

(***************************************************************************)
(* finishFile: the hash is that of as many bytes as the file should have,  *)
(* so it does not see what was written behind them.                        *)
(***************************************************************************)
HashMatches(f) == Len(disk[f]) >= size[f] /\ SubSeq(disk[f], 1, size[f]) = BlocksOf(f)

FinishFile(w) ==
  /\ pc[w] = "finish"
  /\ Judge(mine[w], HashMatches(mine[w]))
  /\ Goto(w, "null")
  /\ open' = [open EXCEPT ![w] = FALSE]
  /\ UNCHANGED <<infoVars, mine, block, errors>>

\* The rest of endTask.  After a write that failed, the file is finished as well.
EndStatus(w) ==
  /\ pc[w] = "null"
  /\ SetStatus(w, "null")
  /\ Goto(w, "unset")
  /\ UNCHANGED <<mine, block, open, fileVars, errors>>

EndFile(w) ==
  /\ pc[w] = "unset"
  /\ SetFile(w, NoFile)
  /\ Goto(w, "clear")
  /\ UNCHANGED <<mine, block, open, fileVars, errors>>

EndBuffers(w) ==
  /\ pc[w] = "clear" /\ ~Locked(w)
  /\ SetBuffers(w, <<>>)
  /\ block' = [block EXCEPT ![w] = NoBlock]
  /\ open' = [open EXCEPT ![w] = FALSE]
  /\ Goto(w, IF block[w] # NoBlock THEN "finish" ELSE "loop")
  /\ UNCHANGED <<mine, fileVars, errors>>

-----------------------------------------------------------------------------
(***************************************************************************)
(* The controller.                                                         *)
(***************************************************************************)
\* run: the next pass over the workers, unless it was stopped.
CtlLoop ==
  /\ ctl = "loop"
  /\ ctl' = IF stopped THEN "join" ELSE "check"
  /\ UNCHANGED <<turn, reading, infoVars, fileVars, errors>>

\* Slip: the loop goes on behind the last worker.
NextWorkerPast ==
  /\ ctl' = IF turn > NumWorkers THEN "done?" ELSE "check"
  /\ turn' = turn + 1
  /\ reading' = NoRead

NextWorker ==
  /\ ctl' = IF turn = NumWorkers THEN "done?" ELSE "check"
  /\ turn' = IF turn = NumWorkers THEN 1 ELSE turn + 1
  /\ reading' = NoRead

\* fillBuffers goes on with this worker, or to the next.
GoOn(at, ok, to) ==
  /\ ctl = at
  /\ IF ok THEN ctl' = to /\ UNCHANGED <<turn, reading>> ELSE NextWorker

\* It looks four times whether the worker wants a block,
CheckWorker ==
  /\ \/ GoOn("check", status[turn] = "continue", "file?")
     \/ GoOn("file?", curFile[turn] # NoFile, "room?")
     \/ GoOn("room?", Len(vBuffer[turn]) < MaxBuffers, "end?")
     \/ GoOn("end?", status[turn] # "endfile", "file")
  /\ UNCHANGED <<infoVars, fileVars, errors>>

\* then what its file is,
LookAtFile ==
  /\ ctl = "file"
  /\ IF curFile[turn] = NoFile \/ size[curFile[turn]] = 0
     THEN NextWorker
     ELSE ctl' = "diff" /\ reading' = <<curFile[turn], 0, 0>> /\ UNCHANGED turn
  /\ UNCHANGED <<infoVars, fileVars, errors>>

\* how much of it is left,
LookAtOffset ==
  /\ ctl = "diff"
  /\ reading' = <<reading[1], offset[turn], 0>>
  /\ ctl' = "seek"
  /\ UNCHANGED <<turn, infoVars, fileVars, errors>>

\* and reads the next block, where the offset is by now.
ReadBlock ==
  /\ ctl = "seek" /\ reading[2] # size[reading[1]]
  /\ reading' = <<reading[1], reading[2], offset[turn]>>
  /\ ctl' = "push"
  /\ UNCHANGED <<turn, infoVars, fileVars, errors>>

\* That fails also when nothing was left, and may fail behind the end of the file;
\* it raises an error and ends the task.
ReadFails ==
  /\ ctl = "seek"
  /\ IF reading[2] < size[reading[1]] /\ offset[turn] < size[reading[1]]
     THEN Fault ELSE UNCHANGED errors
  /\ Judge(reading[1], FALSE)
  /\ ctl' = "null"
  /\ UNCHANGED <<turn, reading, infoVars>>

FailStatus ==
  /\ ctl = "null"
  /\ SetStatus(turn, "null")
  /\ ctl' = "unset"
  /\ UNCHANGED <<turn, reading, fileVars, errors>>

FailFile ==
  /\ ctl = "unset"
  /\ SetFile(turn, NoFile)
  /\ ctl' = "clear"
  /\ UNCHANGED <<turn, reading, fileVars, errors>>

FailBuffers ==
  /\ ctl = "clear"
  /\ SetBuffers(turn, <<>>)
  /\ NextWorker
  /\ UNCHANGED <<fileVars, errors>>

\* The block is handed over in the mutex of the buffers: with the last one the
\* status changes, which the worker reads without it.
PushBlock ==
  /\ ctl = "push"
  /\ SetBuffers(turn, Append(vBuffer[turn], <<reading[1], reading[3] + 1>>))
  /\ ctl' = IF reading[2] + 1 = size[reading[1]] THEN "mark" ELSE "advance"
  /\ UNCHANGED <<turn, reading, fileVars, errors>>

MarkEnd ==
  /\ ctl = "mark"
  /\ SetStatus(turn, "endfile")
  /\ ctl' = "advance"
  /\ UNCHANGED <<turn, reading, fileVars, errors>>

Advance ==
  /\ ctl = "advance"
  /\ SetOffset(turn, offset[turn] + 1)
  /\ NextWorker
  /\ UNCHANGED <<fileVars, errors>>

\* Slip: one worker that is done is enough.
AnyWorkerDone ==
  /\ ctl = "done?"
  /\ IF status[turn] = "stop"
     THEN ctl' = "join" /\ turn' = 1
     ELSE IF turn = NumWorkers THEN ctl' = "loop" /\ turn' = 1 ELSE ctl' = ctl /\ turn' = turn + 1
  /\ UNCHANGED <<reading, infoVars, fileVars, errors>>

WorkersDone ==
  /\ ctl = "done?"
  /\ IF status[turn] # "stop"
     THEN ctl' = "loop" /\ turn' = 1
     ELSE IF turn = NumWorkers THEN ctl' = "join" /\ turn' = 1 ELSE ctl' = ctl /\ turn' = turn + 1
  /\ UNCHANGED <<reading, infoVars, fileVars, errors>>

JoinWorkers ==
  /\ ctl = "join" /\ \A w \in Workers : pc[w] = "dead"
  /\ ctl' = "over"
  /\ UNCHANGED <<turn, reading, infoVars, fileVars, errors>>

\* The user stops the installation, as long as it goes on.
Stop ==
  /\ MayStop /\ ~stopped /\ ctl # "over"
  /\ stopped' = TRUE
  /\ UNCHANGED <<infoVars, workVars, ctlVars, fileVars, errors, crashed>>

-----------------------------------------------------------------------------
Worker(w) ==
  /\ \/ /\ \/ AskStopped(w) \/ Look(w)
           \/ AskTask(w) \/ WaitTask(w) \/ TakeFile(w) \/ NoFileLeft(w) \/ Leave(w)
           \/ AssignFile(w) \/ ResetOffset(w) \/ Go(w) \/ OpenFile(w) \/ OpenFails(w)
           \/ GetBlock(w) \/ EmptyFile(w) \/ Write(w) \/ WriteFails(w)
           \/ FinishFile(w) \/ EndStatus(w) \/ EndFile(w) \/ EndBuffers(w)
        /\ UNCHANGED crashed
     \/ GetBlockOfNone(w)
  /\ UNCHANGED <<ctlVars, stopped>>

Controller ==
  /\ \/ CtlLoop \/ CheckWorker \/ LookAtFile \/ LookAtOffset \/ ReadBlock \/ ReadFails
     \/ FailStatus \/ FailFile \/ FailBuffers \/ PushBlock \/ MarkEnd \/ Advance
     \/ WorkersDone \/ JoinWorkers
  /\ UNCHANGED <<workVars, stopped, crashed>>

Next ==
  /\ ~crashed /\ UNCHANGED size
  /\ (\E w \in Workers : Worker(w)) \/ Controller \/ Stop

\* Both kinds of thread are scheduled, and a request to the disk ends.
Fairness ==
  /\ \A w \in Workers : WF_vars(~crashed /\ Worker(w) /\ UNCHANGED size)
  /\ WF_vars(~crashed /\ Controller /\ UNCHANGED size)

Spec == Init /\ [][Next]_vars
FairSpec == Spec /\ Fairness

-----------------------------------------------------------------------------
NoneEmpty == \A f \in Files : size[f] # 0

\* Nothing failed, and no file is empty: behind a task that ends while the
\* controller still looks at it, the next file may be given a block twice.
Calm == errors = 0 /\ NoneEmpty

\* The verdict on a file fits what is on the disk: when nothing failed, a complete
\* file holds its blocks, in order and nothing else, and no error is raised. The
\* hash does not see what was written behind the file (fillBuffers, endTask).
VerdictFits == Calm => told = {} /\ \A f \in done : disk[f] = BlocksOf(f)

\* When the controller sees all workers done, every file is complete or an error was
\* raised; after one failure, an error for each file that is not. A second failure
\* can take a file from a worker in silence (workersDone, endTask).
NoFileForgotten ==
  ctl \in {"join", "over"} /\ ~stopped =>
    /\ done = Files \/ told # {}
    /\ errors <= 1 /\ NoneEmpty => done \union told = Files

\* What a failure can lead to: a worker has left and its status is not STOP any more;
NeverDone == ~stopped /\ \E w \in Workers : pc[w] = "dead" /\ status[w] # "stop"

\* a worker goes on and waits for blocks, of a file that was taken from it.
NeverFed == \E w \in Workers : pc[w] \in {"loop", "look", "work"} /\ status[w] = "continue" /\ curFile[w] = NoFile

\* The unpacking ends, with its threads, also when the user stops it, and also
\* after a failure unless it leads to one of these (workersDone, run).
Ends == <>[](ctl = "over" \/ (~Calm /\ (NeverDone \/ NeverFed \/ crashed)))
=============================================================================
