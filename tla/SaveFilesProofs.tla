--------------------------- MODULE SaveFilesProofs ---------------------------
(***************************************************************************)
(* Proofs about SaveFiles, for any files of any sizes, any number of       *)
(* workers and buffers and any number of failures.  Every variable keeps   *)
(* its type; no unpacking ends as if it were complete with a file missing, *)
(* unless an error was raised, and after one failure there is an error for *)
(* each such file; and while nothing fails the verdicts fit and no thread  *)
(* waits in vain.                                                          *)
(***************************************************************************)
EXTENDS SaveFiles, SequenceTheorems, TLAPS

(***************************************************************************)
(* What a thread has in hand at each place of its code.                    *)
(***************************************************************************)
HandInv ==
  /\ \A w \in Workers :
       /\ pc[w] \in {"assign", "reset", "go", "open", "write", "lastwrite", "finish", "null", "unset", "clear"}
            => mine[w] \in Files
       /\ pc[w] \in {"take", "pop", "leave"} => mine[w] = NoFile
       /\ pc[w] \in {"write", "lastwrite"} => block[w] \in Blocks
  /\ ctl \in {"diff", "seek", "push", "null"} => reading \in Files \X Nat \X Nat

(***************************************************************************)
(* The task of a worker, until the controller has begun to take its file:  *)
(* where the worker is, and what its status then is.                       *)
(***************************************************************************)
TaskPlaces == {"reset", "go", "open", "loop", "look", "work", "drain", "write", "lastwrite", "finish",
               "null", "unset", "dead"}
TaskInv(w) ==
  /\ pc[w] \in {"task", "take", "pop", "leave", "assign", "reset", "go", "drain", "lastwrite", "unset", "clear"}
       => status[w] # "continue"
  /\ pc[w] = "finish" => status[w] # "continue" \/ size[mine[w]] = 0
  /\ pc[w] \in {"work", "write"} \/ (pc[w] \in {"loop", "look"} /\ status[w] = "continue") => open[w]
  /\ curFile[w] # NoFile /\ ~(ctl = "unset" /\ turn = w) =>
       /\ curFile[w] = mine[w] /\ pc[w] \in TaskPlaces
       /\ pc[w] \in {"loop", "look", "work", "drain", "write", "lastwrite"} => open[w]
       /\ pc[w] \in {"open", "loop", "look", "work", "write"} => status[w] \in {"continue", "endfile"}
       /\ pc[w] \in {"drain", "lastwrite", "finish", "null"}
            => status[w] = "endfile" \/ size[mine[w]] = 0 \/ (pc[w] = "null" /\ mine[w] \in told)

\* While the controller looks at a worker, only it could set ENDFILE; and it takes
\* a task away only after an error.
Window == {"file?", "room?", "end?", "file", "diff", "seek", "push", "mark", "null"}
WindowInv ==
  /\ ctl \in Window => status[turn] # "endfile"
  /\ ctl \in {"null", "unset", "clear"} => told # {}

\* A worker is done when the list is empty, and the controller looks at each.
StopAt(w) ==
  /\ status[w] = "stop" => pc[w] \in {"loop", "look", "dead"} /\ mine[w] = NoFile /\ fileList = {}
  /\ pc[w] = "leave" => fileList = {}
  /\ ctl = "done?" /\ w < turn => status[w] = "stop"
StopInv ==
  /\ \A w \in Workers : StopAt(w)
  /\ ctl \in {"join", "over"} /\ ~stopped => \A w \in Workers : status[w] = "stop"

IInv == TypeOK /\ HandInv /\ (\A w \in Workers : TaskInv(w)) /\ WindowInv /\ StopInv

(***************************************************************************)
(* What holds while nothing has failed and no file is empty.               *)
(***************************************************************************)
On(w) == curFile[w] # NoFile /\ pc[w] \notin {"reset", "go", "unset"}
InHand(w) == IF pc[w] \in {"write", "lastwrite"} THEN 1 ELSE 0
Read(w) == IF Locked(w) THEN offset[w] + 1 ELSE offset[w]
Marking(w) == ctl = "mark" /\ turn = w

\* What the controller knows of the worker whose buffers it fills.
TurnInv ==
  /\ ctl \notin {"null", "unset", "clear"}
  /\ ctl \in Window => status[turn] = "continue" /\ curFile[turn] # NoFile
  /\ ctl \in {"diff", "seek", "push"} => reading[1] = curFile[turn]
  /\ ctl \in {"seek", "push"} => reading[2] = offset[turn]
  /\ ctl = "push" => reading[3] = offset[turn]
  /\ ctl \in {"mark", "advance"} => vBuffer[turn] # <<>>

\* The status of a worker at each place of its code.
StatusInv(w) ==
  /\ status[w] \in {"continue", "endfile"} <=> On(w)
  /\ pc[w] \in {"open", "work", "drain", "write", "lastwrite", "finish", "null"} => On(w)
  /\ pc[w] \in {"task", "take", "unset", "clear"} => status[w] = "null"
  /\ pc[w] \in {"reset", "go", "unset"} => curFile[w] # NoFile
  /\ pc[w] \in {"drain", "lastwrite", "finish", "null"} => status[w] = "endfile"
  /\ pc[w] \notin {"write", "lastwrite"} => block[w] = NoBlock
  /\ ~On(w) \/ pc[w] \in {"finish", "null"} => vBuffer[w] = <<>>
  /\ pc[w] = "go" => offset[w] = 0

\* A file's blocks are on the disk, in the worker's hand and in its buffers, in order.
StreamInv(w) ==
  On(w) =>
    /\ Len(disk[curFile[w]]) + InHand(w) + Len(vBuffer[w]) = Read(w)
    /\ Read(w) <= size[curFile[w]]
    /\ status[w] = "endfile" \/ Marking(w) <=> Read(w) = size[curFile[w]]
    /\ \A n \in 1..Len(disk[curFile[w]]) : disk[curFile[w]][n] = <<curFile[w], n>>
    /\ InHand(w) = 1 => block[w] = <<curFile[w], Len(disk[curFile[w]]) + 1>>
    /\ \A n \in 1..Len(vBuffer[w]) :
         vBuffer[w][n] = <<curFile[w], Len(disk[curFile[w]]) + InHand(w) + n>>

\* A file is in one place, and nothing is written before it is opened.
HasFile(w) == pc[w] = "assign" \/ curFile[w] # NoFile
ApartInv ==
  /\ \A f \in fileList : f \notin done /\ disk[f] = <<>>
  /\ \A w \in Workers : HasFile(w) =>
       /\ mine[w] \notin fileList
       /\ pc[w] \notin {"null", "unset"} => mine[w] \notin done
       /\ pc[w] \in {"assign", "reset", "go", "open"} => disk[mine[w]] = <<>>
       /\ \A v \in Workers : HasFile(v) /\ mine[v] = mine[w] => v = w

\* No error was raised, and a complete file holds its blocks.
JudgedInv == told = {} /\ \A f \in done : disk[f] = BlocksOf(f)

Quiet ==
  /\ JudgedInv /\ TurnInv /\ ApartInv
  /\ \A w \in Workers : StatusInv(w) /\ StreamInv(w)

CalmInv == Calm => Quiet

(***************************************************************************)
(* What holds up to the first failure and after it, as no file is empty.   *)
(***************************************************************************)
OneFailure == errors <= 1 /\ NoneEmpty

\* A worker whose write has just failed: the controller may be reading for it.
Broken(w) ==
  pc[w] = "null" /\ curFile[w] # NoFile /\ status[w] = "continue" =>
    /\ Read(w) < size[mine[w]] \/ Marking(w)
    /\ turn = w /\ ctl \in {"diff", "seek", "push"} => reading[1] = mine[w]
    /\ turn = w /\ ctl \in {"seek", "push"} => reading[2] = offset[w]

\* The file the controller reads: its worker is on it, or its task has ended with
\* an error and there is more of it to read.
OnIt(f) == curFile[turn] = f /\ pc[turn] \in {"reset", "go", "open", "loop", "look", "work", "write", "dead"}
Dropped(f) == f \in told /\ offset[turn] < size[f]
LateInv ==
  /\ ctl \in {"file?", "room?", "end?", "file"} /\ curFile[turn] # NoFile
       => OnIt(curFile[turn]) \/ Dropped(curFile[turn])
  /\ ctl \in {"diff", "seek"} => OnIt(reading[1]) \/ Dropped(reading[1])
  /\ ctl = "seek" => OnIt(reading[1]) \/ reading[2] < size[reading[1]]
  /\ ctl = "null" => OnIt(reading[1]) /\ reading[1] \in told

OneInv == OneFailure => LateInv /\ \A w \in Workers : Broken(w)

(***************************************************************************)
(* Where a file is: still on the list, a worker's, or judged.              *)
(***************************************************************************)
Holds(w) ==
  /\ mine[w] # NoFile
  /\ \/ pc[w] \in {"assign", "reset", "go", "open", "work", "drain", "write", "lastwrite", "finish"}
     \/ pc[w] \in {"loop", "look"} /\ status[w] \in {"continue", "endfile"}
Traced == ~stopped /\ (told = {} \/ OneFailure)
Accounted(f) == f \in fileList \union done \union told \/ \E w \in Workers : Holds(w) /\ mine[w] = f
Carries(w) ==
  pc[w] \in {"open", "work", "write"} => status[w] \in {"continue", "endfile"} \/ mine[w] \in done \union told
PlaceInv == Traced => (\A f \in Files : Accounted(f)) /\ \A w \in Workers : Carries(w)

-----------------------------------------------------------------------------
LEMMA NextInRange ==
  ASSUME turn \in Workers, NextWorker
  PROVE  /\ turn' \in Workers /\ reading' = NoRead
         /\ ctl' \in {"check", "done?"} /\ ctl' \in CtlPlaces
BY SaveAssumption DEF NextWorker, Workers, CtlPlaces

LEMMA TypeStep ==
  ASSUME TypeOK, HandInv, [Next]_vars
  PROVE  TypeOK'
<1> USE SaveAssumption DEF Workers
<1>1. ASSUME NEW w \in Workers, Worker(w), UNCHANGED size PROVE TypeOK'
  <2>0. UNCHANGED <<ctlVars, stopped, size>> /\ crashed' \in BOOLEAN
    BY <1>1 DEF Worker, GetBlockOfNone, TypeOK
  <2>1. CASE AskStopped(w)
    BY <2>1, <2>0, <1>1 DEF TypeOK, HandInv, Places, CtlPlaces, Blocks, AskStopped, Goto,
       infoVars, workVars, ctlVars, fileVars
  <2>2. CASE Look(w)
    <3>0. PICK p \in {<<"stop", "dead">>, <<"null", "task">>, <<"endfile", "drain">>,
                      <<"continue", "work">>, <<"wait", "loop">>} : pc' = [pc EXCEPT ![w] = p[2]]
      BY <2>2 DEF Look, Goto
    <3>1. p[2] \in Places /\ pc' \in [Workers -> Places]
      BY <3>0 DEF Places, TypeOK
    <3> QED  BY <3>1, <2>2, <2>0, <1>1 DEF TypeOK, Look, infoVars, workVars, ctlVars, fileVars
  <2>3. CASE AskTask(w)
    BY <2>3, <2>0, <1>1 DEF TypeOK, HandInv, Places, CtlPlaces, Blocks, AskTask, Goto, infoVars,
       workVars, ctlVars, fileVars
  <2>4. CASE WaitTask(w)
    BY <2>4, <2>0, <1>1 DEF TypeOK, HandInv, Places, CtlPlaces, Blocks, WaitTask, SetStatus, Goto,
       infoVars, workVars, ctlVars, fileVars
  <2>5. CASE TakeFile(w)
    <3>1. PICK f \in fileList : fileList' = fileList \ {f} /\ mine' = [mine EXCEPT ![w] = f]
      BY <2>5 DEF TakeFile
    <3>2. f \in Files /\ pc' \in [Workers -> Places]
      BY <2>5, <1>1 DEF TypeOK, TakeFile, Goto, Places
    <3> QED  BY <3>1, <3>2, <2>5, <2>0, <1>1 DEF TypeOK, TakeFile, infoVars, ctlVars
  <2>6. CASE NoFileLeft(w)
    BY <2>6, <2>0, <1>1 DEF TypeOK, HandInv, Places, CtlPlaces, Blocks, NoFileLeft, Goto,
       infoVars, workVars, ctlVars, fileVars
  <2>7. CASE Leave(w)
    BY <2>7, <2>0, <1>1 DEF TypeOK, HandInv, Places, CtlPlaces, Blocks, Leave, SetStatus, Goto,
       infoVars, workVars, ctlVars, fileVars
  <2>8. CASE AssignFile(w)
    BY <2>8, <2>0, <1>1 DEF TypeOK, HandInv, Places, CtlPlaces, Blocks, AssignFile, SetFile, Goto,
       infoVars, workVars, ctlVars, fileVars
  <2>9. CASE ResetOffset(w)
    BY <2>9, <2>0, <1>1 DEF TypeOK, HandInv, Places, CtlPlaces, Blocks, ResetOffset, SetOffset,
       Goto, infoVars, workVars, ctlVars, fileVars
  <2>10. CASE Go(w)
    BY <2>10, <2>0, <1>1 DEF TypeOK, HandInv, Places, CtlPlaces, Blocks, Go, SetStatus, Goto,
       infoVars, workVars, ctlVars, fileVars
  <2>11. CASE OpenFile(w)
    <3>1. mine[w] \in Files /\ <<>> \in Seq(Blocks)
      BY <2>11, <1>1 DEF HandInv, OpenFile
    <3>2. pc' \in [Workers -> Places] /\ disk' \in [Files -> Seq(Blocks)]
      BY <3>1, <2>11, <1>1 DEF TypeOK, OpenFile, Goto, Places
    <3> QED  BY <3>2, <2>11, <2>0, <1>1 DEF TypeOK, OpenFile, infoVars, ctlVars
  <2>12. CASE OpenFails(w)
    <3>1. pc' \in [Workers -> Places] /\ mine[w] \in Files
      BY <2>12, <1>1 DEF TypeOK, HandInv, OpenFails, WriteFails, Goto, Places
    <3>2. errors' \in 0..MaxErrors
      BY <2>12 DEF TypeOK, OpenFails, WriteFails, Fault
    <3>3. told' \subseteq Files /\ done' \subseteq Files /\ UNCHANGED <<fileList, disk>>
      BY <3>1, <2>12 DEF TypeOK, OpenFails, WriteFails, Judge
    <3>4. UNCHANGED <<infoVars, mine, block, open>>
      BY <2>12 DEF OpenFails, WriteFails
    <3> QED  BY <3>1, <3>2, <3>3, <3>4, <2>0 DEF TypeOK, infoVars, ctlVars
  <2>13. CASE GetBlock(w)
    <3>1. pc' \in [Workers -> Places]
      BY <2>13, <1>1 DEF TypeOK, GetBlock, Goto, Places
    <3>2. vBuffer[w] # <<>> => Head(vBuffer[w]) \in Blocks /\ Tail(vBuffer[w]) \in Seq(Blocks)
      BY <1>1 DEF TypeOK
    <3>3. vBuffer' \in [Workers -> Seq(Blocks)] /\ block' \in [Workers -> Blocks \union {NoBlock}]
      <4>1. CASE vBuffer' = vBuffer /\ block' = block
        BY <4>1 DEF TypeOK
      <4>2. CASE /\ vBuffer[w] # <<>>
                 /\ vBuffer' = [vBuffer EXCEPT ![w] = Tail(vBuffer[w])]
                 /\ block' = [block EXCEPT ![w] = Head(vBuffer[w])]
        BY <4>2, <3>2, <1>1 DEF TypeOK
      <4> QED  BY <4>1, <4>2, <2>13 DEF GetBlock, SetBuffers, infoVars
    <3>4. UNCHANGED <<status, curFile, offset, mine, open, fileVars, errors>>
      BY <2>13 DEF GetBlock, SetBuffers, infoVars
    <3> QED  BY <3>1, <3>3, <3>4, <2>0, <1>1 DEF TypeOK, ctlVars, fileVars
  <2>14. CASE EmptyFile(w)
    BY <2>14, <2>0, <1>1 DEF TypeOK, HandInv, Places, CtlPlaces, Blocks, EmptyFile, Goto,
       infoVars, workVars, ctlVars, fileVars
  <2>15. CASE Write(w)
    <3>1. pc' \in [Workers -> Places]
      BY <2>15, <1>1 DEF TypeOK, Write, Goto, Places
    <3>2. mine[w] \in Files /\ block[w] \in Blocks
      BY <2>15, <1>1 DEF HandInv, Write
    <3>3. Append(disk[mine[w]], block[w]) \in Seq(Blocks)
      BY <3>2 DEF TypeOK
    <3>4. disk' \in [Files -> Seq(Blocks)] /\ block' \in [Workers -> Blocks \union {NoBlock}]
      BY <3>2, <3>3, <2>15, <1>1 DEF TypeOK, Write
    <3> QED  BY <3>1, <3>4, <2>15, <2>0, <1>1 DEF TypeOK, Write, infoVars, workVars, ctlVars, fileVars
  <2>16. CASE WriteFails(w)
    <3>1. pc' \in [Workers -> Places] /\ mine[w] \in Files
      BY <2>16, <1>1 DEF TypeOK, HandInv, OpenFails, WriteFails, Goto, Places
    <3>2. errors' \in 0..MaxErrors
      BY <2>16 DEF TypeOK, OpenFails, WriteFails, Fault
    <3>3. told' \subseteq Files /\ done' \subseteq Files /\ UNCHANGED <<fileList, disk>>
      BY <3>1, <2>16 DEF TypeOK, OpenFails, WriteFails, Judge
    <3>4. UNCHANGED <<infoVars, mine, block, open>>
      BY <2>16 DEF OpenFails, WriteFails
    <3> QED  BY <3>1, <3>2, <3>3, <3>4, <2>0 DEF TypeOK, infoVars, ctlVars
  <2>17. CASE FinishFile(w)
    BY <2>17, <2>0, <1>1 DEF TypeOK, HandInv, Places, CtlPlaces, Blocks, FinishFile, Judge, Goto,
       infoVars, workVars, ctlVars, fileVars
  <2>18. CASE EndStatus(w)
    BY <2>18, <2>0, <1>1 DEF TypeOK, HandInv, Places, CtlPlaces, Blocks, EndStatus, SetStatus,
       Goto, infoVars, workVars, ctlVars, fileVars
  <2>19. CASE EndFile(w)
    BY <2>19, <2>0, <1>1 DEF TypeOK, HandInv, Places, CtlPlaces, Blocks, EndFile, SetFile, Goto,
       infoVars, workVars, ctlVars, fileVars
  <2>20. CASE EndBuffers(w)
    <3>1. <<>> \in Seq(Blocks)
      OBVIOUS
    <3>2. pc' \in [Workers -> Places]
      BY <2>20, <1>1 DEF TypeOK, EndBuffers, Goto, Places
    <3>3. vBuffer' \in [Workers -> Seq(Blocks)] /\ UNCHANGED <<status, curFile, offset>>
      BY <3>1, <2>20, <1>1 DEF TypeOK, EndBuffers, SetBuffers
    <3> QED  BY <3>2, <3>3, <2>20, <2>0, <1>1 DEF TypeOK, EndBuffers, fileVars, ctlVars
  <2>21. CASE GetBlockOfNone(w)
    BY <2>21, <2>0, <1>1 DEF TypeOK, HandInv, Places, CtlPlaces, Blocks, GetBlockOfNone, infoVars,
       workVars, ctlVars, fileVars
  <2> QED
    BY <1>1, <2>1, <2>2, <2>3, <2>4, <2>5, <2>6, <2>7, <2>8, <2>9, <2>10, <2>11, <2>12, <2>13,
       <2>14, <2>15, <2>16, <2>17, <2>18, <2>19, <2>20, <2>21 DEF Worker
<1>2. ASSUME Controller, UNCHANGED size PROVE TypeOK'
  <2>0. UNCHANGED <<workVars, stopped, crashed, size>>
    BY <1>2 DEF Controller
  <2>1. CASE CtlLoop
    BY <2>1, <2>0, <1>2 DEF TypeOK, HandInv, Places, CtlPlaces, Blocks, CtlLoop, infoVars,
       workVars, ctlVars, fileVars
  <2>2. CASE CheckWorker
    <3>1. CASE NextWorker
      BY <3>1, NextInRange, <2>2, <2>0, <1>2 DEF TypeOK, CheckWorker, infoVars, workVars, fileVars
    <3>2. CASE ctl' \in {"file?", "room?", "end?", "file"} /\ UNCHANGED <<turn, reading>>
      BY <3>2, <2>2, <2>0, <1>2 DEF TypeOK, CtlPlaces, CheckWorker, infoVars, workVars, fileVars
    <3> QED  BY <3>1, <3>2, <2>2 DEF CheckWorker, GoOn
  <2>3. CASE LookAtFile
    <3>1. CASE NextWorker
      BY <3>1, NextInRange, <2>3, <2>0, <1>2 DEF TypeOK, LookAtFile, infoVars, workVars, fileVars
    <3>2. CASE curFile[turn] \in Files /\ ctl' = "diff" /\ reading' = <<curFile[turn], 0, 0>> /\ turn' = turn
      BY <3>2, <2>3, <2>0, <1>2 DEF TypeOK, CtlPlaces, LookAtFile, infoVars, workVars, fileVars
    <3> QED  BY <3>1, <3>2, <2>3 DEF LookAtFile, TypeOK
  <2>4. CASE LookAtOffset
    BY <2>4, <2>0, <1>2 DEF TypeOK, HandInv, Places, CtlPlaces, Blocks, LookAtOffset, infoVars,
       workVars, ctlVars, fileVars
  <2>5. CASE ReadBlock
    BY <2>5, <2>0, <1>2 DEF TypeOK, HandInv, Places, CtlPlaces, Blocks, ReadBlock, infoVars,
       workVars, ctlVars, fileVars
  <2>6. CASE ReadFails
    <3>1. reading[1] \in Files
      BY <2>6 DEF HandInv, ReadFails
    <3>2. errors' \in 0..MaxErrors
      BY <2>6 DEF TypeOK, ReadFails, Fault
    <3>3. told' \subseteq Files /\ done' \subseteq Files /\ UNCHANGED <<fileList, disk>>
      BY <3>1, <2>6 DEF TypeOK, ReadFails, Judge
    <3>4. ctl' \in CtlPlaces
      BY <2>6 DEF ReadFails, CtlPlaces
    <3> QED  BY <3>2, <3>3, <3>4, <2>6, <2>0 DEF TypeOK, ReadFails, infoVars, workVars
  <2>7. CASE FailStatus
    BY <2>7, <2>0, <1>2 DEF TypeOK, HandInv, Places, CtlPlaces, Blocks, FailStatus, SetStatus,
       infoVars, workVars, ctlVars, fileVars
  <2>8. CASE FailFile
    BY <2>8, <2>0, <1>2 DEF TypeOK, HandInv, Places, CtlPlaces, Blocks, FailFile, SetFile,
       infoVars, workVars, ctlVars, fileVars
  <2>9. CASE FailBuffers
    <3>1. vBuffer' \in [Workers -> Seq(Blocks)]
      BY <2>9 DEF TypeOK, FailBuffers, SetBuffers
    <3> QED  BY <3>1, NextInRange, <2>9, <2>0, <1>2 DEF TypeOK, FailBuffers, SetBuffers, workVars, fileVars
  <2>10. CASE PushBlock
    <3>1. <<reading[1], reading[3] + 1>> \in Blocks
      BY <2>10 DEF HandInv, PushBlock, Blocks
    <3>0. vBuffer[turn] \in Seq(Blocks) /\ turn \in Workers
      BY DEF TypeOK
    <3>2. Append(vBuffer[turn], <<reading[1], reading[3] + 1>>) \in Seq(Blocks)
      BY <3>1, <3>0
    <3>3. vBuffer' \in [Workers -> Seq(Blocks)]
      BY <3>0, <3>2, <2>10 DEF TypeOK, PushBlock, SetBuffers
    <3> QED  BY <3>3, <2>10, <2>0, <1>2 DEF TypeOK, CtlPlaces, PushBlock, SetBuffers, workVars, fileVars
  <2>11. CASE MarkEnd
    BY <2>11, <2>0, <1>2 DEF TypeOK, HandInv, Places, CtlPlaces, Blocks, MarkEnd, SetStatus,
       infoVars, workVars, ctlVars, fileVars
  <2>12. CASE Advance
    <3>0. offset[turn] + 1 \in Nat /\ offset \in [Workers -> Nat]
      BY DEF TypeOK
    <3>1. offset' \in [Workers -> Nat]
      BY <3>0, <2>12 DEF Advance, SetOffset
    <3> QED  BY <3>1, NextInRange, <2>12, <2>0, <1>2 DEF TypeOK, Advance, SetOffset, workVars, fileVars
  <2>13. CASE WorkersDone
    <3>1. turn' \in Workers
      BY <2>13 DEF TypeOK, WorkersDone
    <3>2. ctl' \in CtlPlaces
      BY <2>13 DEF TypeOK, WorkersDone, CtlPlaces
    <3> QED  BY <3>1, <3>2, <2>13, <2>0 DEF TypeOK, WorkersDone, infoVars, workVars, fileVars
  <2>14. CASE JoinWorkers
    BY <2>14, <2>0, <1>2 DEF TypeOK, HandInv, Places, CtlPlaces, Blocks, JoinWorkers, infoVars,
       workVars, ctlVars, fileVars
  <2> QED
    BY <1>2, <2>1, <2>2, <2>3, <2>4, <2>5, <2>6, <2>7, <2>8, <2>9, <2>10, <2>11, <2>12, <2>13,
       <2>14 DEF
      Controller
<1>3. CASE Stop /\ UNCHANGED size
  BY <1>3 DEF TypeOK, HandInv, Places, CtlPlaces, Blocks, Stop, infoVars, workVars, ctlVars,
     fileVars
<1>4. CASE UNCHANGED vars
  BY <1>4 DEF TypeOK, HandInv, Places, CtlPlaces, Blocks, vars, infoVars, workVars, ctlVars,
     fileVars
<1> QED  BY <1>1, <1>2, <1>3, <1>4 DEF Next

LEMMA HandStep ==
  ASSUME TypeOK, HandInv, [Next]_vars
  PROVE  HandInv'
<1> USE SaveAssumption DEF Workers
<1>1. ASSUME NEW w \in Workers, Worker(w), UNCHANGED size PROVE HandInv'
  <2>0. UNCHANGED <<ctlVars, stopped, size>> /\ crashed' \in BOOLEAN
    BY <1>1 DEF Worker, GetBlockOfNone, TypeOK
  <2>1. CASE AskStopped(w)
    BY <2>1, <2>0, <1>1 DEF TypeOK, HandInv, AskStopped, Goto, infoVars, workVars, ctlVars, fileVars
  <2>2. CASE Look(w)
    BY <2>2, <2>0, <1>1 DEF TypeOK, HandInv, Look, Goto, infoVars, workVars, ctlVars, fileVars
  <2>3. CASE AskTask(w)
    BY <2>3, <2>0, <1>1 DEF TypeOK, HandInv, AskTask, Goto, infoVars, workVars, ctlVars, fileVars
  <2>4. CASE WaitTask(w)
    BY <2>4, <2>0, <1>1 DEF TypeOK, HandInv, WaitTask, SetStatus, Goto, infoVars, workVars,
       ctlVars, fileVars
  <2>5. CASE TakeFile(w)
    BY <2>5, <2>0, <1>1 DEF TypeOK, HandInv, TakeFile, Goto, infoVars, workVars, ctlVars, fileVars
  <2>6. CASE NoFileLeft(w)
    BY <2>6, <2>0, <1>1 DEF TypeOK, HandInv, NoFileLeft, Goto, infoVars, workVars, ctlVars, fileVars
  <2>7. CASE Leave(w)
    BY <2>7, <2>0, <1>1 DEF TypeOK, HandInv, Leave, SetStatus, Goto, infoVars, workVars, ctlVars,
       fileVars
  <2>8. CASE AssignFile(w)
    BY <2>8, <2>0, <1>1 DEF TypeOK, HandInv, AssignFile, SetFile, Goto, infoVars, workVars,
       ctlVars, fileVars
  <2>9. CASE ResetOffset(w)
    BY <2>9, <2>0, <1>1 DEF TypeOK, HandInv, ResetOffset, SetOffset, Goto, infoVars, workVars,
       ctlVars, fileVars
  <2>10. CASE Go(w)
    BY <2>10, <2>0, <1>1 DEF TypeOK, HandInv, Go, SetStatus, Goto, infoVars, workVars, ctlVars,
       fileVars
  <2>11. CASE OpenFile(w)
    BY <2>11, <2>0, <1>1 DEF TypeOK, HandInv, OpenFile, Goto, infoVars, workVars, ctlVars, fileVars
  <2>12. CASE OpenFails(w)
    BY <2>12, <2>0, <1>1 DEF TypeOK, HandInv, OpenFails, Fault, Judge, Goto, infoVars, workVars,
       ctlVars, fileVars
  <2>13. CASE GetBlock(w)
    <3>1. vBuffer[w] # <<>> => Head(vBuffer[w]) \in Blocks
      BY <1>1 DEF TypeOK
    <3>2. PICK p \in {"finish", "write", "lastwrite", "loop", "drain"} :
            /\ pc' = [pc EXCEPT ![w] = p]
            /\ p \in {"write", "lastwrite"} => block' = [block EXCEPT ![w] = Head(vBuffer[w])] /\ vBuffer[w] # <<>>
            /\ block' = block \/ p \in {"write", "lastwrite"}
      BY <2>13 DEF GetBlock, Goto
    <3>3. mine[w] \in Files /\ UNCHANGED mine
      BY <2>13, <1>1 DEF TypeOK, GetBlock
    <3>4. pc'[w] = p /\ (p \in {"write", "lastwrite"} => block'[w] \in Blocks)
      BY <3>1, <3>2, <1>1 DEF TypeOK
    <3>5. \A v \in Workers : v # w => pc'[v] = pc[v] /\ block'[v] = block[v]
      BY <3>2, <1>1 DEF TypeOK
    <3> QED  BY <3>2, <3>3, <3>4, <3>5, <2>0 DEF HandInv, ctlVars
  <2>14. CASE EmptyFile(w)
    BY <2>14, <2>0, <1>1 DEF TypeOK, HandInv, EmptyFile, Goto, infoVars, workVars, ctlVars, fileVars
  <2>15. CASE Write(w)
    BY <2>15, <2>0, <1>1 DEF TypeOK, HandInv, Write, Goto, infoVars, workVars, ctlVars, fileVars
  <2>16. CASE WriteFails(w)
    BY <2>16, <2>0, <1>1 DEF TypeOK, HandInv, WriteFails, Fault, Judge, Goto, infoVars, workVars,
       ctlVars, fileVars
  <2>17. CASE FinishFile(w)
    BY <2>17, <2>0, <1>1 DEF TypeOK, HandInv, FinishFile, Judge, Goto, infoVars, workVars,
       ctlVars, fileVars
  <2>18. CASE EndStatus(w)
    BY <2>18, <2>0, <1>1 DEF TypeOK, HandInv, EndStatus, SetStatus, Goto, infoVars, workVars,
       ctlVars, fileVars
  <2>19. CASE EndFile(w)
    BY <2>19, <2>0, <1>1 DEF TypeOK, HandInv, EndFile, SetFile, Goto, infoVars, workVars, ctlVars,
       fileVars
  <2>20. CASE EndBuffers(w)
    BY <2>20, <2>0, <1>1 DEF TypeOK, HandInv, EndBuffers, SetBuffers, Goto, infoVars, workVars,
       ctlVars, fileVars
  <2>21. CASE GetBlockOfNone(w)
    BY <2>21, <2>0, <1>1 DEF TypeOK, HandInv, GetBlockOfNone, infoVars, workVars, ctlVars, fileVars
  <2> QED
    BY <1>1, <2>1, <2>2, <2>3, <2>4, <2>5, <2>6, <2>7, <2>8, <2>9, <2>10, <2>11, <2>12, <2>13,
       <2>14, <2>15, <2>16, <2>17, <2>18, <2>19, <2>20, <2>21 DEF Worker
<1>2. ASSUME Controller, UNCHANGED size PROVE HandInv'
  <2>0. UNCHANGED <<workVars, stopped, crashed, size>>
    BY <1>2 DEF Controller
  <2>1. CASE CtlLoop
    BY <2>1, <2>0, <1>2 DEF TypeOK, HandInv, CtlLoop, infoVars, workVars, ctlVars, fileVars
  <2>2. CASE CheckWorker
    BY <2>2, <2>0, <1>2 DEF TypeOK, HandInv, CheckWorker, GoOn, NextWorker, infoVars, workVars,
       ctlVars, fileVars
  <2>3. CASE LookAtFile
    <3>1. ctl' \in {"check", "done?"} \/ (ctl' = "diff" /\ reading' \in Files \X Nat \X Nat)
      <4>1. CASE NextWorker
        <5> QED  BY <4>1, NextInRange DEF TypeOK
      <4>2. CASE curFile[turn] \in Files /\ ctl' = "diff" /\ reading' = <<curFile[turn], 0, 0>>
        BY <4>2
      <4> QED  BY <4>1, <4>2, <2>3 DEF TypeOK, LookAtFile
    <3> QED  BY <3>1, <2>0 DEF HandInv, workVars
  <2>4. CASE LookAtOffset
    BY <2>4, <2>0, <1>2 DEF TypeOK, HandInv, LookAtOffset, infoVars, workVars, ctlVars, fileVars
  <2>5. CASE ReadBlock
    BY <2>5, <2>0, <1>2 DEF TypeOK, HandInv, ReadBlock, infoVars, workVars, ctlVars, fileVars
  <2>6. CASE ReadFails
    BY <2>6, <2>0, <1>2 DEF TypeOK, HandInv, ReadFails, Fault, Judge, infoVars, workVars, ctlVars,
       fileVars
  <2>7. CASE FailStatus
    BY <2>7, <2>0, <1>2 DEF TypeOK, HandInv, FailStatus, SetStatus, infoVars, workVars, ctlVars,
       fileVars
  <2>8. CASE FailFile
    BY <2>8, <2>0, <1>2 DEF TypeOK, HandInv, FailFile, SetFile, infoVars, workVars, ctlVars,
       fileVars
  <2>9. CASE FailBuffers
    BY <2>9, <2>0, <1>2 DEF TypeOK, HandInv, FailBuffers, SetBuffers, NextWorker, infoVars,
       workVars, ctlVars, fileVars
  <2>10. CASE PushBlock
    BY <2>10, <2>0, <1>2 DEF TypeOK, HandInv, PushBlock, SetBuffers, infoVars, workVars, ctlVars,
       fileVars
  <2>11. CASE MarkEnd
    BY <2>11, <2>0, <1>2 DEF TypeOK, HandInv, MarkEnd, SetStatus, infoVars, workVars, ctlVars,
       fileVars
  <2>12. CASE Advance
    BY <2>12, <2>0, <1>2 DEF TypeOK, HandInv, Advance, SetOffset, NextWorker, infoVars, workVars,
       ctlVars, fileVars
  <2>13. CASE WorkersDone
    BY <2>13, <2>0, <1>2 DEF TypeOK, HandInv, WorkersDone, infoVars, workVars, ctlVars, fileVars
  <2>14. CASE JoinWorkers
    BY <2>14, <2>0, <1>2 DEF TypeOK, HandInv, JoinWorkers, infoVars, workVars, ctlVars, fileVars
  <2> QED
    BY <1>2, <2>1, <2>2, <2>3, <2>4, <2>5, <2>6, <2>7, <2>8, <2>9, <2>10, <2>11, <2>12, <2>13,
       <2>14 DEF
      Controller
<1>3. CASE Stop /\ UNCHANGED size
  BY <1>3 DEF TypeOK, HandInv, Stop, infoVars, workVars, ctlVars, fileVars
<1>4. CASE UNCHANGED vars
  BY <1>4 DEF TypeOK, HandInv, vars, infoVars, workVars, ctlVars, fileVars
<1> QED  BY <1>1, <1>2, <1>3, <1>4 DEF Next

(***************************************************************************)
(* A step of one worker leaves the others alone.                           *)
(***************************************************************************)
Kept(v) ==
  /\ status'[v] = status[v] /\ curFile'[v] = curFile[v] /\ offset'[v] = offset[v]
  /\ vBuffer'[v] = vBuffer[v] /\ pc'[v] = pc[v] /\ mine'[v] = mine[v]
  /\ block'[v] = block[v] /\ open'[v] = open[v]

LEMMA OthersKept ==
  ASSUME TypeOK, NEW w \in Workers, Worker(w), NEW v \in Workers, v # w
  PROVE  Kept(v)
<1>1. CASE AskStopped(w)
  BY <1>1 DEF TypeOK, Kept, AskStopped, Goto, infoVars, workVars, ctlVars, fileVars
<1>2. CASE Look(w)
  BY <1>2 DEF TypeOK, Kept, Look, Goto, infoVars, workVars, ctlVars, fileVars
<1>3. CASE AskTask(w)
  BY <1>3 DEF TypeOK, Kept, AskTask, Goto, infoVars, workVars, ctlVars, fileVars
<1>4. CASE WaitTask(w)
  BY <1>4 DEF TypeOK, Kept, WaitTask, SetStatus, Goto, infoVars, workVars, ctlVars, fileVars
<1>5. CASE TakeFile(w)
  BY <1>5 DEF TypeOK, Kept, TakeFile, Goto, infoVars, workVars, ctlVars, fileVars
<1>6. CASE NoFileLeft(w)
  BY <1>6 DEF TypeOK, Kept, NoFileLeft, Goto, infoVars, workVars, ctlVars, fileVars
<1>7. CASE Leave(w)
  BY <1>7 DEF TypeOK, Kept, Leave, SetStatus, Goto, infoVars, workVars, ctlVars, fileVars
<1>8. CASE AssignFile(w)
  BY <1>8 DEF TypeOK, Kept, AssignFile, SetFile, Goto, infoVars, workVars, ctlVars, fileVars
<1>9. CASE ResetOffset(w)
  BY <1>9 DEF TypeOK, Kept, ResetOffset, SetOffset, Goto, infoVars, workVars, ctlVars,
     fileVars
<1>10. CASE Go(w)
  BY <1>10 DEF TypeOK, Kept, Go, SetStatus, Goto, infoVars, workVars, ctlVars, fileVars
<1>11. CASE OpenFile(w)
  BY <1>11 DEF TypeOK, Kept, OpenFile, Goto, infoVars, workVars, ctlVars, fileVars
<1>12. CASE OpenFails(w)
  BY <1>12 DEF TypeOK, Kept, OpenFails, Fault, Judge, Goto, infoVars, workVars, ctlVars,
     fileVars
<1>13. CASE GetBlock(w)
  BY <1>13 DEF TypeOK, Kept, GetBlock, SetBuffers, Goto, infoVars, workVars, ctlVars, fileVars
<1>14. CASE EmptyFile(w)
  BY <1>14 DEF TypeOK, Kept, EmptyFile, Goto, infoVars, workVars, ctlVars, fileVars
<1>15. CASE Write(w)
  BY <1>15 DEF TypeOK, Kept, Write, Goto, infoVars, workVars, ctlVars, fileVars
<1>16. CASE WriteFails(w)
  BY <1>16 DEF TypeOK, Kept, WriteFails, Fault, Judge, Goto, infoVars, workVars, ctlVars,
     fileVars
<1>17. CASE FinishFile(w)
  BY <1>17 DEF TypeOK, Kept, FinishFile, Judge, Goto, infoVars, workVars, ctlVars, fileVars
<1>18. CASE EndStatus(w)
  BY <1>18 DEF TypeOK, Kept, EndStatus, SetStatus, Goto, infoVars, workVars, ctlVars, fileVars
<1>19. CASE EndFile(w)
  BY <1>19 DEF TypeOK, Kept, EndFile, SetFile, Goto, infoVars, workVars, ctlVars, fileVars
<1>20. CASE EndBuffers(w)
  BY <1>20 DEF TypeOK, Kept, EndBuffers, SetBuffers, Goto, infoVars, workVars, ctlVars,
     fileVars
<1>21. CASE GetBlockOfNone(w)
  BY <1>21 DEF TypeOK, Kept, GetBlockOfNone, infoVars, workVars, ctlVars, fileVars
<1> QED
  BY <1>1, <1>2, <1>3, <1>4, <1>5, <1>6, <1>7, <1>8, <1>9, <1>10, <1>11, <1>12, <1>13,
     <1>14, <1>15, <1>16, <1>17, <1>18, <1>19, <1>20, <1>21 DEF Worker

LEMMA FilesKept ==
  ASSUME TypeOK, NEW w \in Workers, Worker(w)
  PROVE  /\ told \subseteq told' /\ done \subseteq done' /\ fileList' \subseteq fileList
         /\ UNCHANGED <<ctl, turn, reading, stopped>>
         /\ \A f \in Files : f # mine[w] => disk'[f] = disk[f]
<1>0. UNCHANGED <<ctl, turn, reading, stopped>>
  BY DEF Worker, ctlVars
<1>1. CASE AskStopped(w)
  BY <1>1, <1>0 DEF TypeOK, AskStopped, Goto, infoVars, workVars, ctlVars, fileVars
<1>2. CASE Look(w)
  BY <1>2, <1>0 DEF TypeOK, Look, Goto, infoVars, workVars, ctlVars, fileVars
<1>3. CASE AskTask(w)
  BY <1>3, <1>0 DEF TypeOK, AskTask, Goto, infoVars, workVars, ctlVars, fileVars
<1>4. CASE WaitTask(w)
  BY <1>4, <1>0 DEF TypeOK, WaitTask, SetStatus, Goto, infoVars, workVars, ctlVars, fileVars
<1>5. CASE TakeFile(w)
  BY <1>5, <1>0 DEF TypeOK, TakeFile, Goto, infoVars, workVars, ctlVars, fileVars
<1>6. CASE NoFileLeft(w)
  BY <1>6, <1>0 DEF TypeOK, NoFileLeft, Goto, infoVars, workVars, ctlVars, fileVars
<1>7. CASE Leave(w)
  BY <1>7, <1>0 DEF TypeOK, Leave, SetStatus, Goto, infoVars, workVars, ctlVars, fileVars
<1>8. CASE AssignFile(w)
  BY <1>8, <1>0 DEF TypeOK, AssignFile, SetFile, Goto, infoVars, workVars, ctlVars, fileVars
<1>9. CASE ResetOffset(w)
  BY <1>9, <1>0 DEF TypeOK, ResetOffset, SetOffset, Goto, infoVars, workVars, ctlVars, fileVars
<1>10. CASE Go(w)
  BY <1>10, <1>0 DEF TypeOK, Go, SetStatus, Goto, infoVars, workVars, ctlVars, fileVars
<1>11. CASE OpenFile(w)
  BY <1>11, <1>0 DEF TypeOK, OpenFile, Goto, infoVars, workVars, ctlVars, fileVars
<1>12. CASE OpenFails(w)
  BY <1>12, <1>0 DEF TypeOK, OpenFails, Fault, Judge, Goto, infoVars, workVars, ctlVars, fileVars
<1>13. CASE GetBlock(w)
  BY <1>13, <1>0 DEF TypeOK, GetBlock, SetBuffers, Goto, infoVars, workVars, ctlVars, fileVars
<1>14. CASE EmptyFile(w)
  BY <1>14, <1>0 DEF TypeOK, EmptyFile, Goto, infoVars, workVars, ctlVars, fileVars
<1>15. CASE Write(w)
  BY <1>15, <1>0 DEF TypeOK, Write, Goto, infoVars, workVars, ctlVars, fileVars
<1>16. CASE WriteFails(w)
  BY <1>16, <1>0 DEF TypeOK, WriteFails, Fault, Judge, Goto, infoVars, workVars, ctlVars, fileVars
<1>17. CASE FinishFile(w)
  BY <1>17, <1>0 DEF TypeOK, FinishFile, Judge, Goto, infoVars, workVars, ctlVars, fileVars
<1>18. CASE EndStatus(w)
  BY <1>18, <1>0 DEF TypeOK, EndStatus, SetStatus, Goto, infoVars, workVars, ctlVars, fileVars
<1>19. CASE EndFile(w)
  BY <1>19, <1>0 DEF TypeOK, EndFile, SetFile, Goto, infoVars, workVars, ctlVars, fileVars
<1>20. CASE EndBuffers(w)
  BY <1>20, <1>0 DEF TypeOK, EndBuffers, SetBuffers, Goto, infoVars, workVars, ctlVars, fileVars
<1>21. CASE GetBlockOfNone(w)
  BY <1>21, <1>0 DEF TypeOK, GetBlockOfNone, infoVars, workVars, ctlVars, fileVars
<1> QED
  BY <1>0, <1>1, <1>2, <1>3, <1>4, <1>5, <1>6, <1>7, <1>8, <1>9, <1>10, <1>11, <1>12, <1>13,
     <1>14, <1>15, <1>16, <1>17, <1>18, <1>19, <1>20, <1>21 DEF Worker

\* A step of the controller leaves alone all but the worker it looks at.
LEMMA ControllerKept ==
  ASSUME TypeOK, Controller
  PROVE  /\ UNCHANGED <<pc, mine, block, open, stopped, crashed, fileList, done, disk>>
         /\ told \subseteq told'
         /\ \A v \in Workers : v # turn => Kept(v)
<1>0. UNCHANGED <<pc, mine, block, open, stopped, crashed>>
  BY DEF Controller, workVars
<1>1. CASE CtlLoop
  BY <1>1, <1>0 DEF TypeOK, Kept, CtlLoop, infoVars, workVars, ctlVars, fileVars
<1>2. CASE CheckWorker
  BY <1>2, <1>0 DEF TypeOK, Kept, CheckWorker, GoOn, NextWorker, infoVars, workVars, ctlVars,
     fileVars
<1>3. CASE LookAtFile
  BY <1>3, <1>0 DEF TypeOK, Kept, LookAtFile, NextWorker, infoVars, workVars, ctlVars, fileVars
<1>4. CASE LookAtOffset
  BY <1>4, <1>0 DEF TypeOK, Kept, LookAtOffset, infoVars, workVars, ctlVars, fileVars
<1>5. CASE ReadBlock
  BY <1>5, <1>0 DEF TypeOK, Kept, ReadBlock, infoVars, workVars, ctlVars, fileVars
<1>6. CASE ReadFails
  BY <1>6, <1>0 DEF TypeOK, Kept, ReadFails, Fault, Judge, infoVars, workVars, ctlVars, fileVars
<1>7. CASE FailStatus
  BY <1>7, <1>0 DEF TypeOK, Kept, FailStatus, SetStatus, infoVars, workVars, ctlVars, fileVars
<1>8. CASE FailFile
  BY <1>8, <1>0 DEF TypeOK, Kept, FailFile, SetFile, infoVars, workVars, ctlVars, fileVars
<1>9. CASE FailBuffers
  BY <1>9, <1>0 DEF TypeOK, Kept, FailBuffers, SetBuffers, NextWorker, infoVars, workVars,
     ctlVars, fileVars
<1>10. CASE PushBlock
  BY <1>10, <1>0 DEF TypeOK, Kept, PushBlock, SetBuffers, infoVars, workVars, ctlVars, fileVars
<1>11. CASE MarkEnd
  BY <1>11, <1>0 DEF TypeOK, Kept, MarkEnd, SetStatus, infoVars, workVars, ctlVars, fileVars
<1>12. CASE Advance
  BY <1>12, <1>0 DEF TypeOK, Kept, Advance, SetOffset, NextWorker, infoVars, workVars, ctlVars,
     fileVars
<1>13. CASE WorkersDone
  BY <1>13, <1>0 DEF TypeOK, Kept, WorkersDone, infoVars, workVars, ctlVars, fileVars
<1>14. CASE JoinWorkers
  BY <1>14, <1>0 DEF TypeOK, Kept, JoinWorkers, infoVars, workVars, ctlVars, fileVars
<1> QED
  BY <1>0, <1>1, <1>2, <1>3, <1>4, <1>5, <1>6, <1>7, <1>8, <1>9, <1>10, <1>11, <1>12, <1>13, <1>14
     DEF
    Controller

LEMMA TaskFrame ==
  ASSUME NEW v \in Workers, TaskInv(v), Kept(v), told \subseteq told', size' = size,
         ctl = "unset" /\ turn = v => ctl' = "unset" /\ turn' = v
  PROVE  TaskInv(v)'
BY DEF TaskInv, Kept

LEMMA TaskStep ==
  ASSUME TypeOK, HandInv, \A w \in Workers : TaskInv(w), [Next]_vars
  PROVE  \A v \in Workers : TaskInv(v)'
<1> SUFFICES ASSUME NEW v \in Workers PROVE TaskInv(v)'
  OBVIOUS
<1>1. ASSUME Worker(v), UNCHANGED size PROVE TaskInv(v)'
  <2>0. told \subseteq told' /\ UNCHANGED <<ctl, turn, size>>
    BY <1>1, FilesKept
  <2>1. CASE AskStopped(v)
    BY <2>1, <2>0 DEF TypeOK, HandInv, TaskInv, TaskPlaces, AskStopped, Goto, infoVars, workVars,
       ctlVars, fileVars
  <2>2. CASE Look(v)
    BY <2>2, <2>0 DEF TypeOK, HandInv, TaskInv, TaskPlaces, Look, Goto, infoVars, workVars,
       ctlVars, fileVars
  <2>3. CASE AskTask(v)
    BY <2>3, <2>0 DEF TypeOK, HandInv, TaskInv, TaskPlaces, AskTask, Goto, infoVars, workVars,
       ctlVars, fileVars
  <2>4. CASE WaitTask(v)
    BY <2>4, <2>0 DEF TypeOK, HandInv, TaskInv, TaskPlaces, WaitTask, SetStatus, Goto, infoVars,
       workVars, ctlVars, fileVars
  <2>5. CASE TakeFile(v)
    BY <2>5, <2>0 DEF TypeOK, HandInv, TaskInv, TaskPlaces, TakeFile, Goto, infoVars, workVars,
       ctlVars, fileVars
  <2>6. CASE NoFileLeft(v)
    BY <2>6, <2>0 DEF TypeOK, HandInv, TaskInv, TaskPlaces, NoFileLeft, Goto, infoVars, workVars,
       ctlVars, fileVars
  <2>7. CASE Leave(v)
    BY <2>7, <2>0 DEF TypeOK, HandInv, TaskInv, TaskPlaces, Leave, SetStatus, Goto, infoVars,
       workVars, ctlVars, fileVars
  <2>8. CASE AssignFile(v)
    BY <2>8, <2>0 DEF TypeOK, HandInv, TaskInv, TaskPlaces, AssignFile, SetFile, Goto, infoVars,
       workVars, ctlVars, fileVars
  <2>9. CASE ResetOffset(v)
    BY <2>9, <2>0 DEF TypeOK, HandInv, TaskInv, TaskPlaces, ResetOffset, SetOffset, Goto,
       infoVars, workVars, ctlVars, fileVars
  <2>10. CASE Go(v)
    BY <2>10, <2>0 DEF TypeOK, HandInv, TaskInv, TaskPlaces, Go, SetStatus, Goto, infoVars,
       workVars, ctlVars, fileVars
  <2>11. CASE OpenFile(v)
    BY <2>11, <2>0 DEF TypeOK, HandInv, TaskInv, TaskPlaces, OpenFile, Goto, infoVars, workVars,
       ctlVars, fileVars
  <2>12. CASE OpenFails(v)
    BY <2>12, <2>0 DEF TypeOK, HandInv, TaskInv, TaskPlaces, OpenFails, Fault, Judge, Goto,
       infoVars, workVars, ctlVars, fileVars
  <2>13. CASE GetBlock(v)
    BY <2>13, <2>0 DEF TypeOK, HandInv, TaskInv, TaskPlaces, GetBlock, SetBuffers, Goto, infoVars,
       workVars, ctlVars, fileVars
  <2>14. CASE EmptyFile(v)
    BY <2>14, <2>0 DEF TypeOK, HandInv, TaskInv, TaskPlaces, EmptyFile, Goto, infoVars, workVars,
       ctlVars, fileVars
  <2>15. CASE Write(v)
    BY <2>15, <2>0 DEF TypeOK, HandInv, TaskInv, TaskPlaces, Write, Goto, infoVars, workVars,
       ctlVars, fileVars
  <2>16. CASE WriteFails(v)
    BY <2>16, <2>0 DEF TypeOK, HandInv, TaskInv, TaskPlaces, WriteFails, Fault, Judge, Goto,
       infoVars, workVars, ctlVars, fileVars
  <2>17. CASE FinishFile(v)
    BY <2>17, <2>0 DEF TypeOK, HandInv, TaskInv, TaskPlaces, FinishFile, Judge, Goto, infoVars,
       workVars, ctlVars, fileVars
  <2>18. CASE EndStatus(v)
    BY <2>18, <2>0 DEF TypeOK, HandInv, TaskInv, TaskPlaces, EndStatus, SetStatus, Goto, infoVars,
       workVars, ctlVars, fileVars
  <2>19. CASE EndFile(v)
    BY <2>19, <2>0 DEF TypeOK, HandInv, TaskInv, TaskPlaces, EndFile, SetFile, Goto, infoVars,
       workVars, ctlVars, fileVars
  <2>20. CASE EndBuffers(v)
    BY <2>20, <2>0 DEF TypeOK, HandInv, TaskInv, TaskPlaces, EndBuffers, SetBuffers, Goto,
       infoVars, workVars, ctlVars, fileVars
  <2>21. CASE GetBlockOfNone(v)
    BY <2>21, <2>0 DEF TypeOK, HandInv, TaskInv, TaskPlaces, GetBlockOfNone, infoVars, workVars,
       ctlVars, fileVars
  <2> QED
    BY <1>1, <2>1, <2>2, <2>3, <2>4, <2>5, <2>6, <2>7, <2>8, <2>9, <2>10, <2>11, <2>12, <2>13,
       <2>14, <2>15, <2>16, <2>17, <2>18, <2>19, <2>20, <2>21 DEF Worker
<1>2. ASSUME NEW w \in Workers, w # v, Worker(w), UNCHANGED size PROVE TaskInv(v)'
  BY <1>2, OthersKept, FilesKept, TaskFrame
<1>3. ASSUME Controller, UNCHANGED size PROVE TaskInv(v)'
  <2>0. UNCHANGED workVars /\ size' = size /\ turn \in Workers
    BY <1>3 DEF Controller, TypeOK
  <2>1. CASE CtlLoop
    BY <2>1, <2>0 DEF TypeOK, HandInv, TaskInv, TaskPlaces, CtlLoop, infoVars, workVars, ctlVars,
       fileVars
  <2>2. CASE CheckWorker
    BY <2>2, <2>0 DEF TypeOK, HandInv, TaskInv, TaskPlaces, CheckWorker, GoOn, NextWorker,
       infoVars, workVars, ctlVars, fileVars
  <2>3. CASE LookAtFile
    BY <2>3, <2>0 DEF TypeOK, HandInv, TaskInv, TaskPlaces, LookAtFile, NextWorker, infoVars,
       workVars, ctlVars, fileVars
  <2>4. CASE LookAtOffset
    BY <2>4, <2>0 DEF TypeOK, HandInv, TaskInv, TaskPlaces, LookAtOffset, infoVars, workVars,
       ctlVars, fileVars
  <2>5. CASE ReadBlock
    BY <2>5, <2>0 DEF TypeOK, HandInv, TaskInv, TaskPlaces, ReadBlock, infoVars, workVars,
       ctlVars, fileVars
  <2>6. CASE ReadFails
    BY <2>6, <2>0 DEF TypeOK, HandInv, TaskInv, TaskPlaces, ReadFails, Fault, Judge, infoVars,
       workVars, ctlVars, fileVars
  <2>7. CASE FailStatus
    BY <2>7, <2>0 DEF TypeOK, HandInv, TaskInv, TaskPlaces, FailStatus, SetStatus, infoVars,
       workVars, ctlVars, fileVars
  <2>8. CASE FailFile
    BY <2>8, <2>0 DEF TypeOK, HandInv, TaskInv, TaskPlaces, FailFile, SetFile, infoVars, workVars,
       ctlVars, fileVars
  <2>9. CASE FailBuffers
    BY <2>9, <2>0 DEF TypeOK, HandInv, TaskInv, TaskPlaces, FailBuffers, SetBuffers, NextWorker,
       infoVars, workVars, ctlVars, fileVars
  <2>10. CASE PushBlock
    BY <2>10, <2>0 DEF TypeOK, HandInv, TaskInv, TaskPlaces, PushBlock, SetBuffers, infoVars,
       workVars, ctlVars, fileVars
  <2>11. CASE MarkEnd
    BY <2>11, <2>0 DEF TypeOK, HandInv, TaskInv, TaskPlaces, MarkEnd, SetStatus, infoVars,
       workVars, ctlVars, fileVars
  <2>12. CASE Advance
    BY <2>12, <2>0 DEF TypeOK, HandInv, TaskInv, TaskPlaces, Advance, SetOffset, NextWorker,
       infoVars, workVars, ctlVars, fileVars
  <2>13. CASE WorkersDone
    BY <2>13, <2>0 DEF TypeOK, HandInv, TaskInv, TaskPlaces, WorkersDone, infoVars, workVars,
       ctlVars, fileVars
  <2>14. CASE JoinWorkers
    BY <2>14, <2>0 DEF TypeOK, HandInv, TaskInv, TaskPlaces, JoinWorkers, infoVars, workVars,
       ctlVars, fileVars
  <2> QED
    BY <1>3, <2>1, <2>2, <2>3, <2>4, <2>5, <2>6, <2>7, <2>8, <2>9, <2>10, <2>11, <2>12, <2>13,
       <2>14 DEF
      Controller
<1>4. CASE Stop /\ UNCHANGED size
  BY <1>4 DEF TaskInv, Stop, infoVars, workVars, ctlVars, fileVars
<1>5. CASE UNCHANGED vars
  BY <1>5 DEF TaskInv, vars, infoVars, workVars, ctlVars, fileVars
<1> QED  BY <1>1, <1>2, <1>3, <1>4, <1>5 DEF Next


-----------------------------------------------------------------------------
\* No step of a worker sets ENDFILE.
LEMMA NoEndfile ==
  ASSUME TypeOK, NEW w \in Workers, Worker(w), NEW v \in Workers, status'[v] = "endfile"
  PROVE  status[v] = "endfile"
<1>0. CASE v # w
  BY <1>0, OthersKept DEF Kept
<1> QED
  BY <1>0 DEF TypeOK, Worker, AskStopped, Look, AskTask, WaitTask, TakeFile, NoFileLeft, Leave,
     AssignFile, ResetOffset, Go, OpenFile, OpenFails, GetBlock, EmptyFile, Write, WriteFails,
     FinishFile, EndStatus, EndFile, EndBuffers, GetBlockOfNone, SetStatus, SetFile, SetOffset,
     SetBuffers, infoVars

LEMMA WindowStep ==
  ASSUME TypeOK, WindowInv, [Next]_vars
  PROVE  WindowInv'
<1>1. ASSUME NEW w \in Workers, Worker(w) PROVE WindowInv'
  BY <1>1, FilesKept, NoEndfile DEF WindowInv, TypeOK
<1>2. CASE Controller
  <2>1. CASE CtlLoop
    BY <2>1, <1>2 DEF TypeOK, WindowInv, Window, CtlLoop, infoVars, workVars, ctlVars, fileVars
  <2>2. CASE CheckWorker
    BY <2>2, <1>2 DEF TypeOK, WindowInv, Window, CheckWorker, GoOn, NextWorker, infoVars,
       workVars, ctlVars, fileVars
  <2>3. CASE LookAtFile
    BY <2>3, <1>2 DEF TypeOK, WindowInv, Window, LookAtFile, NextWorker, infoVars, workVars,
       ctlVars, fileVars
  <2>4. CASE LookAtOffset
    BY <2>4, <1>2 DEF TypeOK, WindowInv, Window, LookAtOffset, infoVars, workVars, ctlVars, fileVars
  <2>5. CASE ReadBlock
    BY <2>5, <1>2 DEF TypeOK, WindowInv, Window, ReadBlock, infoVars, workVars, ctlVars, fileVars
  <2>6. CASE ReadFails
    BY <2>6, <1>2 DEF TypeOK, WindowInv, Window, ReadFails, Fault, Judge, infoVars, workVars,
       ctlVars, fileVars
  <2>7. CASE FailStatus
    BY <2>7, <1>2 DEF TypeOK, WindowInv, Window, FailStatus, SetStatus, infoVars, workVars,
       ctlVars, fileVars
  <2>8. CASE FailFile
    BY <2>8, <1>2 DEF TypeOK, WindowInv, Window, FailFile, SetFile, infoVars, workVars, ctlVars,
       fileVars
  <2>9. CASE FailBuffers
    BY <2>9, <1>2 DEF TypeOK, WindowInv, Window, FailBuffers, SetBuffers, NextWorker, infoVars,
       workVars, ctlVars, fileVars
  <2>10. CASE PushBlock
    BY <2>10, <1>2 DEF TypeOK, WindowInv, Window, PushBlock, SetBuffers, infoVars, workVars,
       ctlVars, fileVars
  <2>11. CASE MarkEnd
    BY <2>11, <1>2 DEF TypeOK, WindowInv, Window, MarkEnd, SetStatus, infoVars, workVars, ctlVars,
       fileVars
  <2>12. CASE Advance
    BY <2>12, <1>2 DEF TypeOK, WindowInv, Window, Advance, SetOffset, NextWorker, infoVars,
       workVars, ctlVars, fileVars
  <2>13. CASE WorkersDone
    BY <2>13, <1>2 DEF TypeOK, WindowInv, Window, WorkersDone, infoVars, workVars, ctlVars, fileVars
  <2>14. CASE JoinWorkers
    BY <2>14, <1>2 DEF TypeOK, WindowInv, Window, JoinWorkers, infoVars, workVars, ctlVars, fileVars
  <2> QED
    BY <1>2, <2>1, <2>2, <2>3, <2>4, <2>5, <2>6, <2>7, <2>8, <2>9, <2>10, <2>11, <2>12, <2>13,
       <2>14 DEF
      Controller
<1>3. CASE Stop
  BY <1>3 DEF WindowInv, Stop, infoVars, ctlVars, fileVars
<1>4. CASE UNCHANGED vars
  BY <1>4 DEF WindowInv, vars, infoVars, ctlVars, fileVars
<1> QED  BY <1>1, <1>2, <1>3, <1>4 DEF Next

LEMMA StopAtStep ==
  ASSUME TypeOK, HandInv, \A w \in Workers : StopAt(w), [Next]_vars
  PROVE  \A v \in Workers : StopAt(v)'
<1> SUFFICES ASSUME NEW v \in Workers PROVE StopAt(v)'
  OBVIOUS
<1>1. ASSUME Worker(v) PROVE StopAt(v)'
  <2>0. fileList' \subseteq fileList /\ UNCHANGED <<ctl, turn>>
    BY <1>1, FilesKept
  <2>1. CASE AskStopped(v)
    BY <2>1, <2>0 DEF TypeOK, HandInv, StopAt, AskStopped, Goto, infoVars, workVars, ctlVars,
       fileVars
  <2>2. CASE Look(v)
    BY <2>2, <2>0 DEF TypeOK, HandInv, StopAt, Look, Goto, infoVars, workVars, ctlVars, fileVars
  <2>3. CASE AskTask(v)
    BY <2>3, <2>0 DEF TypeOK, HandInv, StopAt, AskTask, Goto, infoVars, workVars, ctlVars, fileVars
  <2>4. CASE WaitTask(v)
    BY <2>4, <2>0 DEF TypeOK, HandInv, StopAt, WaitTask, SetStatus, Goto, infoVars, workVars,
       ctlVars, fileVars
  <2>5. CASE TakeFile(v)
    BY <2>5, <2>0 DEF TypeOK, HandInv, StopAt, TakeFile, Goto, infoVars, workVars, ctlVars, fileVars
  <2>6. CASE NoFileLeft(v)
    BY <2>6, <2>0 DEF TypeOK, HandInv, StopAt, NoFileLeft, Goto, infoVars, workVars, ctlVars,
       fileVars
  <2>7. CASE Leave(v)
    BY <2>7, <2>0 DEF TypeOK, HandInv, StopAt, Leave, SetStatus, Goto, infoVars, workVars,
       ctlVars, fileVars
  <2>8. CASE AssignFile(v)
    BY <2>8, <2>0 DEF TypeOK, HandInv, StopAt, AssignFile, SetFile, Goto, infoVars, workVars,
       ctlVars, fileVars
  <2>9. CASE ResetOffset(v)
    BY <2>9, <2>0 DEF TypeOK, HandInv, StopAt, ResetOffset, SetOffset, Goto, infoVars, workVars,
       ctlVars, fileVars
  <2>10. CASE Go(v)
    BY <2>10, <2>0 DEF TypeOK, HandInv, StopAt, Go, SetStatus, Goto, infoVars, workVars, ctlVars,
       fileVars
  <2>11. CASE OpenFile(v)
    BY <2>11, <2>0 DEF TypeOK, HandInv, StopAt, OpenFile, Goto, infoVars, workVars, ctlVars,
       fileVars
  <2>12. CASE OpenFails(v)
    BY <2>12, <2>0 DEF TypeOK, HandInv, StopAt, OpenFails, Fault, Judge, Goto, infoVars, workVars,
       ctlVars, fileVars
  <2>13. CASE GetBlock(v)
    BY <2>13, <2>0 DEF TypeOK, HandInv, StopAt, GetBlock, SetBuffers, Goto, infoVars, workVars,
       ctlVars, fileVars
  <2>14. CASE EmptyFile(v)
    BY <2>14, <2>0 DEF TypeOK, HandInv, StopAt, EmptyFile, Goto, infoVars, workVars, ctlVars,
       fileVars
  <2>15. CASE Write(v)
    BY <2>15, <2>0 DEF TypeOK, HandInv, StopAt, Write, Goto, infoVars, workVars, ctlVars, fileVars
  <2>16. CASE WriteFails(v)
    BY <2>16, <2>0 DEF TypeOK, HandInv, StopAt, WriteFails, Fault, Judge, Goto, infoVars,
       workVars, ctlVars, fileVars
  <2>17. CASE FinishFile(v)
    BY <2>17, <2>0 DEF TypeOK, HandInv, StopAt, FinishFile, Judge, Goto, infoVars, workVars,
       ctlVars, fileVars
  <2>18. CASE EndStatus(v)
    BY <2>18, <2>0 DEF TypeOK, HandInv, StopAt, EndStatus, SetStatus, Goto, infoVars, workVars,
       ctlVars, fileVars
  <2>19. CASE EndFile(v)
    BY <2>19, <2>0 DEF TypeOK, HandInv, StopAt, EndFile, SetFile, Goto, infoVars, workVars,
       ctlVars, fileVars
  <2>20. CASE EndBuffers(v)
    BY <2>20, <2>0 DEF TypeOK, HandInv, StopAt, EndBuffers, SetBuffers, Goto, infoVars, workVars,
       ctlVars, fileVars
  <2>21. CASE GetBlockOfNone(v)
    BY <2>21, <2>0 DEF TypeOK, HandInv, StopAt, GetBlockOfNone, infoVars, workVars, ctlVars,
       fileVars
  <2> QED
    BY <1>1, <2>1, <2>2, <2>3, <2>4, <2>5, <2>6, <2>7, <2>8, <2>9, <2>10, <2>11, <2>12, <2>13,
       <2>14, <2>15, <2>16, <2>17, <2>18, <2>19, <2>20, <2>21 DEF Worker
<1>2. ASSUME NEW w \in Workers, w # v, Worker(w) PROVE StopAt(v)'
  BY <1>2, OthersKept, FilesKept DEF StopAt, Kept
<1>3. CASE Controller
  <2>1. UNCHANGED <<pc, mine, fileList>> /\ turn \in Workers /\ v \in Int /\ turn \in Int
    BY <1>3, ControllerKept DEF TypeOK, Workers
  <2>2. status' = status \/ \E s \in {"null", "endfile"} :
                             status' = [status EXCEPT ![turn] = s] /\ ctl' \in {"unset", "advance"}
    BY <1>3 DEF Controller, CtlLoop, CheckWorker, LookAtFile, LookAtOffset, ReadBlock, ReadFails,
       FailStatus, FailFile, FailBuffers, PushBlock, MarkEnd, Advance, WorkersDone, JoinWorkers,
       SetStatus, SetFile, SetOffset, SetBuffers, GoOn, NextWorker, infoVars
  <2>3. (status'[v] = "stop" => status[v] = "stop") /\ (ctl' = "done?" => status'[v] = status[v])
    BY <2>1, <2>2 DEF TypeOK
  <2>4. (ctl = "done?" /\ v < turn => status[v] = "stop")
        => (ctl' = "done?" /\ v < turn' => status[v] = "stop")
    <3>1. CASE WorkersDone
      BY <3>1, <2>1 DEF WorkersDone
    <3>2. CASE NextWorker
      BY <3>2, <2>1, SaveAssumption DEF NextWorker, Workers
    <3>3. CASE ~WorkersDone /\ ~NextWorker
      BY <3>3, <1>3 DEF Controller, CtlLoop, CheckWorker, LookAtFile, LookAtOffset, ReadBlock,
         ReadFails, FailStatus, FailFile, FailBuffers, PushBlock, MarkEnd, Advance, JoinWorkers,
         GoOn
    <3> QED  BY <3>1, <3>2, <3>3
  <2>5. StopAt(v)
    OBVIOUS
  <2> QED  BY <2>1, <2>3, <2>4, <2>5 DEF StopAt

<1>4. CASE Stop
  BY <1>4 DEF StopAt, Stop, infoVars, workVars, ctlVars, fileVars
<1>5. CASE UNCHANGED vars
  BY <1>5 DEF StopAt, vars, infoVars, workVars, ctlVars, fileVars
<1> QED  BY <1>1, <1>2, <1>3, <1>4, <1>5 DEF Next

\* A worker whose status is STOP keeps it, unless the controller ends its task.
LEMMA StopStays ==
  ASSUME TypeOK, HandInv, NEW v \in Workers, StopAt(v), NEW w \in Workers, Worker(w), status[v] = "stop"
  PROVE  status'[v] = "stop"
<1>1. CASE v # w
  BY <1>1, OthersKept DEF Kept
<1> QED
  BY <1>1 DEF TypeOK, StopAt, Worker, AskStopped, Look, AskTask, WaitTask, TakeFile, NoFileLeft,
     Leave, AssignFile, ResetOffset, Go, OpenFile, OpenFails, GetBlock, EmptyFile, Write,
     WriteFails, FinishFile, EndStatus, EndFile, EndBuffers, GetBlockOfNone, SetStatus, SetFile,
     SetOffset, SetBuffers, infoVars

LEMMA StopStep ==
  ASSUME TypeOK, HandInv, StopInv, [Next]_vars
  PROVE  StopInv'
<1>0. \A v \in Workers : StopAt(v)'
  BY StopAtStep DEF StopInv
<1>1. ASSUME NEW w \in Workers, Worker(w) PROVE StopInv'
  BY <1>0, <1>1, StopStays, FilesKept DEF StopInv
<1>2. CASE Controller
  <2>1. CASE WorkersDone
    BY <1>0, <2>1, <1>2, SaveAssumption DEF Controller, StopInv, StopAt, WorkersDone, TypeOK,
       Workers, infoVars
  <2>2. CASE CtlLoop \/ JoinWorkers
    BY <1>0, <2>2, <1>2 DEF Controller, StopInv, CtlLoop, JoinWorkers, infoVars
  <2>3. CASE ~(WorkersDone \/ CtlLoop \/ JoinWorkers)
    <3>1. ctl' \notin {"join", "over"}
      BY <2>3, <1>2 DEF Controller, CheckWorker, LookAtFile, LookAtOffset, ReadBlock, ReadFails,
         FailStatus, FailFile, FailBuffers, PushBlock, MarkEnd, Advance, GoOn, NextWorker
    <3> QED  BY <1>0, <3>1 DEF StopInv
  <2> QED  BY <2>1, <2>2, <2>3
<1>3. CASE Stop
  BY <1>0, <1>3 DEF StopInv, Stop
<1>4. CASE UNCHANGED vars
  BY <1>0, <1>4 DEF StopInv, vars, infoVars, ctlVars
<1> QED  BY <1>1, <1>2, <1>3, <1>4 DEF Next

LEMMA IInvInit == Init => IInv
<1> SUFFICES ASSUME Init PROVE IInv
  OBVIOUS
<1> USE SaveAssumption
<1>0. <<>> \in Seq(Blocks)
  OBVIOUS
<1>1. TypeOK
  <2>1. /\ pc \in [Workers -> Places] /\ mine \in [Workers -> Files \union {NoFile}]
        /\ block \in [Workers -> Blocks \union {NoBlock}] /\ open \in [Workers -> BOOLEAN]
    BY DEF Init, Places
  <2>2. /\ curFile \in [Workers -> Files \union {NoFile}] /\ offset \in [Workers -> Nat]
        /\ vBuffer \in [Workers -> Seq(Blocks)] /\ disk \in [Files -> Seq(Blocks)]
        /\ status \in [Workers -> {"null", "wait", "stop", "endfile", "continue"}]
    BY <1>0 DEF Init
  <2>3. ctl \in CtlPlaces /\ turn \in Workers /\ errors \in 0..MaxErrors
    BY DEF Init, CtlPlaces, Workers
  <2> QED  BY <2>1, <2>2, <2>3 DEF Init, TypeOK
<1>2. HandInv /\ (\A w \in Workers : TaskInv(w)) /\ WindowInv /\ StopInv
  BY DEF Init, HandInv, TaskInv, WindowInv, Window, StopInv, StopAt, Workers
<1> QED  BY <1>1, <1>2 DEF IInv

LEMMA IInvStep == IInv /\ [Next]_vars => IInv'
BY TypeStep, HandStep, TaskStep, WindowStep, StopStep DEF IInv

LEMMA Invariance == Spec => []IInv
BY IInvInit, IInvStep, PTL DEF Spec

\* Every variable of the unpacking keeps its type through each look and each change
\* of the two kinds of thread: the worker looked at is one of them, a file in the
\* hand of a worker is a file, also after its task was taken from it (fillBuffers,
\* endTask, newTask).
THEOREM TypeCorrect == Spec => []TypeOK
BY Invariance, PTL DEF IInv

-----------------------------------------------------------------------------
(***************************************************************************)
(* While nothing fails and no file is empty, only these steps are taken.   *)
(***************************************************************************)
QuietWorker(w) ==
  \/ AskStopped(w) \/ Look(w) \/ AskTask(w) \/ WaitTask(w) \/ TakeFile(w) \/ NoFileLeft(w)
  \/ Leave(w) \/ AssignFile(w) \/ ResetOffset(w) \/ Go(w) \/ OpenFile(w) \/ GetBlock(w)
  \/ Write(w) \/ FinishFile(w) \/ EndStatus(w) \/ EndFile(w) \/ EndBuffers(w)
QuietController ==
  \/ CtlLoop \/ CheckWorker \/ LookAtFile \/ LookAtOffset \/ ReadBlock \/ PushBlock \/ MarkEnd
  \/ Advance \/ WorkersDone \/ JoinWorkers

LEMMA ErrorsGrow ==
  ASSUME TypeOK, [Next]_vars
  PROVE  size' = size /\ errors \in Nat /\ errors' \in Nat /\ errors <= errors' /\ (OneFailure' => OneFailure)
<1>1. size' = size
  BY DEF Next, vars
<1>2. errors' = errors \/ Fault
  BY DEF Next, vars, Worker, Controller, Stop, AskStopped, Look, AskTask, WaitTask, TakeFile,
     NoFileLeft, Leave, AssignFile, ResetOffset, Go, OpenFile, OpenFails, GetBlock, EmptyFile,
     Write, WriteFails, FinishFile, EndStatus, EndFile, EndBuffers, GetBlockOfNone, CtlLoop,
     CheckWorker, LookAtFile, LookAtOffset, ReadBlock, ReadFails, FailStatus, FailFile,
     FailBuffers, PushBlock, MarkEnd, Advance, WorkersDone, JoinWorkers
<1> QED  BY <1>1, <1>2 DEF TypeOK, Fault, OneFailure, NoneEmpty

LEMMA CalmBefore ==
  ASSUME TypeOK, [Next]_vars, Calm'
  PROVE  Calm /\ ~Fault /\ errors' = 0
BY ErrorsGrow DEF Calm, NoneEmpty, Fault

\* What the file of a worker is.
LEMMA OwnFile ==
  ASSUME TypeOK, HandInv, Quiet, NEW w \in Workers, TaskInv(w)
  PROVE  /\ curFile[w] # NoFile => curFile[w] = mine[w] /\ pc[w] \in TaskPlaces
         /\ HasFile(w) => mine[w] \in Files
         /\ On(w) => HasFile(w) /\ curFile[w] = mine[w] /\ mine[w] \in Files
BY SaveAssumption DEF TypeOK, HandInv, Quiet, TurnInv, TaskInv, HasFile, On

LEMMA ReadsOn ==
  ASSUME TypeOK, HandInv, Quiet, Calm, ctl \in {"seek", "push"}
  PROVE  /\ reading[1] = curFile[turn] /\ reading[1] \in Files /\ size[reading[1]] \in Nat \ {0}
         /\ reading[2] = offset[turn] /\ offset[turn] \in Nat /\ offset[turn] < size[reading[1]]
<1>1. turn \in Workers /\ offset[turn] \in Nat /\ curFile[turn] # NoFile /\ status[turn] = "continue"
  BY DEF TypeOK, Quiet, TurnInv, Window
<1>2. On(turn) /\ StreamInv(turn) /\ ~Locked(turn) /\ ~Marking(turn)
  BY <1>1 DEF Quiet, StatusInv, Locked, Marking
<1>3. curFile[turn] \in Files /\ size[curFile[turn]] \in Nat \ {0}
  BY <1>1, SaveAssumption DEF TypeOK, Calm, NoneEmpty
<1>4. offset[turn] < size[curFile[turn]]
  BY <1>1, <1>2, <1>3 DEF StreamInv, Read
<1> QED  BY <1>1, <1>3, <1>4 DEF Quiet, TurnInv

LEMMA WorkerIsQuiet ==
  ASSUME TypeOK, HandInv, Quiet, Calm, NEW w \in Workers, TaskInv(w), Worker(w), ~Fault
  PROVE  QuietWorker(w)
<1>1. ~OpenFails(w)
  BY DEF OpenFails
<1>2. pc[w] \in {"work", "drain", "write", "lastwrite"} => On(w) /\ mine[w] \in Files /\ curFile[w] = mine[w]
  BY OwnFile DEF Quiet, StatusInv
<1>3. ~WriteFails(w)
  BY <1>2 DEF WriteFails, TaskInv, On, Quiet, TurnInv
<1>4. ~EmptyFile(w)
  BY <1>2 DEF EmptyFile, Calm, NoneEmpty
<1>5. ~GetBlockOfNone(w)
  BY <1>2, SaveAssumption DEF GetBlockOfNone
<1> QED  BY <1>1, <1>3, <1>4, <1>5 DEF Worker, QuietWorker

LEMMA ControllerIsQuiet ==
  ASSUME TypeOK, HandInv, Quiet, Calm, Controller, ~Fault
  PROVE  QuietController
<1>1. ~ReadFails
  BY ReadsOn DEF ReadFails
<1>2. ~FailStatus /\ ~FailFile /\ ~FailBuffers
  BY DEF FailStatus, FailFile, FailBuffers, Quiet, TurnInv
<1> QED  BY <1>1, <1>2 DEF Controller, QuietController


LEMMA AppendFacts ==
  ASSUME NEW s \in Seq(Blocks), NEW e \in Blocks
  PROVE  /\ Len(Append(s, e)) = Len(s) + 1 /\ Append(s, e) # <<>>
         /\ \A n \in 1..Len(s) : Append(s, e)[n] = s[n]
         /\ Append(s, e)[Len(s) + 1] = e
OBVIOUS

LEMMA TailFacts ==
  ASSUME NEW s \in Seq(Blocks), s # <<>>
  PROVE  /\ Len(s) \in Nat \ {0} /\ Len(Tail(s)) = Len(s) - 1
         /\ Head(s) = s[1]
         /\ \A n \in 1..(Len(s) - 1) : Tail(s)[n] = s[n + 1]
OBVIOUS

LEMMA WatchedKept ==
  ASSUME TypeOK, HandInv, Quiet, Calm, NEW w \in Workers, TaskInv(w), Worker(w), QuietWorker(w), size' = size
  PROVE  status[w] = "continue" => UNCHANGED <<status, curFile, offset>>
<1> USE SaveAssumption DEF Workers
<1>0. UNCHANGED <<ctl, turn, reading, stopped>>
  BY FilesKept
<1>a. StatusInv(w) /\ (pc[w] \in {"leave", "assign"} => status[w] # "continue")
  BY DEF Quiet, TaskInv
<1>1. CASE AskStopped(w)
  BY <1>1, <1>0, <1>a DEF TypeOK, StatusInv, On, AskStopped, Goto, infoVars, workVars, ctlVars,
     fileVars
<1>2. CASE Look(w)
  BY <1>2, <1>0, <1>a DEF TypeOK, StatusInv, On, Look, Goto, infoVars, workVars, ctlVars, fileVars
<1>3. CASE AskTask(w)
  BY <1>3, <1>0, <1>a DEF TypeOK, StatusInv, On, AskTask, Goto, infoVars, workVars, ctlVars,
     fileVars
<1>4. CASE WaitTask(w)
  BY <1>4, <1>0, <1>a DEF TypeOK, StatusInv, On, WaitTask, SetStatus, Goto, infoVars, workVars,
     ctlVars, fileVars
<1>5. CASE TakeFile(w)
  BY <1>5, <1>0, <1>a DEF TypeOK, StatusInv, On, TakeFile, Goto, infoVars, workVars, ctlVars,
     fileVars
<1>6. CASE NoFileLeft(w)
  BY <1>6, <1>0, <1>a DEF TypeOK, StatusInv, On, NoFileLeft, Goto, infoVars, workVars, ctlVars,
     fileVars
<1>7. CASE Leave(w)
  BY <1>7, <1>0, <1>a DEF TypeOK, StatusInv, On, Leave, SetStatus, Goto, infoVars, workVars,
     ctlVars, fileVars
<1>8. CASE AssignFile(w)
  BY <1>8, <1>0, <1>a DEF TypeOK, StatusInv, On, AssignFile, SetFile, Goto, infoVars, workVars,
     ctlVars, fileVars
<1>9. CASE ResetOffset(w)
  BY <1>9, <1>0, <1>a DEF TypeOK, StatusInv, On, ResetOffset, SetOffset, Goto, infoVars, workVars,
     ctlVars, fileVars
<1>10. CASE Go(w)
  BY <1>10, <1>0, <1>a DEF TypeOK, StatusInv, On, Go, SetStatus, Goto, infoVars, workVars,
     ctlVars, fileVars
<1>11. CASE OpenFile(w)
  BY <1>11, <1>0, <1>a DEF TypeOK, StatusInv, On, OpenFile, Goto, infoVars, workVars, ctlVars,
     fileVars
<1>12. CASE GetBlock(w)
  BY <1>12, <1>0, <1>a DEF TypeOK, StatusInv, On, GetBlock, SetBuffers, Goto, infoVars, workVars,
     ctlVars, fileVars
<1>13. CASE Write(w)
  BY <1>13, <1>0, <1>a DEF TypeOK, StatusInv, On, Write, Goto, infoVars, workVars, ctlVars, fileVars
<1>14. CASE FinishFile(w)
  BY <1>14, <1>0, <1>a DEF TypeOK, StatusInv, On, FinishFile, Judge, Goto, infoVars, workVars,
     ctlVars, fileVars
<1>15. CASE EndStatus(w)
  BY <1>15, <1>0, <1>a DEF TypeOK, StatusInv, On, EndStatus, SetStatus, Goto, infoVars, workVars,
     ctlVars, fileVars
<1>16. CASE EndFile(w)
  BY <1>16, <1>0, <1>a DEF TypeOK, StatusInv, On, EndFile, SetFile, Goto, infoVars, workVars,
     ctlVars, fileVars
<1>17. CASE EndBuffers(w)
  BY <1>17, <1>0, <1>a DEF TypeOK, StatusInv, On, EndBuffers, SetBuffers, Goto, infoVars,
     workVars, ctlVars, fileVars
<1> QED
  BY <1>0, <1>1, <1>2, <1>3, <1>4, <1>5, <1>6, <1>7, <1>8, <1>9, <1>10, <1>11, <1>12, <1>13,
     <1>14, <1>15, <1>16, <1>17 DEF QuietWorker

LEMMA BuffersHeld ==
  ASSUME TypeOK, NEW w \in Workers, Worker(w), Locked(w)
  PROVE  vBuffer' = vBuffer
BY DEF Worker, AskStopped, Look, AskTask, WaitTask, TakeFile, NoFileLeft, Leave, AssignFile,
   ResetOffset, Go, OpenFile, OpenFails, GetBlock, EmptyFile, Write, WriteFails, FinishFile,
   EndStatus, EndFile, EndBuffers, GetBlockOfNone, SetStatus, SetFile, SetOffset, SetBuffers,
   infoVars

LEMMA TurnByWorker ==
  ASSUME TypeOK, HandInv, Quiet, Calm, NEW w \in Workers, TaskInv(w), Worker(w), QuietWorker(w), size' = size
  PROVE  TurnInv'
<1>0. UNCHANGED <<ctl, turn, reading>> /\ turn \in Workers
  BY FilesKept DEF TypeOK
<1>1. status[turn] = "continue" => status'[turn] = status[turn] /\ curFile'[turn] = curFile[turn] /\ offset'[turn] = offset[turn]
  BY <1>0, WatchedKept, OthersKept DEF Kept
<1>2. ctl \in {"mark", "advance"} => vBuffer'[turn] = vBuffer[turn]
  BY <1>0, BuffersHeld, OthersKept DEF Kept, Locked
<1> QED  BY <1>0, <1>1, <1>2 DEF Quiet, TurnInv, Window

LEMMA TurnByController ==
  ASSUME TypeOK, HandInv, Quiet, Calm, Controller, QuietController, size' = size
  PROVE  TurnInv'
<1> USE SaveAssumption DEF Workers
<1>0. UNCHANGED <<pc, mine, block, open, fileList, done, disk>> /\ turn \in Workers
  BY ControllerKept DEF TypeOK
<1>a. TurnInv /\ StatusInv(turn)
  BY <1>0 DEF Quiet
<1>b. vBuffer \in [Workers -> Seq(Blocks)]
  BY DEF TypeOK
<1>1. CASE CtlLoop
  BY <1>1, <1>0, <1>a, <1>b DEF TypeOK, TurnInv, Window, CtlLoop, infoVars, workVars, ctlVars,
     fileVars
<1>2. CASE CheckWorker
  BY <1>2, <1>0, <1>a DEF TypeOK, TurnInv, Window, StatusInv, On, CheckWorker, GoOn, NextWorker,
     infoVars
<1>3. CASE LookAtFile
  <2>1. CASE NextWorker
    BY <2>1, NextInRange, <1>0 DEF TurnInv, Window
  <2>2. CASE ctl' = "diff" /\ reading' = <<curFile[turn], 0, 0>> /\ UNCHANGED turn
    BY <2>2, <1>3, <1>a DEF TurnInv, Window, LookAtFile, infoVars
  <2> QED  BY <1>3, <2>1, <2>2 DEF LookAtFile
<1>4. CASE LookAtOffset
  BY <1>4, <1>0, <1>a, <1>b DEF TypeOK, TurnInv, Window, LookAtOffset, infoVars, workVars,
     ctlVars, fileVars
<1>5. CASE ReadBlock
  BY <1>5, <1>0, <1>a, <1>b DEF TypeOK, TurnInv, Window, ReadBlock, infoVars, workVars, ctlVars,
     fileVars
<1>6. CASE PushBlock
  <2>0. <<reading[1], reading[3] + 1>> \in Blocks /\ vBuffer[turn] \in Seq(Blocks)
    BY <1>6, <1>0, <1>b DEF HandInv, PushBlock, Blocks
  <2>a. Append(vBuffer[turn], <<reading[1], reading[3] + 1>>) # <<>>
    BY <2>0, AppendFacts
  <2>1. /\ vBuffer'[turn] = Append(vBuffer[turn], <<reading[1], reading[3] + 1>>)
        /\ Append(vBuffer[turn], <<reading[1], reading[3] + 1>>) # <<>>
    BY <1>6, <2>a, <1>0, <1>b DEF PushBlock, SetBuffers
  <2>2. vBuffer'[turn] # <<>> /\ UNCHANGED <<status, curFile, offset, turn, reading>> /\ ctl' \in {"mark", "advance"} /\ ctl = "push"
    BY <1>6, <2>1, <1>b DEF PushBlock, SetBuffers
  <2> QED  BY <2>2, <1>0, <1>a DEF TurnInv, Window
<1>7. CASE MarkEnd
  BY <1>7, <1>0, <1>a, <1>b DEF TypeOK, TurnInv, Window, MarkEnd, SetStatus, infoVars, workVars,
     ctlVars, fileVars
<1>8. CASE Advance
  BY <1>8, <1>0, <1>a, <1>b DEF TypeOK, TurnInv, Window, Advance, SetOffset, NextWorker, infoVars,
     workVars, ctlVars, fileVars
<1>9. CASE WorkersDone
  BY <1>9, <1>0, <1>a, <1>b DEF TypeOK, TurnInv, Window, WorkersDone, infoVars, workVars, ctlVars,
     fileVars
<1>10. CASE JoinWorkers
  BY <1>10, <1>0, <1>a, <1>b DEF TypeOK, TurnInv, Window, JoinWorkers, infoVars, workVars,
     ctlVars, fileVars
<1> QED
  BY <1>0, <1>1, <1>2, <1>3, <1>4, <1>5, <1>6, <1>7, <1>8, <1>9, <1>10 DEF QuietController

LEMMA StatusByItself ==
  ASSUME TypeOK, HandInv, Quiet, Calm, NEW w \in Workers, TaskInv(w), Worker(w), QuietWorker(w), size' = size
  PROVE  StatusInv(w)'
<1> USE SaveAssumption DEF Workers
<1>0. UNCHANGED <<ctl, turn, reading, stopped>>
  BY FilesKept
<1>a. StatusInv(w) /\ ctl \notin {"null", "unset", "clear"}
  BY DEF Quiet, TurnInv
<1>1. CASE AskStopped(w)
  BY <1>1, <1>0, <1>a DEF TypeOK, HandInv, StatusInv, On, TaskInv, TaskPlaces, AskStopped, Goto,
     infoVars, workVars, ctlVars, fileVars
<1>2. CASE Look(w)
  <2>1. pc[w] = "look" /\ UNCHANGED <<infoVars, mine, block>>
    BY <1>2 DEF Look
  <2>2. \/ status[w] = "stop" /\ pc'[w] = "dead"
        \/ status[w] = "null" /\ pc'[w] = "task"
        \/ status[w] = "endfile" /\ pc'[w] = "drain"
        \/ status[w] = "continue" /\ pc'[w] = "work"
        \/ status[w] = "wait" /\ pc'[w] = "loop"
    BY <1>2 DEF Look, Goto, TypeOK
  <2> QED  BY <2>1, <2>2, <1>a DEF StatusInv, On, infoVars
<1>3. CASE AskTask(w)
  BY <1>3, <1>0, <1>a DEF TypeOK, HandInv, StatusInv, On, TaskInv, TaskPlaces, AskTask, Goto,
     infoVars, workVars, ctlVars, fileVars
<1>4. CASE WaitTask(w)
  BY <1>4, <1>0, <1>a DEF TypeOK, HandInv, StatusInv, On, TaskInv, TaskPlaces, WaitTask,
     SetStatus, Goto, infoVars, workVars, ctlVars, fileVars
<1>5. CASE TakeFile(w)
  BY <1>5, <1>0, <1>a DEF TypeOK, HandInv, StatusInv, On, TaskInv, TaskPlaces, TakeFile, Goto,
     infoVars, workVars, ctlVars, fileVars
<1>6. CASE NoFileLeft(w)
  BY <1>6, <1>0, <1>a DEF TypeOK, HandInv, StatusInv, On, TaskInv, TaskPlaces, NoFileLeft, Goto,
     infoVars, workVars, ctlVars, fileVars
<1>7. CASE Leave(w)
  BY <1>7, <1>0, <1>a DEF TypeOK, HandInv, StatusInv, On, TaskInv, TaskPlaces, Leave, SetStatus,
     Goto, infoVars, workVars, ctlVars, fileVars
<1>8. CASE AssignFile(w)
  BY <1>8, <1>0, <1>a DEF TypeOK, HandInv, StatusInv, On, TaskInv, TaskPlaces, AssignFile,
     SetFile, Goto, infoVars, workVars, ctlVars, fileVars
<1>9. CASE ResetOffset(w)
  BY <1>9, <1>0, <1>a DEF TypeOK, HandInv, StatusInv, On, TaskInv, TaskPlaces, ResetOffset,
     SetOffset, Goto, infoVars, workVars, ctlVars, fileVars
<1>10. CASE Go(w)
  BY <1>10, <1>0, <1>a DEF TypeOK, HandInv, StatusInv, On, TaskInv, TaskPlaces, Go, SetStatus,
     Goto, infoVars, workVars, ctlVars, fileVars
<1>11. CASE OpenFile(w)
  BY <1>11, <1>0, <1>a DEF TypeOK, HandInv, StatusInv, On, TaskInv, TaskPlaces, OpenFile, Goto,
     infoVars, workVars, ctlVars, fileVars
<1>12. CASE GetBlock(w)
  <2>1. pc[w] \in {"work", "drain"} /\ On(w) /\ UNCHANGED <<status, curFile, offset, mine>>
    BY <1>12, <1>a DEF GetBlock, StatusInv, SetBuffers, infoVars
  <2>2. CASE vBuffer[w] # <<>>
    <3>1. pc'[w] = IF pc[w] = "work" THEN "write" ELSE "lastwrite"
      BY <2>2, <1>12 DEF GetBlock, Goto, TypeOK
    <3> QED  BY <2>1, <3>1, <1>a DEF StatusInv, On
  <2>3. CASE vBuffer[w] = <<>>
    <3>1. pc'[w] = IF status[w] = "endfile" THEN "finish" ELSE IF pc[w] = "work" THEN "loop" ELSE "drain"
      BY <2>3, <1>12 DEF GetBlock, Goto, TypeOK
    <3>2. UNCHANGED <<vBuffer, block>>
      BY <2>3, <1>12 DEF GetBlock, infoVars
    <3> QED  BY <2>1, <2>3, <3>1, <3>2, <1>a DEF StatusInv, On
  <2> QED  BY <2>2, <2>3
<1>13. CASE Write(w)
  BY <1>13, <1>0, <1>a DEF TypeOK, HandInv, StatusInv, On, TaskInv, TaskPlaces, Write, Goto,
     infoVars, workVars, ctlVars, fileVars
<1>14. CASE FinishFile(w)
  BY <1>14, <1>0, <1>a DEF TypeOK, HandInv, StatusInv, On, TaskInv, TaskPlaces, FinishFile, Judge,
     Goto, infoVars, workVars, ctlVars, fileVars
<1>15. CASE EndStatus(w)
  BY <1>15, <1>0, <1>a DEF TypeOK, HandInv, StatusInv, On, TaskInv, TaskPlaces, EndStatus,
     SetStatus, Goto, infoVars, workVars, ctlVars, fileVars
<1>16. CASE EndFile(w)
  BY <1>16, <1>0, <1>a DEF TypeOK, HandInv, StatusInv, On, TaskInv, TaskPlaces, EndFile, SetFile,
     Goto, infoVars, workVars, ctlVars, fileVars
<1>17. CASE EndBuffers(w)
  BY <1>17, <1>0, <1>a DEF TypeOK, HandInv, StatusInv, On, TaskInv, TaskPlaces, EndBuffers,
     SetBuffers, Goto, infoVars, workVars, ctlVars, fileVars
<1> QED
  BY <1>0, <1>1, <1>2, <1>3, <1>4, <1>5, <1>6, <1>7, <1>8, <1>9, <1>10, <1>11, <1>12, <1>13,
     <1>14, <1>15, <1>16, <1>17 DEF QuietWorker

LEMMA StatusKept ==
  ASSUME NEW v \in Workers, StatusInv(v), Kept(v)
  PROVE  StatusInv(v)'
BY DEF StatusInv, On, Kept

LEMMA StatusByController ==
  ASSUME TypeOK, HandInv, Quiet, Calm, Controller, QuietController, size' = size, NEW v \in Workers, v = turn
  PROVE  StatusInv(v)'
<1> USE SaveAssumption DEF Workers
<1>0. UNCHANGED <<pc, mine, block, open, fileList, done, disk>> /\ turn \in Workers
  BY ControllerKept DEF TypeOK
<1>a. StatusInv(v) /\ TurnInv
  BY DEF Quiet
<1>1. CASE CtlLoop
  BY <1>1, <1>0, <1>a DEF TypeOK, StatusInv, On, TurnInv, Window, CtlLoop, infoVars, workVars,
     ctlVars, fileVars
<1>2. CASE CheckWorker
  BY <1>2, <1>0, <1>a DEF TypeOK, StatusInv, On, TurnInv, Window, CheckWorker, GoOn, NextWorker,
     infoVars, workVars, ctlVars, fileVars
<1>3. CASE LookAtFile
  BY <1>3, <1>0, <1>a DEF TypeOK, StatusInv, On, TurnInv, Window, LookAtFile, NextWorker,
     infoVars, workVars, ctlVars, fileVars
<1>4. CASE LookAtOffset
  BY <1>4, <1>0, <1>a DEF TypeOK, StatusInv, On, TurnInv, Window, LookAtOffset, infoVars,
     workVars, ctlVars, fileVars
<1>5. CASE ReadBlock
  BY <1>5, <1>0, <1>a DEF TypeOK, StatusInv, On, TurnInv, Window, ReadBlock, infoVars, workVars,
     ctlVars, fileVars
<1>6. CASE PushBlock
  BY <1>6, <1>0, <1>a DEF TypeOK, StatusInv, On, TurnInv, Window, PushBlock, SetBuffers, infoVars,
     workVars, ctlVars, fileVars
<1>7. CASE MarkEnd
  BY <1>7, <1>0, <1>a DEF TypeOK, StatusInv, On, TurnInv, Window, MarkEnd, SetStatus, infoVars,
     workVars, ctlVars, fileVars
<1>8. CASE Advance
  BY <1>8, <1>0, <1>a DEF TypeOK, StatusInv, On, TurnInv, Window, Advance, SetOffset, NextWorker,
     infoVars, workVars, ctlVars, fileVars
<1>9. CASE WorkersDone
  BY <1>9, <1>0, <1>a DEF TypeOK, StatusInv, On, TurnInv, Window, WorkersDone, infoVars, workVars,
     ctlVars, fileVars
<1>10. CASE JoinWorkers
  BY <1>10, <1>0, <1>a DEF TypeOK, StatusInv, On, TurnInv, Window, JoinWorkers, infoVars,
     workVars, ctlVars, fileVars
<1> QED
  BY <1>0, <1>1, <1>2, <1>3, <1>4, <1>5, <1>6, <1>7, <1>8, <1>9, <1>10 DEF QuietController


\* Opening a file does not change it: nothing has been written to it.
LEMMA OpenKeeps ==
  ASSUME TypeOK, HandInv, Quiet, NEW w \in Workers, TaskInv(w), OpenFile(w)
  PROVE  disk' = disk
<1>1. HasFile(w) /\ mine[w] \in Files
  BY OwnFile DEF OpenFile, Quiet, StatusInv
<1>2. disk[mine[w]] = <<>>
  BY <1>1 DEF OpenFile, Quiet, ApartInv
<1> QED  BY <1>1, <1>2 DEF OpenFile, TypeOK

\* A file that is finished while nothing fails is whole.
LEMMA WholeFile ==
  ASSUME TypeOK, HandInv, Quiet, NEW w \in Workers, TaskInv(w), pc[w] = "finish"
  PROVE  disk[mine[w]] = BlocksOf(mine[w]) /\ HashMatches(mine[w])
<1>1. mine[w] = curFile[w] /\ On(w) /\ mine[w] \in Files
  BY OwnFile DEF Quiet, StatusInv
<1>2. status[w] = "endfile" /\ vBuffer[w] = <<>> /\ InHand(w) = 0
  BY DEF Quiet, StatusInv, InHand
<1> DEFINE d == disk[mine[w]]
           s == size[mine[w]]
<1>3. d \in Seq(Blocks) /\ s \in Nat
  BY <1>1, SaveAssumption DEF TypeOK
<1>4. StreamInv(w)
  BY DEF Quiet
<1>5. Len(d) + 0 + Len(vBuffer[w]) = s /\ \A n \in 1..Len(d) : d[n] = <<mine[w], n>>
  BY <1>1, <1>2, <1>4, ZenonT(60) DEF StreamInv
<1>6. Len(d) = s
  BY <1>2, <1>3, <1>5
<1>7. d = BlocksOf(mine[w])
  <2>1. DOMAIN d = 1..Len(d) /\ d = [n \in DOMAIN d |-> d[n]]
    BY <1>3
  <2> HIDE DEF d, s
  <2>2. d = [n \in 1..s |-> <<mine[w], n>>]
    BY <2>1, <1>5, <1>6
  <2> QED  BY <2>2 DEF BlocksOf, s
<1>8. SubSeq(d, 1, s) = d
  BY <1>3, <1>6
<1> QED  BY <1>3, <1>6, <1>7, <1>8 DEF HashMatches

LEMMA FilesStill ==
  ASSUME NEW w \in Workers, QuietWorker(w), ~TakeFile(w), ~OpenFile(w), ~Write(w), ~FinishFile(w)
  PROVE  UNCHANGED fileVars
BY DEF QuietWorker, AskStopped, Look, AskTask, WaitTask, NoFileLeft, Leave, AssignFile,
   ResetOffset, Go, GetBlock, EndStatus, EndFile, EndBuffers

LEMMA JudgedByWorker ==
  ASSUME TypeOK, HandInv, Quiet, NEW w \in Workers, TaskInv(w), Worker(w), QuietWorker(w), size' = size
  PROVE  JudgedInv'
<1>1. CASE OpenFile(w)
  BY <1>1, OpenKeeps DEF OpenFile, Quiet, JudgedInv, BlocksOf
<1>2. CASE Write(w)
  <2>1. HasFile(w) /\ mine[w] \notin done
    BY <1>2, OwnFile DEF Write, Quiet, ApartInv, StatusInv
  <2>2. \A g \in done : g \in Files /\ disk'[g] = disk[g]
    BY <2>1, FilesKept DEF TypeOK
  <2> QED  BY <1>2, <2>2 DEF Write, Quiet, JudgedInv, BlocksOf
<1>3. CASE FinishFile(w)
  <2>1. disk[mine[w]] = BlocksOf(mine[w]) /\ HashMatches(mine[w])
    BY <1>3, WholeFile DEF FinishFile
  <2>2. done' = done \union {mine[w]} /\ told' = told /\ disk' = disk
    BY <1>3, <2>1 DEF FinishFile, Judge
  <2> QED  BY <2>1, <2>2 DEF Quiet, JudgedInv, BlocksOf
<1>4. CASE TakeFile(w) \/ UNCHANGED fileVars
  BY <1>4 DEF TakeFile, fileVars, Quiet, JudgedInv, BlocksOf
<1> QED  BY <1>1, <1>2, <1>3, <1>4, FilesStill

LEMMA JudgedByController ==
  ASSUME TypeOK, HandInv, Quiet, Calm, Controller, QuietController, size' = size
  PROVE  JudgedInv'
<1>1. UNCHANGED fileVars
  BY DEF QuietController, CtlLoop, CheckWorker, LookAtFile, LookAtOffset, ReadBlock, PushBlock,
     MarkEnd, Advance, WorkersDone, JoinWorkers
<1> QED  BY <1>1 DEF fileVars, Quiet, JudgedInv, BlocksOf

Fresh == {"assign", "reset", "go", "open"}
Ended == {"null", "unset"}
Remains(v) ==
  HasFile(v)' =>
    /\ HasFile(v) /\ mine'[v] = mine[v]
    /\ pc'[v] \in Fresh => pc[v] \in Fresh
    /\ pc[v] \in Ended => pc'[v] \in Ended

LEMMA ApartFrame ==
  ASSUME ApartInv, UNCHANGED <<fileList, done, disk>>, \A v \in Workers : Remains(v)
  PROVE  ApartInv'
BY DEF ApartInv, Remains, Fresh, Ended

LEMMA OthersRemain ==
  ASSUME TypeOK, NEW w \in Workers, Worker(w), NEW v \in Workers, v # w
  PROVE  Remains(v) /\ (HasFile(v)' <=> HasFile(v))
BY OthersKept DEF Remains, HasFile, Kept, Fresh, Ended

LEMMA Remained ==
  ASSUME TypeOK, HandInv, Quiet, NEW w \in Workers, TaskInv(w), QuietWorker(w),
         ~TakeFile(w), ~Write(w), ~FinishFile(w)
  PROVE  Remains(w)
<1>0. StatusInv(w) /\ ctl # "unset"
  BY DEF Quiet, TurnInv
<1>1. CASE AskStopped(w)
  BY <1>1, <1>0 DEF TypeOK, HasFile, Remains, Fresh, Ended, StatusInv, On, TaskInv, TaskPlaces,
     AskStopped, Goto, infoVars, workVars, ctlVars, fileVars
<1>2. CASE Look(w)
  <2>1. pc[w] = "look" /\ UNCHANGED <<infoVars, mine>>
    BY <1>2 DEF Look
  <2>2. pc'[w] \in {"dead", "task", "drain", "work", "loop"}
    BY <1>2 DEF Look, Goto, TypeOK
  <2> QED  BY <2>1, <2>2 DEF Remains, HasFile, Fresh, Ended, infoVars
<1>3. CASE AskTask(w)
  BY <1>3, <1>0 DEF TypeOK, HasFile, Remains, Fresh, Ended, StatusInv, On, TaskInv, TaskPlaces,
     AskTask, Goto, infoVars, workVars, ctlVars, fileVars
<1>4. CASE WaitTask(w)
  BY <1>4, <1>0 DEF TypeOK, HasFile, Remains, Fresh, Ended, StatusInv, On, TaskInv, TaskPlaces,
     WaitTask, SetStatus, Goto, infoVars, workVars, ctlVars, fileVars
<1>5. CASE NoFileLeft(w)
  BY <1>5, <1>0 DEF TypeOK, HasFile, Remains, Fresh, Ended, StatusInv, On, TaskInv, TaskPlaces,
     NoFileLeft, Goto, infoVars, workVars, ctlVars, fileVars
<1>6. CASE Leave(w)
  BY <1>6, <1>0 DEF TypeOK, HasFile, Remains, Fresh, Ended, StatusInv, On, TaskInv, TaskPlaces,
     Leave, SetStatus, Goto, infoVars, workVars, ctlVars, fileVars
<1>7. CASE AssignFile(w)
  BY <1>7, <1>0 DEF TypeOK, HasFile, Remains, Fresh, Ended, StatusInv, On, TaskInv, TaskPlaces,
     AssignFile, SetFile, Goto, infoVars, workVars, ctlVars, fileVars
<1>8. CASE ResetOffset(w)
  BY <1>8, <1>0 DEF TypeOK, HasFile, Remains, Fresh, Ended, StatusInv, On, TaskInv, TaskPlaces,
     ResetOffset, SetOffset, Goto, infoVars, workVars, ctlVars, fileVars
<1>9. CASE Go(w)
  BY <1>9, <1>0 DEF TypeOK, HasFile, Remains, Fresh, Ended, StatusInv, On, TaskInv, TaskPlaces,
     Go, SetStatus, Goto, infoVars, workVars, ctlVars, fileVars
<1>10. CASE OpenFile(w)
  BY <1>10, <1>0 DEF TypeOK, HasFile, Remains, Fresh, Ended, StatusInv, On, TaskInv, TaskPlaces,
     OpenFile, Goto, infoVars, workVars, ctlVars, fileVars
<1>11. CASE GetBlock(w)
  <2>1. pc[w] \in {"work", "drain"} /\ UNCHANGED <<curFile, mine>>
    BY <1>11 DEF GetBlock, SetBuffers, infoVars
  <2>2. pc'[w] \in {"finish", "write", "lastwrite", "drain", "loop"}
    BY <1>11 DEF GetBlock, Goto, TypeOK
  <2> QED  BY <1>0, <2>1, <2>2 DEF StatusInv, On, Remains, HasFile, Fresh, Ended
<1>12. CASE EndStatus(w)
  BY <1>12, <1>0 DEF TypeOK, HasFile, Remains, Fresh, Ended, StatusInv, On, TaskInv, TaskPlaces,
     EndStatus, SetStatus, Goto, infoVars, workVars, ctlVars, fileVars
<1>13. CASE EndFile(w)
  BY <1>13, <1>0 DEF TypeOK, HasFile, Remains, Fresh, Ended, StatusInv, On, TaskInv, TaskPlaces,
     EndFile, SetFile, Goto, infoVars, workVars, ctlVars, fileVars
<1>14. CASE EndBuffers(w)
  BY <1>14, <1>0 DEF TypeOK, HasFile, Remains, Fresh, Ended, StatusInv, On, TaskInv, TaskPlaces,
     EndBuffers, SetBuffers, Goto, infoVars, workVars, ctlVars, fileVars
<1> QED
  BY <1>0, <1>1, <1>2, <1>3, <1>4, <1>5, <1>6, <1>7, <1>8, <1>9, <1>10, <1>11, <1>12, <1>13, <1>14
     DEF
    QuietWorker

LEMMA ApartByWorker ==
  ASSUME TypeOK, HandInv, Quiet, \A v \in Workers : TaskInv(v),
         NEW w \in Workers, Worker(w), QuietWorker(w)
  PROVE  ApartInv'
<1>a. ApartInv
  BY DEF Quiet
<1>1. CASE TakeFile(w)
  <2>1. PICK f \in fileList : fileList' = fileList \ {f} /\ mine' = [mine EXCEPT ![w] = f]
    BY <1>1 DEF TakeFile
  <2>2. UNCHANGED <<done, disk, curFile>> /\ mine'[w] = f /\ pc'[w] = "assign"
    BY <1>1, <2>1 DEF TakeFile, Goto, TypeOK, infoVars
  <2>3. \A v \in Workers : v # w => mine'[v] = mine[v] /\ pc'[v] = pc[v] /\ (HasFile(v)' <=> HasFile(v))
    BY OthersKept, OthersRemain DEF Kept
  <2>4. ASSUME NEW v \in Workers, HasFile(v)'
        PROVE  /\ mine'[v] \notin fileList'
               /\ pc'[v] \notin Ended => mine'[v] \notin done'
               /\ pc'[v] \in Fresh => disk'[mine'[v]] = <<>>
               /\ \A u \in Workers : HasFile(u)' /\ mine'[u] = mine'[v] => u = v
    <3>1. CASE v = w
      BY <3>1, <1>a, <2>1, <2>2, <2>3 DEF ApartInv
    <3>2. CASE v # w
      BY <3>2, <1>a, <2>1, <2>2, <2>3, <2>4 DEF ApartInv, Fresh, Ended
    <3> QED  BY <3>1, <3>2
  <2>5. \A f1 \in fileList' : f1 \notin done' /\ disk'[f1] = <<>>
    BY <1>a, <2>1, <2>2 DEF ApartInv
  <2> QED  BY <2>4, <2>5 DEF ApartInv, Fresh, Ended
<1>2. CASE Write(w)
  <2>1. HasFile(w) /\ mine[w] \in Files /\ curFile[w] # NoFile
    BY <1>2, OwnFile DEF Write, Quiet, StatusInv, On
  <2>2. UNCHANGED <<fileList, done, curFile, mine>> /\ pc'[w] \in {"loop", "drain"} /\ pc[w] \in {"write", "lastwrite"}
    BY <1>2 DEF Write, Goto, TypeOK, infoVars
  <2>3. \A v \in Workers : v # w => pc'[v] = pc[v] /\ (HasFile(v)' <=> HasFile(v))
    BY OthersKept, OthersRemain DEF Kept
  <2>4. \A g \in Files : g # mine[w] => disk'[g] = disk[g]
    BY FilesKept
  <2>5. ASSUME NEW v \in Workers, HasFile(v)'
        PROVE  /\ mine'[v] \notin fileList'
               /\ pc'[v] \notin Ended => mine'[v] \notin done'
               /\ pc'[v] \in Fresh => disk'[mine'[v]] = <<>>
               /\ \A u \in Workers : HasFile(u)' /\ mine'[u] = mine'[v] => u = v
    <3>0. \A u \in Workers : HasFile(u)' <=> HasFile(u)
      BY <2>1, <2>2, <2>3 DEF HasFile
    <3>1. CASE v = w
      BY <3>0, <3>1, <1>a, <2>1, <2>2 DEF ApartInv, Fresh, Ended
    <3>2. CASE v # w
      <4>1. HasFile(v) /\ mine[v] # mine[w] /\ mine[v] \in Files /\ pc'[v] = pc[v]
        BY <3>0, <3>2, <2>1, <2>3, <2>5, <1>a, OwnFile DEF ApartInv
      <4>2. disk'[mine[v]] = disk[mine[v]]
        BY <4>1, <2>4
      <4> QED  BY <3>0, <4>1, <4>2, <1>a, <2>2 DEF ApartInv, Fresh, Ended
    <3> QED  BY <3>1, <3>2
  <2>6. \A g \in fileList' : g \notin done' /\ disk'[g] = <<>>
    BY <1>a, <2>1, <2>2, <2>4 DEF ApartInv, TypeOK
  <2> QED  BY <2>5, <2>6 DEF ApartInv, Fresh, Ended
<1>3. CASE FinishFile(w)
  <2>1. HasFile(w) /\ mine[w] \in Files /\ curFile[w] # NoFile
    BY <1>3, OwnFile DEF FinishFile, Quiet, StatusInv, On
  <2>2. UNCHANGED <<fileList, curFile, mine, disk>> /\ pc'[w] = "null" /\ done' \subseteq done \union {mine[w]}
    BY <1>3 DEF FinishFile, Judge, Goto, TypeOK, infoVars
  <2>3. \A v \in Workers : v # w => pc'[v] = pc[v] /\ (HasFile(v)' <=> HasFile(v))
    BY OthersKept, OthersRemain DEF Kept
  <2>4. \A u \in Workers : HasFile(u)' <=> HasFile(u)
    BY <2>1, <2>2, <2>3 DEF HasFile
  <2>5. ASSUME NEW v \in Workers, HasFile(v)'
        PROVE  /\ mine'[v] \notin fileList'
               /\ pc'[v] \notin Ended => mine'[v] \notin done'
               /\ pc'[v] \in Fresh => disk'[mine'[v]] = <<>>
               /\ \A u \in Workers : HasFile(u)' /\ mine'[u] = mine'[v] => u = v
    <3>1. CASE v = w
      BY <3>1, <1>a, <2>1, <2>2, <2>4 DEF ApartInv, Fresh, Ended
    <3>2. CASE v # w
      <4>1. HasFile(v) /\ mine[v] # mine[w] /\ pc'[v] = pc[v]
        BY <3>2, <2>1, <2>3, <2>5, <1>a DEF ApartInv
      <4> QED  BY <4>1, <1>a, <2>2, <2>4 DEF ApartInv, Fresh, Ended
    <3> QED  BY <3>1, <3>2
  <2>6. \A g \in fileList' : g \notin done' /\ disk'[g] = <<>>
    BY <1>a, <2>1, <2>2 DEF ApartInv
  <2> QED  BY <2>5, <2>6 DEF ApartInv, Fresh, Ended
<1>4. CASE ~TakeFile(w) /\ ~Write(w) /\ ~FinishFile(w)
  <2>1. UNCHANGED <<fileList, done, disk>>
    BY <1>4, FilesStill, OpenKeeps DEF fileVars, OpenFile
  <2>2. \A v \in Workers : Remains(v)
    BY <1>4, Remained, OthersRemain
  <2> QED  BY <1>a, <2>1, <2>2, ApartFrame
<1> QED  BY <1>1, <1>2, <1>3, <1>4

LEMMA ApartByController ==
  ASSUME TypeOK, HandInv, Quiet, Controller, QuietController
  PROVE  ApartInv'
<1>1. UNCHANGED <<fileList, done, disk, pc, mine>>
  BY ControllerKept
<1>2. curFile' = curFile
  BY DEF QuietController, SetStatus, SetOffset, SetBuffers, infoVars, CtlLoop, CheckWorker,
     LookAtFile, LookAtOffset, ReadBlock, PushBlock, MarkEnd, Advance, WorkersDone, JoinWorkers
<1> QED  BY <1>1, <1>2 DEF ApartInv, HasFile, Quiet

(***************************************************************************)
(* The blocks of one worker.  A step that leaves them alone, in it or in   *)
(* another worker, keeps their order.                                      *)
(***************************************************************************)
Same(v) ==
  /\ On(v)
  /\ curFile'[v] = curFile[v] /\ status'[v] = status[v] /\ Read(v)' = Read(v)
  /\ vBuffer'[v] = vBuffer[v] /\ block'[v] = block[v]
  /\ InHand(v)' = InHand(v) /\ Marking(v)' = Marking(v)
  /\ disk'[curFile[v]] = disk[curFile[v]]
  /\ size' = size

LEMMA StreamFrame ==
  ASSUME NEW v \in Workers, StreamInv(v), On(v)' => Same(v)
  PROVE  StreamInv(v)'
BY DEF StreamInv, Same

LEMMA StreamIs ==
  ASSUME NEW w \in Workers, NEW f, curFile'[w] = f,
         /\ Len(disk'[f]) + InHand(w)' + Len(vBuffer'[w]) = Read(w)'
         /\ Read(w)' <= size'[f] /\ ((status'[w] = "endfile" \/ Marking(w)') <=> Read(w)' = size'[f])
         /\ \A n \in 1..Len(disk'[f]) : disk'[f][n] = <<f, n>>
         /\ InHand(w)' = 1 => block'[w] = <<f, Len(disk'[f]) + 1>>
         /\ \A n \in 1..Len(vBuffer'[w]) : vBuffer'[w][n] = <<f, Len(disk'[f]) + InHand(w)' + n>>
  PROVE  StreamInv(w)'
BY DEF StreamInv

LEMMA OthersSame ==
  ASSUME TypeOK, HandInv, Quiet, \A v \in Workers : TaskInv(v), size' = size,
         NEW w \in Workers, Worker(w), QuietWorker(w), NEW v \in Workers, v # w, On(v)'
  PROVE  Same(v)
<1>1. Kept(v) /\ UNCHANGED <<ctl, turn>>
  BY OthersKept, FilesKept
<1>2. On(v) /\ InHand(v)' = InHand(v) /\ Read(v)' = Read(v) /\ Marking(v)' = Marking(v)
  BY <1>1 DEF Kept, On, InHand, Read, Locked, Marking
<1>3. HasFile(v) /\ curFile[v] = mine[v] /\ mine[v] \in Files
  BY <1>2, OwnFile
<1>4. disk'[curFile[v]] = disk[curFile[v]]
  <2>1. CASE Write(w)
    <3>1. HasFile(w)
      BY <2>1 DEF Write, Quiet, StatusInv, On, HasFile
    <3>2. mine[v] # mine[w]
      BY <3>1, <1>3 DEF Quiet, ApartInv
    <3> QED  BY <3>2, <1>3, FilesKept
  <2>2. CASE ~Write(w)
    <3>1. disk' = disk
      BY <2>2, FilesStill, OpenKeeps DEF fileVars, TakeFile, FinishFile, Judge
    <3> QED  BY <3>1
  <2> QED  BY <2>1, <2>2
<1> QED  BY <1>1, <1>2, <1>4 DEF Same, Kept

LEMMA OwnStream ==
  ASSUME TypeOK, HandInv, Quiet, Calm, NEW w \in Workers, TaskInv(w), Worker(w), QuietWorker(w), size' = size
  PROVE  StreamInv(w)'
<1> DEFINE f == curFile[w]
<1>1. /\ UNCHANGED <<ctl, turn>> /\ (ctl \in {"mark", "advance"} => vBuffer[turn] # <<>>) /\ ctl # "unset"
      /\ On(w) => f \in Files /\ mine[w] = f /\ disk[f] \in Seq(Blocks) /\ size[f] \in Nat \ {0}
  BY SaveAssumption, OwnFile, FilesKept DEF TypeOK, Quiet, TurnInv, Calm, NoneEmpty
<1>2. StreamInv(w) /\ StatusInv(w) /\ vBuffer[w] \in Seq(Blocks) /\ offset[w] \in Nat /\ Read(w) \in Nat
  BY DEF Quiet, TypeOK, Read
<1>a. offset'[w] = offset[w] => Read(w)' = Read(w) /\ Marking(w)' = Marking(w)
  BY <1>1 DEF Read, Locked, Marking
<1>3. CASE AskStopped(w) \/ Look(w) \/ FinishFile(w)
  <2>1. UNCHANGED <<status, curFile, offset, vBuffer, block>> /\ (~FinishFile(w) => UNCHANGED disk)
    BY <1>3 DEF AskStopped, Look, FinishFile, infoVars, fileVars
  <2>2. UNCHANGED disk
    BY <2>1 DEF FinishFile, Judge
  <2>3. pc[w] \in {"loop", "look", "finish"} /\ pc'[w] \in {"loop", "look", "task", "drain", "work", "dead", "null"}
    BY <1>3 DEF AskStopped, Look, FinishFile, Goto, TypeOK
  <2>4. On(w)' => Same(w)
    BY <2>1, <2>2, <2>3, <1>a DEF Same, On, InHand
  <2> QED  BY <2>4, <1>2, StreamFrame
<1>4. CASE \/ AskTask(w) \/ WaitTask(w) \/ TakeFile(w) \/ NoFileLeft(w) \/ Leave(w) \/ AssignFile(w)
           \/ ResetOffset(w) \/ EndStatus(w) \/ EndFile(w) \/ EndBuffers(w)
  <2>1. pc'[w] \in {"reset", "go", "unset"} \/ curFile'[w] = NoFile
    <3>1. pc[w] \in {"task", "take", "pop", "leave", "clear"} => curFile[w] = NoFile
      BY <1>1, <1>2 DEF TaskInv, TaskPlaces
    <3> QED  BY <1>4, <3>1 DEF TypeOK, Goto, infoVars, SetStatus, SetFile, SetOffset, SetBuffers,
               AskTask, WaitTask, TakeFile, NoFileLeft, Leave, AssignFile, ResetOffset, EndStatus, EndFile, EndBuffers
  <2> QED  BY <2>1 DEF StreamInv, On
<1>5. CASE Go(w)
  <2>1. /\ f \in Files /\ size[f] \in Nat \ {0} /\ mine[w] = f /\ HasFile(w)
        /\ vBuffer[w] = <<>> /\ offset[w] = 0 /\ ~Locked(w) /\ ~Marking(w)
    BY <1>5, <1>1, <1>2, OwnFile, SaveAssumption
    DEF TypeOK, Go, StatusInv, On, HasFile, Locked, Marking, Calm, NoneEmpty
  <2>2. /\ curFile'[w] = f /\ status'[w] = "continue" /\ pc'[w] = "open" /\ disk' = disk
        /\ offset'[w] = offset[w] /\ vBuffer'[w] = vBuffer[w]
    BY <1>5 DEF TypeOK, Go, Goto, SetStatus, fileVars
  <2>3. disk[f] = <<>> /\ Read(w)' = 0 /\ ~Marking(w)'
    BY <1>5, <1>a, <2>1, <2>2 DEF Go, Quiet, ApartInv, Read
  <2>4. InHand(w)' = 0
    BY <2>2 DEF InHand
  <2> QED  BY <2>1, <2>2, <2>3, <2>4 DEF StreamInv
<1>6. CASE OpenFile(w)
  <2>1. disk' = disk /\ UNCHANGED <<status, curFile, offset, vBuffer, block>> /\ pc[w] = "open" /\ pc'[w] = "loop"
    BY <1>6, OpenKeeps DEF OpenFile, Goto, TypeOK, infoVars
  <2>2. Same(w)
    BY <2>1, <1>2, <1>a DEF Same, StatusInv, InHand
  <2> QED  BY <2>2, <1>2, StreamFrame
<1>7. CASE GetBlock(w)
  <2>1. On(w) /\ InHand(w) = 0
    BY <1>7, <1>2 DEF GetBlock, StatusInv, InHand
  <2>2. /\ curFile'[w] = f /\ status'[w] = status[w] /\ offset'[w] = offset[w] /\ disk' = disk
    BY <1>7 DEF GetBlock, fileVars, SetBuffers, infoVars
  <2>a. Read(w)' = Read(w) /\ Marking(w)' = Marking(w)
    BY <1>a, <2>2
  <2>3. CASE vBuffer[w] = <<>>
    <3>1. vBuffer' = vBuffer /\ block' = block /\ pc'[w] \in {"finish", "loop", "drain"}
      BY <2>1, <2>3, <1>1, <1>7 DEF GetBlock, Goto, TypeOK, infoVars
    <3>2. Same(w)
      BY <3>1, <2>1, <2>2, <2>a DEF Same, InHand
    <3> QED  BY <3>2, <1>2, StreamFrame
  <2>4. CASE vBuffer[w] # <<>>
    <3> DEFINE d == Len(disk[f])
               b == Len(vBuffer[w])
    <3>1. /\ vBuffer'[w] = Tail(vBuffer[w]) /\ block'[w] = Head(vBuffer[w])
          /\ pc'[w] \in {"write", "lastwrite"}
      BY <2>1, <2>4, <1>1, <1>7 DEF GetBlock, Goto, TypeOK, SetBuffers
    <3>2. InHand(w)' = 1
      BY <3>1 DEF InHand
    <3>3. /\ b \in Nat \ {0} /\ Len(Tail(vBuffer[w])) = b - 1
          /\ Head(vBuffer[w]) = vBuffer[w][1]
          /\ \A n \in 1..(b - 1) : Tail(vBuffer[w])[n] = vBuffer[w][n + 1]
      BY <2>4, <1>2, TailFacts
    <3>4. d \in Nat
      BY <1>1, <2>1
    <3>5. /\ d + 0 + b = Read(w)
          /\ Read(w) <= size[f] /\ ((status[w] = "endfile" \/ Marking(w)) <=> Read(w) = size[f])
          /\ \A n \in 1..d : disk[f][n] = <<f, n>>
          /\ \A n \in 1..b : vBuffer[w][n] = <<f, d + 0 + n>>
      BY <2>1, <1>2 DEF StreamInv
    <3>6. \A g : g = f => Len(disk'[g]) = d /\ \A n \in 1..d : disk'[g][n] = disk[f][n]
      BY <2>2
    <3> HIDE DEF f, d, b
    <3>7. d + 1 + (b - 1) = Read(w) /\ 1 \in 1..b /\ d + 0 + 1 = d + 1
      BY <3>3, <3>4, <3>5, SMTT(60)
    <3>8. block'[w] = <<f, d + 1>>
      BY <3>1, <3>3, <3>5, <3>7
    <3>9. \A n \in 1..(b - 1) : n + 1 \in 1..b /\ d + 0 + (n + 1) = d + 1 + n
      BY <3>3, <3>4
    <3>10. \A n \in 1..(b - 1) : Tail(vBuffer[w])[n] = <<f, d + 1 + n>>
      BY <3>9, <3>3, <3>5
    <3>11. /\ Len(disk'[f]) = d /\ Len(vBuffer'[w]) = b - 1
           /\ Read(w) <= size'[f] /\ ((status'[w] = "endfile" \/ Marking(w)') <=> Read(w) = size'[f])
           /\ \A n \in 1..d : disk'[f][n] = <<f, n>>
           /\ \A n \in 1..(b - 1) : vBuffer'[w][n] = <<f, d + 1 + n>>
      BY <3>1, <3>3, <3>5, <3>6, <3>10, <2>2, <2>a
    <3>12. /\ Len(disk'[f]) + InHand(w)' + Len(vBuffer'[w]) = Read(w)'
           /\ Read(w)' <= size'[f] /\ ((status'[w] = "endfile" \/ Marking(w)') <=> Read(w)' = size'[f])
           /\ \A n \in 1..Len(disk'[f]) : disk'[f][n] = <<f, n>>
           /\ InHand(w)' = 1 => block'[w] = <<f, Len(disk'[f]) + 1>>
           /\ \A n \in 1..Len(vBuffer'[w]) : vBuffer'[w][n] = <<f, Len(disk'[f]) + InHand(w)' + n>>
      BY <3>2, <3>7, <3>8, <3>11, <2>a
    <3> QED  BY <3>12, <2>2, StreamIs
  <2> QED  BY <2>3, <2>4
<1>8. CASE Write(w)
  <2>1. On(w) /\ InHand(w) = 1 /\ block[w] \in Blocks
    BY <1>8, <1>2 DEF Write, StatusInv, InHand, HandInv
  <2>2. /\ curFile'[w] = f /\ status'[w] = status[w] /\ offset'[w] = offset[w]
        /\ vBuffer'[w] = vBuffer[w] /\ pc'[w] \in {"loop", "drain"}
    BY <1>8 DEF TypeOK, Write, Goto, infoVars
  <2>3. disk'[f] = Append(disk[f], block[w])
    BY <2>1, <1>1, <1>8 DEF TypeOK, Write
  <2>a. Read(w)' = Read(w) /\ Marking(w)' = Marking(w)
    BY <1>a, <2>2
  <2> DEFINE d == Len(disk[f])
             b == Len(vBuffer[w])
  <2>4. /\ d + 1 + b = Read(w)
        /\ Read(w) <= size[f] /\ ((status[w] = "endfile" \/ Marking(w)) <=> Read(w) = size[f])
        /\ \A n \in 1..d : disk[f][n] = <<f, n>>
        /\ block[w] = <<f, d + 1>>
        /\ \A n \in 1..b : vBuffer[w][n] = <<f, d + 1 + n>>
    BY <2>1, <1>2 DEF StreamInv
  <2>5. /\ Len(disk'[f]) = d + 1
        /\ \A n \in 1..d : disk'[f][n] = disk[f][n]
        /\ disk'[f][d + 1] = block[w]
    BY <2>1, <2>3, <1>1, AppendFacts
  <2>6. d \in Nat /\ b \in Nat
    BY <1>1, <1>2, <2>1
  <2>7. InHand(w)' = 0
    BY <2>2 DEF InHand
  <2>9. Len(vBuffer[w]) = b
    OBVIOUS
  <2> HIDE DEF f, d, b
  <2>10. \A n \in 1..(d + 1) : disk'[f][n] = <<f, n>>
    <3>1. \A n \in 1..(d + 1) : n \in 1..d \/ n = d + 1
      BY <2>6
    <3> QED  BY <3>1, <2>4, <2>5
  <2>11. d + 1 + 0 + b = Read(w) /\ \A n \in 1..b : d + 1 + 0 + n = d + 1 + n
    BY <2>4, <2>6
  <2>12. \A n \in 1..b : vBuffer[w][n] = <<f, d + 1 + 0 + n>>
    BY <2>4, <2>11
  <2>13. /\ Len(disk'[f]) = d + 1 /\ Len(vBuffer'[w]) = b
         /\ Read(w)' <= size'[f] /\ ((status'[w] = "endfile" \/ Marking(w)') <=> Read(w)' = size'[f])
         /\ \A n \in 1..b : vBuffer'[w][n] = <<f, d + 1 + 0 + n>>
    BY <2>2, <2>4, <2>5, <2>9, <2>12, <2>a
  <2>14. /\ Len(disk'[f]) + InHand(w)' + Len(vBuffer'[w]) = Read(w)'
         /\ \A n \in 1..Len(disk'[f]) : disk'[f][n] = <<f, n>>
         /\ \A n \in 1..Len(vBuffer'[w]) : vBuffer'[w][n] = <<f, Len(disk'[f]) + InHand(w)' + n>>
    BY <2>a, <2>7, <2>10, <2>11, <2>13
  <2>15. InHand(w)' = 1 => block'[w] = <<f, Len(disk'[f]) + 1>>
    BY <2>7
  <2> QED  BY <2>2, <2>13, <2>14, <2>15, StreamIs
<1> QED  BY <1>3, <1>4, <1>5, <1>6, <1>7, <1>8 DEF QuietWorker

LEMMA PushedStream ==
  ASSUME TypeOK, HandInv, Quiet, Calm, PushBlock, UNCHANGED <<size, workVars>>, NEW v \in Workers, v = turn
  PROVE  StreamInv(v)'
<1> DEFINE f == curFile[v]
           d == Len(disk[f]) + InHand(v)
           b == Len(vBuffer[v])
<1>1. /\ reading[1] = f /\ reading[2] = offset[v] /\ reading[3] = offset[v] /\ f \in Files
      /\ status[v] = "continue" /\ disk[f] \in Seq(Blocks) /\ vBuffer[v] \in Seq(Blocks)
      /\ offset[v] \in Nat /\ size[f] \in Nat \ {0} /\ offset[v] < size[f] /\ ctl = "push"
  BY ReadsOn DEF TypeOK, Quiet, TurnInv, Window, PushBlock
<1>2. On(v) /\ StreamInv(v) /\ Read(v) = offset[v] /\ ~Marking(v)
  BY <1>1 DEF Quiet, StatusInv, Read, Locked, Marking
<1>3. /\ curFile'[v] = f /\ pc' = pc /\ block' = block /\ disk' = disk
      /\ vBuffer'[v] = Append(vBuffer[v], <<f, offset[v] + 1>>)
      /\ offset'[v] = offset[v] /\ status'[v] = "continue" /\ turn' = turn
      /\ ctl' = IF offset[v] + 1 = size[f] THEN "mark" ELSE "advance"
  BY <1>1 DEF TypeOK, PushBlock, SetBuffers, workVars, fileVars
<1>4. InHand(v)' = InHand(v) /\ InHand(v) \in {0, 1}
  BY <1>3 DEF InHand
<1>5. /\ d + b = offset[v]
      /\ \A n \in 1..Len(disk[f]) : disk[f][n] = <<f, n>>
      /\ InHand(v) = 1 => block[v] = <<f, Len(disk[f]) + 1>>
      /\ \A n \in 1..b : vBuffer[v][n] = <<f, d + n>>
  BY <1>1, <1>2 DEF StreamInv
<1>6. <<f, offset[v] + 1>> \in Blocks
  BY <1>1 DEF Blocks
<1>7. /\ Len(vBuffer'[v]) = b + 1
      /\ \A n \in 1..b : vBuffer'[v][n] = vBuffer[v][n]
      /\ vBuffer'[v][b + 1] = <<f, offset[v] + 1>>
  BY <1>1, <1>3, <1>6, AppendFacts
<1>8. d \in Nat /\ b \in Nat
  BY <1>1, <1>4
<1>9. Len(disk[f]) + InHand(v) = d
  OBVIOUS
<1>10. Read(v)' = offset[v] + 1 /\ (Marking(v)' <=> offset[v] + 1 = size[f])
  BY <1>3 DEF Read, Locked, Marking
<1> HIDE DEF f, d, b
<1>11. \A n \in 1..(b + 1) : vBuffer'[v][n] = <<f, d + n>>
  <2>1. d + (b + 1) = offset[v] + 1
    BY <1>5, <1>8, <1>1
  <2>2. \A n \in 1..(b + 1) : n \in 1..b \/ n = b + 1
    BY <1>8
  <2> QED  BY <2>1, <2>2, <1>5, <1>7
<1>12. d + (b + 1) = offset[v] + 1 /\ offset[v] + 1 <= size[f]
  BY <1>1, <1>5, <1>8
<1> QED
  <2>1. ASSUME NEW g, g = f PROVE Len(disk'[g]) + InHand(v)' = d
    BY <2>1, <1>3, <1>4, <1>9
  <2>2. disk'[f] = disk[f] /\ Len(disk'[f]) + InHand(v)' = d
    BY <2>1, <1>3
  <2>3. /\ Len(disk'[f]) + InHand(v)' + Len(vBuffer'[v]) = Read(v)'
        /\ Read(v)' <= size'[f] /\ ((status'[v] = "endfile" \/ Marking(v)') <=> Read(v)' = size'[f])
        /\ \A n \in 1..Len(vBuffer'[v]) : vBuffer'[v][n] = <<f, Len(disk'[f]) + InHand(v)' + n>>
    BY <2>2, <1>3, <1>7, <1>10, <1>11, <1>12
  <2>4. /\ \A n \in 1..Len(disk'[f]) : disk'[f][n] = <<f, n>>
        /\ InHand(v)' = 1 => block'[v] = <<f, Len(disk'[f]) + 1>>
    BY <2>2, <1>3, <1>4, <1>5
  <2> QED  BY <2>3, <2>4, <1>3, StreamIs

LEMMA StreamByController ==
  ASSUME TypeOK, HandInv, Quiet, Calm, Controller, QuietController, size' = size, NEW v \in Workers
  PROVE  StreamInv(v)'
<1>0. UNCHANGED <<pc, mine, block, disk>> /\ UNCHANGED workVars /\ turn \in Workers /\ StreamInv(v)
  BY ControllerKept DEF TypeOK, Quiet, Controller
<1>1. CASE PushBlock /\ v = turn
  BY <1>0, <1>1, PushedStream
<1>2. CASE MarkEnd /\ v = turn
  <2>1. /\ curFile'[v] = curFile[v] /\ vBuffer'[v] = vBuffer[v] /\ offset'[v] = offset[v]
        /\ status'[v] = "endfile" /\ turn' = turn /\ ctl = "mark" /\ ctl' = "advance"
    BY <1>0, <1>2 DEF MarkEnd, SetStatus, TypeOK
  <2>2. Read(v)' = Read(v) /\ Marking(v) /\ InHand(v)' = InHand(v) /\ (On(v)' <=> On(v))
    BY <1>0, <1>2, <2>1 DEF Read, Locked, Marking, InHand, On
  <2> QED  BY <1>0, <2>1, <2>2 DEF StreamInv
<1>3. CASE Advance /\ v = turn
  <2>1. /\ curFile'[v] = curFile[v] /\ vBuffer'[v] = vBuffer[v] /\ status'[v] = status[v]
        /\ offset'[v] = offset[v] + 1 /\ ctl = "advance" /\ ctl' \notin {"mark", "advance"}
    BY <1>0, <1>3, NextInRange DEF Advance, SetOffset, TypeOK
  <2>2. Read(v)' = Read(v) /\ Marking(v)' = Marking(v) /\ InHand(v)' = InHand(v) /\ (On(v)' <=> On(v))
    BY <1>0, <1>3, <2>1 DEF Read, Locked, Marking, InHand, On
  <2> QED  BY <1>0, <2>1, <2>2, StreamFrame DEF Same
<1>4. CASE v # turn /\ (PushBlock \/ MarkEnd \/ Advance)
  <2>1. Kept(v) /\ ~Locked(v) /\ ~Locked(v)' /\ Marking(v)' = Marking(v)
    BY <1>0, <1>4, ControllerKept, NextInRange DEF Locked, Marking, PushBlock, MarkEnd, Advance
  <2>2. Read(v)' = Read(v) /\ InHand(v)' = InHand(v) /\ (On(v)' <=> On(v))
    BY <2>1 DEF Read, InHand, On, Kept
  <2> QED  BY <1>0, <2>1, <2>2, StreamFrame DEF Same, Kept
<1>5. CASE ~(PushBlock \/ MarkEnd \/ Advance)
  <2>1. UNCHANGED <<status, curFile, offset, vBuffer>> /\ ctl \notin {"mark", "advance"} /\ ctl' \notin {"mark", "advance"}
    BY <1>0, <1>5 DEF QuietController, infoVars, GoOn, NextWorker, CtlLoop, CheckWorker,
       LookAtFile, LookAtOffset, ReadBlock, WorkersDone, JoinWorkers
  <2>2. Read(v)' = Read(v) /\ Marking(v)' = Marking(v) /\ InHand(v)' = InHand(v) /\ (On(v)' <=> On(v))
    BY <1>0, <2>1 DEF Read, Locked, Marking, InHand, On
  <2> QED  BY <1>0, <2>1, <2>2, StreamFrame DEF Same
<1> QED  BY <1>1, <1>2, <1>3, <1>4, <1>5

LEMMA CalmStep ==
  ASSUME IInv, CalmInv, [Next]_vars
  PROVE  CalmInv'
<1> SUFFICES ASSUME Calm' PROVE Quiet'
  BY DEF CalmInv
<1>1. Calm /\ Quiet /\ ~Fault /\ size' = size
  BY CalmBefore, ErrorsGrow DEF CalmInv, IInv
<1>2. TypeOK /\ HandInv /\ \A w \in Workers : TaskInv(w)
  BY DEF IInv
<1>3. ASSUME NEW w \in Workers, Worker(w) PROVE Quiet'
  <2>1. QuietWorker(w)
    BY <1>1, <1>2, <1>3, WorkerIsQuiet
  <2>2. JudgedInv' /\ TurnInv' /\ ApartInv'
    BY <1>1, <1>2, <1>3, <2>1, JudgedByWorker, TurnByWorker, ApartByWorker
  <2>3. ASSUME NEW v \in Workers PROVE StatusInv(v)' /\ StreamInv(v)'
    <3>1. CASE v = w
      BY <3>1, <1>1, <1>2, <1>3, <2>1, StatusByItself, OwnStream
    <3>2. CASE v # w
      <4>1. StatusInv(v) /\ StreamInv(v)
        BY <1>1 DEF Quiet
      <4>2. Kept(v)
        BY <3>2, <1>2, <1>3, OthersKept
      <4>3. On(v)' => Same(v)
        BY <3>2, <1>1, <1>2, <1>3, <2>1, OthersSame
      <4> QED  BY <4>1, <4>2, <4>3, StatusKept, StreamFrame
    <3> QED  BY <3>1, <3>2
  <2> QED  BY <2>2, <2>3 DEF Quiet
<1>4. CASE Controller
  <2>1. QuietController
    BY <1>1, <1>2, <1>4, ControllerIsQuiet
  <2>2. JudgedInv' /\ TurnInv' /\ ApartInv'
    BY <1>1, <1>2, <1>4, <2>1, JudgedByController, TurnByController, ApartByController
  <2>3. ASSUME NEW v \in Workers PROVE StatusInv(v)' /\ StreamInv(v)'
    <3>1. StreamInv(v)'
      BY <1>1, <1>2, <1>4, <2>1, StreamByController
    <3>2. CASE v = turn
      BY <3>1, <3>2, <1>1, <1>2, <1>4, <2>1, StatusByController
    <3>3. CASE v # turn
      <4>1. StatusInv(v)
        BY <1>1 DEF Quiet
      <4> QED  BY <3>1, <3>3, <4>1, <1>2, <1>4, ControllerKept, StatusKept
    <3> QED  BY <3>2, <3>3
  <2> QED  BY <2>2, <2>3 DEF Quiet
<1>5. CASE UNCHANGED <<size, infoVars, workVars, ctlVars, fileVars>>
  <2>1. JudgedInv' /\ TurnInv' /\ ApartInv'
    BY <1>1, <1>5 DEF Quiet, JudgedInv, TurnInv, ApartInv, HasFile, BlocksOf, infoVars, workVars,
       ctlVars, fileVars
  <2>2. ASSUME NEW v \in Workers PROVE StatusInv(v)' /\ StreamInv(v)'
    <3>1. StatusInv(v) /\ StreamInv(v) /\ Kept(v)
      BY <1>1, <1>5 DEF Quiet, Kept, infoVars, workVars
    <3>2. Read(v)' = Read(v) /\ Marking(v)' = Marking(v) /\ InHand(v)' = InHand(v) /\ (On(v)' <=> On(v)) /\ disk' = disk
      BY <1>5, <3>1 DEF Read, Locked, Marking, InHand, On, Kept, ctlVars, fileVars
    <3> QED  BY <1>1, <3>1, <3>2, StatusKept, StreamFrame DEF Same, Kept
  <2> QED  BY <2>1, <2>2 DEF Quiet
<1> QED  BY <1>1, <1>3, <1>4, <1>5 DEF Next, Stop, vars

LEMMA CalmInit ==
  Init => CalmInv
<1> SUFFICES ASSUME Init PROVE Quiet
  BY DEF CalmInv
<1>1. JudgedInv /\ TurnInv /\ ApartInv
  BY DEF Init, JudgedInv, TurnInv, ApartInv, HasFile, Window
<1>2. ASSUME NEW w \in Workers PROVE StatusInv(w) /\ StreamInv(w)
  BY <1>2 DEF Init, StatusInv, StreamInv, On
<1> QED  BY <1>1, <1>2 DEF Quiet

LEMMA CalmHolds == Spec => []CalmInv
<1>1. IInv /\ CalmInv /\ [Next]_vars => CalmInv'
  BY CalmStep
<1> QED  BY <1>1, CalmInit, Invariance, PTL DEF Spec

\* While nothing fails and no file is empty, no error is raised and a complete file
\* holds its blocks in order: the threads look at status, file and offset without a
\* lock, one after the other, and yet no block goes to another file or is written
\* twice (fillBuffers, doWork, endTask).
THEOREM VerdictsFit == Spec => []VerdictFits
<1>1. CalmInv => VerdictFits
  BY DEF CalmInv, Quiet, JudgedInv, VerdictFits
<1> QED  BY <1>1, CalmHolds, PTL

-----------------------------------------------------------------------------
(***************************************************************************)
(* While nothing fails nobody waits for a thread that has left.            *)
(***************************************************************************)
LeftInv ==
  /\ ~crashed
  /\ \A w \in Workers : pc[w] = "dead" => stopped \/ status[w] = "stop"

CalmLeft == Calm => LeftInv

\* A worker whose buffers are empty has a file of which there is more to read.
Fed(w) ==
  status[w] = "continue" /\ vBuffer[w] = <<>> => curFile[w] # NoFile /\ offset[w] < size[curFile[w]]

NoneWaitsInVain ==
  Calm => ~crashed /\ ~NeverDone /\ ~NeverFed /\ \A w \in Workers : Fed(w)

\* A worker leaves only when it sees STOP, its own or the controller's.
LEMMA LeavesOnStop ==
  ASSUME TypeOK, NEW w \in Workers, Worker(w), pc'[w] = "dead"
  PROVE  pc[w] = "dead" \/ stopped \/ status[w] = "stop"
<1>1. CASE AskStopped(w) \/ Look(w)
  BY <1>1 DEF AskStopped, Look, Goto, TypeOK
<1>2. CASE UNCHANGED pc
  BY <1>2
<1>3. ASSUME ~AskStopped(w), ~Look(w), ~UNCHANGED pc PROVE FALSE
  <2>1. \E p \in Places \ {"dead"} : pc' = [pc EXCEPT ![w] = p]
    BY <1>3 DEF Worker, Goto, Places, workVars, AskTask, WaitTask, TakeFile, NoFileLeft, Leave,
       AssignFile, ResetOffset, Go, OpenFile, OpenFails, GetBlock, EmptyFile, Write, WriteFails,
       FinishFile, EndStatus, EndFile, EndBuffers, GetBlockOfNone
  <2> QED  BY <2>1 DEF TypeOK
<1> QED  BY <1>1, <1>2, <1>3

LEMMA LeftStep ==
  ASSUME IInv, CalmInv, CalmLeft, [Next]_vars
  PROVE  CalmLeft'
<1> SUFFICES ASSUME Calm' PROVE LeftInv'
  BY DEF CalmLeft
<1>1. TypeOK /\ HandInv /\ StopInv /\ Calm /\ Quiet /\ LeftInv /\ ~Fault /\ size' = size
  BY CalmBefore, ErrorsGrow DEF IInv, CalmInv, CalmLeft
<1>2. ASSUME NEW w \in Workers, Worker(w) PROVE LeftInv'
  <2>1. ~GetBlockOfNone(w)
    <3>1. QuietWorker(w)
      BY <1>1, <1>2, WorkerIsQuiet DEF IInv
    <3>2. pc[w] \in {"work", "drain"} => mine[w] # NoFile
      BY <1>1, <1>2, OwnFile, SaveAssumption DEF IInv, Quiet, StatusInv
    <3> QED  BY <3>2 DEF GetBlockOfNone
  <2>2. ~crashed' /\ stopped' = stopped
    BY <1>1, <1>2, <2>1 DEF Worker, LeftInv
  <2>3. ASSUME NEW v \in Workers, pc'[v] = "dead" PROVE stopped \/ status'[v] = "stop"
    <3>1. pc[v] = "dead" \/ stopped \/ status[v] = "stop"
      BY <1>1, <1>2, <2>3, LeavesOnStop, OthersKept DEF Kept
    <3> QED  BY <3>1, <1>1, <1>2, StopStays DEF LeftInv, StopInv
  <2> QED  BY <2>2, <2>3 DEF LeftInv
<1>3. CASE Controller
  <2>1. UNCHANGED <<pc, stopped, crashed>> /\ QuietController
    BY <1>1, <1>3, ControllerKept, ControllerIsQuiet
  <2>2. ASSUME NEW v \in Workers, status[v] = "stop" PROVE status'[v] = "stop"
    <3>1. status' = status \/ (MarkEnd /\ turn # v)
      BY <2>1, <2>2, <1>1 DEF QuietController, Quiet, TurnInv, Window, SetOffset, SetBuffers,
         infoVars, CtlLoop, CheckWorker, LookAtFile, LookAtOffset, ReadBlock, PushBlock, MarkEnd,
         Advance, WorkersDone, JoinWorkers
    <3> QED  BY <3>1, <2>2, <1>1 DEF MarkEnd, SetStatus, TypeOK
  <2> QED  BY <1>1, <2>1, <2>2 DEF LeftInv
<1>4. CASE Stop
  BY <1>1, <1>4 DEF Stop, LeftInv, infoVars, workVars
<1>5. CASE UNCHANGED vars
  BY <1>1, <1>5 DEF LeftInv, vars, infoVars, workVars
<1> QED  BY <1>2, <1>3, <1>4, <1>5 DEF Next

\* Ends allows an unpacking that failed to hang in one of two ways, or to crash; one
\* that did not fail has none of these: no thread is left behind by a worker that is
\* gone, and one that waits for blocks has a file of which the controller still owes
\* it some (run, doWork).
THEOREM WaitsEnd == Spec => []NoneWaitsInVain
<1>1. Init => CalmLeft
  BY DEF Init, CalmLeft, LeftInv
<1>2. IInv /\ CalmInv /\ CalmLeft /\ [Next]_vars => CalmLeft'
  BY LeftStep
<1>3. ASSUME IInv, CalmInv, CalmLeft PROVE NoneWaitsInVain
  <2> SUFFICES ASSUME Calm
               PROVE  ~crashed /\ ~NeverDone /\ ~NeverFed /\ \A w \in Workers : Fed(w)
    BY DEF NoneWaitsInVain
  <2>1. TypeOK /\ Quiet /\ LeftInv
    BY <1>3 DEF IInv, CalmInv, CalmLeft
  <2>2. ~crashed /\ ~NeverDone
    BY <2>1 DEF LeftInv, NeverDone
  <2>3. ~NeverFed
    BY <2>1 DEF Quiet, StatusInv, On, NeverFed
  <2>4. ASSUME NEW w \in Workers, status[w] = "continue", vBuffer[w] = <<>>
        PROVE  curFile[w] # NoFile /\ offset[w] < size[curFile[w]]
    <3>1. On(w) /\ curFile[w] \in Files /\ curFile[w] # NoFile /\ ~Locked(w) /\ ~Marking(w)
      BY <2>1, <2>4, SaveAssumption DEF Quiet, StatusInv, TurnInv, Locked, Marking, On, TypeOK
    <3>2. offset[w] <= size[curFile[w]] /\ offset[w] # size[curFile[w]]
      BY <2>1, <2>4, <3>1 DEF Quiet, StreamInv, Read
    <3>3. offset[w] \in Nat /\ size[curFile[w]] \in Nat
      BY <2>1, <3>1, SaveAssumption DEF TypeOK
    <3> QED  BY <3>1, <3>2, <3>3
  <2> QED  BY <2>2, <2>3, <2>4 DEF Fed
<1> QED  BY <1>1, <1>2, <1>3, CalmHolds, Invariance, PTL DEF Spec

-----------------------------------------------------------------------------
(***************************************************************************)
(* The first failure finds the unpacking calm, and after it there is none. *)
(***************************************************************************)
LEMMA FirstFault ==
  ASSUME IInv, CalmInv, OneFailure, errors' <= 1, Fault
  PROVE  Calm /\ Quiet /\ told = {}
BY DEF IInv, TypeOK, Fault, OneFailure, CalmInv, Calm, Quiet, JudgedInv

LEMMA WriteIsFault ==
  ASSUME NEW w \in Workers, TaskInv(w), WriteFails(w), pc[w] = "write" \/ status[w] = "continue"
  PROVE  Fault /\ pc[w] = "write"
BY DEF TaskInv, WriteFails

\* The task whose file cannot be opened or written was still being read.
LEMMA FailsOn ==
  ASSUME IInv, CalmInv, OneFailure, errors' <= 1, NEW w \in Workers,
         OpenFails(w) \/ WriteFails(w), status[w] = "continue"
  PROVE  /\ Calm /\ Quiet /\ told = {} /\ curFile[w] = mine[w] /\ mine[w] \in Files
         /\ Read(w) < size[mine[w]] \/ Marking(w)
         /\ mine[w] \in told' /\ UNCHANGED <<infoVars, mine>>
<1>1. TypeOK /\ HandInv /\ TaskInv(w)
  BY DEF IInv
<1>2. Fault /\ pc[w] \in {"open", "write"}
  BY <1>1, WriteIsFault DEF OpenFails
<1>3. Calm /\ Quiet /\ told = {}
  BY <1>2, FirstFault
<1>4. On(w) /\ curFile[w] = mine[w] /\ mine[w] \in Files
  BY <1>1, <1>2, <1>3, OwnFile DEF Quiet, StatusInv
<1>5. Read(w) <= size[mine[w]] /\ (Marking(w) <=> Read(w) = size[mine[w]])
  BY <1>3, <1>4 DEF Quiet, StreamInv
<1>6. Read(w) \in Nat /\ size[mine[w]] \in Nat
  BY <1>1, <1>4, SaveAssumption DEF TypeOK, Read
<1> QED  BY <1>3, <1>4, <1>5, <1>6 DEF OpenFails, WriteFails, Judge

LEMMA EndsAtNull ==
  ASSUME TypeOK, NEW w \in Workers, Worker(w), pc'[w] = "null"
  PROVE  OpenFails(w) \/ WriteFails(w) \/ FinishFile(w) \/ pc[w] = "null"
<1>1. CASE Look(w)
  BY <1>1 DEF Look, Goto, TypeOK
<1>2. ASSUME ~Look(w), ~OpenFails(w), ~WriteFails(w), ~FinishFile(w), ~UNCHANGED pc PROVE FALSE
  <2>1. \E p \in Places \ {"null"} : pc' = [pc EXCEPT ![w] = p]
    BY <1>2 DEF Worker, Goto, Places, workVars, AskStopped, AskTask, WaitTask, TakeFile,
       NoFileLeft, Leave, AssignFile, ResetOffset, Go, OpenFile, GetBlock, EmptyFile, Write,
       EndStatus, EndFile, EndBuffers, GetBlockOfNone
  <2> QED  BY <2>1 DEF TypeOK
<1> QED  BY <1>1, <1>2

LEMMA BrokenByItself ==
  ASSUME IInv, CalmInv, OneFailure, OneFailure', NEW w \in Workers, Worker(w), size' = size
  PROVE  Broken(w)'
<1> SUFFICES ASSUME pc'[w] = "null", curFile'[w] # NoFile, status'[w] = "continue"
             PROVE  /\ Read(w)' < size'[mine'[w]] \/ Marking(w)'
                    /\ turn' = w /\ ctl' \in {"diff", "seek", "push"} => reading'[1] = mine'[w]
                    /\ turn' = w /\ ctl' \in {"seek", "push"} => reading'[2] = offset'[w]
  BY DEF Broken
<1>1. TypeOK /\ TaskInv(w) /\ HandInv
  BY DEF IInv
<1>2. CASE OpenFails(w) \/ WriteFails(w)
  <2>1. UNCHANGED <<infoVars, mine, ctl, turn, reading>>
    BY <1>1, <1>2, FilesKept DEF OpenFails, WriteFails
  <2>2. Quiet /\ curFile[w] = mine[w] /\ (Read(w) < size[mine[w]] \/ Marking(w))
    BY <1>2, <2>1, FailsOn DEF OneFailure, infoVars
  <2>3. Read(w)' = Read(w) /\ Marking(w)' = Marking(w)
    BY <2>1 DEF Read, Locked, Marking, infoVars
  <2> QED  BY <2>1, <2>2, <2>3 DEF Quiet, TurnInv, infoVars
<1>3. CASE FinishFile(w)
  <2>1. mine[w] \in Files /\ status[w] # "continue"
    BY <1>1, <1>3 DEF HandInv, TaskInv, FinishFile, OneFailure, NoneEmpty
  <2> QED  BY <1>3, <2>1 DEF FinishFile, infoVars
<1>4. CASE pc[w] = "null" /\ ~OpenFails(w) /\ ~WriteFails(w) /\ ~FinishFile(w)
  <2>1. EndStatus(w)
    BY <1>4 DEF Worker, AskStopped, Look, AskTask, WaitTask, TakeFile, NoFileLeft, Leave,
       AssignFile, ResetOffset, Go, OpenFile, GetBlock, EmptyFile, Write, EndFile, EndBuffers,
       GetBlockOfNone
  <2> QED  BY <1>1, <2>1 DEF EndStatus, SetStatus, TypeOK
<1> QED  BY <1>1, <1>2, <1>3, <1>4, EndsAtNull

LEMMA BrokenKept ==
  ASSUME TypeOK, NEW w \in Workers, Worker(w), NEW v \in Workers, v # w, Broken(v), size' = size
  PROVE  Broken(v)'
BY OthersKept, FilesKept DEF Broken, Kept, Read, Locked, Marking

LEMMA BrokenByController ==
  ASSUME IInv, CalmInv, OneFailure, OneFailure', Controller, size' = size, NEW v \in Workers, Broken(v)
  PROVE  Broken(v)'
<1>1. TypeOK /\ HandInv /\ TaskInv(v)
  BY DEF IInv
<1>2. UNCHANGED <<pc, mine>> /\ turn \in Workers /\ (v # turn => Kept(v))
  BY <1>1, ControllerKept DEF TypeOK
<1>3. CASE v # turn
  <2>1. turn' = v => ctl' \notin {"mark", "advance", "diff", "seek", "push"}
    BY <1>3 DEF Controller, GoOn, NextWorker, CtlLoop, CheckWorker, LookAtFile, LookAtOffset,
       ReadBlock, ReadFails, FailStatus, FailFile, FailBuffers, PushBlock, MarkEnd, Advance,
       WorkersDone, JoinWorkers
  <2>2. ~Locked(v) /\ ~Locked(v)' /\ ~Marking(v)
    BY <1>3, <2>1 DEF Locked, Marking
  <2> QED  BY <1>2, <1>3, <2>1, <2>2 DEF Broken, Kept, Read
<1>4. CASE v = turn
  <2> SUFFICES ASSUME pc[v] = "null", curFile'[v] # NoFile, status'[v] = "continue"
               PROVE  Broken(v)'
    BY <1>2 DEF Broken
  <2>0. status[v] = "continue" /\ curFile[v] # NoFile
    BY <1>1, <1>4 DEF Controller, TypeOK, SetStatus, SetFile, SetOffset, SetBuffers, infoVars,
       CtlLoop, CheckWorker, LookAtFile, LookAtOffset, ReadBlock, ReadFails, FailStatus, FailFile,
       FailBuffers, PushBlock, MarkEnd, Advance, WorkersDone, JoinWorkers
  <2>a. /\ Read(v) < size[mine[v]] \/ Marking(v)
        /\ ctl \in {"diff", "seek", "push"} => reading[1] = mine[v]
        /\ ctl \in {"seek", "push"} => reading[2] = offset[v]
        /\ ctl # "unset" => curFile[v] = mine[v]
        /\ offset[v] \in Nat
    BY <1>1, <1>4, <2>0 DEF Broken, TaskInv, TypeOK
  <2>1. CASE CtlLoop
    BY <2>1, <2>a, <1>1, <1>2, <1>4 DEF TypeOK, Broken, Read, Locked, Marking, CtlLoop, infoVars,
       workVars, ctlVars, fileVars
  <2>2. CASE CheckWorker
    BY <2>2, <2>a, <1>1, <1>2, <1>4 DEF TypeOK, Broken, Read, Locked, Marking, CheckWorker, GoOn,
       NextWorker, infoVars, workVars, ctlVars, fileVars
  <2>3. CASE LookAtFile
    BY <2>3, <2>a, <1>1, <1>2, <1>4 DEF TypeOK, Broken, Read, Locked, Marking, LookAtFile,
       NextWorker, infoVars, workVars, ctlVars, fileVars
  <2>4. CASE LookAtOffset
    BY <2>4, <2>a, <1>1, <1>2, <1>4 DEF TypeOK, Broken, Read, Locked, Marking, LookAtOffset,
       infoVars, workVars, ctlVars, fileVars
  <2>5. CASE ReadBlock
    BY <2>5, <2>a, <1>1, <1>2, <1>4 DEF TypeOK, Broken, Read, Locked, Marking, ReadBlock,
       infoVars, workVars, ctlVars, fileVars
  <2>6. CASE ReadFails
    BY <2>6, <2>a, <1>1, <1>2, <1>4 DEF TypeOK, Broken, Read, Locked, Marking, ReadFails, Fault,
       Judge, infoVars, workVars, ctlVars, fileVars
  <2>7. CASE FailStatus
    BY <2>7, <2>a, <1>1, <1>2, <1>4 DEF TypeOK, Broken, Read, Locked, Marking, FailStatus,
       SetStatus, infoVars, workVars, ctlVars, fileVars
  <2>8. CASE FailFile
    BY <2>8, <2>a, <1>1, <1>2, <1>4 DEF TypeOK, Broken, Read, Locked, Marking, FailFile, SetFile,
       infoVars, workVars, ctlVars, fileVars
  <2>9. CASE FailBuffers
    BY <2>9, <2>a, <1>1, <1>2, <1>4 DEF TypeOK, Broken, Read, Locked, Marking, FailBuffers,
       SetBuffers, NextWorker, infoVars, workVars, ctlVars, fileVars
  <2>10. CASE PushBlock
    <3>1. /\ mine[v] \in Files /\ size[mine[v]] \in Nat /\ offset[v] < size[mine[v]]
          /\ reading[1] = mine[v] /\ reading[2] = offset[v] /\ ctl = "push" /\ turn' = turn
      BY <2>10, <2>0, <2>a, <1>1, <1>4, SaveAssumption DEF PushBlock, TypeOK, Read, Locked, Marking
    <3>2. offset'[v] = offset[v] /\ ctl' = IF offset[v] + 1 = size[mine[v]] THEN "mark" ELSE "advance"
      BY <2>10, <3>1 DEF PushBlock, SetBuffers
    <3>3. Read(v)' = offset[v] + 1 /\ (Marking(v)' <=> offset[v] + 1 = size[mine[v]])
      BY <3>1, <3>2, <1>4 DEF Read, Locked, Marking
    <3>4. offset[v] + 1 < size[mine[v]] \/ offset[v] + 1 = size[mine[v]]
      BY <3>1, <2>a
    <3> QED  BY <3>1, <3>2, <3>3, <3>4, <1>2 DEF Broken
  <2>11. CASE MarkEnd
    BY <2>11, <2>a, <1>1, <1>2, <1>4 DEF TypeOK, Broken, Read, Locked, Marking, MarkEnd,
       SetStatus, infoVars, workVars, ctlVars, fileVars
  <2>12. CASE Advance
    BY <2>12, <2>a, <1>1, <1>2, <1>4 DEF TypeOK, Broken, Read, Locked, Marking, Advance,
       SetOffset, NextWorker, infoVars, workVars, ctlVars, fileVars
  <2>13. CASE WorkersDone
    BY <2>13, <2>a, <1>1, <1>2, <1>4 DEF TypeOK, Broken, Read, Locked, Marking, WorkersDone,
       infoVars, workVars, ctlVars, fileVars
  <2>14. CASE JoinWorkers
    BY <2>14, <2>a, <1>1, <1>2, <1>4 DEF TypeOK, Broken, Read, Locked, Marking, JoinWorkers,
       infoVars, workVars, ctlVars, fileVars
  <2> QED
    BY <2>a, <2>1, <2>2, <2>3, <2>4, <2>5, <2>6, <2>7, <2>8, <2>9, <2>10, <2>11, <2>12, <2>13,
       <2>14 DEF
      Controller
<1> QED  BY <1>3, <1>4

(***************************************************************************)
(* What the controller reads, while the worker goes on or fails.           *)
(***************************************************************************)
OnPlaces == {"reset", "go", "open", "loop", "look", "work", "write", "dead"}

LEMMA LookGoes ==
  ASSUME TypeOK, NEW w \in Workers, Look(w)
  PROVE  \/ status[w] = "stop" /\ pc'[w] = "dead"
         \/ status[w] = "null" /\ pc'[w] = "task"
         \/ status[w] = "endfile" /\ pc'[w] = "drain"
         \/ status[w] = "continue" /\ pc'[w] = "work"
         \/ status[w] = "wait" /\ pc'[w] = "loop"
BY DEF Look, Goto, TypeOK

LEMMA OnItStep ==
  ASSUME IInv, CalmInv, OneFailure, OneFailure', size' = size, turn \in Workers, Worker(turn), ctl \in Window,
         NEW f \in Files, OnIt(f)
  PROVE  \/ OnIt(f)'
         \/ Dropped(f)' /\ Calm /\ Quiet /\ told = {} /\ offset[turn] < size[f]
<1>1. TypeOK /\ TaskInv(turn) /\ ctl # "unset" /\ status[turn] # "endfile"
  BY DEF IInv, WindowInv, Window
<1>2. curFile[turn] = f /\ f # NoFile /\ pc[turn] \in OnPlaces /\ mine[turn] = f /\ size[f] # 0
  BY <1>1, SaveAssumption DEF OnIt, OnPlaces, TaskInv, OneFailure, NoneEmpty
<1>3. UNCHANGED <<ctl, turn>>
  BY <1>1, FilesKept
<1>4. CASE OpenFails(turn) \/ WriteFails(turn)
  <2>1. pc[turn] \in {"open", "write"} /\ status[turn] = "continue"
    BY <1>1, <1>2, <1>4 DEF OpenFails, WriteFails, TaskInv, OnPlaces
  <2>2. /\ Calm /\ Quiet /\ told = {} /\ f \in told' /\ UNCHANGED infoVars
        /\ Read(turn) < size[f] \/ Marking(turn)
    BY <1>2, <1>4, <2>1, FailsOn DEF OneFailure
  <2>3. offset[turn] < size[f]
    <3>1. offset[turn] \in Nat /\ size[f] \in Nat
      BY <1>1, SaveAssumption DEF TypeOK
    <3>2. Marking(turn) => Read(turn) = offset[turn] + 1 /\ Read(turn) <= size[f]
      BY <1>1, <1>2, <2>2, <2>1 DEF Quiet, StreamInv, StatusInv, Marking, Read, Locked
    <3> QED  BY <3>1, <3>2, <2>2 DEF Read
  <2> QED  BY <1>3, <2>2, <2>3 DEF Dropped, infoVars
<1>5. CASE AskStopped(turn) \/ ResetOffset(turn) \/ Go(turn) \/ OpenFile(turn) \/ Write(turn)
  <2>1. curFile' = curFile /\ pc'[turn] \in OnPlaces
    BY <1>1, <1>2, <1>5 DEF AskStopped, ResetOffset, Go, OpenFile, Write, Goto, TypeOK, OnPlaces,
       SetStatus, SetOffset, infoVars
  <2> QED  BY <1>2, <1>3, <2>1 DEF OnIt, OnPlaces
<1>6. CASE Look(turn)
  <2>1. pc[turn] = "look" /\ status[turn] = "continue" /\ curFile' = curFile
    BY <1>1, <1>2, <1>6 DEF Look, TaskInv, infoVars
  <2>2. pc'[turn] = "work"
    BY <1>1, <1>6, <2>1, LookGoes
  <2> QED  BY <1>2, <1>3, <2>1, <2>2 DEF OnIt
<1>7. CASE GetBlock(turn)
  <2>1. pc[turn] = "work" /\ curFile' = curFile
    BY <1>2, <1>7 DEF GetBlock, OnPlaces, SetBuffers, infoVars
  <2>2. pc'[turn] \in {"write", "loop"}
    BY <1>1, <1>7, <2>1 DEF GetBlock, Goto, TypeOK
  <2> QED  BY <1>2, <1>3, <2>1, <2>2 DEF OnIt
<1>8. CASE GetBlockOfNone(turn)
  BY <1>2, <1>3, <1>8 DEF GetBlockOfNone, OnIt, OnPlaces, infoVars, workVars
<1> QED
  BY <1>2, <1>4, <1>5, <1>6, <1>7, <1>8 DEF OnPlaces, Worker, AskTask, WaitTask, TakeFile,
     NoFileLeft, Leave, AssignFile, EmptyFile, FinishFile, EndStatus, EndFile, EndBuffers

LEMMA DroppedStep ==
  ASSUME IInv, OneFailure, size' = size, turn \in Workers, Worker(turn), NEW f \in Files, Dropped(f)
  PROVE  Dropped(f)'
<1>1. TypeOK
  BY DEF IInv
<1>2. told \subseteq told' /\ turn' = turn
  BY <1>1, FilesKept
<1>3. offset'[turn] \in {offset[turn], 0}
  BY <1>1 DEF TypeOK, Worker, SetStatus, SetFile, SetOffset, SetBuffers, infoVars, AskStopped,
     Look, AskTask, WaitTask, TakeFile, NoFileLeft, Leave, AssignFile, ResetOffset, Go, OpenFile,
     OpenFails, GetBlock, EmptyFile, Write, WriteFails, FinishFile, EndStatus, EndFile,
     EndBuffers, GetBlockOfNone
<1>4. size[f] \in Nat \ {0}
  BY <1>1, SaveAssumption DEF TypeOK, OneFailure, NoneEmpty
<1> QED  BY <1>2, <1>3, <1>4 DEF Dropped

LEMMA FileTaken ==
  ASSUME IInv, turn \in Workers, Worker(turn), ctl # "unset", curFile'[turn] # NoFile
  PROVE  curFile'[turn] = curFile[turn] \/ pc'[turn] \in OnPlaces
<1>1. TypeOK /\ TaskInv(turn)
  BY DEF IInv
<1>2. turn' = turn
  BY <1>1, FilesKept
<1>3. CASE AssignFile(turn)
  BY <1>1, <1>2, <1>3 DEF AssignFile, Goto, OnPlaces, TypeOK
<1>4. ASSUME ~AssignFile(turn) PROVE curFile'[turn] = curFile[turn] \/ curFile'[turn] = NoFile
  BY <1>1, <1>4 DEF TypeOK, Worker, SetStatus, SetFile, SetOffset, SetBuffers, infoVars,
     AskStopped, Look, AskTask, WaitTask, TakeFile, NoFileLeft, Leave, AssignFile, ResetOffset,
     Go, OpenFile, OpenFails, GetBlock, EmptyFile, Write, WriteFails, FinishFile, EndStatus,
     EndFile, EndBuffers, GetBlockOfNone
<1> QED  BY <1>3, <1>4

LEMMA LateByWorker ==
  ASSUME IInv, CalmInv, OneFailure, OneFailure', TypeOK', size' = size, LateInv, NEW w \in Workers, Worker(w)
  PROVE  LateInv'
<1>1. TypeOK /\ HandInv /\ turn \in Workers /\ UNCHANGED <<ctl, turn, reading>>
  BY FilesKept DEF IInv, TypeOK
<1>2. CASE w # turn
  BY <1>1, <1>2, OthersKept, FilesKept DEF LateInv, OnIt, Dropped, Kept
<1>3. CASE w = turn
  <2>1. ASSUME NEW f \in Files, OnIt(f) \/ Dropped(f), ctl \in Window
        PROVE  OnIt(f)' \/ Dropped(f)'
    BY <1>1, <1>3, <2>1, OnItStep, DroppedStep
  <2>2. ASSUME ctl \in {"file?", "room?", "end?", "file"}, NEW f \in Files, f = curFile'[turn]
        PROVE  OnIt(f)' \/ Dropped(f)'
    <3>1. CASE curFile[turn] = f
      <4>1. OnIt(f) \/ Dropped(f)
        BY <2>2, <3>1, SaveAssumption DEF LateInv
      <4> QED  BY <2>1, <2>2, <4>1 DEF Window
    <3>2. CASE curFile[turn] # f
      <4>1. pc'[turn] \in OnPlaces
        BY <1>1, <1>3, <2>2, <3>2, FileTaken, SaveAssumption
      <4> QED  BY <1>1, <2>2, <4>1 DEF OnIt, OnPlaces
    <3> QED  BY <3>1, <3>2
  <2>3. ASSUME ctl \in {"diff", "seek"}, NEW f \in Files, f = reading[1] PROVE OnIt(f)' \/ Dropped(f)'
    <3>1. OnIt(f) \/ Dropped(f)
      BY <2>3 DEF LateInv
    <3> QED  BY <2>1, <2>3, <3>1 DEF Window
  <2>4. ASSUME ctl = "seek", NEW f \in Files, f = reading[1] PROVE OnIt(f)' \/ reading[2] < size[f]
    <3>1. CASE OnIt(f)
      <4>1. OnIt(f)' \/ (Quiet /\ offset[turn] < size[f])
        BY <1>1, <1>3, <2>4, <3>1, OnItStep DEF Window
      <4> QED  BY <2>4, <4>1 DEF Quiet, TurnInv
    <3>2. CASE ~OnIt(f)
      BY <2>4, <3>2 DEF LateInv
    <3> QED  BY <3>1, <3>2
  <2>5. ASSUME ctl = "null", NEW f \in Files, f = reading[1] PROVE OnIt(f)' /\ f \in told'
    <3>1. OnIt(f) /\ f \in told
      BY <2>5 DEF LateInv
    <3>2. OnIt(f)'
      BY <1>1, <1>3, <2>5, <3>1, OnItStep DEF Window
    <3> QED  BY <1>1, <3>1, <3>2, FilesKept
  <2>6. ctl \in {"diff", "seek", "null"} => reading[1] \in Files
    BY <1>1 DEF HandInv
  <2>7. curFile'[turn] # NoFile => curFile'[turn] \in Files
    BY <1>1 DEF TypeOK
  <2> QED  BY <1>1, <2>2, <2>3, <2>4, <2>5, <2>6, <2>7 DEF LateInv, OnIt, Dropped
<1> QED  BY <1>2, <1>3

LEMMA LateByController ==
  ASSUME IInv, CalmInv, OneInv, OneFailure, OneFailure', size' = size, Controller
  PROVE  LateInv'
<1>1. TypeOK /\ HandInv /\ TaskInv(turn) /\ turn \in Workers /\ LateInv /\ Broken(turn)
  BY DEF IInv, TypeOK, OneInv
<1>2. UNCHANGED <<pc, mine>> /\ told \subseteq told'
  BY <1>1, ControllerKept
<1>3. CASE CheckWorker
  <2>1. CASE ctl = "check" /\ ctl' = "file?"
    <3>1. turn' = turn /\ status[turn] = "continue" /\ UNCHANGED <<infoVars, told>>
      BY <1>3, <2>1 DEF CheckWorker, GoOn, NextWorker, fileVars
    <3>2. ASSUME curFile[turn] # NoFile PROVE OnIt(curFile[turn]) \/ Dropped(curFile[turn])
      <4>1. curFile[turn] = mine[turn] /\ pc[turn] \in TaskPlaces /\ size[mine[turn]] # 0 /\ mine[turn] \in Files
        BY <1>1, <2>1, <3>2 DEF TaskInv, OneFailure, NoneEmpty, TypeOK
      <4>2. pc[turn] \in OnPlaces \/ pc[turn] = "null"
        BY <1>1, <2>1, <3>1, <3>2, <4>1 DEF TaskInv, TaskPlaces, OnPlaces
      <4>3. ASSUME pc[turn] = "null" PROVE Dropped(curFile[turn])
        BY <1>1, <2>1, <3>1, <3>2, <4>1, <4>3 DEF TaskInv, Broken, Read, Locked, Marking, Dropped
      <4> QED  BY <4>2, <4>3 DEF OnIt, OnPlaces
    <3> QED  BY <2>1, <3>1, <3>2, <1>2 DEF LateInv, OnIt, Dropped, infoVars
  <2>2. CASE ctl \in {"file?", "room?", "end?"} /\ ctl' \in {"room?", "end?", "file"}
    BY <1>1, <1>2, <1>3, <2>2, SaveAssumption DEF CheckWorker, GoOn, NextWorker, LateInv, OnIt,
       Dropped, infoVars, fileVars
  <2>3. CASE ctl' \in {"check", "done?"}
    BY <2>3 DEF LateInv
  <2> QED  BY <1>3, <2>1, <2>2, <2>3 DEF CheckWorker, GoOn, NextWorker
<1>4. CASE LookAtFile
  <2>1. CASE ctl' = "diff" /\ curFile[turn] # NoFile /\ reading' = <<curFile[turn], 0, 0>> /\ UNCHANGED turn
    BY <1>1, <1>2, <1>4, <2>1 DEF LookAtFile, LateInv, OnIt, Dropped, infoVars, fileVars
  <2>2. CASE ctl' \in {"check", "done?"}
    BY <2>2 DEF LateInv
  <2> QED  BY <1>4, <2>1, <2>2 DEF LookAtFile, NextWorker
<1>5. CASE LookAtOffset
  BY <1>1, <1>2, <1>5 DEF LookAtOffset, LateInv, OnIt, Dropped, infoVars, fileVars
<1>6. CASE ReadFails
  <2>1. ctl' = "null" /\ ctl = "seek" /\ reading[1] \in told' /\ UNCHANGED <<turn, reading, infoVars>>
    BY <1>6 DEF ReadFails, Judge
  <2>2. reading[1] \in Files /\ size[reading[1]] \in Nat /\ reading[2] \in Nat /\ offset[turn] \in Nat
    BY <1>1, <2>1, SaveAssumption DEF HandInv, TypeOK
  <2>3. OnIt(reading[1])
    <3>1. CASE reading[2] < size[reading[1]] /\ offset[turn] < size[reading[1]]
      <4>1. Calm /\ Quiet
        BY <1>6, <3>1, FirstFault DEF ReadFails, OneFailure
      <4>2. /\ status[turn] = "continue" /\ curFile[turn] = reading[1] /\ StatusInv(turn) /\ pc[turn] \in TaskPlaces
            /\ curFile[turn] # NoFile
        BY <1>1, <2>1, <4>1, OwnFile DEF Quiet, TurnInv, Window
      <4>3. pc[turn] \in OnPlaces
        BY <4>2 DEF StatusInv, On, TaskPlaces, OnPlaces
      <4> QED  BY <4>2, <4>3 DEF OnIt, OnPlaces
    <3>2. CASE ~(reading[2] < size[reading[1]] /\ offset[turn] < size[reading[1]])
      BY <1>1, <2>1, <3>2 DEF LateInv, Dropped
    <3> QED  BY <3>1, <3>2
  <2> QED  BY <2>1, <2>3, <1>2 DEF LateInv, OnIt, infoVars
<1>7. CASE CtlLoop \/ ReadBlock \/ FailStatus \/ FailFile \/ FailBuffers \/ PushBlock \/ MarkEnd \/ Advance
           \/ WorkersDone \/ JoinWorkers
  <2>1. ctl' \notin {"file?", "room?", "end?", "file", "diff", "seek", "null"}
    BY <1>7 DEF CtlLoop, ReadBlock, FailStatus, FailFile, FailBuffers, PushBlock, MarkEnd,
       Advance, WorkersDone, JoinWorkers, NextWorker
  <2> QED  BY <2>1 DEF LateInv
<1> QED  BY <1>3, <1>4, <1>5, <1>6, <1>7 DEF Controller

LEMMA OneStep ==
  ASSUME IInv, CalmInv, OneInv, [Next]_vars
  PROVE  OneInv'
<1> SUFFICES ASSUME OneFailure' PROVE LateInv' /\ \A v \in Workers : Broken(v)'
  BY DEF OneInv
<1>1. size' = size /\ OneFailure /\ LateInv /\ (\A v \in Workers : Broken(v)) /\ TypeOK
  BY ErrorsGrow DEF IInv, OneInv
<1>2. ASSUME NEW w \in Workers, Worker(w) PROVE LateInv' /\ \A v \in Workers : Broken(v)'
  <2>1. TypeOK'
    BY TypeStep DEF IInv
  <2>2. LateInv'
    BY <1>1, <1>2, <2>1, LateByWorker
  <2> QED  BY <1>1, <1>2, <2>2, BrokenByItself, BrokenKept
<1>3. CASE Controller
  BY <1>1, <1>3, LateByController, BrokenByController
<1>4. CASE UNCHANGED <<size, infoVars, workVars, ctlVars, fileVars>>
  <2>1. UNCHANGED <<status, curFile, offset, pc, mine, ctl, turn, reading, told>>
    BY <1>4 DEF infoVars, workVars, ctlVars, fileVars
  <2> QED  BY <1>1, <2>1 DEF LateInv, OnIt, Dropped, Broken, Read, Locked, Marking
<1> QED  BY <1>2, <1>3, <1>4 DEF Next, Stop, vars

-----------------------------------------------------------------------------
(***************************************************************************)
(* A file that a worker holds is handed on, and judged, and not lost.      *)
(***************************************************************************)
\* What a worker held is in its hand after its step, or was judged.
LEMMA HoldsOn ==
  ASSUME TypeOK, HandInv, NEW w \in Workers, Worker(w), Carries(w), ~stopped
  PROVE  /\ Holds(w) => (Holds(w)' /\ mine'[w] = mine[w]) \/ mine[w] \in done' \union told'
         /\ Carries(w)'
<1>0. told \subseteq told' /\ done \subseteq done'
  BY FilesKept
<1>1. CASE AskStopped(w)
  BY <1>1, <1>0 DEF TypeOK, HandInv, Holds, Carries, AskStopped, Goto, infoVars, workVars,
     ctlVars, fileVars
<1>2. CASE Look(w)
  <2>1. pc[w] = "look" /\ UNCHANGED <<status, mine>>
    BY <1>2 DEF Look, infoVars
  <2> QED  BY <2>1, <1>2, <1>0, LookGoes DEF Holds, Carries
<1>3. CASE AskTask(w)
  BY <1>3, <1>0 DEF TypeOK, HandInv, Holds, Carries, AskTask, Goto, infoVars, workVars, ctlVars,
     fileVars
<1>4. CASE WaitTask(w)
  BY <1>4, <1>0 DEF TypeOK, HandInv, Holds, Carries, WaitTask, SetStatus, Goto, infoVars,
     workVars, ctlVars, fileVars
<1>5. CASE TakeFile(w)
  BY <1>5, <1>0 DEF TypeOK, HandInv, Holds, Carries, TakeFile, Goto, infoVars, workVars, ctlVars,
     fileVars
<1>6. CASE NoFileLeft(w)
  BY <1>6, <1>0 DEF TypeOK, HandInv, Holds, Carries, NoFileLeft, Goto, infoVars, workVars,
     ctlVars, fileVars
<1>7. CASE Leave(w)
  BY <1>7, <1>0 DEF TypeOK, HandInv, Holds, Carries, Leave, SetStatus, Goto, infoVars, workVars,
     ctlVars, fileVars
<1>8. CASE AssignFile(w)
  BY <1>8, <1>0 DEF TypeOK, HandInv, Holds, Carries, AssignFile, SetFile, Goto, infoVars,
     workVars, ctlVars, fileVars
<1>9. CASE ResetOffset(w)
  BY <1>9, <1>0 DEF TypeOK, HandInv, Holds, Carries, ResetOffset, SetOffset, Goto, infoVars,
     workVars, ctlVars, fileVars
<1>10. CASE Go(w)
  BY <1>10, <1>0 DEF TypeOK, HandInv, Holds, Carries, Go, SetStatus, Goto, infoVars, workVars,
     ctlVars, fileVars
<1>11. CASE OpenFile(w)
  BY <1>11, <1>0 DEF TypeOK, HandInv, Holds, Carries, OpenFile, Goto, infoVars, workVars, ctlVars,
     fileVars
<1>12. CASE OpenFails(w)
  BY <1>12, <1>0 DEF TypeOK, HandInv, Holds, Carries, OpenFails, Fault, Judge, Goto, infoVars,
     workVars, ctlVars, fileVars
<1>13. CASE GetBlock(w)
  <2>1. pc[w] \in {"work", "drain"} /\ UNCHANGED <<status, mine>>
    BY <1>13 DEF GetBlock, SetBuffers, infoVars
  <2>2. pc'[w] \in IF pc[w] = "work" THEN {"finish", "loop", "write"} ELSE {"finish", "drain", "lastwrite"}
    BY <1>13 DEF GetBlock, Goto, TypeOK
  <2> QED  BY <2>1, <2>2, <1>0 DEF Holds, Carries
<1>14. CASE EmptyFile(w)
  BY <1>14, <1>0 DEF TypeOK, HandInv, Holds, Carries, EmptyFile, Goto, infoVars, workVars,
     ctlVars, fileVars
<1>15. CASE Write(w)
  BY <1>15, <1>0 DEF TypeOK, HandInv, Holds, Carries, Write, Goto, infoVars, workVars, ctlVars,
     fileVars
<1>16. CASE WriteFails(w)
  BY <1>16, <1>0 DEF TypeOK, HandInv, Holds, Carries, WriteFails, Fault, Judge, Goto, infoVars,
     workVars, ctlVars, fileVars
<1>17. CASE FinishFile(w)
  BY <1>17, <1>0 DEF TypeOK, HandInv, Holds, Carries, FinishFile, Judge, Goto, infoVars, workVars,
     ctlVars, fileVars
<1>18. CASE EndStatus(w)
  BY <1>18, <1>0 DEF TypeOK, HandInv, Holds, Carries, EndStatus, SetStatus, Goto, infoVars,
     workVars, ctlVars, fileVars
<1>19. CASE EndFile(w)
  BY <1>19, <1>0 DEF TypeOK, HandInv, Holds, Carries, EndFile, SetFile, Goto, infoVars, workVars,
     ctlVars, fileVars
<1>20. CASE EndBuffers(w)
  BY <1>20, <1>0 DEF TypeOK, HandInv, Holds, Carries, EndBuffers, SetBuffers, Goto, infoVars,
     workVars, ctlVars, fileVars
<1>21. CASE GetBlockOfNone(w)
  BY <1>21, <1>0 DEF TypeOK, HandInv, Holds, Carries, GetBlockOfNone, infoVars, workVars, ctlVars,
     fileVars
<1> QED
  BY <1>0, <1>1, <1>2, <1>3, <1>4, <1>5, <1>6, <1>7, <1>8, <1>9, <1>10, <1>11, <1>12, <1>13,
     <1>14, <1>15, <1>16, <1>17, <1>18, <1>19, <1>20, <1>21 DEF Worker

LEMMA PlaceByWorker ==
  ASSUME TypeOK, HandInv, NEW w \in Workers, Worker(w), ~stopped, \A v \in Workers : Carries(v),
         \A f \in Files : Accounted(f)
  PROVE  (\A f \in Files : Accounted(f)') /\ \A v \in Workers : Carries(v)'
<1>1. /\ Holds(w) => (Holds(w)' /\ mine'[w] = mine[w]) \/ mine[w] \in done' \union told'
      /\ Carries(w)'
  BY HoldsOn
<1>2. told \subseteq told' /\ done \subseteq done'
  BY FilesKept
<1>3. ASSUME NEW v \in Workers, v # w
      PROVE  /\ Holds(v) => Holds(v)' /\ mine'[v] = mine[v]
             /\ Carries(v)'
  BY <1>2, <1>3, OthersKept DEF Kept, Holds, Carries
<1>4. ASSUME NEW f \in Files, f \in fileList, f \notin fileList' PROVE Holds(w)' /\ mine'[w] = f
  <2>1. TakeFile(w)
    BY <1>4 DEF Worker, Judge, fileVars, AskStopped, Look, AskTask, WaitTask, NoFileLeft, Leave,
       AssignFile, ResetOffset, Go, OpenFile, OpenFails, GetBlock, EmptyFile, Write, WriteFails,
       FinishFile, EndStatus, EndFile, EndBuffers, GetBlockOfNone
  <2>2. mine' = [mine EXCEPT ![w] = f]
    BY <1>4, <2>1 DEF TakeFile
  <2>3. pc'[w] = "assign" /\ mine'[w] = f
    BY <2>1, <2>2 DEF TakeFile, Goto, TypeOK
  <2> QED  BY <2>3, SaveAssumption DEF Holds
<1>5. ASSUME NEW f \in Files PROVE Accounted(f)'
  <2>1. CASE f \in fileList \union done \union told
    BY <2>1, <1>2, <1>4 DEF Accounted
  <2>2. CASE \E v \in Workers : Holds(v) /\ mine[v] = f
    <3>1. PICK v \in Workers : Holds(v) /\ mine[v] = f
      BY <2>2
    <3> QED  BY <3>1, <1>1, <1>3 DEF Accounted
  <2> QED  BY <2>1, <2>2 DEF Accounted
<1> QED  BY <1>1, <1>3, <1>5

LEMMA PlaceByController ==
  ASSUME IInv, OneInv, Controller, told = {} \/ OneFailure, \A v \in Workers : Carries(v),
         \A f \in Files : Accounted(f)
  PROVE  (\A f \in Files : Accounted(f)') /\ \A v \in Workers : Carries(v)'
<1>1. /\ TypeOK /\ turn \in Workers /\ UNCHANGED <<pc, mine, fileList, done>> /\ told \subseteq told'
      /\ \A v \in Workers : v # turn => Kept(v)
  BY ControllerKept DEF IInv, TypeOK
<1>2. ASSUME NEW v \in Workers
      PROVE  \/ status[v] \in {"continue", "endfile"} => status'[v] \in {"continue", "endfile"}
             \/ mine[v] \in told /\ pc[v] \in OnPlaces
  <2>1. CASE FailStatus /\ v = turn
    <3>1. told # {} /\ LateInv /\ ctl = "null"
      BY <1>1, <2>1 DEF IInv, WindowInv, OneInv, FailStatus
    <3>2. OnIt(reading[1]) /\ reading[1] \in told /\ reading[1] \in Files
      BY <3>1 DEF LateInv, IInv, HandInv
    <3>3. curFile[v] = mine[v]
      BY <1>1, <2>1, <3>1, <3>2, SaveAssumption DEF IInv, TaskInv, OnIt
    <3> QED  BY <2>1, <3>2, <3>3 DEF OnIt, OnPlaces
  <2>2. CASE MarkEnd /\ v = turn
    BY <1>1, <2>2 DEF MarkEnd, SetStatus, TypeOK
  <2>3. CASE v # turn
    BY <1>1, <2>3 DEF Kept
  <2>4. CASE ~FailStatus /\ ~MarkEnd
    BY <2>4 DEF Controller, SetFile, SetOffset, SetBuffers, infoVars, CtlLoop, CheckWorker,
       LookAtFile, LookAtOffset, ReadBlock, ReadFails, FailFile, FailBuffers, PushBlock, Advance,
       WorkersDone, JoinWorkers
  <2> QED  BY <2>1, <2>2, <2>3, <2>4
<1>3. ASSUME NEW v \in Workers PROVE Carries(v)' /\ (Holds(v) => Holds(v)' \/ mine[v] \in told')
  BY <1>1, <1>2 DEF Carries, Holds
<1>4. ASSUME NEW f \in Files PROVE Accounted(f)'
  <2>1. CASE f \in fileList \union done \union told
    BY <1>1, <2>1 DEF Accounted
  <2>2. CASE \E v \in Workers : Holds(v) /\ mine[v] = f
    <3>1. PICK v \in Workers : Holds(v) /\ mine[v] = f
      BY <2>2
    <3> QED  BY <1>1, <1>3, <3>1 DEF Accounted
  <2> QED  BY <2>1, <2>2 DEF Accounted
<1> QED  BY <1>3, <1>4

LEMMA PlaceStep ==
  ASSUME IInv, OneInv, PlaceInv, [Next]_vars
  PROVE  PlaceInv'
<1> SUFFICES ASSUME Traced' PROVE (\A f \in Files : Accounted(f)') /\ \A v \in Workers : Carries(v)'
  BY DEF PlaceInv
<1>1. TypeOK /\ HandInv
  BY DEF IInv
<1>2. told \subseteq told' /\ (stopped => stopped')
  <2>1. ASSUME NEW w \in Workers, Worker(w) PROVE told \subseteq told' /\ (stopped => stopped')
    BY <1>1, <2>1, FilesKept
  <2>2. CASE Controller
    BY <1>1, <2>2, ControllerKept
  <2> QED  BY <2>1, <2>2 DEF Next, Stop, vars, fileVars
<1>3. Traced /\ ~stopped /\ (told = {} \/ OneFailure)
  BY <1>1, <1>2, ErrorsGrow DEF Traced
<1>4. (\A f \in Files : Accounted(f)) /\ \A v \in Workers : Carries(v)
  BY <1>3 DEF PlaceInv
<1>5. ASSUME NEW w \in Workers, Worker(w) PROVE (\A f \in Files : Accounted(f)') /\ \A v \in Workers : Carries(v)'
  BY <1>1, <1>3, <1>4, <1>5, PlaceByWorker
<1>6. CASE Controller
  BY <1>3, <1>4, <1>6, PlaceByController
<1>7. CASE UNCHANGED <<infoVars, workVars, fileVars>>
  <2>1. UNCHANGED <<status, pc, mine, fileList, done, told>>
    BY <1>7 DEF infoVars, workVars, fileVars
  <2> QED  BY <1>4, <2>1 DEF Accounted, Carries, Holds
<1> QED  BY <1>5, <1>6, <1>7 DEF Next, Stop, vars

\* When the controller sees all workers done, every file is complete or an error was
\* raised, and after a single failure there is an error for each file that is not
\* complete: the error of a late read comes before the status and the file of the
\* worker change, which may be on its next file then, and still takes none from it
\* in silence (workersDone, fillBuffers, endTask).
THEOREM NoneForgotten == Spec => []NoFileForgotten
<1>1. Init => OneInv /\ PlaceInv
  BY DEF Init, OneInv, LateInv, Broken, PlaceInv, Accounted, Carries
<1>2. IInv /\ CalmInv /\ OneInv /\ [Next]_vars => OneInv'
  BY OneStep
<1>3. IInv /\ OneInv /\ PlaceInv /\ [Next]_vars => PlaceInv'
  BY PlaceStep
<1>4. ASSUME IInv, PlaceInv PROVE NoFileForgotten
  <2> SUFFICES ASSUME ctl \in {"join", "over"}, ~stopped, told = {} \/ OneFailure PROVE done \union told = Files
    BY DEF NoFileForgotten, OneFailure
  <2>1. TypeOK /\ StopInv
    BY <1>4 DEF IInv
  <2>2. \A w \in Workers : pc[w] \in {"loop", "look", "dead"} /\ mine[w] = NoFile /\ fileList = {}
    BY <2>1 DEF StopInv, StopAt
  <2>3. fileList = {}
    BY <2>2, SaveAssumption DEF Workers
  <2>4. \A w \in Workers : ~Holds(w)
    BY <2>2 DEF Holds
  <2>5. \A f \in Files : f \in done \union told
    BY <1>4, <2>3, <2>4 DEF PlaceInv, Traced, Accounted
  <2> QED  BY <2>1, <2>5 DEF TypeOK
<1> QED  BY <1>1, <1>2, <1>3, <1>4, CalmHolds, Invariance, PTL DEF Spec

=============================================================================
