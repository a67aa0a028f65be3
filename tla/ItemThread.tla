----------------------------- MODULE ItemThread -----------------------------
(***************************************************************************)
(* The threads that run the tasks of an item: ItemThread.cpp of usercore,  *)
(* and the DeleteThread task of UserTasks.cpp that ends one.  Several such *)
(* threads of one item may exist at a time: the one its handle points to   *)
(* and those it has given up, which the thread pool has still to end.      *)
(*                                                                         *)
(* Every section of code under m_TaskMutex or m_DeleteMutex is one action. *)
(* purge has one section of each, and nothing can be queued between them:  *)
(* a caller holds the handle's m_ThreadMutex, or the handle has given the  *)
(* thread up; so the two are one action.  The worker takes a task, and     *)
(* tells the handle that it starts, in one action as well: a purge between *)
(* the two only skips the task, which a purge before them does too.        *)
(* Pauses are left out: the only one the modelled tasks ask for (onError   *)
(* of a verification) is undone when the task that asked for it completes. *)
(***************************************************************************)
EXTENDS Integers, Sequences

CONSTANTS
  Items,        \* the items of the user's computer
  Slots         \* bound on the threads one item has at a time

ASSUME SlotAssumption == Slots \subseteq Nat \ {0}

Threads == Items \X Slots
Owner(h) == h[1]
Kinds == {"wait", "verify", "close", "none"}   \* the tasks, by getTaskType
NoTask == "nothing"

VARIABLES
  pc,           \* where the worker is; "off": there is no such thread
  list,         \* m_vTaskList
  hand,         \* the task in the worker's hand; m_pCurrentTask while it runs
  skip,         \* m_bDeleteCurrentTask
  told,         \* the current task was told to stop, or its wait was ended
  stopped,      \* m_bStop
  ending        \* what the thread pool has done of its DeleteThread task

threadVars == <<pc, list, hand, skip, told, stopped, ending>>

Places == {"off", "loop", "pop", "take", "run", "good", "bad", "close", "done", "dead"}
Current == {"run", "good", "bad", "close", "done"}   \* m_pCurrentTask is set

ThreadTypeOK ==
  /\ pc \in [Threads -> Places]
  /\ list \in [Threads -> Seq(Kinds)]
  /\ hand \in [Threads -> Kinds \union {NoTask}]
  /\ skip \in [Threads -> BOOLEAN]
  /\ told \in [Threads -> BOOLEAN]
  /\ stopped \in [Threads -> BOOLEAN]
  /\ ending \in [Threads -> {"no", "queued", "joining"}]

ThreadInit ==
  /\ pc = [h \in Threads |-> "off"]
  /\ list = [h \in Threads |-> <<>>]
  /\ hand = [h \in Threads |-> NoTask]
  /\ skip = [h \in Threads |-> FALSE]
  /\ told = [h \in Threads |-> FALSE]
  /\ stopped = [h \in Threads |-> FALSE]
  /\ ending = [h \in Threads |-> "no"]

Goto(h, p) == pc' = [pc EXCEPT ![h] = p]

-----------------------------------------------------------------------------
(***************************************************************************)
(* The worker: run, performTask and getNewTask.  m_WaitCond.wait(2) wakes  *)
(* up by itself, so the worker is never asleep for ever.                   *)
(***************************************************************************)
ClearFlag(h) ==
  /\ pc[h] = "loop" /\ ~stopped[h]
  /\ skip' = [skip EXCEPT ![h] = FALSE]
  /\ Goto(h, "pop")
  /\ UNCHANGED <<list, hand, told, stopped, ending>>

PopTask(h) ==
  /\ pc[h] = "pop"
  /\ IF list[h] = <<>>
     THEN Goto(h, "loop") /\ UNCHANGED <<list, hand>>
     ELSE /\ hand' = [hand EXCEPT ![h] = Head(list[h])]
          /\ list' = [list EXCEPT ![h] = Tail(@)]
          /\ Goto(h, "take")
  /\ UNCHANGED <<skip, told, stopped, ending>>

\* The task in hand was purged: it is thrown away.
SkipTask(h) ==
  /\ pc[h] = "take" /\ skip[h]
  /\ hand' = [hand EXCEPT ![h] = NoTask]
  /\ skip' = [skip EXCEPT ![h] = FALSE]
  /\ Goto(h, "loop")
  /\ UNCHANGED <<list, told, stopped, ending>>

\* It becomes the current task and starts.
TakeTask(h) ==
  /\ pc[h] = "take" /\ ~skip[h]
  /\ Goto(h, "run")
  /\ UNCHANGED <<list, hand, skip, told, stopped, ending>>

\* It has completed.
DropTask(h) ==
  /\ pc[h] = "done"
  /\ hand' = [hand EXCEPT ![h] = NoTask]
  /\ skip' = [skip EXCEPT ![h] = FALSE]
  /\ told' = [told EXCEPT ![h] = FALSE]
  /\ Goto(h, "loop")

Leave(h) ==
  /\ pc[h] = "loop" /\ stopped[h]
  /\ Goto(h, "dead")
  /\ UNCHANGED <<list, hand, skip, told, stopped, ending>>

-----------------------------------------------------------------------------
(***************************************************************************)
(* What others do to a thread.  Start and queueTask take the place of the  *)
(* caller's own move, p, since the caller may be a thread of the item.     *)
(***************************************************************************)
StartThread(h, tasks, p) ==
  /\ p[h] = "off"
  /\ pc' = [p EXCEPT ![h] = "loop"]
  /\ list' = [list EXCEPT ![h] = tasks]
  /\ UNCHANGED <<hand, skip, told, stopped, ending>>

QueueTasks(h, tasks, p) ==
  /\ pc' = p
  /\ list' = [list EXCEPT ![h] = IF stopped[h] THEN @ ELSE @ \o tasks]
  /\ UNCHANGED <<hand, skip, told, stopped, ending>>

\* Slip: the current task is not told.
PurgeTasksQuietly(h) ==
  /\ list' = [list EXCEPT ![h] = <<>>]
  /\ skip' = [skip EXCEPT ![h] = TRUE]
  /\ UNCHANGED told

PurgeTasks(h) ==
  /\ list' = [list EXCEPT ![h] = <<>>]
  /\ skip' = [skip EXCEPT ![h] = TRUE]
  /\ told' = [told EXCEPT ![h] = @ \/ pc[h] \in Current]

(***************************************************************************)
(* The pool's DeleteThread task: the destructor purges the thread, stops   *)
(* it and joins it.                                                        *)
(***************************************************************************)
EndThread(h) ==
  /\ ending[h] = "queued"
  /\ ending' = [ending EXCEPT ![h] = "joining"]
  /\ stopped' = [stopped EXCEPT ![h] = TRUE]
  /\ PurgeTasks(h)
  /\ UNCHANGED <<pc, hand>>

JoinThread(h) ==
  /\ ending[h] = "joining" /\ pc[h] = "dead"
  /\ ending' = [ending EXCEPT ![h] = "no"]
  /\ skip' = [skip EXCEPT ![h] = FALSE]
  /\ stopped' = [stopped EXCEPT ![h] = FALSE]
  /\ Goto(h, "off")
  /\ UNCHANGED <<list, hand, told>>
=============================================================================
