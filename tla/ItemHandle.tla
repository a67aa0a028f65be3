----------------------------- MODULE ItemHandle -----------------------------
(***************************************************************************)
(* Item handles: ItemHandle.cpp of usercore, as far as verifications, the  *)
(* stage of an item and its task group go.  A verification is one task     *)
(* (VerifyServiceTask.cpp) that ends with a verdict, good or bad, or with  *)
(* none at all.  One that finds files to download or to install goes on to *)
(* other stages: they are left out, and so are the other operations of a   *)
(* handle.                                                                 *)
(***************************************************************************)
EXTENDS ItemThread

VARIABLES
  thread,       \* m_pThread: a slot, or 0
  stage,        \* m_uiStage
  posted,       \* the verdict of a verification is in m_EventHistory
  pauseOnError, \* m_bPauseOnError
  group,        \* m_pGroup is set
  helper        \* the task group is in m_vHelperList

handleVars == <<thread, stage, posted, pauseOnError, group, helper>>

HandleTypeOK ==
  /\ thread \in [Items -> Slots \union {0}]
  /\ stage \in [Items -> Kinds]
  /\ posted \in [Items -> BOOLEAN]
  /\ pauseOnError \in [Items -> BOOLEAN]
  /\ group \in [Items -> BOOLEAN]
  /\ helper \in [Items -> BOOLEAN]

HandleInit ==
  /\ thread = [i \in Items |-> 0]
  /\ stage = [i \in Items |-> "none"]
  /\ posted = [i \in Items |-> FALSE]
  /\ pauseOnError = [i \in Items |-> FALSE]
  /\ group = [i \in Items |-> FALSE]
  /\ helper = [i \in Items |-> FALSE]

IsInStage(i) == stage[i] \notin {"none", "close"}
HasThread(i) == thread[i] # 0
ThreadOf(i) == <<i, thread[i]>>

\* registerTask, once for each of the tasks.
RegisterTasks(i, tasks, p) ==
  \/ HasThread(i) /\ QueueTasks(ThreadOf(i), tasks, p) /\ UNCHANGED thread
  \/ /\ ~HasThread(i)
     /\ \E s \in Slots : /\ StartThread(<<i, s>>, tasks, p)
                         /\ thread' = [thread EXCEPT ![i] = s]

\* completeStage(true)
Completion == <<"close", "none">>

-----------------------------------------------------------------------------
(***************************************************************************)
(* A task starts: setStage forgets the events of the last stage, but not   *)
(* for STAGE_NONE.                                                         *)
(***************************************************************************)
OnTaskStart(h) ==
  /\ TakeTask(h)
  /\ stage' = [stage EXCEPT ![Owner(h)] = hand[h]]
  /\ posted' = [posted EXCEPT ![Owner(h)] = @ /\ hand[h] = "none"]
  /\ UNCHANGED <<thread, pauseOnError, group, helper>>

\* Slip: the thread is given up, but not ended.
OnTaskCompleteLeaks(h) ==
  /\ DropTask(h)
  /\ thread' = [thread EXCEPT ![Owner(h)] = IF hand[h] = "none" THEN 0 ELSE @]
  /\ UNCHANGED <<ending, list, stopped, stage, posted, pauseOnError, group, helper>>

\* It has run.  The last task of a stage gives the thread up.
OnTaskComplete(h) ==
  /\ DropTask(h)
  /\ IF hand[h] = "none" /\ HasThread(Owner(h))
     THEN /\ ending' = [ending EXCEPT ![ThreadOf(Owner(h))] = "queued"]
          /\ thread' = [thread EXCEPT ![Owner(h)] = 0]
     ELSE UNCHANGED <<ending, thread>>
  /\ UNCHANGED <<list, stopped, stage, posted, pauseOnError, group, helper>>

BlankTask(h) ==
  /\ pc[h] = "run" /\ hand[h] \in {"close", "none"}
  /\ Goto(h, "done")
  /\ UNCHANGED <<list, hand, skip, told, stopped, ending, handleVars>>

\* GroupItemTask::doRun waits until somebody ends the wait.
GroupItemTask(h) ==
  /\ pc[h] = "run" /\ hand[h] = "wait" /\ told[h]
  /\ Goto(h, "done")
  /\ UNCHANGED <<list, hand, skip, told, stopped, ending, handleVars>>

(***************************************************************************)
(* A verification may end without a verdict: it raises no event and leaves *)
(* the item in its stage.  So it does when it was told to stop, when the   *)
(* mcf is bad once more after its header was downloaded, and when an       *)
(* exception was thrown, which checkMcf and its like swallow.              *)
(***************************************************************************)
VerifySilent(h) ==
  /\ pc[h] = "run" /\ hand[h] = "verify"
  /\ Goto(h, "done")
  /\ UNCHANGED <<list, hand, skip, told, stopped, ending, handleVars>>

(***************************************************************************)
(* finishVerify raises the verdict, and then completes the stage.          *)
(* The group, when it listens, goes on to its next item inside the event.  *)
(***************************************************************************)
FinishVerify(h) ==
  /\ pc[h] = "run" /\ hand[h] = "verify"
  /\ posted' = [posted EXCEPT ![Owner(h)] = TRUE]
  /\ Goto(h, IF helper[Owner(h)] THEN "good" ELSE "close")
  /\ UNCHANGED <<list, hand, skip, told, stopped, ending,
                 thread, stage, pauseOnError, group, helper>>

CompleteStage(h) ==
  /\ pc[h] = "close"
  /\ RegisterTasks(Owner(h), Completion, [pc EXCEPT ![h] = "done"])
  /\ UNCHANGED <<stage, posted, pauseOnError, group, helper>>

(***************************************************************************)
(* VerifyServiceTask::onError resets the stage, unless the item is to      *)
(* pause on an error, and raises the error.                                *)
(***************************************************************************)
OnError(h) ==
  /\ pc[h] = "run" /\ hand[h] = "verify"
  /\ posted' = [posted EXCEPT ![Owner(h)] = TRUE]
  /\ LET p == [pc EXCEPT ![h] = IF helper[Owner(h)] THEN "bad" ELSE "done"]
     IN IF pauseOnError[Owner(h)]
        THEN pc' = p /\ UNCHANGED <<list, hand, skip, told, stopped, ending, thread>>
        ELSE RegisterTasks(Owner(h), Completion, p)
  /\ UNCHANGED <<stage, pauseOnError, group, helper>>
=============================================================================
