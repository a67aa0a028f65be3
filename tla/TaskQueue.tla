----------------------------- MODULE TaskQueue -----------------------------
(***************************************************************************)
(* What a thread pool promises of its tasks, without its threads, mutexes  *)
(* and wake-ups (include/util_thread/ThreadPool.h).  Queued tasks start in *)
(* the order they came, at most NumWorkers of them run at a time, a forced *)
(* task runs beside them, and a task that has run, was refused or was      *)
(* purged never comes back.                                                *)
(***************************************************************************)
EXTENDS Naturals, Sequences, FiniteSets, Functions

CONSTANTS Queueable, Forcible, NumWorkers

Tasks == Queueable \union Forcible

VARIABLES
  waiting,  \* tasks to start, in order
  running,
  over      \* tasks that have run, or never will

vars == <<waiting, running, over>>

Fresh(t) == t \notin Range(waiting) \union running \union over

Init == waiting = <<>> /\ running = {} /\ over = {}

Enter(t) ==
  /\ Fresh(t)
  /\ waiting' = Append(waiting, t)
  /\ UNCHANGED <<running, over>>

Refuse(t) ==
  /\ Fresh(t)
  /\ over' = over \union {t}
  /\ UNCHANGED <<waiting, running>>

StartFirst ==
  /\ waiting # <<>>
  /\ Cardinality(running \ Forcible) < NumWorkers
  /\ running' = running \union {Head(waiting)}
  /\ waiting' = Tail(waiting)
  /\ UNCHANGED over

StartNow(t) ==
  /\ Fresh(t)
  /\ running' = running \union {t}
  /\ UNCHANGED <<waiting, over>>

Finish(t) ==
  /\ t \in running
  /\ running' = running \ {t}
  /\ over' = over \union {t}
  /\ UNCHANGED waiting

Purge ==
  /\ waiting' = <<>>
  /\ over' = over \union Range(waiting)
  /\ UNCHANGED running

Next ==
  \/ \E t \in Queueable : Enter(t) \/ Refuse(t)
  \/ \E t \in Forcible : StartNow(t)
  \/ \E t \in Tasks : Finish(t)
  \/ StartFirst \/ Purge

Spec == Init /\ [][Next]_vars
=============================================================================
