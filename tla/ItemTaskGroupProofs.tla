------------------------ MODULE ItemTaskGroupProofs ------------------------
(***************************************************************************)
(* For any items, any number of threads of each, and whatever the user     *)
(* does: a handle and its threads agree.  And while the user leaves the    *)
(* group alone: one item at a time is verified, one caller at a time moves the   *)
(* indexes, and none is left behind but by the one race of addItem.        *)
(***************************************************************************)
EXTENDS ItemTaskGroup, FiniteSetTheorems, TLAPS

USE SlotAssumption, GroupAssumption

\* What a worker has in hand, and what a caller has still to start.
CallInv == \A c \in Callers : call[c] \in {"purge", "register"} => todo[c] # <<>>

PlaceInv ==
  /\ \A h \in Threads : pc[h] \in Current \union {"take"} => hand[h] \in Kinds
  /\ \A h \in Threads : pc[h] = "off" => ending[h] = "no" /\ ~stopped[h]

IInv == TypeOK /\ PlaceInv /\ CallInv /\ ThreadsOwned

-----------------------------------------------------------------------------
\* A thread is an item and a slot.
LEMMA ThreadParts ==
  ASSUME NEW h \in Threads
  PROVE  Owner(h) \in Items /\ h[2] \in Slots /\ h = <<Owner(h), h[2]>>
BY DEF Threads, Owner

\* The thread a handle points to is one of its item.
LEMMA ThreadOfItem ==
  ASSUME NEW i \in Items, HandleTypeOK, HasThread(i)
  PROVE  /\ ThreadOf(i) \in Threads /\ Owner(ThreadOf(i)) = i
         /\ ThreadOf(i)[2] = thread[i] /\ thread[i] \in Slots
BY DEF HandleTypeOK, HasThread, ThreadOf, Threads, Owner

\* registerTask starts a thread, or uses the one the handle has.
LEMMA Registering ==
  ASSUME ThreadTypeOK, HandleTypeOK, PlaceInv, ThreadsOwned,
         NEW i \in Items, NEW tasks \in Seq(Kinds), NEW p \in [Threads -> Places],
         \A h \in Threads : p[h] = pc[h] \/ (pc[h] \in Current /\ p[h] \in Current),
         RegisterTasks(i, tasks, p)
  PROVE  /\ ThreadTypeOK' /\ thread' \in [Items -> Slots \union {0}]
         /\ ThreadsOwned'
         /\ \A h \in Threads : pc'[h] = p[h] \/ pc'[h] = "loop"
         /\ \A h \in Threads : pc'[h] = "off" => ending'[h] = "no" /\ ~stopped'[h]
         /\ UNCHANGED <<hand, skip, told, stopped, ending>>
<1>1. CASE HasThread(i) /\ QueueTasks(ThreadOf(i), tasks, p) /\ UNCHANGED thread
  <2>1. list' \in [Threads -> Seq(Kinds)]
    BY <1>1, ThreadOfItem DEF QueueTasks, ThreadTypeOK
  <2>2. pc' = p /\ UNCHANGED <<hand, skip, told, stopped, ending, thread>>
    BY <1>1 DEF QueueTasks
  <2>3. \A h \in Threads : pc'[h] \in {"off", "dead"} <=> pc[h] \in {"off", "dead"}
    BY <2>2 DEF Current
  <2>4. \A h \in Threads : pc'[h] = "off" <=> pc[h] = "off"
    BY <2>2 DEF Current
  <2>5. ThreadTypeOK'
    BY <2>1, <2>2 DEF ThreadTypeOK
  <2>6. ThreadsOwned'
    BY <2>2, <2>3, <2>4 DEF ThreadsOwned
  <2> QED BY <2>2, <2>4, <2>5, <2>6 DEF HandleTypeOK, PlaceInv
<1>2. ASSUME ~HasThread(i), NEW s \in Slots, StartThread(<<i, s>>, tasks, p),
             thread' = [thread EXCEPT ![i] = s]
      PROVE  /\ ThreadTypeOK' /\ thread' \in [Items -> Slots \union {0}]
             /\ ThreadsOwned'
             /\ \A h \in Threads : pc'[h] = p[h] \/ pc'[h] = "loop"
             /\ \A h \in Threads : pc'[h] = "off" => ending'[h] = "no" /\ ~stopped'[h]
             /\ UNCHANGED <<hand, skip, told, stopped, ending>>
  <2> DEFINE g == <<i, s>>
  <2>1. g \in Threads /\ Owner(g) = i /\ g[2] = s
    BY DEF Threads, Owner
  <2>2. pc' = [p EXCEPT ![g] = "loop"] /\ UNCHANGED <<hand, skip, told, stopped, ending>>
    BY <1>2 DEF StartThread
  <2>3. list' \in [Threads -> Seq(Kinds)]
    BY <1>2, <2>1 DEF StartThread, ThreadTypeOK
  <2>4. pc[g] = "off" /\ ending[g] = "no" /\ ~stopped[g]
    BY <1>2, <2>1 DEF StartThread, PlaceInv, Current
  <2>5. ThreadTypeOK'
    BY <2>1, <2>2, <2>3 DEF ThreadTypeOK, Places
  <2>6. pc'[g] = "loop" /\ \A h \in Threads : h # g => pc'[h] = p[h]
    BY <2>1, <2>2
  <2>7. thread'[i] = s /\ \A j \in Items : j # i => thread'[j] = thread[j]
    BY <1>2 DEF HandleTypeOK
  <2>8. thread' \in [Items -> Slots \union {0}]
    BY <1>2 DEF HandleTypeOK
  <2>9. ASSUME NEW h \in Threads
        PROVE  /\ thread'[Owner(h)] = h[2] =>
                    pc'[h] \notin {"off", "dead"} /\ ending'[h] = "no" /\ ~stopped'[h]
               /\ pc'[h] # "off" => thread'[Owner(h)] = h[2] \/ ending'[h] # "no"
    <3>1. CASE h = g
      BY <3>1, <2>1, <2>2, <2>4, <2>6, <2>7
    <3>2. CASE h # g /\ Owner(h) = i
      <4>1. h[2] # s
        BY <3>2, <2>1, ThreadParts
      <4>2. thread[i] # h[2]
        BY <1>2, <3>2, ThreadParts DEF HasThread
      <4>3. pc[h] # "off" => ending[h] # "no"
        BY <3>2, <4>2 DEF ThreadsOwned
      <4>4. pc'[h] # "off" => pc[h] # "off"
        BY <3>2, <2>6 DEF Current
      <4> QED BY <3>2, <4>1, <4>3, <4>4, <2>2, <2>7
    <3>3. CASE Owner(h) # i
      <4>1. h # g /\ thread'[Owner(h)] = thread[Owner(h)]
        BY <3>3, <2>1, <2>7, ThreadParts
      <4>2. /\ pc'[h] \in {"off", "dead"} <=> pc[h] \in {"off", "dead"}
            /\ pc'[h] = "off" <=> pc[h] = "off"
        BY <4>1, <2>6 DEF Current
      <4> QED BY <4>1, <4>2, <2>2 DEF ThreadsOwned
    <3> QED BY <3>1, <3>2, <3>3
  <2>10. \A h \in Threads : pc'[h] = "off" => pc[h] = "off"
    BY <2>6 DEF Current
  <2>11. ThreadsOwned'
    BY <2>9 DEF ThreadsOwned
  <2> QED BY <2>2, <2>5, <2>6, <2>8, <2>10, <2>11 DEF PlaceInv
<1> QED BY <1>1, <1>2 DEF RegisterTasks

-----------------------------------------------------------------------------
(***************************************************************************)
(* The steps of a worker.                                                  *)
(***************************************************************************)
RestTypeOK ==
  /\ waitingList \in Seq(Items)
  /\ activeItem \in 0..MaxIndex
  /\ lastActive \in 0..MaxIndex
  /\ started \in BOOLEAN
  /\ final \in BOOLEAN
  /\ wizard \in BOOLEAN
  /\ toAdd \subseteq Items
  /\ adder \in {<<p>> : p \in {"find", "final", "over"}}
              \union ({"push", "check"} \X Items)
  /\ call \in [Callers -> {"idle", "test", "drain", "drained", "advance", "purge", "register"}]
  /\ todo \in [Callers -> Seq(Items)]
  /\ verifies \in 0..MaxVerifies
  /\ presses \in 0..MaxPresses
  /\ crashed \in BOOLEAN

LEMMA TypeParts == TypeOK <=> ThreadTypeOK /\ HandleTypeOK /\ RestTypeOK
BY DEF TypeOK, RestTypeOK

LEMMA TypePartsNext ==
  ASSUME ThreadTypeOK', HandleTypeOK', RestTypeOK'
  PROVE  TypeOK'
BY DEF TypeOK, RestTypeOK

Elsewhere == UNCHANGED <<groupVars, adderVars, callVars, userVars, crashed>>

LEMMA ElsewhereKept ==
  ASSUME IInv, Elsewhere
  PROVE  RestTypeOK' /\ CallInv'
BY TypeParts DEF IInv, CallInv, Elsewhere, groupVars, adderVars, callVars, userVars, RestTypeOK

\* A worker only moves, and not from or to the places of no thread.
LEMMA MovedOn ==
  ASSUME IInv, ThreadTypeOK', NEW h \in Threads, NEW q \in Places,
         UNCHANGED <<stopped, ending, thread>>, HandleTypeOK', RestTypeOK', CallInv',
         pc' = [pc EXCEPT ![h] = q],
         pc[h] \notin {"off", "dead"}, q \notin {"off", "dead"},
         q \in Current \union {"take"} => hand'[h] \in Kinds,
         \A g \in Threads : g # h => hand'[g] = hand[g]
  PROVE  IInv'
<1>1. pc'[h] = q /\ \A g \in Threads : g # h => pc'[g] = pc[g]
  BY TypeParts DEF IInv, ThreadTypeOK
<1>2. PlaceInv'
  BY <1>1 DEF IInv, PlaceInv
<1>3. ThreadsOwned'
  BY <1>1 DEF IInv, ThreadsOwned
<1> QED BY <1>2, <1>3, TypePartsNext DEF IInv

\* And the handle is not its concern.
LEMMA HandleKept ==
  ASSUME IInv, UNCHANGED handleVars
  PROVE  HandleTypeOK' /\ UNCHANGED thread
BY TypeParts DEF IInv, HandleTypeOK, handleVars

LEMMA LoopKept ==
  ASSUME IInv, NEW h \in Threads,
         ClearFlag(h) \/ PopTask(h) \/ SkipTask(h), UNCHANGED handleVars, Elsewhere
  PROVE  IInv'
<1>1. CASE ClearFlag(h)
  <2>1. ThreadTypeOK'
    BY <1>1, TypeParts DEF IInv, ThreadTypeOK, ClearFlag, Goto, Places
  <2> QED BY <1>1, <2>1, MovedOn, HandleKept, ElsewhereKept DEF ClearFlag, Goto, Places, Current
<1>2. CASE PopTask(h)
  <2>1. CASE list[h] = <<>>
    <3>1. ThreadTypeOK'
      BY <1>2, <2>1, TypeParts DEF IInv, ThreadTypeOK, PopTask, Goto, Places
    <3> QED BY <1>2, <2>1, <3>1, MovedOn, HandleKept, ElsewhereKept DEF PopTask, Goto, Places, Current
  <2>2. CASE list[h] # <<>>
    <3>1. list[h] \in Seq(Kinds)
      BY TypeParts DEF IInv, ThreadTypeOK
    <3>2. Head(list[h]) \in Kinds /\ Tail(list[h]) \in Seq(Kinds)
      BY <3>1, <2>2
    <3>3. /\ hand' = [hand EXCEPT ![h] = Head(list[h])]
          /\ list' = [list EXCEPT ![h] = Tail(list[h])]
          /\ pc' = [pc EXCEPT ![h] = "take"]
          /\ UNCHANGED <<skip, told, stopped, ending>>
      BY <1>2, <2>2 DEF PopTask, Goto
    <3>4. ThreadTypeOK'
      BY <3>2, <3>3, TypeParts DEF IInv, ThreadTypeOK, Places
    <3>5. hand'[h] \in Kinds /\ \A g \in Threads : g # h => hand'[g] = hand[g]
      BY <3>2, <3>3, TypeParts DEF IInv, ThreadTypeOK
    <3> QED BY <1>2, <3>3, <3>4, <3>5, MovedOn, HandleKept, ElsewhereKept DEF PopTask, Places
  <2> QED BY <2>1, <2>2
<1>3. CASE SkipTask(h)
  <2>1. ThreadTypeOK'
    BY <1>3, TypeParts DEF IInv, ThreadTypeOK, SkipTask, Goto, Places
  <2>2. \A g \in Threads : g # h => hand'[g] = hand[g]
    BY <1>3, TypeParts DEF IInv, ThreadTypeOK, SkipTask
  <2> QED BY <1>3, <2>1, <2>2, MovedOn, HandleKept, ElsewhereKept DEF SkipTask, Goto, Places, Current
<1> QED BY <1>1, <1>2, <1>3

\* A worker that leaves its loop was stopped, so no handle has it.
LEMMA LeaveKept ==
  ASSUME IInv, NEW h \in Threads, Leave(h), UNCHANGED handleVars, Elsewhere
  PROVE  IInv'
<1>1. ThreadTypeOK'
  BY TypeParts DEF IInv, ThreadTypeOK, Leave, Goto, Places
<1>2. pc'[h] = "dead" /\ \A g \in Threads : g # h => pc'[g] = pc[g]
  BY TypeParts DEF IInv, ThreadTypeOK, Leave, Goto
<1>3. PlaceInv'
  BY <1>2 DEF IInv, PlaceInv, Leave, Current
<1>4. thread[Owner(h)] # h[2]
  BY DEF IInv, ThreadsOwned, Leave
<1>5. ThreadsOwned'
  BY <1>2, <1>4 DEF IInv, ThreadsOwned, Leave, handleVars
<1>6. HandleTypeOK'
  BY TypeParts DEF IInv, HandleTypeOK, handleVars
<1> QED BY <1>1, <1>3, <1>5, <1>6, TypePartsNext, ElsewhereKept DEF IInv

LEMMA StartKept ==
  ASSUME IInv, NEW h \in Threads, OnTaskStart(h), Elsewhere
  PROVE  IInv'
<1>1. pc' = [pc EXCEPT ![h] = "run"] /\ pc[h] = "take" /\ hand[h] \in Kinds
  BY DEF OnTaskStart, TakeTask, Goto, IInv, PlaceInv
<1>2. UNCHANGED <<list, hand, skip, told, stopped, ending, thread, pauseOnError, group, helper>>
  BY DEF OnTaskStart, TakeTask
<1>3. ThreadTypeOK'
  BY <1>1, <1>2, TypeParts DEF IInv, ThreadTypeOK, Places
<1>4. HandleTypeOK'
  <2>1. Owner(h) \in Items
    BY ThreadParts
  <2>2. stage' \in [Items -> Kinds]
    BY <2>1, <1>1, TypeParts DEF OnTaskStart, IInv, HandleTypeOK
  <2>3. (posted[Owner(h)] /\ hand[h] = "none") \in BOOLEAN
    OBVIOUS
  <2>4. posted' \in [Items -> BOOLEAN]
    BY <2>1, <2>3, TypeParts DEF OnTaskStart, IInv, HandleTypeOK
  <2> QED BY <2>2, <2>4, <1>2, TypeParts DEF IInv, HandleTypeOK
<1>5. pc'[h] = "run" /\ \A g \in Threads : g # h => pc'[g] = pc[g]
  BY <1>1, TypeParts DEF IInv, ThreadTypeOK
<1>6. PlaceInv'
  BY <1>1, <1>2, <1>5 DEF IInv, PlaceInv
<1>7. ThreadsOwned'
  BY <1>1, <1>2, <1>5 DEF IInv, ThreadsOwned
<1> QED BY <1>3, <1>4, <1>6, <1>7, TypePartsNext, ElsewhereKept DEF IInv

\* The last task of a stage hands the thread of the handle to the pool.
LEMMA CompleteKept ==
  ASSUME IInv, NEW h \in Threads, OnTaskComplete(h), Elsewhere
  PROVE  IInv'
<1>1. pc' = [pc EXCEPT ![h] = "loop"] /\ pc[h] = "done"
  BY DEF OnTaskComplete, DropTask, Goto
<1>2. /\ hand' = [hand EXCEPT ![h] = NoTask]
      /\ skip' = [skip EXCEPT ![h] = FALSE]
      /\ told' = [told EXCEPT ![h] = FALSE]
      /\ UNCHANGED <<list, stopped, stage, posted, pauseOnError, group, helper>>
  BY DEF OnTaskComplete, DropTask
<1>3. pc'[h] = "loop" /\ \A g \in Threads : g # h => pc'[g] = pc[g]
  BY <1>1, TypeParts DEF IInv, ThreadTypeOK
<1>4. CASE hand[h] = "none" /\ HasThread(Owner(h))
  <2> DEFINE g == ThreadOf(Owner(h))
  <2>1. Owner(h) \in Items
    BY ThreadParts
  <2>2. g \in Threads /\ Owner(g) = Owner(h) /\ g[2] = thread[Owner(h)]
    BY <1>4, <2>1, ThreadOfItem, TypeParts DEF IInv
  <2>3. /\ ending' = [ending EXCEPT ![g] = "queued"]
        /\ thread' = [thread EXCEPT ![Owner(h)] = 0]
    BY <1>4 DEF OnTaskComplete
  <2>4. ThreadTypeOK'
    BY <1>1, <1>2, <2>2, <2>3, TypeParts DEF IInv, ThreadTypeOK, Places, Kinds
  <2>5. HandleTypeOK'
    BY <1>2, <2>1, <2>3, TypeParts DEF IInv, HandleTypeOK
  <2>6. pc[g] # "off"
    BY <2>2 DEF IInv, ThreadsOwned
  <2>7. ending'[g] = "queued" /\ \A f \in Threads : f # g => ending'[f] = ending[f]
    BY <2>2, <2>3, TypeParts DEF IInv, ThreadTypeOK
  <2>8. thread'[Owner(h)] = 0
        /\ \A i \in Items : i # Owner(h) => thread'[i] = thread[i]
    BY <2>1, <2>3, TypeParts DEF IInv, HandleTypeOK
  <2>9. pc'[g] # "off"
    BY <2>2, <2>6, <1>3
  <2>10. \A f \in Threads : hand'[f] = hand[f] \/ f = h
    BY <1>2, TypeParts DEF IInv, ThreadTypeOK
  <2>11. PlaceInv'
    <3>1. \A f \in Threads : pc'[f] \in Current \union {"take"} => hand'[f] \in Kinds
      BY <1>3, <2>10 DEF IInv, PlaceInv, Current
    <3>2. \A f \in Threads : pc'[f] = "off" => ending'[f] = "no" /\ ~stopped'[f]
      BY <1>2, <1>3, <2>7, <2>9 DEF IInv, PlaceInv
    <3> QED BY <3>1, <3>2 DEF PlaceInv
  <2>12. ASSUME NEW f \in Threads
         PROVE  /\ thread'[Owner(f)] = f[2] =>
                     pc'[f] \notin {"off", "dead"} /\ ending'[f] = "no" /\ ~stopped'[f]
                /\ pc'[f] # "off" => thread'[Owner(f)] = f[2] \/ ending'[f] # "no"
    <3>1. Owner(f) \in Items /\ f[2] \in Slots /\ f = <<Owner(f), f[2]>>
      BY ThreadParts
    <3>2. g = <<Owner(h), g[2]>>
      BY <2>2, ThreadParts
    <3>3. pc'[f] \in {"off", "dead"} <=> pc[f] \in {"off", "dead"}
      BY <1>1, <1>3
    <3>4. pc'[f] = "off" <=> pc[f] = "off"
      BY <1>1, <1>3
    <3>5. CASE Owner(f) = Owner(h)
      <4>1. thread'[Owner(f)] # f[2]
        BY <3>1, <3>5, <2>8
      <4>2. CASE f[2] = g[2]
        BY <4>1, <4>2, <3>1, <3>2, <3>5, <2>7
      <4>3. CASE f[2] # g[2]
        <5>1. thread[Owner(f)] # f[2] /\ f # g
          BY <4>3, <3>5, <2>2
        <5> QED BY <4>1, <5>1, <3>4, <2>7 DEF IInv, ThreadsOwned
      <4> QED BY <4>2, <4>3
    <3>6. CASE Owner(f) # Owner(h)
      <4>1. f # g /\ thread'[Owner(f)] = thread[Owner(f)]
        BY <3>6, <3>1, <2>2, <2>8
      <4> QED BY <4>1, <3>3, <3>4, <2>7, <1>2 DEF IInv, ThreadsOwned
    <3> QED BY <3>5, <3>6
  <2>13. ThreadsOwned'
    BY <2>12 DEF ThreadsOwned
  <2> QED BY <2>4, <2>5, <2>11, <2>13, TypePartsNext, ElsewhereKept DEF IInv
<1>5. CASE ~(hand[h] = "none" /\ HasThread(Owner(h)))
  <2>1. UNCHANGED <<ending, thread>>
    BY <1>5 DEF OnTaskComplete
  <2>2. ThreadTypeOK'
    BY <1>1, <1>2, <2>1, TypeParts DEF IInv, ThreadTypeOK, Places
  <2>3. \A f \in Threads : hand'[f] = hand[f] \/ f = h
    BY <1>2, TypeParts DEF IInv, ThreadTypeOK
  <2> QED BY <1>1, <1>2, <2>1, <2>2, <2>3, MovedOn, HandleKept, ElsewhereKept DEF handleVars, Current, Places
<1> QED BY <1>4, <1>5
\* A call is at one of its steps, and one that starts an item has one to start.
LEMMA CallMoved ==
  ASSUME IInv, NEW c \in Callers,
         NEW at \in {"idle", "test", "drain", "drained", "advance", "purge", "register"},
         Step(c, at),
         todo' \in [Callers -> Seq(Items)],
         at \in {"purge", "register"} => todo'[c] # <<>>,
         \A d \in Callers : d # c => todo'[d] = todo[d]
  PROVE  /\ call' \in [Callers -> {"idle", "test", "drain", "drained",
                                   "advance", "purge", "register"}]
         /\ CallInv'
<1>1. call \in [Callers -> {"idle", "test", "drain", "drained",
                            "advance", "purge", "register"}]
  BY DEF IInv, TypeOK
<1>2. call'[c] = at /\ \A d \in Callers : d # c => call'[d] = call[d]
  BY <1>1 DEF Step
<1> QED BY <1>1, <1>2 DEF IInv, CallInv, Step

\* Queueing tasks keeps all, whoever the caller is.
LEMMA Registered ==
  ASSUME IInv, NEW i \in Items, NEW tasks \in Seq(Kinds), NEW p \in [Threads -> Places],
         \A h \in Threads : p[h] = pc[h] \/ (pc[h] \in Current /\ p[h] \in Current),
         RegisterTasks(i, tasks, p),
         stage' \in [Items -> Kinds], posted' \in [Items -> BOOLEAN],
         pauseOnError' \in [Items -> BOOLEAN], group' \in [Items -> BOOLEAN],
         helper' \in [Items -> BOOLEAN], RestTypeOK', CallInv'
  PROVE  IInv'
<1>1. /\ ThreadTypeOK' /\ thread' \in [Items -> Slots \union {0}]
      /\ ThreadsOwned'
      /\ \A h \in Threads : pc'[h] = p[h] \/ pc'[h] = "loop"
      /\ \A h \in Threads : pc'[h] = "off" => ending'[h] = "no" /\ ~stopped'[h]
      /\ UNCHANGED <<hand, skip, told, stopped, ending>>
  BY Registering, TypeParts DEF IInv
<1>2. HandleTypeOK'
  BY <1>1 DEF HandleTypeOK
<1>3. PlaceInv'
  BY <1>1 DEF IInv, PlaceInv, Current
<1> QED BY <1>1, <1>2, <1>3, TypePartsNext DEF IInv

LEMMA CompletionTasks == Completion \in Seq(Kinds)
BY DEF Completion, Kinds

\* A task ends, or an event of a verdict returns.
LEMMA TaskEndKept ==
  ASSUME IInv, NEW h \in Threads,
         BlankTask(h) \/ GroupItemTask(h) \/ VerifySilent(h), Elsewhere
  PROVE  IInv'
<1>1. /\ pc' = [pc EXCEPT ![h] = "done"] /\ pc[h] = "run"
      /\ UNCHANGED <<list, hand, skip, told, stopped, ending, handleVars>>
  BY DEF BlankTask, GroupItemTask, VerifySilent, Goto
<1>2. ThreadTypeOK'
  BY <1>1, TypeParts DEF IInv, ThreadTypeOK, Places
<1>3. hand'[h] \in Kinds
  BY <1>1 DEF IInv, PlaceInv, Current
<1> QED BY <1>1, <1>2, <1>3, MovedOn, HandleKept, ElsewhereKept DEF Places

LEMMA EventReturnsKept ==
  ASSUME IInv, NEW h \in Threads, EventReturns(h)
  PROVE  IInv'
<1> DEFINE q == IF pc[h] = "good" THEN "close" ELSE "done"
<1>1. /\ pc' = [pc EXCEPT ![h] = q] /\ pc[h] \in {"good", "bad"}
      /\ UNCHANGED <<list, hand, skip, told, stopped, ending, handleVars>>
      /\ Elsewhere
  BY DEF EventReturns, Goto, Elsewhere
<1>2. q \in Places /\ q \notin {"off", "dead"}
  BY DEF Places
<1>3. ThreadTypeOK'
  BY <1>1, <1>2, TypeParts DEF IInv, ThreadTypeOK
<1>4. hand'[h] \in Kinds
  BY <1>1 DEF IInv, PlaceInv, Current
<1> QED BY <1>1, <1>2, <1>3, <1>4, MovedOn, HandleKept, ElsewhereKept

LEMMA CompleteStageKept ==
  ASSUME IInv, NEW h \in Threads, CompleteStage(h), Elsewhere
  PROVE  IInv'
<1> DEFINE p == [pc EXCEPT ![h] = "done"]
<1>1. /\ pc[h] = "close" /\ RegisterTasks(Owner(h), Completion, p)
      /\ UNCHANGED <<stage, posted, pauseOnError, group, helper>>
  BY DEF CompleteStage
<1>2. p \in [Threads -> Places]
  BY TypeParts DEF IInv, ThreadTypeOK, Places
<1>3. \A g \in Threads : p[g] = pc[g] \/ (pc[g] \in Current /\ p[g] \in Current)
  <2>1. p[h] = "done" /\ \A g \in Threads : g # h => p[g] = pc[g]
    BY TypeParts DEF IInv, ThreadTypeOK
  <2>2. pc[h] \in Current /\ p[h] \in Current
    BY <1>1, <2>1 DEF Current
  <2> QED BY <2>1, <2>2
<1>4. /\ stage' \in [Items -> Kinds] /\ posted' \in [Items -> BOOLEAN]
      /\ pauseOnError' \in [Items -> BOOLEAN] /\ group' \in [Items -> BOOLEAN]
      /\ helper' \in [Items -> BOOLEAN]
  BY <1>1, TypeParts DEF IInv, HandleTypeOK
<1> HIDE DEF p
<1> QED BY <1>1, <1>2, <1>3, <1>4, CompletionTasks, ThreadParts, ElsewhereKept, Registered

\* A verdict, and the call of nextItem inside its event.
VerdictCall(h) ==
  /\ IF helper[Owner(h)] THEN Step(h, "test") ELSE UNCHANGED call
  /\ UNCHANGED todo /\ ElsewhereUnchanged

LEMMA VerdictCallKept ==
  ASSUME IInv, NEW h \in Threads, VerdictCall(h)
  PROVE  RestTypeOK' /\ CallInv'
<1>1. /\ UNCHANGED <<todo, groupVars, adderVars, userVars, crashed>>
      /\ todo' \in [Callers -> Seq(Items)] /\ h \in Callers
  BY TypeParts DEF IInv, RestTypeOK, VerdictCall, ElsewhereUnchanged, Callers
<1>2. /\ call' \in [Callers -> {"idle", "test", "drain", "drained",
                                "advance", "purge", "register"}]
      /\ CallInv'
  <2>1. CASE helper[Owner(h)]
    BY <2>1, <1>1, CallMoved DEF VerdictCall
  <2>2. CASE ~helper[Owner(h)]
    BY <2>2, <1>1, TypeParts DEF VerdictCall, IInv, RestTypeOK, CallInv
  <2> QED BY <2>1, <2>2
<1> QED BY <1>1, <1>2, TypeParts
        DEF IInv, RestTypeOK, groupVars, adderVars, userVars

LEMMA PostedKept ==
  ASSUME IInv, NEW h \in Threads, posted' = [posted EXCEPT ![Owner(h)] = TRUE],
         UNCHANGED <<stage, pauseOnError, group, helper>>
  PROVE  /\ stage' \in [Items -> Kinds] /\ posted' \in [Items -> BOOLEAN]
         /\ pauseOnError' \in [Items -> BOOLEAN] /\ group' \in [Items -> BOOLEAN]
         /\ helper' \in [Items -> BOOLEAN]
BY TypeParts DEF IInv, HandleTypeOK

LEMMA FinishVerifyKept ==
  ASSUME IInv, NEW h \in Threads, FinishVerify(h), VerdictCall(h)
  PROVE  IInv'
<1> DEFINE q == IF helper[Owner(h)] THEN "good" ELSE "close"
<1>1. /\ pc[h] = "run" /\ pc' = [pc EXCEPT ![h] = q]
      /\ posted' = [posted EXCEPT ![Owner(h)] = TRUE]
      /\ UNCHANGED <<list, hand, skip, told, stopped, ending,
                     thread, stage, pauseOnError, group, helper>>
  BY DEF FinishVerify, Goto
<1>2. q \in Places /\ q \notin {"off", "dead"}
  BY DEF Places
<1>3. ThreadTypeOK'
  BY <1>1, <1>2, TypeParts DEF IInv, ThreadTypeOK
<1>4. HandleTypeOK'
  BY <1>1, PostedKept, TypeParts DEF IInv, HandleTypeOK
<1>5. hand'[h] \in Kinds
  BY <1>1 DEF IInv, PlaceInv, Current
<1> QED BY <1>1, <1>2, <1>3, <1>4, <1>5, VerdictCallKept, MovedOn

LEMMA OnErrorKept ==
  ASSUME IInv, NEW h \in Threads, OnError(h), VerdictCall(h)
  PROVE  IInv'
<1> DEFINE q == IF helper[Owner(h)] THEN "bad" ELSE "done"
           p == [pc EXCEPT ![h] = q]
<1>1. /\ pc[h] = "run"
      /\ posted' = [posted EXCEPT ![Owner(h)] = TRUE]
      /\ UNCHANGED <<stage, pauseOnError, group, helper>>
  BY DEF OnError
<1>2. q \in Places /\ q \notin {"off", "dead"} /\ q \in Current
  BY DEF Places, Current
<1>3. CASE pauseOnError[Owner(h)]
  <2>1. pc' = p /\ UNCHANGED <<list, hand, skip, told, stopped, ending, thread>>
    BY <1>3 DEF OnError
  <2>2. ThreadTypeOK'
    BY <2>1, <1>2, TypeParts DEF IInv, ThreadTypeOK
  <2>3. HandleTypeOK'
    BY <2>1, <1>1, PostedKept, TypeParts DEF IInv, HandleTypeOK
  <2>4. hand'[h] \in Kinds
    BY <1>1, <2>1 DEF IInv, PlaceInv, Current
  <2> QED BY <1>1, <1>2, <2>1, <2>2, <2>3, <2>4, VerdictCallKept, MovedOn
<1>4. CASE ~pauseOnError[Owner(h)]
  <2>1. RegisterTasks(Owner(h), Completion, p)
    BY <1>4 DEF OnError
  <2>2. p \in [Threads -> Places]
    BY <1>2, TypeParts DEF IInv, ThreadTypeOK
  <2>3. pc[h] \in Current
    BY <1>1 DEF Current
  <2>4. \A g \in Threads : p[g] = pc[g] \/ (pc[g] \in Current /\ p[g] \in Current)
    <3>1. p[h] = q /\ \A g \in Threads : g # h => p[g] = pc[g]
      BY TypeParts DEF IInv, ThreadTypeOK
    <3>2. p[h] \in Current
      BY <3>1, <1>2
    <3> QED BY <2>3, <3>1, <3>2
  <2> HIDE DEF p
  <2> QED BY <1>1, <2>1, <2>2, <2>4, CompletionTasks, ThreadParts, PostedKept,
             VerdictCallKept, Registered
<1> QED BY <1>3, <1>4

\* Every step of a worker.
LEMMA WorkerKept ==
  ASSUME IInv, NEW h \in Threads, Worker(h)
  PROVE  IInv'
<1>1. CASE /\ ClearFlag(h) \/ PopTask(h) \/ SkipTask(h) \/ Leave(h)
           /\ UNCHANGED <<handleVars, callVars>> /\ ElsewhereUnchanged
  <2>1. Elsewhere /\ UNCHANGED handleVars
    BY <1>1 DEF Elsewhere, ElsewhereUnchanged
  <2> QED BY <1>1, <2>1, LoopKept, LeaveKept
<1>2. CASE /\ \/ OnTaskStart(h) \/ OnTaskComplete(h)
              \/ BlankTask(h) \/ GroupItemTask(h)
              \/ VerifySilent(h) \/ CompleteStage(h)
           /\ UNCHANGED callVars /\ ElsewhereUnchanged
  <2>1. Elsewhere
    BY <1>2 DEF Elsewhere, ElsewhereUnchanged
  <2> QED BY <1>2, <2>1, StartKept, CompleteKept, TaskEndKept, CompleteStageKept
<1>3. CASE /\ FinishVerify(h) \/ OnError(h)
           /\ IF helper[Owner(h)] THEN Step(h, "test") ELSE UNCHANGED call
           /\ UNCHANGED todo /\ ElsewhereUnchanged
  <2>1. VerdictCall(h)
    BY <1>3 DEF VerdictCall
  <2> QED BY <1>3, <2>1, FinishVerifyKept, OnErrorKept
<1>4. CASE EventReturns(h)
  BY <1>4, EventReturnsKept
<1> QED BY <1>1, <1>2, <1>3, <1>4 DEF Worker

-----------------------------------------------------------------------------
(***************************************************************************)
(* The pool, which ends only threads that were given up.                   *)
(***************************************************************************)
LEMMA EndKept ==
  ASSUME IInv, NEW h \in Threads, EndThread(h), UNCHANGED handleVars, Elsewhere
  PROVE  IInv'
<1>1. /\ ending[h] = "queued" /\ ending' = [ending EXCEPT ![h] = "joining"]
      /\ stopped' = [stopped EXCEPT ![h] = TRUE]
      /\ UNCHANGED <<pc, hand, thread>>
  BY DEF EndThread, handleVars
<1>2. ThreadTypeOK'
  <2>1. list' \in [Threads -> Seq(Kinds)] /\ skip' \in [Threads -> BOOLEAN]
    BY TypeParts DEF IInv, ThreadTypeOK, EndThread, PurgeTasks
  <2>2. (told[h] \/ pc[h] \in Current) \in BOOLEAN
    OBVIOUS
  <2>3. told' \in [Threads -> BOOLEAN]
    BY <2>2, TypeParts DEF IInv, ThreadTypeOK, EndThread, PurgeTasks
  <2> QED BY <1>1, <2>1, <2>3, TypeParts DEF IInv, ThreadTypeOK
<1>3. /\ ending'[h] = "joining" /\ \A g \in Threads : g # h => ending'[g] = ending[g]
      /\ \A g \in Threads : g # h => stopped'[g] = stopped[g]
  BY <1>1, TypeParts DEF IInv, ThreadTypeOK
<1>4. pc[h] # "off" /\ thread[Owner(h)] # h[2]
  BY <1>1 DEF IInv, PlaceInv, ThreadsOwned
<1>5. PlaceInv'
  BY <1>1, <1>3, <1>4 DEF IInv, PlaceInv
<1>6. ThreadsOwned'
  BY <1>1, <1>3, <1>4 DEF IInv, ThreadsOwned
<1> QED BY <1>2, <1>5, <1>6, HandleKept, TypePartsNext, ElsewhereKept DEF IInv

LEMMA JoinKept ==
  ASSUME IInv, NEW h \in Threads, JoinThread(h), UNCHANGED handleVars, Elsewhere
  PROVE  IInv'
<1>1. /\ pc[h] = "dead" /\ pc' = [pc EXCEPT ![h] = "off"]
      /\ ending' = [ending EXCEPT ![h] = "no"]
      /\ skip' = [skip EXCEPT ![h] = FALSE]
      /\ stopped' = [stopped EXCEPT ![h] = FALSE]
      /\ UNCHANGED <<list, hand, told, thread>>
  BY DEF JoinThread, Goto, handleVars
<1>2. ThreadTypeOK'
  BY <1>1, TypeParts DEF IInv, ThreadTypeOK, Places
<1>3. /\ pc'[h] = "off" /\ ending'[h] = "no" /\ stopped'[h] = FALSE
      /\ \A g \in Threads : g # h => /\ pc'[g] = pc[g] /\ ending'[g] = ending[g]
                                     /\ stopped'[g] = stopped[g]
  BY <1>1, TypeParts DEF IInv, ThreadTypeOK
<1>4. thread[Owner(h)] # h[2]
  BY <1>1 DEF IInv, ThreadsOwned
<1>5. PlaceInv'
  BY <1>1, <1>3 DEF IInv, PlaceInv, Current
<1>6. ThreadsOwned'
  BY <1>1, <1>3, <1>4 DEF IInv, ThreadsOwned
<1> QED BY <1>2, <1>5, <1>6, HandleKept, TypePartsNext, ElsewhereKept DEF IInv

LEMMA ThreadPoolKept ==
  ASSUME IInv, NEW h \in Threads, ThreadPool(h)
  PROVE  IInv'
<1>1. Elsewhere /\ UNCHANGED handleVars
  BY DEF ThreadPool, Elsewhere, ElsewhereUnchanged
<1> QED BY <1>1, EndKept, JoinKept DEF ThreadPool

-----------------------------------------------------------------------------
(***************************************************************************)
(* The group.  No step of it starts or ends a thread, but for the last one *)
(* of nextItem.                                                            *)
(***************************************************************************)
LEMMA NoThreadMoves ==
  ASSUME IInv, UNCHANGED <<pc, hand, stopped, ending, thread>>,
         ThreadTypeOK', HandleTypeOK', RestTypeOK', CallInv'
  PROVE  IInv'
<1>1. PlaceInv' /\ ThreadsOwned'
  BY DEF IInv, PlaceInv, ThreadsOwned
<1> QED BY <1>1, TypePartsNext DEF IInv

LEMMA ThreadsAlone ==
  ASSUME IInv, UNCHANGED threadVars
  PROVE  ThreadTypeOK' /\ UNCHANGED <<pc, hand, stopped, ending>>
BY TypeParts DEF IInv, ThreadTypeOK, threadVars

LEMMA CancelKept ==
  ASSUME IInv, CancelAll
  PROVE  /\ ThreadTypeOK' /\ HandleTypeOK' /\ waitingList' \in Seq(Items)
         /\ UNCHANGED <<pc, hand, stopped, ending, thread,
                        activeItem, lastActive, started, final>>
<1>1. /\ \A h \in Threads : (\/ told[h]
                             \/ /\ Owner(h) \in Listed /\ h = ThreadOf(Owner(h))
                                /\ stage[Owner(h)] = "wait" /\ Waits(h)) \in BOOLEAN
      /\ \A i \in Items : (group[i] /\ i \notin Listed) \in BOOLEAN
  OBVIOUS
<1>2. told' \in [Threads -> BOOLEAN]
  BY <1>1 DEF CancelAll
<1>3. group' \in [Items -> BOOLEAN]
  BY <1>1 DEF CancelAll
<1>4. /\ waitingList' = <<>>
      /\ UNCHANGED <<pc, list, hand, skip, stopped, ending, thread, stage, posted,
                     pauseOnError, helper, activeItem, lastActive, started, final>>
  BY DEF CancelAll
<1>5. ThreadTypeOK'
  BY <1>2, <1>4, TypeParts DEF IInv, ThreadTypeOK
<1>6. HandleTypeOK'
  BY <1>3, <1>4, TypeParts DEF IInv, HandleTypeOK
<1> QED BY <1>4, <1>5, <1>6

LEMMA NextIndex == ASSUME NEW x \in 0..MaxIndex PROVE Plus1(x) \in 0..MaxIndex
<1>1. (x + 1) % (MaxIndex + 1) \in 0..MaxIndex
  OBVIOUS
<1> QED BY <1>1 DEF Plus1

LEMMA NextItemKept ==
  ASSUME IInv, NEW c \in Callers, NextItem(c)
  PROVE  IInv'
<1> DEFINE at == IF Plus1(activeItem) >= Len(waitingList) THEN "drain" ELSE "advance"
<1>1. /\ Step(c, at)
      /\ UNCHANGED <<threadVars, thread, stage, posted, pauseOnError, group,
                     groupVars, adderVars, todo, userVars, crashed>>
  BY DEF NextItem
<1>2. todo' \in [Callers -> Seq(Items)]
  BY <1>1, TypeParts DEF IInv, RestTypeOK
<1>3. at \in {"idle", "test", "drain", "drained", "advance", "purge", "register"}
      /\ at \notin {"purge", "register"}
  OBVIOUS
<1> HIDE DEF at
<1>4. /\ call' \in [Callers -> {"idle", "test", "drain", "drained",
                                "advance", "purge", "register"}]
      /\ CallInv'
  BY <1>1, <1>2, <1>3, CallMoved
<1>5. RestTypeOK'
  BY <1>1, <1>4, TypeParts DEF IInv, RestTypeOK, groupVars, adderVars, userVars
<1>6. \A i \in Items : (helper[i] /\ ~(HasActive /\ i = ActiveItem)) \in BOOLEAN
  OBVIOUS
<1>7. helper' \in [Items -> BOOLEAN]
  BY <1>6 DEF NextItem
<1>8. HandleTypeOK'
  BY <1>1, <1>7, TypeParts DEF IInv, HandleTypeOK
<1> QED BY <1>1, <1>4, <1>5, <1>8, ThreadsAlone, NoThreadMoves

LEMMA NoneLeftKept ==
  ASSUME IInv, NEW c \in Callers, NoneLeft(c)
  PROVE  IInv'
<1>1. /\ Step(c, "drained") /\ lastActive' = activeItem /\ activeItem' = NoIndex
      /\ UNCHANGED <<threadVars, handleVars, waitingList, started, final,
                     adderVars, todo, userVars, crashed>>
  BY DEF NoneLeft
<1>2. todo' \in [Callers -> Seq(Items)]
  BY <1>1, TypeParts DEF IInv, RestTypeOK
<1>3. /\ call' \in [Callers -> {"idle", "test", "drain", "drained",
                                "advance", "purge", "register"}]
      /\ CallInv'
  BY <1>1, <1>2, CallMoved
<1>4. activeItem' \in 0..MaxIndex /\ lastActive' \in 0..MaxIndex
  BY <1>1, TypeParts DEF IInv, RestTypeOK, NoIndex
<1>5. RestTypeOK'
  BY <1>1, <1>3, <1>4, TypeParts DEF IInv, RestTypeOK, adderVars, userVars
<1> QED BY <1>1, <1>3, <1>5, ThreadsAlone, HandleKept, NoThreadMoves

LEMMA ReturnKept ==
  ASSUME IInv, NEW c \in Callers, Return(c), UNCHANGED todo
  PROVE  /\ call' \in [Callers -> {"idle", "test", "drain", "drained",
                                   "advance", "purge", "register"}]
         /\ CallInv'
<1>1. todo' \in [Callers -> Seq(Items)]
  BY TypeParts DEF IInv, RestTypeOK
<1>2. CASE todo[c] = <<>>
  BY <1>1, <1>2, CallMoved DEF Return
<1>3. CASE todo[c] # <<>>
  BY <1>1, <1>3, CallMoved DEF Return
<1> QED BY <1>2, <1>3

LEMMA FinishKept ==
  ASSUME IInv, NEW c \in Callers, Finish(c)
  PROVE  IInv'
<1>1. /\ Return(c) /\ UNCHANGED <<adderVars, todo, userVars, crashed>>
      /\ CancelAll \/ UNCHANGED <<threadVars, handleVars, groupVars>>
  BY DEF Finish
<1>2. /\ ThreadTypeOK' /\ HandleTypeOK' /\ waitingList' \in Seq(Items)
      /\ UNCHANGED <<pc, hand, stopped, ending, thread,
                     activeItem, lastActive, started, final>>
  <2>1. CASE CancelAll
    BY <2>1, CancelKept
  <2>2. CASE UNCHANGED <<threadVars, handleVars, groupVars>>
    BY <2>2, ThreadsAlone, HandleKept, TypeParts DEF IInv, RestTypeOK, groupVars
  <2> QED BY <1>1, <2>1, <2>2
<1>3. RestTypeOK' /\ CallInv'
  BY <1>1, <1>2, ReturnKept, TypeParts DEF IInv, RestTypeOK, adderVars, userVars
<1> QED BY <1>2, <1>3, NoThreadMoves

\* The index moves on to an item of the list.
LEMMA AdvanceKept ==
  ASSUME IInv, NEW c \in Callers, Advance(c)
  PROVE  IInv'
<1> DEFINE i == waitingList[Resumed + 1]
           at == IF IsInStage(i) /\ posted[i] THEN "test" ELSE "purge"
<1>1. /\ Resumed < Len(waitingList) /\ activeItem' = Resumed /\ lastActive' = NoIndex
      /\ helper' = [helper EXCEPT ![i] = TRUE]
      /\ todo' = [todo EXCEPT ![c] = <<i>> \o @]
      /\ Step(c, at)
      /\ UNCHANGED <<threadVars, thread, stage, posted, pauseOnError, group,
                     waitingList, started, final, adderVars, userVars, crashed>>
  BY DEF Advance
<1>2. Resumed \in 0..MaxIndex
  BY NextIndex, TypeParts DEF IInv, RestTypeOK, Resumed
<1>3. i \in Items
  <2>1. Resumed + 1 \in 1..Len(waitingList)
    BY <1>1, <1>2, TypeParts DEF IInv, RestTypeOK
  <2> QED BY <2>1, TypeParts DEF IInv, RestTypeOK
<1>4. at \in {"idle", "test", "drain", "drained", "advance", "purge", "register"}
  OBVIOUS
<1> HIDE DEF i, at
<1>5. todo[c] \in Seq(Items) /\ todo \in [Callers -> Seq(Items)]
  BY TypeParts DEF IInv, RestTypeOK
<1>6. <<i>> \o todo[c] \in Seq(Items) /\ <<i>> \o todo[c] # <<>>
  BY <1>3, <1>5
<1>7. todo' \in [Callers -> Seq(Items)] /\ todo'[c] # <<>>
      /\ \A d \in Callers : d # c => todo'[d] = todo[d]
  BY <1>1, <1>5, <1>6
<1>8. /\ call' \in [Callers -> {"idle", "test", "drain", "drained",
                                "advance", "purge", "register"}]
      /\ CallInv'
  BY <1>1, <1>4, <1>7, CallMoved
<1>9. RestTypeOK'
  <2>1. activeItem' \in 0..MaxIndex /\ lastActive' \in 0..MaxIndex
    BY <1>1, <1>2 DEF NoIndex
  <2> QED BY <1>1, <1>7, <1>8, <2>1, TypeParts DEF IInv, RestTypeOK, adderVars, userVars
<1>10. HandleTypeOK'
  BY <1>1, TypeParts DEF IInv, HandleTypeOK
<1> QED BY <1>1, <1>8, <1>9, <1>10, ThreadsAlone, NoThreadMoves

LEMMA AdvanceToNullKept ==
  ASSUME IInv, NEW c \in Callers, AdvanceToNull(c)
  PROVE  IInv'
<1>1. crashed' = TRUE
      /\ UNCHANGED <<threadVars, handleVars, groupVars, adderVars, callVars, userVars>>
  BY DEF AdvanceToNull
<1>2. RestTypeOK' /\ CallInv'
  BY <1>1, TypeParts DEF IInv, CallInv, RestTypeOK, groupVars, adderVars, callVars, userVars
<1> QED BY <1>1, <1>2, ThreadsAlone, HandleKept, NoThreadMoves

LEMMA PurgeItemKept ==
  ASSUME IInv, NEW c \in Callers, PurgeItem(c)
  PROVE  IInv'
<1>1. call[c] = "purge" /\ Step(c, "register")
      /\ UNCHANGED <<handleVars, groupVars, adderVars, todo, userVars, crashed>>
  BY DEF PurgeItem
<1>2. todo' \in [Callers -> Seq(Items)] /\ todo'[c] # <<>>
  BY <1>1, TypeParts DEF IInv, RestTypeOK, CallInv
<1>3. /\ call' \in [Callers -> {"idle", "test", "drain", "drained",
                                "advance", "purge", "register"}]
      /\ CallInv'
  BY <1>1, <1>2, CallMoved
<1>4. RestTypeOK'
  BY <1>1, <1>3, TypeParts DEF IInv, RestTypeOK, groupVars, adderVars, userVars
<1>5. ThreadTypeOK' /\ UNCHANGED <<pc, hand, stopped, ending>>
  <2> DEFINE i == Head(todo[c])
  <2>1. CASE HasThread(i)
    <3> DEFINE h == ThreadOf(i)
    <3>1. PurgeTasks(h) /\ UNCHANGED <<pc, hand, stopped, ending>>
      BY <2>1 DEF PurgeItem
    <3>2. (told[h] \/ pc[h] \in Current) \in BOOLEAN
      OBVIOUS
    <3>3. h \in Threads
      <4>1. todo[c] \in Seq(Items) /\ todo[c] # <<>>
        BY <1>1, TypeParts DEF IInv, RestTypeOK, CallInv
      <4> QED BY <4>1, <2>1, ThreadOfItem, TypeParts DEF IInv
    <3> HIDE DEF h
    <3>4. told' \in [Threads -> BOOLEAN]
      BY <3>1, <3>2, TypeParts DEF IInv, ThreadTypeOK, PurgeTasks
    <3>5. list' \in [Threads -> Seq(Kinds)]
      BY <3>1, <3>3, TypeParts DEF IInv, ThreadTypeOK, PurgeTasks
    <3>6. skip' \in [Threads -> BOOLEAN]
      BY <3>1, TypeParts DEF IInv, ThreadTypeOK, PurgeTasks
    <3> QED BY <3>1, <3>4, <3>5, <3>6, TypeParts DEF IInv, ThreadTypeOK
  <2>2. CASE ~HasThread(i)
    BY <2>2, ThreadsAlone DEF PurgeItem
  <2> QED BY <2>1, <2>2
<1> QED BY <1>1, <1>3, <1>4, <1>5, HandleKept, NoThreadMoves

LEMMA VerifyTasks == <<"verify">> \in Seq(Kinds) /\ <<"wait">> \in Seq(Kinds)
BY DEF Kinds

LEMMA VerifyItemKept ==
  ASSUME IInv, NEW c \in Callers, VerifyItem(c)
  PROVE  IInv'
<1> DEFINE at == IF Tail(todo[c]) = <<>> THEN "idle" ELSE "purge"
<1>1. /\ call[c] = "register" /\ RegisterTasks(Head(todo[c]), <<"verify">>, pc)
      /\ todo' = [todo EXCEPT ![c] = Tail(@)] /\ Step(c, at)
      /\ UNCHANGED <<stage, posted, pauseOnError, group, helper,
                     groupVars, adderVars, userVars, crashed>>
  BY DEF VerifyItem
<1>2. todo \in [Callers -> Seq(Items)] /\ todo[c] \in Seq(Items) /\ todo[c] # <<>>
  BY <1>1, TypeParts DEF IInv, RestTypeOK, CallInv
<1>3. Head(todo[c]) \in Items /\ Tail(todo[c]) \in Seq(Items)
  BY <1>2
<1>4. todo' \in [Callers -> Seq(Items)] /\ todo'[c] = Tail(todo[c])
      /\ \A d \in Callers : d # c => todo'[d] = todo[d]
  BY <1>1, <1>2, <1>3
<1>5. /\ at \in {"idle", "test", "drain", "drained", "advance", "purge", "register"}
      /\ at \in {"purge", "register"} => todo'[c] # <<>>
  BY <1>4
<1> HIDE DEF at
<1>6. /\ call' \in [Callers -> {"idle", "test", "drain", "drained",
                                "advance", "purge", "register"}]
      /\ CallInv'
  BY <1>1, <1>4, <1>5, CallMoved
<1>7. RestTypeOK'
  BY <1>1, <1>4, <1>6, TypeParts DEF IInv, RestTypeOK, groupVars, adderVars, userVars
<1>8. pc \in [Threads -> Places]
  BY TypeParts DEF IInv, ThreadTypeOK
<1>9. /\ stage' \in [Items -> Kinds] /\ posted' \in [Items -> BOOLEAN]
      /\ pauseOnError' \in [Items -> BOOLEAN] /\ group' \in [Items -> BOOLEAN]
      /\ helper' \in [Items -> BOOLEAN]
  BY <1>1, TypeParts DEF IInv, HandleTypeOK
<1> QED BY <1>1, <1>3, <1>6, <1>7, <1>8, <1>9, VerifyTasks, Registered

LEMMA CallerKept ==
  ASSUME IInv, NEW c \in Callers, Caller(c)
  PROVE  IInv'
BY NextItemKept, NoneLeftKept, FinishKept, AdvanceKept, AdvanceToNullKept,
   PurgeItemKept, VerifyItemKept DEF Caller

-----------------------------------------------------------------------------
(***************************************************************************)
(* Who fills the group, and the user.                                      *)
(***************************************************************************)
\* A step of theirs that touches no thread, and may call nextItem.
LEMMA StepElsewhere ==
  ASSUME IInv, UNCHANGED <<threadVars, handleVars, todo>>,
         NEW c \in Callers, Step(c, "test") \/ UNCHANGED call,
         (call' \in [Callers -> {"idle", "test", "drain", "drained", "advance",
                                 "purge", "register"}]) => RestTypeOK'
  PROVE  IInv'
<1>1. todo' \in [Callers -> Seq(Items)]
  BY TypeParts DEF IInv, RestTypeOK
<1>2. /\ call' \in [Callers -> {"idle", "test", "drain", "drained",
                                "advance", "purge", "register"}]
      /\ CallInv'
  <2>1. CASE Step(c, "test")
    BY <1>1, <2>1, CallMoved
  <2>2. CASE UNCHANGED call
    BY <2>2, TypeParts DEF IInv, RestTypeOK, CallInv
  <2> QED BY <2>1, <2>2
<1> QED BY <1>2, ThreadsAlone, HandleKept, NoThreadMoves

LEMMA FindItemKept ==
  ASSUME IInv, NEW i \in Items, FindItem(i)
  PROVE  IInv'
<1>1. /\ adder' \in {adder, <<"push", i>>} /\ toAdd' = toAdd \ {i}
      /\ pauseOnError' = [pauseOnError EXCEPT ![i] = @ \/ wizard]
      /\ UNCHANGED <<stage, posted, helper, groupVars, wizard, callVars, userVars, crashed>>
  BY DEF FindItem
<1>2. RestTypeOK' /\ CallInv'
  BY <1>1, TypeParts DEF IInv, CallInv, RestTypeOK, groupVars, callVars, userVars
<1>3. (pauseOnError[i] \/ wizard) \in BOOLEAN
  OBVIOUS
<1>4. pauseOnError' \in [Items -> BOOLEAN]
  BY <1>1, <1>3, TypeParts DEF IInv, HandleTypeOK
<1>5. CASE IsInStage(i)
  <2>1. UNCHANGED <<threadVars, thread, group>>
    BY <1>5 DEF FindItem
  <2>2. HandleTypeOK'
    BY <1>1, <1>4, <2>1, TypeParts DEF IInv, HandleTypeOK
  <2> QED BY <1>2, <2>1, <2>2, ThreadsAlone, NoThreadMoves
<1>6. CASE ~IsInStage(i)
  <2>1. group' = [group EXCEPT ![i] = TRUE] /\ RegisterTasks(i, <<"wait">>, pc)
    BY <1>6 DEF FindItem
  <2>2. /\ stage' \in [Items -> Kinds] /\ posted' \in [Items -> BOOLEAN]
        /\ group' \in [Items -> BOOLEAN] /\ helper' \in [Items -> BOOLEAN]
    BY <1>1, <2>1, TypeParts DEF IInv, HandleTypeOK
  <2>3. pc \in [Threads -> Places]
    BY TypeParts DEF IInv, ThreadTypeOK
  <2> QED BY <1>2, <1>4, <2>1, <2>2, <2>3, VerifyTasks, Registered
<1> QED BY <1>5, <1>6

LEMMA FillerKept ==
  ASSUME IInv, Filler
  PROVE  IInv'
<1> USE DEF groupVars, adderVars, callVars, userVars
<1>1. ASSUME NEW i \in Items, PushItem(i) PROVE IInv'
  <2>1. waitingList' \in Seq(Items)
    <3>1. waitingList \in Seq(Items) /\ Append(waitingList, i) \in Seq(Items)
      BY TypeParts DEF IInv, RestTypeOK
    <3> QED BY <1>1, <3>1 DEF PushItem
  <2>2. adder' = <<"check", i>> \/ adder' = <<"find">>
    BY <1>1 DEF PushItem
  <2>3. RestTypeOK'
    BY <1>1, <2>1, <2>2, TypeParts DEF IInv, RestTypeOK, PushItem
  <2> QED BY <1>1, <2>3, StepElsewhere DEF PushItem, Callers
<1>2. ASSUME NEW i \in Items, CheckActive(i) PROVE IInv'
  BY <1>2, StepElsewhere, TypeParts DEF IInv, RestTypeOK, CheckActive, Callers
<1>3. ASSUME Start PROVE IInv'
  BY <1>3, StepElsewhere, TypeParts DEF IInv, RestTypeOK, Start, Callers
<1>4. ASSUME Finalize PROVE IInv'
  BY <1>4, StepElsewhere, TypeParts DEF IInv, RestTypeOK, Finalize, Callers
<1>5. ASSUME FinalizeFinishes PROVE IInv'
  <2>1. CASE CancelAll
    <3>1. RestTypeOK' /\ CallInv'
      BY <1>5, <2>1, CancelKept, TypeParts
      DEF IInv, CallInv, RestTypeOK, FinalizeFinishes
    <3> QED BY <2>1, <3>1, CancelKept, NoThreadMoves
  <2>2. CASE UNCHANGED <<threadVars, handleVars, groupVars>>
    BY <1>5, <2>2, StepElsewhere, TypeParts DEF IInv, RestTypeOK, FinalizeFinishes, Callers
  <2> QED BY <1>5, <2>1, <2>2 DEF FinalizeFinishes
<1> QED BY <1>1, <1>2, <1>3, <1>4, <1>5, FindItemKept DEF Filler

LEMMA UserActsKept ==
  ASSUME IInv, UserActs
  PROVE  IInv'
<1> USE DEF groupVars, adderVars, callVars
<1>1. ASSUME NEW i \in Items, Verify(i) PROVE IInv'
  <2>1. RestTypeOK' /\ CallInv'
    BY <1>1, TypeParts DEF IInv, CallInv, RestTypeOK, Verify
  <2>2. /\ stage' \in [Items -> Kinds] /\ posted' \in [Items -> BOOLEAN]
        /\ pauseOnError' \in [Items -> BOOLEAN] /\ group' \in [Items -> BOOLEAN]
        /\ helper' \in [Items -> BOOLEAN]
    BY <1>1, TypeParts DEF IInv, HandleTypeOK, Verify
  <2>3. pc \in [Threads -> Places]
    BY TypeParts DEF IInv, ThreadTypeOK
  <2>4. RegisterTasks(i, <<"verify">>, pc)
    BY <1>1 DEF Verify
  <2> QED BY <2>1, <2>2, <2>3, <2>4, VerifyTasks, Registered
<1>2. ASSUME NEW i \in Items, CancelButton(i) PROVE IInv'
  <2>1. CancelAll
    BY <1>2 DEF CancelButton
  <2>2. RestTypeOK' /\ CallInv'
    BY <1>2, <2>1, CancelKept, TypeParts
    DEF IInv, CallInv, RestTypeOK, CancelButton, Press
  <2> QED BY <2>1, <2>2, CancelKept, NoThreadMoves
<1>3. ASSUME NEW i \in Items, ForceCrashes(i) PROVE IInv'
  <2>1. RestTypeOK'
    BY <1>3, TypeParts DEF IInv, RestTypeOK, ForceCrashes, Press
  <2>2. UNCHANGED <<threadVars, handleVars, todo, call>>
    BY <1>3 DEF ForceCrashes
  <2> QED BY <2>1, <2>2, StepElsewhere DEF Callers
<1>4. ASSUME NEW i \in Items, ForceUnlisted(i) PROVE IInv'
  <2>1. /\ Step(User, "purge") /\ todo' = [todo EXCEPT ![User] = <<i>>]
        /\ User \in Callers
    BY <1>4 DEF ForceUnlisted, Callers
  <2>2. todo' \in [Callers -> Seq(Items)] /\ todo'[User] # <<>>
        /\ \A d \in Callers : d # User => todo'[d] = todo[d]
    BY <2>1, TypeParts DEF IInv, RestTypeOK
  <2>3. /\ call' \in [Callers -> {"idle", "test", "drain", "drained",
                                  "advance", "purge", "register"}]
        /\ CallInv'
    BY <2>1, <2>2, CallMoved
  <2>4. RestTypeOK'
    BY <1>4, <2>2, <2>3, TypeParts DEF IInv, RestTypeOK, ForceUnlisted, Press
  <2> QED BY <1>4, <2>3, <2>4, ThreadsAlone, HandleKept, NoThreadMoves DEF ForceUnlisted
<1> QED BY <1>1, <1>2, <1>3, <1>4 DEF UserActs

-----------------------------------------------------------------------------
LEMMA InitInv == Init => IInv
<1> SUFFICES ASSUME Init PROVE IInv
  OBVIOUS
<1>1. ThreadTypeOK
  BY DEF Init, ThreadInit, ThreadTypeOK, Places
<1>2. HandleTypeOK
  BY DEF Init, HandleInit, HandleTypeOK, Kinds
<1>3. RestTypeOK
  <2>1. waitingList \in Seq(Items) /\ todo \in [Callers -> Seq(Items)]
    BY DEF Init
  <2>2. activeItem \in 0..MaxIndex /\ lastActive \in 0..MaxIndex
    BY DEF Init, NoIndex
  <2>3. verifies \in 0..MaxVerifies /\ presses \in 0..MaxPresses
    BY DEF Init
  <2>4. call \in [Callers -> {"idle", "test", "drain", "drained",
                              "advance", "purge", "register"}]
    BY DEF Init
  <2> QED BY <2>1, <2>2, <2>3, <2>4 DEF Init, RestTypeOK
<1>4. PlaceInv
  BY DEF Init, ThreadInit, PlaceInv, Current
<1>5. CallInv
  BY DEF Init, CallInv
<1>6. ThreadsOwned
  <2>1. \A h \in Threads : thread[Owner(h)] # h[2]
    BY ThreadParts DEF Init, HandleInit
  <2> QED BY <2>1 DEF Init, ThreadInit, ThreadsOwned
<1> QED BY <1>1, <1>2, <1>3, <1>4, <1>5, <1>6, TypeParts DEF IInv

LEMMA NextInv == IInv /\ [Next]_vars => IInv'
<1> SUFFICES ASSUME IInv, [Next]_vars PROVE IInv'
  OBVIOUS
<1>1. CASE Next
  BY <1>1, WorkerKept, ThreadPoolKept, CallerKept, FillerKept, UserActsKept DEF Next
<1>2. CASE UNCHANGED vars
  <2>1. Elsewhere /\ UNCHANGED <<threadVars, handleVars>>
    BY <1>2 DEF vars, Elsewhere
  <2> QED BY <2>1, ElsewhereKept, HandleKept, ThreadsAlone, NoThreadMoves
<1> QED BY <1>1, <1>2

LEMMA Invariance == Spec => []IInv
BY InitInv, NextInv, PTL DEF Spec

\* Every variable keeps its type: the index of a group never leaves the numbers
\* of an unsigned int, and the item nextItem starts is one of the user's.
THEOREM TypeCorrect == Spec => []TypeOK
<1>1. IInv => TypeOK
  BY DEF IInv
<1> QED BY <1>1, Invariance, PTL

\* However many items there are, whatever the user does and however often a
\* handle gives its thread up, the thread a handle queues tasks to runs and is
\* not being ended, and every other one is being ended (registerTask, stopThread
\* and the DeleteThread task of the pool).
THEOREM HandlesOwnTheirThreads == Spec => []ThreadsOwned
<1>1. IInv => ThreadsOwned
  BY DEF IInv
<1> QED BY <1>1, Invariance, PTL

-----------------------------------------------------------------------------
(***************************************************************************)
(* One turn at a time.  In a group the user leaves alone there is one turn *)
(* at most: a caller has it while it moves the index and until it has      *)
(* started its item, then the verification has it, on a thread's list or   *)
(* in its hand, and the event of its verdict passes it on.  While there is *)
(* one the index is that of its item, or it is the adder that has it and   *)
(* there is no index yet, until the list is emptied for good.              *)
(***************************************************************************)
InTurn(c) == Moving(c) \/ todo[c] # <<>>

\* A verification is at place n of a thread's list, or in its hand (place 0).
Due(h, n) ==
  \/ n = 0 /\ pc[h] \in {"take", "run"} /\ hand[h] = "verify"
  \/ n \in DOMAIN list[h] /\ list[h][n] = "verify"
NothingDue == \A h \in Threads, n \in Nat : ~Due(h, n)

OneTurn ==
  /\ \A c, d \in Callers : InTurn(c) /\ InTurn(d) => c = d
  /\ \A c \in Callers : InTurn(c) => NothingDue
  /\ \A h, g \in Threads, m, n \in Nat : Due(h, m) /\ Due(g, n) => h = g /\ m = n

UserInv == call[User] = "idle" /\ todo[User] = <<>>

AdderInv ==
  /\ call[Adder] # "idle" => adder = <<"find">> /\ started
  /\ final <=> adder \in {<<"final">>, <<"over">>}
  /\ final => started
  /\ \A i \in Items : adder = <<"push", i>> => i \notin toAdd /\ i \notin Listed
  /\ \A i \in Listed : i \notin toAdd
  /\ ~started => activeItem = NoIndex /\ NothingDue /\ \A c \in Callers : ~InTurn(c)

Distinct == \A m, n \in DOMAIN waitingList : waitingList[m] = waitingList[n] => m = n

CallsInv ==
  \A c \in Callers : todo[c] # <<>> => call[c] \in {"purge", "register"} /\ Tail(todo[c]) = <<>>

\* The item has had its turn.
Had(i) == \E n \in DOMAIN waitingList : waitingList[n] = i /\ n - 1 <= Reached

IndexInv ==
  /\ activeItem # NoIndex => HasActive
  /\ lastActive # NoIndex => lastActive < Len(waitingList)
  /\ activeItem = NoIndex => NothingDue /\ \A c \in Callers : InTurn(c) => c = Adder
  /\ Moving(Adder) => activeItem = NoIndex
  /\ call[Adder] = "drain" => waitingList = <<>>
  /\ \A h \in Threads : call[h] = "advance" => activeItem + 1 < Len(waitingList)
  /\ \A c \in Callers : todo[c] # <<>> => HasActive /\ todo[c] = <<ActiveItem>>
  /\ \A h \in Threads, n \in Nat : Due(h, n) => HasActive /\ Owner(h) = ActiveItem
  /\ \A i \in Items : helper[i] => HasActive /\ i = ActiveItem
  /\ \A c \in Callers : call[c] \in {"drain", "advance"} => \A i \in Items : ~helper[i]
  /\ \A i \in Items : posted[i] => Had(i)

OneHelper == \A i, j \in Items : helper[i] /\ helper[j] => i = j

Calm ==
  /\ UserInv /\ AdderInv /\ Distinct /\ CallsInv /\ OneTurn /\ OneHelper
  /\ activeItem # NoIndex => lastActive = NoIndex
  /\ ~Finished => IndexInv
CalmInv == Undisturbed => Calm

-----------------------------------------------------------------------------
\* A list of different items is not longer than an index can tell.
LEMMA ShortList ==
  ASSUME waitingList \in Seq(Items), Distinct
  PROVE  Len(waitingList) <= MaxIndex
<1> DEFINE S == 1..Len(waitingList)
           f == [n \in S |-> waitingList[n]]
<1>1. Cardinality(S) = Len(waitingList)
  BY FS_Interval
<1>2. f \in Injection(S, Items)
  BY DEF Distinct, Injection, IsInjective
<1> HIDE DEF S, f
<1>3. Cardinality(S) <= Cardinality(Items)
  BY <1>2, FS_Injection
<1>4. Cardinality(Items) \in Nat
  BY FS_CardinalityType
<1> QED BY <1>1, <1>3, <1>4

\* No step of a thread's task, or of the pool, gives a turn.
LEMMA WorkKept ==
  ASSUME IInv, Calm, UNCHANGED <<groupVars, callVars, helper>>, AdderInv',
         \A i \in Items : posted'[i] => posted[i],
         \A h \in Threads, n \in Nat : Due(h, n)' => \E m \in Nat : Due(h, m),
         \A h, g \in Threads, m, n \in Nat : Due(h, m)' /\ Due(g, n)' => h = g /\ m = n
  PROVE  Calm'
<1>1. /\ waitingList' = waitingList /\ activeItem' = activeItem /\ lastActive' = lastActive
      /\ started' = started /\ final' = final /\ call' = call /\ todo' = todo
      /\ helper' = helper
  BY DEF groupVars, callVars
<1>2. \A c \in Callers : InTurn(c)' <=> InTurn(c)
  BY <1>1 DEF InTurn, Moving
<1>3. NothingDue => NothingDue'
  BY DEF NothingDue
<1>4. OneTurn'
  BY <1>2, <1>3 DEF Calm, OneTurn
<1>5. UserInv' /\ Distinct' /\ CallsInv' /\ OneHelper'
      /\ (activeItem # NoIndex => lastActive = NoIndex)'
  BY <1>1 DEF Calm, UserInv, Distinct, CallsInv, OneHelper
<1>6. /\ Finished' <=> Finished
      /\ HasActive' <=> HasActive
      /\ ActiveItem' = ActiveItem
      /\ \A i \in Items : Had(i)' <=> Had(i)
  BY <1>1 DEF Finished, HasActive, ActiveItem, Had, Reached
<1>7. IndexInv => IndexInv'
  BY <1>1, <1>2, <1>3, <1>6 DEF IndexInv, Moving
<1> QED BY <1>4, <1>5, <1>6, <1>7 DEF Calm

\* The adder and the initial index are not concerned either.
LEMMA AdderAlone ==
  ASSUME Calm, UNCHANGED <<groupVars, adderVars, callVars>>, NothingDue => NothingDue'
  PROVE  AdderInv'
<1>1. /\ waitingList' = waitingList /\ activeItem' = activeItem /\ adder' = adder
      /\ started' = started /\ final' = final /\ call' = call /\ todo' = todo /\ toAdd' = toAdd
  BY DEF groupVars, callVars, adderVars
<1>2. \A c \in Callers : InTurn(c)' <=> InTurn(c)
  BY <1>1 DEF InTurn, Moving
<1>3. Listed' = Listed
  BY <1>1 DEF Listed
<1> QED BY <1>1, <1>2, <1>3 DEF Calm, AdderInv

LEMMA TaskKept ==
  ASSUME IInv, Calm, UNCHANGED <<groupVars, adderVars, callVars, helper>>,
         \A i \in Items : posted'[i] => posted[i],
         \A h \in Threads, n \in Nat : Due(h, n)' => Due(h, n)
  PROVE  Calm'
<1>1. \A h, g \in Threads, m, n \in Nat : Due(h, m)' /\ Due(g, n)' => h = g /\ m = n
  BY DEF Calm, OneTurn
<1>2. NothingDue => NothingDue'
  BY DEF NothingDue
<1> QED BY <1>1, <1>2, AdderAlone, WorkKept

\* Tasks that are no verification are queued.
LEMMA NoneQueued ==
  ASSUME IInv, NEW i \in Items, NEW tasks \in Seq(Kinds),
         \A m \in DOMAIN tasks : tasks[m] # "verify",
         NEW p \in [Threads -> Places], RegisterTasks(i, tasks, p),
         \A h \in Threads : p[h] \in {"take", "run"} => pc[h] = p[h]
  PROVE  \A h \in Threads, n \in Nat : Due(h, n)' => Due(h, n)
<1>1. list \in [Threads -> Seq(Kinds)] /\ HandleTypeOK
  BY TypeParts DEF IInv, ThreadTypeOK
<1>2. CASE HasThread(i) /\ QueueTasks(ThreadOf(i), tasks, p)
  <2> DEFINE g == ThreadOf(i)
  <2>1. g \in Threads
    BY <1>1, <1>2, ThreadOfItem
  <2>2. pc' = p /\ hand' = hand /\ list' = [list EXCEPT ![g] = IF stopped[g] THEN @ ELSE @ \o tasks]
    BY <1>2 DEF QueueTasks
  <2>3. ASSUME NEW n \in DOMAIN (list[g] \o tasks), (list[g] \o tasks)[n] = "verify"
        PROVE  n \in DOMAIN list[g] /\ list[g][n] = "verify"
    <3>1. list[g] \in Seq(Kinds)
      BY <1>1, <2>1
    <3> HIDE DEF g
    <3>2. CASE n <= Len(list[g])
      BY <2>3, <3>1, <3>2
    <3>3. CASE n > Len(list[g])
      <4>1. n - Len(list[g]) \in DOMAIN tasks /\ (list[g] \o tasks)[n] = tasks[n - Len(list[g])]
        BY <2>3, <3>1, <3>3
      <4> QED BY <2>3, <4>1
    <3> QED BY <2>3, <3>1, <3>2, <3>3
  <2> HIDE DEF g
  <2>4. \A h \in Threads : list'[h] = list[h] \/ (h = g /\ list'[h] = list[g] \o tasks)
    BY <1>1, <2>1, <2>2
  <2>5. \A h \in Threads, n \in Nat : n \in DOMAIN list'[h] /\ list'[h][n] = "verify" =>
                                      n \in DOMAIN list[h] /\ list[h][n] = "verify"
    BY <2>3, <2>4
  <2> QED BY <2>2, <2>5 DEF Due
<1>3. ASSUME NEW s \in Slots, StartThread(<<i, s>>, tasks, p)
      PROVE  \A h \in Threads, n \in Nat : Due(h, n)' => Due(h, n)
  <2> DEFINE g == <<i, s>>
  <2>1. g \in Threads
    BY DEF Threads
  <2>2. /\ hand' = hand /\ pc' = [p EXCEPT ![g] = "loop"]
        /\ list' = [list EXCEPT ![g] = tasks]
    BY <1>3 DEF StartThread
  <2> HIDE DEF g
  <2>3. pc'[g] = "loop" /\ \A h \in Threads : h # g => pc'[h] = p[h] /\ list'[h] = list[h]
    BY <1>1, <2>1, <2>2
  <2>4. list'[g] = tasks
    BY <1>1, <2>1, <2>2
  <2> QED BY <2>2, <2>3, <2>4 DEF Due
<1> QED BY <1>2, <1>3 DEF RegisterTasks

LEMMA CompletionIsNone == \A m \in DOMAIN Completion : Completion[m] # "verify"
BY DEF Completion

-----------------------------------------------------------------------------
\* A task is taken off the list: a verification goes from the first place to the
\* hand, or comes one place nearer.
LEMMA PopCalm ==
  ASSUME IInv, Calm, NEW h \in Threads, PopTask(h), UNCHANGED handleVars, Elsewhere
  PROVE  Calm'
<1>1. list \in [Threads -> Seq(Kinds)] /\ list[h] \in Seq(Kinds)
      /\ pc \in [Threads -> Places] /\ hand \in [Threads -> Kinds \union {NoTask}]
  BY TypeParts DEF IInv, ThreadTypeOK
<1>2. UNCHANGED <<groupVars, adderVars, callVars, helper, posted>>
  BY DEF Elsewhere, handleVars
<1>3. CASE list[h] = <<>>
  <2>1. pc' = [pc EXCEPT ![h] = "loop"] /\ UNCHANGED <<list, hand>>
    BY <1>3 DEF PopTask, Goto
  <2>2. \A g \in Threads, n \in Nat : Due(g, n)' => Due(g, n)
    BY <1>1, <2>1 DEF Due
  <2> QED BY <1>2, <2>2, TaskKept
<1>4. CASE list[h] # <<>>
  <2>1. /\ pc' = [pc EXCEPT ![h] = "take"] /\ hand' = [hand EXCEPT ![h] = Head(list[h])]
        /\ list' = [list EXCEPT ![h] = Tail(list[h])]
    BY <1>4 DEF PopTask, Goto
  <2>2. hand'[h] = list[h][1] /\ list'[h] = Tail(list[h])
    BY <1>1, <1>4, <2>1
  <2>3. \A n \in DOMAIN Tail(list[h]) :
          n + 1 \in DOMAIN list[h] /\ Tail(list[h])[n] = list[h][n + 1]
    BY <1>1, <1>4
  <2>4. \A n \in Nat : Due(h, n)' => Due(h, n + 1)
    BY <1>1, <1>4, <2>2, <2>3 DEF Due
  <2>5. \A g \in Threads, n \in Nat : g # h /\ Due(g, n)' => Due(g, n)
    BY <1>1, <2>1 DEF Due
  <2>6. \A g \in Threads, n \in Nat : Due(g, n)' => \E m \in Nat : Due(g, m)
    BY <2>4, <2>5
  <2>7. \A f, g \in Threads, m, n \in Nat : Due(f, m)' /\ Due(g, n)' => f = g /\ m = n
    <3> SUFFICES ASSUME NEW f \in Threads, NEW g \in Threads, NEW m \in Nat, NEW n \in Nat,
                        Due(f, m)', Due(g, n)'
                 PROVE  f = g /\ m = n
      OBVIOUS
    <3>1. \A a, b \in Threads, k, l \in Nat : Due(a, k) /\ Due(b, l) => a = b /\ k = l
      BY DEF Calm, OneTurn
    <3>2. f = g
      BY <2>6, <3>1
    <3>3. CASE f = h
      <4>1. m + 1 = n + 1
        BY <2>4, <3>1, <3>2, <3>3
      <4> QED BY <3>2, <4>1
    <3>4. CASE f # h
      BY <2>5, <3>1, <3>2, <3>4
    <3> QED BY <3>3, <3>4
  <2>8. NothingDue => NothingDue'
    BY <2>6 DEF NothingDue
  <2> QED BY <1>2, <2>6, <2>7, <2>8, AdderAlone, WorkKept
<1> QED BY <1>3, <1>4

\* The other steps of a worker that give no turn.
LEMMA StepsCalm ==
  ASSUME IInv, Calm, NEW h \in Threads, Elsewhere,
         \/ ClearFlag(h) /\ UNCHANGED handleVars
         \/ SkipTask(h) /\ UNCHANGED handleVars
         \/ Leave(h) /\ UNCHANGED handleVars
         \/ OnTaskStart(h) \/ OnTaskComplete(h)
         \/ BlankTask(h) \/ GroupItemTask(h) \/ VerifySilent(h)
         \/ EndThread(h) /\ UNCHANGED handleVars
         \/ JoinThread(h) /\ UNCHANGED handleVars
  PROVE  Calm'
<1>1. /\ list \in [Threads -> Seq(Kinds)] /\ pc \in [Threads -> Places]
      /\ hand \in [Threads -> Kinds \union {NoTask}] /\ posted \in [Items -> BOOLEAN]
  BY TypeParts DEF IInv, ThreadTypeOK, HandleTypeOK
<1>2. UNCHANGED <<groupVars, adderVars, callVars>>
  BY DEF Elsewhere
<1>3. CASE ClearFlag(h) /\ UNCHANGED handleVars
  <2>1. \A g \in Threads, n \in Nat : Due(g, n)' => Due(g, n)
    BY <1>1, <1>3 DEF ClearFlag, Goto, Due
  <2> QED BY <1>2, <1>3, <2>1, TaskKept DEF handleVars
<1>4. CASE SkipTask(h) /\ UNCHANGED handleVars
  <2>1. \A g \in Threads, n \in Nat : Due(g, n)' => Due(g, n)
    BY <1>1, <1>4 DEF SkipTask, Goto, Due
  <2> QED BY <1>2, <1>4, <2>1, TaskKept DEF handleVars
<1>5. CASE Leave(h) /\ UNCHANGED handleVars
  <2>1. \A g \in Threads, n \in Nat : Due(g, n)' => Due(g, n)
    BY <1>1, <1>5 DEF Leave, Goto, Due
  <2> QED BY <1>2, <1>5, <2>1, TaskKept DEF handleVars
<1>6. CASE OnTaskStart(h)
  <2>1. \A g \in Threads, n \in Nat : Due(g, n)' => Due(g, n)
    BY <1>1, <1>6 DEF OnTaskStart, TakeTask, Goto, Due
  <2>2. helper' = helper /\ \A i \in Items : posted'[i] => posted[i]
    BY <1>1, <1>6, ThreadParts DEF OnTaskStart
  <2> QED BY <1>2, <2>1, <2>2, TaskKept
<1>7. CASE OnTaskComplete(h)
  <2>1. \A g \in Threads, n \in Nat : Due(g, n)' => Due(g, n)
    BY <1>1, <1>7 DEF OnTaskComplete, DropTask, Goto, Due
  <2> QED BY <1>2, <1>7, <2>1, TaskKept DEF OnTaskComplete
<1>8. CASE BlankTask(h) \/ GroupItemTask(h) \/ VerifySilent(h)
  <2>1. pc' = [pc EXCEPT ![h] = "done"] /\ UNCHANGED <<list, hand, handleVars>>
    BY <1>8 DEF BlankTask, GroupItemTask, VerifySilent, Goto
  <2>2. \A g \in Threads, n \in Nat : Due(g, n)' => Due(g, n)
    BY <1>1, <2>1 DEF Due
  <2> QED BY <1>2, <2>1, <2>2, TaskKept DEF handleVars
<1>9. CASE EndThread(h) /\ UNCHANGED handleVars
  <2>1. \A g \in Threads, n \in Nat : Due(g, n)' => Due(g, n)
    BY <1>1, <1>9 DEF EndThread, PurgeTasks, Due
  <2> QED BY <1>2, <1>9, <2>1, TaskKept DEF handleVars
<1>10. CASE JoinThread(h) /\ UNCHANGED handleVars
  <2>1. \A g \in Threads, n \in Nat : Due(g, n)' => Due(g, n)
    BY <1>1, <1>10 DEF JoinThread, Goto, Due
  <2> QED BY <1>2, <1>10, <2>1, TaskKept DEF handleVars
<1> QED BY <1>3, <1>4, <1>5, <1>6, <1>7, <1>8, <1>9, <1>10

LEMMA EventReturnsCalm ==
  ASSUME IInv, Calm, NEW h \in Threads, EventReturns(h)
  PROVE  Calm'
<1> DEFINE q == IF pc[h] = "good" THEN "close" ELSE "done"
<1>1. pc' = [pc EXCEPT ![h] = q] /\ q \notin {"take", "run"}
      /\ UNCHANGED <<list, hand, helper, posted>>
  BY DEF EventReturns, Goto, handleVars
<1>2. UNCHANGED <<groupVars, adderVars, callVars>>
  BY DEF EventReturns
<1> HIDE DEF q
<1>3. \A g \in Threads, n \in Nat : Due(g, n)' => Due(g, n)
  BY <1>1, TypeParts DEF Due, IInv, ThreadTypeOK
<1> QED BY <1>1, <1>2, <1>3, TaskKept

LEMMA CompleteStageCalm ==
  ASSUME IInv, Calm, NEW h \in Threads, CompleteStage(h), Elsewhere
  PROVE  Calm'
<1> DEFINE p == [pc EXCEPT ![h] = "done"]
<1>1. RegisterTasks(Owner(h), Completion, p) /\ UNCHANGED <<posted, helper>>
  BY DEF CompleteStage
<1>2. p \in [Threads -> Places] /\ \A g \in Threads : p[g] \in {"take", "run"} => pc[g] = p[g]
  BY TypeParts DEF IInv, ThreadTypeOK, Places
<1> HIDE DEF p
<1>3. \A g \in Threads, n \in Nat : Due(g, n)' => Due(g, n)
  BY <1>1, <1>2, CompletionTasks, CompletionIsNone, ThreadParts, NoneQueued
<1> QED BY <1>1, <1>3, TaskKept DEF Elsewhere

\* A verdict ends the turn of the verification, and gives it to the event.
LEMMA VerdictCalm ==
  ASSUME IInv, Calm, NEW h \in Threads, VerdictCall(h), Due(h, 0),
         posted' = [posted EXCEPT ![Owner(h)] = TRUE], UNCHANGED helper,
         \A g \in Threads, n \in Nat : Due(g, n)' => Due(g, n) /\ ~(g = h /\ n = 0)
  PROVE  Calm'
<1>1. /\ waitingList' = waitingList /\ activeItem' = activeItem /\ lastActive' = lastActive
      /\ started' = started /\ final' = final /\ todo' = todo
      /\ toAdd' = toAdd /\ adder' = adder
  BY DEF VerdictCall, ElsewhereUnchanged, groupVars, adderVars
<1>2. call \in [Callers -> {"idle", "test", "drain", "drained", "advance", "purge", "register"}]
      /\ posted \in [Items -> BOOLEAN] /\ h \in Callers /\ h # Adder /\ h # User
  <2>1. h # Adder /\ h # User
    BY ThreadParts DEF Adder, User
  <2> QED BY <2>1, TypeParts DEF IInv, RestTypeOK, HandleTypeOK, Callers
<1>3. (call' = [call EXCEPT ![h] = "test"]) \/ call' = call
  BY DEF VerdictCall, Step
<1>4. call'[h] \in {call[h], "test"} /\ \A c \in Callers : c # h => call'[c] = call[c]
  BY <1>2, <1>3
<1>5. \A c \in Callers : ~InTurn(c)
  BY DEF Calm, OneTurn, NothingDue
<1>6. NothingDue'
  BY DEF Calm, OneTurn, NothingDue
<1>7. \A c \in Callers : InTurn(c)' => c = h
  BY <1>1, <1>4, <1>5 DEF InTurn, Moving
<1>8. OneTurn'
  BY <1>6, <1>7 DEF OneTurn, NothingDue
<1>9. UserInv' /\ Distinct' /\ CallsInv' /\ OneHelper'
      /\ (activeItem # NoIndex => lastActive = NoIndex)'
  BY <1>1, <1>2, <1>4, <1>5 DEF Calm, UserInv, Distinct, CallsInv, OneHelper, InTurn, Callers
<1>10. started
  BY DEF Calm, AdderInv, NothingDue
<1>11. AdderInv'
  BY <1>1, <1>2, <1>4, <1>10 DEF Calm, AdderInv, Listed, Callers
<1>12. /\ Finished' <=> Finished
       /\ HasActive' <=> HasActive
       /\ ActiveItem' = ActiveItem
       /\ \A i \in Items : Had(i)' <=> Had(i)
  BY <1>1 DEF Finished, HasActive, ActiveItem, Had, Reached
<1>13. ASSUME ~Finished PROVE IndexInv'
  <2>1. IndexInv
    BY <1>13 DEF Calm
  <2>2. HasActive /\ Owner(h) = ActiveItem /\ activeItem # NoIndex
    BY <2>1 DEF IndexInv, NothingDue
  <2>3. Had(Owner(h))
    <3>1. activeItem + 1 \in DOMAIN waitingList /\ activeItem \in Nat /\ Reached = activeItem
      BY <2>2, TypeParts DEF IInv, RestTypeOK, HasActive, Reached
    <3> QED BY <2>2, <3>1 DEF Had, ActiveItem
  <2>4. \A i \in Items : posted'[i] => Had(i)
    BY <2>1, <2>3, <1>2 DEF IndexInv
  <2>5. \A c \in Callers : call'[c] \in {"drain", "advance"} => call'[c] = call[c]
    BY <1>2, <1>4
  <2>6. Adder \in Callers /\ Threads \subseteq Callers
    BY DEF Callers
  <2> QED BY <2>1, <2>2, <2>4, <2>5, <2>6, <1>1, <1>2, <1>4, <1>6, <1>7, <1>12
          DEF IndexInv, Moving, NothingDue
<1> QED BY <1>8, <1>9, <1>11, <1>12, <1>13 DEF Calm

LEMMA FinishVerifyCalm ==
  ASSUME IInv, Calm, NEW h \in Threads, FinishVerify(h), VerdictCall(h)
  PROVE  Calm'
<1> DEFINE q == IF helper[Owner(h)] THEN "good" ELSE "close"
<1>1. /\ pc[h] = "run" /\ hand[h] = "verify" /\ pc' = [pc EXCEPT ![h] = q]
      /\ q \notin {"take", "run"}
      /\ posted' = [posted EXCEPT ![Owner(h)] = TRUE] /\ UNCHANGED <<list, hand, helper>>
  BY DEF FinishVerify, Goto
<1> HIDE DEF q
<1>2. list \in [Threads -> Seq(Kinds)] /\ pc \in [Threads -> Places]
  BY TypeParts DEF IInv, ThreadTypeOK
<1>3. \A g \in Threads, n \in Nat : Due(g, n)' => Due(g, n) /\ ~(g = h /\ n = 0)
  BY <1>1, <1>2 DEF Due
<1>4. Due(h, 0)
  BY <1>1 DEF Due
<1> QED BY <1>1, <1>3, <1>4, VerdictCalm

LEMMA OnErrorCalm ==
  ASSUME IInv, Calm, NEW h \in Threads, OnError(h), VerdictCall(h)
  PROVE  Calm'
<1> DEFINE q == IF helper[Owner(h)] THEN "bad" ELSE "done"
           p == [pc EXCEPT ![h] = q]
<1>1. /\ pc[h] = "run" /\ hand[h] = "verify" /\ q \notin {"take", "run"} /\ q \in Places
      /\ posted' = [posted EXCEPT ![Owner(h)] = TRUE] /\ UNCHANGED helper
  BY DEF OnError, Places
<1>2. list \in [Threads -> Seq(Kinds)] /\ pc \in [Threads -> Places]
  BY TypeParts DEF IInv, ThreadTypeOK
<1> HIDE DEF q
<1>3. p \in [Threads -> Places] /\ p[h] = q /\ \A g \in Threads : g # h => p[g] = pc[g]
  BY <1>1, <1>2
<1>4. Due(h, 0)
  BY <1>1 DEF Due
<1>5. CASE pauseOnError[Owner(h)]
  <2>1. pc' = p /\ UNCHANGED <<list, hand>>
    BY <1>5 DEF OnError, q
  <2> HIDE DEF p
  <2>2. \A g \in Threads, n \in Nat : Due(g, n)' => Due(g, n) /\ ~(g = h /\ n = 0)
    BY <1>1, <1>2, <1>3, <2>1 DEF Due
  <2> QED BY <1>1, <1>4, <2>2, VerdictCalm
<1>6. CASE ~pauseOnError[Owner(h)]
  <2>1. RegisterTasks(Owner(h), Completion, p)
    BY <1>6 DEF OnError, q
  <2> HIDE DEF p
  <2>2. \A g \in Threads : p[g] \in {"take", "run"} => pc[g] = p[g]
    BY <1>1, <1>3
  <2>3. \A g \in Threads, n \in Nat : Due(g, n)' => Due(g, n)
    BY <1>3, <2>1, <2>2, CompletionTasks, CompletionIsNone, ThreadParts, NoneQueued
  <2>4. pc'[h] \notin {"take", "run"}
    <3>1. \A g \in Threads : pc'[g] = p[g] \/ pc'[g] = "loop"
      <4>1. CASE QueueTasks(ThreadOf(Owner(h)), Completion, p)
        BY <4>1 DEF QueueTasks
      <4>2. ASSUME NEW s \in Slots, StartThread(<<Owner(h), s>>, Completion, p)
            PROVE  \A g \in Threads : pc'[g] = p[g] \/ pc'[g] = "loop"
        BY <1>3, <4>2 DEF StartThread
      <4> QED BY <2>1, <4>1, <4>2 DEF RegisterTasks
    <3> QED BY <1>1, <1>3, <3>1
  <2>5. ~Due(h, 0)'
    <3>1. list' \in [Threads -> Seq(Kinds)]
      BY OnErrorKept DEF IInv, TypeOK, ThreadTypeOK
    <3>2. 0 \notin DOMAIN list'[h]
      BY <3>1
    <3> QED BY <2>4, <3>2 DEF Due
  <2> QED BY <1>1, <1>4, <2>3, <2>5, VerdictCalm
<1> QED BY <1>5, <1>6

LEMMA WorkerCalm ==
  ASSUME IInv, Calm, NEW h \in Threads, Worker(h)
  PROVE  Calm'
<1>1. CASE /\ ClearFlag(h) \/ PopTask(h) \/ SkipTask(h) \/ Leave(h)
           /\ UNCHANGED <<handleVars, callVars>> /\ ElsewhereUnchanged
  <2>1. Elsewhere /\ UNCHANGED handleVars
    BY <1>1 DEF Elsewhere, ElsewhereUnchanged
  <2> QED BY <1>1, <2>1, PopCalm, StepsCalm
<1>2. CASE /\ \/ OnTaskStart(h) \/ OnTaskComplete(h)
              \/ BlankTask(h) \/ GroupItemTask(h)
              \/ VerifySilent(h) \/ CompleteStage(h)
           /\ UNCHANGED callVars /\ ElsewhereUnchanged
  <2>1. Elsewhere
    BY <1>2 DEF Elsewhere, ElsewhereUnchanged
  <2> QED BY <1>2, <2>1, StepsCalm, CompleteStageCalm
<1>3. CASE /\ FinishVerify(h) \/ OnError(h)
           /\ IF helper[Owner(h)] THEN Step(h, "test") ELSE UNCHANGED call
           /\ UNCHANGED todo /\ ElsewhereUnchanged
  <2>1. VerdictCall(h)
    BY <1>3 DEF VerdictCall
  <2> QED BY <1>3, <2>1, FinishVerifyCalm, OnErrorCalm
<1>4. CASE EventReturns(h)
  BY <1>4, EventReturnsCalm
<1> QED BY <1>1, <1>2, <1>3, <1>4 DEF Worker

LEMMA ThreadPoolCalm ==
  ASSUME IInv, Calm, NEW h \in Threads, ThreadPool(h)
  PROVE  Calm'
<1>1. Elsewhere /\ UNCHANGED handleVars
  BY DEF ThreadPool, Elsewhere, ElsewhereUnchanged
<1> QED BY <1>1, StepsCalm DEF ThreadPool

-----------------------------------------------------------------------------
\* The index one further, where the group begins when there is none yet.
LEMMA OneFurther ==
  /\ \A x \in Nat : x < MaxIndex => Plus1(x) = x + 1
  /\ Plus1(NoIndex) = 0
<1>1. ASSUME NEW x \in Nat, x < MaxIndex PROVE Plus1(x) = x + 1
  BY <1>1 DEF Plus1
<1>2. (MaxIndex + 1) % (MaxIndex + 1) = 0
  OBVIOUS
<1> QED BY <1>1, <1>2 DEF Plus1, NoIndex

LEMMA ResumedIsNext ==
  ASSUME IInv, Calm, ~Finished
  PROVE  Resumed = Reached + 1 /\ Resumed \in Nat
<1>1. /\ activeItem \in 0..MaxIndex /\ lastActive \in 0..MaxIndex
      /\ waitingList \in Seq(Items)
  BY TypeParts DEF IInv, RestTypeOK
<1>2. Len(waitingList) <= MaxIndex /\ Len(waitingList) \in Nat
  BY <1>1, ShortList DEF Calm
<1>3. /\ activeItem # NoIndex => lastActive = NoIndex /\ activeItem < Len(waitingList)
      /\ lastActive # NoIndex => lastActive < Len(waitingList)
  BY DEF Calm, IndexInv, HasActive
<1>4. CASE activeItem # NoIndex
  BY <1>1, <1>2, <1>3, <1>4, OneFurther DEF Resumed, Reached
<1>5. CASE activeItem = NoIndex /\ lastActive # NoIndex
  BY <1>1, <1>2, <1>3, <1>5, OneFurther DEF Resumed, Reached
<1>6. CASE activeItem = NoIndex /\ lastActive = NoIndex
  BY <1>6, OneFurther DEF Resumed, Reached
<1> QED BY <1>4, <1>5, <1>6

\* A step that gives no turn to a caller or a thread leaves one turn.
LEMMA TurnKept ==
  ASSUME Calm, \A d \in Callers : InTurn(d)' => InTurn(d),
         \A h \in Threads, n \in Nat : Due(h, n)' => Due(h, n)
  PROVE  OneTurn' /\ (NothingDue => NothingDue')
<1>1. NothingDue => NothingDue'
  BY DEF NothingDue
<1> QED BY <1>1 DEF Calm, OneTurn

LEMMA DueAlone ==
  ASSUME UNCHANGED <<pc, hand, list>>
  PROVE  \A h \in Threads, n \in Nat : Due(h, n)' => Due(h, n)
BY DEF Due

\* The caller that moves the index, and nobody else, has the turn.
LEMMA MoverFacts ==
  ASSUME IInv, Calm, NEW c \in Callers, InTurn(c)
  PROVE  /\ c # User /\ started /\ NothingDue
         /\ \A d \in Callers : InTurn(d) => d = c
         /\ \A d \in Callers : d # c => ~Moving(d) /\ todo[d] = <<>>
         /\ c = Adder => adder = <<"find">>
         /\ Moving(c) => todo[c] = <<>>
<1>1. c # User /\ started /\ NothingDue /\ (Moving(c) => todo[c] = <<>>)
  BY DEF Calm, UserInv, AdderInv, OneTurn, CallsInv, InTurn, Moving
<1>2. \A d \in Callers : InTurn(d) => d = c
  BY DEF Calm, OneTurn
<1>3. c = Adder => call[Adder] # "idle"
  BY DEF Calm, CallsInv, InTurn, Moving
<1> QED BY <1>1, <1>2, <1>3 DEF InTurn, Calm, AdderInv

LEMMA CallerTypes ==
  ASSUME IInv
  PROVE  /\ call \in [Callers -> {"idle", "test", "drain", "drained", "advance", "purge", "register"}]
         /\ todo \in [Callers -> Seq(Items)] /\ waitingList \in Seq(Items)
         /\ activeItem \in 0..MaxIndex /\ lastActive \in 0..MaxIndex
         /\ helper \in [Items -> BOOLEAN] /\ posted \in [Items -> BOOLEAN]
         /\ Adder \in Callers /\ User \in Callers /\ Threads \subseteq Callers
         /\ Adder \notin Threads /\ User \notin Threads /\ Adder # User
<1>1. Adder \notin Threads /\ User \notin Threads
  BY ThreadParts DEF Adder, User
<1> QED BY <1>1, TypeParts DEF IInv, RestTypeOK, HandleTypeOK, Callers, Adder, User

LEMMA NextItemCalm ==
  ASSUME IInv, Calm, NEW c \in Callers, NextItem(c)
  PROVE  Calm'
<1> DEFINE at == IF Plus1(activeItem) >= Len(waitingList) THEN "drain" ELSE "advance"
<1>1. /\ call[c] = "test" /\ call' = [call EXCEPT ![c] = at]
      /\ UNCHANGED <<threadVars, posted, groupVars, adderVars, todo>>
      /\ helper' = [i \in Items |-> helper[i] /\ ~(HasActive /\ i = ActiveItem)]
  BY DEF NextItem, Step
<1>2. at \in {"drain", "advance"}
  OBVIOUS
<1>3. at = "drain" <=> Plus1(activeItem) >= Len(waitingList)
  OBVIOUS
<1> HIDE DEF at
<1>4. call'[c] = at /\ \A d \in Callers : d # c => call'[d] = call[d]
  BY <1>1, CallerTypes
<1>5. /\ waitingList' = waitingList /\ activeItem' = activeItem /\ lastActive' = lastActive
      /\ started' = started /\ final' = final /\ adder' = adder /\ toAdd' = toAdd
      /\ pc' = pc /\ hand' = hand /\ list' = list /\ todo' = todo /\ posted' = posted
  BY <1>1 DEF groupVars, adderVars, threadVars
<1>6. InTurn(c) /\ Moving(c)
  BY <1>1 DEF InTurn, Moving
<1>7. \A d \in Callers : InTurn(d)' => InTurn(d)
  BY <1>4, <1>5, <1>6 DEF InTurn, Moving
<1>8. OneTurn' /\ (NothingDue => NothingDue')
  BY <1>5, <1>7, TurnKept, DueAlone
<1>9. UserInv' /\ Distinct' /\ CallsInv' /\ (activeItem # NoIndex => lastActive = NoIndex)'
  BY <1>4, <1>5, <1>6, MoverFacts, CallerTypes DEF Calm, UserInv, Distinct, CallsInv
<1>10. AdderInv'
  BY <1>4, <1>5, <1>6, MoverFacts, CallerTypes DEF Calm, AdderInv, Listed
<1>11. OneHelper'
  BY <1>1 DEF Calm, OneHelper
<1>12. ASSUME ~Finished' PROVE IndexInv'
  <2>1. IndexInv
    BY <1>5, <1>12 DEF Calm, Finished
  <2>2. /\ HasActive' <=> HasActive
        /\ ActiveItem' = ActiveItem
        /\ \A i \in Items : Had(i)' <=> Had(i)
    BY <1>5 DEF HasActive, ActiveItem, Had, Reached
  <2>3. \A i \in Items : ~helper'[i]
    BY <1>1, <2>1 DEF IndexInv
  <2>4. NothingDue'
    BY <1>6, <1>8, MoverFacts
  <2>5. c # Adder => activeItem # NoIndex
    BY <1>6, <2>1 DEF IndexInv
  <2>6. c = Adder => activeItem = NoIndex
    BY <1>6, <2>1 DEF IndexInv
  <2>7. Len(waitingList) <= MaxIndex
    BY ShortList, CallerTypes DEF Calm
  <2>8. call'[Adder] = "drain" => waitingList = <<>>
    <3>1. CASE c = Adder
      BY <1>3, <1>4, <2>6, <3>1, OneFurther, CallerTypes
    <3>2. CASE c # Adder
      BY <1>4, <1>6, <3>2, MoverFacts, CallerTypes DEF Moving
    <3> QED BY <3>1, <3>2
  <2>9. \A h \in Threads : call'[h] = "advance" => activeItem + 1 < Len(waitingList)
    <3> SUFFICES ASSUME NEW h \in Threads, call'[h] = "advance"
                 PROVE  activeItem + 1 < Len(waitingList)
      OBVIOUS
    <3>1. c = h
      BY <1>4, <1>6, MoverFacts, CallerTypes DEF Moving
    <3>2. activeItem < Len(waitingList) /\ activeItem \in Nat
      BY <2>1, <2>5, <3>1, CallerTypes DEF IndexInv, HasActive
    <3>3. Plus1(activeItem) = activeItem + 1
      BY <2>7, <3>2, OneFurther, CallerTypes
    <3>4. ~(Plus1(activeItem) >= Len(waitingList))
      BY <1>2, <1>3, <1>4, <3>1
    <3> QED BY <3>2, <3>3, <3>4, CallerTypes
  <2>10. /\ Moving(Adder)' => activeItem = NoIndex
         /\ activeItem = NoIndex => \A d \in Callers : InTurn(d)' => d = Adder
    BY <1>4, <1>6, <1>7, <2>1, <2>6, MoverFacts, CallerTypes DEF IndexInv, Moving
  <2>11. \A d \in Callers : todo[d] = <<>>
    BY <1>6, MoverFacts
  <2> QED BY <1>5, <2>1, <2>2, <2>3, <2>4, <2>8, <2>9, <2>10, <2>11 DEF IndexInv, NothingDue
<1> QED BY <1>8, <1>9, <1>10, <1>11, <1>12 DEF Calm

\* No item waits: the turn ends, and with it the index.
LEMMA NoneLeftCalm ==
  ASSUME IInv, Calm, NEW c \in Callers, NoneLeft(c)
  PROVE  Calm'
<1>1. /\ call[c] = "drain" /\ call' = [call EXCEPT ![c] = "drained"]
      /\ lastActive' = activeItem /\ activeItem' = NoIndex
      /\ UNCHANGED <<threadVars, handleVars, waitingList, started, final, adderVars, todo>>
  BY DEF NoneLeft, Step
<1>2. /\ waitingList' = waitingList
      /\ started' = started /\ final' = final /\ adder' = adder /\ toAdd' = toAdd
      /\ pc' = pc /\ hand' = hand /\ list' = list /\ todo' = todo /\ posted' = posted
      /\ helper' = helper
  BY <1>1 DEF handleVars, adderVars, threadVars
<1>3. call'[c] = "drained" /\ \A d \in Callers : d # c => call'[d] = call[d]
  BY <1>1, CallerTypes
<1>4. InTurn(c) /\ Moving(c)
  BY <1>1 DEF InTurn, Moving
<1>5. \A d \in Callers : ~InTurn(d)'
  BY <1>2, <1>3, <1>4, MoverFacts DEF InTurn, Moving
<1>6. OneTurn' /\ (NothingDue => NothingDue')
  BY <1>2, <1>5, TurnKept, DueAlone
<1>7. UserInv' /\ Distinct' /\ CallsInv' /\ OneHelper'
      /\ (activeItem # NoIndex => lastActive = NoIndex)'
  BY <1>1, <1>2, <1>3, <1>4, MoverFacts, CallerTypes
  DEF Calm, UserInv, Distinct, CallsInv, OneHelper
<1>8. AdderInv'
  <2>1. Listed' = Listed /\ started' /\ (call'[Adder] # "idle" => call[Adder] # "idle")
    BY <1>1, <1>2, <1>3, <1>4, MoverFacts, CallerTypes DEF Listed
  <2> QED BY <1>2, <2>1 DEF Calm, AdderInv
<1>9. ASSUME ~Finished' PROVE IndexInv'
  <2>1. IndexInv
    BY <1>2, <1>9 DEF Calm, Finished
  <2>2. NothingDue'
    BY <1>4, <1>6, MoverFacts
  <2>3. \A d \in Callers : todo'[d] = <<>> /\ ~(Moving(d)')
    BY <1>5 DEF InTurn
  <2>4. \A i \in Items : ~helper'[i]
    BY <1>1, <1>2, <2>1 DEF IndexInv
  <2>5. lastActive' # NoIndex => lastActive' < Len(waitingList')
    BY <1>1, <1>2, <2>1 DEF IndexInv, HasActive
  <2>6. ASSUME NEW i \in Items, posted'[i] PROVE Had(i)'
    <3>1. Had(i)
      BY <1>2, <2>1, <2>6 DEF IndexInv
    <3>2. activeItem # NoIndex
      <4>1. CASE c = Adder
        BY <1>1, <2>1, <3>1, <4>1 DEF IndexInv, Had
      <4>2. CASE c # Adder
        BY <1>4, <2>1, <4>2 DEF IndexInv
      <4> QED BY <4>1, <4>2
    <3>3. Reached' = Reached
      BY <1>1, <3>2 DEF Reached
    <3> QED BY <1>2, <3>1, <3>3 DEF Had
  <2> QED BY <1>1, <2>2, <2>3, <2>4, <2>5, <2>6, CallerTypes
          DEF IndexInv, NothingDue, Moving, InTurn
<1> QED BY <1>6, <1>7, <1>8, <1>9 DEF Calm

\* The list is emptied only when the group is final: nothing is added to it later.
LEMMA CancelCalm ==
  ASSUME IInv, Calm, final, CancelAll, UNCHANGED todo,
         \A d \in Callers : InTurn(d)' => InTurn(d),
         UserInv', CallsInv', AdderInv'
  PROVE  Calm'
<1>1. /\ waitingList' = <<>> /\ final' = final /\ activeItem' = activeItem
      /\ lastActive' = lastActive /\ helper' = helper
      /\ pc' = pc /\ hand' = hand /\ list' = list
  BY DEF CancelAll
<1>2. OneTurn'
  BY <1>1, TurnKept, DueAlone
<1>3. Finished'
  BY <1>1 DEF Finished
<1> QED BY <1>1, <1>2, <1>3 DEF Calm, Distinct, OneHelper

LEMMA FinishCalm ==
  ASSUME IInv, Calm, NEW c \in Callers, Finish(c)
  PROVE  Calm'
<1>1. call[c] = "drained" /\ Return(c) /\ UNCHANGED <<adderVars, todo>>
  BY DEF Finish
<1>2. todo[c] = <<>>
  BY <1>1 DEF Calm, CallsInv
<1>3. call' = [call EXCEPT ![c] = "idle"]
  BY <1>1, <1>2 DEF Return, Step
<1>4. call'[c] = "idle" /\ \A d \in Callers : d # c => call'[d] = call[d]
  BY <1>3, CallerTypes
<1>5. todo' = todo /\ adder' = adder /\ toAdd' = toAdd
  BY <1>1 DEF adderVars
<1>6. \A d \in Callers : InTurn(d)' <=> InTurn(d)
  BY <1>1, <1>4, <1>5 DEF InTurn, Moving
<1>7. UserInv' /\ CallsInv'
  BY <1>1, <1>2, <1>4, <1>5, CallerTypes DEF Calm, UserInv, CallsInv
<1>8. CASE CancelAll /\ final
  <2>1. /\ waitingList' = <<>> /\ final' = final /\ activeItem' = activeItem
        /\ started' = started /\ pc' = pc /\ hand' = hand /\ list' = list
    BY <1>8 DEF CancelAll
  <2>2. NothingDue => NothingDue'
    BY <1>6, <2>1, TurnKept, DueAlone
  <2>3. Listed' = {}
    BY <2>1 DEF Listed
  <2>4. AdderInv'
    BY <1>4, <1>5, <1>6, <2>1, <2>2, <2>3, CallerTypes DEF Calm, AdderInv
  <2> QED BY <1>5, <1>6, <1>7, <1>8, <2>4, CancelCalm
<1>9. CASE UNCHANGED <<threadVars, handleVars, groupVars>>
  <2>1. /\ waitingList' = waitingList /\ activeItem' = activeItem /\ lastActive' = lastActive
        /\ started' = started /\ final' = final /\ posted' = posted /\ helper' = helper
        /\ pc' = pc /\ hand' = hand /\ list' = list
    BY <1>9 DEF groupVars, threadVars, handleVars
  <2>2. OneTurn' /\ (NothingDue => NothingDue')
    BY <1>6, <2>1, TurnKept, DueAlone
  <2>3. AdderInv'
    BY <1>4, <1>5, <1>6, <2>1, <2>2, CallerTypes DEF Calm, AdderInv, Listed
  <2>4. Distinct' /\ OneHelper' /\ (activeItem # NoIndex => lastActive = NoIndex)'
    BY <2>1 DEF Calm, Distinct, OneHelper
  <2>5. /\ Finished' <=> Finished
        /\ HasActive' <=> HasActive
        /\ ActiveItem' = ActiveItem
        /\ \A i \in Items : Had(i)' <=> Had(i)
    BY <2>1 DEF Finished, HasActive, ActiveItem, Had, Reached
  <2>6. \A d \in Callers : call'[d] \in {"test", "drain", "advance"} => call'[d] = call[d]
    BY <1>4
  <2>7. \A h \in Threads, n \in Nat : Due(h, n)' => Due(h, n)
    BY <2>1, DueAlone
  <2>8. IndexInv => IndexInv'
    BY <1>5, <1>6, <2>1, <2>2, <2>5, <2>6, <2>7, CallerTypes DEF IndexInv, Moving
  <2> QED BY <1>7, <2>2, <2>3, <2>4, <2>5, <2>8 DEF Calm
<1> QED BY <1>8, <1>9 DEF Finish

\* An item waits: the index moves on to it, and it is its turn.
LEMMA AdvanceCalm ==
  ASSUME IInv, Calm, NEW c \in Callers, Advance(c)
  PROVE  Calm'
<1> DEFINE i == waitingList[Resumed + 1]
           at == IF IsInStage(i) /\ posted[i] THEN "test" ELSE "purge"
<1>1. /\ call[c] = "advance" /\ Resumed < Len(waitingList)
      /\ activeItem' = Resumed /\ lastActive' = NoIndex
      /\ helper' = [helper EXCEPT ![i] = TRUE]
      /\ todo' = [todo EXCEPT ![c] = <<i>> \o @]
      /\ call' = [call EXCEPT ![c] = at]
      /\ UNCHANGED <<threadVars, posted, waitingList, started, final, adderVars>>
  BY DEF Advance, Step
<1>2. InTurn(c) /\ Moving(c)
  BY <1>1 DEF InTurn, Moving
<1>3. ~Finished /\ IndexInv
  <2>1. Resumed \in 0..MaxIndex
    BY CallerTypes, NextIndex DEF Resumed
  <2>2. waitingList # <<>>
    BY <1>1, <2>1
  <2> QED BY <2>2 DEF Finished, Calm
<1>4. Resumed = Reached + 1 /\ Resumed \in Nat /\ Resumed + 1 \in DOMAIN waitingList
  BY <1>1, <1>3, ResumedIsNext, CallerTypes
<1>5. i \in Items
  BY <1>4, CallerTypes
<1>6. ~posted[i]
  <2> SUFFICES ASSUME posted[i] PROVE FALSE
    OBVIOUS
  <2>1. PICK n \in DOMAIN waitingList : waitingList[n] = i /\ n - 1 <= Reached
    BY <1>3, <1>5 DEF IndexInv, Had
  <2>2. n = Resumed + 1
    BY <1>4, <2>1 DEF Calm, Distinct
  <2>3. Reached \in Int /\ n \in Nat
    BY CallerTypes DEF Reached
  <2> QED BY <1>4, <2>1, <2>2, <2>3
<1>7. at = "purge"
  BY <1>6
<1>8. todo[c] = <<>>
  BY <1>2, MoverFacts
<1> HIDE DEF i, at
<1>9. /\ waitingList' = waitingList
      /\ started' = started /\ final' = final /\ adder' = adder /\ toAdd' = toAdd
      /\ pc' = pc /\ hand' = hand /\ list' = list /\ posted' = posted
  BY <1>1 DEF adderVars, threadVars
<1>10. /\ call'[c] = "purge" /\ todo'[c] = <<i>>
       /\ \A d \in Callers : d # c => call'[d] = call[d] /\ todo'[d] = todo[d]
  <2>1. <<i>> \o todo[c] = <<i>>
    BY <1>8
  <2> QED BY <1>1, <1>7, <2>1, CallerTypes
<1>11. \A d \in Callers : InTurn(d)' => InTurn(d)
  BY <1>2, <1>10 DEF InTurn, Moving
<1>12. OneTurn' /\ (NothingDue => NothingDue')
  BY <1>9, <1>11, TurnKept, DueAlone
<1>13. UserInv' /\ Distinct' /\ CallsInv'
  <2>1. Tail(<<i>>) = <<>>
    OBVIOUS
  <2> QED BY <1>2, <1>9, <1>10, <2>1, MoverFacts, CallerTypes DEF Calm, UserInv, Distinct, CallsInv
<1>14. AdderInv'
  <2>1. Listed' = Listed /\ started' /\ (call'[Adder] # "idle" => call[Adder] # "idle")
    BY <1>1, <1>2, <1>9, <1>10, MoverFacts, CallerTypes DEF Listed
  <2> QED BY <1>9, <2>1 DEF Calm, AdderInv
<1>15. \A j \in Items : helper'[j] => j = i
  BY <1>1, <1>3, CallerTypes DEF IndexInv
<1>16. OneHelper'
  BY <1>15 DEF OneHelper
<1>17. (activeItem # NoIndex => lastActive = NoIndex)'
  BY <1>1
<1>18. IndexInv'
  <2>1. activeItem' # NoIndex /\ HasActive' /\ ActiveItem' = i
    <3>1. Len(waitingList) <= MaxIndex
      BY ShortList, CallerTypes DEF Calm
    <3> QED BY <1>1, <1>4, <1>9, <3>1, CallerTypes DEF HasActive, ActiveItem, NoIndex, i
  <2>2. NothingDue'
    BY <1>2, <1>12, MoverFacts
  <2>3. \A d \in Callers : ~(Moving(d)')
    BY <1>2, <1>10, MoverFacts DEF Moving
  <2>4. \A d \in Callers : todo'[d] # <<>> => todo'[d] = <<i>>
    BY <1>2, <1>10, MoverFacts
  <2>5. Reached' = Reached + 1 /\ Reached \in Int
    BY <1>1, <1>4, <2>1, CallerTypes DEF Reached
  <2>6. \A j \in Items : posted'[j] => Had(j)'
    <3>1. \A j \in Items : Had(j) => Had(j)'
      BY <1>9, <2>5, CallerTypes DEF Had
    <3> QED BY <1>3, <1>9, <3>1 DEF IndexInv
  <2> QED BY <1>1, <1>15, <2>1, <2>2, <2>3, <2>4, <2>6, CallerTypes
          DEF IndexInv, NothingDue, Moving
<1> QED BY <1>12, <1>13, <1>14, <1>16, <1>17, <1>18 DEF Calm

LEMMA AdvanceToNullCalm ==
  ASSUME IInv, Calm, NEW c \in Callers, AdvanceToNull(c)
  PROVE  Calm'
<1>1. UNCHANGED <<threadVars, handleVars, groupVars, adderVars, callVars>>
  BY DEF AdvanceToNull
<1>2. UNCHANGED <<pc, hand, list, helper, posted>>
  BY <1>1 DEF threadVars, handleVars
<1> QED BY <1>1, <1>2, DueAlone, TaskKept

\* The item's thread is purged: a verification on its list may lose its turn.
LEMMA PurgeItemCalm ==
  ASSUME IInv, Calm, NEW c \in Callers, PurgeItem(c)
  PROVE  Calm'
<1>1. /\ call[c] = "purge" /\ call' = [call EXCEPT ![c] = "register"]
      /\ UNCHANGED <<handleVars, groupVars, adderVars, todo>>
  BY DEF PurgeItem, Step
<1>2. pc' = pc /\ hand' = hand /\ \A h \in Threads : list'[h] \in {list[h], <<>>}
  <2> DEFINE i == Head(todo[c])
  <2>1. CASE HasThread(i)
    <3>1. PurgeTasks(ThreadOf(i)) /\ UNCHANGED <<pc, hand>>
      BY <2>1 DEF PurgeItem
    <3>2. list \in [Threads -> Seq(Kinds)]
      BY TypeParts DEF IInv, ThreadTypeOK
    <3> QED BY <3>1, <3>2 DEF PurgeTasks
  <2>2. CASE ~HasThread(i)
    BY <2>2 DEF PurgeItem, threadVars
  <2> QED BY <2>1, <2>2
<1>3. \A h \in Threads, n \in Nat : Due(h, n)' => Due(h, n)
  BY <1>2 DEF Due
<1>4. /\ waitingList' = waitingList /\ activeItem' = activeItem /\ lastActive' = lastActive
      /\ started' = started /\ final' = final /\ posted' = posted /\ helper' = helper
      /\ adder' = adder /\ toAdd' = toAdd /\ todo' = todo
  BY <1>1 DEF groupVars, handleVars, adderVars
<1>5. call'[c] = "register" /\ \A d \in Callers : d # c => call'[d] = call[d]
  BY <1>1, CallerTypes
<1>6. todo[c] # <<>>
  BY <1>1 DEF IInv, CallInv
<1>7. \A d \in Callers : InTurn(d)' <=> InTurn(d)
  BY <1>4, <1>5, <1>6 DEF InTurn, Moving
<1>8. OneTurn' /\ (NothingDue => NothingDue')
  BY <1>3, <1>7, TurnKept
<1>9. UserInv' /\ CallsInv'
  BY <1>1, <1>4, <1>5, CallerTypes DEF Calm, UserInv, CallsInv
<1>10. AdderInv'
  <2>1. Listed' = Listed /\ (call'[Adder] # "idle" => call[Adder] # "idle")
    BY <1>1, <1>4, <1>5, CallerTypes DEF Listed
  <2> QED BY <1>4, <1>7, <1>8, <2>1 DEF Calm, AdderInv
<1>11. Distinct' /\ OneHelper' /\ (activeItem # NoIndex => lastActive = NoIndex)'
  BY <1>4 DEF Calm, Distinct, OneHelper
<1>12. /\ Finished' <=> Finished
       /\ HasActive' <=> HasActive
       /\ ActiveItem' = ActiveItem
       /\ \A i \in Items : Had(i)' <=> Had(i)
  BY <1>4 DEF Finished, HasActive, ActiveItem, Had, Reached
<1>13. \A d \in Callers : call'[d] \in {"test", "drain", "advance"} => call'[d] = call[d]
  BY <1>5
<1>14. IndexInv => IndexInv'
  BY <1>3, <1>4, <1>7, <1>8, <1>12, <1>13, CallerTypes DEF IndexInv, Moving
<1> QED BY <1>8, <1>9, <1>10, <1>11, <1>12, <1>14 DEF Calm

\* Where the verification of item i may be queued: last on the list of one thread.
LEMMA OneQueued ==
  ASSUME IInv, NothingDue, NEW i \in Items, RegisterTasks(i, <<"verify">>, pc)
  PROVE  \E g \in Threads, k \in Nat :
           /\ Owner(g) = i
           /\ \A h \in Threads, n \in Nat : Due(h, n)' => h = g /\ n = k
<1>1. list \in [Threads -> Seq(Kinds)] /\ HandleTypeOK /\ pc \in [Threads -> Places]
  BY TypeParts DEF IInv, ThreadTypeOK
<1>2. CASE HasThread(i) /\ QueueTasks(ThreadOf(i), <<"verify">>, pc)
  <2> DEFINE g == ThreadOf(i)
             k == Len(list[g]) + 1
  <2>1. g \in Threads /\ Owner(g) = i
    BY <1>1, <1>2, ThreadOfItem
  <2>2. pc' = pc /\ hand' = hand
        /\ list' = [list EXCEPT ![g] = IF stopped[g] THEN @ ELSE @ \o <<"verify">>]
    BY <1>2 DEF QueueTasks
  <2> HIDE DEF g
  <2>3. \A h \in Threads : list'[h] = list[h] \/ (h = g /\ list'[h] = list[g] \o <<"verify">>)
    BY <1>1, <2>1, <2>2
  <2>4. list[g] \in Seq(Kinds)
    BY <1>1, <2>1
  <2>5. ASSUME NEW n \in DOMAIN (list[g] \o <<"verify">>), n # k
        PROVE  n \in DOMAIN list[g] /\ (list[g] \o <<"verify">>)[n] = list[g][n]
    BY <2>4, <2>5
  <2>6. k \in Nat
    BY <2>4
  <2> HIDE DEF k
  <2>7. ASSUME NEW h \in Threads, NEW n \in Nat, Due(h, n)'
        PROVE  h = g /\ n = k
    <3>1. ~Due(h, n)
      BY DEF NothingDue
    <3>2. n \in DOMAIN list'[h] /\ list'[h][n] = "verify"
      BY <2>2, <2>7, <3>1 DEF Due
    <3>3. h = g /\ list'[h] = list[g] \o <<"verify">>
      BY <2>3, <3>1, <3>2 DEF Due
    <3>4. n = k
      BY <2>5, <3>1, <3>2, <3>3 DEF Due
    <3> QED BY <3>3, <3>4
  <2> QED BY <2>1, <2>6, <2>7
<1>3. ASSUME NEW s \in Slots, StartThread(<<i, s>>, <<"verify">>, pc)
      PROVE  \E g \in Threads, k \in Nat :
               /\ Owner(g) = i
               /\ \A h \in Threads, n \in Nat : Due(h, n)' => h = g /\ n = k
  <2> DEFINE g == <<i, s>>
  <2>1. g \in Threads /\ Owner(g) = i
    BY DEF Threads, Owner
  <2>2. /\ hand' = hand /\ pc' = [pc EXCEPT ![g] = "loop"]
        /\ list' = [list EXCEPT ![g] = <<"verify">>]
    BY <1>3 DEF StartThread
  <2> HIDE DEF g
  <2>3. /\ pc'[g] = "loop" /\ list'[g] = <<"verify">>
        /\ \A h \in Threads : h # g => pc'[h] = pc[h] /\ list'[h] = list[h]
    BY <1>1, <2>1, <2>2
  <2>4. ASSUME NEW h \in Threads, NEW n \in Nat, Due(h, n)'
        PROVE  h = g /\ n = 1
    <3>1. ~Due(h, n)
      BY DEF NothingDue
    <3>2. h = g
      BY <2>2, <2>3, <2>4, <3>1 DEF Due
    <3> QED BY <2>3, <2>4, <3>2 DEF Due
  <2> QED BY <2>1, <2>4
<1> QED BY <1>2, <1>3 DEF RegisterTasks

\* The caller gives its turn to the verification.
LEMMA VerifyItemCalm ==
  ASSUME IInv, Calm, NEW c \in Callers, VerifyItem(c)
  PROVE  Calm'
<1> DEFINE i == Head(todo[c])
<1>1. /\ call[c] = "register" /\ RegisterTasks(i, <<"verify">>, pc)
      /\ todo' = [todo EXCEPT ![c] = Tail(@)]
      /\ call' = [call EXCEPT ![c] = IF Tail(todo[c]) = <<>> THEN "idle" ELSE "purge"]
      /\ UNCHANGED <<posted, helper, groupVars, adderVars>>
  BY DEF VerifyItem, Step
<1>2. todo[c] # <<>> /\ Tail(todo[c]) = <<>> /\ InTurn(c)
  BY <1>1 DEF IInv, CallInv, Calm, CallsInv, InTurn
<1>3. i \in Items
  BY <1>2, CallerTypes
<1> HIDE DEF i
<1>4. NothingDue
  BY <1>2, MoverFacts
<1>5. PICK g \in Threads, k \in Nat :
         /\ Owner(g) = i
         /\ \A h \in Threads, n \in Nat : Due(h, n)' => h = g /\ n = k
  BY <1>1, <1>3, <1>4, OneQueued
<1>6. /\ waitingList' = waitingList /\ activeItem' = activeItem /\ lastActive' = lastActive
      /\ started' = started /\ final' = final /\ posted' = posted /\ helper' = helper
      /\ adder' = adder /\ toAdd' = toAdd
  BY <1>1 DEF groupVars, adderVars
<1>7. /\ call'[c] = "idle" /\ todo'[c] = <<>>
      /\ \A d \in Callers : d # c => call'[d] = call[d] /\ todo'[d] = todo[d]
  BY <1>1, <1>2, CallerTypes
<1>8. \A d \in Callers : ~InTurn(d)'
  BY <1>2, <1>7, MoverFacts DEF InTurn, Moving
<1>9. OneTurn'
  BY <1>5, <1>8 DEF OneTurn
<1>10. UserInv' /\ CallsInv'
  BY <1>2, <1>7, MoverFacts, CallerTypes DEF Calm, UserInv, CallsInv
<1>11. AdderInv'
  <2>1. Listed' = Listed /\ started' /\ (call'[Adder] # "idle" => call[Adder] # "idle")
    BY <1>2, <1>6, <1>7, MoverFacts, CallerTypes DEF Listed
  <2> QED BY <1>6, <2>1 DEF Calm, AdderInv
<1>12. Distinct' /\ OneHelper' /\ (activeItem # NoIndex => lastActive = NoIndex)'
  BY <1>6 DEF Calm, Distinct, OneHelper
<1>13. /\ Finished' <=> Finished
       /\ HasActive' <=> HasActive
       /\ ActiveItem' = ActiveItem
       /\ \A j \in Items : Had(j)' <=> Had(j)
  BY <1>6 DEF Finished, HasActive, ActiveItem, Had, Reached
<1>14. ASSUME ~Finished PROVE IndexInv'
  <2>1. IndexInv
    BY <1>14 DEF Calm
  <2>2. HasActive /\ i = ActiveItem
    <3>1. HasActive /\ todo[c] = <<ActiveItem>>
      BY <1>2, <2>1 DEF IndexInv
    <3> QED BY <3>1 DEF i
  <2>3. activeItem # NoIndex
    <3>1. Len(waitingList) <= MaxIndex
      BY ShortList, CallerTypes DEF Calm
    <3> QED BY <2>2, <3>1, CallerTypes DEF HasActive, NoIndex
  <2>4. \A d \in Callers : todo'[d] = <<>> /\ ~(Moving(d)')
    BY <1>8 DEF InTurn
  <2> QED BY <1>5, <1>6, <1>13, <2>1, <2>2, <2>3, <2>4, CallerTypes DEF IndexInv, Moving
<1> QED BY <1>9, <1>10, <1>11, <1>12, <1>13, <1>14 DEF Calm

LEMMA CallerCalm ==
  ASSUME IInv, Calm, NEW c \in Callers, Caller(c)
  PROVE  Calm'
BY NextItemCalm, NoneLeftCalm, FinishCalm, AdvanceCalm, AdvanceToNullCalm,
   PurgeItemCalm, VerifyItemCalm DEF Caller

-----------------------------------------------------------------------------
LEMMA FindItemCalm ==
  ASSUME IInv, Calm, NEW i \in Items, FindItem(i)
  PROVE  Calm'
<1>1. /\ adder = <<"find">> /\ call[Adder] = "idle" /\ i \in toAdd /\ toAdd' = toAdd \ {i}
      /\ adder' \in {adder, <<"push", i>>}
      /\ UNCHANGED <<posted, helper, groupVars, callVars>>
  BY DEF FindItem
<1>2. \A h \in Threads, n \in Nat : Due(h, n)' => Due(h, n)
  <2>1. CASE IsInStage(i)
    BY <2>1, DueAlone DEF FindItem, threadVars
  <2>2. CASE ~IsInStage(i)
    <3>1. RegisterTasks(i, <<"wait">>, pc)
      BY <2>2 DEF FindItem
    <3>2. \A m \in DOMAIN <<"wait">> : <<"wait">>[m] # "verify"
      OBVIOUS
    <3>3. pc \in [Threads -> Places]
      BY TypeParts DEF IInv, ThreadTypeOK
    <3> QED BY <3>1, <3>2, <3>3, VerifyTasks, NoneQueued
  <2> QED BY <2>1, <2>2
<1>3. /\ waitingList' = waitingList /\ activeItem' = activeItem
      /\ started' = started /\ final' = final /\ call' = call /\ todo' = todo
  BY <1>1 DEF groupVars, callVars
<1>4. \A d \in Callers : InTurn(d)' <=> InTurn(d)
  BY <1>3 DEF InTurn, Moving
<1>5. OneTurn' /\ (NothingDue => NothingDue')
  BY <1>2, <1>4, TurnKept
<1>6. AdderInv'
  <2>1. Listed' = Listed /\ i \notin Listed
    BY <1>1, <1>3 DEF Listed, Calm, AdderInv
  <2>2. adder' = adder \/ adder' = <<"push", i>>
    BY <1>1
  <2>3. ~final
    BY <1>1 DEF Calm, AdderInv
  <2> QED BY <1>1, <1>3, <1>4, <1>5, <2>1, <2>2, <2>3 DEF Calm, AdderInv
<1>7. \A h, g \in Threads, m, n \in Nat : Due(h, m)' /\ Due(g, n)' => h = g /\ m = n
  BY <1>5 DEF OneTurn
<1> QED BY <1>1, <1>2, <1>6, <1>7, WorkKept

\* The list grows at its end: no index is disturbed.
LEMMA PushItemCalm ==
  ASSUME IInv, Calm, NEW i \in Items, PushItem(i)
  PROVE  Calm'
<1>1. /\ adder = <<"push", i>>
      /\ UNCHANGED <<threadVars, handleVars, activeItem, lastActive, started, final,
                     toAdd, callVars>>
  BY DEF PushItem
<1>2. i \notin toAdd /\ i \notin Listed /\ ~final /\ call[Adder] = "idle"
  BY <1>1 DEF Calm, AdderInv
<1>3. /\ pc' = pc /\ hand' = hand /\ list' = list /\ posted' = posted /\ helper' = helper
      /\ call' = call /\ todo' = todo
      /\ activeItem' = activeItem /\ lastActive' = lastActive
      /\ started' = started /\ final' = final /\ toAdd' = toAdd
  BY <1>1 DEF threadVars, handleVars, callVars
<1>4. adder' = <<"check", i>> /\ waitingList' = Append(waitingList, i)
  BY <1>2 DEF PushItem
<1>5. /\ Len(waitingList') = Len(waitingList) + 1 /\ Len(waitingList) \in Nat
      /\ waitingList'[Len(waitingList) + 1] = i
      /\ DOMAIN waitingList' = 1..(Len(waitingList) + 1)
      /\ DOMAIN waitingList = 1..Len(waitingList)
      /\ \A n \in DOMAIN waitingList : n \in DOMAIN waitingList' /\ waitingList'[n] = waitingList[n]
  BY <1>4, CallerTypes
<1>6. \A n \in DOMAIN waitingList : waitingList[n] # i
  BY <1>2, <1>5 DEF Listed
<1>7. \A d \in Callers : InTurn(d)' <=> InTurn(d)
  BY <1>3 DEF InTurn, Moving
<1>8. \A h \in Threads, n \in Nat : Due(h, n)' => Due(h, n)
  BY <1>3, DueAlone
<1>9. OneTurn' /\ (NothingDue => NothingDue')
  BY <1>7, <1>8, TurnKept
<1>10. UserInv' /\ CallsInv' /\ OneHelper' /\ (activeItem # NoIndex => lastActive = NoIndex)'
  BY <1>3 DEF Calm, UserInv, CallsInv, OneHelper
<1>11. Distinct'
  <2> SUFFICES ASSUME NEW m \in 1..(Len(waitingList) + 1), NEW n \in 1..(Len(waitingList) + 1),
                      waitingList'[m] = waitingList'[n]
               PROVE  m = n
    BY <1>5 DEF Distinct
  <2>1. CASE m \in DOMAIN waitingList /\ n \in DOMAIN waitingList
    BY <1>5, <2>1 DEF Calm, Distinct
  <2>2. CASE m = Len(waitingList) + 1 \/ n = Len(waitingList) + 1
    BY <1>5, <1>6, <2>2
  <2> QED BY <1>5, <2>1, <2>2
<1>12. AdderInv'
  <2>1. \A j \in Listed' : j \in Listed \/ j = i
    BY <1>5 DEF Listed
  <2> QED BY <1>2, <1>3, <1>4, <1>7, <1>9, <2>1 DEF Calm, AdderInv
<1>13. IndexInv'
  <2>1. IndexInv
    BY <1>2 DEF Calm, Finished
  <2>2. HasActive => HasActive' /\ ActiveItem' = ActiveItem
    BY <1>3, <1>5, CallerTypes DEF HasActive, ActiveItem
  <2>3. \A j \in Items : Had(j) => Had(j)'
    BY <1>3, <1>5 DEF Had, Reached
  <2>4. lastActive # NoIndex => lastActive' < Len(waitingList')
    BY <1>3, <1>5, <2>1, CallerTypes DEF IndexInv
  <2>5. \A h \in Threads : call'[h] = "advance" => activeItem' + 1 < Len(waitingList')
    BY <1>3, <1>5, <2>1, CallerTypes DEF IndexInv
  <2> QED BY <1>2, <1>3, <1>7, <1>8, <1>9, <2>1, <2>2, <2>3, <2>4, <2>5, CallerTypes
          DEF IndexInv, Moving
<1> QED BY <1>9, <1>10, <1>11, <1>12, <1>13 DEF Calm

\* Who starts the group, or adds to one that has come to its end, takes the turn.
LEMMA TurnTaken ==
  ASSUME IInv, Calm, call[Adder] = "idle", ~final, activeItem = NoIndex,
         NothingDue, \A d \in Callers : InTurn(d) => d = Adder,
         Step(Adder, "test"), adder' = <<"find">>, started', toAdd' = toAdd,
         UNCHANGED <<threadVars, handleVars, waitingList, activeItem, lastActive, final, todo>>
  PROVE  Calm'
<1>1. call'[Adder] = "test" /\ \A d \in Callers : d # Adder => call'[d] = call[d]
  BY CallerTypes DEF Step
<1>2. /\ pc' = pc /\ hand' = hand /\ list' = list /\ posted' = posted /\ helper' = helper
      /\ waitingList' = waitingList /\ activeItem' = activeItem /\ lastActive' = lastActive
      /\ final' = final /\ todo' = todo
  BY DEF threadVars, handleVars
<1>3. todo[Adder] = <<>>
  BY CallerTypes DEF Calm, CallsInv
<1>4. \A d \in Callers : InTurn(d)' => d = Adder
  BY <1>1, <1>2 DEF InTurn, Moving
<1>5. NothingDue'
  BY <1>2 DEF NothingDue, Due
<1>6. OneTurn'
  BY <1>4, <1>5 DEF OneTurn, NothingDue
<1>7. UserInv' /\ CallsInv' /\ OneHelper' /\ Distinct'
      /\ (activeItem # NoIndex => lastActive = NoIndex)'
  BY <1>1, <1>2, <1>3, CallerTypes DEF Calm, UserInv, CallsInv, OneHelper, Distinct
<1>8. AdderInv'
  BY <1>2 DEF Calm, AdderInv, Listed
<1>9. IndexInv'
  <2>1. IndexInv
    BY DEF Calm, Finished
  <2>2. /\ HasActive' <=> HasActive
        /\ ActiveItem' = ActiveItem
        /\ \A i \in Items : Had(i)' <=> Had(i)
    BY <1>2 DEF HasActive, ActiveItem, Had, Reached
  <2>3. \A d \in Callers : call'[d] \in {"drain", "advance"} => call'[d] = call[d]
    BY <1>1
  <2> QED BY <1>1, <1>2, <1>3, <1>4, <1>5, <2>1, <2>2, <2>3, CallerTypes
          DEF IndexInv, Moving, NothingDue
<1> QED BY <1>6, <1>7, <1>8, <1>9 DEF Calm

\* Steps of the adder that move neither the index nor a turn.
LEMMA AdderStepKept ==
  ASSUME IInv, Calm, AdderInv',
         UNCHANGED <<threadVars, handleVars, callVars, waitingList, activeItem, lastActive>>,
         final => final'
  PROVE  Calm'
<1>1. /\ pc' = pc /\ hand' = hand /\ list' = list /\ posted' = posted /\ helper' = helper
      /\ waitingList' = waitingList /\ activeItem' = activeItem /\ lastActive' = lastActive
      /\ call' = call /\ todo' = todo
  BY DEF threadVars, handleVars, callVars
<1>2. \A d \in Callers : InTurn(d)' <=> InTurn(d)
  BY <1>1 DEF InTurn, Moving
<1>3. \A h \in Threads, n \in Nat : Due(h, n)' => Due(h, n)
  BY <1>1, DueAlone
<1>4. OneTurn' /\ (NothingDue => NothingDue')
  BY <1>2, <1>3, TurnKept
<1>5. UserInv' /\ CallsInv' /\ OneHelper' /\ Distinct'
      /\ (activeItem # NoIndex => lastActive = NoIndex)'
  BY <1>1 DEF Calm, UserInv, CallsInv, OneHelper, Distinct
<1>6. /\ Finished => Finished'
      /\ HasActive' <=> HasActive
      /\ ActiveItem' = ActiveItem
      /\ \A i \in Items : Had(i)' <=> Had(i)
  BY <1>1 DEF Finished, HasActive, ActiveItem, Had, Reached
<1>7. IndexInv => IndexInv'
  BY <1>1, <1>2, <1>3, <1>4, <1>6 DEF IndexInv, Moving
<1> QED BY <1>4, <1>5, <1>6, <1>7 DEF Calm

LEMMA CheckActiveCalm ==
  ASSUME IInv, Calm, NEW i \in Items, CheckActive(i)
  PROVE  Calm'
<1>1. /\ adder = <<"check", i>> /\ adder' = <<"find">>
      /\ UNCHANGED <<threadVars, handleVars, groupVars, toAdd, todo>>
  BY DEF CheckActive
<1>2. call[Adder] = "idle" /\ ~final
  BY <1>1 DEF Calm, AdderInv
<1>3. /\ pc' = pc /\ hand' = hand /\ list' = list
      /\ waitingList' = waitingList /\ activeItem' = activeItem /\ lastActive' = lastActive
      /\ started' = started /\ final' = final /\ todo' = todo /\ toAdd' = toAdd
  BY <1>1 DEF threadVars, groupVars
<1>4. CASE started /\ activeItem = NoIndex
  <2>1. Step(Adder, "test")
    BY <1>4 DEF CheckActive
  <2>2. NothingDue /\ \A d \in Callers : InTurn(d) => d = Adder
    BY <1>2, <1>4 DEF Calm, IndexInv, Finished
  <2> QED BY <1>1, <1>2, <1>3, <1>4, <2>1, <2>2, TurnTaken
<1>5. CASE ~(started /\ activeItem = NoIndex)
  <2>1. call' = call
    BY <1>5 DEF CheckActive
  <2>2. \A d \in Callers : InTurn(d)' <=> InTurn(d)
    BY <1>3, <2>1 DEF InTurn, Moving
  <2>3. NothingDue => NothingDue'
    BY <1>3 DEF NothingDue, Due
  <2>4. AdderInv'
    BY <1>1, <1>2, <1>3, <2>1, <2>2, <2>3 DEF Calm, AdderInv, Listed
  <2> QED BY <1>1, <1>3, <2>1, <2>4, AdderStepKept DEF callVars
<1> QED BY <1>4, <1>5

LEMMA StartCalm ==
  ASSUME IInv, Calm, Start
  PROVE  Calm'
<1>1. /\ adder = <<"find">> /\ ~started /\ started'
      /\ UNCHANGED <<threadVars, handleVars, waitingList, activeItem, lastActive, final,
                     adderVars, todo>>
      /\ ~HasActive => Step(Adder, "test")
  BY DEF Start
<1>2. activeItem = NoIndex /\ NothingDue /\ (\A d \in Callers : ~InTurn(d))
      /\ call[Adder] = "idle" /\ ~final
  BY <1>1 DEF Calm, AdderInv
<1>3. ~HasActive
  <2>1. Len(waitingList) <= MaxIndex
    BY ShortList, CallerTypes DEF Calm
  <2> QED BY <1>2, <2>1, CallerTypes DEF HasActive, NoIndex
<1>4. adder' = <<"find">> /\ toAdd' = toAdd
  BY <1>1 DEF adderVars
<1> QED BY <1>1, <1>2, <1>3, <1>4, TurnTaken

LEMMA FinalizeCalm ==
  ASSUME IInv, Calm, Finalize
  PROVE  Calm'
<1>1. /\ adder = <<"find">> /\ call[Adder] = "idle" /\ started
      /\ final' = TRUE /\ adder' = <<"final">>
      /\ UNCHANGED <<threadVars, handleVars, callVars, waitingList, activeItem, lastActive,
                     started, toAdd>>
  BY DEF Finalize
<1>2. AdderInv'
  BY <1>1 DEF Calm, AdderInv, Listed, callVars
<1> QED BY <1>1, <1>2, AdderStepKept

LEMMA FinalizeFinishesCalm ==
  ASSUME IInv, Calm, FinalizeFinishes
  PROVE  Calm'
<1>1. /\ adder = <<"final">> /\ adder' = <<"over">>
      /\ toAdd' = toAdd /\ call' = call /\ todo' = todo
  BY DEF FinalizeFinishes, callVars
<1>2. final /\ call[Adder] = "idle" /\ started
  BY <1>1, CallerTypes DEF Calm, AdderInv
<1>3. CASE CancelAll
  <2>1. /\ waitingList' = <<>> /\ final' = final /\ started' = started
    BY <1>3 DEF CancelAll
  <2>2. Listed' = {}
    BY <2>1 DEF Listed
  <2>3. AdderInv'
    BY <1>1, <1>2, <2>1, <2>2 DEF AdderInv
  <2>4. UserInv' /\ CallsInv' /\ \A d \in Callers : InTurn(d)' => InTurn(d)
    BY <1>1 DEF Calm, UserInv, CallsInv, InTurn, Moving
  <2> QED BY <1>1, <1>2, <1>3, <2>3, <2>4, CancelCalm
<1>4. CASE UNCHANGED <<threadVars, handleVars, groupVars>>
  <2>1. AdderInv'
    BY <1>1, <1>2, <1>4 DEF Calm, AdderInv, Listed, groupVars
  <2> QED BY <1>1, <1>4, <2>1, AdderStepKept DEF groupVars, callVars
<1> QED BY <1>3, <1>4 DEF FinalizeFinishes

LEMMA FillerCalm ==
  ASSUME IInv, Calm, Filler
  PROVE  Calm'
BY FindItemCalm, PushItemCalm, CheckActiveCalm, StartCalm, FinalizeCalm,
   FinalizeFinishesCalm DEF Filler

LEMMA InitCalm == Init => CalmInv
<1> SUFFICES ASSUME Init PROVE Calm
  BY DEF CalmInv
<1>1. /\ waitingList = <<>> /\ activeItem = NoIndex /\ lastActive = NoIndex
      /\ final = FALSE /\ adder = <<"find">>
      /\ \A c \in Callers : call[c] = "idle" /\ todo[c] = <<>>
      /\ \A h \in Threads : pc[h] = "off" /\ list[h] = <<>>
      /\ \A i \in Items : ~posted[i] /\ ~helper[i]
  BY DEF Init, ThreadInit, HandleInit
<1>2. Listed = {} /\ Adder \in Callers /\ User \in Callers /\ Threads \subseteq Callers
  BY <1>1 DEF Listed, Callers
<1>3. \A c \in Callers : ~InTurn(c) /\ ~Moving(c)
  BY <1>1 DEF InTurn, Moving
<1>4. NothingDue
  BY <1>1 DEF NothingDue, Due
<1>5. UserInv /\ AdderInv /\ Distinct /\ CallsInv /\ OneTurn /\ OneHelper
  BY <1>1, <1>2, <1>3, <1>4
  DEF UserInv, AdderInv, Distinct, CallsInv, OneTurn, OneHelper, NothingDue
<1>6. IndexInv
  BY <1>1, <1>2, <1>3, <1>4 DEF IndexInv, NothingDue, Moving
<1> QED BY <1>1, <1>5, <1>6 DEF Calm

LEMMA NextCalm == IInv /\ CalmInv /\ [Next]_vars => CalmInv'
<1> SUFFICES ASSUME IInv, CalmInv, [Next]_vars, Undisturbed' PROVE Calm'
  BY DEF CalmInv
<1>1. verifies \in Nat /\ presses \in Nat
  BY TypeParts DEF IInv, RestTypeOK
<1>2. CASE UserActs
  <2>1. verifies' = verifies + 1 \/ presses' = presses + 1
    BY <1>2 DEF UserActs, Verify, CancelButton, ForceCrashes, ForceUnlisted, Press
  <2> QED BY <1>1, <2>1 DEF Undisturbed
<1>3. ASSUME NEW h \in Threads, Worker(h) \/ ThreadPool(h) PROVE Calm'
  <2>1. UNCHANGED userVars
    BY <1>3 DEF Worker, ThreadPool, ElsewhereUnchanged, EventReturns
  <2>2. Calm
    BY <2>1 DEF CalmInv, Undisturbed, userVars
  <2> QED BY <1>3, <2>2, WorkerCalm, ThreadPoolCalm
<1>4. ASSUME NEW c \in Callers, Caller(c) PROVE Calm'
  <2>1. UNCHANGED userVars
    BY <1>4 DEF Caller, NextItem, NoneLeft, Finish, Advance, AdvanceToNull, PurgeItem, VerifyItem
  <2>2. Calm
    BY <2>1 DEF CalmInv, Undisturbed, userVars
  <2> QED BY <1>4, <2>2, CallerCalm
<1>5. CASE Filler
  <2>1. UNCHANGED userVars
    BY <1>5 DEF Filler, FindItem, PushItem, CheckActive, Start, Finalize, FinalizeFinishes
  <2>2. Calm
    BY <2>1 DEF CalmInv, Undisturbed, userVars
  <2> QED BY <1>5, <2>2, FillerCalm
<1>6. CASE UNCHANGED vars
  <2>1. UNCHANGED <<groupVars, adderVars, callVars, helper, posted, pc, hand, list>>
        /\ UNCHANGED userVars
    BY <1>6 DEF vars, handleVars, threadVars
  <2>2. Calm
    BY <2>1 DEF CalmInv, Undisturbed, userVars
  <2> QED BY <2>1, <2>2, DueAlone, TaskKept
<1> QED BY <1>2, <1>3, <1>4, <1>5, <1>6 DEF Next

LEMMA CalmInvariance == Spec => []CalmInv
BY InitCalm, NextCalm, Invariance, PTL DEF Spec

\* In a group of any length that the user leaves alone, the group listens to one
\* item and one verification runs, whichever thread reaches the next item, whoever
\* finds the group at its end, and whenever the list is emptied (nextItem, addItem).
THEOREM OneVerifiedAtATime == Spec => []OneAtATime
<1>1. IInv /\ CalmInv => OneAtATime
  <2> SUFFICES ASSUME IInv, Calm
               PROVE  /\ \A i, j \in Items : helper[i] /\ helper[j] => i = j
                      /\ \A h, g \in Threads : Verifies(h) /\ Verifies(g) => h = g
    BY DEF CalmInv, OneAtATime
  <2>1. \A h \in Threads : Verifies(h) => Due(h, 0)
    BY DEF Verifies, Due
  <2> QED BY <2>1 DEF Calm, OneHelper, OneTurn
<1> QED BY <1>1, Invariance, CalmInvariance, PTL

\* And the indexes it reads and writes without a lock are moved by one caller at a
\* time; an event that saw an item waiting finds it at the index it then comes to,
\* unless the group has been finished in between (nextItem, finish).
THEOREM IndexesNeedNoLock == Spec => []OneMovesTheIndex
<1>1. IInv /\ CalmInv => OneMovesTheIndex
  <2> SUFFICES ASSUME IInv, Calm
               PROVE  EventFindsItem /\ \A c, d \in Callers : Moving(c) /\ Moving(d) => c = d
    BY DEF CalmInv, OneMovesTheIndex
  <2>1. \A c, d \in Callers : Moving(c) /\ Moving(d) => c = d
    BY DEF Calm, OneTurn, InTurn
  <2>2. ASSUME NEW h \in Threads, call[h] = "advance", ~Finished
        PROVE  Resumed < Len(waitingList)
    <3>1. IndexInv /\ InTurn(h) /\ h # Adder /\ h \in Callers
      BY <2>2, CallerTypes DEF Calm, InTurn, Moving
    <3>2. activeItem # NoIndex /\ activeItem + 1 < Len(waitingList)
      BY <2>2, <3>1 DEF IndexInv
    <3>3. Resumed = activeItem + 1
      BY <2>2, <3>2, ResumedIsNext DEF Reached
    <3> QED BY <3>2, <3>3
  <2> QED BY <2>1, <2>2 DEF EventFindsItem
<1> QED BY <1>1, Invariance, CalmInvariance, PTL

-----------------------------------------------------------------------------
\* An item the group has not come to is held by somebody: the group has still to be
\* started, it listens to another item, a caller looks for the next one, or whoever
\* added the item has still to look whether the group has come to its end.
Held(i) ==
  \/ ~started
  \/ HasActive
  \/ \E c \in Callers : Moving(c)
  \/ adder = <<"check", i>>
NoneLeftBehind == \A i \in Items : Ahead(i) => Held(i)

\* Steps that do not touch the list and the index, and take no turn away.
LEMMA LineKept ==
  ASSUME NoneLeftBehind, UNCHANGED <<waitingList, activeItem, lastActive, started>>,
         \A c \in Callers : Moving(c) => Moving(c)',
         \A i \in Items : adder = <<"check", i>> => adder' = adder
  PROVE  NoneLeftBehind'
<1>1. /\ HasActive' <=> HasActive
      /\ \A i \in Items : Ahead(i)' <=> Ahead(i)
  BY DEF HasActive, Ahead, Reached
<1> QED BY <1>1 DEF NoneLeftBehind, Held

LEMMA NoneListed ==
  ASSUME waitingList = <<>>
  PROVE  \A i \in Items : ~Ahead(i)
BY DEF Ahead

LEMMA LineWorker ==
  ASSUME IInv, NoneLeftBehind, NEW h \in Threads, Worker(h) \/ ThreadPool(h)
  PROVE  NoneLeftBehind'
<1>1. UNCHANGED <<waitingList, activeItem, lastActive, started, adder>>
  BY DEF Worker, ThreadPool, ElsewhereUnchanged, EventReturns, groupVars, adderVars
<1>2. call' = call \/ Step(h, "test")
  BY DEF Worker, ThreadPool, EventReturns, callVars
<1>3. \A c \in Callers : Moving(c) => Moving(c)'
  BY <1>2, CallerTypes DEF Step, Moving
<1> QED BY <1>1, <1>3, LineKept

LEMMA LineCaller ==
  ASSUME IInv, Calm, ~Missed, NoneLeftBehind, NEW c \in Callers, Caller(c)
  PROVE  NoneLeftBehind'
<1>1. CASE NextItem(c)
  <2>1. /\ Moving(c)' /\ \A d \in Callers : d # c => call'[d] = call[d]
        /\ UNCHANGED <<groupVars, adderVars>>
    BY <1>1, CallerTypes DEF NextItem, Step, Moving
  <2> QED BY <2>1, LineKept DEF Moving, groupVars, adderVars
<1>2. CASE NoneLeft(c)
  <2>1. /\ call[c] = "drain" /\ activeItem' = NoIndex /\ lastActive' = activeItem
        /\ waitingList' = waitingList
    BY <1>2 DEF NoneLeft
  <2>2. \A i \in Items : ~Ahead(i)
    BY <2>1 DEF Missed
  <2>3. CASE activeItem # NoIndex
    <3>1. Reached' = Reached
      BY <2>1, <2>3 DEF Reached
    <3>2. \A i \in Items : Ahead(i)' => Ahead(i)
      BY <2>1, <3>1 DEF Ahead
    <3> QED BY <2>2, <3>2 DEF NoneLeftBehind
  <2>4. CASE activeItem = NoIndex
    <3>1. waitingList = <<>>
      BY <2>1, <2>4 DEF Calm, Finished, IndexInv, InTurn, Moving
    <3>2. \A i \in Items : ~Ahead(i)'
      BY <2>1, <3>1 DEF Ahead
    <3> QED BY <3>2 DEF NoneLeftBehind
  <2> QED BY <2>3, <2>4
<1>3. CASE Finish(c)
  <2>1. CASE CancelAll
    <3>1. \A i \in Items : ~Ahead(i)'
      BY <2>1 DEF CancelAll, Ahead
    <3> QED BY <3>1 DEF NoneLeftBehind
  <2>2. CASE UNCHANGED groupVars
    <3>1. /\ ~Moving(c) /\ (\A d \in Callers : d # c => call'[d] = call[d])
          /\ UNCHANGED adderVars
      BY <1>3, CallerTypes DEF Finish, Return, Step, Moving
    <3> QED BY <2>2, <3>1, LineKept DEF Moving, groupVars, adderVars
  <2> QED BY <1>3, <2>1, <2>2 DEF Finish
<1>4. CASE Advance(c)
  <2>1. HasActive'
    BY <1>4 DEF Advance, HasActive
  <2> QED BY <2>1 DEF NoneLeftBehind, Held
<1>5. CASE AdvanceToNull(c)
  BY <1>5, LineKept DEF AdvanceToNull, Moving, groupVars, adderVars, callVars
<1>6. CASE PurgeItem(c) \/ VerifyItem(c)
  <2>1. /\ ~Moving(c) /\ (\A d \in Callers : d # c => call'[d] = call[d])
        /\ UNCHANGED <<groupVars, adderVars>>
    BY <1>6, CallerTypes DEF PurgeItem, VerifyItem, Step, Moving
  <2> QED BY <2>1, LineKept DEF Moving, groupVars, adderVars
<1> QED BY <1>1, <1>2, <1>3, <1>4, <1>5, <1>6 DEF Caller

LEMMA LineFiller ==
  ASSUME IInv, Calm, NoneLeftBehind, Filler
  PROVE  NoneLeftBehind'
<1>1. ASSUME NEW i \in Items, FindItem(i) PROVE NoneLeftBehind'
  BY <1>1, LineKept DEF FindItem, Moving, groupVars, callVars
<1>2. ASSUME NEW i \in Items, PushItem(i) PROVE NoneLeftBehind'
  <2>0. i \notin Listed
    BY <1>2 DEF PushItem, Calm, AdderInv
  <2>1. /\ adder = <<"push", i>> /\ adder' = <<"check", i>>
        /\ waitingList' = Append(waitingList, i)
        /\ UNCHANGED <<activeItem, lastActive, started, call>>
    BY <1>2, <2>0 DEF PushItem, callVars
  <2>2. /\ Len(waitingList') >= Len(waitingList)
        /\ \A n \in DOMAIN waitingList' :
             waitingList'[n] = i \/ (n \in DOMAIN waitingList /\ waitingList'[n] = waitingList[n])
    BY <2>1, CallerTypes
  <2>3. HasActive => HasActive'
    BY <2>1, <2>2, CallerTypes DEF HasActive
  <2>4. ASSUME NEW j \in Items, Ahead(j)', j # i PROVE Held(j)'
    <3>1. Ahead(j)
      BY <2>1, <2>2, <2>4 DEF Ahead, Reached
    <3>2. Held(j) /\ adder # <<"check", j>>
      BY <2>1, <3>1 DEF NoneLeftBehind
    <3> QED BY <2>1, <2>3, <3>2 DEF Held, Moving
  <2>5. Held(i)'
    BY <2>1 DEF Held
  <2> QED BY <2>4, <2>5 DEF NoneLeftBehind
<1>3. ASSUME NEW i \in Items, CheckActive(i) PROVE NoneLeftBehind'
  <2>1. UNCHANGED <<waitingList, activeItem, lastActive, started>>
    BY <1>3 DEF CheckActive, groupVars
  <2>2. CASE started /\ activeItem = NoIndex
    <3>1. Moving(Adder)' /\ Adder \in Callers
      BY <1>3, <2>2, CallerTypes DEF CheckActive, Step, Moving
    <3> QED BY <3>1 DEF NoneLeftBehind, Held
  <2>3. CASE ~started
    BY <2>1, <2>3 DEF NoneLeftBehind, Held
  <2>4. CASE activeItem # NoIndex
    <3>1. HasActive \/ waitingList = <<>>
      BY <2>4 DEF Calm, Finished, IndexInv
    <3>2. HasActive' \/ waitingList' = <<>>
      BY <2>1, <3>1 DEF HasActive
    <3>3. waitingList' = <<>> => \A j \in Items : ~Ahead(j)'
      BY DEF Ahead
    <3> QED BY <3>2, <3>3 DEF NoneLeftBehind, Held
  <2> QED BY <2>2, <2>3, <2>4
<1>4. CASE Start
  <2>1. UNCHANGED <<waitingList, activeItem>> /\ (HasActive \/ Step(Adder, "test"))
    BY <1>4 DEF Start
  <2>2. HasActive' \/ Moving(Adder)'
    BY <2>1, CallerTypes DEF HasActive, Step, Moving
  <2> QED BY <2>2, CallerTypes DEF NoneLeftBehind, Held
<1>5. CASE Finalize
  BY <1>5, LineKept DEF Finalize, Moving, callVars
<1>6. CASE FinalizeFinishes
  <2>1. CASE CancelAll
    <3>1. \A i \in Items : ~Ahead(i)'
      BY <2>1 DEF CancelAll, Ahead
    <3> QED BY <3>1 DEF NoneLeftBehind
  <2>2. CASE UNCHANGED groupVars
    BY <1>6, <2>2, LineKept DEF FinalizeFinishes, Moving, groupVars, callVars
  <2> QED BY <1>6, <2>1, <2>2 DEF FinalizeFinishes
<1> QED BY <1>1, <1>2, <1>3, <1>4, <1>5, <1>6 DEF Filler

\* A group the user leaves alone leaves no item behind, if none is added between the
\* two looks of nextItem at the end of the list: that race of addItem with nextItem is
\* the only one, for any items. It is the safe half of LineMoves.
THEOREM OnlyMissedIsLeft == Spec /\ [](Undisturbed /\ ~Missed) => []NoneLeftBehind
<1>1. Init => NoneLeftBehind
  BY NoneListed DEF Init, NoneLeftBehind
<1>2. IInv /\ CalmInv /\ NoneLeftBehind /\ Undisturbed /\ Undisturbed' /\ ~Missed /\ [Next]_vars
        => NoneLeftBehind'
  <2> SUFFICES ASSUME IInv, Calm, NoneLeftBehind, Undisturbed, Undisturbed', ~Missed, [Next]_vars
               PROVE  NoneLeftBehind'
    BY DEF CalmInv
  <2>1. ~UserActs
    <3>1. verifies = 0 /\ presses = 0 /\ verifies' = 0 /\ presses' = 0
      BY DEF Undisturbed
    <3> QED BY <3>1 DEF UserActs, Verify, CancelButton, ForceCrashes, ForceUnlisted, Press
  <2>2. CASE UNCHANGED vars
    BY <2>2, LineKept DEF vars, Moving, groupVars, adderVars, callVars
  <2> QED BY <2>1, <2>2, LineWorker, LineCaller, LineFiller DEF Next
<1> QED BY <1>1, <1>2, Invariance, CalmInvariance, PTL DEF Spec
=============================================================================
