--------------------------- MODULE ItemTaskGroup ---------------------------
(***************************************************************************)
(* A group of items that are verified one after the other:                 *)
(* ItemTaskGroup.cpp of usercore, with the two that fill a group, the      *)
(* wizard that finds installed items (InstalledWizardThread.cpp, which     *)
(* starts the group before it adds items) and the start-up check of        *)
(* ItemManager.cpp (which starts it after), and with the user, who may     *)
(* verify an item by hand, cancel the group or force an item to start      *)
(* (InstallWaitPage.cpp).                                                  *)
(*                                                                         *)
(* The indexes of the group are read and written without a lock, so        *)
(* nextItem is as many actions as it has looks at them; it is run by the   *)
(* thread of an item, inside the event of a verdict, and by the thread     *)
(* that fills the group.  cancelAll is one action under m_ListLock.  The   *)
(* progress shown to the user (m_vTaskList) and sort are left out.         *)
(***************************************************************************)
EXTENDS ItemHandle, FiniteSets

CONSTANTS
  MaxIndex,     \* UINT_MAX: no index
  ByHand,       \* items the user may verify by hand
  MaxVerifies,  \* bound on how often he does
  MaxPresses    \* bound on the buttons the user presses on the wait page

\* There are not more items than an unsigned int counts.
ASSUME GroupAssumption ==
  /\ MaxIndex \in Nat \ {0}
  /\ IsFiniteSet(Items) /\ Cardinality(Items) <= MaxIndex
  /\ ByHand \subseteq Items
  /\ MaxVerifies \in Nat
  /\ MaxPresses \in Nat

Adder == <<"adder", 0>>   \* the wizard or the start-up check
User == <<"user", 0>>
Callers == Threads \union {Adder, User}
NoIndex == MaxIndex
Plus1(x) == (x + 1) % (MaxIndex + 1)

VARIABLES
  waitingList,  \* m_vWaitingList
  activeItem,   \* m_uiActiveItem
  lastActive,   \* m_uiLastActive
  started,      \* m_bStarted
  final,        \* m_bFinal
  wizard,       \* the wizard fills the group, not the start-up check
  toAdd,        \* the items still to be found
  adder,        \* where the wizard or the check is, as <<place, item>>
  call,         \* where a caller of nextItem or startAction is
  todo,         \* the items it has still to start, innermost call first
  verifies,     \* how often the user has verified an item by hand
  presses,      \* how often he has pressed a button
  crashed       \* a null pointer was dereferenced

groupVars == <<waitingList, activeItem, lastActive, started, final>>
adderVars == <<wizard, toAdd, adder>>
callVars == <<call, todo>>
userVars == <<verifies, presses>>
vars == <<threadVars, handleVars, groupVars, adderVars, callVars, userVars, crashed>>

TypeOK ==
  /\ ThreadTypeOK
  /\ HandleTypeOK
  /\ waitingList \in Seq(Items)
  /\ activeItem \in 0..MaxIndex
  /\ lastActive \in 0..MaxIndex
  /\ started \in BOOLEAN
  /\ final \in BOOLEAN
  /\ wizard \in BOOLEAN
  /\ toAdd \subseteq Items
  /\ adder \in {<<p>> : p \in {"find", "final", "over"}}
              \union ({"push", "check"} \X Items)
  /\ call \in [Callers -> {"idle", "test", "drain", "drained", "advance", "purge", "register"}]
  /\ todo \in [Callers -> Seq(Items)]
  /\ verifies \in 0..MaxVerifies
  /\ presses \in 0..MaxPresses
  /\ crashed \in BOOLEAN

Init ==
  /\ ThreadInit
  /\ HandleInit
  /\ waitingList = <<>>
  /\ activeItem = NoIndex
  /\ lastActive = NoIndex
  /\ wizard \in BOOLEAN
  /\ started = wizard      \* nextItem finds nothing to do in an empty group
  /\ final = FALSE
  /\ toAdd \in SUBSET Items
  /\ adder = <<"find">>
  /\ call = [c \in Callers |-> "idle"]
  /\ todo = [c \in Callers |-> <<>>]
  /\ verifies = 0
  /\ presses = 0
  /\ crashed = FALSE

Listed == {waitingList[n] : n \in 1..Len(waitingList)}
HasActive == activeItem < Len(waitingList)
ActiveItem == waitingList[activeItem + 1]   \* the list counts from 1

-----------------------------------------------------------------------------
(***************************************************************************)
(* cancelAll takes every item out of the group, and ends the wait of those *)
(* whose stage is STAGE_WAIT.                                              *)
(***************************************************************************)
Waits(h) == pc[h] = "run" /\ hand[h] = "wait"

CancelAll ==
  /\ group' = [i \in Items |-> group[i] /\ i \notin Listed]
  /\ told' = [h \in Threads |->
                \/ told[h]
                \/ /\ Owner(h) \in Listed /\ h = ThreadOf(Owner(h))
                   /\ stage[Owner(h)] = "wait" /\ Waits(h)]
  /\ waitingList' = <<>>
  /\ UNCHANGED <<pc, list, hand, skip, stopped, ending,
                 thread, stage, posted, pauseOnError, helper,
                 activeItem, lastActive, started, final>>

-----------------------------------------------------------------------------
(***************************************************************************)
(* nextItem, by caller c.  A call may be nested: addHelper posts the       *)
(* verdict an item already has, which calls nextItem again.                *)
(***************************************************************************)
Step(c, at) == call' = [call EXCEPT ![c] = at]
Return(c) == Step(c, IF todo[c] = <<>> THEN "idle" ELSE "purge")

\* Slip: the index may be one past the list.
NextItemPastEnd(c) ==
  /\ call[c] = "test"
  /\ helper' = [i \in Items |-> helper[i] /\ ~(HasActive /\ i = ActiveItem)]
  /\ Step(c, IF Plus1(activeItem) > Len(waitingList) THEN "drain" ELSE "advance")
  /\ UNCHANGED <<threadVars, thread, stage, posted, pauseOnError, group,
                 groupVars, adderVars, todo, userVars, crashed>>

\* It leaves the active item, and looks whether another one waits.
NextItem(c) ==
  /\ call[c] = "test"
  /\ helper' = [i \in Items |-> helper[i] /\ ~(HasActive /\ i = ActiveItem)]
  /\ Step(c, IF Plus1(activeItem) >= Len(waitingList) THEN "drain" ELSE "advance")
  /\ UNCHANGED <<threadVars, thread, stage, posted, pauseOnError, group,
                 groupVars, adderVars, todo, userVars, crashed>>

\* Slip: the index that is kept is the next one.
NoneLeftCountsOn(c) ==
  /\ call[c] = "drain"
  /\ lastActive' = activeItem + 1
  /\ activeItem' = NoIndex
  /\ Step(c, "drained")
  /\ UNCHANGED <<threadVars, handleVars, waitingList, started, final,
                 adderVars, todo, userVars, crashed>>

\* None does: the index is kept for an item that is added later.
NoneLeft(c) ==
  /\ call[c] = "drain"
  /\ lastActive' = activeItem
  /\ activeItem' = NoIndex
  /\ Step(c, "drained")
  /\ UNCHANGED <<threadVars, handleVars, waitingList, started, final,
                 adderVars, todo, userVars, crashed>>

Finish(c) ==
  /\ call[c] = "drained"
  /\ IF final THEN CancelAll ELSE UNCHANGED <<threadVars, handleVars, groupVars>>
  /\ Return(c)
  /\ UNCHANGED <<adderVars, todo, userVars, crashed>>

Resumed == Plus1(IF lastActive # NoIndex THEN lastActive ELSE activeItem)

\* The index moves on, and the group listens to its new item.
Advance(c) ==
  /\ call[c] = "advance" /\ Resumed < Len(waitingList)
  /\ activeItem' = Resumed
  /\ lastActive' = NoIndex
  /\ LET i == waitingList[Resumed + 1]
     IN /\ helper' = [helper EXCEPT ![i] = TRUE]
        /\ todo' = [todo EXCEPT ![c] = <<i>> \o @]
        /\ Step(c, IF IsInStage(i) /\ posted[i] THEN "test" ELSE "purge")
  /\ UNCHANGED <<threadVars, thread, stage, posted, pauseOnError, group,
                 waitingList, started, final, adderVars, userVars, crashed>>

\* There is no item at the index: item->addHelper has no object.
AdvanceToNull(c) ==
  /\ call[c] = "advance" /\ Resumed >= Len(waitingList)
  /\ crashed' = TRUE
  /\ UNCHANGED <<threadVars, handleVars, groupVars, adderVars, callVars, userVars>>

\* startAction: verifyOveride purges the item's thread,
PurgeItem(c) ==
  /\ call[c] = "purge"
  /\ LET i == Head(todo[c])
     IN IF HasThread(i)
        THEN PurgeTasks(ThreadOf(i)) /\ UNCHANGED <<pc, hand, stopped, ending>>
        ELSE UNCHANGED threadVars
  /\ Step(c, "register")
  /\ UNCHANGED <<handleVars, groupVars, adderVars, todo, userVars, crashed>>

\* and queues a verification.
VerifyItem(c) ==
  /\ call[c] = "register"
  /\ RegisterTasks(Head(todo[c]), <<"verify">>, pc)
  /\ todo' = [todo EXCEPT ![c] = Tail(@)]
  /\ Step(c, IF Tail(todo[c]) = <<>> THEN "idle" ELSE "purge")
  /\ UNCHANGED <<stage, posted, pauseOnError, group, helper,
                 groupVars, adderVars, userVars, crashed>>

\* The event of a verdict returns to the verification.
EventReturns(h) ==
  /\ pc[h] \in {"good", "bad"} /\ call[h] = "idle"
  /\ Goto(h, IF pc[h] = "good" THEN "close" ELSE "done")
  /\ UNCHANGED <<list, hand, skip, told, stopped, ending, handleVars,
                 groupVars, adderVars, callVars, userVars, crashed>>

-----------------------------------------------------------------------------
(***************************************************************************)
(* The wizard (onItemFound, run) and the start-up check (checkItems).      *)
(***************************************************************************)
\* An item is found: setTaskGroup refuses one that is in a stage.
FindItem(i) ==
  /\ adder = <<"find">> /\ call[Adder] = "idle" /\ i \in toAdd
  /\ toAdd' = toAdd \ {i}
  /\ pauseOnError' = [pauseOnError EXCEPT ![i] = @ \/ wizard]
  /\ IF IsInStage(i)
     THEN UNCHANGED <<threadVars, thread, group, adder>>
     ELSE /\ group' = [group EXCEPT ![i] = TRUE]
          /\ RegisterTasks(i, <<"wait">>, pc)
          /\ adder' = <<"push", i>>
  /\ UNCHANGED <<stage, posted, helper, groupVars, wizard, callVars, userVars, crashed>>

\* addItem puts it on the list, or returns when it is there.
PushItem(i) ==
  /\ adder = <<"push", i>>
  /\ IF i \in Listed
     THEN adder' = <<"find">> /\ UNCHANGED waitingList
     ELSE adder' = <<"check", i>> /\ waitingList' = Append(waitingList, i)
  /\ UNCHANGED <<threadVars, handleVars, activeItem, lastActive, started, final,
                 wizard, toAdd, callVars, userVars, crashed>>

\* Slip: a group that was started takes every item it is given.
CheckActiveNever(i) ==
  /\ adder = <<"check", i>>
  /\ IF started THEN Step(Adder, "test") ELSE UNCHANGED call
  /\ adder' = <<"find">>
  /\ UNCHANGED <<threadVars, handleVars, groupVars, wizard, toAdd, todo, userVars, crashed>>

\* Slip: only the first item is started.
CheckActiveOnce(i) ==
  /\ adder = <<"check", i>>
  /\ IF started /\ activeItem = NoIndex /\ lastActive = NoIndex
     THEN Step(Adder, "test") ELSE UNCHANGED call
  /\ adder' = <<"find">>
  /\ UNCHANGED <<threadVars, handleVars, groupVars, wizard, toAdd, todo, userVars, crashed>>

\* addItem starts the item when the group has come to its end.
CheckActive(i) ==
  /\ adder = <<"check", i>>
  /\ IF started /\ activeItem = NoIndex THEN Step(Adder, "test") ELSE UNCHANGED call
  /\ adder' = <<"find">>
  /\ UNCHANGED <<threadVars, handleVars, groupVars, wizard, toAdd, todo, userVars, crashed>>

Start ==
  /\ adder = <<"find">> /\ toAdd = {} /\ ~started
  /\ started' = TRUE
  /\ IF HasActive THEN UNCHANGED call ELSE Step(Adder, "test")
  /\ UNCHANGED <<threadVars, handleVars, waitingList, activeItem, lastActive, final,
                 adderVars, todo, userVars, crashed>>

Finalize ==
  /\ adder = <<"find">> /\ call[Adder] = "idle" /\ toAdd = {} /\ started
  /\ final' = TRUE
  /\ adder' = <<"final">>
  /\ UNCHANGED <<threadVars, handleVars, waitingList, activeItem, lastActive, started,
                 wizard, toAdd, callVars, userVars, crashed>>

FinalizeFinishes ==
  /\ adder = <<"final">>
  /\ IF HasActive THEN UNCHANGED <<threadVars, handleVars, groupVars>> ELSE CancelAll
  /\ adder' = <<"over">>
  /\ UNCHANGED <<wizard, toAdd, callVars, userVars, crashed>>

-----------------------------------------------------------------------------
(***************************************************************************)
(* The user.                                                               *)
(***************************************************************************)
Verify(i) ==
  /\ i \in ByHand /\ ~IsInStage(i)
  /\ verifies < MaxVerifies /\ verifies' = verifies + 1
  /\ RegisterTasks(i, <<"verify">>, pc)
  /\ UNCHANGED <<stage, posted, pauseOnError, group, helper,
                 groupVars, adderVars, callVars, presses, crashed>>

\* The wait page of an item offers two buttons.
Press(i) ==
  /\ stage[i] = "wait" /\ group[i] /\ call[User] = "idle"
  /\ presses < MaxPresses /\ presses' = presses + 1

CancelButton(i) ==
  /\ Press(i)
  /\ CancelAll
  /\ UNCHANGED <<adderVars, callVars, verifies, crashed>>

(***************************************************************************)
(* force takes the item out of the group, and with it the pointer to the   *)
(* group that it uses next; one that is not on the list yet is started.    *)
(***************************************************************************)
ForceCrashes(i) ==
  /\ Press(i) /\ i \in Listed
  /\ crashed' = TRUE
  /\ UNCHANGED <<threadVars, handleVars, groupVars, adderVars, callVars, verifies>>

ForceUnlisted(i) ==
  /\ Press(i) /\ i \notin Listed
  /\ todo' = [todo EXCEPT ![User] = <<i>>]
  /\ Step(User, "purge")
  /\ UNCHANGED <<threadVars, handleVars, groupVars, adderVars, verifies, crashed>>

-----------------------------------------------------------------------------
ElsewhereUnchanged == UNCHANGED <<groupVars, adderVars, userVars, crashed>>

Worker(h) ==
  \/ /\ ClearFlag(h) \/ PopTask(h) \/ SkipTask(h) \/ Leave(h)
     /\ UNCHANGED <<handleVars, callVars>> /\ ElsewhereUnchanged
  \/ /\ \/ OnTaskStart(h) \/ OnTaskComplete(h)
        \/ BlankTask(h) \/ GroupItemTask(h)
        \/ VerifySilent(h) \/ CompleteStage(h)
     /\ UNCHANGED callVars /\ ElsewhereUnchanged
  \/ /\ FinishVerify(h) \/ OnError(h)
     /\ IF helper[Owner(h)] THEN Step(h, "test") ELSE UNCHANGED call
     /\ UNCHANGED todo /\ ElsewhereUnchanged
  \/ EventReturns(h)

ThreadPool(h) ==
  /\ EndThread(h) \/ JoinThread(h)
  /\ UNCHANGED <<handleVars, callVars>> /\ ElsewhereUnchanged

Caller(c) ==
  \/ NextItem(c) \/ NoneLeft(c) \/ Finish(c) \/ Advance(c) \/ AdvanceToNull(c)
  \/ PurgeItem(c) \/ VerifyItem(c)

Filler ==
  \/ \E i \in Items : FindItem(i) \/ PushItem(i) \/ CheckActive(i)
  \/ Start \/ Finalize \/ FinalizeFinishes

UserActs ==
  \E i \in Items : Verify(i) \/ CancelButton(i) \/ ForceCrashes(i) \/ ForceUnlisted(i)

Next ==
  /\ ~crashed
  /\ \/ \E h \in Threads : Worker(h) \/ ThreadPool(h)
     \/ \E c \in Callers : Caller(c)
     \/ Filler
     \/ UserActs

(***************************************************************************)
(* Every thread is scheduled; the user need not do anything.  A            *)
(* verification ends, with a verdict or without.                           *)
(***************************************************************************)
Fairness ==
  /\ \A h \in Threads : WF_vars(~crashed /\ Worker(h)) /\ WF_vars(~crashed /\ ThreadPool(h))
  /\ \A c \in Callers : WF_vars(~crashed /\ Caller(c))
  /\ WF_vars(~crashed /\ Filler)

Spec == Init /\ [][Next]_vars
FairSpec == Spec /\ Fairness

-----------------------------------------------------------------------------
(***************************************************************************)
(* Properties.  Some are stated of a group the user leaves alone: force is *)
(* a null dereference, or starts a second verification of an item, and one *)
(* by hand raises a verdict the group may take for that of its own.        *)
(***************************************************************************)
Undisturbed == presses = 0 /\ verifies = 0
Verifies(h) == pc[h] = "run" /\ hand[h] = "verify"

\* The group listens to one item, and one verification runs: the next item is
\* started only when the last one's verdict is in, though the thread that reached it
\* still runs, threads that were given up may still have tasks, and the list may be
\* emptied under the item that is verified (nextItem, completeStage, getNewTask, finish).
OneAtATime ==
  Undisturbed =>
    /\ \A i, j \in Items : helper[i] /\ helper[j] => i = j
    /\ \A h, g \in Threads : Verifies(h) /\ Verifies(g) => h = g

\* The indexes have no lock, yet one thread at a time moves them: whoever fills
\* the group does so when it has come to its end, an item when it is listened to;
\* and an item that does so finds the one it saw waiting: between its two looks
\* the index does not move, and the list does not shrink (nextItem), unless an
\* earlier event, which found no item waiting, sees the group final now and finishes
\* it: the later one then dereferences a null pointer.
Moving(c) == call[c] \in {"test", "drain", "advance"}
Finished == final /\ waitingList = <<>>
EventFindsItem ==
  \A h \in Threads : call[h] = "advance" => Resumed < Len(waitingList) \/ Finished
OneMovesTheIndex ==
  Undisturbed => EventFindsItem /\ \A c, d \in Callers : Moving(c) /\ Moving(d) => c = d

\* A handle and its threads agree: the thread it queues tasks to runs and is not
\* being ended, so that queueTask refuses none; every other thread has been given
\* to the pool, which ends it (registerTask, stopThread, DeleteThread).
ThreadsOwned ==
  \A h \in Threads :
    /\ thread[Owner(h)] = h[2] => pc[h] \notin {"off", "dead"} /\ ending[h] = "no" /\ ~stopped[h]
    /\ pc[h] # "off" => thread[Owner(h)] = h[2] \/ ending[h] # "no"

-----------------------------------------------------------------------------
Turn(i) == \E c \in Callers : call[c] = "register" /\ Head(todo[c]) = i
ThreadsOf(i) == {h \in Threads : Owner(h) = i}
Has(h) == hand[h] = "verify" \/ \E n \in DOMAIN list[h] : list[h][n] = "verify"

\* Two ways to lose a verification that was queued: the purge before it falls
\* between the two sections of getNewTask, and the task is skipped; or the
\* thread it is queued to has been given up.
FlagLeft(i) == \E h \in ThreadsOf(i) : pc[h] = "pop" /\ skip[h] /\ list[h] # <<>>
GivenUp(i) == \E h \in ThreadsOf(i) : ending[h] = "queued" /\ Has(h)

\* An item whose turn has come is verified, unless one of the two loses it.
TurnComes ==
  \A i \in Items :
    Turn(i) ~> (\E h \in ThreadsOf(i) : Verifies(h)) \/ FlagLeft(i) \/ GivenUp(i) \/ crashed

\* The items before the active one, or before the last one of a group that has
\* come to its end, have had their turn.
Reached == IF activeItem # NoIndex THEN activeItem
           ELSE IF lastActive # NoIndex THEN lastActive ELSE -1
Ahead(i) == \E n \in DOMAIN waitingList : waitingList[n] = i /\ n - 1 > Reached
\* No thread of the active item will verify it, and nobody moves the group on: its
\* verification was lost (FlagLeft, GivenUp), or ended without a verdict, as one
\* does that was told to stop or whose mcf stays bad (VerifySilent).
Stalled == /\ HasActive
           /\ \A c \in Callers : call[c] = "idle"
           /\ \A h \in ThreadsOf(ActiveItem) : ~Has(h)

\* An item is added just after nextItem has found that none waits: the caller of
\* addItem still sees an active item, so nobody starts the new one.
Missed == \E c \in Callers, i \in Items : call[c] = "drain" /\ Ahead(i)

\* A group left alone comes to every item on its list, if none was added late, and
\* unless it waits for the verdict of a verification that was lost or has ended
\* without one: nobody but that verdict moves it on (nextItem, addItem, start).
LineMoves ==
  [](Undisturbed /\ ~Missed) => \A i \in Items : Ahead(i) ~> Turn(i) \/ Stalled \/ crashed
=============================================================================
