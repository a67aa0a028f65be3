------------------------------ MODULE IpcCalls ------------------------------
(***************************************************************************)
(* Calls, events and the life of the classes shared by two processes:      *)
(* IPCManager.cpp, IPCClass.cpp and IPCLockable.cpp of ipc_pipe, with the  *)
(* disconnect and restart of IPCPipeClient.cpp.                            *)
(*                                                                         *)
(* A task of usercore creates a class, calls it, lets other threads call   *)
(* it, and destroys it when nobody else is using the task.  On each side a *)
(* pipe thread receives, and a call thread and an event thread             *)
(* (ProcessThread) run what it hands them.  The service runs a task of its *)
(* own for a class that was called, and that task fires events.            *)
(*                                                                         *)
(* A direction of the pipe and the messages waiting to be written to it    *)
(* (m_vPipeMsgs) are one queue, and every message is one part.  Calls that *)
(* want no answer and calls of the service to the client are left out.     *)
(***************************************************************************)
EXTENDS Naturals, Sequences

CONSTANTS
  Threads,      \* threads of the client
  Tasks,        \* those that are tasks with a class of their own
  MaxClasses,   \* bound on the classes the client asks for
  MaxCalls,     \* bound on the calls of one class
  MaxEvents,    \* bound on the events of one class
  MaxBreaks     \* bound on the times the service dies

ASSUME IpcAssumption ==
  /\ Tasks \subseteq Threads
  /\ MaxClasses \in Nat
  /\ MaxCalls \in Nat
  /\ MaxEvents \in Nat
  /\ MaxBreaks \in Nat

Classes == 1..MaxClasses   \* the client numbers them -1, -2, ...
Manager == 0               \* the id that stands for the manager itself
Workers == {"call", "event"}

VARIABLES
  place,        \* what a thread of the client is doing
  mine,         \* the class it has created
  lock,         \* its IPCLock: whose list it is in, its id and m_pResult
  lastClass,    \* m_mClassId of the client
  lastLock,     \* m_uiIdCount of the manager and of every class
  classes,      \* m_vClassList of the client
  disconnected, \* m_bDisconnected
  link,         \* the pipe, as the client's pipe thread sees it
  inbox,        \* m_vItemList of the client's call and event thread
  running,      \* the class whose event the client's event thread is running
  kills,        \* m_nKillCount of the client's classes
  killed,       \* their m_KillCondition has been notified
  toServer,     \* messages from the client
  toClient,     \* and from the service
  sClasses,     \* m_vClassList of the service
  sInbox,       \* m_vItemList of its call and event thread
  sHand,        \* what those threads have in hand
  sKills,       \* m_nKillCount of its classes
  task,         \* the service's task of a class
  breaks,       \* how often the service has died
  executed,     \* history: the calls the service ran, by class,
  fired,        \* the events a class has sent,
  promised,     \* those sent before its KILL_COMPLETE,
  handled,      \* those the client has run,
  madeBy        \* and which life of the service knows the class

countVars == <<lastClass, lastLock>>
threadVars == <<place, mine, lock, countVars>>
linkVars == <<link, disconnected, breaks>>
workVars == <<inbox, running, kills, killed, handled>>
clientVars == <<classes, linkVars, workVars>>
sWorkVars == <<sHand, sKills, task, executed, fired, promised>>
serverVars == <<sClasses, madeBy, sInbox, sWorkVars>>
vars == <<threadVars, clientVars, toServer, toClient, serverVars>>

NoLock == [owner |-> Manager, id |-> 0, result |-> "none"]
Idle == [do |-> "nothing", class |-> Manager, id |-> 0]
Msg(type, c, n) == [type |-> type, class |-> c, id |-> n]

Messages == [type : {"create", "created", "call", "return", "event", "kill", "killed"},
             class : Classes, id : Nat]
Places == {"free", "creating", "calling", "kill", "killing", "leave", "threw"}

Locks == [owner : Classes \union {Manager}, id : Nat, result : {"none", "answer", "cancelled"}]
Hands == [do : {"nothing", "return", "complete", "destroy", "dead"},
          class : Classes \union {Manager}, id : Nat]

TypeOK ==
  /\ place \in [Threads -> Places]
  /\ mine \in [Threads -> Classes \union {Manager}]
  /\ lock \in [Threads -> Locks]
  /\ lastClass \in 0..MaxClasses
  /\ lastLock \in [Classes \union {Manager} -> Nat]
  /\ classes \in SUBSET Classes
  /\ disconnected \in BOOLEAN
  /\ link \in {"up", "broken", "flagged", "down"}
  /\ inbox \in [Workers -> Seq(Messages)]
  /\ running \in Classes \union {Manager}
  /\ kills \in [Classes -> Nat]
  /\ killed \in [Classes -> BOOLEAN]
  /\ toServer \in Seq(Messages)
  /\ toClient \in Seq(Messages)
  /\ sClasses \in SUBSET Classes
  /\ sInbox \in [Workers -> Seq(Messages)]
  /\ sHand \in [Workers -> Hands]
  /\ sKills \in [Classes -> Nat]
  /\ task \in [Classes -> {"none", "running", "over"}]
  /\ breaks \in 0..MaxBreaks
  /\ executed \in [Classes -> SUBSET Nat]
  /\ fired \in [Classes -> Nat]
  /\ promised \in [Classes -> Nat]
  /\ handled \in [Classes -> Nat]
  /\ madeBy \in [Classes -> 0..MaxBreaks]

\* The client has just connected.
Init ==
  /\ place = [t \in Threads |-> "free"]
  /\ mine = [t \in Threads |-> Manager]
  /\ lock = [t \in Threads |-> NoLock]
  /\ lastClass = 0
  /\ lastLock = [c \in Classes \union {Manager} |-> 0]
  /\ classes = {}
  /\ disconnected = FALSE
  /\ link = "up"
  /\ inbox = [w \in Workers |-> <<>>]
  /\ running = Manager
  /\ kills = [c \in Classes |-> 0]
  /\ killed = [c \in Classes |-> FALSE]
  /\ toServer = <<>>
  /\ toClient = <<>>
  /\ sClasses = {}
  /\ sInbox = [w \in Workers |-> <<>>]
  /\ sHand = [w \in Workers |-> Idle]
  /\ sKills = [c \in Classes |-> 0]
  /\ task = [c \in Classes |-> "none"]
  /\ breaks = 0
  /\ executed = [c \in Classes |-> {}]
  /\ fired = [c \in Classes |-> 0]
  /\ promised = [c \in Classes |-> 0]
  /\ handled = [c \in Classes |-> 0]
  /\ madeBy = [c \in Classes |-> 0]

-----------------------------------------------------------------------------
(* The threads of the client.                                              *)

Goto(t, p) == place' = [place EXCEPT ![t] = p]

\* newLock, of the manager or of a class.
NewLock(t, owner) ==
  /\ lastLock' = [lastLock EXCEPT ![owner] = @ + 1]
  /\ lock' = [lock EXCEPT ![t] = [owner |-> owner, id |-> lastLock[owner] + 1,
                                  result |-> "none"]]

\* ~IPCScopedLock
DropLock(t) == lock' = [lock EXCEPT ![t] = NoLock]

\* The two tests of sendMessage; it throws when one of them fails.
CanSend(c) == ~disconnected /\ c \in classes \union {Manager}

\* IPCManager::createClass up to the wait: the id is spent even if sendMessage
\* throws.
CreateClass(t) ==
  /\ t \in Tasks /\ place[t] = "free" /\ mine[t] = Manager
  /\ lastClass < MaxClasses
  /\ lastClass' = lastClass + 1
  /\ IF CanSend(Manager)
       THEN /\ NewLock(t, Manager)
            /\ toServer' = Append(toServer, Msg("create", lastClass', lastLock'[Manager]))
            /\ mine' = [mine EXCEPT ![t] = lastClass']
            /\ Goto(t, "creating")
       ELSE /\ lastLock' = [lastLock EXCEPT ![Manager] = @ + 1]
            /\ UNCHANGED <<place, mine, lock, toServer>>
  /\ UNCHANGED <<clientVars, toClient, serverVars>>

ClassCreated(t) ==
  /\ place[t] = "creating" /\ lock[t].result = "answer"
  /\ classes' = classes \union {mine[t]}
  /\ DropLock(t)
  /\ Goto(t, "free")
  /\ UNCHANGED <<mine, countVars, linkVars, workVars, toServer, toClient, serverVars>>

CreateTimesOutKeeps(t) ==
  /\ place[t] = "creating" /\ lock[t].result = "none"
  /\ classes' = classes \union {mine[t]}
  /\ DropLock(t)
  /\ Goto(t, "free")
  /\ UNCHANGED <<mine, countVars, linkVars, workVars, toServer, toClient, serverVars>>

\* timedWait gives up after 30 seconds, popResult finds nothing and createClass
\* throws.
CreateTimesOut(t) ==
  /\ place[t] = "creating" /\ lock[t].result = "none"
  /\ mine' = [mine EXCEPT ![t] = Manager]
  /\ DropLock(t)
  /\ Goto(t, "free")
  /\ UNCHANGED <<countVars, clientVars, toServer, toClient, serverVars>>

\* A class that a task holds and has not begun to destroy.
Held(c) == \E t \in Threads : mine[t] = c /\ place[t] \in {"free", "calling"}

\* IPCClass::callFunction, not async, up to the wait.
CallFunction(t, c) ==
  /\ place[t] = "free" /\ Held(c)
  /\ lastLock[c] < MaxCalls
  /\ IF CanSend(c)
       THEN /\ NewLock(t, c)
            /\ toServer' = Append(toServer, Msg("call", c, lastLock'[c]))
            /\ Goto(t, "calling")
       ELSE /\ lastLock' = [lastLock EXCEPT ![c] = @ + 1]
            /\ UNCHANGED <<place, lock, toServer>>
  /\ UNCHANGED <<mine, lastClass, clientVars, toClient, serverVars>>

CallReturns(t) ==
  /\ place[t] = "calling" /\ lock[t].result # "none"
  /\ DropLock(t)
  /\ Goto(t, "free")
  /\ UNCHANGED <<mine, countVars, clientVars, toServer, toClient, serverVars>>

\* lock->wait(30, 0) reports a timeout and callFunction throws.
CallTimesOut(t) ==
  /\ place[t] = "calling" /\ lock[t].result = "none"
  /\ DropLock(t)
  /\ Goto(t, "free")
  /\ UNCHANGED <<mine, countVars, clientVars, toServer, toClient, serverVars>>

\* IPCClass::destroy, called by the destructor of the task once no other
\* thread is using it, looks at m_bDisconnected ...
Destroy(t) ==
  /\ place[t] = "free" /\ mine[t] # Manager
  /\ \A u \in Threads : place[u] = "calling" => lock[u].owner # mine[t]
  /\ Goto(t, IF disconnected THEN "leave" ELSE "kill")
  /\ UNCHANGED <<mine, lock, countVars, clientVars, toServer, toClient, serverVars>>

MayKillAgain(t) == place[t] \in {"kill", "killing"}
MayKillDestroyed(t) == place[t] \in {"kill", "free"}
MayKill(t) == place[t] = "kill"
NotWaiting == "leave"
Waiting == "killing"

\* ... sends MT_KILL: an exception here leaves a destructor, and ends the
\* thread of this model ...
SendKill(t) ==
  /\ MayKill(t)
  /\ IF CanSend(mine[t])
       THEN /\ toServer' = Append(toServer, Msg("kill", mine[t], 0))
            /\ Goto(t, Waiting)
       ELSE /\ Goto(t, "threw")
            /\ UNCHANGED toServer
  /\ UNCHANGED <<mine, lock, countVars, clientVars, toClient, serverVars>>

\* ... waits for m_KillCondition ...
KillAnswered(t) ==
  /\ place[t] = "killing" /\ killed[mine[t]]
  /\ Goto(t, "leave")
  /\ UNCHANGED <<mine, lock, countVars, clientVars, toServer, toClient, serverVars>>

\* ... and takes the class from the list: IPCManager::destroyClass.
DestroyClass(t) ==
  /\ place[t] = "leave"
  /\ classes' = classes \ {mine[t]}
  /\ mine' = [mine EXCEPT ![t] = Manager]
  /\ Goto(t, "free")
  /\ UNCHANGED <<lock, countVars, linkVars, workVars, toServer, toClient, serverVars>>

ThreadStep(t) ==
  \/ CreateClass(t) \/ ClassCreated(t) \/ CreateTimesOut(t)
  \/ \E c \in Classes : CallFunction(t, c)
  \/ CallReturns(t) \/ CallTimesOut(t)
  \/ Destroy(t) \/ SendKill(t) \/ KillAnswered(t) \/ DestroyClass(t)

-----------------------------------------------------------------------------
(* The service.                                                            *)

\* The threads of the service that get a message.
ServiceHandsOnce(type, w) == w = "call"
ServiceHands(type, w) == w = "call" \/ type = "kill"

\* IPCManager::recvMessage: a new class is created at once, a kill goes to both
\* threads, a call to one, and what is for an unknown class is dropped.
ServerReceives ==
  /\ toServer # <<>>
  /\ LET m == Head(toServer) IN
       /\ toServer' = Tail(toServer)
       /\ IF m.type = "create"
            THEN /\ sClasses' = sClasses \union {m.class}
                 /\ madeBy' = [madeBy EXCEPT ![m.class] = breaks]
                 /\ toClient' = Append(toClient, Msg("created", m.class, m.id))
                 /\ UNCHANGED sInbox
            ELSE /\ sInbox' = [w \in Workers |->
                       IF m.class \in sClasses /\ ServiceHands(m.type, w)
                         THEN Append(sInbox[w], m)
                         ELSE sInbox[w]]
                 /\ UNCHANGED <<toClient, sClasses, madeBy>>
  /\ link = "up"
  /\ UNCHANGED <<threadVars, clientVars, sWorkVars>>

\* The weak_ptr of a message still leads to the class.
SAlive(c) == c \in sClasses \/ \E w \in Workers : sHand[w].class = c

\* m_nKillCount: the second of the two threads to reach the kill answers it.
FirstKill(n) == n = 0
SecondKill(n) == n = 1

ServerKill(w, c) ==
  /\ sKills' = [sKills EXCEPT ![c] = @ + 1]
  /\ sHand' = IF SecondKill(sKills[c])
                THEN [sHand EXCEPT ![w] = [do |-> "complete", class |-> c, id |-> 0]]
                ELSE sHand
  /\ UNCHANGED <<task, executed>>

\* doHandleFunctionCall.  The first call of a class starts its task.
ServerExecute(w, c, n) ==
  /\ executed' = [executed EXCEPT ![c] = @ \union {n}]
  /\ task' = [task EXCEPT ![c] = IF @ = "none" THEN "running" ELSE @]
  /\ sHand' = [sHand EXCEPT ![w] = [do |-> "return", class |-> c, id |-> n]]
  /\ UNCHANGED sKills

\* ProcessThread::run takes a message.
ServerTakes(w) ==
  /\ sHand[w].do = "nothing" /\ sInbox[w] # <<>>
  /\ sInbox' = [sInbox EXCEPT ![w] = Tail(@)]
  /\ LET m == Head(sInbox[w]) IN
       IF ~SAlive(m.class) THEN UNCHANGED <<sHand, sKills, task, executed>>
       ELSE IF m.type = "kill" THEN ServerKill(w, m.class)
       ELSE ServerExecute(w, m.class, m.id)
  /\ UNCHANGED <<threadVars, clientVars, toServer, toClient, sClasses, madeBy, fired, promised>>

ForgetsToDestroy(h) == Idle
AfterSending(h) == IF h.do = "complete" THEN [h EXCEPT !.do = "destroy"] ELSE Idle

\* The thread answers.  An exception of sendMessage is not caught before
\* BaseThread's, and the thread ends.
ServerSends(w) ==
  /\ sHand[w].do \in {"return", "complete"}
  /\ LET h == sHand[w]
         complete == h.do = "complete" IN
       IF h.class \in sClasses
         THEN /\ toClient' = Append(toClient, Msg(IF complete THEN "killed" ELSE "return",
                                                  h.class, h.id))
              /\ sHand' = [sHand EXCEPT ![w] = AfterSending(h)]
              /\ promised' = IF complete THEN [promised EXCEPT ![h.class] = fired[h.class]]
                                         ELSE promised
         ELSE /\ sHand' = [sHand EXCEPT ![w] = [Idle EXCEPT !.do = "dead"]]
              /\ UNCHANGED <<toClient, promised>>
  /\ UNCHANGED <<threadVars, clientVars, toServer, sClasses, madeBy, sInbox, sKills, task,
                 executed, fired>>

\* destroyClass, and the destructor of the class, which joins its task.
ServerDestroys(w) ==
  /\ sHand[w].do = "destroy"
  /\ sClasses' = sClasses \ {sHand[w].class}
  /\ task' = [task EXCEPT ![sHand[w].class] = "over"]
  /\ sHand' = [sHand EXCEPT ![w] = Idle]
  /\ UNCHANGED <<threadVars, clientVars, toServer, toClient, madeBy, sInbox, sKills,
                 executed, fired, promised>>

\* The task of a class fires an event (IPCDelegate).
FireEvent(c) ==
  /\ task[c] = "running" /\ c \in sClasses
  /\ fired[c] < MaxEvents
  /\ fired' = [fired EXCEPT ![c] = @ + 1]
  /\ toClient' = Append(toClient, Msg("event", c, 0))
  /\ UNCHANGED <<threadVars, clientVars, toServer, sClasses, madeBy, sInbox, sHand, sKills,
                 task, executed, promised>>

ServerStep ==
  \/ ServerReceives
  \/ \E w \in Workers : ServerTakes(w) \/ ServerSends(w) \/ ServerDestroys(w)
  \/ \E c \in Classes : FireEvent(c)

-----------------------------------------------------------------------------
(* The pipe thread, call thread and event thread of the client.            *)

\* findLock
IsLockOfClass(t, owner, id) == lock[t].owner = owner
IsLock(t, owner, id) == lock[t].owner = owner /\ lock[t].id = id

\* IPCLock::trigger of the lock an answer is for; an answer nobody is waiting
\* for is dropped.
Trigger(owner, id, result) ==
  lock' = [t \in Threads |-> IF IsLock(t, owner, id) THEN [lock[t] EXCEPT !.result = result]
                                                     ELSE lock[t]]

\* IPCManager::recvMessage.  An answer is taken at once, the rest handed over.
ClientReceives ==
  /\ toClient # <<>> /\ link = "up"
  /\ LET m == Head(toClient) IN
       /\ toClient' = Tail(toClient)
       /\ \/ /\ m.type \in {"created", "return"}
             /\ Trigger(IF m.type = "created" THEN Manager ELSE m.class, m.id, "answer")
             /\ UNCHANGED inbox
          \/ /\ m.type \in {"event", "killed"}
             /\ inbox' = [w \in Workers |->
                   IF m.class \in classes /\ (m.type = "killed" \/ w = "event")
                     THEN Append(inbox[w], m)
                     ELSE inbox[w]]
             /\ UNCHANGED lock
  /\ UNCHANGED <<place, mine, countVars, classes, linkVars, running, kills, killed, handled,
                 toServer, serverVars>>

FirstAnswer(n) == n = 0
SecondAnswer(n) == n = 1

\* The weak_ptr of a message still leads to the class.
Alive(c) == c \in classes \/ c = running \/ \E t \in Threads : mine[t] = c

\* ProcessThread::run takes a message: MT_KILL_COMPLETE is counted, and the
\* second of the two threads notifies m_KillCondition.
ClientTakes(w) ==
  /\ link \in {"up", "broken", "flagged"}
  /\ inbox[w] # <<>> /\ (w = "event" => running = Manager)
  /\ inbox' = [inbox EXCEPT ![w] = Tail(@)]
  /\ LET m == Head(inbox[w]) IN
       \/ /\ m.type = "killed" /\ Alive(m.class)
          /\ kills' = [kills EXCEPT ![m.class] = @ + 1]
          /\ killed' = [killed EXCEPT ![m.class] = @ \/ SecondAnswer(kills[m.class])]
          /\ UNCHANGED running
       \/ /\ m.type = "event" /\ Alive(m.class)
          /\ running' = m.class
          /\ UNCHANGED <<kills, killed>>
       \/ /\ ~Alive(m.class)
          /\ UNCHANGED <<running, kills, killed>>
  /\ UNCHANGED <<threadVars, classes, linkVars, handled, toServer, toClient, serverVars>>

\* The handlers of an event have run.
EventHandled ==
  /\ running # Manager
  /\ handled' = [handled EXCEPT ![running] = @ + 1]
  /\ running' = Manager
  /\ UNCHANGED <<threadVars, classes, linkVars, inbox, kills, killed, toServer, toClient,
                 serverVars>>

-----------------------------------------------------------------------------
(* The service dies and is started again.                                  *)

\* disconnectAndReconnect of the client: the service and what was in the pipe
\* are lost, the messages not yet written stay, and informClassesOfDisconnect
\* cancels the locks of the classes (not those of the manager).
Break ==
  /\ link = "up" /\ breaks < MaxBreaks
  /\ link' = "broken"
  /\ breaks' = breaks + 1
  /\ toClient' = <<>>
  /\ \E n \in 0..Len(toServer) : toServer' = SubSeq(toServer, n + 1, Len(toServer))
  /\ sClasses' = {}
  /\ sInbox' = [w \in Workers |-> <<>>]
  /\ sHand' = [w \in Workers |-> Idle]
  /\ sKills' = [c \in Classes |-> 0]
  /\ task' = [c \in Classes |-> "none"]
  /\ lock' = [t \in Threads |->
       IF lock[t].owner \in classes
         THEN [lock[t] EXCEPT !.result = "cancelled"]
         ELSE lock[t]]
  /\ UNCHANGED <<place, mine, countVars, classes, disconnected, workVars, madeBy, executed,
                 fired, promised>>

\* IPCManager::disconnect sets m_bDisconnected ...
Disconnect ==
  /\ link = "broken"
  /\ link' = "flagged"
  /\ disconnected' = TRUE
  /\ UNCHANGED <<threadVars, classes, breaks, workVars, toServer, toClient, serverVars>>

\* ... and joins the event thread and the call thread.
StopThreads ==
  /\ link = "flagged" /\ running = Manager
  /\ link' = "down"
  /\ UNCHANGED <<threadVars, classes, disconnected, breaks, workVars, toServer, toClient,
                 serverVars>>

\* User::restartPipe
Restart ==
  /\ link = "down"
  /\ link' = "up"
  /\ classes' = {}
  /\ inbox' = [w \in Workers |-> <<>>]
  /\ disconnected' = FALSE
  /\ UNCHANGED <<threadVars, breaks, running, kills, killed, handled, toServer, toClient,
                 serverVars>>

Pipe == Break \/ Disconnect \/ StopThreads \/ Restart

Next ==
  \/ \E t \in Threads : ThreadStep(t)
  \/ ServerStep
  \/ ClientReceives \/ (\E w \in Workers : ClientTakes(w)) \/ EventHandled
  \/ Pipe

Spec == Init /\ [][Next]_vars

-----------------------------------------------------------------------------
(* The threads of both sides run, a thread that waits wakes up when it may, *)
(* and 30 seconds end.  Nobody has to create, call or destroy anything, and *)
(* the service need not die or be restarted.                                *)

Fairness ==
  /\ \A t \in Threads :
       /\ WF_vars(ClassCreated(t) \/ CreateTimesOut(t))
       /\ WF_vars(CallReturns(t) \/ CallTimesOut(t))
       /\ WF_vars(SendKill(t) \/ KillAnswered(t) \/ DestroyClass(t))
  /\ WF_vars(ServerReceives)
  /\ \A w \in Workers : WF_vars(ServerTakes(w) \/ ServerSends(w) \/ ServerDestroys(w))
  /\ WF_vars(ClientReceives)
  /\ WF_vars(ClientTakes("call"))
  /\ WF_vars(ClientTakes("event") \/ EventHandled)
  /\ WF_vars(Disconnect \/ StopThreads)

FairSpec == Spec /\ Fairness

-----------------------------------------------------------------------------
(* An answer a caller finds is the answer to its own call: the service has  *)
(* run that very call, however many calls of the class were given up before *)
(* and whatever was still in the pipe when the service was restarted        *)
(* (handleFunctionReturn, findLock).                                        *)
AnswerIsMine ==
  \A t \in Threads :
    place[t] = "calling" /\ lock[t].result = "answer" => lock[t].id \in executed[lock[t].owner]

(* A class is killed once: each thread of the service counts one MT_KILL    *)
(* for it and each thread of the client one MT_KILL_COMPLETE, so that       *)
(* m_nKillCount, which is only ever compared with 2, does not pass it.      *)
KilledOnce == \A c \in Classes : kills[c] <= 2 /\ sKills[c] <= 2

(* The call thread and the event thread of the service never die of an      *)
(* "Invalid class id": when a class goes no call of it is left behind its   *)
(* kill, so nothing is sent for it any more (messageRecived, sendMessage).  *)
ServiceThreadsLive == \A w \in Workers : sHand[w].do # "dead"

(* An answer to a call finds the class it is for: recvMessage does not test *)
(* what findClass returns for MT_FUNCTIONRETURN.                            *)
AnswerFindsClass ==
  toClient # <<>> /\ Head(toClient).type = "return" => Head(toClient).class \in classes

(* Once m_KillCondition is notified the client has run every event the      *)
(* service had sent before it answered the kill: none is left in the event  *)
(* thread ("need to wait till both event thread and callback thread are     *)
(* purged").                                                                *)
EventsFlushed == \A c \in Classes : killed[c] => handled[c] >= promised[c]

(* While the service that made it lives, a class the client has in its list *)
(* is one the service knows, until a task destroys it (createClass,         *)
(* processInternalMessage).                                                 *)
ClassesAgree ==
  \A c \in classes :
    \/ c \in sClasses
    \/ link # "up" \/ madeBy[c] # breaks
    \/ \E t \in Threads : mine[t] = c /\ place[t] \in {"killing", "leave"}

(* destroy() of a class the living service made returns, unless the pipe    *)
(* breaks while it waits.                                                   *)
DestroyEnds ==
  \A t \in Threads :
    (place[t] = "killing" /\ link = "up" /\ madeBy[mine[t]] = breaks)
      ~> (place[t] # "killing" \/ link # "up")

(* destroy() "deletes this class and the same class on the other side":     *)
(* the service forgets the class, whether it answers or dies.               *)
DestroyDeletesBoth ==
  \A t \in Threads, c \in Classes :
    (place[t] = "killing" /\ mine[t] = c) ~> c \notin sClasses

(* destroy() returns, whatever happens to the pipe.                         *)
DestroyReturns == \A t \in Threads : place[t] = "killing" ~> place[t] # "killing"
=============================================================================
