--------------------------- MODULE IpcCallsProofs ---------------------------
(***************************************************************************)
(* For any number of threads, classes, calls, events and deaths of the     *)
(* service.  A first invariant: no caller is given the answer to another   *)
(* call, a class is killed once, and no kill overtakes a call of its       *)
(* class.  A second one, on top of it: the two lists of classes agree,     *)
(* what is on its way to a class finds it on the client's list, and a      *)
(* class is gone only when its events have been run.  A third one says     *)
(* that no kill is lost on its way while a task waits for it.              *)
(***************************************************************************)
EXTENDS IpcCalls, SequenceTheorems, FiniteSetTheorems, TLAPS

USE IpcAssumption

\* A queue holds a message about a class, or one of a certain type.
About(s, c) == \E i \in 1..Len(s) : s[i].class = c
Has(s, type, c) == \E i \in 1..Len(s) : s[i].type = type /\ s[i].class = c

\* Nothing about a class is behind its kill, or behind the answer to it.
KillsLast(s) == \A i, j \in 1..Len(s) : i < j /\ s[i].type = "kill" => s[j].class # s[i].class
KilledsOnce(s) ==
  \A i, j \in 1..Len(s) :
    i < j /\ s[i].type = "killed" /\ s[j].type = "killed" => s[j].class # s[i].class

\* An answer, in the hand of a thread of the service, in the pipe or at the lock
\* that waits for it, is one to a call the service has run.
AnswerInv ==
  /\ \A w \in Workers : sHand[w].do = "return" => sHand[w].id \in executed[sHand[w].class]
  /\ \A i \in 1..Len(toClient) :
       toClient[i].type = "return" => toClient[i].id \in executed[toClient[i].class]
  /\ \A t \in Threads :
       lock[t].result = "answer" /\ lock[t].owner \in Classes =>
         lock[t].id \in executed[lock[t].owner]
  /\ \A t \in Threads : place[t] = "calling" => lock[t].owner \in Classes

\* A task has a class of its own while it creates or destroys it, and nobody
\* else has it; a hand is about a class unless it is empty.
OwnInv ==
  /\ \A t \in Threads : place[t] \in {"creating", "kill", "killing", "leave"} =>
                          mine[t] \in Classes
  /\ \A t \in Threads : mine[t] <= lastClass
  /\ \A t, u \in Threads : mine[t] = mine[u] /\ mine[t] # Manager => t = u
  /\ \A w \in Workers : sHand[w].do \in {"return", "complete", "destroy"}
                          <=> sHand[w].class \in Classes

\* The client sends nothing more about a class.
Over(c) ==
  /\ c <= lastClass
  /\ \A t \in Threads : mine[t] = c => place[t] \in {"killing", "leave"}

\* What the client sends about a class ends with one kill.
SentInv ==
  /\ \A c \in Classes : About(toServer, c) => c <= lastClass
  /\ KillsLast(toServer)
  /\ \A c \in Classes : Has(toServer, "kill", c) => Over(c)

\* The service has begun to kill a class, and which of its threads have yet to.
Killing(w, c) == Has(sInbox[w], "kill", c)
Dying(c) == sKills[c] > 0 \/ \E w \in Workers : Killing(w, c)
Answering(w, c) == sHand[w].class = c /\ sHand[w].do \in {"complete", "destroy"}

\* A class the service does not know is in none of its queues; about one it kills
\* nothing comes any more, and it is in the queues of the threads that have not
\* come to the kill, and in no others; the last of them, alone, answers.
Known ==
  \A c \in Classes \ sClasses, w \in Workers : ~About(sInbox[w], c) /\ sHand[w].class # c
Finished == \A c \in Classes : Dying(c) => Over(c) /\ ~About(toServer, c)
Passed ==
  \A c \in Classes, w \in Workers :
    Dying(c) /\ ~Killing(w, c) =>
      ~About(sInbox[w], c) /\ (sHand[w].class = c => Answering(w, c))
Counted(c) ==
  \/ sKills[c] = 0 /\ (Killing("call", c) <=> Killing("event", c))
  \/ sKills[c] = 1 /\ (Killing("call", c) <=> ~Killing("event", c))
  \/ sKills[c] = 2 /\ ~Killing("call", c) /\ ~Killing("event", c)
OneAnswers ==
  /\ \A c \in Classes, w \in Workers : Answering(w, c) => sKills[c] = 2
  /\ \A c \in Classes : ~(Answering("call", c) /\ Answering("event", c))

KillInv ==
  /\ \A w \in Workers : KillsLast(sInbox[w])
  /\ Known /\ Finished /\ Passed /\ OneAnswers
  /\ \A c \in Classes : Counted(c)

\* The client has been told that a class is killed: the service will not tell
\* it again.
Told(c) == kills[c] > 0 \/ \E w \in Workers : Has(inbox[w], "killed", c)
Silent(c) == \A w \in Workers : ~(sHand[w].do = "complete" /\ sHand[w].class = c)
Left(w, c) == IF Has(inbox[w], "killed", c) THEN 1 ELSE 0

ToldInv ==
  /\ KilledsOnce(toClient)
  /\ \A w \in Workers : KilledsOnce(inbox[w])
  /\ \A c \in Classes : Has(toClient, "killed", c) => sKills[c] = 2 /\ Silent(c) /\ ~Told(c)
  /\ \A c \in Classes : Told(c) =>
       /\ Over(c) /\ ~About(toServer, c) /\ Silent(c)
       /\ sKills[c] = 2 \/ c \notin sClasses
  /\ \A c \in Classes : kills[c] + Left("call", c) + Left("event", c) <= 2

IInv ==
  /\ TypeOK
  /\ AnswerInv
  /\ OwnInv
  /\ SentInv
  /\ KillInv
  /\ ToldInv
  /\ ServiceThreadsLive

USE DEF countVars, threadVars, linkVars, workVars, clientVars, sWorkVars, serverVars, vars,
        Goto, DropLock

-----------------------------------------------------------------------------
\* The manager is no class.
LEMMA Kinds ==
  /\ Manager \notin Classes /\ Manager = 0
  /\ \A c : c \in Classes <=> c \in Nat /\ c >= 1 /\ c <= MaxClasses
  /\ \A w : w \in Workers <=> w = "call" \/ w = "event"
BY DEF Manager, Classes, Workers

LEMMA MsgTyped ==
  ASSUME NEW c \in Classes, NEW n \in Nat,
         NEW type \in {"create", "created", "call", "return", "event", "kill", "killed"}
  PROVE  /\ Msg(type, c, n) \in Messages
         /\ Msg(type, c, n).type = type
         /\ Msg(type, c, n).class = c
         /\ Msg(type, c, n).id = n
BY DEF Msg, Messages

LEMMA MessageFields ==
  ASSUME NEW m \in Messages
  PROVE  m.class \in Classes /\ m.id \in Nat
BY DEF Messages

\* What is in a queue after a message is added ...
LEMMA AppendFacts ==
  ASSUME NEW s \in Seq(Messages), NEW m \in Messages
  PROVE  /\ Append(s, m) \in Seq(Messages)
         /\ \A c : About(Append(s, m), c) <=> About(s, c) \/ m.class = c
         /\ \A c, type : Has(Append(s, m), type, c)
                             <=> Has(s, type, c) \/ (m.type = type /\ m.class = c)
         /\ KillsLast(s) /\ ~Has(s, "kill", m.class) => KillsLast(Append(s, m))
         /\ KilledsOnce(s) /\ ~(m.type = "killed" /\ Has(s, "killed", m.class))
              => KilledsOnce(Append(s, m))
<1> DEFINE t == Append(s, m)
<1>1. /\ t \in Seq(Messages)
      /\ Len(t) = Len(s) + 1
      /\ \A i \in 1..Len(s) : t[i] = s[i]
      /\ t[Len(s) + 1] = m
      /\ Len(s) \in Nat
  BY AppendProperties, LenProperties
<1> HIDE DEF t
<1>2. \A i \in 1..Len(t) : i \in 1..Len(s) \/ (i = Len(s) + 1 /\ t[i] = m)
  BY <1>1
<1>3. \A i \in 1..Len(s) : i \in 1..Len(t)
  BY <1>1
<1>3a. Len(s) + 1 \in 1..Len(t)
  BY <1>1
<1>4. \A c : About(t, c) <=> About(s, c) \/ m.class = c
  BY <1>1, <1>2, <1>3, <1>3a DEF About
<1>5. \A c, type : Has(t, type, c) <=> Has(s, type, c) \/ (m.type = type /\ m.class = c)
  BY <1>1, <1>2, <1>3, <1>3a DEF Has
<1>6. ASSUME KillsLast(s), ~Has(s, "kill", m.class)
      PROVE  KillsLast(t)
  <2> SUFFICES ASSUME NEW i \in 1..Len(t), NEW j \in 1..Len(t), i < j, t[i].type = "kill"
               PROVE  t[j].class # t[i].class
    BY DEF KillsLast
  <2>1. i \in 1..Len(s) /\ t[i] = s[i]
    BY <1>1
  <2>2. CASE j \in 1..Len(s)
    BY <1>1, <1>6, <2>1, <2>2 DEF KillsLast
  <2>3. CASE t[j] = m
    BY <1>6, <2>1, <2>3 DEF Has
  <2> QED BY <1>2, <2>2, <2>3
<1>7. ASSUME KilledsOnce(s), ~(m.type = "killed" /\ Has(s, "killed", m.class))
      PROVE  KilledsOnce(t)
  <2> SUFFICES ASSUME NEW i \in 1..Len(t), NEW j \in 1..Len(t), i < j,
                      t[i].type = "killed", t[j].type = "killed"
               PROVE  t[j].class # t[i].class
    BY DEF KilledsOnce
  <2>1. i \in 1..Len(s) /\ t[i] = s[i]
    BY <1>1
  <2>2. CASE j \in 1..Len(s)
    BY <1>1, <1>7, <2>1, <2>2 DEF KilledsOnce
  <2>3. CASE t[j] = m
    BY <1>7, <2>1, <2>3 DEF Has
  <2> QED BY <1>2, <2>2, <2>3
<1> QED BY <1>1, <1>4, <1>5, <1>6, <1>7 DEF t

\* ... after some are lost from its head ...
LEMMA SubSeqFacts ==
  ASSUME NEW s \in Seq(Messages), NEW n \in 0..Len(s)
  PROVE  LET r == SubSeq(s, n + 1, Len(s)) IN
         /\ r \in Seq(Messages)
         /\ \A c : About(r, c) => About(s, c)
         /\ \A c, type : Has(r, type, c) => Has(s, type, c)
         /\ KillsLast(s) => KillsLast(r)
         /\ KilledsOnce(s) => KilledsOnce(r)
<1> DEFINE r == SubSeq(s, n + 1, Len(s))
<1>1. Len(s) \in Nat /\ n \in Nat /\ n <= Len(s)
  BY LenProperties
<1>2. \A i \in (n + 1)..Len(s) : s[i] \in Messages
  BY <1>1, ElementOfSeq
<1>3. /\ r \in Seq(Messages)
      /\ Len(r) = Len(s) - n
      /\ \A i \in 1..Len(r) : r[i] = s[i + n]
  BY <1>1, <1>2, SubSeqProperties
<1> HIDE DEF r
<1>4. \A i \in 1..Len(r) : i + n \in 1..Len(s) /\ r[i] = s[i + n]
  BY <1>1, <1>3
<1>5. \A c : About(r, c) => About(s, c)
  BY <1>4 DEF About
<1>6. \A c, type : Has(r, type, c) => Has(s, type, c)
  BY <1>4 DEF Has
<1>7. \A i, j \in 1..Len(r) : i < j => i + n < j + n
  BY <1>1, <1>3
<1>8. KillsLast(s) => KillsLast(r)
  BY SMTT(60), <1>4, <1>7 DEF KillsLast
<1>9. KilledsOnce(s) => KilledsOnce(r)
  BY <1>4, <1>7 DEF KilledsOnce
<1> QED BY <1>3, <1>5, <1>6, <1>8, <1>9 DEF r

\* ... and after the head is taken.
LEMMA TailFacts ==
  ASSUME NEW s \in Seq(Messages), s # <<>>
  PROVE  LET m == Head(s)
             r == Tail(s) IN
         /\ m \in Messages /\ r \in Seq(Messages)
         /\ Has(s, m.type, m.class) /\ About(s, m.class)
         /\ \A c : About(r, c) => About(s, c)
         /\ \A c, type : Has(r, type, c) => Has(s, type, c)
         /\ \A c, type : Has(s, type, c) => Has(r, type, c) \/ (m.type = type /\ m.class = c)
         /\ KillsLast(s) => KillsLast(r)
         /\ KillsLast(s) /\ m.type = "kill" => ~About(r, m.class)
         /\ KilledsOnce(s) => KilledsOnce(r)
         /\ KilledsOnce(s) /\ m.type = "killed" => ~Has(r, "killed", m.class)
<1> DEFINE m == Head(s)
           r == Tail(s)
<1>1. /\ m \in Messages /\ r \in Seq(Messages)
      /\ Len(r) = Len(s) - 1
      /\ \A i \in 1..Len(r) : r[i] = s[i + 1]
      /\ Len(s) \in Nat /\ Len(s) >= 1
      /\ m = s[1]
  BY HeadTailProperties, LenProperties, EmptySeq
<1> HIDE DEF m, r
<1>2. \A i \in 1..Len(r) : i + 1 \in 1..Len(s) /\ 1 < i + 1 /\ r[i] = s[i + 1]
  BY <1>1
<1>3. \A i \in 1..Len(s) : i = 1 \/ (i - 1 \in 1..Len(r) /\ s[i] = r[i - 1])
  BY <1>1
<1>4. 1 \in 1..Len(s)
  BY <1>1
<1>5. \A i, j \in 1..Len(r) : i < j => i + 1 < j + 1
  BY <1>1
<1>6. Has(s, m.type, m.class) /\ About(s, m.class)
  BY <1>1, <1>4 DEF Has, About
<1>7. \A c : About(r, c) => About(s, c)
  BY <1>2 DEF About
<1>8. \A c, type : Has(r, type, c) => Has(s, type, c)
  BY <1>2 DEF Has
<1>9. \A c, type : Has(s, type, c) => Has(r, type, c) \/ (m.type = type /\ m.class = c)
  BY <1>1, <1>3 DEF Has
<1>10. KillsLast(s) => KillsLast(r)
  BY <1>2, <1>5 DEF KillsLast
<1>11. KillsLast(s) /\ m.type = "kill" => ~About(r, m.class)
  BY <1>1, <1>2, <1>4 DEF KillsLast, About
<1>12. KilledsOnce(s) => KilledsOnce(r)
  BY <1>2, <1>5 DEF KilledsOnce
<1>13. KilledsOnce(s) /\ m.type = "killed" => ~Has(r, "killed", m.class)
  BY <1>1, <1>2, <1>4 DEF KilledsOnce, Has
<1> QED BY <1>1, <1>6, <1>7, <1>8, <1>9, <1>10, <1>11, <1>12, <1>13 DEF m, r

LEMMA EmptyFacts ==
  /\ <<>> \in Seq(Messages)
  /\ \A c : ~About(<<>>, c)
  /\ \A c, type : ~Has(<<>>, type, c)
  /\ KillsLast(<<>>) /\ KilledsOnce(<<>>)
BY EmptySeq DEF About, Has, KillsLast, KilledsOnce

-----------------------------------------------------------------------------
LEMMA InitInv == Init => IInv
<1> SUFFICES ASSUME Init PROVE IInv
  OBVIOUS
<1>1. TypeOK
  <2>1. NoLock \in Locks
    BY DEF NoLock, Locks
  <2>2. Idle \in Hands
    BY DEF Idle, Hands
  <2>3. /\ place \in [Threads -> Places]
        /\ mine \in [Threads -> Classes \union {Manager}]
        /\ lock \in [Threads -> Locks]
    BY <2>1 DEF Init, Places
  <2>4. /\ lastClass \in 0..MaxClasses
        /\ lastLock \in [Classes \union {Manager} -> Nat]
        /\ classes \in SUBSET Classes
        /\ running \in Classes \union {Manager}
        /\ breaks \in 0..MaxBreaks
        /\ madeBy \in [Classes -> 0..MaxBreaks]
    BY DEF Init
  <2>5. /\ inbox \in [Workers -> Seq(Messages)]
        /\ sInbox \in [Workers -> Seq(Messages)]
        /\ toServer \in Seq(Messages)
        /\ toClient \in Seq(Messages)
        /\ sHand \in [Workers -> Hands]
    BY <2>2, EmptyFacts DEF Init
  <2> QED BY <2>3, <2>4, <2>5 DEF Init, TypeOK
<1>2. \A w \in Workers : sHand[w].do = "nothing" /\ sHand[w].class = Manager
  BY DEF Init, Idle
<1>3. \A t \in Threads : place[t] = "free" /\ mine[t] = Manager /\ lock[t].result = "none"
  BY DEF Init, NoLock
<1>4. toServer = <<>> /\ toClient = <<>> /\ Len(toClient) = 0
  BY EmptySeq DEF Init
<1>5. \A w \in Workers : inbox[w] = <<>> /\ sInbox[w] = <<>>
  BY DEF Init
<1>6. \A c \in Classes : kills[c] = 0 /\ sKills[c] = 0
  BY DEF Init
<1>7. AnswerInv
  BY <1>2, <1>3, <1>4 DEF AnswerInv
<1>8. OwnInv
  BY <1>2, <1>3, Kinds DEF OwnInv, Init
<1>9. SentInv
  BY <1>4, EmptyFacts DEF SentInv
<1>10. \A c \in Classes, w \in Workers :
         ~Killing(w, c) /\ ~Answering(w, c) /\ sHand[w].class # c /\ ~Dying(c) /\ ~Told(c)
  BY <1>2, <1>5, <1>6, Kinds, EmptyFacts DEF Killing, Answering, Dying, Told
<1>11. KillInv
  BY <1>5, <1>6, <1>10, Kinds, EmptyFacts
     DEF KillInv, Known, Finished, Passed, OneAnswers, Counted
<1>12. \A c \in Classes, w \in Workers : Left(w, c) = 0
  BY <1>5, EmptyFacts DEF Left
<1>13. ToldInv
  BY <1>4, <1>5, <1>6, <1>10, <1>12, Kinds, EmptyFacts DEF ToldInv
<1>14. ServiceThreadsLive
  BY <1>2 DEF ServiceThreadsLive
<1> QED BY <1>1, <1>7, <1>8, <1>9, <1>11, <1>13, <1>14 DEF IInv

-----------------------------------------------------------------------------
\* A thread keeps the types.
LEMMA GotoTyped ==
  ASSUME TypeOK, NEW t \in Threads, NEW p \in Places, Goto(t, p)
  PROVE  /\ place' \in [Threads -> Places]
         /\ place'[t] = p
         /\ \A u \in Threads : u # t => place'[u] = place[u]
BY DEF TypeOK

LEMMA DropTyped ==
  ASSUME TypeOK, NEW t \in Threads, DropLock(t)
  PROVE  /\ lock' \in [Threads -> Locks]
         /\ lock'[t] = NoLock
         /\ \A u \in Threads : u # t => lock'[u] = lock[u]
<1>1. NoLock \in Locks
  BY DEF NoLock, Locks
<1> QED BY <1>1 DEF TypeOK

LEMMA NewLockTyped ==
  ASSUME TypeOK, NEW t \in Threads, NEW o \in Classes \union {Manager}, NewLock(t, o)
  PROVE  /\ lock' \in [Threads -> Locks]
         /\ lastLock' \in [Classes \union {Manager} -> Nat]
         /\ lastLock'[o] = lastLock[o] + 1 /\ lastLock'[o] \in Nat
         /\ lock'[t] = [owner |-> o, id |-> lastLock'[o], result |-> "none"]
         /\ \A u \in Threads : u # t => lock'[u] = lock[u]
<1>1. lastLock[o] + 1 \in Nat
  BY DEF TypeOK
<1>2. [owner |-> o, id |-> lastLock[o] + 1, result |-> "none"] \in Locks
  BY <1>1 DEF Locks
<1> QED BY <1>1, <1>2 DEF TypeOK, NewLock

LEMMA TypeCreate ==
  ASSUME TypeOK, NEW t \in Threads, CreateClass(t)
  PROVE  TypeOK'
<1>1. lastClass + 1 \in Classes /\ lastClass' = lastClass + 1 /\ lastClass' \in 0..MaxClasses
  <2>1. lastClass \in 0..MaxClasses
    BY DEF TypeOK
  <2>2. lastClass < MaxClasses /\ lastClass' = lastClass + 1
    BY DEF CreateClass
  <2> QED BY <2>1, <2>2, Kinds
<1>2. CASE CanSend(Manager)
  <2>1. NewLock(t, Manager) /\ Goto(t, "creating") /\ mine' = [mine EXCEPT ![t] = lastClass']
    BY <1>2 DEF CreateClass
  <2>2. toServer' = Append(toServer, Msg("create", lastClass', lastLock'[Manager]))
    BY <1>2 DEF CreateClass
  <2>3. toServer' \in Seq(Messages)
    BY <1>1, <2>1, <2>2, NewLockTyped, MsgTyped, AppendFacts DEF TypeOK
  <2>4. place' \in [Threads -> Places]
    BY <2>1, GotoTyped DEF Places
  <2>5. lock' \in [Threads -> Locks] /\ lastLock' \in [Classes \union {Manager} -> Nat]
    BY <2>1, NewLockTyped
  <2>6. mine' \in [Threads -> Classes \union {Manager}]
    BY <1>1, <2>1 DEF TypeOK
  <2> QED BY <1>1, <2>3, <2>4, <2>5, <2>6 DEF TypeOK, CreateClass
<1>3. CASE ~CanSend(Manager)
  <2>1. lastLock' \in [Classes \union {Manager} -> Nat]
    BY <1>3 DEF TypeOK, CreateClass
  <2> QED BY <1>1, <1>3, <2>1 DEF TypeOK, CreateClass
<1> QED BY <1>2, <1>3

LEMMA TypeCall ==
  ASSUME TypeOK, NEW t \in Threads, NEW c \in Classes, CallFunction(t, c)
  PROVE  TypeOK'
<1>1. CASE CanSend(c)
  <2>1. NewLock(t, c) /\ Goto(t, "calling")
    BY <1>1 DEF CallFunction
  <2>2. toServer' = Append(toServer, Msg("call", c, lastLock'[c]))
    BY <1>1 DEF CallFunction
  <2>3. toServer' \in Seq(Messages)
    BY <2>1, <2>2, NewLockTyped, MsgTyped, AppendFacts DEF TypeOK
  <2>4. place' \in [Threads -> Places]
    BY <2>1, GotoTyped DEF Places
  <2>5. lock' \in [Threads -> Locks] /\ lastLock' \in [Classes \union {Manager} -> Nat]
    BY <2>1, NewLockTyped
  <2> QED BY <2>3, <2>4, <2>5 DEF TypeOK, CallFunction
<1>2. CASE ~CanSend(c)
  <2>1. lastLock' \in [Classes \union {Manager} -> Nat]
    <3>1. lastLock[c] + 1 \in Nat
      BY DEF TypeOK
    <3>2. lastLock' = [lastLock EXCEPT ![c] = lastLock[c] + 1]
      BY <1>2 DEF CallFunction
    <3> QED BY <3>1, <3>2 DEF TypeOK
  <2> QED BY <1>2, <2>1 DEF TypeOK, CallFunction
<1> QED BY <1>1, <1>2

LEMMA TypeThread ==
  ASSUME TypeOK, OwnInv, NEW t \in Threads, ThreadStep(t)
  PROVE  TypeOK'
<1>1. CASE ClassCreated(t)
  <2>1. mine[t] \in Classes /\ DropLock(t) /\ Goto(t, "free")
    BY <1>1 DEF OwnInv, ClassCreated
  <2> QED BY <1>1, <2>1, GotoTyped, DropTyped DEF TypeOK, ClassCreated, Places
<1>2. CASE CreateTimesOut(t)
  BY <1>2, GotoTyped, DropTyped DEF TypeOK, CreateTimesOut, Places
<1>3. CASE CallReturns(t)
  BY <1>3, GotoTyped, DropTyped DEF TypeOK, CallReturns, Places
<1>4. CASE CallTimesOut(t)
  BY <1>4, GotoTyped, DropTyped DEF TypeOK, CallTimesOut, Places
<1>5. CASE Destroy(t)
  BY <1>5, GotoTyped DEF TypeOK, Destroy, Places
<1>6. CASE SendKill(t)
  <2>1. mine[t] \in Classes
    BY <1>6 DEF OwnInv, SendKill, MayKill
  <2>2. toServer' \in Seq(Messages)
    <3>1. \/ toServer' = Append(toServer, Msg("kill", mine[t], 0))
          \/ toServer' = toServer
      BY <1>6 DEF SendKill
    <3>2. Msg("kill", mine[t], 0) \in Messages
      BY <2>1, MsgTyped
    <3> QED BY <3>1, <3>2, AppendFacts DEF TypeOK
  <2>3. place' \in [Threads -> Places]
    BY <1>6, GotoTyped DEF SendKill, Places, Waiting
  <2> QED BY <1>6, <2>2, <2>3 DEF TypeOK, SendKill
<1>7. CASE KillAnswered(t)
  BY <1>7, GotoTyped DEF TypeOK, KillAnswered, Places
<1>8. CASE DestroyClass(t)
  BY <1>8, GotoTyped DEF TypeOK, DestroyClass, Places
<1> QED BY <1>1, <1>2, <1>3, <1>4, <1>5, <1>6, <1>7, <1>8, TypeCreate, TypeCall DEF ThreadStep

-----------------------------------------------------------------------------
\* So do the threads of the service ...
LEMMA TypeServerReceives ==
  ASSUME TypeOK, ServerReceives
  PROVE  TypeOK'
<1> DEFINE m == Head(toServer)
<1>1. m \in Messages /\ toServer' \in Seq(Messages) /\ m.class \in Classes /\ m.id \in Nat
  BY TailFacts, MessageFields DEF TypeOK, ServerReceives
<1> HIDE DEF m
<1>2. CASE m.type = "create"
  <2>1. /\ sClasses' = sClasses \union {m.class}
        /\ madeBy' = [madeBy EXCEPT ![m.class] = breaks]
        /\ toClient' = Append(toClient, Msg("created", m.class, m.id))
        /\ UNCHANGED sInbox
    BY <1>2 DEF ServerReceives, m
  <2>2. toClient' \in Seq(Messages)
    BY <1>1, <2>1, MsgTyped, AppendFacts DEF TypeOK
  <2> QED BY <1>1, <2>1, <2>2 DEF TypeOK, ServerReceives
<1>3. CASE m.type # "create"
  <2>1. /\ UNCHANGED <<toClient, sClasses, madeBy>>
        /\ sInbox' = [w \in Workers |-> IF m.class \in sClasses /\ ServiceHands(m.type, w)
                                          THEN Append(sInbox[w], m)
                                          ELSE sInbox[w]]
    BY <1>3 DEF ServerReceives, m
  <2>2. sInbox' \in [Workers -> Seq(Messages)]
    BY <1>1, <2>1, AppendFacts DEF TypeOK
  <2> QED BY <1>1, <2>1, <2>2 DEF TypeOK, ServerReceives
<1> QED BY <1>2, <1>3

LEMMA TypeServerTakes ==
  ASSUME TypeOK, NEW w \in Workers, ServerTakes(w)
  PROVE  TypeOK'
<1> DEFINE m == Head(sInbox[w])
<1>1. /\ m \in Messages /\ m.class \in Classes /\ m.id \in Nat
      /\ Tail(sInbox[w]) \in Seq(Messages)
  BY TailFacts, MessageFields DEF TypeOK, ServerTakes
<1> HIDE DEF m
<1>2. sInbox' \in [Workers -> Seq(Messages)]
  BY <1>1 DEF TypeOK, ServerTakes
<1>3. /\ sHand' \in [Workers -> Hands]
      /\ sKills' \in [Classes -> Nat]
      /\ task' \in [Classes -> {"none", "running", "over"}]
      /\ executed' \in [Classes -> SUBSET Nat]
  <2>1. \A type \in {"complete", "return"}, n \in Nat :
          [do |-> type, class |-> m.class, id |-> n] \in Hands
    BY <1>1 DEF Hands
  <2>2. CASE ServerKill(w, m.class)
    <3>1. sKills' \in [Classes -> Nat]
      <4>1. sKills[m.class] + 1 \in Nat
        BY SMTT(60), <1>1 DEF TypeOK
      <4> QED BY <1>1, <2>2, <4>1 DEF ServerKill, TypeOK
    <3>2. sHand' \in [Workers -> Hands]
      <4>1. [do |-> "complete", class |-> m.class, id |-> 0] \in Hands
        BY <2>1
      <4>2. \/ sHand' = sHand
            \/ sHand' = [sHand EXCEPT ![w] = [do |-> "complete", class |-> m.class, id |-> 0]]
        BY <2>2 DEF ServerKill
      <4> QED BY <4>1, <4>2 DEF TypeOK
    <3> QED BY <2>2, <3>1, <3>2 DEF ServerKill, TypeOK
  <2>3. CASE ServerExecute(w, m.class, m.id)
    BY <1>1, <2>1, <2>3 DEF ServerExecute, TypeOK
  <2>4. CASE UNCHANGED <<sHand, sKills, task, executed>>
    BY <2>4 DEF TypeOK
  <2> QED BY <2>2, <2>3, <2>4 DEF ServerTakes, m
<1> QED BY <1>2, <1>3 DEF TypeOK, ServerTakes

LEMMA AfterSendingIs ==
  ASSUME NEW h \in Hands
  PROVE  /\ AfterSending(h) \in Hands /\ [Idle EXCEPT !.do = "dead"] \in Hands
         /\ h.do = "complete" => /\ AfterSending(h).do = "destroy"
                                 /\ AfterSending(h).class = h.class
         /\ h.do # "complete" => AfterSending(h) = Idle
         /\ Idle.do = "nothing" /\ Idle.class = Manager /\ Idle \in Hands
BY DEF AfterSending, Idle, Hands

LEMMA TypeServerSends ==
  ASSUME TypeOK, OwnInv, NEW w \in Workers, ServerSends(w)
  PROVE  TypeOK'
<1> DEFINE h == sHand[w]
<1>1. h \in Hands /\ h.class \in Classes /\ h.id \in Nat
  BY DEF TypeOK, OwnInv, ServerSends, Hands
<1> HIDE DEF h
<1>2. sHand' \in [Workers -> Hands]
  BY <1>1, AfterSendingIs DEF TypeOK, ServerSends, h
<1>3. toClient' \in Seq(Messages) /\ promised' \in [Classes -> Nat]
  <2>1. Msg(IF h.do = "complete" THEN "killed" ELSE "return", h.class, h.id) \in Messages
    BY <1>1, MsgTyped
  <2>2. \/ toClient' = Append(toClient, Msg(IF h.do = "complete" THEN "killed" ELSE "return",
                                            h.class, h.id))
        \/ toClient' = toClient
    BY DEF ServerSends, h
  <2>3. promised' = promised \/ promised' = [promised EXCEPT ![h.class] = fired[h.class]]
    BY DEF ServerSends, h
  <2>4. toClient' \in Seq(Messages)
    <3> DEFINE m == Msg(IF h.do = "complete" THEN "killed" ELSE "return", h.class, h.id)
    <3>1. m \in Messages /\ toClient \in Seq(Messages)
      BY <2>1 DEF TypeOK
    <3>2. toClient' = Append(toClient, m) \/ toClient' = toClient
      BY <2>2
    <3> HIDE DEF m
    <3> QED BY <3>1, <3>2, AppendFacts
  <2>5. promised' \in [Classes -> Nat]
    <3>1. fired[h.class] \in Nat /\ promised \in [Classes -> Nat]
      BY <1>1 DEF TypeOK
    <3> QED BY <1>1, <2>3, <3>1
  <2> QED BY <2>4, <2>5
<1> QED BY <1>2, <1>3 DEF TypeOK, ServerSends

LEMMA TypeServer ==
  ASSUME TypeOK, OwnInv, ServerStep
  PROVE  TypeOK'
<1>1. ASSUME NEW w \in Workers, ServerDestroys(w)
      PROVE  TypeOK'
  <2>1. sHand[w].class \in Classes
    BY <1>1 DEF OwnInv, ServerDestroys
  <2>2. Idle \in Hands
    BY DEF Idle, Hands
  <2> QED BY <1>1, <2>1, <2>2 DEF TypeOK, ServerDestroys
<1>2. ASSUME NEW c \in Classes, FireEvent(c)
      PROVE  TypeOK'
  <2>1. Msg("event", c, 0) \in Messages
    BY MsgTyped
  <2>2. toClient' \in Seq(Messages)
    BY <1>2, <2>1, AppendFacts DEF TypeOK, FireEvent
  <2>3. fired' \in [Classes -> Nat]
    <3>1. fired[c] + 1 \in Nat /\ fired' = [fired EXCEPT ![c] = fired[c] + 1]
      BY SMTT(60), <1>2 DEF TypeOK, FireEvent
    <3> QED BY <3>1 DEF TypeOK
  <2> QED BY <1>2, <2>2, <2>3 DEF TypeOK, FireEvent
<1> QED BY <1>1, <1>2, TypeServerReceives, TypeServerTakes, TypeServerSends DEF ServerStep

\* ... and of the client's side of the pipe.
LEMMA LockTyped ==
  ASSUME NEW l \in Locks, NEW r \in {"none", "answer", "cancelled"}
  PROVE  /\ [l EXCEPT !.result = r] \in Locks
         /\ [l EXCEPT !.result = r].owner = l.owner
         /\ [l EXCEPT !.result = r].id = l.id
         /\ [l EXCEPT !.result = r].result = r
BY DEF Locks

LEMMA TypeTrigger ==
  ASSUME TypeOK, NEW o, NEW id, Trigger(o, id, "answer")
  PROVE  lock' \in [Threads -> Locks]
<1>1. \A t \in Threads : [lock[t] EXCEPT !.result = "answer"] \in Locks
  BY LockTyped DEF TypeOK
<1> QED BY <1>1 DEF TypeOK, Trigger

LEMMA TypeClientReceives ==
  ASSUME TypeOK, ClientReceives
  PROVE  TypeOK'
<1> DEFINE m == Head(toClient)
<1>1. m \in Messages /\ toClient' \in Seq(Messages)
  BY TailFacts DEF TypeOK, ClientReceives
<1> HIDE DEF m
<1>2. CASE Trigger(IF m.type = "created" THEN Manager ELSE m.class, m.id, "answer")
             /\ UNCHANGED inbox
  BY <1>1, <1>2, TypeTrigger DEF TypeOK, ClientReceives
<1>3. CASE /\ UNCHANGED lock
           /\ inbox' = [w \in Workers |->
                 IF m.class \in classes /\ (m.type = "killed" \/ w = "event")
                   THEN Append(inbox[w], m)
                   ELSE inbox[w]]
  <2>1. inbox' \in [Workers -> Seq(Messages)]
    BY <1>1, <1>3, AppendFacts DEF TypeOK
  <2> QED BY <1>1, <1>3, <2>1 DEF TypeOK, ClientReceives
<1> QED BY <1>2, <1>3 DEF ClientReceives, m

LEMMA TypeClientTakes ==
  ASSUME TypeOK, NEW w \in Workers, ClientTakes(w)
  PROVE  TypeOK'
<1> DEFINE m == Head(inbox[w])
<1>1. m \in Messages /\ m.class \in Classes /\ Tail(inbox[w]) \in Seq(Messages)
  BY TailFacts, MessageFields DEF TypeOK, ClientTakes
<1> HIDE DEF m
<1>2. inbox' \in [Workers -> Seq(Messages)]
  BY <1>1 DEF TypeOK, ClientTakes
<1>3. /\ running' \in Classes \union {Manager}
      /\ kills' \in [Classes -> Nat]
      /\ killed' \in [Classes -> BOOLEAN]
  <2>1. CASE /\ kills' = [kills EXCEPT ![m.class] = @ + 1]
             /\ killed' = [killed EXCEPT ![m.class] = @ \/ SecondAnswer(kills[m.class])]
             /\ UNCHANGED running
    <3>1. kills[m.class] + 1 \in Nat
      BY SMTT(60), <1>1 DEF TypeOK
    <3>2. kills' \in [Classes -> Nat]
      BY <1>1, <2>1, <3>1 DEF TypeOK
    <3>3. (killed[m.class] \/ SecondAnswer(kills[m.class])) \in BOOLEAN
      OBVIOUS
    <3>4. killed' \in [Classes -> BOOLEAN]
      BY <2>1, <3>3, Zenon DEF TypeOK
    <3> QED BY <2>1, <3>2, <3>4 DEF TypeOK
  <2>2. CASE running' = m.class /\ UNCHANGED <<kills, killed>>
    BY <1>1, <2>2 DEF TypeOK
  <2>3. CASE UNCHANGED <<running, kills, killed>>
    BY <2>3 DEF TypeOK
  <2> QED BY <2>1, <2>2, <2>3 DEF ClientTakes, m
<1> QED BY <1>2, <1>3 DEF TypeOK, ClientTakes

LEMMA TypeClient ==
  ASSUME TypeOK, EventHandled \/ Pipe
  PROVE  TypeOK'
<1>1. CASE EventHandled
  <2>1. running \in Classes /\ handled' = [handled EXCEPT ![running] = @ + 1]
    BY <1>1 DEF TypeOK, EventHandled
  <2>2. handled' \in [Classes -> Nat]
    BY <2>1 DEF TypeOK
  <2> QED BY <1>1, <2>2 DEF TypeOK, EventHandled
<1>2. CASE Break
  <2>1. lock' \in [Threads -> Locks]
    <3>1. \A t \in Threads : [lock[t] EXCEPT !.result = "cancelled"] \in Locks
      BY LockTyped DEF TypeOK
    <3> QED BY <1>2, <3>1 DEF TypeOK, Break
  <2>2. toServer' \in Seq(Messages)
    BY <1>2, SubSeqFacts DEF TypeOK, Break
  <2>3. /\ sInbox' \in [Workers -> Seq(Messages)]
        /\ sHand' \in [Workers -> Hands]
        /\ toClient' \in Seq(Messages)
    <3>1. Idle \in Hands
      BY DEF Idle, Hands
    <3> QED BY <1>2, <3>1, EmptyFacts DEF Break
  <2>4. breaks' \in 0..MaxBreaks
    <3>1. breaks \in Nat /\ breaks \in 0..MaxBreaks /\ MaxBreaks \in Nat
      BY DEF TypeOK, IpcAssumption
    <3>2. breaks < MaxBreaks /\ breaks' = breaks + 1
      BY <1>2 DEF Break
    <3> QED BY <3>1, <3>2
  <2>5. /\ sClasses' \in SUBSET Classes
        /\ sKills' \in [Classes -> Nat]
        /\ task' \in [Classes -> {"none", "running", "over"}]
        /\ link' \in {"up", "broken", "flagged", "down"}
    BY <1>2 DEF Break
  <2> QED BY <1>2, <2>1, <2>2, <2>3, <2>4, <2>5 DEF TypeOK, Break
<1>3. CASE Disconnect
  BY <1>3 DEF TypeOK, Disconnect
<1>4. CASE StopThreads
  BY <1>4 DEF TypeOK, StopThreads
<1>5. CASE Restart
  BY <1>5, EmptyFacts DEF TypeOK, Restart
<1> QED BY <1>1, <1>2, <1>3, <1>4, <1>5 DEF Pipe

-----------------------------------------------------------------------------
\* What the service has run it has run for ever.
LEMMA ExecutedGrows ==
  ASSUME TypeOK, [Next]_vars
  PROVE  \A c \in Classes : executed[c] \subseteq executed'[c]
<1>1. ASSUME NEW w \in Workers, ServerTakes(w)
      PROVE  \A c \in Classes : executed[c] \subseteq executed'[c]
  <2>1. \/ executed' = executed
        \/ \E c, n : executed' = [executed EXCEPT ![c] = @ \union {n}]
    BY <1>1 DEF ServerTakes, ServerKill, ServerExecute
  <2> QED BY <2>1 DEF TypeOK
<1>2. (\E w \in Workers : ServerTakes(w)) \/ executed' = executed
  <2>1. ASSUME NEW t \in Threads, ThreadStep(t)
        PROVE  executed' = executed
    BY <2>1 DEF ThreadStep, CreateClass, ClassCreated, CreateTimesOut, CallFunction, CallReturns,
                CallTimesOut, Destroy, SendKill, KillAnswered, DestroyClass
  <2>2. ASSUME ServerStep
        PROVE  (\E w \in Workers : ServerTakes(w)) \/ executed' = executed
    BY <2>2 DEF ServerStep, ServerReceives, ServerSends, ServerDestroys, FireEvent
  <2>3. ASSUME ClientReceives \/ (\E w \in Workers : ClientTakes(w)) \/ EventHandled \/ Pipe
        PROVE  executed' = executed
    BY <2>3 DEF ClientReceives, ClientTakes, EventHandled, Pipe, Break, Disconnect, StopThreads,
                Restart
  <2> QED BY <2>1, <2>2, <2>3 DEF Next
<1> QED BY <1>1, <1>2 DEF TypeOK

\* An answer that is added to the pipe is one to a call that was run.
LEMMA AppendReturns ==
  ASSUME NEW s \in Seq(Messages), NEW m \in Messages, NEW ex,
         \A i \in 1..Len(s) : s[i].type = "return" => s[i].id \in ex[s[i].class],
         m.type = "return" => m.id \in ex[m.class]
  PROVE  \A i \in 1..Len(Append(s, m)) :
           Append(s, m)[i].type = "return" => Append(s, m)[i].id \in ex[Append(s, m)[i].class]
<1> DEFINE t == Append(s, m)
<1>1. /\ Len(t) = Len(s) + 1
      /\ \A i \in 1..Len(s) : t[i] = s[i]
      /\ t[Len(s) + 1] = m
      /\ Len(s) \in Nat
  BY AppendProperties, LenProperties
<1> HIDE DEF t
<1>2. \A i \in 1..Len(t) : i \in 1..Len(s) \/ t[i] = m
  BY <1>1
<1> QED BY <1>1, <1>2 DEF t

LEMMA AnswerThread ==
  ASSUME TypeOK, AnswerInv, NEW t \in Threads, ThreadStep(t)
  PROVE  AnswerInv'
<1>1. UNCHANGED <<sHand, executed, toClient>>
  BY DEF ThreadStep, CreateClass, ClassCreated, CreateTimesOut, CallFunction, CallReturns,
         CallTimesOut, Destroy, SendKill, KillAnswered, DestroyClass
<1>2. ASSUME NEW o \in Classes \union {Manager}, NEW p \in Places, NewLock(t, o), Goto(t, p),
             p = "calling" => o \in Classes
      PROVE  AnswerInv'
  <2>1. lock'[t].result = "none" /\ lock'[t].owner = o
    <3>1. lock'[t] = [owner |-> o, id |-> lastLock'[o], result |-> "none"]
      BY <1>2, NewLockTyped
    <3> QED BY <3>1
  <2>2. place'[t] = "calling" => lock'[t].owner \in Classes
    BY <1>2, <2>1, GotoTyped
  <2>3. \A u \in Threads : u # t => lock'[u] = lock[u] /\ place'[u] = place[u]
    BY ZenonT(60), <1>2, NewLockTyped, GotoTyped
  <2> QED BY <1>1, <2>1, <2>2, <2>3 DEF AnswerInv
<1>3. ASSUME NEW p \in Places, DropLock(t) \/ UNCHANGED lock, Goto(t, p), p # "calling"
      PROVE  AnswerInv'
  <2>1. lock'[t] = NoLock \/ lock'[t] = lock[t]
    BY <1>3, DropTyped
  <2>2. \A u \in Threads : u # t => lock'[u] = lock[u] /\ place'[u] = place[u]
    BY <1>3, DropTyped, GotoTyped
  <2>3. place'[t] # "calling" /\ NoLock.result = "none"
    BY <1>3, GotoTyped DEF NoLock
  <2> QED BY <1>1, <2>1, <2>2, <2>3 DEF AnswerInv
<1>4. CASE UNCHANGED <<place, lock>>
  BY <1>1, <1>4 DEF AnswerInv
<1>5. CASE CreateClass(t)
  BY <1>2, <1>4, <1>5 DEF CreateClass, Places
<1>6. ASSUME NEW c \in Classes, CallFunction(t, c)
      PROVE  AnswerInv'
  BY <1>2, <1>4, <1>6 DEF CallFunction, Places
<1>7. CASE ClassCreated(t) \/ CreateTimesOut(t) \/ CallReturns(t) \/ CallTimesOut(t)
  BY <1>3, <1>7 DEF ClassCreated, CreateTimesOut, CallReturns, CallTimesOut, Places
<1>8. CASE Destroy(t) \/ SendKill(t) \/ KillAnswered(t) \/ DestroyClass(t)
  BY <1>3, <1>8 DEF Destroy, SendKill, KillAnswered, DestroyClass, Places, Waiting
<1> QED BY <1>5, <1>6, <1>7, <1>8 DEF ThreadStep

LEMMA AnswerServer ==
  ASSUME TypeOK, AnswerInv, OwnInv, ServerStep
  PROVE  AnswerInv'
<1>1. \A c \in Classes : executed[c] \subseteq executed'[c]
  BY ExecutedGrows DEF Next
<1>2. UNCHANGED <<place, lock>>
  BY DEF ServerStep, ServerReceives, ServerTakes, ServerSends, ServerDestroys, FireEvent
<1>3. \A t \in Threads : lock[t].result = "answer" /\ lock[t].owner \in Classes =>
                           lock[t].id \in executed'[lock[t].owner]
  BY <1>1 DEF AnswerInv
<1>4. \A i \in 1..Len(toClient) :
        /\ toClient[i].class \in Classes
        /\ toClient[i].type = "return" => toClient[i].id \in executed'[toClient[i].class]
  BY <1>1, ElementOfSeq, MessageFields DEF AnswerInv, TypeOK
<1>5. \A w \in Workers : sHand[w].do = "return" =>
        sHand[w].class \in Classes /\ sHand[w].id \in executed'[sHand[w].class]
  BY <1>1 DEF AnswerInv, OwnInv
<1>6. ASSUME NEW m \in Messages, toClient' = Append(toClient, m),
             m.type = "return" => m.id \in executed'[m.class],
             \A w \in Workers : sHand'[w] = sHand[w] \/ sHand'[w].do # "return"
      PROVE  AnswerInv'
  <2>1. \A i \in 1..Len(toClient') :
          toClient'[i].type = "return" => toClient'[i].id \in executed'[toClient'[i].class]
    BY <1>4, <1>6, AppendReturns DEF TypeOK
  <2> QED BY <1>2, <1>3, <1>5, <1>6, <2>1 DEF AnswerInv
<1>7. ASSUME UNCHANGED toClient,
             \A w \in Workers : \/ sHand'[w] = sHand[w] \/ sHand'[w].do # "return"
                                \/ sHand'[w].id \in executed'[sHand'[w].class]
      PROVE  AnswerInv'
  BY <1>2, <1>3, <1>4, <1>5, <1>7 DEF AnswerInv
<1>8. CASE ServerReceives
  <2> DEFINE m == Head(toServer)
  <2>1. m \in Messages /\ m.class \in Classes /\ m.id \in Nat /\ UNCHANGED sHand
    BY <1>8, TailFacts, MessageFields DEF TypeOK, ServerReceives
  <2>2. \/ UNCHANGED toClient
        \/ toClient' = Append(toClient, Msg("created", m.class, m.id))
    BY <1>8 DEF ServerReceives
  <2> HIDE DEF m
  <2>3. /\ Msg("created", m.class, m.id) \in Messages
        /\ Msg("created", m.class, m.id).type # "return"
    BY <2>1, MsgTyped
  <2> QED BY <1>6, <1>7, <2>1, <2>2, <2>3
<1>9. ASSUME NEW w \in Workers, ServerTakes(w)
      PROVE  AnswerInv'
  <2> DEFINE m == Head(sInbox[w])
  <2>1. m.class \in Classes /\ UNCHANGED toClient
    BY <1>9, TailFacts, MessageFields DEF TypeOK, ServerTakes
  <2>2. \/ UNCHANGED sHand
        \/ sHand' = [sHand EXCEPT ![w] = [do |-> "complete", class |-> m.class, id |-> 0]]
        \/ /\ sHand' = [sHand EXCEPT ![w] = [do |-> "return", class |-> m.class, id |-> m.id]]
           /\ executed' = [executed EXCEPT ![m.class] = @ \union {m.id}]
    BY <1>9 DEF ServerTakes, ServerKill, ServerExecute
  <2> HIDE DEF m
  <2>3. \A v \in Workers : \/ sHand'[v] = sHand[v]
                           \/ sHand'[v].do = "complete"
                           \/ sHand'[v].id \in executed'[sHand'[v].class]
    BY <2>1, <2>2 DEF TypeOK
  <2> QED BY <1>7, <2>1, <2>3
<1>10. ASSUME NEW w \in Workers, ServerSends(w)
       PROVE  AnswerInv'
  <2> DEFINE h == sHand[w]
  <2>1. /\ h \in Hands /\ h.class \in Classes /\ h.id \in Nat
        /\ h.do \in {"return", "complete"} /\ UNCHANGED executed
    BY <1>10 DEF TypeOK, OwnInv, ServerSends, Hands
  <2>2. h.do = "return" => h.id \in executed'[h.class]
    BY <1>5
  <2>3. \/ UNCHANGED toClient
        \/ toClient' = Append(toClient, Msg(IF h.do = "complete" THEN "killed" ELSE "return",
                                            h.class, h.id))
    BY <1>10 DEF ServerSends
  <2>4. \/ sHand' = [sHand EXCEPT ![w] = AfterSending(h)]
        \/ sHand' = [sHand EXCEPT ![w] = [Idle EXCEPT !.do = "dead"]]
    BY <1>10 DEF ServerSends
  <2> HIDE DEF h
  <2>5. AfterSending(h).do # "return" /\ [Idle EXCEPT !.do = "dead"].do = "dead"
    BY <2>1, AfterSendingIs DEF Idle
  <2>6. \A v \in Workers : sHand'[v] = sHand[v] \/ sHand'[v].do # "return"
    BY <2>4, <2>5 DEF TypeOK
  <2>7. CASE h.do = "complete"
    <3>1. /\ Msg("killed", h.class, h.id) \in Messages
          /\ Msg("killed", h.class, h.id).type = "killed"
      BY <2>1, MsgTyped
    <3> QED BY <1>6, <1>7, <2>3, <2>6, <2>7, <3>1
  <2>8. CASE h.do = "return"
    <3> DEFINE m == Msg("return", h.class, h.id)
    <3>1. m \in Messages /\ m.id = h.id /\ m.class = h.class
      BY <2>1, MsgTyped
    <3>2. UNCHANGED toClient \/ toClient' = Append(toClient, m)
      BY <2>3, <2>8
    <3> HIDE DEF m
    <3> QED BY <1>6, <1>7, <2>2, <2>6, <2>8, <3>1, <3>2
  <2> QED BY <2>1, <2>7, <2>8
<1>11. ASSUME NEW w \in Workers, ServerDestroys(w)
       PROVE  AnswerInv'
  <2>1. \A v \in Workers : sHand'[v] = sHand[v] \/ sHand'[v].do # "return"
    BY <1>11 DEF TypeOK, ServerDestroys, Idle
  <2> QED BY <1>7, <1>11, <2>1 DEF ServerDestroys
<1>12. ASSUME NEW c \in Classes, FireEvent(c)
       PROVE  AnswerInv'
  <2>1. Msg("event", c, 0) \in Messages /\ Msg("event", c, 0).type # "return"
    BY MsgTyped
  <2> QED BY <1>6, <1>12, <2>1 DEF FireEvent
<1> QED BY <1>8, <1>9, <1>10, <1>11, <1>12 DEF ServerStep

\* The trigger of an answer reaches the lock it is for, and no other.
LEMMA AnswerClient ==
  ASSUME TypeOK, AnswerInv,
         ClientReceives \/ (\E w \in Workers : ClientTakes(w)) \/ EventHandled \/ Pipe
  PROVE  AnswerInv'
<1>1. CASE ClientReceives
  <2> DEFINE m == Head(toClient)
  <2>1. /\ toClient # <<>> /\ toClient' = Tail(toClient)
        /\ UNCHANGED <<place, sHand, executed>>
    BY <1>1 DEF ClientReceives
  <2>2. /\ \A i \in 1..Len(toClient') : i + 1 \in 1..Len(toClient)
                                        /\ toClient'[i] = toClient[i + 1]
        /\ 1 \in 1..Len(toClient) /\ m = toClient[1]
        /\ m \in Messages /\ m.class \in Classes
    BY <2>1, HeadTailProperties, LenProperties, EmptySeq, MessageFields DEF TypeOK
  <2>3. /\ \A i \in 1..Len(toClient') :
             toClient'[i].type = "return" => toClient'[i].id \in executed[toClient'[i].class]
        /\ m.type = "return" => m.id \in executed[m.class]
    BY <2>2 DEF AnswerInv
  <2>4. \/ UNCHANGED lock
        \/ /\ m.type \in {"created", "return"}
           /\ Trigger(IF m.type = "created" THEN Manager ELSE m.class, m.id, "answer")
    BY <1>1 DEF ClientReceives
  <2> HIDE DEF m
  <2>5. ASSUME NEW t \in Threads
        PROVE  /\ lock'[t].owner = lock[t].owner /\ lock'[t].id = lock[t].id
               /\ \/ lock'[t] = lock[t]
                  \/ lock[t].owner = Manager
                  \/ lock[t].id \in executed[lock[t].owner]
    <3>1. CASE UNCHANGED lock
      BY <3>1
    <3>2. CASE m.type = "created" /\ Trigger(Manager, m.id, "answer")
      <4>1. lock[t] \in Locks
        BY DEF TypeOK
      <4>2. lock'[t] = IF lock[t].owner = Manager /\ lock[t].id = m.id
                         THEN [lock[t] EXCEPT !.result = "answer"] ELSE lock[t]
        BY <3>2 DEF Trigger, IsLock
      <4> QED BY <4>1, <4>2, LockTyped
    <3>3. CASE m.type = "return" /\ Trigger(m.class, m.id, "answer")
      <4>1. lock[t] \in Locks
        BY DEF TypeOK
      <4>2. lock'[t] = IF lock[t].owner = m.class /\ lock[t].id = m.id
                         THEN [lock[t] EXCEPT !.result = "answer"] ELSE lock[t]
        BY <3>3 DEF Trigger, IsLock
      <4> QED BY <2>3, <3>3, <4>1, <4>2, LockTyped
    <3> QED BY <2>4, <3>1, <3>2, <3>3
  <2> QED BY <2>1, <2>3, <2>5, Kinds DEF AnswerInv
<1>2. CASE (\E w \in Workers : ClientTakes(w)) \/ EventHandled
  BY <1>2 DEF ClientTakes, EventHandled, AnswerInv
<1>3. CASE Break
  <2>1. Len(toClient') = 0 /\ UNCHANGED <<place, executed>>
    BY <1>3 DEF Break
  <2>2. \A w \in Workers : sHand'[w].do = "nothing"
    BY <1>3 DEF Break, Idle
  <2>3. \A t \in Threads : /\ lock'[t].owner = lock[t].owner
                           /\ lock'[t] = lock[t] \/ lock'[t].result = "cancelled"
    BY <1>3, LockTyped DEF Break, TypeOK
  <2> QED BY <2>1, <2>2, <2>3 DEF AnswerInv
<1>4. CASE Disconnect \/ StopThreads \/ Restart
  BY <1>4 DEF Disconnect, StopThreads, Restart, AnswerInv
<1> QED BY <1>1, <1>2, <1>3, <1>4 DEF Pipe

-----------------------------------------------------------------------------
\* A class is its task's alone.
LEMMA OwnThread ==
  ASSUME TypeOK, OwnInv, NEW t \in Threads, ThreadStep(t)
  PROVE  OwnInv'
<1>1. UNCHANGED sHand
  BY DEF ThreadStep, CreateClass, ClassCreated, CreateTimesOut, CallFunction, CallReturns,
         CallTimesOut, Destroy, SendKill, KillAnswered, DestroyClass
<1>2. \A u \in Threads : mine[u] \in Nat /\ mine[u] <= lastClass
  BY Kinds DEF TypeOK, OwnInv
<1>3. lastClass \in Nat
  BY DEF TypeOK
<1>4. ASSUME UNCHANGED <<mine, lastClass>>, NEW p \in Places, Goto(t, p),
             p \in {"creating", "kill", "killing", "leave"} => mine[t] \in Classes
      PROVE  OwnInv'
  BY <1>1, <1>4, GotoTyped DEF OwnInv
<1>5. ASSUME mine' = [mine EXCEPT ![t] = Manager], UNCHANGED lastClass, Goto(t, "free")
      PROVE  OwnInv'
  <2>1. \A u \in Threads : mine'[u] = mine[u] \/ (u = t /\ mine'[u] = Manager)
    BY <1>5 DEF TypeOK
  <2>2. \A u \in Threads : place'[u] = place[u] \/ (u = t /\ place'[u] = "free")
    BY <1>5, GotoTyped DEF Places
  <2>3. \A u \in Threads : u # t => mine'[u] = mine[u]
    BY <2>1
  <2>4. place'[t] = "free" /\ mine'[t] = Manager
    BY <1>5, GotoTyped DEF Places, TypeOK
  <2> QED BY <1>1, <1>2, <1>3, <1>5, <2>1, <2>2, <2>3, <2>4, Kinds DEF OwnInv
<1>6. CASE CreateClass(t)
  <2>1. lastClass' = lastClass + 1 /\ lastClass' \in Classes
    BY <1>3, <1>6, Kinds DEF CreateClass
  <2>2. CASE CanSend(Manager)
    <3>1. mine'[t] = lastClass' /\ \A u \in Threads : u # t => mine'[u] = mine[u]
      BY <1>6, <2>2 DEF CreateClass, TypeOK
    <3>2. place'[t] = "creating" /\ \A u \in Threads : u # t => place'[u] = place[u]
      BY <1>6, <2>2, GotoTyped DEF CreateClass, Places
    <3> QED BY <1>1, <1>2, <1>3, <2>1, <3>1, <3>2 DEF OwnInv
  <2>3. CASE ~CanSend(Manager)
    <3>1. UNCHANGED <<place, mine>>
      BY <1>6, <2>3 DEF CreateClass
    <3> QED BY <1>1, <1>2, <1>3, <2>1, <3>1 DEF OwnInv
  <2> QED BY <2>2, <2>3
<1>7. ASSUME NEW c \in Classes, CallFunction(t, c)
      PROVE  OwnInv'
  <2>1. CASE CanSend(c)
    BY <1>4, <1>7, <2>1 DEF CallFunction, Places
  <2>2. CASE ~CanSend(c)
    BY <1>1, <1>7, <2>2 DEF CallFunction, OwnInv
  <2> QED BY <2>1, <2>2
<1>8. CASE ClassCreated(t) \/ CallReturns(t) \/ CallTimesOut(t)
  BY <1>4, <1>8 DEF ClassCreated, CallReturns, CallTimesOut, Places
<1>9. CASE CreateTimesOut(t) \/ DestroyClass(t)
  BY <1>5, <1>9 DEF CreateTimesOut, DestroyClass
<1>10. CASE Destroy(t)
  <2>1. mine[t] \in Classes
    BY <1>10 DEF Destroy, TypeOK
  <2> QED BY <1>4, <1>10, <2>1 DEF Destroy, Places
<1>11. CASE SendKill(t) \/ KillAnswered(t)
  <2>1. mine[t] \in Classes
    BY <1>11 DEF OwnInv, SendKill, MayKill, KillAnswered
  <2> QED BY <1>4, <1>11, <2>1 DEF SendKill, KillAnswered, Places, Waiting
<1> QED BY <1>6, <1>7, <1>8, <1>9, <1>10, <1>11 DEF ThreadStep

LEMMA OwnRest ==
  ASSUME TypeOK, OwnInv,
         \/ ServerStep
         \/ ClientReceives \/ (\E w \in Workers : ClientTakes(w)) \/ EventHandled \/ Pipe
  PROVE  OwnInv'
<1>1. UNCHANGED <<place, mine, lastClass>>
  BY DEF ServerStep, ServerReceives, ServerTakes, ServerSends, ServerDestroys, FireEvent,
         ClientReceives, ClientTakes, EventHandled, Pipe, Break, Disconnect, StopThreads, Restart
<1>2. ASSUME \A w \in Workers :
               \/ sHand'[w] = sHand[w]
               \/ /\ sHand'[w].do \in {"return", "complete", "destroy"}
                  /\ sHand'[w].class \in Classes
               \/ sHand'[w].do \in {"nothing", "dead"} /\ sHand'[w].class = Manager
      PROVE  OwnInv'
  BY <1>1, <1>2, Kinds DEF OwnInv
<1>3. CASE UNCHANGED sHand
  BY <1>2, <1>3
<1>4. ASSUME NEW w \in Workers, ServerTakes(w)
      PROVE  OwnInv'
  <2> DEFINE m == Head(sInbox[w])
  <2>1. m.class \in Classes
    BY <1>4, TailFacts, MessageFields DEF TypeOK, ServerTakes
  <2>2. \/ UNCHANGED sHand
        \/ sHand' = [sHand EXCEPT ![w] = [do |-> "complete", class |-> m.class, id |-> 0]]
        \/ sHand' = [sHand EXCEPT ![w] = [do |-> "return", class |-> m.class, id |-> m.id]]
    BY <1>4 DEF ServerTakes, ServerKill, ServerExecute
  <2> HIDE DEF m
  <2>3. \A v \in Workers : \/ sHand'[v] = sHand[v]
                           \/ sHand'[v].do \in {"return", "complete"} /\ sHand'[v].class \in Classes
    BY SMTT(60), <2>1, <2>2 DEF TypeOK
  <2> QED BY <1>2, <2>3
<1>5. ASSUME NEW w \in Workers, ServerSends(w)
      PROVE  OwnInv'
  <2> DEFINE h == sHand[w]
  <2>1. h \in Hands /\ h.class \in Classes /\ h.do \in {"return", "complete"}
    BY <1>5 DEF TypeOK, OwnInv, ServerSends, Hands
  <2>2. \/ sHand' = [sHand EXCEPT ![w] = AfterSending(h)]
        \/ sHand' = [sHand EXCEPT ![w] = [Idle EXCEPT !.do = "dead"]]
    BY <1>5 DEF ServerSends
  <2> HIDE DEF h
  <2>3. /\ \/ AfterSending(h).do = "destroy" /\ AfterSending(h).class \in Classes
           \/ AfterSending(h).do = "nothing" /\ AfterSending(h).class = Manager
        /\ [Idle EXCEPT !.do = "dead"].do = "dead" /\ [Idle EXCEPT !.do = "dead"].class = Manager
    BY <2>1, AfterSendingIs DEF Idle
  <2>4. \A v \in Workers : \/ sHand'[v] = sHand[v]
                           \/ sHand'[v] = AfterSending(h)
                           \/ sHand'[v] = [Idle EXCEPT !.do = "dead"]
    BY <2>2 DEF TypeOK
  <2> QED BY <1>2, <2>3, <2>4
<1>6. CASE (\E w \in Workers : ServerDestroys(w)) \/ Break
  <2>1. \A v \in Workers : sHand'[v] = sHand[v] \/ sHand'[v] = Idle
    BY <1>6 DEF ServerDestroys, Break, TypeOK
  <2>2. Idle.do = "nothing" /\ Idle.class = Manager
    BY DEF Idle
  <2> QED BY <1>2, <2>1, <2>2
<1>7. CASE \/ ServerReceives \/ (\E c \in Classes : FireEvent(c))
           \/ ClientReceives \/ (\E w \in Workers : ClientTakes(w)) \/ EventHandled
           \/ Disconnect \/ StopThreads \/ Restart
  BY <1>3, <1>7 DEF ServerReceives, FireEvent, ClientReceives, ClientTakes, EventHandled,
                    Disconnect, StopThreads, Restart
<1> QED BY <1>4, <1>5, <1>6, <1>7 DEF ServerStep, Pipe

-----------------------------------------------------------------------------
\* A class the client is done with stays so.
LEMMA OverStays ==
  ASSUME TypeOK, OwnInv, [Next]_vars, NEW c \in Classes, Over(c)
  PROVE  Over(c)'
<1>1. \A u \in Threads : mine[u] = c => place[u] \in {"killing", "leave"}
  BY DEF Over
<1>2. c <= lastClass /\ lastClass \in Nat
  BY DEF Over, TypeOK
<1>3. CASE UNCHANGED <<place, mine, lastClass>>
  BY <1>3 DEF Over
<1>4. ASSUME NEW t \in Threads, ThreadStep(t)
      PROVE  Over(c)'
  <2>1. ASSUME NEW p \in Places, Goto(t, p), UNCHANGED <<mine, lastClass>>,
               mine[t] = c => p \in {"killing", "leave"}
        PROVE  Over(c)'
    BY <1>1, <1>2, <2>1, GotoTyped DEF Over
  <2>2. ASSUME NEW p \in Places, Goto(t, p), NEW x, mine' = [mine EXCEPT ![t] = x],
               x # c, lastClass' >= lastClass, lastClass' \in Nat
        PROVE  Over(c)'
    <3>1. \A u \in Threads : mine'[u] = c => u # t /\ mine[u] = c
      BY <2>2 DEF TypeOK
    <3>2. \A u \in Threads : u # t => place'[u] = place[u]
      BY <2>2, GotoTyped
    <3>3. c <= lastClass'
      BY <1>2, <2>2, Kinds
    <3> QED BY <1>1, <3>1, <3>2, <3>3 DEF Over
  <2>3. CASE CreateClass(t)
    <3>1. lastClass' = lastClass + 1 /\ lastClass' # c /\ lastClass' >= lastClass
             /\ lastClass' \in Nat
      BY <1>2, <2>3, Kinds DEF CreateClass
    <3>2. CASE CanSend(Manager)
      BY <2>2, <2>3, <3>1, <3>2 DEF CreateClass, Places
    <3>3. CASE ~CanSend(Manager)
      BY <1>1, <1>2, <2>3, <3>1, <3>3, Kinds DEF CreateClass, Over
    <3> QED BY <3>2, <3>3
  <2>4. ASSUME NEW d \in Classes, CallFunction(t, d)
        PROVE  Over(c)'
    <3>1. mine[t] # c
      BY <1>1, <2>4 DEF CallFunction
    <3>2. CASE CanSend(d)
      BY <2>1, <2>4, <3>1, <3>2 DEF CallFunction, Places
    <3>3. CASE ~CanSend(d)
      BY <1>3, <2>4, <3>3 DEF CallFunction
    <3> QED BY <3>2, <3>3
  <2>5. CASE ClassCreated(t) \/ CallReturns(t) \/ CallTimesOut(t)
    <3>1. mine[t] # c
      BY <1>1, <2>5 DEF ClassCreated, CallReturns, CallTimesOut
    <3> QED BY <2>1, <2>5, <3>1 DEF ClassCreated, CallReturns, CallTimesOut, Places
  <2>6. CASE Destroy(t)
    <3>1. mine[t] # c
      BY <1>1, <2>6 DEF Destroy
    <3> QED BY <2>1, <2>6, <3>1 DEF Destroy, Places
  <2>7. CASE SendKill(t)
    <3>1. mine[t] # c
      BY <1>1, <2>7 DEF SendKill, MayKill
    <3> QED BY <2>1, <2>7, <3>1 DEF SendKill, Places, Waiting
  <2>8. CASE KillAnswered(t)
    BY <2>1, <2>8 DEF KillAnswered, Places
  <2>9. CASE CreateTimesOut(t) \/ DestroyClass(t)
    <3>1. Manager # c /\ UNCHANGED lastClass
      BY <2>9, Kinds DEF CreateTimesOut, DestroyClass
    <3> QED BY <1>2, <2>2, <2>9, <3>1 DEF CreateTimesOut, DestroyClass, Places
  <2> QED BY <1>4, <2>3, <2>4, <2>5, <2>6, <2>7, <2>8, <2>9 DEF ThreadStep
<1>5. CASE ServerStep
  BY <1>3, <1>5 DEF ServerStep, ServerReceives, ServerTakes, ServerSends, ServerDestroys, FireEvent
<1>6. CASE ClientReceives \/ (\E w \in Workers : ClientTakes(w)) \/ EventHandled \/ Pipe
  BY <1>3, <1>6 DEF ClientReceives, ClientTakes, EventHandled, Pipe, Break, Disconnect,
                    StopThreads, Restart
<1> QED BY <1>3, <1>4, <1>5, <1>6 DEF Next

\* What a thread sends is about a class the client is not done with; a kill ends that.
OverNow(c) ==
  /\ c <= lastClass'
  /\ \A t \in Threads : mine'[t] = c => place'[t] \in {"killing", "leave"}

Sends(m) ==
  /\ m \in Messages
  /\ toServer' = Append(toServer, m)
  /\ ~Over(m.class)
  /\ m.class <= lastClass'
  /\ m.type = "kill" => OverNow(m.class)

LEMMA SendsOne ==
  ASSUME TypeOK, OwnInv, NEW t \in Threads, ThreadStep(t)
  PROVE  UNCHANGED toServer \/ \E m : Sends(m)
<1>1. CASE CreateClass(t)
  <2>1. lastClass \in Nat /\ lastClass' = lastClass + 1 /\ lastClass' \in Classes
    <3>1. lastClass \in 0..MaxClasses
      BY DEF TypeOK
    <3>2. lastClass' = lastClass + 1 /\ lastClass < MaxClasses
      BY <1>1 DEF CreateClass
    <3> QED BY <3>1, <3>2, Kinds
  <2>2. CASE CanSend(Manager)
    <3> DEFINE m == Msg("create", lastClass', lastLock'[Manager])
    <3>1. toServer' = Append(toServer, m)
      BY <1>1, <2>2 DEF CreateClass
    <3>2. lastLock'[Manager] \in Nat
      BY <1>1, <2>2, NewLockTyped DEF CreateClass
    <3>3. m \in Messages /\ m.class = lastClass' /\ m.type = "create"
      BY <2>1, <3>2, MsgTyped
    <3> HIDE DEF m
    <3>4. ~Over(lastClass')
      BY <2>1 DEF Over
    <3> QED BY <2>1, <3>1, <3>3, <3>4 DEF Sends
  <2>3. CASE ~CanSend(Manager)
    BY <1>1, <2>3 DEF CreateClass
  <2> QED BY <2>2, <2>3
<1>2. ASSUME NEW c \in Classes, CallFunction(t, c)
      PROVE  UNCHANGED toServer \/ \E m : Sends(m)
  <2>1. CASE CanSend(c)
    <3> DEFINE m == Msg("call", c, lastLock'[c])
    <3>1. toServer' = Append(toServer, m)
      BY <1>2, <2>1 DEF CallFunction
    <3>2. lastLock'[c] \in Nat
      BY <1>2, <2>1, NewLockTyped DEF CallFunction
    <3>3. m \in Messages /\ m.class = c /\ m.type = "call"
      BY <3>2, MsgTyped
    <3> HIDE DEF m
    <3>4. ~Over(c) /\ c <= lastClass' /\ UNCHANGED lastClass
      BY <1>2 DEF CallFunction, Held, Over, OwnInv
    <3> QED BY <3>1, <3>3, <3>4 DEF Sends
  <2>2. CASE ~CanSend(c)
    BY <1>2, <2>2 DEF CallFunction
  <2> QED BY <2>1, <2>2
<1>3. CASE SendKill(t)
  <2>1. place[t] = "kill" /\ mine[t] \in Classes /\ mine[t] <= lastClass
          /\ UNCHANGED <<mine, lastClass>>
    BY <1>3 DEF SendKill, MayKill, OwnInv
  <2>2. CASE CanSend(mine[t])
    <3> DEFINE m == Msg("kill", mine[t], 0)
    <3>1. toServer' = Append(toServer, m) /\ Goto(t, "killing")
      BY <1>3, <2>2 DEF SendKill, Waiting
    <3>2. m \in Messages /\ m.class = mine[t] /\ m.type = "kill"
      BY <2>1, MsgTyped
    <3> HIDE DEF m
    <3>3. ~Over(mine[t])
      BY <2>1 DEF Over
    <3>4. place'[t] = "killing"
      BY <3>1, GotoTyped DEF Places
    <3>5. \A u \in Threads : mine[u] = mine[t] => u = t
      BY <2>1, Kinds DEF OwnInv
    <3>6. OverNow(m.class)
      BY <2>1, <3>2, <3>4, <3>5 DEF OverNow
    <3> QED BY <2>1, <3>1, <3>2, <3>3, <3>6 DEF Sends
  <2>3. CASE ~CanSend(mine[t])
    BY <1>3, <2>3 DEF SendKill
  <2> QED BY <2>2, <2>3
<1>4. CASE \/ ClassCreated(t) \/ CreateTimesOut(t) \/ CallReturns(t) \/ CallTimesOut(t)
           \/ Destroy(t) \/ KillAnswered(t) \/ DestroyClass(t)
  BY <1>4 DEF ClassCreated, CreateTimesOut, CallReturns, CallTimesOut, Destroy, KillAnswered,
              DestroyClass
<1> QED BY <1>1, <1>2, <1>3, <1>4 DEF ThreadStep

LEMMA SentNext ==
  ASSUME TypeOK, OwnInv, SentInv, [Next]_vars
  PROVE  SentInv'
<1>1. \A c \in Classes : Over(c) => Over(c)'
  BY OverStays
<1>2. lastClass \in Nat /\ lastClass' \in Nat /\ lastClass <= lastClass'
  <2>1. lastClass' = lastClass \/ lastClass' = lastClass + 1
    BY DEF Next, ThreadStep, CreateClass, ClassCreated, CreateTimesOut, CallFunction, CallReturns,
           CallTimesOut, Destroy, SendKill, KillAnswered, DestroyClass, ServerStep, ServerReceives,
           ServerTakes, ServerSends, ServerDestroys, FireEvent, ClientReceives, ClientTakes,
           EventHandled, Pipe, Break, Disconnect, StopThreads, Restart
  <2> QED BY <2>1 DEF TypeOK
<1>3. ASSUME \A c : About(toServer', c) => About(toServer, c),
             \A c, type : Has(toServer', type, c) => Has(toServer, type, c),
             KillsLast(toServer')
      PROVE  SentInv'
  BY <1>1, <1>2, <1>3, Kinds DEF SentInv
<1>4. CASE UNCHANGED toServer
  BY <1>3, <1>4 DEF SentInv
<1>5. ASSUME NEW t \in Threads, ThreadStep(t)
      PROVE  SentInv'
  <2>1. ASSUME NEW m, Sends(m)
        PROVE  SentInv'
    <3>1. m \in Messages /\ m.class \in Classes /\ m.class <= lastClass'
            /\ toServer' = Append(toServer, m)
      BY <2>1, MessageFields DEF Sends
    <3>2. ~Has(toServer, "kill", m.class)
      BY <2>1, <3>1 DEF Sends, SentInv
    <3>3. \A c \in Classes : OverNow(c) => Over(c)'
      BY DEF OverNow, Over
    <3>4. KillsLast(toServer')
      BY <3>1, <3>2, AppendFacts DEF SentInv, TypeOK
    <3>5. \A c \in Classes : About(toServer', c) => c <= lastClass'
      <4>1. \A c : About(toServer', c) <=> About(toServer, c) \/ m.class = c
        BY <3>1, AppendFacts DEF TypeOK
      <4>2. \A c \in Classes : c \in Nat /\ (About(toServer, c) => c <= lastClass)
        BY Kinds DEF SentInv
      <4> QED BY <1>2, <3>1, <4>1, <4>2
    <3>6. \A c \in Classes : Has(toServer', "kill", c) => Over(c)'
      <4>1. \A c : Has(toServer', "kill", c) <=>
                     Has(toServer, "kill", c) \/ (m.type = "kill" /\ m.class = c)
        BY <3>1, AppendFacts DEF TypeOK
      <4>2. ASSUME NEW c \in Classes, m.type = "kill", m.class = c
            PROVE  Over(c)'
        BY <2>1, <3>3, <4>2 DEF Sends
      <4> QED BY <1>1, <4>1, <4>2 DEF SentInv
    <3> QED BY <3>4, <3>5, <3>6 DEF SentInv
  <2> QED BY <1>4, <1>5, <2>1, SendsOne
<1>6. CASE ServerReceives
  BY <1>3, <1>6, TailFacts DEF ServerReceives, SentInv, TypeOK
<1>7. CASE Break
  <2>1. PICK n \in 0..Len(toServer) : toServer' = SubSeq(toServer, n + 1, Len(toServer))
    BY <1>7 DEF Break
  <2>2. toServer \in Seq(Messages)
    BY DEF TypeOK
  <2> QED BY <1>3, <2>1, <2>2, SubSeqFacts DEF SentInv
<1>8. CASE \/ \E w \in Workers : ServerTakes(w) \/ ServerSends(w) \/ ServerDestroys(w)
           \/ \E c \in Classes : FireEvent(c)
           \/ ClientReceives \/ (\E w \in Workers : ClientTakes(w)) \/ EventHandled
           \/ Disconnect \/ StopThreads \/ Restart
           \/ UNCHANGED vars
  BY <1>4, <1>8 DEF ServerTakes, ServerSends, ServerDestroys, FireEvent, ClientReceives,
                    ClientTakes, EventHandled, Disconnect, StopThreads, Restart
<1> QED BY <1>5, <1>6, <1>7, <1>8 DEF Next, ServerStep, Pipe

-----------------------------------------------------------------------------
\* About a class the client is done with nothing is sent.
LEMMA QuietStays ==
  ASSUME TypeOK, OwnInv, [Next]_vars, NEW c \in Classes, Over(c), ~About(toServer, c)
  PROVE  Over(c)' /\ ~About(toServer', c)
<1>1. Over(c)'
  BY OverStays
<1>2. ASSUME NEW t \in Threads, ThreadStep(t)
      PROVE  ~About(toServer', c)
  <2>1. ASSUME NEW m, Sends(m)
        PROVE  ~About(toServer', c)
    <3>1. m \in Messages /\ m.class # c /\ toServer' = Append(toServer, m)
      BY <2>1 DEF Sends
    <3> QED BY <3>1, AppendFacts DEF TypeOK
  <2> QED BY <1>2, <2>1, SendsOne
<1>3. CASE ServerReceives
  BY <1>1, <1>3, TailFacts DEF ServerReceives, TypeOK
<1>4. CASE Break
  <2>1. PICK n \in 0..Len(toServer) : toServer' = SubSeq(toServer, n + 1, Len(toServer))
    BY <1>4 DEF Break
  <2>2. toServer \in Seq(Messages)
    BY DEF TypeOK
  <2> QED BY <1>1, <2>1, <2>2, SubSeqFacts
<1>5. CASE \/ \E w \in Workers : ServerTakes(w) \/ ServerSends(w) \/ ServerDestroys(w)
           \/ \E d \in Classes : FireEvent(d)
           \/ ClientReceives \/ (\E w \in Workers : ClientTakes(w)) \/ EventHandled
           \/ Disconnect \/ StopThreads \/ Restart
           \/ UNCHANGED vars
  BY <1>1, <1>5 DEF ServerTakes, ServerSends, ServerDestroys, FireEvent, ClientReceives,
              ClientTakes, EventHandled, Disconnect, StopThreads, Restart
<1> QED BY <1>1, <1>2, <1>3, <1>4, <1>5 DEF Next, ServerStep, Pipe

\* What leaves the service's queues, hands and counts alone keeps its kills in order.
LEMMA KillSame ==
  ASSUME TypeOK, OwnInv, KillInv, [Next]_vars, UNCHANGED <<sInbox, sHand, sKills>>,
         sClasses \subseteq sClasses'
  PROVE  KillInv'
<1>1. \A c \in Classes, w \in Workers :
        /\ Killing(w, c)' <=> Killing(w, c)
        /\ Answering(w, c)' <=> Answering(w, c)
  BY DEF Killing, Answering
<1>2. \A c \in Classes : Dying(c)' <=> Dying(c)
  BY <1>1 DEF Dying, Killing
<1>3. Finished'
  BY <1>2, QuietStays DEF KillInv, Finished
<1>4. \A c \in Classes : Counted(c)'
  BY <1>1, Kinds DEF KillInv, Counted
<1>5. Known' /\ Passed' /\ OneAnswers'
  BY <1>1, <1>2, Kinds DEF KillInv, Known, Passed, OneAnswers
<1> QED BY <1>3, <1>4, <1>5 DEF KillInv

LEMMA KillReceives ==
  ASSUME TypeOK, OwnInv, SentInv, KillInv, ServerReceives
  PROVE  KillInv'
<1> DEFINE m == Head(toServer)
           k == m.class
<1>1. /\ m \in Messages /\ k \in Classes
      /\ toServer # <<>> /\ toServer' = Tail(toServer)
      /\ About(toServer, k) /\ Has(toServer, m.type, k)
      /\ m.type = "kill" => ~About(toServer', k)
  BY TailFacts, MessageFields DEF ServerReceives, SentInv, TypeOK
<1>2. ~Dying(k) /\ sKills[k] = 0 /\ \A w \in Workers : ~Killing(w, k)
  BY SMTT(60), <1>1, Kinds DEF KillInv, Finished, Dying, TypeOK
<1>3. UNCHANGED <<sHand, sKills>> /\ sClasses \subseteq sClasses' /\ [Next]_vars
  BY DEF ServerReceives, Next, ServerStep
<1>4. CASE m.type = "create" \/ k \notin sClasses
  <2>1. sInbox' = sInbox
    <3>1. CASE m.type = "create"
      BY <3>1 DEF ServerReceives
    <3>2. CASE m.type # "create" /\ k \notin sClasses
      BY <3>2 DEF ServerReceives, TypeOK
    <3> QED BY <1>4, <3>1, <3>2
  <2> QED BY <1>3, <2>1, KillSame
<1>5. CASE m.type # "create" /\ k \in sClasses
  <2>1. /\ sClasses' = sClasses
        /\ \A w \in Workers : sInbox'[w] = IF w = "call" \/ m.type = "kill"
                                             THEN Append(sInbox[w], m) ELSE sInbox[w]
    BY <1>5 DEF ServerReceives, ServiceHands
  <2> HIDE DEF m
  <2>2. ASSUME NEW w \in Workers
        PROVE  /\ KillsLast(sInbox'[w])
               /\ \A c : About(sInbox'[w], c) => About(sInbox[w], c) \/ c = k
               /\ \A c : Has(sInbox'[w], "kill", c)
                           <=> Has(sInbox[w], "kill", c) \/ (m.type = "kill" /\ c = k)
    <3>1. sInbox[w] \in Seq(Messages) /\ KillsLast(sInbox[w]) /\ ~Has(sInbox[w], "kill", k)
      BY <1>2 DEF TypeOK, KillInv, Killing
    <3> QED BY <1>1, <2>1, <3>1, AppendFacts
  <2>3. \A c \in Classes, w \in Workers :
          /\ Killing(w, c)' <=> Killing(w, c) \/ (m.type = "kill" /\ c = k)
          /\ Answering(w, c)' <=> Answering(w, c)
    BY <1>3, <2>2 DEF Killing, Answering
  <2>4. \A c \in Classes : Dying(c)' <=> Dying(c) \/ (m.type = "kill" /\ c = k)
    BY <1>3, <2>3, Kinds DEF Dying
  <2>5. Finished'
    <3>1. m.type = "kill" => Over(k) /\ ~About(toServer', k)
      BY <1>1 DEF SentInv
    <3>2. \A c \in Classes : Over(c) => Over(c)'
      BY <1>3, OverStays
    <3>3. \A c \in Classes : Dying(c) => Over(c)' /\ ~About(toServer', c)
      BY <1>3, QuietStays DEF KillInv, Finished
    <3> QED BY <1>1, <2>4, <3>1, <3>2, <3>3 DEF Finished
  <2>6. \A c \in Classes : Counted(c)'
    <3>1. \A c \in Classes : c # k => Counted(c)'
      BY <1>3, <2>3, Kinds DEF KillInv, Counted
    <3>2. Counted(k)
      BY <1>1 DEF KillInv
    <3>3. ASSUME NEW c \in Classes, c = k
          PROVE  Counted(c)'
      BY <1>2, <1>3, <2>3, <3>3, Kinds DEF Counted
    <3> QED BY <3>1, <3>3
  <2>7. Known'
    BY <1>3, <1>5, <2>1, <2>2 DEF KillInv, Known
  <2>8. Passed'
    BY <1>2, <1>3, <2>2, <2>3, <2>4 DEF KillInv, Passed
  <2>9. OneAnswers'
    BY <1>3, <2>3, Kinds DEF KillInv, OneAnswers
  <2> QED BY <2>2, <2>5, <2>6, <2>7, <2>8, <2>9 DEF KillInv
<1> QED BY <1>4, <1>5

LEMMA KillTakes ==
  ASSUME TypeOK, OwnInv, KillInv, NEW w \in Workers, ServerTakes(w)
  PROVE  KillInv'
<1> DEFINE m == Head(sInbox[w])
           k == m.class
<1>1. /\ m \in Messages /\ k \in Classes /\ m.id \in Nat
      /\ sInbox[w] \in Seq(Messages) /\ sInbox[w] # <<>>
      /\ sHand[w].do = "nothing"
  BY TailFacts, MessageFields DEF ServerTakes, TypeOK
<1>2. /\ About(sInbox[w], k) /\ Has(sInbox[w], m.type, k) /\ KillsLast(Tail(sInbox[w]))
      /\ m.type = "kill" => ~About(Tail(sInbox[w]), k)
      /\ \A c : About(Tail(sInbox[w]), c) => About(sInbox[w], c)
      /\ \A c : Has(Tail(sInbox[w]), "kill", c) => Has(sInbox[w], "kill", c)
      /\ \A c : Has(sInbox[w], "kill", c) =>
                  Has(Tail(sInbox[w]), "kill", c) \/ (m.type = "kill" /\ k = c)
  BY <1>1, TailFacts DEF KillInv
<1>3. ~Has(Tail(sInbox[w]), "kill", k) \/ m.type # "kill"
  BY <1>2 DEF Has, About
<1>4. k \in sClasses /\ SAlive(k)
  BY <1>1, <1>2 DEF KillInv, Known, SAlive
<1>5. /\ UNCHANGED <<sClasses, toServer>> /\ [Next]_vars
      /\ \A v \in Workers : sInbox'[v] = IF v = w THEN Tail(sInbox[w]) ELSE sInbox[v]
  BY DEF ServerTakes, Next, ServerStep, TypeOK
<1>6. \/ m.type = "kill" /\ ServerKill(w, k)
      \/ m.type # "kill" /\ ServerExecute(w, k, m.id)
  BY <1>4 DEF ServerTakes
<1>7. sHand[w].class \notin Classes
  BY <1>1 DEF OwnInv
<1> HIDE DEF m
<1>8. \A v \in Workers : /\ KillsLast(sInbox'[v])
                         /\ \A c : About(sInbox'[v], c) => About(sInbox[v], c)
  BY <1>2, <1>5 DEF KillInv
<1>9. \A c \in Classes, v \in Workers :
        Killing(v, c)' <=> Killing(v, c) /\ ~(m.type = "kill" /\ v = w /\ c = k)
  BY <1>2, <1>3, <1>5 DEF Killing
<1>10. \A c \in Classes : Dying(c) => Over(c)' /\ ~About(toServer', c)
  BY <1>5, QuietStays DEF KillInv, Finished
<1>11. CASE m.type = "kill" /\ ServerKill(w, k)
  <2>1. Killing(w, k) /\ Dying(k) /\ ~About(sInbox'[w], k)
    BY <1>1, <1>2, <1>5, <1>11 DEF Killing, Dying
  <2>2. /\ sKills'[k] = sKills[k] + 1 /\ \A c \in Classes : c # k => sKills'[c] = sKills[c]
        /\ sKills[k] = 0 \/ sKills[k] = 1
    <3>1. sKills' = [sKills EXCEPT ![k] = sKills[k] + 1] /\ sKills \in [Classes -> Nat]
      BY <1>11 DEF ServerKill, TypeOK
    <3>2. sKills[k] = 0 \/ sKills[k] = 1
      BY <1>1, <2>1, Kinds DEF KillInv, Counted
    <3> QED BY <1>1, <3>1, <3>2
  <2>3. ~Answering("call", k) /\ ~Answering("event", k)
    BY <1>1, <2>2, Kinds DEF KillInv, OneAnswers
  <2>4. \A c \in Classes : Dying(c)' => Dying(c)
    BY <1>1, <1>9, <2>1, <2>2 DEF Dying
  <2>5. \A c \in Classes : Counted(c)'
    <3>1. \A c \in Classes : c # k => Counted(c)'
      BY <1>9, <2>2, Kinds DEF KillInv, Counted
    <3>2. ASSUME NEW c \in Classes, c = k
          PROVE  Counted(c)'
      BY <1>9, <1>11, <2>1, <2>2, <3>2, Kinds DEF KillInv, Counted
    <3> QED BY <3>1, <3>2
  <2>6. CASE sKills[k] = 0
    <3>1. UNCHANGED sHand
      BY <1>11, <2>6 DEF ServerKill, SecondKill
    <3>2. \A c \in Classes, v \in Workers : Answering(v, c)' <=> Answering(v, c)
      BY <3>1 DEF Answering
    <3>3. OneAnswers'
      BY <2>2, <2>3, <3>2, Kinds DEF KillInv, OneAnswers
    <3>4. Passed'
      BY <1>7, <1>8, <1>9, <2>1, <2>4, <3>1, <3>2 DEF KillInv, Passed
    <3>5. Known'
      BY <1>5, <1>8, <3>1 DEF KillInv, Known
    <3> QED BY <1>8, <1>10, <2>4, <2>5, <3>3, <3>4, <3>5 DEF KillInv, Finished
  <2>7. CASE sKills[k] = 1
    <3>1. \A v \in Workers : sHand'[v] = IF v = w THEN [do |-> "complete", class |-> k, id |-> 0]
                                                  ELSE sHand[v]
      BY <1>11, <2>7 DEF ServerKill, SecondKill, TypeOK
    <3>2. \A c \in Classes, v \in Workers :
            Answering(v, c)' <=> (v = w /\ c = k) \/ Answering(v, c)
      BY <1>7, <3>1 DEF Answering
    <3>3. OneAnswers'
      BY <1>1, <1>7, <2>2, <2>3, <2>7, <3>2, Kinds DEF KillInv, OneAnswers, Answering
    <3>4. Passed'
      BY <1>7, <1>8, <1>9, <2>1, <2>4, <3>1, <3>2 DEF KillInv, Passed
    <3>5. Known'
      BY <1>4, <1>5, <1>8, <3>1 DEF KillInv, Known
    <3> QED BY <1>8, <1>10, <2>4, <2>5, <3>3, <3>4, <3>5 DEF KillInv, Finished
  <2> QED BY <2>2, <2>6, <2>7
<1>12. CASE m.type # "kill" /\ ServerExecute(w, k, m.id)
  <2>1. \A v \in Workers : sHand'[v] = IF v = w
                                         THEN [do |-> "return", class |-> k, id |-> m.id]
                                         ELSE sHand[v]
    BY <1>12 DEF ServerExecute, TypeOK
  <2>2. UNCHANGED sKills
    BY <1>12 DEF ServerExecute
  <2>3. \A c \in Classes, v \in Workers : Answering(v, c)' <=> Answering(v, c)
    BY <1>7, <2>1 DEF Answering
  <2>4. \A c \in Classes : Dying(c)' <=> Dying(c)
    BY <1>9, <1>12, <2>2 DEF Dying
  <2>5. OneAnswers'
    BY <2>2, <2>3, Kinds DEF KillInv, OneAnswers
  <2>6. \A c \in Classes : Counted(c)'
    BY <1>9, <1>12, <2>2, Kinds DEF KillInv, Counted
  <2>7. Passed'
    BY <1>2, <1>8, <1>9, <1>12, <2>1, <2>3, <2>4 DEF KillInv, Passed
  <2>8. Known'
    BY <1>4, <1>5, <1>8, <2>1 DEF KillInv, Known
  <2> QED BY <1>8, <1>10, <2>4, <2>5, <2>6, <2>7, <2>8 DEF KillInv, Finished
<1> QED BY <1>6, <1>11, <1>12

LEMMA SendsFacts ==
  ASSUME TypeOK, OwnInv, KillInv, NEW w \in Workers, ServerSends(w)
  PROVE  /\ sHand[w] \in Hands /\ sHand[w].class \in Classes /\ sHand[w].id \in Nat
         /\ sHand[w].do \in {"return", "complete"}
         /\ toClient' = Append(toClient, Msg(IF sHand[w].do = "complete" THEN "killed"
                                                                         ELSE "return",
                                             sHand[w].class, sHand[w].id))
         /\ \A v \in Workers : sHand'[v] = IF v = w THEN AfterSending(sHand[w]) ELSE sHand[v]
<1>1. /\ sHand[w] \in Hands /\ sHand[w].class \in Classes /\ sHand[w].id \in Nat
      /\ sHand[w].do \in {"return", "complete"}
  BY DEF TypeOK, OwnInv, ServerSends, Hands
<1>2. sHand[w].class \in sClasses
  BY <1>1 DEF KillInv, Known
<1> QED BY <1>1, <1>2 DEF ServerSends, TypeOK

LEMMA KillSends ==
  ASSUME TypeOK, OwnInv, KillInv, NEW w \in Workers, ServerSends(w)
  PROVE  KillInv'
<1>1. /\ sHand[w] \in Hands
      /\ \A v \in Workers : sHand'[v] = IF v = w THEN AfterSending(sHand[w]) ELSE sHand[v]
      /\ sHand[w].do \in {"return", "complete"}
  BY SendsFacts
<1>2. UNCHANGED <<sInbox, sKills, sClasses, toServer>> /\ [Next]_vars
  BY DEF ServerSends, Next, ServerStep
<1>3. \A c \in Classes, v \in Workers :
        /\ Killing(v, c)' <=> Killing(v, c)
        /\ Answering(v, c)' <=> Answering(v, c)
        /\ sHand'[v].class = c => sHand[v].class = c
  BY <1>1, <1>2, AfterSendingIs, Kinds DEF Killing, Answering
<1>4. \A c \in Classes : Dying(c)' <=> Dying(c)
  BY <1>2 DEF Dying, Killing
<1>5. Finished'
  BY <1>2, <1>4, QuietStays DEF KillInv, Finished
<1>6. \A c \in Classes : Counted(c)'
  BY <1>2, <1>3, Kinds DEF KillInv, Counted
<1>7. Known' /\ Passed' /\ OneAnswers'
  BY <1>2, <1>3, <1>4, Kinds DEF KillInv, Known, Passed, OneAnswers
<1> QED BY <1>2, <1>5, <1>6, <1>7 DEF KillInv

LEMMA KillDestroys ==
  ASSUME TypeOK, OwnInv, KillInv, NEW w \in Workers, ServerDestroys(w)
  PROVE  KillInv'
<1> DEFINE k == sHand[w].class
<1>1. k \in Classes /\ Answering(w, k)
  BY DEF OwnInv, ServerDestroys, Answering
<1>2. sKills[k] = 2 /\ Dying(k) /\ \A v \in Workers : ~Killing(v, k)
  BY <1>1, Kinds DEF KillInv, OneAnswers, Counted, Dying
<1>3. \A v \in Workers : v # w => sHand[v].class # k
  BY <1>1, <1>2, Kinds DEF KillInv, OneAnswers, Passed
<1>4. \A v \in Workers : ~About(sInbox[v], k)
  BY <1>1, <1>2 DEF KillInv, Passed
<1>5. /\ UNCHANGED <<sInbox, sKills, toServer>> /\ [Next]_vars
      /\ sClasses' = sClasses \ {k}
      /\ \A v \in Workers : sHand'[v] = IF v = w THEN Idle ELSE sHand[v]
  BY DEF ServerDestroys, Next, ServerStep, TypeOK
<1> HIDE DEF k
<1>6. \A c \in Classes, v \in Workers :
        /\ Killing(v, c)' <=> Killing(v, c)
        /\ Answering(v, c)' => Answering(v, c)
        /\ sHand'[v].class = c => v # w /\ sHand'[v] = sHand[v]
  BY <1>5, Kinds DEF Killing, Answering, Idle
<1>7. \A c \in Classes : Dying(c)' <=> Dying(c)
  BY <1>5 DEF Dying, Killing
<1>8. Finished'
  BY <1>5, <1>7, QuietStays DEF KillInv, Finished
<1>9. \A c \in Classes : Counted(c)'
  BY <1>5, <1>6, Kinds DEF KillInv, Counted
<1>10. Known'
  BY <1>3, <1>4, <1>5, <1>6 DEF KillInv, Known
<1>11. Passed'
  BY <1>5, <1>6, <1>7 DEF KillInv, Passed, Answering
<1>12. OneAnswers'
  BY <1>5, <1>6, Kinds DEF KillInv, OneAnswers
<1> QED BY <1>5, <1>8, <1>9, <1>10, <1>11, <1>12 DEF KillInv

LEMMA KillNext ==
  ASSUME TypeOK, OwnInv, SentInv, KillInv, [Next]_vars
  PROVE  KillInv'
<1>1. CASE Break
  <2>1. \A w \in Workers : sInbox'[w] = <<>> /\ sHand'[w] = Idle
    BY <1>1 DEF Break
  <2>2. \A c \in Classes : sKills'[c] = 0
    BY <1>1 DEF Break
  <2>3. \A c \in Classes, w \in Workers :
          ~Killing(w, c)' /\ ~Answering(w, c)' /\ sHand'[w].class # c /\ ~Dying(c)'
    BY <2>1, <2>2, Kinds, EmptyFacts DEF Killing, Answering, Dying, Idle
  <2>4. Finished'
    BY <2>1, <2>2, EmptyFacts DEF Finished, Dying, Killing
  <2> QED BY <2>1, <2>2, <2>3, <2>4, Kinds, EmptyFacts
          DEF KillInv, Known, Passed, OneAnswers, Counted
<1>2. CASE \/ \E t \in Threads : ThreadStep(t)
           \/ \E c \in Classes : FireEvent(c)
           \/ ClientReceives \/ (\E w \in Workers : ClientTakes(w)) \/ EventHandled
           \/ Disconnect \/ StopThreads \/ Restart
           \/ UNCHANGED vars
  <2>1. UNCHANGED <<sInbox, sHand, sKills, sClasses>>
    BY <1>2 DEF ThreadStep, CreateClass, ClassCreated, CreateTimesOut, CallFunction, CallReturns,
                CallTimesOut, Destroy, SendKill, KillAnswered, DestroyClass, FireEvent,
                ClientReceives, ClientTakes, EventHandled, Disconnect, StopThreads, Restart
  <2> QED BY <2>1, KillSame
<1> QED BY <1>1, <1>2, KillReceives, KillTakes, KillSends, KillDestroys
        DEF Next, ServerStep, Pipe

-----------------------------------------------------------------------------
\* What a step must leave alone for the client not to be told again.
LEMMA ToldKept ==
  ASSUME TypeOK, OwnInv, ToldInv, [Next]_vars, UNCHANGED kills,
         KilledsOnce(toClient'), \A w \in Workers : KilledsOnce(inbox'[w]),
         \A c \in Classes : Has(toClient', "killed", c) =>
           Has(toClient, "killed", c) /\ (sKills[c] = 2 => sKills'[c] = 2),
         \A c \in Classes, w \in Workers :
           Has(inbox'[w], "killed", c) => Has(inbox[w], "killed", c),
         \A c \in Classes :
           (Has(toClient, "killed", c) \/ Told(c)) /\ Silent(c) => Silent(c)',
         \A c \in Classes :
           Told(c) /\ (sKills[c] = 2 \/ c \notin sClasses) => sKills'[c] = 2 \/ c \notin sClasses'
  PROVE  ToldInv'
<1>1. \A c \in Classes : Told(c)' => Told(c)
  BY DEF Told
<1>2. \A c \in Classes : Has(toClient', "killed", c) =>
                           sKills'[c] = 2 /\ Silent(c)' /\ ~Told(c)'
  BY <1>1 DEF ToldInv
<1>3. \A c \in Classes : Told(c)' => Over(c)' /\ ~About(toServer', c)
  BY <1>1, QuietStays DEF ToldInv
<1>4. \A c \in Classes : Told(c)' => Silent(c)' /\ (sKills'[c] = 2 \/ c \notin sClasses')
  BY <1>1 DEF ToldInv
<1>5. \A c \in Classes : kills'[c] + Left("call", c)' + Left("event", c)' <= 2
  <2> TAKE c \in Classes
  <2>1. kills'[c] = kills[c] /\ kills[c] \in Nat
    BY DEF TypeOK
  <2>2. kills[c] + Left("call", c) + Left("event", c) <= 2
    BY DEF ToldInv
  <2>3. \A w \in Workers : /\ Left(w, c)' = 0 \/ Left(w, c)' = Left(w, c)
                           /\ Left(w, c) = 0 \/ Left(w, c) = 1
    BY DEF Left
  <2> HIDE DEF Left
  <2> QED BY <2>1, <2>2, <2>3, Kinds
<1> QED BY <1>2, <1>3, <1>4, <1>5 DEF ToldInv

\* The threads of the client, and those of the service but for their answers.
LEMMA ToldThread ==
  ASSUME TypeOK, OwnInv, KillInv, ToldInv, NEW t \in Threads, ThreadStep(t)
  PROVE  ToldInv'
<1>1. UNCHANGED <<inbox, kills, toClient, sHand, sKills, sClasses>>
  BY DEF ThreadStep, CreateClass, ClassCreated, CreateTimesOut, CallFunction, CallReturns,
         CallTimesOut, Destroy, SendKill, KillAnswered, DestroyClass
<1>2. [Next]_vars
  BY DEF Next
<1>3. \A c \in Classes : Silent(c)' <=> Silent(c)
  BY <1>1 DEF Silent
<1> QED BY <1>1, <1>2, <1>3, ToldKept DEF ToldInv

LEMMA ToldReceives ==
  ASSUME TypeOK, OwnInv, ToldInv, ServerReceives
  PROVE  ToldInv'
<1> DEFINE m == Head(toServer)
<1>1. /\ m \in Messages /\ m.class \in Classes /\ m.id \in Nat /\ About(toServer, m.class)
      /\ toClient \in Seq(Messages)
  BY TailFacts, MessageFields DEF ServerReceives, TypeOK
<1>2. /\ UNCHANGED <<inbox, kills, sHand, sKills>> /\ [Next]_vars
      /\ \/ UNCHANGED <<toClient, sClasses>>
         \/ /\ toClient' = Append(toClient, Msg("created", m.class, m.id))
            /\ sClasses' = sClasses \union {m.class}
  BY DEF ServerReceives, Next, ServerStep
<1> HIDE DEF m
<1>3. /\ KilledsOnce(toClient')
      /\ \A c \in Classes : Has(toClient', "killed", c) => Has(toClient, "killed", c)
  <2>1. CASE UNCHANGED toClient
    BY <2>1 DEF ToldInv
  <2>2. CASE toClient' = Append(toClient, Msg("created", m.class, m.id))
    BY <1>1, <2>2, MsgTyped, AppendFacts DEF ToldInv
  <2> QED BY <1>2, <2>1, <2>2
<1>4. \A c \in Classes : Told(c) /\ c \notin sClasses => c \notin sClasses'
  BY <1>1, <1>2 DEF ToldInv
<1>5. \A c \in Classes : Silent(c)' <=> Silent(c)
  BY <1>2 DEF Silent
<1> QED BY <1>2, <1>3, <1>4, <1>5, ToldKept DEF ToldInv

LEMMA ToldTakes ==
  ASSUME TypeOK, OwnInv, KillInv, ToldInv, NEW w \in Workers, ServerTakes(w)
  PROVE  ToldInv'
<1> DEFINE m == Head(sInbox[w])
           k == m.class
<1>1. /\ m \in Messages /\ k \in Classes
      /\ Has(sInbox[w], m.type, k) /\ About(sInbox[w], k)
  BY TailFacts, MessageFields DEF ServerTakes, TypeOK
<1>2. k \in sClasses /\ SAlive(k)
  BY <1>1 DEF KillInv, Known, SAlive
<1>3. /\ UNCHANGED <<inbox, kills, toClient, sClasses>> /\ [Next]_vars
  BY DEF ServerTakes, Next, ServerStep
<1>4. \/ m.type = "kill" /\ ServerKill(w, k)
      \/ m.type # "kill" /\ ServerExecute(w, k, m.id)
  BY <1>2 DEF ServerTakes
<1> HIDE DEF m
<1>5. CASE m.type = "kill" /\ ServerKill(w, k)
  <2>1. sKills[k] # 2
    BY <1>1, <1>5, Kinds DEF KillInv, Counted, Killing
  <2>2. ~Told(k) /\ ~Has(toClient, "killed", k)
    BY <1>1, <1>2, <2>1 DEF ToldInv
  <2>3. \A c \in Classes : c # k => sKills'[c] = sKills[c]
    BY <1>1, <1>5 DEF ServerKill, TypeOK
  <2>4. \A c \in Classes : c # k => (Silent(c) => Silent(c)')
    BY <1>5 DEF ServerKill, Silent, TypeOK
  <2> QED BY <1>3, <2>2, <2>3, <2>4, ToldKept DEF ToldInv
<1>6. CASE ServerExecute(w, k, m.id)
  <2>1. \A c \in Classes : Silent(c) => Silent(c)'
    BY <1>6 DEF ServerExecute, Silent, TypeOK
  <2>2. UNCHANGED sKills
    BY <1>6 DEF ServerExecute
  <2> QED BY <1>3, <2>1, <2>2, ToldKept DEF ToldInv
<1> QED BY <1>4, <1>5, <1>6

\* The answer to a kill: nobody is left who could send another.
LEMMA ToldSends ==
  ASSUME TypeOK, OwnInv, KillInv, ToldInv, NEW w \in Workers, ServerSends(w)
  PROVE  ToldInv'
<1> DEFINE h == sHand[w]
           k == h.class
<1>1. /\ h \in Hands /\ k \in Classes /\ h.id \in Nat /\ h.do \in {"return", "complete"}
      /\ \A v \in Workers : sHand'[v] = IF v = w THEN AfterSending(h) ELSE sHand[v]
      /\ toClient' = Append(toClient, Msg(IF h.do = "complete" THEN "killed" ELSE "return",
                                          k, h.id))
      /\ toClient \in Seq(Messages)
  BY SendsFacts DEF TypeOK
<1>2. UNCHANGED <<inbox, kills, sInbox, sKills, sClasses, toServer>> /\ [Next]_vars
  BY DEF ServerSends, Next, ServerStep
<1> HIDE DEF h
<1>3. \A c \in Classes : Silent(c) => Silent(c)'
  BY <1>1, AfterSendingIs, Kinds DEF Silent
<1>4. CASE h.do = "return"
  <2>1. /\ KilledsOnce(toClient')
        /\ \A c \in Classes : Has(toClient', "killed", c) => Has(toClient, "killed", c)
    BY <1>1, <1>4, MsgTyped, AppendFacts DEF ToldInv
  <2> QED BY <1>2, <1>3, <2>1, ToldKept DEF ToldInv
<1>5. CASE h.do = "complete"
  <2>1. Answering(w, k) /\ ~Silent(k)
    BY <1>5 DEF Answering, Silent, h
  <2>2. sKills[k] = 2 /\ k \in sClasses /\ \A v \in Workers : Answering(v, k) => v = w
    BY <1>1, <2>1, Kinds DEF KillInv, Known, OneAnswers, h
  <2>3. ~Has(toClient, "killed", k) /\ ~Told(k)
    BY <1>1, <2>1 DEF ToldInv
  <2>4. \A c \in Classes : c = k => Silent(c)'
    BY <1>1, <1>5, <2>2, AfterSendingIs, Kinds DEF Silent, Answering
  <2>5. /\ KilledsOnce(toClient')
        /\ \A c \in Classes : Has(toClient', "killed", c) => Has(toClient, "killed", c) \/ c = k
    <3>1. toClient' = Append(toClient, Msg("killed", k, h.id))
      BY <1>1, <1>5
    <3>2. /\ Msg("killed", k, h.id) \in Messages
          /\ Msg("killed", k, h.id).class = k
      BY <1>1, MsgTyped
    <3>3. KilledsOnce(toClient)
      BY DEF ToldInv
    <3> HIDE DEF k
    <3> QED BY <1>1, <2>3, <3>1, <3>2, <3>3, AppendFacts
  <2>6. \A c \in Classes : Told(c)' <=> Told(c)
    BY <1>2 DEF Told
  <2>7. \A c \in Classes : Has(toClient', "killed", c) =>
                             sKills'[c] = 2 /\ Silent(c)' /\ ~Told(c)'
    <3> TAKE c \in Classes
    <3>1. CASE c = k
      BY <1>2, <2>2, <2>3, <2>4, <2>6, <3>1
    <3>2. CASE Has(toClient, "killed", c)
      BY <1>2, <1>3, <2>6, <3>2 DEF ToldInv
    <3> QED BY <2>5, <3>1, <3>2
  <2>8. \A c \in Classes : Told(c)' => Over(c)' /\ ~About(toServer', c)
    BY <1>2, <2>6, QuietStays DEF ToldInv
  <2> QED BY <1>2, <1>3, <2>5, <2>6, <2>7, <2>8 DEF ToldInv, Left
<1> QED BY <1>1, <1>4, <1>5

\* The client receives it, in both threads ...
LEMMA ToldClientReceives ==
  ASSUME TypeOK, OwnInv, KillInv, ToldInv, ClientReceives
  PROVE  ToldInv'
<1> DEFINE m == Head(toClient)
           k == m.class
<1>1. /\ m \in Messages /\ k \in Classes /\ Has(toClient, m.type, k)
      /\ toClient' = Tail(toClient)
      /\ KilledsOnce(toClient')
      /\ \A c : Has(toClient', "killed", c) => Has(toClient, "killed", c)
      /\ m.type = "killed" => ~Has(toClient', "killed", k)
  BY TailFacts, MessageFields DEF ClientReceives, TypeOK, ToldInv
<1>2. /\ UNCHANGED <<kills, sHand, sKills, sClasses, toServer>> /\ [Next]_vars
      /\ \/ UNCHANGED inbox
         \/ /\ m.type \in {"event", "killed"}
            /\ inbox' = [w \in Workers |->
                   IF k \in classes /\ (m.type = "killed" \/ w = "event")
                     THEN Append(inbox[w], m)
                     ELSE inbox[w]]
  BY DEF ClientReceives, Next
<1>3. \A w \in Workers : inbox[w] \in Seq(Messages)
  BY DEF TypeOK
<1> HIDE DEF m
<1>4. \A c \in Classes : Silent(c)' <=> Silent(c)
  BY <1>2 DEF Silent
<1>5. \A w \in Workers : inbox'[w] = inbox[w] \/ inbox'[w] = Append(inbox[w], m)
  BY <1>2
<1>6. CASE UNCHANGED inbox \/ m.type # "killed"
  <2>1. \A w \in Workers :
          /\ KilledsOnce(inbox'[w])
          /\ \A c : Has(inbox'[w], "killed", c) => Has(inbox[w], "killed", c)
    <3> TAKE w \in Workers
    <3>1. KilledsOnce(inbox[w])
      BY DEF ToldInv
    <3>2. CASE inbox'[w] = inbox[w]
      BY <3>1, <3>2
    <3>3. CASE inbox'[w] = Append(inbox[w], m) /\ m.type # "killed"
      BY <1>1, <1>3, <3>1, <3>3, AppendFacts
    <3> QED BY <1>5, <1>6, <3>2, <3>3
  <2> QED BY <1>1, <1>2, <1>4, <2>1, ToldKept DEF ToldInv
<1>7. CASE m.type = "killed"
  <2>1. sKills[k] = 2 /\ Silent(k) /\ ~Told(k)
    BY <1>1, <1>7 DEF ToldInv
  <2>2. \A w \in Workers : ~Has(inbox[w], "killed", k)
    BY <2>1 DEF Told
  <2>3. kills[k] = 0
    BY <1>1, <2>1 DEF Told, TypeOK
  <2>4. \A w \in Workers :
          /\ KilledsOnce(inbox'[w])
          /\ \A c : Has(inbox'[w], "killed", c) => Has(inbox[w], "killed", c) \/ c = k
    <3> TAKE w \in Workers
    <3>1. KilledsOnce(inbox[w])
      BY DEF ToldInv
    <3>2. CASE inbox'[w] = inbox[w]
      BY <3>1, <3>2
    <3>3. CASE inbox'[w] = Append(inbox[w], m)
      BY <1>1, <1>3, <2>2, <3>1, <3>3, AppendFacts
    <3> QED BY <1>5, <3>2, <3>3
  <2>5. \A c \in Classes : c # k => (Told(c)' => Told(c))
    BY <1>2, <2>4 DEF Told
  <2>6. \A c \in Classes : Has(toClient', "killed", c) =>
                             sKills'[c] = 2 /\ Silent(c)' /\ ~Told(c)'
    BY <1>1, <1>2, <1>4, <1>7, <2>5 DEF ToldInv
  <2>7. Over(k) /\ ~About(toServer, k)
    BY <1>1, <2>1 DEF KillInv, Finished, Dying
  <2>8. \A c \in Classes : Told(c)' => Over(c)' /\ ~About(toServer', c)
    BY <1>2, <2>5, <2>7, QuietStays DEF ToldInv
  <2>9. \A c \in Classes : Told(c)' => Silent(c)' /\ (sKills'[c] = 2 \/ c \notin sClasses')
    BY <1>2, <1>4, <2>1, <2>5 DEF ToldInv
  <2>10. \A c \in Classes : kills'[c] + Left("call", c)' + Left("event", c)' <= 2
    <3> TAKE c \in Classes
    <3>1. kills'[c] = kills[c] /\ kills[c] \in Nat
      BY <1>2 DEF TypeOK
    <3>2. kills[c] + Left("call", c) + Left("event", c) <= 2
      BY DEF ToldInv
    <3>3. \A w \in Workers : /\ Left(w, c)' = 0 \/ Left(w, c)' = 1
                             /\ Left(w, c) = 0 \/ Left(w, c) = 1
                             /\ c # k => Left(w, c)' = 0 \/ Left(w, c)' = Left(w, c)
      BY <2>4 DEF Left
    <3> HIDE DEF Left
    <3> QED BY <2>3, <3>1, <3>2, <3>3, Kinds
  <2> QED BY <1>1, <2>4, <2>6, <2>8, <2>9, <2>10 DEF ToldInv
<1> QED BY <1>2, <1>6, <1>7

\* ... which count it, each once.
LEMMA ToldClientTakes ==
  ASSUME TypeOK, OwnInv, ToldInv, NEW w \in Workers, ClientTakes(w)
  PROVE  ToldInv'
<1> DEFINE m == Head(inbox[w])
           k == m.class
<1>1. /\ m \in Messages /\ k \in Classes /\ Has(inbox[w], m.type, k)
      /\ KilledsOnce(Tail(inbox[w]))
      /\ \A c : Has(Tail(inbox[w]), "killed", c) => Has(inbox[w], "killed", c)
      /\ m.type = "killed" => ~Has(Tail(inbox[w]), "killed", k)
  BY TailFacts, MessageFields DEF ClientTakes, TypeOK, ToldInv
<1>2. /\ UNCHANGED <<toClient, sHand, sKills, sClasses, toServer>> /\ [Next]_vars
      /\ \A v \in Workers : inbox'[v] = IF v = w THEN Tail(inbox[w]) ELSE inbox[v]
      /\ \/ UNCHANGED kills
         \/ m.type = "killed" /\ kills' = [kills EXCEPT ![k] = @ + 1]
  BY DEF ClientTakes, Next, TypeOK
<1> HIDE DEF m
<1>3. \A c \in Classes : Silent(c)' <=> Silent(c)
  BY <1>2 DEF Silent
<1>4. \A v \in Workers :
        /\ KilledsOnce(inbox'[v])
        /\ \A c : Has(inbox'[v], "killed", c) => Has(inbox[v], "killed", c)
  BY <1>1, <1>2 DEF ToldInv
<1>5. CASE UNCHANGED kills
  BY <1>2, <1>3, <1>4, <1>5, ToldKept DEF ToldInv
<1>6. CASE m.type = "killed" /\ kills' = [kills EXCEPT ![k] = @ + 1]
  <2>1. Told(k)
    BY <1>1, <1>6 DEF Told
  <2>2. /\ kills'[k] = kills[k] + 1 /\ kills[k] \in Nat
        /\ \A c \in Classes : c # k => kills'[c] = kills[c]
    BY <1>1, <1>6 DEF TypeOK
  <2>3. \A c \in Classes : Told(c)' => Told(c)
    BY <1>4, <2>1, <2>2 DEF Told
  <2>4. \A c \in Classes : Told(c)' => Over(c)' /\ ~About(toServer', c)
    BY <1>2, <2>3, QuietStays DEF ToldInv
  <2>5. \A c \in Classes : kills'[c] + Left("call", c)' + Left("event", c)' <= 2
    <3> TAKE c \in Classes
    <3>1. kills[c] \in Nat
      BY DEF TypeOK
    <3>2. kills[c] + Left("call", c) + Left("event", c) <= 2
      BY DEF ToldInv
    <3>3. \A v \in Workers : /\ Left(v, c)' = 0 \/ Left(v, c)' = Left(v, c)
                             /\ Left(v, c) = 0 \/ Left(v, c) = 1
      BY <1>4 DEF Left
    <3>4. c = k => Left(w, c) = 1 /\ Left(w, c)' = 0
      <4>1. Has(inbox[w], "killed", k) /\ ~Has(inbox'[w], "killed", k)
        BY <1>1, <1>2, <1>6
      <4> QED BY <4>1 DEF Left
    <3> HIDE DEF Left
    <3>5. CASE c = k
      <4>1. kills'[c] = kills[c] + 1 /\ Left(w, c) = 1 /\ Left(w, c)' = 0
        BY <2>2, <3>4, <3>5
      <4>2. w = "call" \/ w = "event"
        BY Kinds
      <4> QED BY <3>1, <3>2, <3>3, <4>1, <4>2, Kinds
    <3>6. CASE c # k
      BY <2>2, <3>1, <3>2, <3>3, <3>6, Kinds
    <3> QED BY <3>5, <3>6
  <2> QED BY <1>2, <1>3, <1>4, <2>3, <2>4, <2>5 DEF ToldInv
<1> QED BY <1>2, <1>5, <1>6

LEMMA ToldNext ==
  ASSUME TypeOK, OwnInv, KillInv, ToldInv, [Next]_vars
  PROVE  ToldInv'
<1>1. CASE Break
  <2>1. /\ UNCHANGED <<inbox, kills>>
        /\ toClient' = <<>> /\ sClasses' = {}
        /\ \A w \in Workers : sHand'[w] = Idle
    BY <1>1 DEF Break
  <2>2. \A c \in Classes : Silent(c)'
    BY <2>1, Kinds DEF Silent, Idle
  <2> QED BY <2>1, <2>2, EmptyFacts, ToldKept DEF ToldInv
<1>2. CASE Restart
  <2>1. /\ UNCHANGED <<kills, toClient, sHand, sKills, sClasses>>
        /\ \A w \in Workers : inbox'[w] = <<>>
    BY <1>2 DEF Restart
  <2>2. \A c \in Classes : Silent(c)' <=> Silent(c)
    BY <2>1 DEF Silent
  <2> QED BY <2>1, <2>2, EmptyFacts, ToldKept DEF ToldInv
<1>3. CASE EventHandled \/ Disconnect \/ StopThreads \/ UNCHANGED vars
  <2>1. UNCHANGED <<inbox, kills, toClient, sHand, sKills, sClasses>>
    BY <1>3 DEF EventHandled, Disconnect, StopThreads
  <2>2. \A c \in Classes : Silent(c)' <=> Silent(c)
    BY <2>1 DEF Silent
  <2> QED BY <2>1, <2>2, ToldKept DEF ToldInv
<1>4. ASSUME NEW c \in Classes, FireEvent(c)
      PROVE  ToldInv'
  <2>1. UNCHANGED <<inbox, kills, sHand, sKills, sClasses>>
    BY <1>4 DEF FireEvent
  <2>2. /\ Msg("event", c, 0) \in Messages /\ Msg("event", c, 0).type = "event"
        /\ toClient \in Seq(Messages) /\ toClient' = Append(toClient, Msg("event", c, 0))
    BY <1>4, MsgTyped DEF FireEvent, TypeOK
  <2>3. /\ KilledsOnce(toClient')
        /\ \A d \in Classes : Has(toClient', "killed", d) => Has(toClient, "killed", d)
    BY <2>2, AppendFacts DEF ToldInv
  <2>4. \A d \in Classes : Silent(d)' <=> Silent(d)
    BY <2>1 DEF Silent
  <2> QED BY <2>1, <2>3, <2>4, ToldKept DEF ToldInv
<1>5. ASSUME NEW w \in Workers, ServerDestroys(w)
      PROVE  ToldInv'
  <2>1. /\ UNCHANGED <<inbox, kills, toClient, sKills>>
        /\ sClasses' \subseteq sClasses
        /\ \A v \in Workers : sHand'[v] = Idle \/ sHand'[v] = sHand[v]
    BY <1>5 DEF ServerDestroys, TypeOK
  <2>2. \A c \in Classes : Silent(c) => Silent(c)'
    BY <2>1, Kinds DEF Silent, Idle
  <2> QED BY <2>1, <2>2, ToldKept DEF ToldInv
<1> QED BY <1>1, <1>2, <1>3, <1>4, <1>5, ToldThread, ToldReceives, ToldTakes, ToldSends,
           ToldClientReceives, ToldClientTakes
        DEF Next, ServerStep, Pipe

-----------------------------------------------------------------------------
\* A thread of the service that answers finds the class still listed.
LEMMA LiveNext ==
  ASSUME TypeOK, OwnInv, KillInv, ServiceThreadsLive, [Next]_vars
  PROVE  ServiceThreadsLive'
<1>1. ASSUME NEW w \in Workers, ServerSends(w)
      PROVE  ServiceThreadsLive'
  <2>1. /\ sHand[w] \in Hands
        /\ \A v \in Workers : sHand'[v] = IF v = w THEN AfterSending(sHand[w]) ELSE sHand[v]
    BY <1>1, SendsFacts
  <2>2. AfterSending(sHand[w]).do \in {"destroy", "nothing"}
    BY <2>1, AfterSendingIs
  <2> QED BY <2>1, <2>2 DEF ServiceThreadsLive
<1>2. ASSUME NEW w \in Workers, ServerTakes(w)
      PROVE  ServiceThreadsLive'
  <2>1. \/ UNCHANGED sHand
        \/ ServerKill(w, Head(sInbox[w]).class)
        \/ ServerExecute(w, Head(sInbox[w]).class, Head(sInbox[w]).id)
    BY <1>2 DEF ServerTakes
  <2>2. CASE UNCHANGED sHand
    BY <2>2 DEF ServiceThreadsLive
  <2>3. ASSUME NEW k, ServerKill(w, k)
        PROVE  ServiceThreadsLive'
    <3>1. CASE sHand' = [sHand EXCEPT ![w] = [do |-> "complete", class |-> k, id |-> 0]]
      BY <3>1 DEF ServiceThreadsLive, TypeOK
    <3> QED BY <2>2, <2>3, <3>1 DEF ServerKill
  <2>4. ASSUME NEW k, NEW n, ServerExecute(w, k, n)
        PROVE  ServiceThreadsLive'
    <3>1. sHand' = [sHand EXCEPT ![w] = [do |-> "return", class |-> k, id |-> n]]
      BY <2>4 DEF ServerExecute
    <3> QED BY <3>1 DEF ServiceThreadsLive, TypeOK
  <2> QED BY <2>1, <2>2, <2>3, <2>4
<1>3. ASSUME NEW w \in Workers, ServerDestroys(w)
      PROVE  ServiceThreadsLive'
  BY <1>3 DEF ServerDestroys, Idle, ServiceThreadsLive, TypeOK
<1>4. CASE Break
  BY <1>4 DEF Break, Idle, ServiceThreadsLive
<1>5. CASE \/ \E t \in Threads : ThreadStep(t)
           \/ ServerReceives
           \/ \E c \in Classes : FireEvent(c)
           \/ ClientReceives \/ (\E w \in Workers : ClientTakes(w)) \/ EventHandled
           \/ Disconnect \/ StopThreads \/ Restart
           \/ UNCHANGED vars
  <2>1. UNCHANGED sHand
    BY <1>5 DEF ThreadStep, CreateClass, ClassCreated, CreateTimesOut, CallFunction, CallReturns,
                CallTimesOut, Destroy, SendKill, KillAnswered, DestroyClass, ServerReceives,
                FireEvent, ClientReceives, ClientTakes, EventHandled, Disconnect, StopThreads,
                Restart
  <2> QED BY <2>1 DEF ServiceThreadsLive
<1> QED BY <1>1, <1>2, <1>3, <1>4, <1>5 DEF Next, ServerStep, Pipe

LEMMA InvNext == IInv /\ [Next]_vars => IInv'
<1> SUFFICES ASSUME IInv, [Next]_vars
             PROVE  IInv'
  OBVIOUS
<1>1. TypeOK /\ AnswerInv /\ OwnInv /\ SentInv /\ KillInv /\ ToldInv /\ ServiceThreadsLive
  BY DEF IInv
<1>2. SentInv' /\ KillInv' /\ ToldInv' /\ ServiceThreadsLive'
  BY <1>1, SentNext, KillNext, ToldNext, LiveNext
<1>3. CASE UNCHANGED vars
  BY <1>1, <1>2, <1>3 DEF IInv, TypeOK, AnswerInv, OwnInv
<1>4. CASE \E t \in Threads : ThreadStep(t)
  BY <1>1, <1>2, <1>4, TypeThread, AnswerThread, OwnThread DEF IInv
<1>5. CASE ServerStep
  BY <1>1, <1>2, <1>5, TypeServer, AnswerServer, OwnRest DEF IInv
<1>6. CASE ClientReceives \/ (\E w \in Workers : ClientTakes(w)) \/ EventHandled \/ Pipe
  BY <1>1, <1>2, <1>6, TypeClientReceives, TypeClientTakes, TypeClient, AnswerClient, OwnRest
     DEF IInv
<1> QED BY <1>3, <1>4, <1>5, <1>6 DEF Next

(* Everything IInv says holds in every state the two processes can reach:   *)
(* the variables keep their types, answers are to calls the service ran,    *)
(* tasks have classes of their own, and what is left of a kill in the       *)
(* queues agrees with what has been counted of it.                          *)
THEOREM Invariance == Spec => []IInv
BY InitInv, InvNext, PTL DEF Spec

(* The state keeps the types TypeOK gives it.                               *)
THEOREM TypeCorrect == Spec => []TypeOK
<1>1. IInv => TypeOK
  BY DEF IInv
<1> QED BY <1>1, Invariance, PTL

(* AnswerIsMine, however many threads call however many classes: the call   *)
(* whose answer a caller finds is one the service has run.                  *)
THEOREM AnswersAreMine == Spec => []AnswerIsMine
<1>1. IInv => AnswerIsMine
  BY DEF IInv, AnswerInv, AnswerIsMine
<1> QED BY <1>1, Invariance, PTL

(* KilledOnce: neither side counts the kill of a class more than twice,     *)
(* whatever the order in which their threads come to it and however often   *)
(* the service dies in between.                                             *)
THEOREM KilledAtMostOnce == Spec => []KilledOnce
<1>1. IInv => KilledOnce
  <2> SUFFICES ASSUME IInv, NEW c \in Classes
               PROVE  kills[c] <= 2 /\ sKills[c] <= 2
    BY DEF KilledOnce
  <2>1. sKills[c] <= 2
    BY DEF IInv, KillInv, Counted
  <2>2. kills[c] \in Nat /\ kills[c] + Left("call", c) + Left("event", c) <= 2
    BY DEF IInv, TypeOK, ToldInv
  <2>3. \A w \in Workers : Left(w, c) = 0 \/ Left(w, c) = 1
    BY DEF Left
  <2> HIDE DEF Left
  <2> QED BY <2>1, <2>2, <2>3, Kinds
<1> QED BY <1>1, Invariance, PTL

(* ServiceThreadsLive: no thread of the service ends because it has an      *)
(* answer for a class that is gone.                                         *)
THEOREM ServiceLives == Spec => []ServiceThreadsLive
<1>1. IInv => ServiceThreadsLive
  BY DEF IInv
<1> QED BY <1>1, Invariance, PTL

-----------------------------------------------------------------------------
\* The second invariant: what is under way about a class, and on which lists it is.

\* Nothing is left of a service that has died.
DownInv ==
  /\ disconnected => link # "up"
  /\ link # "up" => /\ sClasses = {} /\ toClient = <<>>
                    /\ \A w \in Workers : sInbox[w] = <<>> /\ sHand[w] = Idle
                    /\ \A c \in Classes : task[c] # "running"

Elements(s) == {s[i] : i \in 1..Len(s)}

\* A class is asked for once, before the service or a list knows it, and nothing
\* else is said of it before.
AloneCreates(s) ==
  \A i, j \in 1..Len(s) : i # j /\ s[i].type = "create" => s[j].class # s[i].class
Unborn(c) ==
  /\ c \notin sClasses /\ fired[c] = 0
  /\ ~Has(toClient, "created", c)
  /\ \A t \in Threads : mine[t] = c => place[t] = "creating" /\ lock[t].result # "answer"
Numbered(c) ==
  (c \in sClasses \/ fired[c] > 0 \/ Has(toClient, "created", c)) => c <= lastClass

CreateInv ==
  /\ \A c \in Classes : Numbered(c)
  /\ AloneCreates(toServer)
  /\ \A c \in Classes : Has(toServer, "create", c) => Unborn(c)

\* The answer a task waits for is the one for its own class.
Fits(m) ==
  /\ m.id <= lastLock[Manager]
  /\ \A t \in Threads : place[t] = "creating" /\ lock[t].id = m.id => mine[t] = m.class

MatchInv ==
  /\ \A t \in Threads : lock[t].owner = Manager => lock[t].id <= lastLock[Manager]
  /\ \A t \in Threads : place[t] = "creating" => lock[t].owner = Manager
  /\ \A m \in Elements(toServer) : m.type = "create" => Fits(m)
  /\ \A m \in Elements(toClient) : m.type = "created" => Fits(m)

\* A class on the client's list is some task's, and one the service knows, unless
\* it has died since or the task is done with the class.
Settled(c) == c \in sClasses \/ madeBy[c] # breaks
Leaving(c) == \E t \in Threads : mine[t] = c /\ place[t] \in {"killing", "leave"}
Answered(t) == lock[t].result = "answer" \/ Has(toClient, "created", mine[t])

ListInv ==
  /\ \A c \in Classes : madeBy[c] <= breaks
  /\ \A c \in classes : \E t \in Threads : mine[t] = c /\ place[t] # "creating"
  /\ \A c \in classes : Settled(c) \/ Leaving(c)
  /\ \A t \in Threads : place[t] = "creating" /\ Answered(t) => Settled(mine[t])

\* Something about a class is under way that has to find it on the client's list.
AnswersFirst(s) ==
  \A i, j \in 1..Len(s) :
    i < j /\ s[i].type = "killed" /\ s[j].type = "return" => s[j].class # s[i].class
Asked(c) ==
  \/ c \in sClasses /\ About(toServer, c)
  \/ \E w \in Workers : About(sInbox[w], c) \/ (sHand[w].class = c /\ sHand[w].do # "destroy")
Replied(c) ==
  \/ Has(toClient, "return", c) \/ Has(toClient, "killed", c)
  \/ \E w \in Workers : Has(inbox[w], "killed", c)
Noisy(c) ==
  /\ ~Told(c)
  /\ \/ task[c] = "running" \/ Has(toClient, "event", c)
     \/ link = "up" /\ Has(inbox["event"], "event", c)
Wanted(c) == Asked(c) \/ Replied(c) \/ Noisy(c)

WantedInv ==
  /\ AnswersFirst(toClient)
  /\ \A c \in Classes : Told(c) => ~Has(toClient, "return", c)
  /\ \A c \in Classes : killed[c] => kills[c] = 2
  /\ \A c \in Classes : Wanted(c) => c \in classes
  /\ \A t \in Threads : place[t] = "leave" => ~Wanted(mine[t])

\* The events of a class ahead of its last message, and those the client has run or
\* is about to.
Ahead(s, c) ==
  {i \in 1..Len(s) : /\ s[i].type = "event" /\ s[i].class = c
                     /\ \A j \in 1..i : ~(s[j].type = "killed" /\ s[j].class = c)}
Events(s, c) == Cardinality(Ahead(s, c))
Runs(c) == IF running = c THEN 1 ELSE 0
Coming(c) == handled[c] + Runs(c) + Events(inbox["event"], c)

\* What is known of them depends on how far the news of a kill has got.
Flow(c) ==
  /\ c \in sClasses /\ ~Told(c) /\ ~Has(toClient, "killed", c) =>
       fired[c] <= Coming(c) + Events(toClient, c)
  /\ Has(toClient, "killed", c) => promised[c] <= Coming(c) + Events(toClient, c)
  /\ Has(inbox["event"], "killed", c) => promised[c] <= Coming(c)
  /\ Has(inbox["call"], "killed", c) /\ ~Has(inbox["event"], "killed", c) =>
       promised[c] <= handled[c]
  /\ killed[c] => promised[c] <= handled[c]
  /\ ~Has(inbox["call"], "event", c)

FlowInv == \A c \in Classes : Flow(c)

LifeInv ==
  /\ DownInv
  /\ CreateInv
  /\ MatchInv
  /\ ListInv
  /\ WantedInv
  /\ FlowInv

-----------------------------------------------------------------------------
\* Queues again: what they hold, and in which order.
LEMMA AppendOrder ==
  ASSUME NEW s \in Seq(Messages), NEW m \in Messages
  PROVE  /\ Elements(Append(s, m)) = Elements(s) \union {m}
         /\ /\ AloneCreates(s) /\ ~Has(s, "create", m.class)
            /\ m.type = "create" => ~About(s, m.class)
            => AloneCreates(Append(s, m))
         /\ AnswersFirst(s) /\ ~(m.type = "return" /\ Has(s, "killed", m.class))
              => AnswersFirst(Append(s, m))
<1> DEFINE t == Append(s, m)
<1>1. /\ Len(t) = Len(s) + 1
      /\ \A i \in 1..Len(s) : t[i] = s[i]
      /\ t[Len(s) + 1] = m
      /\ Len(s) \in Nat
  BY AppendProperties, LenProperties
<1> HIDE DEF t
<1>2. \A i \in 1..Len(t) : (i \in 1..Len(s) /\ t[i] = s[i]) \/ (i = Len(s) + 1 /\ t[i] = m)
  BY <1>1
<1>3. \A i \in 1..Len(s) : i \in 1..Len(t)
  BY <1>1
<1>4. Len(s) + 1 \in 1..Len(t)
  BY <1>1
<1>5. Elements(t) = Elements(s) \union {m}
  BY <1>1, <1>2, <1>3, <1>4 DEF Elements
<1>6. ASSUME AloneCreates(s), ~Has(s, "create", m.class), m.type = "create" => ~About(s, m.class)
      PROVE  AloneCreates(t)
  <2> SUFFICES ASSUME NEW i \in 1..Len(t), NEW j \in 1..Len(t), i # j, t[i].type = "create"
               PROVE  t[j].class # t[i].class
    BY DEF AloneCreates
  <2>1. CASE i \in 1..Len(s) /\ j \in 1..Len(s)
    BY <1>1, <1>6, <2>1 DEF AloneCreates
  <2>2. CASE i \in 1..Len(s) /\ t[j] = m
    BY <1>1, <1>6, <2>2 DEF Has
  <2>3. CASE t[i] = m /\ j \in 1..Len(s)
    BY <1>1, <1>6, <2>3 DEF About
  <2> QED BY <1>2, <2>1, <2>2, <2>3
<1>7. ASSUME AnswersFirst(s), ~(m.type = "return" /\ Has(s, "killed", m.class))
      PROVE  AnswersFirst(t)
  <2> SUFFICES ASSUME NEW i \in 1..Len(t), NEW j \in 1..Len(t), i < j,
                      t[i].type = "killed", t[j].type = "return"
               PROVE  t[j].class # t[i].class
    BY DEF AnswersFirst
  <2>1. i \in 1..Len(s) /\ t[i] = s[i]
    BY <1>1
  <2>2. CASE j \in 1..Len(s)
    BY <1>1, <1>7, <2>1, <2>2 DEF AnswersFirst
  <2>3. CASE t[j] = m
    BY <1>7, <2>1, <2>3 DEF Has
  <2> QED BY <1>2, <2>2, <2>3
<1> QED BY <1>5, <1>6, <1>7 DEF t

LEMMA TailOrder ==
  ASSUME NEW s \in Seq(Messages), s # <<>>
  PROVE  LET m == Head(s)
             r == Tail(s) IN
         /\ m \in Elements(s) /\ Elements(r) \subseteq Elements(s)
         /\ AloneCreates(s) => AloneCreates(r)
         /\ AloneCreates(s) /\ m.type = "create" => ~About(r, m.class)
         /\ AnswersFirst(s) => AnswersFirst(r)
         /\ AnswersFirst(s) /\ m.type = "killed" => ~Has(r, "return", m.class)
<1> DEFINE m == Head(s)
           r == Tail(s)
<1>1. /\ Len(r) = Len(s) - 1
      /\ \A i \in 1..Len(r) : r[i] = s[i + 1]
      /\ Len(s) \in Nat /\ Len(s) >= 1
      /\ m = s[1]
  BY HeadTailProperties, LenProperties, EmptySeq
<1> HIDE DEF m, r
<1>2. \A i \in 1..Len(r) : i + 1 \in 1..Len(s) /\ 1 < i + 1 /\ r[i] = s[i + 1]
  BY <1>1
<1>3. 1 \in 1..Len(s)
  BY <1>1
<1>4. \A i, j \in 1..Len(r) : (i < j => i + 1 < j + 1) /\ (i # j => i + 1 # j + 1)
  BY <1>1
<1>5. m \in Elements(s) /\ Elements(r) \subseteq Elements(s)
  BY <1>1, <1>2, <1>3 DEF Elements
<1>6. AloneCreates(s) => AloneCreates(r)
  BY <1>2, <1>4 DEF AloneCreates
<1>7. AloneCreates(s) /\ m.type = "create" => ~About(r, m.class)
  BY <1>1, <1>2, <1>3 DEF AloneCreates, About
<1>8. AnswersFirst(s) => AnswersFirst(r)
  BY <1>2, <1>4 DEF AnswersFirst
<1>9. AnswersFirst(s) /\ m.type = "killed" => ~Has(r, "return", m.class)
  BY <1>1, <1>2, <1>3 DEF AnswersFirst, Has
<1> QED BY <1>5, <1>6, <1>7, <1>8, <1>9 DEF m, r

LEMMA SubSeqOrder ==
  ASSUME NEW s \in Seq(Messages), NEW n \in 0..Len(s)
  PROVE  LET r == SubSeq(s, n + 1, Len(s)) IN
         /\ Elements(r) \subseteq Elements(s)
         /\ AloneCreates(s) => AloneCreates(r)
<1> DEFINE r == SubSeq(s, n + 1, Len(s))
<1>1. Len(s) \in Nat /\ n \in Nat /\ n <= Len(s)
  BY LenProperties
<1>2. \A i \in (n + 1)..Len(s) : s[i] \in Messages
  BY <1>1, ElementOfSeq
<1>3. Len(r) = Len(s) - n /\ \A i \in 1..Len(r) : r[i] = s[i + n]
  BY <1>1, <1>2, SubSeqProperties
<1> HIDE DEF r
<1>4. \A i \in 1..Len(r) : i + n \in 1..Len(s) /\ r[i] = s[i + n]
  BY <1>1, <1>3
<1>5. \A i, j \in 1..Len(r) : i # j => i + n # j + n
  BY <1>1, <1>3
<1>6. Elements(r) \subseteq Elements(s)
  BY <1>4 DEF Elements
<1>7. AloneCreates(s) => AloneCreates(r)
  BY <1>4, <1>5 DEF AloneCreates
<1> QED BY <1>6, <1>7 DEF r

LEMMA EmptyOrder ==
  Elements(<<>>) = {} /\ AloneCreates(<<>>) /\ AnswersFirst(<<>>)
BY EmptySeq DEF Elements, AloneCreates, AnswersFirst

-----------------------------------------------------------------------------
\* When the service has died its classes, queues and hands are gone.
LEMMA DownNext ==
  ASSUME TypeOK, DownInv, [Next]_vars
  PROVE  DownInv'
<1>1. ASSUME UNCHANGED <<sClasses, toClient, sInbox, sHand, task>>,
             disconnected' => link' # "up", link' # "up" => link # "up"
      PROVE  DownInv'
  BY <1>1 DEF DownInv
<1>2. CASE \/ \E t \in Threads : ThreadStep(t)
           \/ (\E w \in Workers : ClientTakes(w)) \/ EventHandled
           \/ Disconnect \/ StopThreads \/ Restart
           \/ UNCHANGED vars
  <2>1. UNCHANGED <<sClasses, toClient, sInbox, sHand, task>>
    BY <1>2 DEF ThreadStep, CreateClass, ClassCreated, CreateTimesOut, CallFunction, CallReturns,
                CallTimesOut, Destroy, SendKill, KillAnswered, DestroyClass, ClientTakes,
                EventHandled, Disconnect, StopThreads, Restart
  <2>2. \/ UNCHANGED <<link, disconnected>>
        \/ link # "up" /\ link' # "up"
        \/ link' = "up" /\ disconnected' = FALSE
    BY <1>2 DEF ThreadStep, CreateClass, ClassCreated, CreateTimesOut, CallFunction, CallReturns,
                CallTimesOut, Destroy, SendKill, KillAnswered, DestroyClass, ClientTakes,
                EventHandled, Disconnect, StopThreads, Restart
  <2> QED BY <1>1, <2>1, <2>2 DEF DownInv
<1>3. CASE Break
  BY <1>3 DEF Break, DownInv
<1>4. CASE ServerStep \/ ClientReceives
  <2>1. UNCHANGED <<link, disconnected>>
    BY <1>4 DEF ServerStep, ServerReceives, ServerTakes, ServerSends, ServerDestroys, FireEvent,
                ClientReceives
  <2>2. ASSUME link # "up"
        PROVE  FALSE
    BY <1>4, <2>2 DEF DownInv, ServerStep, ServerReceives, ServerTakes, ServerSends,
                      ServerDestroys, FireEvent, ClientReceives, Idle
  <2> QED BY <2>1, <2>2 DEF DownInv
<1> QED BY <1>2, <1>3, <1>4 DEF Next, Pipe

-----------------------------------------------------------------------------
\* What the threads of the client do to their places, classes and locks.
ThreadMoves(t) ==
  /\ UNCHANGED <<sClasses, fired, toClient, sInbox, sHand, task, madeBy, breaks, inbox, kills,
                 killed, link, handled, running, promised, sKills>>
  /\ \A u \in Threads : u # t => /\ place'[u] = place[u] /\ mine'[u] = mine[u]
                                 /\ lock'[u] = lock[u]

LEMMA ThreadAlone ==
  ASSUME TypeOK, NEW t \in Threads, ThreadStep(t)
  PROVE  ThreadMoves(t)
<1>1. UNCHANGED <<sClasses, fired, toClient, sInbox, sHand, task, madeBy, breaks, inbox, kills,
                  killed, link, handled, running, promised, sKills>>
  BY DEF ThreadStep, CreateClass, ClassCreated, CreateTimesOut, CallFunction, CallReturns,
         CallTimesOut, Destroy, SendKill, KillAnswered, DestroyClass
<1>2. /\ place' = place \/ \E p : place' = [place EXCEPT ![t] = p]
      /\ mine' = mine \/ \E c : mine' = [mine EXCEPT ![t] = c]
      /\ lock' = lock \/ \E l : lock' = [lock EXCEPT ![t] = l]
  BY DEF ThreadStep, CreateClass, ClassCreated, CreateTimesOut, CallFunction, CallReturns,
         CallTimesOut, Destroy, SendKill, KillAnswered, DestroyClass, NewLock
<1>3. ASSUME NEW u \in Threads, u # t
      PROVE  place'[u] = place[u] /\ mine'[u] = mine[u] /\ lock'[u] = lock[u]
  BY <1>2, <1>3 DEF TypeOK
<1> QED BY <1>1, <1>3 DEF ThreadMoves

\* A task that asks for a class gets the next number for it, and a lock of its own.
Asks(t) ==
  LET c == lastClass + 1
      m == Msg("create", c, lastLock[Manager] + 1) IN
  /\ place[t] = "free" /\ mine[t] = Manager
  /\ c \in Classes /\ lastClass' = c
  /\ lastLock[Manager] + 1 \in Nat /\ lastLock'[Manager] = lastLock[Manager] + 1
  /\ UNCHANGED classes
  /\ \/ UNCHANGED <<place, mine, lock, toServer>>
     \/ /\ toServer' = Append(toServer, m) /\ m \in Messages
        /\ m.class = c /\ m.type = "create" /\ m.id = lastLock[Manager] + 1
        /\ place'[t] = "creating" /\ mine'[t] = c
        /\ lock'[t] = [owner |-> Manager, id |-> lastLock[Manager] + 1, result |-> "none"]

LEMMA CreateAsks ==
  ASSUME TypeOK, NEW t \in Threads, CreateClass(t)
  PROVE  Asks(t)
<1>1. lastClass + 1 \in Classes /\ lastClass' = lastClass + 1
  <2>1. lastClass \in 0..MaxClasses
    BY DEF TypeOK
  <2>2. lastClass' = lastClass + 1 /\ lastClass < MaxClasses
    BY DEF CreateClass
  <2> QED BY <2>1, <2>2, Kinds
<1>2. lastLock[Manager] \in Nat /\ lastLock[Manager] + 1 \in Nat
  BY DEF TypeOK
<1>3. lastLock'[Manager] = lastLock[Manager] + 1
  <2>1. lastLock' = [lastLock EXCEPT ![Manager] = lastLock[Manager] + 1]
    BY DEF CreateClass, NewLock
  <2> QED BY <2>1 DEF TypeOK
<1>4. CASE CanSend(Manager)
  <2>1. NewLock(t, Manager) /\ Goto(t, "creating")
    BY <1>4 DEF CreateClass
  <2>2. lock'[t] = [owner |-> Manager, id |-> lastLock[Manager] + 1, result |-> "none"]
    BY <1>3, <2>1, NewLockTyped
  <2>3. mine'[t] = lastClass + 1 /\ place'[t] = "creating"
    BY <1>1, <1>4 DEF CreateClass, TypeOK
  <2>4. toServer' = Append(toServer, Msg("create", lastClass + 1, lastLock[Manager] + 1))
    BY <1>1, <1>3, <1>4 DEF CreateClass
  <2> QED BY <1>1, <1>2, <1>3, <2>2, <2>3, <2>4, MsgTyped DEF Asks, CreateClass
<1>5. CASE ~CanSend(Manager)
  BY <1>1, <1>2, <1>3, <1>5 DEF Asks, CreateClass
<1> QED BY <1>4, <1>5

\* What a thread does otherwise: it says a thing about a class some task holds and
\* has on the client's list, or it says nothing.
Says(t) ==
  \/ UNCHANGED toServer
  \/ \E m \in Messages :
       /\ toServer' = Append(toServer, m) /\ m.type \in {"call", "kill"}
       /\ m.class \in classes /\ UNCHANGED classes
       /\ \E u \in Threads : mine[u] = m.class /\ place[u] \in {"free", "calling", "kill"}
       /\ mine'[t] = mine[t] /\ place'[t] \in {"calling", "killing"}

Goes(t) ==
  /\ lastClass' = lastClass /\ lastLock'[Manager] = lastLock[Manager]
  /\ Says(t)
  /\ \/ mine'[t] = mine[t] /\ (place[t] # "creating" \/ lock[t].result = "answer")
     \/ mine'[t] = Manager
  /\ place'[t] # "creating"
  /\ lock'[t].owner = Manager => lock'[t] = NoLock \/ lock'[t] = lock[t]

LEMMA OthersGo ==
  ASSUME TypeOK, OwnInv, NEW t \in Threads, ThreadStep(t)
  PROVE  CreateClass(t) \/ Goes(t)
<1>1. ASSUME NEW p \in Places, Goto(t, p), p # "creating",
             UNCHANGED <<toServer, lastClass, lastLock>>,
             lock'[t] = lock[t] \/ lock'[t] = NoLock,
             \/ UNCHANGED mine /\ (place[t] # "creating" \/ lock[t].result = "answer")
             \/ mine' = [mine EXCEPT ![t] = Manager]
      PROVE  Goes(t)
  BY <1>1, GotoTyped DEF Goes, Says, TypeOK
<1>2. ASSUME NEW c \in Classes, CallFunction(t, c)
      PROVE  Goes(t)
  <2>1. /\ lastLock'[Manager] = lastLock[Manager]
        /\ UNCHANGED <<lastClass, mine, classes>> /\ place[t] = "free"
    BY <1>2, Kinds DEF CallFunction, NewLock, TypeOK
  <2>2. CASE CanSend(c)
    <3>1. NewLock(t, c) /\ Goto(t, "calling")
      BY <1>2, <2>2 DEF CallFunction
    <3>2. place'[t] = "calling"
      BY <3>1, GotoTyped DEF Places
    <3>3. lock'[t].owner # Manager /\ lastLock'[c] \in Nat
      <4>1. /\ lock'[t] = [owner |-> c, id |-> lastLock'[c], result |-> "none"]
            /\ lastLock'[c] \in Nat
        BY <3>1, NewLockTyped
      <4>2. c # Manager
        BY Kinds
      <4> QED BY <4>1, <4>2
    <3>4. /\ Msg("call", c, lastLock'[c]) \in Messages
          /\ Msg("call", c, lastLock'[c]).type = "call"
          /\ Msg("call", c, lastLock'[c]).class = c
      BY <3>3, MsgTyped
    <3>5. toServer' = Append(toServer, Msg("call", c, lastLock'[c]))
      BY <1>2, <2>2 DEF CallFunction
    <3>6. \E u \in Threads : mine[u] = c /\ place[u] \in {"free", "calling", "kill"}
      BY <1>2 DEF CallFunction, Held
    <3>7. c \in classes
      BY <2>2, Kinds DEF CanSend
    <3>8. Says(t)
      BY <2>1, <3>2, <3>4, <3>5, <3>6, <3>7 DEF Says
    <3> QED BY <2>1, <3>2, <3>3, <3>8 DEF Goes
  <2>3. CASE ~CanSend(c)
    BY <1>2, <2>1, <2>3 DEF CallFunction, Goes, Says
  <2> QED BY <2>2, <2>3
<1>3. CASE SendKill(t)
  <2>1. /\ place[t] = "kill" /\ mine[t] \in Classes
        /\ UNCHANGED <<lastClass, mine, lock, lastLock, classes>>
    BY <1>3 DEF SendKill, MayKill, OwnInv
  <2>2. CASE CanSend(mine[t])
    <3>1. place'[t] = "killing"
      BY <1>3, <2>2, GotoTyped DEF SendKill, Waiting, Places
    <3>2. /\ Msg("kill", mine[t], 0) \in Messages
          /\ Msg("kill", mine[t], 0).type = "kill"
          /\ Msg("kill", mine[t], 0).class = mine[t]
      BY <2>1, MsgTyped
    <3>3. toServer' = Append(toServer, Msg("kill", mine[t], 0)) /\ mine[t] \in classes
      BY <1>3, <2>1, <2>2, Kinds DEF SendKill, CanSend
    <3>4. Says(t)
      BY <2>1, <3>1, <3>2, <3>3 DEF Says
    <3> QED BY <2>1, <3>1, <3>4 DEF Goes
  <2>3. CASE ~CanSend(mine[t])
    BY <1>1, <1>3, <2>1, <2>3 DEF SendKill, Places
  <2> QED BY <2>2, <2>3
<1>4. CASE ClassCreated(t) \/ CallReturns(t) \/ CallTimesOut(t)
  <2>1. lock'[t] = NoLock
    BY <1>4 DEF ClassCreated, CallReturns, CallTimesOut, TypeOK
  <2> QED BY <1>1, <1>4, <2>1 DEF ClassCreated, CallReturns, CallTimesOut, Places
<1>5. CASE CreateTimesOut(t)
  <2>1. lock'[t] = NoLock
    BY <1>5 DEF CreateTimesOut, TypeOK
  <2> QED BY <1>1, <1>5, <2>1 DEF CreateTimesOut, Places
<1>6. CASE Destroy(t) \/ KillAnswered(t) \/ DestroyClass(t)
  BY <1>1, <1>6 DEF Destroy, KillAnswered, DestroyClass, Places
<1> QED BY <1>2, <1>3, <1>4, <1>5, <1>6 DEF ThreadStep

-----------------------------------------------------------------------------
\* A class is asked for once, and first.
LEMMA CreateThread ==
  ASSUME TypeOK, OwnInv, SentInv, CreateInv, NEW t \in Threads, ThreadStep(t)
  PROVE  CreateInv'
<1>0. /\ ThreadMoves(t) /\ toServer \in Seq(Messages)
      /\ AloneCreates(toServer)
      /\ \A c \in Classes : Numbered(c)
      /\ \A c \in Classes : Has(toServer, "create", c) => Unborn(c)
      /\ lastClass \in Nat
  <2>1. ThreadMoves(t)
    BY ThreadAlone
  <2>2. toServer \in Seq(Messages) /\ lastClass \in Nat
    BY DEF TypeOK
  <2> QED BY <2>1, <2>2 DEF CreateInv
<1>1. CASE CreateClass(t)
  <2> DEFINE n == lastClass + 1
  <2>1. Asks(t) /\ n \in Classes
    BY <1>1, CreateAsks DEF Asks
  <2>2. \A c \in Classes : c <= lastClass => c <= n /\ c # n
    BY <1>0, Kinds
  <2>3. \A c \in Classes : Numbered(c)'
    BY <1>0, <2>1, <2>2 DEF Numbered, Asks, ThreadMoves
  <2>4. CASE UNCHANGED <<place, mine, lock, toServer>>
    BY <1>0, <2>3, <2>4 DEF CreateInv, Unborn, ThreadMoves
  <2>5. CASE ~UNCHANGED <<place, mine, lock, toServer>>
    <3>1. PICK m \in Messages : /\ toServer' = Append(toServer, m) /\ m.class = n
                                /\ m.type = "create" /\ place'[t] = "creating" /\ mine'[t] = n
                                /\ lock'[t].result = "none"
      BY <2>1, <2>5 DEF Asks
    <3>2. ~(n <= lastClass)
      BY <1>0
    <3>3. ~About(toServer, n) /\ ~Has(toServer, "create", n)
      <4>1. ~About(toServer, n)
        BY <2>1, <3>2 DEF SentInv
      <4> QED BY <4>1 DEF About, Has
    <3>4. \A u \in Threads : mine[u] # n
      BY <3>2 DEF OwnInv
    <3>5. fired[n] = 0 /\ n \notin sClasses /\ ~Has(toClient, "created", n)
      <4>1. Numbered(n) /\ fired[n] \in Nat
        BY <1>0, <2>1 DEF TypeOK
      <4> QED BY <3>2, <4>1 DEF Numbered
    <3> HIDE DEF n
    <3>6. AloneCreates(toServer')
      BY <1>0, <3>1, <3>3, AppendOrder
    <3>7. \A c : Has(toServer', "create", c) => Has(toServer, "create", c) \/ c = n
      BY <1>0, <3>1, AppendFacts
    <3>8. \A c \in Classes : c = n => Unborn(c)'
      BY <1>0, <3>1, <3>4, <3>5 DEF Unborn, ThreadMoves
    <3>9. \A c \in Classes : Has(toServer, "create", c) => Unborn(c)'
      <4> SUFFICES ASSUME NEW c \in Classes, Has(toServer, "create", c) PROVE Unborn(c)'
        OBVIOUS
      <4>1. c # n /\ Unborn(c)
        BY <1>0, <3>3
      <4> QED BY <1>0, <3>1, <4>1 DEF Unborn, ThreadMoves
    <3> QED BY <2>3, <3>6, <3>7, <3>8, <3>9 DEF CreateInv
  <2> QED BY <2>4, <2>5
<1>2. CASE Goes(t)
  <2>1. \A c \in Classes : Numbered(c)'
    BY <1>0, <1>2 DEF Numbered, Goes, ThreadMoves
  <2>2. AloneCreates(toServer') /\ \A c : Has(toServer', "create", c) => Has(toServer, "create", c)
    <3>1. CASE UNCHANGED toServer
      BY <1>0, <3>1
    <3>2. ASSUME NEW m \in Messages, toServer' = Append(toServer, m), m.type \in {"call", "kill"},
                 NEW u \in Threads, mine[u] = m.class, place[u] \in {"free", "calling", "kill"}
          PROVE  /\ AloneCreates(toServer')
                 /\ \A c : Has(toServer', "create", c) => Has(toServer, "create", c)
      <4>1. ~Has(toServer, "create", m.class)
        BY <1>0, <3>2, MessageFields DEF Unborn
      <4> QED BY <1>0, <3>2, <4>1, AppendFacts, AppendOrder
    <3> QED BY <1>2, <3>1, <3>2 DEF Goes, Says
  <2>3. ASSUME NEW c \in Classes, Has(toServer', "create", c)
        PROVE  Unborn(c)'
    <3>1. Unborn(c)
      BY <1>0, <2>2, <2>3
    <3>2. mine'[t] # c
      BY <1>2, <3>1, Kinds DEF Goes, Unborn
    <3> QED BY <1>0, <3>1, <3>2 DEF Unborn, ThreadMoves
  <2> QED BY <2>1, <2>2, <2>3 DEF CreateInv
<1> QED BY <1>1, <1>2, OthersGo

\* The other steps: they give no thread another place or class.
LEMMA CreateKept ==
  ASSUME CreateInv, UNCHANGED <<place, mine>>, AloneCreates(toServer'),
         \A c \in Classes : Numbered(c)',
         \A c \in Classes : Has(toServer', "create", c) =>
           /\ Has(toServer, "create", c) /\ c \notin sClasses' /\ fired'[c] = 0
           /\ ~Has(toClient', "created", c)
           /\ \A u \in Threads : place[u] = "creating" /\ mine[u] = c /\ lock'[u].result = "answer"
                                   => lock[u].result = "answer"
  PROVE  CreateInv'
<1>1. ASSUME NEW c \in Classes, Has(toServer', "create", c)
      PROVE  Unborn(c)'
  <2>1. Unborn(c)
    BY <1>1 DEF CreateInv
  <2> QED BY <1>1, <2>1 DEF Unborn
<1> QED BY <1>1 DEF CreateInv

LEMMA CreateReceives ==
  ASSUME TypeOK, SentInv, CreateInv, ServerReceives
  PROVE  CreateInv'
<1> DEFINE m == Head(toServer)
           k == m.class
<1>1. /\ m \in Messages /\ k \in Classes /\ m.id \in Nat
      /\ Has(toServer, m.type, k) /\ About(toServer, k)
      /\ toServer' = Tail(toServer)
      /\ \A c : Has(toServer', "create", c) => Has(toServer, "create", c)
  BY TailFacts, MessageFields DEF ServerReceives, TypeOK
<1>2. /\ AloneCreates(toServer')
      /\ m.type = "create" => ~About(toServer', k)
  BY TailOrder DEF ServerReceives, TypeOK, CreateInv
<1>3. /\ UNCHANGED <<place, mine, lock, fired, lastClass>>
      /\ \/ m.type = "create" /\ sClasses' = sClasses \union {k}
            /\ toClient' = Append(toClient, Msg("created", k, m.id))
         \/ UNCHANGED <<sClasses, toClient>>
  BY DEF ServerReceives
<1>4. k <= lastClass
  BY <1>1 DEF SentInv
<1> HIDE DEF m
<1>5. \A c \in Classes : Has(toServer, "create", c) => Unborn(c)
  BY DEF CreateInv
<1>6. \A c \in Classes : Numbered(c)
  BY DEF CreateInv
<1>7. CASE UNCHANGED <<sClasses, toClient>>
  <2>1. \A c \in Classes : Numbered(c)'
    BY <1>3, <1>6, <1>7 DEF Numbered
  <2> QED BY <1>1, <1>2, <1>3, <1>5, <1>7, <2>1, CreateKept DEF Unborn
<1>8. CASE /\ m.type = "create" /\ sClasses' = sClasses \union {k}
           /\ toClient' = Append(toClient, Msg("created", k, m.id))
  <2>1. \A c : Has(toClient', "created", c) <=> Has(toClient, "created", c) \/ c = k
    <3>1. /\ Msg("created", k, m.id) \in Messages
          /\ Msg("created", k, m.id).type = "created" /\ Msg("created", k, m.id).class = k
      BY <1>1, MsgTyped
    <3> QED BY <1>8, <3>1, AppendFacts DEF TypeOK
  <2>2. \A c \in Classes : Numbered(c)'
    BY <1>3, <1>4, <1>6, <1>8, <2>1 DEF Numbered
  <2>3. \A c : Has(toServer', "create", c) => c # k
    BY <1>2, <1>8 DEF Has, About
  <2> QED BY <1>1, <1>2, <1>3, <1>5, <1>8, <2>1, <2>2, <2>3, CreateKept DEF Unborn
<1> QED BY <1>3, <1>7, <1>8

\* Only the pipe thread of the service answers for a new class.
LEMMA NotCreated ==
  ASSUME TypeOK, OwnInv, KillInv,
         \/ \E w \in Workers : ServerTakes(w) \/ ServerSends(w) \/ ServerDestroys(w)
         \/ \E c \in Classes : FireEvent(c)
  PROVE  \A c : Has(toClient', "created", c) <=> Has(toClient, "created", c)
<1>1. CASE UNCHANGED toClient
  BY <1>1
<1>2. ASSUME NEW w \in Workers, ServerSends(w)
      PROVE  \A c : Has(toClient', "created", c) <=> Has(toClient, "created", c)
  <2> DEFINE type == IF sHand[w].do = "complete" THEN "killed" ELSE "return"
  <2>1. /\ Msg(type, sHand[w].class, sHand[w].id) \in Messages
        /\ Msg(type, sHand[w].class, sHand[w].id).type # "created"
    BY <1>2, SendsFacts, MsgTyped
  <2>2. toClient' = Append(toClient, Msg(type, sHand[w].class, sHand[w].id))
    BY <1>2, SendsFacts
  <2> HIDE DEF type
  <2> QED BY <2>1, <2>2, AppendFacts DEF TypeOK
<1>3. ASSUME NEW c \in Classes, FireEvent(c)
      PROVE  \A d : Has(toClient', "created", d) <=> Has(toClient, "created", d)
  <2>1. Msg("event", c, 0) \in Messages /\ Msg("event", c, 0).type = "event"
    BY MsgTyped
  <2>2. toClient' = Append(toClient, Msg("event", c, 0)) /\ toClient \in Seq(Messages)
    BY <1>3 DEF FireEvent, TypeOK
  <2> QED BY <2>1, <2>2, AppendFacts
<1> QED BY <1>1, <1>2, <1>3 DEF ServerTakes, ServerDestroys

LEMMA CreateServer ==
  ASSUME TypeOK, OwnInv, KillInv, CreateInv,
         \/ \E w \in Workers : ServerTakes(w) \/ ServerSends(w) \/ ServerDestroys(w)
         \/ \E c \in Classes : FireEvent(c)
  PROVE  CreateInv'
<1>1. UNCHANGED <<place, mine, lock, lastClass, toServer>> /\ sClasses' \subseteq sClasses
  BY DEF ServerTakes, ServerSends, ServerDestroys, FireEvent
<1>2. /\ AloneCreates(toServer)
      /\ \A c \in Classes : Has(toServer, "create", c) => Unborn(c)
      /\ \A c \in Classes : Numbered(c)
  BY DEF CreateInv
<1>3. \A c : Has(toClient', "created", c) <=> Has(toClient, "created", c)
  BY NotCreated
<1>4. \A c \in Classes : fired'[c] = fired[c] \/ c \in sClasses
  BY DEF ServerTakes, ServerSends, ServerDestroys, FireEvent, TypeOK
<1>5. \A c \in Classes : Numbered(c)'
  BY <1>1, <1>2, <1>3, <1>4 DEF Numbered
<1> QED BY <1>1, <1>2, <1>3, <1>4, <1>5, CreateKept DEF Unborn

\* A task is answered for its own class.
LEMMA AnswerComes ==
  ASSUME TypeOK, MatchInv, ClientReceives,
         NEW u \in Threads, place[u] = "creating", lock'[u].result = "answer"
  PROVE  Answered(u)
<1> DEFINE m == Head(toClient)
<1>1. /\ m \in Messages /\ m.class \in Classes /\ Has(toClient, m.type, m.class)
      /\ m \in Elements(toClient)
  BY TailFacts, TailOrder, MessageFields DEF ClientReceives, TypeOK
<1>2. \/ UNCHANGED lock
      \/ m.type = "created" /\ Trigger(Manager, m.id, "answer")
      \/ m.type = "return" /\ Trigger(m.class, m.id, "answer")
  BY DEF ClientReceives
<1> HIDE DEF m
<1>3. lock[u].owner = Manager
  BY DEF MatchInv
<1>4. CASE UNCHANGED lock
  BY <1>4 DEF Answered
<1>5. CASE m.type = "created" /\ Trigger(Manager, m.id, "answer")
  <2>1. CASE lock[u].id = m.id
    BY <1>1, <1>5, <2>1 DEF MatchInv, Fits, Answered
  <2>2. CASE lock[u].id # m.id
    BY <1>5, <2>2 DEF Trigger, IsLock, Answered
  <2> QED BY <2>1, <2>2
<1>6. CASE m.type = "return" /\ Trigger(m.class, m.id, "answer")
  BY <1>1, <1>3, <1>6, Kinds DEF Trigger, IsLock, Answered
<1> QED BY <1>2, <1>4, <1>5, <1>6

\* The answer to it comes to the task that asked.
LEMMA CreateClient ==
  ASSUME TypeOK, CreateInv, MatchInv, ClientReceives
  PROVE  CreateInv'
<1> DEFINE m == Head(toClient)
<1>1. /\ m \in Messages /\ m.class \in Classes /\ Has(toClient, m.type, m.class)
      /\ m \in Elements(toClient) /\ toClient' = Tail(toClient)
      /\ \A c : Has(toClient', "created", c) => Has(toClient, "created", c)
  BY TailFacts, TailOrder, MessageFields DEF ClientReceives, TypeOK
<1>2. UNCHANGED <<place, mine, toServer, lastClass, fired, sClasses>>
  BY DEF ClientReceives
<1> HIDE DEF m
<1>4. ASSUME NEW u \in Threads, place[u] = "creating", lock'[u].result = "answer"
      PROVE  Answered(u)
  BY <1>4, AnswerComes
<1>5. /\ AloneCreates(toServer)
      /\ \A c \in Classes : Has(toServer, "create", c) => Unborn(c)
      /\ \A c \in Classes : Numbered(c)
  BY DEF CreateInv
<1>6. \A c \in Classes : Numbered(c)'
  BY <1>1, <1>2, <1>5 DEF Numbered
<1>7. ASSUME NEW c \in Classes, Has(toServer, "create", c), NEW u \in Threads,
             place[u] = "creating", mine[u] = c, lock'[u].result = "answer"
      PROVE  lock[u].result = "answer"
  BY <1>4, <1>5, <1>7 DEF Unborn, Answered
<1> QED BY <1>1, <1>2, <1>5, <1>6, <1>7, CreateKept DEF Unborn

LEMMA CreateRest ==
  ASSUME TypeOK, CreateInv,
         \/ (\E w \in Workers : ClientTakes(w)) \/ EventHandled \/ Pipe \/ UNCHANGED vars
  PROVE  CreateInv'
<1>1. /\ AloneCreates(toServer)
      /\ \A c \in Classes : Has(toServer, "create", c) => Unborn(c)
      /\ \A c \in Classes : Numbered(c)
  BY DEF CreateInv
<1>2. UNCHANGED <<place, mine, lastClass, fired>>
  BY DEF ClientTakes, EventHandled, Pipe, Break, Disconnect, StopThreads, Restart
<1>3. CASE Break
  <2>1. PICK n \in 0..Len(toServer) : toServer' = SubSeq(toServer, n + 1, Len(toServer))
    BY <1>3 DEF Break
  <2>2. toServer \in Seq(Messages)
    BY DEF TypeOK
  <2>3. /\ AloneCreates(toServer')
        /\ \A c : Has(toServer', "create", c) => Has(toServer, "create", c)
    BY <1>1, <2>1, <2>2, SubSeqFacts, SubSeqOrder
  <2>4. sClasses' = {} /\ \A c : ~Has(toClient', "created", c)
    BY <1>3, EmptyFacts DEF Break
  <2>5. \A u \in Threads : lock'[u].result = "answer" => lock[u].result = "answer"
    BY <1>3 DEF Break, TypeOK, Locks
  <2>6. \A c \in Classes : Numbered(c)'
    BY <1>1, <1>2, <2>4 DEF Numbered
  <2> QED BY <1>1, <1>2, <2>3, <2>4, <2>5, <2>6, CreateKept DEF Unborn
<1>4. CASE ~Break
  <2>1. UNCHANGED <<toServer, toClient, sClasses, lock>>
    BY <1>4 DEF ClientTakes, EventHandled, Pipe, Disconnect, StopThreads, Restart
  <2> QED BY <1>1, <1>2, <2>1 DEF CreateInv, Unborn, Numbered
<1> QED BY <1>3, <1>4

LEMMA CreateNext ==
  ASSUME TypeOK, OwnInv, SentInv, KillInv, CreateInv, MatchInv, [Next]_vars
  PROVE  CreateInv'
BY CreateThread, CreateReceives, CreateServer, CreateClient, CreateRest DEF Next, ServerStep

-----------------------------------------------------------------------------
\* Which lock an answer for a new class is for.
LEMMA MatchThread ==
  ASSUME TypeOK, OwnInv, MatchInv, NEW t \in Threads, ThreadStep(t)
  PROVE  MatchInv'
<1>0. /\ ThreadMoves(t) /\ toServer \in Seq(Messages) /\ lastLock[Manager] \in Nat
      /\ \A u \in Threads : lock[u].id \in Nat
      /\ \A m \in Messages : m.id \in Nat
      /\ Elements(toServer) \subseteq Messages /\ Elements(toClient) \subseteq Messages
  <2>1. \A s \in Seq(Messages) : Elements(s) \subseteq Messages
    BY ElementOfSeq DEF Elements
  <2> QED BY <2>1, ThreadAlone DEF TypeOK, Locks, Messages
<1>1. CASE CreateClass(t)
  <2> DEFINE n == lastLock[Manager] + 1
  <2>1. Asks(t) /\ n \in Nat /\ lastLock'[Manager] = n /\ ~(n <= lastLock[Manager])
    BY <1>0, <1>1, CreateAsks DEF Asks
  <2>2. \A i \in Nat : i <= lastLock[Manager] => i <= n /\ i # n
    BY <1>0
  <2>3. CASE UNCHANGED <<place, mine, lock, toServer>>
    BY <1>0, <2>1, <2>2, <2>3 DEF MatchInv, Fits, ThreadMoves
  <2>4. CASE ~UNCHANGED <<place, mine, lock, toServer>>
    <3>1. PICK m \in Messages : /\ toServer' = Append(toServer, m) /\ m.id = n
                                /\ place'[t] = "creating" /\ mine'[t] = m.class
                                /\ lock'[t] = [owner |-> Manager, id |-> n, result |-> "none"]
      BY <2>1, <2>4 DEF Asks
    <3> HIDE DEF n
    <3>2. Elements(toServer') = Elements(toServer) \union {m}
      BY <1>0, <3>1, AppendOrder
    <3>3. ASSUME NEW u \in Threads, lock'[u].owner = Manager
          PROVE  lock'[u].id <= n
      <4>1. CASE u = t
        BY <2>1, <3>1, <4>1
      <4>2. CASE u # t
        BY <1>0, <2>2, <3>3, <4>2 DEF ThreadMoves, MatchInv
      <4> QED BY <4>1, <4>2
    <3>4. \A u \in Threads : place'[u] = "creating" => lock'[u].owner = Manager
      BY <1>0, <3>1 DEF ThreadMoves, MatchInv
    <3>5. ASSUME NEW a \in Messages, Fits(a)
          PROVE  Fits(a)'
      <4>1. a.id <= n /\ a.id # n
        BY <1>0, <2>2, <3>5 DEF Fits
      <4> QED BY <1>0, <2>1, <3>1, <3>5, <4>1 DEF Fits, ThreadMoves
    <3>6. Fits(m)'
      <4>1. \A u \in Threads : u # t /\ place[u] = "creating" => lock[u].id # n
        BY <2>1 DEF MatchInv
      <4> QED BY <1>0, <2>1, <3>1, <4>1 DEF Fits, ThreadMoves
    <3>7. \A a \in Elements(toServer') : a.type = "create" => Fits(a)'
      BY <1>0, <3>2, <3>5, <3>6 DEF MatchInv
    <3>8. \A a \in Elements(toClient') : a.type = "created" => Fits(a)'
      BY <1>0, <3>5 DEF MatchInv, ThreadMoves
    <3> QED BY <2>1, <3>3, <3>4, <3>7, <3>8 DEF MatchInv
  <2> QED BY <2>3, <2>4
<1>2. CASE Goes(t)
  <2>1. lastLock'[Manager] = lastLock[Manager] /\ place'[t] # "creating"
    BY <1>2 DEF Goes
  <2>2. \A a : Fits(a) => Fits(a)'
    BY <1>0, <2>1 DEF Fits, ThreadMoves
  <2>3. \A a \in Elements(toServer') : a.type = "create" => a \in Elements(toServer)
    <3>1. CASE UNCHANGED toServer
      BY <3>1
    <3>2. ASSUME NEW m \in Messages, toServer' = Append(toServer, m), m.type \in {"call", "kill"}
          PROVE  \A a \in Elements(toServer') : a.type = "create" => a \in Elements(toServer)
      BY <1>0, <3>2, AppendOrder
    <3> QED BY <1>2, <3>1, <3>2 DEF Goes, Says
  <2>4. ASSUME NEW u \in Threads, lock'[u].owner = Manager
        PROVE  lock'[u].id <= lastLock'[Manager]
    <3>1. NoLock.id = 0 /\ 0 <= lastLock[Manager]
      BY <1>0 DEF NoLock
    <3>2. CASE u = t
      BY <1>2, <2>1, <2>4, <3>1, <3>2 DEF Goes, MatchInv
    <3>3. CASE u # t
      BY <1>0, <2>1, <2>4, <3>3 DEF ThreadMoves, MatchInv
    <3> QED BY <3>2, <3>3
  <2>5. \A u \in Threads : place'[u] = "creating" => lock'[u].owner = Manager
    BY <1>0, <2>1 DEF ThreadMoves, MatchInv
  <2>6. \A a \in Elements(toServer') : a.type = "create" => Fits(a)'
    BY <2>2, <2>3 DEF MatchInv
  <2>7. \A a \in Elements(toClient') : a.type = "created" => Fits(a)'
    BY <1>0, <2>2 DEF MatchInv, ThreadMoves
  <2> QED BY <2>4, <2>5, <2>6, <2>7 DEF MatchInv
<1> QED BY <1>1, <1>2, OthersGo

LEMMA MatchRest ==
  ASSUME TypeOK, OwnInv, KillInv, MatchInv,
         \/ ServerStep
         \/ ClientReceives \/ (\E w \in Workers : ClientTakes(w)) \/ EventHandled \/ Pipe
         \/ UNCHANGED vars
  PROVE  MatchInv'
<1>1. UNCHANGED <<place, mine, lastLock>>
  BY DEF ServerStep, ServerReceives, ServerTakes, ServerSends, ServerDestroys, FireEvent,
         ClientReceives, ClientTakes, EventHandled, Pipe, Break, Disconnect, StopThreads, Restart
<1>2. \A u \in Threads : lock'[u].owner = lock[u].owner /\ lock'[u].id = lock[u].id
  <2>1. CASE UNCHANGED lock
    BY <2>1
  <2>2. CASE ClientReceives \/ Break
    <3>1. \A u \in Threads : lock'[u] = lock[u] \/ \E r : lock'[u] = [lock[u] EXCEPT !.result = r]
      BY <2>2 DEF ClientReceives, Trigger, Break
    <3>2. \A u \in Threads : lock[u] \in Locks
      BY DEF TypeOK
    <3> QED BY <3>1, <3>2 DEF Locks
  <2> QED BY <2>1, <2>2 DEF ServerStep, ServerReceives, ServerTakes, ServerSends, ServerDestroys,
                            FireEvent, ClientTakes, EventHandled, Pipe, Disconnect, StopThreads,
                            Restart
<1>3. \A m : Fits(m)' <=> Fits(m)
  BY <1>1, <1>2 DEF Fits
<1>5. \A m \in Elements(toServer') : m \in Elements(toServer)
  <2>1. CASE UNCHANGED toServer
    BY <2>1
  <2>2. CASE ServerReceives
    BY <2>2, TailOrder DEF ServerReceives, TypeOK
  <2>3. CASE Break
    <3>1. PICK n \in 0..Len(toServer) : toServer' = SubSeq(toServer, n + 1, Len(toServer))
      BY <2>3 DEF Break
    <3>2. toServer \in Seq(Messages)
      BY DEF TypeOK
    <3> QED BY <3>1, <3>2, SubSeqOrder
  <2> QED BY <2>1, <2>2, <2>3
          DEF ServerStep, ServerTakes, ServerSends, ServerDestroys, FireEvent, ClientReceives,
              ClientTakes, EventHandled, Pipe, Disconnect, StopThreads, Restart
<1>6. \A m \in Elements(toClient') : m.type = "created" => m \in Elements(toClient) \/ Fits(m)
  <2>1. CASE UNCHANGED toClient
    BY <2>1
  <2>2. CASE ServerReceives /\ ~UNCHANGED toClient
    <3> DEFINE m == Head(toServer)
               a == Msg("created", m.class, m.id)
    <3>1. m \in Messages /\ m \in Elements(toServer) /\ m.class \in Classes /\ m.id \in Nat
      BY <2>2, TailFacts, TailOrder, MessageFields DEF ServerReceives, TypeOK
    <3>2. m.type = "create" /\ toClient' = Append(toClient, a) /\ toClient \in Seq(Messages)
      BY <2>2 DEF ServerReceives, TypeOK
    <3>3. a \in Messages /\ a.class = m.class /\ a.id = m.id
      BY <3>1, MsgTyped
    <3>4. Fits(a)
      BY <3>1, <3>2, <3>3 DEF MatchInv, Fits
    <3> HIDE DEF a
    <3> QED BY <3>2, <3>3, <3>4, AppendOrder
  <2>3. ASSUME NEW w \in Workers, ServerSends(w)
        PROVE  \A m \in Elements(toClient') : m.type = "created" => m \in Elements(toClient)
    <3> DEFINE type == IF sHand[w].do = "complete" THEN "killed" ELSE "return"
    <3>1. /\ Msg(type, sHand[w].class, sHand[w].id) \in Messages
          /\ Msg(type, sHand[w].class, sHand[w].id).type # "created"
      BY <2>3, SendsFacts, MsgTyped
    <3>2. toClient' = Append(toClient, Msg(type, sHand[w].class, sHand[w].id))
      BY <2>3, SendsFacts
    <3> HIDE DEF type
    <3> QED BY <3>1, <3>2, AppendOrder DEF TypeOK
  <2>4. ASSUME NEW c \in Classes, FireEvent(c)
        PROVE  \A m \in Elements(toClient') : m.type = "created" => m \in Elements(toClient)
    <3>1. Msg("event", c, 0) \in Messages /\ Msg("event", c, 0).type = "event"
      BY MsgTyped
    <3>2. toClient' = Append(toClient, Msg("event", c, 0)) /\ toClient \in Seq(Messages)
      BY <2>4 DEF FireEvent, TypeOK
    <3> QED BY <3>1, <3>2, AppendOrder
  <2>5. CASE ClientReceives
    BY <2>5, TailOrder DEF ClientReceives, TypeOK
  <2>6. CASE Break
    BY <2>6, EmptyOrder DEF Break
  <2> QED BY <2>1, <2>2, <2>3, <2>4, <2>5, <2>6
          DEF ServerStep, ServerTakes, ServerDestroys, ClientTakes, EventHandled, Pipe, Disconnect,
              StopThreads, Restart
<1> QED BY <1>1, <1>2, <1>3, <1>5, <1>6 DEF MatchInv

LEMMA MatchNext ==
  ASSUME TypeOK, OwnInv, KillInv, MatchInv, [Next]_vars
  PROVE  MatchInv'
BY MatchThread, MatchRest DEF Next

-----------------------------------------------------------------------------
\* The lists of both sides agree on a class while the service that made it lives.
LEMMA ListThread ==
  ASSUME TypeOK, OwnInv, CreateInv, ListInv, NEW t \in Threads, ThreadStep(t)
  PROVE  ListInv'
<1>0. /\ ThreadMoves(t) /\ mine[t] \in Classes \union {Manager} /\ classes \subseteq Classes
      /\ \A c : Settled(c)' <=> Settled(c)
  BY ThreadAlone DEF TypeOK, Settled, ThreadMoves
<1>1. \A c \in Classes : madeBy'[c] <= breaks'
  BY <1>0 DEF ThreadMoves, ListInv
<1>2. \A u \in Threads : u # t => (Answered(u)' <=> Answered(u))
  BY <1>0 DEF ThreadMoves, Answered
<1>3. ASSUME \A c \in classes' : \/ c \in classes /\ mine[t] # c
                                 \/ c \in classes /\ mine'[t] = c /\ place'[t] # "creating"
                                                  /\ (place[t] \in {"killing", "leave"} =>
                                                        place'[t] \in {"killing", "leave"})
                                 \/ c = mine'[t] /\ place'[t] # "creating" /\ Settled(c),
             place'[t] = "creating" /\ Answered(t)' => Settled(mine'[t])
      PROVE  ListInv'
  <2>1. ASSUME NEW c \in classes'
        PROVE  /\ \E u \in Threads : mine'[u] = c /\ place'[u] # "creating"
               /\ Settled(c)' \/ Leaving(c)'
    <3>1. CASE c \in classes /\ mine[t] # c
      <4>1. PICK u \in Threads : mine[u] = c /\ place[u] # "creating"
        BY <3>1 DEF ListInv
      <4>2. u # t /\ mine'[u] = c /\ place'[u] = place[u]
        BY <1>0, <3>1, <4>1 DEF ThreadMoves
      <4>3. Leaving(c) => Leaving(c)'
        BY <1>0, <3>1 DEF Leaving, ThreadMoves
      <4> QED BY <1>0, <3>1, <4>1, <4>2, <4>3 DEF ListInv
    <3>2. CASE /\ c \in classes /\ mine'[t] = c /\ place'[t] # "creating"
               /\ place[t] \in {"killing", "leave"} => place'[t] \in {"killing", "leave"}
      <4>1. Leaving(c) => Leaving(c)'
        BY <1>0, <3>2 DEF Leaving, ThreadMoves
      <4> QED BY <1>0, <3>2, <4>1 DEF ListInv
    <3>3. CASE c = mine'[t] /\ place'[t] # "creating" /\ Settled(c)
      BY <1>0, <3>3
    <3> QED BY <1>3, <3>1, <3>2, <3>3
  <2>2. ASSUME NEW u \in Threads, place'[u] = "creating", Answered(u)'
        PROVE  Settled(mine[u])'
    <3>1. CASE u = t
      BY <1>0, <1>3, <2>2, <3>1 DEF Settled
    <3>2. CASE u # t
      BY <1>0, <1>2, <2>2, <3>2 DEF ListInv, ThreadMoves
    <3> QED BY <3>1, <3>2
  <2> QED BY <1>1, <2>1, <2>2 DEF ListInv
<1>4. CASE CreateClass(t)
  <2>1. Asks(t)
    BY <1>4, CreateAsks
  <2>2. CASE UNCHANGED <<place, mine, lock, toServer>>
    BY <1>0, <1>3, <2>1, <2>2, Kinds DEF Asks
  <2>3. CASE ~UNCHANGED <<place, mine, lock, toServer>>
    <3>1. mine'[t] = lastClass + 1 /\ lock'[t].result = "none"
      BY <2>1, <2>3 DEF Asks
    <3>2. ~Has(toClient, "created", lastClass + 1)
      <4>1. Numbered(lastClass + 1) /\ ~(lastClass + 1 <= lastClass)
        BY <2>1 DEF Asks, CreateInv, TypeOK
      <4> QED BY <4>1 DEF Numbered
    <3>3. ~Answered(t)'
      BY <1>0, <3>1, <3>2 DEF Answered, ThreadMoves
    <3> QED BY <1>0, <1>3, <2>1, <3>3, Kinds DEF Asks
  <2> QED BY <2>2, <2>3
<1>5. CASE ClassCreated(t)
  <2>1. Settled(mine[t])
    BY <1>5 DEF ClassCreated, ListInv, Answered
  <2>2. mine'[t] = mine[t] /\ place'[t] = "free" /\ classes' = classes \union {mine[t]}
    BY <1>5, GotoTyped DEF ClassCreated, Places
  <2> QED BY <1>3, <2>1, <2>2
<1>6. CASE CreateTimesOut(t)
  <2>1. place'[t] = "free" /\ UNCHANGED classes /\ place[t] = "creating"
    BY <1>6, GotoTyped DEF CreateTimesOut, Places
  <2>2. \A c \in classes : mine[t] # c
    BY <1>0, <2>1, Kinds DEF ListInv, OwnInv
  <2> QED BY <1>3, <2>1, <2>2
<1>7. CASE DestroyClass(t)
  <2>1. place'[t] = "free" /\ classes' = classes \ {mine[t]}
    BY <1>7, GotoTyped DEF DestroyClass, Places
  <2> QED BY <1>3, <2>1
<1>8. CASE \/ (\E c \in Classes : CallFunction(t, c)) \/ CallReturns(t) \/ CallTimesOut(t)
           \/ Destroy(t) \/ SendKill(t) \/ KillAnswered(t)
  <2>1. UNCHANGED <<mine, classes>>
    BY <1>8 DEF CallFunction, CallReturns, CallTimesOut, Destroy, SendKill, KillAnswered
  <2>2. /\ place'[t] # "creating" \/ (place'[t] = place[t] /\ place[t] # "creating")
        /\ place[t] \in {"killing", "leave"} => place'[t] \in {"killing", "leave"}
    BY <1>8 DEF CallFunction, CallReturns, CallTimesOut, Destroy, SendKill, KillAnswered, MayKill,
                Waiting, TypeOK
  <2> QED BY <1>3, <2>1, <2>2
<1> QED BY <1>4, <1>5, <1>6, <1>7, <1>8 DEF ThreadStep

LEMMA ListRest ==
  ASSUME TypeOK, OwnInv, SentInv, KillInv, MatchInv, ListInv,
         \/ ServerStep
         \/ ClientReceives \/ (\E w \in Workers : ClientTakes(w)) \/ EventHandled \/ Pipe
         \/ UNCHANGED vars
  PROVE  ListInv'
<1>1. UNCHANGED <<place, mine>> /\ classes' \subseteq classes
  BY DEF ServerStep, ServerReceives, ServerTakes, ServerSends, ServerDestroys, FireEvent,
         ClientReceives, ClientTakes, EventHandled, Pipe, Break, Disconnect, StopThreads, Restart
<1>2. \A c : Leaving(c)' <=> Leaving(c)
  BY <1>1 DEF Leaving
<1>3. classes \subseteq Classes
  BY DEF TypeOK
<1>4. ASSUME \A c \in Classes : madeBy'[c] <= breaks',
             \A c \in Classes : Settled(c) =>
               \/ Settled(c)'
               \/ \A t \in Threads : mine[t] = c => place[t] \in {"killing", "leave"},
             \A t \in Threads : place[t] = "creating" /\ Answered(t)' =>
                                  Answered(t) \/ Settled(mine[t])'
      PROVE  ListInv'
  <2>1. ASSUME NEW c \in classes'
        PROVE  /\ \E t \in Threads : mine'[t] = c /\ place'[t] # "creating"
               /\ Settled(c)' \/ Leaving(c)'
    <3>1. c \in classes /\ c \in Classes
      BY <1>1, <1>3
    <3>2. \E t \in Threads : mine[t] = c /\ place[t] # "creating"
      BY <3>1 DEF ListInv
    <3>3. Settled(c) \/ Leaving(c)
      BY <3>1 DEF ListInv
    <3>4. Settled(c)' \/ Leaving(c)
      BY <1>4, <3>1, <3>2, <3>3 DEF Leaving
    <3> QED BY <1>1, <1>2, <3>2, <3>4
  <2>2. ASSUME NEW t \in Threads, place'[t] = "creating", Answered(t)'
        PROVE  Settled(mine[t])'
    <3>1. mine[t] \in Classes /\ mine'[t] = mine[t] /\ place[t] = "creating"
      BY <1>1, <2>2 DEF OwnInv
    <3>2. CASE Answered(t)
      <4>1. Settled(mine[t])
        BY <3>1, <3>2 DEF ListInv
      <4> QED BY <1>4, <3>1, <4>1
    <3>3. CASE Settled(mine[t])'
      BY <3>3
    <3> QED BY <1>4, <2>2, <3>1, <3>2, <3>3
  <2> QED BY <1>4, <2>1, <2>2 DEF ListInv
<1>5. CASE ServerReceives
  <2> DEFINE m == Head(toServer)
             k == m.class
  <2>1. m \in Messages /\ k \in Classes /\ m.id \in Nat
    BY <1>5, TailFacts, MessageFields DEF ServerReceives, TypeOK
  <2>2. /\ UNCHANGED <<lock, breaks>>
        /\ \/ UNCHANGED <<sClasses, madeBy, toClient>>
           \/ /\ sClasses' = sClasses \union {k} /\ madeBy' = [madeBy EXCEPT ![k] = breaks]
              /\ toClient' = Append(toClient, Msg("created", k, m.id))
    BY <1>5 DEF ServerReceives
  <2> HIDE DEF m
  <2>3. CASE UNCHANGED <<sClasses, madeBy, toClient>>
    BY <1>1, <1>4, <2>2, <2>3 DEF Settled, Answered, ListInv
  <2>4. CASE /\ sClasses' = sClasses \union {k} /\ madeBy' = [madeBy EXCEPT ![k] = breaks]
             /\ toClient' = Append(toClient, Msg("created", k, m.id))
    <3>1. \A c : Has(toClient', "created", c) => Has(toClient, "created", c) \/ c = k
      <4>1. /\ Msg("created", k, m.id) \in Messages
            /\ Msg("created", k, m.id).class = k
        BY <2>1, MsgTyped
      <4> QED BY <2>4, <4>1, AppendFacts DEF TypeOK
    <3>2. \A c \in Classes : madeBy'[c] = IF c = k THEN breaks ELSE madeBy[c]
      BY <2>4 DEF TypeOK
    <3>3. breaks \in Nat
      BY DEF TypeOK
    <3>4. \A c \in Classes : madeBy'[c] <= breaks'
      BY <2>2, <3>2, <3>3 DEF ListInv
    <3>5. \A c \in Classes : Settled(c) => Settled(c)'
      BY <2>2, <2>4, <3>2 DEF Settled
    <3>6. \A t \in Threads : Answered(t)' => Answered(t) \/ Settled(mine[t])'
      BY <1>1, <2>2, <2>4, <3>1 DEF Answered, Settled
    <3> QED BY <1>4, <3>4, <3>5, <3>6
  <2> QED BY <2>2, <2>3, <2>4
<1>6. CASE \/ \E w \in Workers : ServerTakes(w) \/ ServerSends(w)
           \/ \E c \in Classes : FireEvent(c)
  <2>1. UNCHANGED <<lock, breaks, madeBy, sClasses>>
    BY <1>6 DEF ServerTakes, ServerSends, FireEvent
  <2>2. \A t \in Threads : Answered(t)' => Answered(t)
    BY <1>1, <1>6, <2>1, NotCreated DEF Answered
  <2> QED BY <1>4, <2>1, <2>2 DEF Settled, ListInv
<1>7. ASSUME NEW w \in Workers, ServerDestroys(w)
      PROVE  ListInv'
  <2> DEFINE k == sHand[w].class
  <2>1. k \in Classes /\ Over(k)
    <3>1. k \in Classes /\ Answering(w, k)
      BY <1>7 DEF OwnInv, ServerDestroys, Answering
    <3>2. Dying(k)
      BY <3>1, Kinds DEF KillInv, OneAnswers, Dying
    <3> QED BY <3>1, <3>2 DEF KillInv, Finished
  <2>2. UNCHANGED <<lock, breaks, madeBy, toClient>> /\ sClasses' = sClasses \ {k}
    BY <1>7 DEF ServerDestroys
  <2> HIDE DEF k
  <2>3. \A c : Settled(c) => Settled(c)' \/ c = k
    BY <2>2 DEF Settled
  <2>4. \A t \in Threads : mine[t] = k => place[t] \in {"killing", "leave"}
    BY <2>1 DEF Over
  <2>5. \A t \in Threads : Answered(t)' => Answered(t)
    BY <1>1, <2>2 DEF Answered
  <2>6. \A c \in Classes : madeBy'[c] <= breaks'
    BY <2>2 DEF ListInv
  <2> QED BY <1>4, <2>3, <2>4, <2>5, <2>6
<1>8. CASE ClientReceives
  <2>1. UNCHANGED <<breaks, madeBy, sClasses>>
    BY <1>8 DEF ClientReceives
  <2>2. \A c : Has(toClient', "created", c) => Has(toClient, "created", c)
    BY <1>8, TailFacts DEF ClientReceives, TypeOK
  <2>3. \A t \in Threads : place[t] = "creating" /\ Answered(t)' => Answered(t)
    BY <1>1, <1>8, <2>2, AnswerComes DEF Answered
  <2> QED BY <1>4, <2>1, <2>3 DEF Settled, ListInv
<1>9. CASE Break
  <2>1. breaks' = breaks + 1 /\ UNCHANGED madeBy /\ breaks \in Nat
    BY <1>9 DEF Break, TypeOK
  <2>2. \A c \in Classes : madeBy[c] <= breaks /\ madeBy[c] \in Nat
    BY DEF ListInv, TypeOK
  <2>3. \A c \in Classes : madeBy'[c] <= breaks' /\ madeBy'[c] # breaks'
    BY <2>1, <2>2
  <2>4. \A c \in Classes : Settled(c)'
    BY <2>3 DEF Settled
  <2>5. \A t \in Threads : place[t] = "creating" => Settled(mine[t])'
    BY <1>1, <2>3 DEF OwnInv, Settled
  <2> QED BY <1>4, <2>3, <2>4, <2>5
<1>10. CASE \/ (\E w \in Workers : ClientTakes(w)) \/ EventHandled
            \/ Disconnect \/ StopThreads \/ Restart \/ UNCHANGED vars
  <2>1. UNCHANGED <<lock, breaks, madeBy, sClasses, toClient>>
    BY <1>10 DEF ClientTakes, EventHandled, Disconnect, StopThreads, Restart
  <2>2. \A t \in Threads : Answered(t)' => Answered(t)
    BY <1>1, <2>1 DEF Answered
  <2> QED BY <1>4, <2>1, <2>2 DEF Settled, ListInv
<1> QED BY <1>5, <1>6, <1>7, <1>8, <1>9, <1>10 DEF ServerStep, Pipe

LEMMA ListNext ==
  ASSUME TypeOK, OwnInv, SentInv, KillInv, CreateInv, MatchInv, ListInv, [Next]_vars
  PROVE  ListInv'
BY ListThread, ListRest DEF Next

-----------------------------------------------------------------------------
\* A class with something under way is on the client's list.

\* The kill of a class comes last.
LEMMA Unasked ==
  ASSUME OwnInv, KillInv, ToldInv, NEW c \in Classes,
         Told(c) \/ Has(toClient, "killed", c)
  PROVE  ~Asked(c)
<1>1. ~About(toServer, c) \/ c \notin sClasses
  BY Kinds DEF KillInv, Finished, ToldInv, Dying
<1>2. CASE c \notin sClasses
  BY <1>2 DEF KillInv, Known, Asked
<1>3. CASE c \in sClasses
  <2>1. sKills[c] = 2 /\ Silent(c)
    BY <1>3 DEF ToldInv
  <2>2. Dying(c) /\ \A w \in Workers : ~Killing(w, c)
    BY <2>1, Kinds DEF KillInv, Counted, Dying
  <2>3. \A w \in Workers : ~About(sInbox[w], c) /\ (sHand[w].class = c => Answering(w, c))
    BY <2>2 DEF KillInv, Passed
  <2> QED BY <1>1, <1>3, <2>1, <2>3 DEF Asked, Answering, Silent
<1> QED BY <1>2, <1>3

LEMMA WantedThread ==
  ASSUME TypeOK, OwnInv, KillInv, ToldInv, DownInv, CreateInv, WantedInv,
         NEW t \in Threads, ThreadStep(t)
  PROVE  WantedInv'
<1>0. ThreadMoves(t) /\ toServer \in Seq(Messages)
  BY ThreadAlone DEF TypeOK
<1>1. \A c : /\ Told(c)' <=> Told(c)
             /\ Replied(c)' <=> Replied(c)
             /\ Noisy(c)' <=> Noisy(c)
  BY <1>0 DEF ThreadMoves, Told, Replied, Noisy
<1>2. /\ AnswersFirst(toClient')
      /\ \A c \in Classes : Told(c)' => ~Has(toClient', "return", c)
      /\ \A c \in Classes : killed'[c] => kills'[c] = 2
  BY <1>0, <1>1 DEF WantedInv, ThreadMoves
<1>3. ASSUME UNCHANGED toServer, \A c \in Classes : Wanted(c) /\ c \in classes => c \in classes',
             place'[t] = "leave" => ~Wanted(mine'[t])
      PROVE  WantedInv'
  <2>1. \A c : Wanted(c)' <=> Wanted(c)
    BY <1>0, <1>1, <1>3 DEF Wanted, Asked, ThreadMoves
  <2>2. \A c \in Classes : Wanted(c)' => c \in classes'
    BY <1>3, <2>1 DEF WantedInv
  <2>3. ASSUME NEW u \in Threads, place'[u] = "leave"
        PROVE  ~Wanted(mine'[u])
    BY <1>0, <1>3, <2>3 DEF WantedInv, ThreadMoves
  <2>4. \A u \in Threads : place'[u] = "leave" => ~Wanted(mine[u])'
    BY <1>0, <1>1, <1>3, <2>3 DEF Wanted, Asked, Replied, Noisy, Told, ThreadMoves
  <2> QED BY <1>2, <2>2, <2>4 DEF WantedInv
<1>4. ASSUME NEW m \in Messages, toServer' = Append(toServer, m), classes' = classes,
             m.class \in sClasses => m.class \in classes,
             \A u \in Threads : place'[u] = "leave" => /\ place[u] = "leave" /\ mine'[u] = mine[u]
                                                       /\ mine[u] # m.class
      PROVE  WantedInv'
  <2>1. \A c : About(toServer', c) <=> About(toServer, c) \/ m.class = c
    BY <1>0, <1>4, AppendFacts
  <2>2. \A c : Wanted(c)' => Wanted(c) \/ (c = m.class /\ c \in sClasses)
    BY <1>0, <1>1, <2>1 DEF Wanted, Asked, ThreadMoves
  <2>3. \A c \in Classes : Wanted(c)' => c \in classes'
    BY <1>4, <2>2 DEF WantedInv
  <2>4. ASSUME NEW u \in Threads, place'[u] = "leave"
        PROVE  ~Wanted(mine[u])'
    <3>1. PICK c : c = mine[u]
      OBVIOUS
    <3>2. ~Wanted(c)'
      BY <1>4, <2>2, <2>4, <3>1 DEF WantedInv
    <3>3. mine'[u] = c
      BY <1>4, <2>4, <3>1
    <3> QED BY <3>2, <3>3 DEF Wanted, Asked, Replied, Noisy, Told
  <2> QED BY <1>2, <2>3, <2>4 DEF WantedInv
<1>5. CASE CreateClass(t)
  <2>1. Asks(t)
    BY <1>5, CreateAsks
  <2>2. CASE UNCHANGED <<place, mine, lock, toServer>>
    BY <1>3, <2>1, <2>2 DEF Asks
  <2>3. CASE ~UNCHANGED <<place, mine, lock, toServer>>
    <3>1. PICK m \in Messages : /\ toServer' = Append(toServer, m) /\ m.class = lastClass + 1
                                /\ place'[t] = "creating"
      BY <2>1, <2>3 DEF Asks
    <3>2. lastClass + 1 \notin sClasses
      <4>1. Numbered(lastClass + 1) /\ ~(lastClass + 1 <= lastClass)
        BY <2>1 DEF Asks, CreateInv, TypeOK
      <4> QED BY <4>1 DEF Numbered
    <3>3. \A u \in Threads : mine[u] # lastClass + 1
      <4>1. lastClass \in Nat /\ ~(lastClass + 1 <= lastClass)
        BY DEF TypeOK
      <4> QED BY <4>1 DEF OwnInv
    <3>4. classes' = classes
      BY <2>1 DEF Asks
    <3>5. ASSUME NEW u \in Threads, place'[u] = "leave"
          PROVE  place[u] = "leave" /\ mine'[u] = mine[u] /\ mine[u] # m.class
      BY <1>0, <3>1, <3>3, <3>5 DEF ThreadMoves
    <3> QED BY <1>4, <3>1, <3>2, <3>4, <3>5
  <2> QED BY <2>2, <2>3
<1>6. CASE Goes(t) /\ ~UNCHANGED toServer
  <2>1. PICK m \in Messages : /\ toServer' = Append(toServer, m)
                              /\ m.class \in classes /\ UNCHANGED classes
                              /\ \E u \in Threads : /\ mine[u] = m.class
                                                    /\ place[u] \in {"free", "calling", "kill"}
                              /\ place'[t] \in {"calling", "killing"}
    BY <1>6 DEF Goes, Says
  <2>2. PICK u \in Threads : mine[u] = m.class /\ place[u] \in {"free", "calling", "kill"}
    BY <2>1
  <2>3. m.class # Manager
    BY MessageFields, Kinds
  <2>4. \A v \in Threads : mine[v] = m.class => v = u
    BY <2>2, <2>3 DEF OwnInv
  <2>5. ASSUME NEW v \in Threads, place'[v] = "leave"
        PROVE  place[v] = "leave" /\ mine'[v] = mine[v] /\ mine[v] # m.class
    BY <1>0, <2>1, <2>2, <2>4, <2>5 DEF ThreadMoves
  <2> QED BY <1>4, <2>1, <2>5
<1>7. CASE UNCHANGED toServer
  <2>1. CASE ClassCreated(t)
    BY <1>3, <1>7, <2>1, GotoTyped DEF ClassCreated, Places
  <2>2. CASE \/ CreateTimesOut(t) \/ (\E c \in Classes : CallFunction(t, c))
             \/ CallReturns(t) \/ CallTimesOut(t) \/ SendKill(t)
    <3>1. UNCHANGED classes /\ place'[t] # "leave"
      BY <2>2 DEF CreateTimesOut, CallFunction, CallReturns, CallTimesOut, SendKill, MayKill,
                  Waiting, TypeOK
    <3> QED BY <1>3, <1>7, <3>1
  <2>3. CASE DestroyClass(t)
    <3>1. place'[t] = "free" /\ classes' = classes \ {mine[t]} /\ ~Wanted(mine[t])
      BY <2>3, GotoTyped DEF DestroyClass, Places, WantedInv
    <3> QED BY <1>3, <1>7, <3>1
  <2>4. CASE Destroy(t)
    <3>1. UNCHANGED <<mine, classes>> /\ mine[t] \in Classes /\ place[t] = "free"
      BY <2>4 DEF Destroy, TypeOK
    <3>2. ASSUME place'[t] = "leave"
          PROVE  ~Wanted(mine[t])
      <4>1. link # "up"
        BY <2>4, <3>2 DEF Destroy, DownInv, TypeOK
      <4>2. /\ sClasses = {} /\ toClient = <<>>
            /\ \A w \in Workers : sInbox[w] = <<>> /\ sHand[w].class = Manager
            /\ task[mine[t]] # "running"
        BY <3>1, <4>1 DEF DownInv, Idle
      <4>3. ~Told(mine[t])
        BY <3>1 DEF ToldInv, Over
      <4> QED BY <3>1, <4>1, <4>2, <4>3, EmptyFacts, Kinds DEF Wanted, Asked, Replied, Noisy, Told
    <3> QED BY <1>3, <1>7, <3>1, <3>2
  <2>5. CASE KillAnswered(t)
    <3>1. UNCHANGED <<mine, classes>> /\ mine[t] \in Classes /\ killed[mine[t]]
      BY <2>5 DEF KillAnswered, OwnInv
    <3>2. ASSUME NEW c \in Classes, killed[c]
          PROVE  ~Wanted(c)
      <4>1. kills[c] = 2 /\ Told(c)
        BY <3>2 DEF WantedInv, Told
      <4>2. ~Asked(c)
        BY <4>1, Unasked
      <4>3. \A w \in Workers : ~Has(inbox[w], "killed", c)
        <5>1. kills[c] + Left("call", c) + Left("event", c) <= 2
          BY DEF ToldInv
        <5>2. \A w \in Workers : Left(w, c) = 0 \/ (Left(w, c) = 1 /\ Has(inbox[w], "killed", c))
          BY DEF Left
        <5>3. \A w \in Workers : Left(w, c) = 0 => ~Has(inbox[w], "killed", c)
          BY DEF Left
        <5> HIDE DEF Left
        <5>4. Left("call", c) = 0 /\ Left("event", c) = 0
          BY <4>1, <5>1, <5>2, Kinds
        <5> QED BY <5>3, <5>4, Kinds
      <4>4. ~Has(toClient, "return", c) /\ ~Has(toClient, "killed", c)
        BY <4>1 DEF WantedInv, ToldInv
      <4> QED BY <4>1, <4>2, <4>3, <4>4 DEF Wanted, Replied, Noisy
    <3> QED BY <1>3, <1>7, <3>1, <3>2
  <2> QED BY <1>5, <2>1, <2>2, <2>3, <2>4, <2>5 DEF ThreadStep
<1> QED BY <1>5, <1>6, <1>7, OthersGo

\* The other steps: they give no thread another place or class.
LEMMA WantedKept ==
  ASSUME OwnInv, WantedInv, UNCHANGED <<place, mine, classes>>,
         AnswersFirst(toClient'),
         \A c \in Classes : Told(c)' => ~Has(toClient', "return", c),
         \A c \in Classes : killed'[c] => kills'[c] = 2,
         \A c \in Classes : Wanted(c)' => Wanted(c)
  PROVE  WantedInv'
<1>1. \A c \in Classes : Wanted(c)' => c \in classes'
  BY DEF WantedInv
<1>2. ASSUME NEW t \in Threads, place'[t] = "leave"
      PROVE  ~Wanted(mine[t])'
  <2>1. PICK c \in Classes : c = mine[t] /\ c = mine'[t]
    BY <1>2 DEF OwnInv
  <2>2. ~Wanted(c)'
    BY <1>2, <2>1 DEF WantedInv
  <2> QED BY <2>1, <2>2 DEF Wanted, Asked, Replied, Noisy, Told
<1> QED BY <1>1, <1>2 DEF WantedInv

LEMMA WantedReceives ==
  ASSUME TypeOK, OwnInv, CreateInv, WantedInv, ServerReceives
  PROVE  WantedInv'
<1> DEFINE m == Head(toServer)
           k == m.class
<1>1. /\ m \in Messages /\ k \in Classes /\ m.id \in Nat /\ About(toServer, k)
      /\ toServer' = Tail(toServer) /\ toClient \in Seq(Messages)
      /\ \A c : About(toServer', c) => About(toServer, c)
      /\ \A w \in Workers : sInbox[w] \in Seq(Messages)
  BY TailFacts, MessageFields DEF ServerReceives, TypeOK
<1>2. m.type = "create" => ~About(toServer', k)
  BY TailOrder DEF ServerReceives, TypeOK, CreateInv
<1>3. /\ UNCHANGED <<place, mine, classes, kills, killed, inbox, link, task, sHand>>
      /\ \/ /\ m.type = "create" /\ sClasses' = sClasses \union {k}
            /\ toClient' = Append(toClient, Msg("created", k, m.id))
            /\ UNCHANGED sInbox
         \/ /\ UNCHANGED <<sClasses, toClient>>
            /\ \A w \in Workers : \/ sInbox'[w] = sInbox[w]
                                  \/ sInbox'[w] = Append(sInbox[w], m) /\ k \in sClasses
  BY DEF ServerReceives
<1> HIDE DEF m
<1>4. \A c : Told(c)' <=> Told(c)
  BY <1>3 DEF Told
<1>5. /\ AnswersFirst(toClient')
      /\ \A c, type : Has(toClient', type, c) => Has(toClient, type, c) \/ type = "created"
  <2>1. CASE UNCHANGED toClient
    BY <2>1 DEF WantedInv
  <2>2. CASE toClient' = Append(toClient, Msg("created", k, m.id))
    <3>1. /\ Msg("created", k, m.id) \in Messages
          /\ Msg("created", k, m.id).type = "created"
      BY <1>1, MsgTyped
    <3> QED BY <1>1, <2>2, <3>1, AppendFacts, AppendOrder DEF WantedInv
  <2> QED BY <1>3, <2>1, <2>2
<1>6. \A c \in Classes : Asked(c)' => Asked(c)
  <2>1. CASE m.type = "create" /\ sClasses' = sClasses \union {k} /\ UNCHANGED sInbox
    BY <1>1, <1>2, <1>3, <2>1 DEF Asked
  <2>2. CASE /\ UNCHANGED sClasses
             /\ \A w \in Workers : \/ sInbox'[w] = sInbox[w]
                                   \/ sInbox'[w] = Append(sInbox[w], m) /\ k \in sClasses
    <3>1. \A c \in Classes, w \in Workers :
            About(sInbox'[w], c) => About(sInbox[w], c) \/ (c = k /\ k \in sClasses)
      <4> TAKE c \in Classes, w \in Workers
      <4>1. About(Append(sInbox[w], m), c) <=> About(sInbox[w], c) \/ m.class = c
        BY <1>1, AppendFacts
      <4> QED BY <2>2, <4>1
    <3> QED BY <1>1, <1>3, <2>2, <3>1 DEF Asked
  <2> QED BY <1>3, <2>1, <2>2
<1>7. \A c \in Classes : Wanted(c)' => Wanted(c)
  BY <1>3, <1>4, <1>5, <1>6 DEF Wanted, Replied, Noisy
<1>8. \A c \in Classes : Told(c)' => ~Has(toClient', "return", c)
  BY <1>4, <1>5 DEF WantedInv
<1>9. \A c \in Classes : killed'[c] => kills'[c] = 2
  BY <1>3 DEF WantedInv
<1> QED BY <1>3, <1>5, <1>7, <1>8, <1>9, WantedKept

LEMMA WantedTakes ==
  ASSUME TypeOK, OwnInv, KillInv, WantedInv, NEW w \in Workers, ServerTakes(w)
  PROVE  WantedInv'
<1> DEFINE m == Head(sInbox[w])
           k == m.class
<1>1. /\ m \in Messages /\ k \in Classes /\ About(sInbox[w], k)
      /\ \A c : About(Tail(sInbox[w]), c) => About(sInbox[w], c)
  BY TailFacts, MessageFields DEF ServerTakes, TypeOK
<1>2. k \in sClasses /\ SAlive(k)
  BY <1>1 DEF KillInv, Known, SAlive
<1>3. /\ UNCHANGED <<place, mine, classes, kills, killed, inbox, link, toServer, toClient,
                     sClasses>>
      /\ \A v \in Workers : sInbox'[v] = IF v = w THEN Tail(sInbox[w]) ELSE sInbox[v]
      /\ \/ m.type = "kill" /\ ServerKill(w, k)
         \/ m.type # "kill" /\ ServerExecute(w, k, m.id)
  BY <1>2 DEF ServerTakes, TypeOK
<1> HIDE DEF m
<1>4. /\ \A v \in Workers : sHand'[v] = sHand[v] \/ sHand'[v].class = k
      /\ \A c \in Classes : task'[c] = task[c] \/ c = k
  <2>1. /\ \/ UNCHANGED sHand
           \/ \E h : sHand' = [sHand EXCEPT ![w] = h] /\ h.class = k
        /\ UNCHANGED task \/ \E x : task' = [task EXCEPT ![k] = x]
    <3>1. CASE ServerKill(w, k)
      <4> DEFINE h == [do |-> "complete", class |-> k, id |-> 0]
      <4>1. h.class = k /\ UNCHANGED task /\ (UNCHANGED sHand \/ sHand' = [sHand EXCEPT ![w] = h])
        BY <3>1 DEF ServerKill
      <4> HIDE DEF h
      <4> QED BY <4>1
    <3>2. CASE ServerExecute(w, k, m.id)
      <4> DEFINE h == [do |-> "return", class |-> k, id |-> m.id]
                 x == IF task[k] = "none" THEN "running" ELSE task[k]
      <4>1. /\ h.class = k /\ sHand' = [sHand EXCEPT ![w] = h]
            /\ task' = [task EXCEPT ![k] = x]
        BY <3>2 DEF ServerExecute
      <4> HIDE DEF h, x
      <4> QED BY <4>1
    <3> QED BY <1>3, <3>1, <3>2
  <2> QED BY <1>1, <2>1 DEF TypeOK
<1>5. \A c \in Classes : Asked(c)' => Asked(c)
  BY <1>1, <1>3, <1>4 DEF Asked
<1>6. \A c : Told(c)' <=> Told(c)
  BY <1>3 DEF Told
<1>7. Wanted(k)
  BY <1>1 DEF Wanted, Asked
<1>8. \A c \in Classes : Wanted(c)' => Wanted(c)
  BY <1>3, <1>4, <1>5, <1>6, <1>7 DEF Wanted, Replied, Noisy
<1> QED BY <1>3, <1>6, <1>8, WantedKept DEF WantedInv

LEMMA WantedSends ==
  ASSUME TypeOK, OwnInv, KillInv, ToldInv, WantedInv, NEW w \in Workers, ServerSends(w)
  PROVE  WantedInv'
<1> DEFINE h == sHand[w]
           k == h.class
<1>1. /\ h \in Hands /\ k \in Classes /\ h.id \in Nat /\ h.do \in {"return", "complete"}
      /\ \A v \in Workers : sHand'[v] = IF v = w THEN AfterSending(h) ELSE sHand[v]
      /\ toClient \in Seq(Messages)
  BY SendsFacts DEF TypeOK
<1>2. PICK m \in Messages : /\ toClient' = Append(toClient, m) /\ m.class = k
                            /\ m.type \in {"return", "killed"}
  <2>1. PICK type \in {"return", "killed"} : toClient' = Append(toClient, Msg(type, k, h.id))
    BY SendsFacts
  <2>2. /\ Msg(type, k, h.id) \in Messages
        /\ Msg(type, k, h.id).class = k /\ Msg(type, k, h.id).type = type
    BY <1>1, MsgTyped
  <2> QED BY <2>1, <2>2
<1>3. Asked(k)
  BY <1>1 DEF Asked
<1>4. ~Told(k) /\ ~Has(toClient, "killed", k)
  BY <1>1, <1>3, Unasked
<1> HIDE DEF h
<1>5. UNCHANGED <<place, mine, classes, kills, killed, inbox, link, toServer, sClasses, sInbox, task>>
  BY DEF ServerSends
<1>6. \A c : Told(c)' <=> Told(c)
  BY <1>5 DEF Told
<1>7. /\ AnswersFirst(toClient')
      /\ \A c, type : Has(toClient', type, c) =>
           Has(toClient, type, c) \/ (c = k /\ type \in {"return", "killed"})
  BY <1>1, <1>2, <1>4, AppendFacts, AppendOrder DEF WantedInv
<1>8. \A c \in Classes : Asked(c)' => Asked(c)
  BY <1>1, <1>5, AfterSendingIs, Kinds DEF Asked
<1>9. \A c \in Classes : Noisy(c)' => Noisy(c)
  BY <1>5, <1>6, <1>7 DEF Noisy
<1>10. \A c \in Classes : Replied(c)' => Replied(c) \/ c = k
  BY <1>5, <1>7 DEF Replied
<1>11. \A c \in Classes : Wanted(c)' => Wanted(c)
  BY <1>3, <1>8, <1>9, <1>10 DEF Wanted
<1>12. \A c \in Classes : Told(c)' => ~Has(toClient', "return", c)
  BY <1>4, <1>6, <1>7 DEF WantedInv
<1>13. \A c \in Classes : killed'[c] => kills'[c] = 2
  BY <1>5 DEF WantedInv
<1> QED BY <1>5, <1>7, <1>11, <1>12, <1>13, WantedKept

LEMMA WantedServer ==
  ASSUME TypeOK, OwnInv, WantedInv,
         (\E w \in Workers : ServerDestroys(w)) \/ (\E c \in Classes : FireEvent(c))
  PROVE  WantedInv'
<1>1. UNCHANGED <<place, mine, classes, kills, killed, inbox, link, toServer, sInbox>>
  BY DEF ServerDestroys, FireEvent
<1>2. \A c : Told(c)' <=> Told(c)
  BY <1>1 DEF Told
<1>3. ASSUME NEW w \in Workers, ServerDestroys(w)
      PROVE  WantedInv'
  <2>1. /\ UNCHANGED toClient /\ sClasses' \subseteq sClasses
        /\ \A v \in Workers : sHand'[v] = IF v = w THEN Idle ELSE sHand[v]
        /\ \A c \in Classes : task'[c] = "running" => task[c] = "running"
    BY <1>3 DEF ServerDestroys, TypeOK
  <2>2. Idle.class \notin Classes
    BY Kinds DEF Idle
  <2>3. \A c \in Classes : Asked(c)' => Asked(c)
    BY <1>1, <2>1, <2>2 DEF Asked
  <2>4. \A c \in Classes : Wanted(c)' => Wanted(c)
    BY <1>1, <1>2, <2>1, <2>3 DEF Wanted, Replied, Noisy
  <2> QED BY <1>1, <1>2, <2>1, <2>4, WantedKept DEF WantedInv
<1>4. ASSUME NEW d \in Classes, FireEvent(d)
      PROVE  WantedInv'
  <2>1. /\ UNCHANGED <<sClasses, sHand, task>> /\ task[d] = "running"
        /\ toClient' = Append(toClient, Msg("event", d, 0)) /\ toClient \in Seq(Messages)
    BY <1>4 DEF FireEvent, TypeOK
  <2>2. /\ AnswersFirst(toClient')
        /\ \A c, type : Has(toClient', type, c) => Has(toClient, type, c)
                                                     \/ (type = "event" /\ c = d)
    <3>1. /\ Msg("event", d, 0) \in Messages
          /\ Msg("event", d, 0).type = "event" /\ Msg("event", d, 0).class = d
      BY MsgTyped
    <3> QED BY <2>1, <3>1, AppendFacts, AppendOrder DEF WantedInv
  <2>3. \A c \in Classes : Wanted(c)' => Wanted(c)
    BY <1>1, <1>2, <2>1, <2>2 DEF Wanted, Asked, Replied, Noisy
  <2>4. \A c \in Classes : Told(c)' => ~Has(toClient', "return", c)
    BY <1>2, <2>2 DEF WantedInv
  <2>5. \A c \in Classes : killed'[c] => kills'[c] = 2
    BY <1>1 DEF WantedInv
  <2> QED BY <1>1, <2>2, <2>3, <2>4, <2>5, WantedKept
<1> QED BY <1>3, <1>4

LEMMA WantedClientReceives ==
  ASSUME TypeOK, OwnInv, WantedInv, ClientReceives
  PROVE  WantedInv'
<1> DEFINE m == Head(toClient)
           k == m.class
<1>1. /\ m \in Messages /\ k \in Classes /\ Has(toClient, m.type, k)
      /\ toClient' = Tail(toClient)
      /\ \A c, type : Has(toClient', type, c) => Has(toClient, type, c)
  BY TailFacts, MessageFields DEF ClientReceives, TypeOK
<1>2. AnswersFirst(toClient') /\ (m.type = "killed" => ~Has(toClient', "return", k))
  BY TailOrder DEF ClientReceives, TypeOK, WantedInv
<1>3. /\ UNCHANGED <<place, mine, classes, kills, killed, toServer, sClasses, sInbox, sHand, task>>
      /\ link = "up" /\ link' = "up"
      /\ \A w \in Workers : \/ inbox'[w] = inbox[w]
                            \/ inbox'[w] = Append(inbox[w], m) /\ m.type \in {"event", "killed"}
  BY DEF ClientReceives
<1>4. \A w \in Workers : inbox[w] \in Seq(Messages)
  BY DEF TypeOK
<1> HIDE DEF m
<1>5. \A w \in Workers : \A c, type :
        /\ Has(inbox[w], type, c) => Has(inbox'[w], type, c)
        /\ Has(inbox'[w], type, c) => Has(inbox[w], type, c) \/ (m.type = type /\ c = k)
  <2> TAKE w \in Workers
  <2>1. \A c, type : Has(Append(inbox[w], m), type, c)
                       <=> Has(inbox[w], type, c) \/ (m.type = type /\ c = k)
    BY <1>1, <1>4, AppendFacts
  <2> QED BY <1>3, <2>1
<1>6. \A c : /\ Told(c) => Told(c)'
             /\ Told(c)' => Told(c) \/ (c = k /\ m.type = "killed")
  BY <1>3, <1>5 DEF Told
<1>7. \A c \in Classes : Asked(c)' => Asked(c)
  BY <1>3 DEF Asked
<1>8. \A c \in Classes : Replied(c)' => Replied(c)
  BY <1>1, <1>5 DEF Replied
<1>9. \A c \in Classes : Noisy(c)' => Noisy(c)
  BY <1>1, <1>3, <1>5, <1>6, Kinds DEF Noisy
<1>10. \A c \in Classes : Wanted(c)' => Wanted(c)
  BY <1>7, <1>8, <1>9 DEF Wanted
<1>11. \A c \in Classes : Told(c)' => ~Has(toClient', "return", c)
  BY <1>1, <1>2, <1>6 DEF WantedInv
<1>12. \A c \in Classes : killed'[c] => kills'[c] = 2
  BY <1>3 DEF WantedInv
<1> QED BY <1>2, <1>3, <1>10, <1>11, <1>12, WantedKept

LEMMA WantedClientTakes ==
  ASSUME TypeOK, OwnInv, ToldInv, WantedInv, NEW w \in Workers, ClientTakes(w)
  PROVE  WantedInv'
<1> DEFINE m == Head(inbox[w])
           k == m.class
<1>1. /\ m \in Messages /\ k \in Classes /\ Has(inbox[w], m.type, k)
      /\ \A c, type : Has(Tail(inbox[w]), type, c) => Has(inbox[w], type, c)
      /\ \A c, type : Has(inbox[w], type, c) =>
           Has(Tail(inbox[w]), type, c) \/ (m.type = type /\ c = k)
  BY TailFacts, MessageFields DEF ClientTakes, TypeOK
<1>2. /\ UNCHANGED <<place, mine, classes, link, toServer, toClient, sClasses, sInbox, sHand, task>>
      /\ \A v \in Workers : inbox'[v] = IF v = w THEN Tail(inbox[w]) ELSE inbox[v]
  BY DEF ClientTakes, TypeOK
<1>3. \/ /\ m.type = "killed"
         /\ kills' = [kills EXCEPT ![k] = @ + 1]
         /\ killed' = [killed EXCEPT ![k] = @ \/ SecondAnswer(kills[k])]
      \/ m.type # "killed" /\ UNCHANGED <<kills, killed>>
  <2>1. m.type = "killed" => Alive(k)
    <3>1. m.type = "killed" => Wanted(k)
      BY <1>1 DEF Wanted, Replied
    <3> QED BY <1>1, <3>1 DEF WantedInv, Alive
  <2> QED BY <2>1 DEF ClientTakes
<1>4. ToldInv'
  BY ToldClientTakes
<1> HIDE DEF m
<1>5. \A v \in Workers : \A c, type : Has(inbox'[v], type, c) => Has(inbox[v], type, c)
  BY <1>1, <1>2
<1>6. \A v \in Workers : \A c : Has(inbox[v], "killed", c) =>
        Has(inbox'[v], "killed", c) \/ (m.type = "killed" /\ c = k)
  BY <1>1, <1>2
<1>7. \A c \in Classes : /\ kills[c] \in Nat
                         /\ kills'[c] = kills[c] \/ (kills'[c] = kills[c] + 1 /\ c = k)
                         /\ c = k /\ m.type = "killed" => kills'[c] = kills[c] + 1
  BY <1>1, <1>3 DEF TypeOK
<1>8. ASSUME NEW c \in Classes
      PROVE  Told(c)' <=> Told(c)
  <2>1. Told(c) => Told(c)'
    BY <1>6, <1>7 DEF Told
  <2>2. CASE kills'[c] = kills[c]
    BY <1>5, <2>1, <2>2 DEF Told
  <2>3. CASE c = k /\ m.type = "killed"
    BY <1>1, <2>1, <2>3 DEF Told
  <2>4. kills'[c] = kills[c] \/ (c = k /\ m.type = "killed")
    BY <1>3, <1>7
  <2> QED BY <2>2, <2>3, <2>4
<1>9. \A c \in Classes : Wanted(c)' => Wanted(c)
  BY <1>2, <1>5, <1>8, Kinds DEF Wanted, Asked, Replied, Noisy
<1>10. ASSUME NEW c \in Classes, killed'[c]
       PROVE  kills'[c] = 2
  <2>1. kills'[c] <= 2
    <3>1. kills'[c] + Left("call", c)' + Left("event", c)' <= 2 /\ kills'[c] \in Nat
      BY <1>4, <1>7 DEF ToldInv
    <3>2. Left("call", c)' \in Nat /\ Left("event", c)' \in Nat
      BY DEF Left
    <3> HIDE DEF Left
    <3> QED BY <3>1, <3>2
  <2>2. CASE killed[c]
    BY <1>7, <2>1, <2>2 DEF WantedInv
  <2>3. CASE ~killed[c]
    <3>1. c = k /\ m.type = "killed" /\ kills[c] = 1
      BY <1>1, <1>3, <1>10, <2>3 DEF TypeOK, SecondAnswer
    <3> QED BY <1>7, <3>1
  <2> QED BY <2>2, <2>3
<1>11. \A c \in Classes : Told(c)' => ~Has(toClient', "return", c)
  BY <1>2, <1>8 DEF WantedInv
<1>12. AnswersFirst(toClient')
  BY <1>2 DEF WantedInv
<1> QED BY <1>2, <1>9, <1>10, <1>11, <1>12, WantedKept

LEMMA WantedPipe ==
  ASSUME TypeOK, OwnInv, DownInv, WantedInv, Pipe
  PROVE  WantedInv'
<1>1. \A c \in Classes : killed'[c] => kills'[c] = 2
  BY DEF WantedInv, Pipe, Break, Disconnect, StopThreads, Restart
<1>2. CASE Break
  <2>1. /\ UNCHANGED <<place, mine, classes, kills, killed, inbox>> /\ toClient' = <<>>
        /\ link' = "broken" /\ sClasses' = {}
        /\ \A w \in Workers : sInbox'[w] = <<>> /\ sHand'[w].class = Manager
        /\ \A c \in Classes : task'[c] = "none"
    BY <1>2 DEF Break, Idle
  <2>2. \A c \in Classes : ~Asked(c)' /\ ~Noisy(c)' /\ (Replied(c)' => Replied(c))
    BY <2>1, EmptyFacts, Kinds DEF Asked, Noisy, Replied
  <2>3. \A c \in Classes : Wanted(c)' => Wanted(c)
    BY <2>2 DEF Wanted
  <2> QED BY <1>1, <2>1, <2>3, EmptyFacts, EmptyOrder, WantedKept
<1>3. CASE Disconnect \/ StopThreads
  <2>1. /\ UNCHANGED <<place, mine, classes, kills, killed, inbox, toServer, toClient, sClasses,
                       sInbox, sHand, task>>
        /\ link # "up" /\ link' # "up"
    BY <1>3 DEF Disconnect, StopThreads
  <2>2. \A c \in Classes : (Told(c)' <=> Told(c)) /\ (Wanted(c)' => Wanted(c))
    BY <2>1 DEF Wanted, Asked, Noisy, Replied, Told
  <2> QED BY <1>1, <2>1, <2>2, WantedKept DEF WantedInv
<1>4. CASE Restart
  <2>1. /\ UNCHANGED <<place, mine, kills, killed, toServer, toClient, sClasses, sInbox, sHand,
                       task>>
        /\ \A w \in Workers : inbox'[w] = <<>>
        /\ link # "up"
    BY <1>4 DEF Restart
  <2>2. /\ sClasses = {} /\ toClient = <<>>
        /\ \A w \in Workers : sInbox[w] = <<>> /\ sHand[w].class = Manager
        /\ \A c \in Classes : task[c] # "running"
    BY <2>1 DEF DownInv, Idle
  <2>3. \A c \in Classes : ~Wanted(c)'
    BY <2>1, <2>2, EmptyFacts, Kinds DEF Wanted, Asked, Noisy, Replied
  <2>4. ASSUME NEW t \in Threads, place'[t] = "leave"
        PROVE  ~Wanted(mine[t])'
    <3>1. PICK c \in Classes : c = mine[t] /\ c = mine'[t]
      BY <2>1, <2>4 DEF OwnInv
    <3> QED BY <2>3, <3>1 DEF Wanted, Asked, Replied, Noisy, Told
  <2> QED BY <1>1, <2>1, <2>2, <2>3, <2>4, EmptyFacts, EmptyOrder DEF WantedInv
<1> QED BY <1>2, <1>3, <1>4 DEF Pipe

LEMMA WantedNext ==
  ASSUME TypeOK, OwnInv, KillInv, ToldInv, DownInv, CreateInv, WantedInv, [Next]_vars
  PROVE  WantedInv'
<1>1. CASE EventHandled \/ UNCHANGED vars
  <2>1. UNCHANGED <<place, mine, classes, kills, killed, inbox, link, toServer, toClient, sClasses,
                    sInbox, sHand, task>>
    BY <1>1 DEF EventHandled
  <2>2. \A c \in Classes : (Told(c)' <=> Told(c)) /\ (Wanted(c)' => Wanted(c))
    BY <2>1 DEF Wanted, Asked, Noisy, Replied, Told
  <2> QED BY <2>1, <2>2, WantedKept DEF WantedInv
<1> QED BY <1>1, WantedThread, WantedReceives, WantedTakes, WantedSends, WantedServer,
           WantedClientReceives, WantedClientTakes, WantedPipe DEF Next, ServerStep

-----------------------------------------------------------------------------
\* How many events of a class are ahead of its last message in a queue.
LEMMA EventsTyped ==
  ASSUME NEW s \in Seq(Messages), NEW c
  PROVE  IsFiniteSet(Ahead(s, c)) /\ Events(s, c) \in Nat
<1>1. IsFiniteSet(1..Len(s))
  BY FS_Interval, LenProperties
<1>2. Ahead(s, c) \in SUBSET (1..Len(s))
  BY DEF Ahead
<1>3. IsFiniteSet(Ahead(s, c))
  BY <1>1, <1>2, FS_Subset
<1> QED BY <1>3, FS_CardinalityType DEF Events

LEMMA EventsEmpty == \A c : Events(<<>>, c) = 0
<1>1. \A c : Ahead(<<>>, c) = {}
  BY EmptySeq DEF Ahead
<1> QED BY <1>1, FS_EmptySet DEF Events

LEMMA AppendEvents ==
  ASSUME NEW s \in Seq(Messages), NEW m \in Messages, NEW c
  PROVE  Events(Append(s, m), c) =
           IF m.type = "event" /\ m.class = c /\ ~Has(s, "killed", c)
             THEN Events(s, c) + 1 ELSE Events(s, c)
<1> DEFINE t == Append(s, m)
           n == Len(s) + 1
<1>1. /\ Len(t) = Len(s) + 1
      /\ \A i \in 1..Len(s) : t[i] = s[i]
      /\ t[Len(s) + 1] = m
      /\ Len(s) \in Nat
  BY AppendProperties, LenProperties
<1>2. n \notin Ahead(s, c)
  BY <1>1 DEF Ahead
<1> HIDE DEF t
<1>3. \A i \in 1..Len(t) : i \in 1..Len(s) \/ i = n
  BY <1>1
<1>4. \A i \in 1..Len(s) : i \in 1..Len(t) /\ \A j \in 1..i : j \in 1..Len(s)
  BY <1>1
<1>5. \A i \in 1..Len(s) : i \in Ahead(t, c) <=> i \in Ahead(s, c)
  BY <1>1, <1>4 DEF Ahead
<1>6. Ahead(s, c) \subseteq 1..Len(s) /\ Ahead(t, c) \subseteq 1..Len(t)
  BY DEF Ahead
<1>7. n \in Ahead(t, c) <=> m.type = "event" /\ m.class = c /\ ~Has(s, "killed", c)
  <2>1. n \in 1..Len(t) /\ t[n] = m /\ \A j \in 1..n : j \in 1..Len(s) \/ j = n
    BY <1>1
  <2>2. \A j \in 1..Len(s) : j \in 1..n /\ t[j] = s[j]
    BY <1>1
  <2> HIDE DEF n
  <2> QED BY <2>1, <2>2 DEF Ahead, Has
<1> HIDE DEF n
<1>8. CASE n \in Ahead(t, c)
  <2>1. Ahead(t, c) = Ahead(s, c) \union {n}
    BY <1>3, <1>5, <1>6, <1>8
  <2>2. Cardinality(Ahead(t, c)) = Cardinality(Ahead(s, c)) + 1
    BY <1>2, <2>1, EventsTyped, FS_AddElement
  <2> QED BY <1>7, <1>8, <2>2 DEF Events, t
<1>9. CASE n \notin Ahead(t, c)
  <2>1. Ahead(t, c) = Ahead(s, c)
    BY <1>3, <1>5, <1>6, <1>9
  <2> QED BY <1>7, <1>9, <2>1 DEF Events, t
<1> QED BY <1>8, <1>9

LEMMA Shifted ==
  ASSUME NEW R, NEW T, R \subseteq Nat, IsFiniteSet(R),
         \A i \in R : i + 1 \in T, \A i \in T : i \in Nat /\ i # 0 /\ i - 1 \in R
  PROVE  IsFiniteSet(T) /\ Cardinality(T) = Cardinality(R)
<1> DEFINE f == [i \in R |-> i + 1]
<1>1. f \in [R -> T]
  OBVIOUS
<1>2. \A i, j \in R : f[i] = f[j] => i = j
  OBVIOUS
<1>3. \A x \in T : \E i \in R : f[i] = x
  <2> TAKE x \in T
  <2>1. x - 1 \in R /\ (x - 1) + 1 = x
    OBVIOUS
  <2> QED BY <2>1
<1> HIDE DEF f
<1>4. f \in Bijection(R, T)
  BY <1>1, <1>2, <1>3 DEF Bijection, Injection, IsInjective, Surjection
<1>5. ExistsBijection(R, T)
  BY <1>4 DEF ExistsBijection
<1> QED BY <1>5, FS_Bijection

LEMMA TailEvents ==
  ASSUME NEW s \in Seq(Messages), s # <<>>, NEW c
  PROVE  LET m == Head(s)
             r == Tail(s) IN
         /\ m.class = c /\ m.type = "event" => Events(s, c) = Events(r, c) + 1
         /\ m.class = c /\ m.type = "killed" => Events(s, c) = 0
         /\ ~(m.class = c /\ m.type \in {"event", "killed"}) => Events(s, c) = Events(r, c)
<1> DEFINE m == Head(s)
           r == Tail(s)
           S == Ahead(s, c)
           R == Ahead(r, c)
           T == S \ {1}
<1>1. /\ r \in Seq(Messages)
      /\ Len(r) = Len(s) - 1
      /\ \A i \in 1..Len(r) : r[i] = s[i + 1]
      /\ Len(s) \in Nat /\ Len(s) >= 1
      /\ m = s[1]
  BY HeadTailProperties, LenProperties, EmptySeq
<1>2. IsFiniteSet(S) /\ IsFiniteSet(R) /\ Cardinality(S) \in Nat /\ Cardinality(R) \in Nat
  BY <1>1, EventsTyped DEF Events
<1> HIDE DEF m, r
<1>3. S \subseteq 1..Len(s) /\ R \subseteq 1..Len(r)
  BY DEF Ahead
<1>4. CASE m.class = c /\ m.type = "killed"
  <2>1. ASSUME NEW i \in S
        PROVE  FALSE
    <3>1. 1 \in 1..i
      BY <1>3
    <3> QED BY <1>1, <1>4, <3>1 DEF Ahead
  <2>2. Events(s, c) = 0
    BY <2>1, FS_EmptySet DEF Events
  <2> QED BY <1>4, <2>2 DEF m, r
<1>5. CASE ~(m.class = c /\ m.type = "killed")
  <2>1. ASSUME NEW i \in R
        PROVE  i + 1 \in T
    <3>1. i \in 1..Len(r) /\ i + 1 \in 1..Len(s) /\ s[i + 1] = r[i] /\ i + 1 # 1
      BY <1>1, <1>3
    <3>2. r[i].type = "event" /\ r[i].class = c
      BY DEF Ahead
    <3>3. ASSUME NEW j \in 1..(i + 1)
          PROVE  ~(s[j].type = "killed" /\ s[j].class = c)
      <4>1. CASE j = 1
        BY <1>1, <1>5, <4>1
      <4>2. CASE j # 1
        <5>1. j - 1 \in 1..i /\ j - 1 \in 1..Len(r) /\ (j - 1) + 1 = j
          BY <1>1, <3>1, <4>2
        <5>2. ~(r[j - 1].type = "killed" /\ r[j - 1].class = c)
          BY <5>1 DEF Ahead
        <5> QED BY <1>1, <5>1, <5>2
      <4> QED BY <4>1, <4>2
    <3> QED BY <3>1, <3>2, <3>3 DEF Ahead
  <2>2. ASSUME NEW i \in T
        PROVE  i \in Nat /\ i # 0 /\ i - 1 \in R
    <3>1. i \in 1..Len(s) /\ i # 1 /\ i - 1 \in 1..Len(r) /\ (i - 1) + 1 = i
      BY <1>1, <1>3
    <3>2. r[i - 1] = s[i] /\ s[i].type = "event" /\ s[i].class = c
      BY <1>1, <3>1 DEF Ahead
    <3>3. ASSUME NEW j \in 1..(i - 1)
          PROVE  ~(r[j].type = "killed" /\ r[j].class = c)
      <4>1. j + 1 \in 1..i /\ j \in 1..Len(r)
        BY <1>1, <3>1
      <4>2. ~(s[j + 1].type = "killed" /\ s[j + 1].class = c)
        BY <4>1 DEF Ahead
      <4> QED BY <1>1, <4>1, <4>2
    <3> QED BY <3>1, <3>2, <3>3 DEF Ahead
  <2>3. 1 \in S <=> m.class = c /\ m.type = "event"
    BY <1>1, <1>5 DEF Ahead
  <2>4. R \subseteq Nat
    BY <1>3
  <2> HIDE DEF R, S, T
  <2>5. Cardinality(T) = Cardinality(R)
    BY <1>2, <2>1, <2>2, <2>4, Shifted
  <2>6. Cardinality(T) = IF 1 \in S THEN Cardinality(S) - 1 ELSE Cardinality(S)
    BY <1>2, FS_RemoveElement DEF T
  <2>7. Events(s, c) = Cardinality(S) /\ Events(r, c) = Cardinality(R)
    BY DEF Events, S, R
  <2>8. CASE 1 \in S
    BY <1>2, <1>5, <2>3, <2>5, <2>6, <2>7, <2>8 DEF m, r
  <2>9. CASE 1 \notin S
    BY <1>2, <1>5, <2>3, <2>5, <2>6, <2>7, <2>9 DEF m, r
  <2> QED BY <2>8, <2>9
<1> QED BY <1>4, <1>5

-----------------------------------------------------------------------------
\* The events the service had sent when it answered the kill of a class are run
\* before the client has taken both of the answers.
LEMMA FlowTyped ==
  ASSUME TypeOK, NEW c \in Classes
  PROVE  /\ fired[c] \in Nat /\ promised[c] \in Nat /\ handled[c] \in Nat /\ kills[c] \in Nat
         /\ Runs(c) \in {0, 1}
         /\ Events(inbox["event"], c) \in Nat /\ Events(toClient, c) \in Nat
         /\ Coming(c) \in Nat
<1>1. inbox["event"] \in Seq(Messages) /\ toClient \in Seq(Messages)
  BY Kinds DEF TypeOK
<1>2. Events(inbox["event"], c) \in Nat /\ Events(toClient, c) \in Nat
  BY <1>1, EventsTyped
<1>3. Runs(c) \in {0, 1}
  BY DEF Runs
<1>4. fired[c] \in Nat /\ promised[c] \in Nat /\ handled[c] \in Nat /\ kills[c] \in Nat
  BY DEF TypeOK
<1> QED BY <1>2, <1>3, <1>4 DEF Coming

\* A step that leaves the events and the kill of a class where they are.
LEMMA FlowSame ==
  ASSUME TypeOK, NEW c \in Classes, Flow(c),
         fired'[c] = fired[c], promised'[c] = promised[c], handled'[c] = handled[c],
         kills'[c] = kills[c], killed'[c] = killed[c], Runs(c)' = Runs(c),
         Events(inbox'["event"], c) = Events(inbox["event"], c),
         Events(toClient', c) = Events(toClient, c),
         Has(toClient', "killed", c) <=> Has(toClient, "killed", c),
         \A w \in Workers : Has(inbox'[w], "killed", c) <=> Has(inbox[w], "killed", c),
         ~Has(inbox'["call"], "event", c),
         c \in sClasses' => c \in sClasses \/ fired[c] = 0
  PROVE  Flow(c)'
<1>1. Coming(c)' = Coming(c)
  BY DEF Coming
<1>2. Told(c)' <=> Told(c)
  BY DEF Told
<1>3. fired[c] = 0 => fired[c] <= Coming(c) + Events(toClient, c)
  BY FlowTyped
<1> QED BY <1>1, <1>2, <1>3, Kinds DEF Flow

LEMMA FlowStill ==
  ASSUME TypeOK, FlowInv,
         UNCHANGED <<fired, promised, handled, kills, killed, running, inbox, toClient>>,
         sClasses' \subseteq sClasses
  PROVE  FlowInv'
<1> SUFFICES ASSUME NEW c \in Classes PROVE Flow(c)'
  BY DEF FlowInv
<1>1. Runs(c)' = Runs(c)
  BY DEF Runs
<1>2. Flow(c) /\ ~Has(inbox["call"], "event", c)
  BY DEF FlowInv, Flow
<1> QED BY <1>1, <1>2, FlowSame

LEMMA FlowReceives ==
  ASSUME TypeOK, CreateInv, FlowInv, ServerReceives
  PROVE  FlowInv'
<1> DEFINE m == Head(toServer)
           k == m.class
<1>1. /\ m \in Messages /\ k \in Classes /\ m.id \in Nat /\ Has(toServer, m.type, k)
      /\ toClient \in Seq(Messages)
  BY TailFacts, MessageFields DEF ServerReceives, TypeOK
<1>2. /\ UNCHANGED <<fired, promised, handled, kills, killed, running, inbox>>
      /\ \/ m.type = "create" /\ sClasses' = sClasses \union {k}
            /\ toClient' = Append(toClient, Msg("created", k, m.id))
         \/ UNCHANGED <<sClasses, toClient>>
  BY DEF ServerReceives
<1> HIDE DEF m
<1>3. CASE UNCHANGED <<sClasses, toClient>>
  BY <1>2, <1>3, FlowStill
<1>4. CASE /\ m.type = "create" /\ sClasses' = sClasses \union {k}
           /\ toClient' = Append(toClient, Msg("created", k, m.id))
  <2> SUFFICES ASSUME NEW c \in Classes PROVE Flow(c)'
    BY DEF FlowInv
  <2>1. /\ Msg("created", k, m.id) \in Messages
        /\ Msg("created", k, m.id).type = "created"
    BY <1>1, MsgTyped
  <2>2. /\ Events(toClient', c) = Events(toClient, c)
        /\ Has(toClient', "killed", c) <=> Has(toClient, "killed", c)
    BY <1>1, <1>4, <2>1, AppendEvents, AppendFacts
  <2>3. fired[k] = 0
    BY <1>1, <1>4 DEF CreateInv, Unborn
  <2>4. Runs(c)' = Runs(c)
    BY <1>2 DEF Runs
  <2>5. Flow(c) /\ ~Has(inbox["call"], "event", c)
    BY DEF FlowInv, Flow
  <2>6. c \in sClasses' => c \in sClasses \/ fired[c] = 0
    BY <1>4, <2>3
  <2> QED BY <1>2, <2>2, <2>4, <2>5, <2>6, FlowSame
<1> QED BY <1>2, <1>3, <1>4

\* The answer to a kill promises what has been fired.
LEMMA FlowSends ==
  ASSUME TypeOK, OwnInv, KillInv, ToldInv, WantedInv, FlowInv,
         NEW w \in Workers, ServerSends(w)
  PROVE  FlowInv'
<1> SUFFICES ASSUME NEW c \in Classes PROVE Flow(c)'
  BY DEF FlowInv
<1> DEFINE h == sHand[w]
           k == h.class
<1>1. /\ k \in Classes /\ h.id \in Nat /\ h.do \in {"return", "complete"}
      /\ toClient \in Seq(Messages)
  BY SendsFacts DEF TypeOK
<1>2. k \in sClasses
  BY <1>1 DEF KillInv, Known
<1>3. Asked(k) /\ ~Told(k) /\ ~Has(toClient, "killed", k)
  <2>1. Asked(k)
    BY <1>1 DEF Asked
  <2> QED BY <1>1, <2>1, Unasked
<1>4. PICK m \in Messages :
        /\ toClient' = Append(toClient, m) /\ m.class = k
        /\ m.type = IF h.do = "complete" THEN "killed" ELSE "return"
  <2>1. PICK type \in {"return", "killed"} :
          toClient' = Append(toClient, Msg(type, k, h.id))
            /\ type = IF h.do = "complete" THEN "killed" ELSE "return"
    BY SendsFacts
  <2>2. /\ Msg(type, k, h.id) \in Messages
        /\ Msg(type, k, h.id).class = k /\ Msg(type, k, h.id).type = type
    BY <1>1, MsgTyped
  <2> QED BY <2>1, <2>2
<1>5. /\ UNCHANGED <<fired, handled, kills, killed, running, inbox, sClasses>>
      /\ promised' = IF h.do = "complete" THEN [promised EXCEPT ![k] = fired[k]] ELSE promised
  BY <1>2 DEF ServerSends
<1> HIDE DEF h
<1>6. /\ Events(toClient', c) = Events(toClient, c)
      /\ Has(toClient', "killed", c) <=>
           Has(toClient, "killed", c) \/ (h.do = "complete" /\ c = k)
  BY <1>1, <1>4, AppendEvents, AppendFacts
<1>7. Runs(c)' = Runs(c)
  BY <1>5 DEF Runs
<1>8. Flow(c) /\ ~Has(inbox["call"], "event", c)
  BY DEF FlowInv, Flow
<1>9. CASE ~(h.do = "complete" /\ c = k)
  <2>1. promised'[c] = promised[c]
    BY <1>5, <1>9 DEF TypeOK
  <2> QED BY <1>5, <1>6, <1>7, <1>8, <1>9, <2>1, FlowSame
<1>10. CASE h.do = "complete" /\ c = k
  <2>1. promised'[c] = fired[c]
    BY <1>5, <1>10 DEF TypeOK
  <2>2. fired[c] <= Coming(c) + Events(toClient, c)
    BY <1>2, <1>3, <1>8, <1>10 DEF Flow
  <2>3. Coming(c)' = Coming(c)
    BY <1>5, <1>7 DEF Coming
  <2>4. ~killed[c] /\ \A v \in Workers : ~Has(inbox[v], "killed", c)
    BY <1>3, <1>10 DEF Told, WantedInv
  <2> QED BY <1>5, <1>6, <1>8, <2>1, <2>2, <2>3, <2>4, <1>10, Kinds DEF Flow
<1> QED BY <1>9, <1>10

LEMMA FlowFires ==
  ASSUME TypeOK, FlowInv, NEW d \in Classes, FireEvent(d)
  PROVE  FlowInv'
<1> SUFFICES ASSUME NEW c \in Classes PROVE Flow(c)'
  BY DEF FlowInv
<1>1. /\ UNCHANGED <<promised, handled, kills, killed, running, inbox, sClasses>>
      /\ fired' = [fired EXCEPT ![d] = fired[d] + 1]
      /\ toClient' = Append(toClient, Msg("event", d, 0)) /\ toClient \in Seq(Messages)
  BY DEF FireEvent, TypeOK
<1>2. /\ Msg("event", d, 0) \in Messages
      /\ Msg("event", d, 0).type = "event" /\ Msg("event", d, 0).class = d
  BY MsgTyped
<1>3. /\ Events(toClient', c) = IF d = c /\ ~Has(toClient, "killed", c)
                                  THEN Events(toClient, c) + 1 ELSE Events(toClient, c)
      /\ Has(toClient', "killed", c) <=> Has(toClient, "killed", c)
  BY <1>1, <1>2, AppendEvents, AppendFacts
<1>4. fired'[c] = IF d = c THEN fired[c] + 1 ELSE fired[c]
  BY <1>1 DEF TypeOK
<1>5. Runs(c)' = Runs(c)
  BY <1>1 DEF Runs
<1>6. Flow(c) /\ ~Has(inbox["call"], "event", c)
  BY DEF FlowInv, Flow
<1>7. CASE c # d
  BY <1>1, <1>3, <1>4, <1>5, <1>6, <1>7, FlowSame
<1>8. CASE c = d
  <2>1. Coming(c)' = Coming(c) /\ (Told(c)' <=> Told(c))
    BY <1>1, <1>5 DEF Coming, Told
  <2>2. fired[c] \in Nat /\ Coming(c) \in Nat /\ Events(toClient, c) \in Nat /\ promised[c] \in Nat
    BY FlowTyped
  <2>3. CASE Has(toClient, "killed", c)
    BY <1>1, <1>3, <1>6, <2>1, <2>3 DEF Flow
  <2>4. CASE ~Has(toClient, "killed", c)
    <3>1. /\ Events(toClient', c) = Events(toClient, c) + 1 /\ fired'[c] = fired[c] + 1
          /\ ~Has(toClient', "killed", c)
      BY <1>3, <1>4, <1>8, <2>4
    <3>2. c \in sClasses /\ ~Told(c) => fired'[c] <= Coming(c) + Events(toClient', c)
      <4>1. c \in sClasses /\ ~Told(c) => fired[c] <= Coming(c) + Events(toClient, c)
        BY <1>6, <2>4 DEF Flow
      <4> QED BY <2>2, <3>1, <4>1
    <3> QED BY <1>1, <1>6, <2>1, <3>1, <3>2 DEF Flow
  <2> QED BY <2>3, <2>4
<1> QED BY <1>7, <1>8

LEMMA FlowClientReceives ==
  ASSUME TypeOK, ToldInv, WantedInv, FlowInv, ClientReceives
  PROVE  FlowInv'
<1> SUFFICES ASSUME NEW c \in Classes PROVE Flow(c)'
  BY DEF FlowInv
<1> DEFINE m == Head(toClient)
           k == m.class
<1>1. /\ m \in Messages /\ k \in Classes /\ Has(toClient, m.type, k)
      /\ toClient' = Tail(toClient)
      /\ Has(toClient', "killed", c) => Has(toClient, "killed", c)
      /\ Has(toClient, "killed", c) => Has(toClient', "killed", c) \/ (m.type = "killed" /\ k = c)
      /\ m.type = "killed" => ~Has(toClient', "killed", k)
  BY TailFacts, MessageFields DEF ClientReceives, TypeOK, ToldInv
<1>2. /\ k = c /\ m.type = "event" => Events(toClient, c) = Events(toClient', c) + 1
      /\ k = c /\ m.type = "killed" => Events(toClient, c) = 0
      /\ ~(k = c /\ m.type \in {"event", "killed"}) => Events(toClient', c) = Events(toClient, c)
  BY TailEvents DEF ClientReceives, TypeOK
<1>3. /\ UNCHANGED <<fired, promised, handled, kills, killed, running, sClasses>> /\ link = "up"
      /\ \/ m.type \in {"created", "return"} /\ UNCHANGED inbox
         \/ /\ m.type \in {"event", "killed"}
            /\ \A w \in Workers :
                 inbox'[w] = IF k \in classes /\ (m.type = "killed" \/ w = "event")
                               THEN Append(inbox[w], m)
                               ELSE inbox[w]
  BY DEF ClientReceives
<1>4. \A w \in Workers : inbox[w] \in Seq(Messages)
  BY DEF TypeOK
<1>5. Events(toClient', c) \in Nat
  <2>1. toClient' \in Seq(Messages)
    BY TailFacts DEF ClientReceives, TypeOK
  <2> QED BY <2>1, EventsTyped
<1> HIDE DEF m
<1>6. Runs(c)' = Runs(c)
  BY <1>3 DEF Runs
<1>7. Flow(c) /\ ~Has(inbox["call"], "event", c)
  BY DEF FlowInv, Flow
<1>8. CASE ~(k = c /\ m.type \in {"event", "killed"})
  <2>1. Has(toClient', "killed", c) <=> Has(toClient, "killed", c)
    BY <1>1, <1>8
  <2>2. ASSUME NEW w \in Workers
        PROVE  /\ Has(inbox'[w], "killed", c) <=> Has(inbox[w], "killed", c)
               /\ Has(inbox'[w], "event", c) <=> Has(inbox[w], "event", c)
               /\ Events(inbox'[w], c) = Events(inbox[w], c)
    <3>1. inbox'[w] = inbox[w] \/ (inbox'[w] = Append(inbox[w], m) /\ k # c)
      BY <1>3, <1>8
    <3>2. CASE inbox'[w] = inbox[w]
      BY <3>2
    <3>3. CASE inbox'[w] = Append(inbox[w], m) /\ k # c
      BY <1>1, <1>4, <3>3, AppendEvents, AppendFacts
    <3> QED BY <3>1, <3>2, <3>3
  <2> QED BY <1>2, <1>3, <1>6, <1>7, <1>8, <2>1, <2>2, FlowSame, Kinds
<1>9. CASE k = c /\ m.type = "event"
  <2>1. Has(toClient', "killed", c) <=> Has(toClient, "killed", c)
    BY <1>1, <1>9
  <2>2. inbox'["call"] = inbox["call"]
    BY <1>3, <1>9, Kinds
  <2>3. inbox'["event"] = IF c \in classes THEN Append(inbox["event"], m) ELSE inbox["event"]
    BY <1>3, <1>9, Kinds
  <2>4. /\ Has(inbox'["event"], "killed", c) <=> Has(inbox["event"], "killed", c)
        /\ Events(inbox'["event"], c) = IF c \in classes /\ ~Has(inbox["event"], "killed", c)
                                          THEN Events(inbox["event"], c) + 1
                                          ELSE Events(inbox["event"], c)
    <3>1. CASE c \in classes
      BY <1>1, <1>4, <1>9, <2>3, <3>1, Kinds, AppendEvents, AppendFacts
    <3>2. CASE c \notin classes
      BY <2>3, <3>2
    <3> QED BY <3>1, <3>2
  <2>5. Told(c)' <=> Told(c)
    BY <1>3, <2>2, <2>4, Kinds DEF Told
  <2>6. ~Told(c) => c \in classes
    <3>1. ~Told(c) => Wanted(c)
      BY <1>1, <1>9 DEF Wanted, Noisy
    <3> QED BY <3>1 DEF WantedInv
  <2>7. Has(toClient, "killed", c) => ~Told(c)
    BY DEF ToldInv
  <2>8. /\ Coming(c)' = handled[c] + Runs(c) + Events(inbox'["event"], c)
        /\ Coming(c) = handled[c] + Runs(c) + Events(inbox["event"], c)
        /\ handled[c] \in Nat /\ Runs(c) \in Nat /\ Events(inbox["event"], c) \in Nat
        /\ promised[c] \in Nat
    BY <1>3, <1>6, FlowTyped DEF Coming
  <2>9. Coming(c) <= Coming(c)' /\ Coming(c)' \in Nat /\ Coming(c) \in Nat
    BY <2>4, <2>8
  <2>10. ~Told(c) => Coming(c)' + Events(toClient', c) = Coming(c) + Events(toClient, c)
    <3> SUFFICES ASSUME ~Told(c)
                 PROVE  Coming(c)' + Events(toClient', c) = Coming(c) + Events(toClient, c)
      OBVIOUS
    <3>1. Events(inbox'["event"], c) = Events(inbox["event"], c) + 1
      BY <2>4, <2>6, Kinds DEF Told
    <3> QED BY <1>2, <1>5, <1>9, <2>8, <3>1
  <2>11. ~Told(c) /\ c \in sClasses /\ ~Has(toClient, "killed", c) =>
           fired[c] <= Coming(c)' + Events(toClient', c)
    BY <1>7, <2>10 DEF Flow
  <2>12. Has(toClient, "killed", c) => promised[c] <= Coming(c)' + Events(toClient', c)
    BY <1>7, <2>7, <2>10 DEF Flow
  <2>13. Has(inbox["event"], "killed", c) => promised[c] <= Coming(c)'
    <3>1. Has(inbox["event"], "killed", c) => promised[c] <= Coming(c)
      BY <1>7 DEF Flow
    <3> QED BY <2>8, <2>9, <3>1
  <2>14. (Has(inbox["call"], "killed", c) /\ ~Has(inbox["event"], "killed", c)) \/ killed[c]
           => promised[c] <= handled[c]
    BY <1>7 DEF Flow
  <2> QED BY <1>3, <1>7, <2>1, <2>2, <2>4, <2>5, <2>11, <2>12, <2>13, <2>14 DEF Flow
<1>10. CASE k = c /\ m.type = "killed"
  <2>1. Has(toClient, "killed", c) /\ ~Has(toClient', "killed", c) /\ Events(toClient, c) = 0
    BY <1>1, <1>2, <1>10
  <2>2. c \in classes
    <3>1. Wanted(c)
      BY <2>1 DEF Wanted, Replied
    <3> QED BY <3>1 DEF WantedInv
  <2>3. inbox'["call"] = Append(inbox["call"], m) /\ inbox'["event"] = Append(inbox["event"], m)
    BY <1>3, <1>10, <2>2, Kinds
  <2>4. /\ Has(inbox'["event"], "killed", c)
        /\ Events(inbox'["event"], c) = Events(inbox["event"], c)
        /\ ~Has(inbox'["call"], "event", c)
    BY <1>1, <1>4, <1>7, <1>10, <2>3, Kinds, AppendEvents, AppendFacts
  <2>5. Told(c)'
    BY <2>4, Kinds DEF Told
  <2>6. Coming(c)' = Coming(c)
    BY <1>3, <1>6, <2>4 DEF Coming
  <2>7. promised[c] <= Coming(c)
    <3>1. promised[c] <= Coming(c) + Events(toClient, c)
      BY <1>7, <2>1 DEF Flow
    <3> QED BY <2>1, <3>1, FlowTyped
  <2>8. killed[c] => promised[c] <= handled[c]
    BY <1>7 DEF Flow
  <2> QED BY <1>3, <2>1, <2>4, <2>5, <2>6, <2>7, <2>8 DEF Flow
<1> QED BY <1>8, <1>9, <1>10

LEMMA FlowClientTakes ==
  ASSUME TypeOK, ToldInv, DownInv, WantedInv, FlowInv, NEW w \in Workers, ClientTakes(w)
  PROVE  FlowInv'
<1> SUFFICES ASSUME NEW c \in Classes PROVE Flow(c)'
  BY DEF FlowInv
<1> DEFINE m == Head(inbox[w])
           k == m.class
<1>1. /\ m \in Messages /\ k \in Classes /\ Has(inbox[w], m.type, k)
      /\ \A type : Has(Tail(inbox[w]), type, c) => Has(inbox[w], type, c)
      /\ \A type : Has(inbox[w], type, c) =>
           Has(Tail(inbox[w]), type, c) \/ (m.type = type /\ k = c)
      /\ m.type = "killed" => ~Has(Tail(inbox[w]), "killed", k)
  BY TailFacts, MessageFields DEF ClientTakes, TypeOK, ToldInv
<1>2. /\ k = c /\ m.type = "event" => Events(inbox[w], c) = Events(Tail(inbox[w]), c) + 1
      /\ k = c /\ m.type = "killed" => Events(inbox[w], c) = 0
      /\ ~(k = c /\ m.type \in {"event", "killed"}) =>
           Events(Tail(inbox[w]), c) = Events(inbox[w], c)
  BY TailEvents DEF ClientTakes, TypeOK
<1>3. /\ UNCHANGED <<fired, promised, handled, toClient, sClasses>>
      /\ \A v \in Workers : inbox'[v] = IF v = w THEN Tail(inbox[w]) ELSE inbox[v]
      /\ w = "event" => running = Manager
      /\ \/ /\ m.type = "killed" /\ UNCHANGED running
            /\ kills' = [kills EXCEPT ![k] = @ + 1]
            /\ killed' = [killed EXCEPT ![k] = @ \/ SecondAnswer(kills[k])]
         \/ m.type = "event" /\ running' = k /\ UNCHANGED <<kills, killed>>
         \/ ~Alive(k) /\ UNCHANGED <<running, kills, killed>>
  BY DEF ClientTakes, TypeOK
<1>4. Wanted(k) => Alive(k)
  BY <1>1 DEF WantedInv, Alive
<1> HIDE DEF m
<1>5. Flow(c) /\ ~Has(inbox["call"], "event", c)
  BY DEF FlowInv, Flow
<1>6. ~(k = c /\ m.type = "event" /\ w = "call")
  BY <1>1, <1>5
<1>7. \A v \in Workers : \A type : Has(inbox'[v], type, c) => Has(inbox[v], type, c)
  BY <1>1, <1>3
<1>8. CASE ~(k = c /\ m.type \in {"event", "killed"})
  <2>1. \A v \in Workers : /\ Has(inbox'[v], "killed", c) <=> Has(inbox[v], "killed", c)
                           /\ Events(inbox'[v], c) = Events(inbox[v], c)
    BY <1>1, <1>2, <1>3, <1>8
  <2>2. kills'[c] = kills[c] /\ killed'[c] = killed[c]
    BY <1>3, <1>8 DEF TypeOK
  <2>3. Runs(c)' = Runs(c)
    <3>1. CASE UNCHANGED running
      BY <3>1 DEF Runs
    <3>2. CASE m.type = "event" /\ running' = k
      <4>1. w = "event"
        <5>1. ~Has(inbox["call"], "event", k)
          BY <1>1 DEF FlowInv, Flow
        <5> QED BY <1>1, <3>2, <5>1, Kinds
      <4> QED BY <1>3, <1>8, <3>2, <4>1, Kinds DEF Runs
    <3> QED BY <1>3, <3>1, <3>2
  <2>4. ~Has(inbox'["call"], "event", c)
    BY <1>5, <1>7, Kinds
  <2> QED BY <1>3, <1>5, <2>1, <2>2, <2>3, <2>4, FlowSame, Kinds
<1>9. CASE k = c /\ m.type = "event"
  <2>1. w = "event" /\ inbox'["event"] = Tail(inbox["event"]) /\ inbox'["call"] = inbox["call"]
    BY <1>3, <1>6, <1>9, Kinds
  <2>2. Has(inbox'["event"], "killed", c) <=> Has(inbox["event"], "killed", c)
    BY <1>1, <1>3, <1>9, <2>1, Kinds
  <2>3. UNCHANGED <<kills, killed>>
    BY <1>3, <1>9
  <2>4. Told(c)' <=> Told(c)
    BY <2>1, <2>2, <2>3, Kinds DEF Told
  <2>5. CASE running' = k
    <3>1. Coming(c)' = Coming(c)
      <4>1. Events(inbox["event"], c) = Events(inbox'["event"], c) + 1
        BY <1>2, <1>9, <2>1
      <4>2. Runs(c) = 0 /\ Runs(c)' = 1
        BY <1>3, <1>9, <2>1, <2>5, Kinds DEF Runs
      <4>3. Events(inbox'["event"], c) \in Nat
        <5>1. inbox'["event"] \in Seq(Messages)
          BY <2>1, TailFacts DEF ClientTakes, TypeOK
        <5> QED BY <5>1, EventsTyped
      <4>4. handled[c] \in Nat /\ handled'[c] = handled[c]
        BY <1>3, FlowTyped
      <4> QED BY <4>1, <4>2, <4>3, <4>4 DEF Coming
    <3> QED BY <1>3, <1>5, <2>1, <2>2, <2>3, <2>4, <3>1 DEF Flow
  <2>6. CASE ~Alive(k)
    <3>1. ~Wanted(c)
      BY <1>4, <1>9, <2>6
    <3>2. /\ ~Has(toClient, "killed", c) /\ ~Has(inbox["event"], "killed", c)
          /\ ~Has(inbox["call"], "killed", c)
      BY <3>1, Kinds DEF Wanted, Replied
    <3>3. c \in sClasses /\ ~Told(c) => FALSE
      <4>1. link = "up" => Told(c)
        BY <1>1, <1>9, <2>1, <3>1 DEF Wanted, Noisy
      <4> QED BY <4>1 DEF DownInv
    <3> QED BY <1>3, <1>5, <2>1, <2>2, <2>3, <2>4, <3>2, <3>3 DEF Flow
  <2> QED BY <1>3, <1>9, <2>5, <2>6
<1>10. CASE k = c /\ m.type = "killed"
  <2>1. Has(inbox[w], "killed", c) /\ Told(c) /\ ~Has(inbox'[w], "killed", c)
    BY <1>1, <1>3, <1>10 DEF Told
  <2>2. ~Has(toClient, "killed", c)
    BY <2>1 DEF ToldInv
  <2>3. Alive(k)
    <3>1. Wanted(k)
      BY <1>10, <2>1 DEF Wanted, Replied
    <3> QED BY <1>4, <3>1
  <2>4. /\ UNCHANGED running /\ kills'[c] = kills[c] + 1 /\ kills[c] \in Nat
        /\ killed'[c] => killed[c] \/ kills[c] = 1
    BY <1>3, <1>10, <2>3 DEF TypeOK, SecondAnswer
  <2>5. Told(c)'
    BY <2>4 DEF Told
  <2>6. ~Has(inbox'["call"], "event", c)
    BY <1>5, <1>7, Kinds
  <2>7. CASE w = "event"
    <3>1. promised[c] <= handled[c]
      <4>1. promised[c] <= Coming(c)
        BY <1>5, <2>1, <2>7 DEF Flow
      <4>2. Runs(c) = 0 /\ Events(inbox["event"], c) = 0
        BY <1>2, <1>3, <1>10, <2>7, Kinds DEF Runs
      <4> QED BY <4>1, <4>2, FlowTyped DEF Coming
    <3> QED BY <1>3, <2>1, <2>2, <2>5, <2>6, <2>7, <3>1 DEF Flow
  <2>8. CASE w = "call"
    <3>1. inbox'["event"] = inbox["event"] /\ Coming(c)' = Coming(c)
      <4>1. inbox'["event"] = inbox["event"]
        BY <1>3, <2>8, Kinds
      <4> QED BY <1>3, <2>4, <4>1 DEF Coming, Runs
    <3>2. kills[c] = 1 => ~Has(inbox["event"], "killed", c)
      <4>1. kills[c] + Left("call", c) + Left("event", c) <= 2
        BY DEF ToldInv
      <4>2. Left("call", c) = 1
        BY <2>1, <2>8 DEF Left
      <4>3. Has(inbox["event"], "killed", c) => Left("event", c) = 1
        BY DEF Left
      <4> HIDE DEF Left
      <4> QED BY <4>1, <4>2, <4>3
    <3>3. kills[c] = 1 => promised[c] <= handled[c]
      BY <1>5, <2>1, <2>8, <3>2 DEF Flow
    <3>4. killed'[c] => promised[c] <= handled[c]
      BY <1>5, <2>4, <3>3 DEF Flow
    <3>5. Has(inbox["event"], "killed", c) => promised[c] <= Coming(c)
      BY <1>5 DEF Flow
    <3> QED BY <1>3, <2>1, <2>2, <2>5, <2>6, <2>8, <3>1, <3>4, <3>5 DEF Flow
  <2> QED BY <2>7, <2>8, Kinds
<1> QED BY <1>8, <1>9, <1>10

LEMMA FlowHandled ==
  ASSUME TypeOK, FlowInv, EventHandled
  PROVE  FlowInv'
<1> SUFFICES ASSUME NEW c \in Classes PROVE Flow(c)'
  BY DEF FlowInv
<1>1. /\ UNCHANGED <<fired, promised, kills, killed, inbox, toClient, sClasses>>
      /\ running # Manager /\ running' = Manager
      /\ handled'[c] = handled[c] + Runs(c) /\ handled[c] \in Nat /\ handled'[c] \in Nat
  <2>1. handled \in [Classes -> Nat] /\ running \in Classes \union {Manager}
    BY DEF TypeOK
  <2>2. /\ UNCHANGED <<fired, promised, kills, killed, inbox, toClient, sClasses>>
        /\ running # Manager /\ running' = Manager
        /\ handled' = [handled EXCEPT ![running] = handled[running] + 1]
    BY DEF EventHandled
  <2>3. CASE running = c
    BY <2>1, <2>2, <2>3 DEF Runs
  <2>4. CASE running # c
    BY <2>1, <2>2, <2>4 DEF Runs
  <2> QED BY <2>3, <2>4
<1>2. Runs(c)' = 0 /\ Runs(c) \in Nat
  BY <1>1, Kinds DEF Runs
<1>3. Events(inbox["event"], c) \in Nat
  BY FlowTyped
<1>4. Coming(c)' = Coming(c) /\ handled[c] <= handled'[c]
  <2> HIDE DEF Runs
  <2> QED BY <1>1, <1>2, <1>3 DEF Coming
<1>5. Told(c)' <=> Told(c)
  BY <1>1 DEF Told
<1>6. Flow(c) /\ promised[c] \in Nat
  BY FlowTyped DEF FlowInv
<1>7. promised[c] <= handled[c] => promised[c] <= handled'[c]
  BY <1>1, <1>4, <1>6
<1> QED BY <1>1, <1>4, <1>5, <1>6, <1>7 DEF Flow

LEMMA FlowPipe ==
  ASSUME TypeOK, DownInv, FlowInv, Pipe
  PROVE  FlowInv'
<1>1. CASE Disconnect \/ StopThreads
  <2>1. UNCHANGED <<fired, promised, handled, kills, killed, running, inbox, toClient, sClasses>>
    BY <1>1 DEF Disconnect, StopThreads
  <2> QED BY <2>1, FlowStill
<1>2. CASE Break \/ Restart
  <2> SUFFICES ASSUME NEW c \in Classes PROVE Flow(c)'
    BY DEF FlowInv
  <2>1. /\ UNCHANGED <<fired, promised, handled, kills, killed, running>>
        /\ sClasses' = {} /\ toClient' = <<>>
        /\ UNCHANGED inbox \/ \A w \in Workers : inbox'[w] = <<>>
    BY <1>2 DEF Break, Restart, DownInv
  <2>2. Flow(c)
    BY DEF FlowInv
  <2>3. CASE UNCHANGED inbox
    <3>1. Coming(c)' = Coming(c)
      BY <2>1, <2>3 DEF Coming, Runs
    <3> QED BY <2>1, <2>2, <2>3, <3>1, EmptyFacts DEF Flow
  <2>4. CASE \A w \in Workers : inbox'[w] = <<>>
    <3>1. inbox'["call"] = <<>> /\ inbox'["event"] = <<>>
      BY <2>4, Kinds
    <3> QED BY <2>1, <2>2, <3>1, EmptyFacts DEF Flow
  <2> QED BY <2>1, <2>3, <2>4
<1> QED BY <1>1, <1>2 DEF Pipe

LEMMA FlowNext ==
  ASSUME TypeOK, OwnInv, KillInv, ToldInv, DownInv, CreateInv, WantedInv, FlowInv, [Next]_vars
  PROVE  FlowInv'
<1>1. CASE \E t \in Threads : ThreadStep(t)
  <2>1. PICK t \in Threads : ThreadStep(t)
    BY <1>1
  <2>2. ThreadMoves(t)
    BY <2>1, ThreadAlone
  <2> QED BY <2>2, FlowStill DEF ThreadMoves
<1>2. CASE \/ \E w \in Workers : ServerTakes(w) \/ ServerDestroys(w)
           \/ UNCHANGED vars
  <2>1. /\ UNCHANGED <<fired, promised, handled, kills, killed, running, inbox, toClient>>
        /\ sClasses' \subseteq sClasses
    BY <1>2 DEF ServerTakes, ServerDestroys
  <2> QED BY <2>1, FlowStill
<1> QED BY <1>1, <1>2, FlowReceives, FlowSends, FlowFires, FlowClientReceives, FlowClientTakes,
           FlowHandled, FlowPipe DEF Next, ServerStep

-----------------------------------------------------------------------------
\* The second invariant holds at first, and every step keeps it where the first holds.
LEMMA InitLife == Init => LifeInv
<1> SUFFICES ASSUME Init PROVE LifeInv
  OBVIOUS
<1>1. /\ link = "up" /\ disconnected = FALSE /\ classes = {} /\ sClasses = {} /\ running = Manager
      /\ toServer = <<>> /\ toClient = <<>>
      /\ \A w \in Workers : inbox[w] = <<>> /\ sInbox[w] = <<>> /\ sHand[w].class = Manager
      /\ \A t \in Threads : /\ place[t] = "free" /\ mine[t] = Manager
                            /\ lock[t].owner = Manager /\ lock[t].id = 0
      /\ lastLock[Manager] = 0 /\ breaks = 0
      /\ \A c \in Classes : /\ kills[c] = 0 /\ killed[c] = FALSE /\ fired[c] = 0 /\ task[c] = "none"
                            /\ madeBy[c] = 0
  BY Kinds DEF Init, NoLock, Idle
<1>2. \A c : ~Has(toClient, "created", c) /\ ~Has(toServer, "create", c)
  BY <1>1, EmptyFacts
<1>3. DownInv
  BY <1>1 DEF DownInv
<1>4. CreateInv
  BY <1>1, <1>2, EmptyOrder DEF CreateInv, Numbered
<1>5. MatchInv
  BY <1>1, EmptyOrder DEF MatchInv
<1>6. ListInv
  BY <1>1 DEF ListInv
<1>7. \A c \in Classes : ~Told(c) /\ ~Wanted(c)
  BY <1>1, EmptyFacts, Kinds DEF Told, Wanted, Asked, Replied, Noisy
<1>8. WantedInv
  BY <1>1, <1>7, EmptyFacts, EmptyOrder DEF WantedInv
<1>9. FlowInv
  BY <1>1, EmptyFacts, Kinds DEF FlowInv, Flow
<1> QED BY <1>3, <1>4, <1>5, <1>6, <1>8, <1>9 DEF LifeInv

LEMMA LifeNext == IInv /\ LifeInv /\ [Next]_vars => LifeInv'
BY DownNext, CreateNext, MatchNext, ListNext, WantedNext, FlowNext DEF IInv, LifeInv

(* LifeInv holds in every state the two processes can reach: a class is     *)
(* asked for once, an answer for a new class is for the task that waits for *)
(* it, and the lists, the messages and the counts of events agree.          *)
THEOREM LifeInvariance == Spec => []LifeInv
<1>1. Spec => []IInv
  BY Invariance
<1> QED BY <1>1, InitLife, LifeNext, PTL DEF Spec

(* ClassesAgree: a class in m_vClassList of the client is in the service's  *)
(* list as well, unless the service that made it has died or a task is      *)
(* waiting in destroy() for it to go.                                       *)
THEOREM ListsAgree == Spec => []ClassesAgree
<1>1. LifeInv => ClassesAgree
  BY DEF LifeInv, ListInv, ClassesAgree, Settled, Leaving
<1> QED BY <1>1, LifeInvariance, PTL

(* AnswerFindsClass: recvMessage finds the class of every answer to a call, *)
(* so that it may do without a test of what findClass returns.              *)
THEOREM AnswersFindTheirClass == Spec => []AnswerFindsClass
<1>1. ASSUME TypeOK, LifeInv
      PROVE  AnswerFindsClass
  <2> SUFFICES ASSUME toClient # <<>>, Head(toClient).type = "return"
               PROVE  Head(toClient).class \in classes
    BY DEF AnswerFindsClass
  <2> DEFINE c == Head(toClient).class
  <2>1. Head(toClient) \in Messages /\ Has(toClient, "return", c)
    BY <1>1, TailFacts DEF TypeOK
  <2>2. c \in Classes /\ Wanted(c)
    BY <2>1, MessageFields DEF Wanted, Replied
  <2> QED BY <1>1, <2>2 DEF LifeInv, WantedInv
<1>2. Spec => []TypeOK
  BY TypeCorrect
<1> QED BY <1>1, <1>2, LifeInvariance, PTL

(* EventsFlushed: once m_KillCondition of a class is notified, the client   *)
(* has run every event the service had sent before it answered the kill,    *)
(* whichever of the call and the event thread took the second answer.       *)
THEOREM EventsAreFlushed == Spec => []EventsFlushed
<1>1. ASSUME TypeOK, LifeInv
      PROVE  EventsFlushed
  <2>1. \A c \in Classes : killed[c] => promised[c] <= handled[c]
    BY <1>1 DEF LifeInv, FlowInv, Flow
  <2>2. \A c \in Classes : promised[c] \in Nat /\ handled[c] \in Nat
    BY <1>1 DEF TypeOK
  <2> QED BY <2>1, <2>2 DEF EventsFlushed
<1>2. Spec => []TypeOK
  BY TypeCorrect
<1> QED BY <1>1, <1>2, LifeInvariance, PTL

-----------------------------------------------------------------------------
\* Where the kill of a class may be: on its way, with a thread of the service that
\* has yet to come to it or to answer, or answered and with the client.
UnderWay(c) ==
  \/ c \in sClasses /\ Has(toServer, "kill", c)
  \/ \E w \in Workers : Killing(w, c) \/ Has(inbox[w], "killed", c)
  \/ ~Silent(c) \/ Has(toClient, "killed", c) \/ killed[c]

KillUnderWay ==
  \A t \in Threads : place[t] = "killing" /\ madeBy[mine[t]] = breaks => UnderWay(mine[t])

\* No answer to a kill is lost between the two threads of the client, and both of
\* them make one.
WaitInv ==
  /\ link # "up" => \A c \in Classes : madeBy[c] # breaks
  /\ \A c \in Classes, w \in Workers :
       Has(inbox[w], "killed", c) => kills[c] + Left("call", c) + Left("event", c) = 2
  /\ \A c \in Classes : kills[c] = 2 => killed[c]
  /\ KillUnderWay

LEMMA WaitKept ==
  ASSUME OwnInv, WaitInv, UNCHANGED <<place, mine, breaks>>,
         link' # "up" => link # "up" /\ UNCHANGED madeBy,
         \A c \in Classes : \/ madeBy'[c] = madeBy[c]
                            \/ \A t \in Threads : mine[t] = c => place[t] # "killing",
         \A c \in Classes, w \in Workers :
           Has(inbox'[w], "killed", c) => kills'[c] + Left("call", c)' + Left("event", c)' = 2,
         \A c \in Classes : kills'[c] = 2 => killed'[c],
         \A c \in Classes : UnderWay(c) => UnderWay(c)'
  PROVE  WaitInv'
<1>1. ASSUME NEW t \in Threads, place'[t] = "killing", madeBy'[mine'[t]] = breaks'
      PROVE  UnderWay(mine[t])'
  <2>1. PICK c \in Classes : c = mine[t] /\ c = mine'[t]
    BY <1>1 DEF OwnInv
  <2>2. madeBy[c] = breaks
    BY <1>1, <2>1
  <2>3. UnderWay(c)
    BY <1>1, <2>1, <2>2 DEF WaitInv, KillUnderWay
  <2>4. UnderWay(c)'
    BY <2>3
  <2> QED BY <2>1, <2>4 DEF UnderWay, Killing, Silent
<1>2. KillUnderWay'
  BY <1>1 DEF KillUnderWay
<1>3. link' # "up" => \A c \in Classes : madeBy'[c] # breaks'
  BY DEF WaitInv
<1> QED BY <1>2, <1>3 DEF WaitInv

\* A step of the service leaves the client's counts alone.
LEMMA WaitService ==
  ASSUME OwnInv, WaitInv, UNCHANGED <<place, mine, breaks, link, inbox, kills, killed>>,
         link = "up" \/ UNCHANGED madeBy,
         \A c \in Classes : \/ madeBy'[c] = madeBy[c]
                            \/ \A t \in Threads : mine[t] = c => place[t] # "killing",
         \A c \in Classes : UnderWay(c) => UnderWay(c)'
  PROVE  WaitInv'
<1>1. \A c, w : Left(w, c)' = Left(w, c)
  BY DEF Left
<1>2. \A c \in Classes, w \in Workers :
        Has(inbox'[w], "killed", c) => kills'[c] + Left("call", c)' + Left("event", c)' = 2
  BY <1>1 DEF WaitInv
<1>3. \A c \in Classes : kills'[c] = 2 => killed'[c]
  BY DEF WaitInv
<1> QED BY <1>2, <1>3, WaitKept

LEMMA WaitThread ==
  ASSUME TypeOK, OwnInv, ListInv, WaitInv, NEW t \in Threads, ThreadStep(t)
  PROVE  WaitInv'
<1>0. ThreadMoves(t)
  BY ThreadAlone
<1>1. \A c \in Classes : Has(toServer, "kill", c) => Has(toServer', "kill", c)
  <2>1. UNCHANGED toServer \/ \E m \in Messages : toServer' = Append(toServer, m)
    <3>1. CASE CreateClass(t)
      <4>1. Asks(t)
        BY <3>1, CreateAsks
      <4> QED BY <4>1 DEF Asks
    <3>2. CASE Goes(t)
      BY <3>2 DEF Goes, Says
    <3> QED BY <3>1, <3>2, OthersGo
  <2>2. toServer \in Seq(Messages)
    BY DEF TypeOK
  <2>3. ASSUME NEW m \in Messages, toServer' = Append(toServer, m), NEW c \in Classes
        PROVE  Has(toServer, "kill", c) => Has(toServer', "kill", c)
    BY <2>2, <2>3, AppendFacts
  <2> QED BY <2>1, <2>3
<1>2. \A c \in Classes : UnderWay(c) => UnderWay(c)'
  BY <1>0, <1>1 DEF UnderWay, Killing, Silent, ThreadMoves
<1>3. place'[t] = "killing" => (place[t] = "killing" /\ UNCHANGED mine) \/ SendKill(t)
  BY GotoTyped DEF ThreadStep, CreateClass, ClassCreated, CreateTimesOut, CallFunction, CallReturns,
     CallTimesOut, Destroy, KillAnswered, DestroyClass, Places, TypeOK
<1>4. CASE SendKill(t) /\ place'[t] = "killing"
  <2>1. PICK c \in Classes : c = mine[t] /\ c = mine'[t] /\ place[t] = "kill"
    BY <1>4 DEF SendKill, MayKill, OwnInv
  <2>2. CanSend(c)
    <3>1. "threw" # "killing" /\ (~CanSend(c) => place'[t] = "threw")
      BY <1>4, <2>1, GotoTyped DEF SendKill, Places
    <3> QED BY <1>4, <3>1
  <2>3. toServer' = Append(toServer, Msg("kill", c, 0)) /\ c \in classes
    BY <1>4, <2>1, <2>2, Kinds DEF SendKill, CanSend
  <2>4. Has(toServer', "kill", c)
    <3>1. /\ Msg("kill", c, 0) \in Messages
          /\ Msg("kill", c, 0).type = "kill" /\ Msg("kill", c, 0).class = c
      BY MsgTyped
    <3> QED BY <2>3, <3>1, AppendFacts DEF TypeOK
  <2>5. Settled(c)
    <3>1. \A u \in Threads : mine[u] = c => u = t
      BY <2>1, Kinds DEF OwnInv
    <3>2. ~Leaving(c)
      BY <2>1, <3>1 DEF Leaving
    <3> QED BY <2>3, <3>2 DEF ListInv
  <2>6. madeBy[c] = breaks => UnderWay(c)'
    BY <1>0, <2>4, <2>5 DEF Settled, UnderWay, ThreadMoves
  <2> DEFINE P(u) == place'[u] = "killing" /\ madeBy'[mine'[u]] = breaks'
  <2>7. ASSUME NEW u \in Threads, P(u)
        PROVE  UnderWay(mine[u])'
    <3>1. CASE u = t
      <4>1. UnderWay(c)'
        BY <1>0, <2>1, <2>6, <2>7, <3>1 DEF ThreadMoves
      <4> QED BY <2>1, <3>1, <4>1 DEF UnderWay, Killing, Silent
    <3>2. CASE u # t
      <4>1. PICK d \in Classes : d = mine[u] /\ d = mine'[u] /\ place[u] = "killing"
        BY <1>0, <2>7, <3>2 DEF OwnInv, ThreadMoves
      <4>2. madeBy[d] = breaks
        BY <1>0, <2>7, <4>1 DEF ThreadMoves
      <4>3. UnderWay(d)
        BY <4>1, <4>2 DEF WaitInv, KillUnderWay
      <4>4. UnderWay(d)'
        BY <1>2, <4>3
      <4> QED BY <4>1, <4>4 DEF UnderWay, Killing, Silent
    <3> QED BY <3>1, <3>2
  <2>8. KillUnderWay'
    BY <2>7 DEF KillUnderWay
  <2> QED BY <1>0, <2>8 DEF WaitInv, ThreadMoves, Left
<1>5. CASE place'[t] = "killing" => place[t] = "killing" /\ UNCHANGED mine
  <2>1. ASSUME NEW u \in Threads, place'[u] = "killing", madeBy'[mine'[u]] = breaks'
        PROVE  UnderWay(mine[u])'
    <3>1. place[u] = "killing" /\ mine'[u] = mine[u]
      BY <1>0, <1>5, <2>1 DEF ThreadMoves
    <3>2. PICK d \in Classes : d = mine[u] /\ d = mine'[u]
      BY <3>1 DEF OwnInv
    <3>3. UnderWay(d)'
      BY <1>0, <1>2, <2>1, <3>1, <3>2 DEF WaitInv, KillUnderWay, ThreadMoves
    <3> QED BY <3>2, <3>3 DEF UnderWay, Killing, Silent
  <2>2. KillUnderWay'
    BY <2>1 DEF KillUnderWay
  <2> QED BY <1>0, <2>2 DEF WaitInv, ThreadMoves, Left
<1> QED BY <1>3, <1>4, <1>5

LEMMA WaitReceives ==
  ASSUME TypeOK, OwnInv, CreateInv, WaitInv, ServerReceives
  PROVE  WaitInv'
<1> DEFINE m == Head(toServer)
           k == m.class
<1>1. /\ m \in Messages /\ k \in Classes /\ m.id \in Nat /\ Has(toServer, m.type, k)
      /\ toServer' = Tail(toServer) /\ toClient \in Seq(Messages)
      /\ \A c : Has(toServer, "kill", c) =>
           Has(toServer', "kill", c) \/ (m.type = "kill" /\ k = c)
      /\ \A w \in Workers : sInbox[w] \in Seq(Messages)
  BY TailFacts, MessageFields DEF ServerReceives, TypeOK
<1>2. /\ UNCHANGED <<place, mine, breaks, link, inbox, kills, killed, sHand>> /\ link = "up"
      /\ \/ /\ m.type = "create" /\ sClasses' = sClasses \union {k}
            /\ madeBy' = [madeBy EXCEPT ![k] = breaks]
            /\ toClient' = Append(toClient, Msg("created", k, m.id))
            /\ UNCHANGED sInbox
         \/ /\ m.type # "create" /\ UNCHANGED <<sClasses, madeBy, toClient>>
            /\ \A w \in Workers : sInbox'[w] = IF k \in sClasses /\ (w = "call" \/ m.type = "kill")
                                                 THEN Append(sInbox[w], m) ELSE sInbox[w]
  BY DEF ServerReceives, ServiceHands
<1>3. \A c \in Classes : Silent(c)' <=> Silent(c)
  BY <1>2 DEF Silent
<1> HIDE DEF m
<1>4. CASE /\ m.type = "create" /\ sClasses' = sClasses \union {k}
           /\ madeBy' = [madeBy EXCEPT ![k] = breaks]
           /\ toClient' = Append(toClient, Msg("created", k, m.id))
           /\ UNCHANGED sInbox
  <2>1. \A c : Has(toClient, "killed", c) => Has(toClient', "killed", c)
    <3>1. Msg("created", k, m.id) \in Messages
      BY <1>1, MsgTyped
    <3> QED BY <1>1, <1>4, <3>1, AppendFacts
  <2>2. \A t \in Threads : mine[t] = k => place[t] # "killing"
    BY <1>1, <1>4 DEF CreateInv, Unborn
  <2>3. \A c \in Classes : c # k => madeBy'[c] = madeBy[c]
    BY <1>4 DEF TypeOK
  <2>4. \A c \in Classes : UnderWay(c) => UnderWay(c)'
    BY <1>1, <1>2, <1>3, <1>4, <2>1 DEF UnderWay, Killing
  <2> QED BY <1>2, <2>2, <2>3, <2>4, WaitService
<1>5. CASE /\ m.type # "create" /\ UNCHANGED <<sClasses, madeBy, toClient>>
           /\ \A w \in Workers : sInbox'[w] = IF k \in sClasses /\ (w = "call" \/ m.type = "kill")
                                                THEN Append(sInbox[w], m) ELSE sInbox[w]
  <2>1. ASSUME NEW w \in Workers, NEW c \in Classes
        PROVE  Killing(w, c) => Killing(w, c)'
    <3>1. Has(sInbox[w], "kill", c) => Has(Append(sInbox[w], m), "kill", c)
      BY <1>1, AppendFacts
    <3> QED BY <1>5, <3>1 DEF Killing
  <2>2. k \in sClasses /\ m.type = "kill" => Has(sInbox'["call"], "kill", k)
    <3>1. m.type = "kill" => Has(Append(sInbox["call"], m), "kill", k)
      BY <1>1, Kinds, AppendFacts
    <3> QED BY <1>5, <3>1, Kinds
  <2>3. ASSUME NEW c \in Classes, UnderWay(c)
        PROVE  UnderWay(c)'
    <3>1. CASE c \in sClasses /\ Has(toServer, "kill", c)
      <4>1. CASE Has(toServer', "kill", c)
        BY <1>5, <3>1, <4>1 DEF UnderWay
      <4>2. CASE m.type = "kill" /\ k = c
        <5>1. Killing("call", c)'
          BY <2>2, <3>1, <4>2 DEF Killing
        <5> QED BY <5>1, Kinds DEF UnderWay
      <4> QED BY <1>1, <3>1, <4>1, <4>2
    <3>2. CASE ~(c \in sClasses /\ Has(toServer, "kill", c))
      BY <1>2, <1>3, <1>5, <2>1, <2>3, <3>2 DEF UnderWay
    <3> QED BY <3>1, <3>2
  <2> QED BY <1>2, <1>5, <2>3, WaitService
<1> QED BY <1>2, <1>4, <1>5

LEMMA WaitTakes ==
  ASSUME TypeOK, OwnInv, KillInv, WaitInv, NEW w \in Workers, ServerTakes(w)
  PROVE  WaitInv'
<1> DEFINE m == Head(sInbox[w])
           k == m.class
<1>1. /\ m \in Messages /\ k \in Classes
      /\ Has(sInbox[w], m.type, k) /\ About(sInbox[w], k)
      /\ \A c : Has(sInbox[w], "kill", c) =>
           Has(Tail(sInbox[w]), "kill", c) \/ (m.type = "kill" /\ k = c)
  BY TailFacts, MessageFields DEF ServerTakes, TypeOK
<1>2. k \in sClasses /\ SAlive(k)
  BY <1>1 DEF KillInv, Known, SAlive
<1>3. /\ UNCHANGED <<place, mine, breaks, link, inbox, kills, killed, toServer, toClient,
                     sClasses, madeBy>>
      /\ sHand[w].do = "nothing"
      /\ \A v \in Workers : sInbox'[v] = IF v = w THEN Tail(sInbox[w]) ELSE sInbox[v]
      /\ \/ m.type = "kill" /\ ServerKill(w, k)
         \/ m.type # "kill" /\ ServerExecute(w, k, m.id)
  BY <1>2 DEF ServerTakes, TypeOK
<1> HIDE DEF m
<1>4. \A v \in Workers \ {w} : sHand'[v] = sHand[v] /\ sInbox'[v] = sInbox[v]
  <2>1. UNCHANGED sHand \/ \E h : sHand' = [sHand EXCEPT ![w] = h]
    BY <1>3 DEF ServerKill, ServerExecute
  <2> QED BY <1>3, <2>1 DEF TypeOK
<1>5. \A c \in Classes : ~Silent(c) => ~Silent(c)'
  BY <1>3, <1>4 DEF Silent
<1>6. \A c \in Classes, v \in Workers :
        Killing(v, c) => Killing(v, c)' \/ (v = w /\ c = k /\ m.type = "kill")
  BY <1>1, <1>3, <1>4 DEF Killing
<1>7. ASSUME m.type = "kill", NEW c \in Classes, c = k
      PROVE  UnderWay(c)'
  <2>1. Killing(w, c) /\ ServerKill(w, c)
    BY <1>1, <1>3, <1>7 DEF Killing
  <2>2. \/ sKills[c] = 0 /\ \A v \in Workers : Killing(v, c)
        \/ sKills[c] = 1
    BY <2>1, Kinds DEF KillInv, Counted
  <2>3. CASE sKills[c] = 1
    <3>1. sHand' = [sHand EXCEPT ![w] = [do |-> "complete", class |-> c, id |-> 0]]
      BY <2>1, <2>3 DEF ServerKill, SecondKill
    <3>2. sHand'[w].do = "complete" /\ sHand'[w].class = c
      BY <3>1 DEF TypeOK
    <3>3. ~Silent(c)'
      BY <3>2 DEF Silent
    <3> QED BY <3>3 DEF UnderWay
  <2>4. CASE \A v \in Workers : Killing(v, c)
    <3>1. PICK v \in Workers : v # w
      BY Kinds
    <3>2. Killing(v, c)'
      BY <1>6, <2>4, <3>1
    <3> QED BY <3>2 DEF UnderWay
  <2> QED BY <2>2, <2>3, <2>4
<1>8. ASSUME NEW c \in Classes, UnderWay(c), ~(c = k /\ m.type = "kill")
      PROVE  UnderWay(c)'
  BY <1>3, <1>5, <1>6, <1>8 DEF UnderWay
<1> QED BY <1>3, <1>7, <1>8, WaitService

LEMMA WaitSends ==
  ASSUME TypeOK, OwnInv, KillInv, WaitInv, NEW w \in Workers, ServerSends(w)
  PROVE  WaitInv'
<1> DEFINE h == sHand[w]
           k == h.class
<1>1. /\ k \in Classes /\ h.id \in Nat /\ h.do \in {"return", "complete"}
      /\ \A v \in Workers : v # w => sHand'[v] = sHand[v]
      /\ toClient \in Seq(Messages)
  BY SendsFacts DEF TypeOK
<1>2. PICK m \in Messages :
        /\ toClient' = Append(toClient, m) /\ m.class = k
        /\ m.type = IF h.do = "complete" THEN "killed" ELSE "return"
  <2>1. PICK type \in {"return", "killed"} :
          toClient' = Append(toClient, Msg(type, k, h.id))
            /\ type = IF h.do = "complete" THEN "killed" ELSE "return"
    BY SendsFacts
  <2>2. /\ Msg(type, k, h.id) \in Messages
        /\ Msg(type, k, h.id).class = k /\ Msg(type, k, h.id).type = type
    BY <1>1, MsgTyped
  <2> QED BY <2>1, <2>2
<1>3. UNCHANGED <<place, mine, breaks, link, inbox, kills, killed, toServer, sInbox, sClasses,
                  madeBy>>
  BY DEF ServerSends
<1>4. \A c : Has(toClient, "killed", c) => Has(toClient', "killed", c)
  BY <1>1, <1>2, AppendFacts
<1>5. h.do = "complete" => Has(toClient', "killed", k)
  BY <1>1, <1>2, AppendFacts
<1>6. ASSUME NEW c \in Classes, ~Silent(c)
      PROVE  ~Silent(c)' \/ Has(toClient', "killed", c)
  <2>1. PICK v \in Workers : sHand[v].do = "complete" /\ sHand[v].class = c
    BY <1>6 DEF Silent
  <2>2. CASE v = w
    BY <1>5, <2>1, <2>2
  <2>3. CASE v # w
    BY <1>1, <2>1, <2>3 DEF Silent
  <2> QED BY <2>2, <2>3
<1>7. \A c \in Classes : UnderWay(c) => UnderWay(c)'
  BY <1>3, <1>4, <1>6 DEF UnderWay, Killing
<1> QED BY <1>3, <1>7, WaitService

LEMMA WaitServer ==
  ASSUME TypeOK, OwnInv, KillInv, WaitInv,
         (\E w \in Workers : ServerDestroys(w)) \/ (\E c \in Classes : FireEvent(c))
  PROVE  WaitInv'
<1>1. UNCHANGED <<place, mine, breaks, link, inbox, kills, killed, toServer, sInbox, madeBy>>
  BY DEF ServerDestroys, FireEvent
<1>2. ASSUME NEW w \in Workers, ServerDestroys(w)
      PROVE  WaitInv'
  <2>1. PICK k \in Classes : k = sHand[w].class /\ sHand[w].do = "destroy"
    BY <1>2 DEF ServerDestroys, OwnInv
  <2>2. /\ UNCHANGED toClient /\ sClasses' = sClasses \ {k}
        /\ \A v \in Workers : v # w => sHand'[v] = sHand[v]
    BY <1>2, <2>1 DEF ServerDestroys, TypeOK
  <2>3. ~Has(toServer, "kill", k)
    <3>1. Answering(w, k)
      BY <2>1 DEF Answering
    <3>2. Dying(k)
      BY <3>1, Kinds DEF KillInv, OneAnswers, Dying
    <3> QED BY <3>2 DEF KillInv, Finished, About, Has
  <2>4. \A c \in Classes : ~Silent(c) => ~Silent(c)'
    BY <2>1, <2>2 DEF Silent
  <2>5. \A c \in Classes : UnderWay(c) => UnderWay(c)'
    BY <1>1, <2>2, <2>3, <2>4 DEF UnderWay, Killing
  <2> QED BY <1>1, <2>5, WaitService
<1>3. ASSUME NEW d \in Classes, FireEvent(d)
      PROVE  WaitInv'
  <2>1. /\ UNCHANGED <<sClasses, sHand>>
        /\ toClient' = Append(toClient, Msg("event", d, 0)) /\ toClient \in Seq(Messages)
    BY <1>3 DEF FireEvent, TypeOK
  <2>2. \A c : Has(toClient, "killed", c) => Has(toClient', "killed", c)
    <3>1. Msg("event", d, 0) \in Messages
      BY MsgTyped
    <3> QED BY <2>1, <3>1, AppendFacts
  <2>3. \A c \in Classes : UnderWay(c) => UnderWay(c)'
    BY <1>1, <2>1, <2>2 DEF UnderWay, Killing, Silent
  <2> QED BY <1>1, <2>3, WaitService
<1> QED BY <1>2, <1>3

LEMMA WaitClientReceives ==
  ASSUME TypeOK, OwnInv, ToldInv, WantedInv, WaitInv, ClientReceives
  PROVE  WaitInv'
<1> DEFINE m == Head(toClient)
           k == m.class
<1>1. /\ m \in Messages /\ k \in Classes /\ Has(toClient, m.type, k)
      /\ toClient' = Tail(toClient)
      /\ \A c : Has(toClient, "killed", c) =>
           Has(toClient', "killed", c) \/ (m.type = "killed" /\ k = c)
  BY TailFacts, MessageFields DEF ClientReceives, TypeOK
<1>2. /\ UNCHANGED <<place, mine, breaks, link, kills, killed, toServer, sInbox, sHand, sClasses,
                     madeBy>>
      /\ \/ m.type # "killed" /\ UNCHANGED inbox
         \/ /\ m.type \in {"event", "killed"}
            /\ \A w \in Workers :
                 inbox'[w] = IF k \in classes /\ (m.type = "killed" \/ w = "event")
                               THEN Append(inbox[w], m)
                               ELSE inbox[w]
  BY DEF ClientReceives
<1>3. \A w \in Workers : inbox[w] \in Seq(Messages)
  BY DEF TypeOK
<1> HIDE DEF m
<1>4. ASSUME m.type = "killed"
      PROVE  k \in classes /\ kills[k] = 0 /\ \A w \in Workers : ~Has(inbox[w], "killed", k)
  <2>1. Wanted(k)
    BY <1>1, <1>4 DEF Wanted, Replied
  <2>2. ~Told(k)
    BY <1>1, <1>4 DEF ToldInv
  <2> QED BY <1>1, <2>1, <2>2 DEF WantedInv, Told, TypeOK
<1>5. ASSUME NEW w \in Workers, NEW c \in Classes
      PROVE  Has(inbox'[w], "killed", c) <=>
               Has(inbox[w], "killed", c) \/ (m.type = "killed" /\ k = c)
  <2>1. \A type : Has(Append(inbox[w], m), type, c)
                    <=> Has(inbox[w], type, c) \/ (m.type = type /\ m.class = c)
    BY <1>1, <1>3, AppendFacts
  <2> QED BY <1>2, <1>4, <2>1
<1>6. ASSUME NEW c \in Classes, NEW w \in Workers, Has(inbox'[w], "killed", c)
      PROVE  kills'[c] + Left("call", c)' + Left("event", c)' = 2
  <2>1. CASE m.type = "killed" /\ k = c
    <3>1. \A v \in Workers : Left(v, c)' = 1
      BY <1>5, <2>1 DEF Left
    <3>2. kills'[c] = 0
      BY <1>2, <1>4, <2>1
    <3> HIDE DEF Left
    <3> QED BY <3>1, <3>2, Kinds
  <2>2. CASE ~(m.type = "killed" /\ k = c)
    <3>1. \A v \in Workers : Left(v, c)' = Left(v, c)
      BY <1>5, <2>2 DEF Left
    <3>2. Has(inbox[w], "killed", c)
      BY <1>5, <1>6, <2>2
    <3>3. kills[c] + Left("call", c) + Left("event", c) = 2
      BY <3>2 DEF WaitInv
    <3> HIDE DEF Left
    <3> QED BY <1>2, <3>1, <3>3, Kinds
  <2> QED BY <2>1, <2>2
<1>7. \A c \in Classes : UnderWay(c) => UnderWay(c)'
  BY <1>1, <1>2, <1>5, Kinds DEF UnderWay, Killing, Silent
<1>8. \A c \in Classes : kills'[c] = 2 => killed'[c]
  BY <1>2 DEF WaitInv
<1> QED BY <1>2, <1>6, <1>7, <1>8, WaitKept

LEMMA WaitClientTakes ==
  ASSUME TypeOK, OwnInv, ToldInv, WantedInv, WaitInv, NEW w \in Workers, ClientTakes(w)
  PROVE  WaitInv'
<1> DEFINE m == Head(inbox[w])
           k == m.class
<1>1. /\ m \in Messages /\ k \in Classes /\ Has(inbox[w], m.type, k)
      /\ \A c : Has(Tail(inbox[w]), "killed", c) => Has(inbox[w], "killed", c)
      /\ \A c : Has(inbox[w], "killed", c) =>
           Has(Tail(inbox[w]), "killed", c) \/ (m.type = "killed" /\ k = c)
      /\ m.type = "killed" => ~Has(Tail(inbox[w]), "killed", k)
  BY TailFacts, MessageFields DEF ClientTakes, TypeOK, ToldInv
<1>2. m.type = "killed" => Alive(k)
  <2>1. m.type = "killed" => Wanted(k)
    BY <1>1 DEF Wanted, Replied
  <2> QED BY <1>1, <2>1 DEF WantedInv, Alive
<1>3. /\ UNCHANGED <<place, mine, breaks, link, toServer, toClient, sInbox, sHand, sClasses,
                     madeBy>>
      /\ \A v \in Workers : inbox'[v] = IF v = w THEN Tail(inbox[w]) ELSE inbox[v]
      /\ \/ /\ m.type = "killed"
            /\ kills' = [kills EXCEPT ![k] = @ + 1]
            /\ killed' = [killed EXCEPT ![k] = @ \/ SecondAnswer(kills[k])]
         \/ m.type # "killed" /\ UNCHANGED <<kills, killed>>
  BY <1>2 DEF ClientTakes, TypeOK
<1> HIDE DEF m
<1>4. ASSUME NEW c \in Classes, ~(m.type = "killed" /\ k = c)
      PROVE  /\ \A v \in Workers : Has(inbox'[v], "killed", c) <=> Has(inbox[v], "killed", c)
             /\ \A v \in Workers : Left(v, c)' = Left(v, c)
             /\ kills'[c] = kills[c] /\ killed'[c] = killed[c]
  <2>1. \A v \in Workers : Has(inbox'[v], "killed", c) <=> Has(inbox[v], "killed", c)
    BY <1>1, <1>3, <1>4
  <2>2. kills'[c] = kills[c] /\ killed'[c] = killed[c]
    BY <1>1, <1>3, <1>4 DEF TypeOK
  <2> QED BY <2>1, <2>2 DEF Left
<1>5. ASSUME NEW c \in Classes, m.type = "killed", k = c
      PROVE  /\ Left(w, c) = 1 /\ Left(w, c)' = 0
             /\ \A v \in Workers : v # w => Left(v, c)' = Left(v, c)
             /\ \A v \in Workers : Left(v, c) = 0 \/ Left(v, c) = 1
             /\ kills[c] \in Nat /\ kills'[c] = kills[c] + 1
             /\ killed[c] \/ kills[c] = 1 => killed'[c]
             /\ kills[c] + Left("call", c) + Left("event", c) = 2
  <2>1. Has(inbox[w], "killed", c) /\ ~Has(inbox'[w], "killed", c)
    BY <1>1, <1>3, <1>5
  <2>2. kills[c] + Left("call", c) + Left("event", c) = 2
    BY <2>1 DEF WaitInv
  <2>3. /\ kills[c] \in Nat /\ kills'[c] = kills[c] + 1
        /\ killed[c] \/ kills[c] = 1 => killed'[c]
    BY <1>1, <1>3, <1>5 DEF TypeOK, SecondAnswer
  <2>4. \A v \in Workers : v # w => Left(v, c)' = Left(v, c)
    BY <1>3 DEF Left
  <2>5. Left(w, c) = 1 /\ Left(w, c)' = 0 /\ \A v \in Workers : Left(v, c) = 0 \/ Left(v, c) = 1
    BY <2>1 DEF Left
  <2> QED BY <2>2, <2>3, <2>4, <2>5
<1>6. ASSUME NEW c \in Classes, m.type = "killed", k = c
      PROVE  /\ kills'[c] + Left("call", c)' + Left("event", c)' = 2
             /\ kills'[c] = 2 => killed'[c]
             /\ UnderWay(c)'
  <2> HIDE DEF Left
  <2>1. kills'[c] + Left("call", c)' + Left("event", c)' = 2
    <3>1. CASE w = "call"
      BY <1>5, <1>6, <3>1, Kinds
    <3>2. CASE w = "event"
      BY <1>5, <1>6, <3>2, Kinds
    <3> QED BY <3>1, <3>2, Kinds
  <2>2. kills'[c] = 2 => killed'[c]
    BY <1>5, <1>6
  <2>3. ASSUME kills'[c] = 2 PROVE UnderWay(c)'
    BY <2>2, <2>3 DEF UnderWay
  <2>4. ASSUME kills'[c] # 2 PROVE UnderWay(c)'
    <3>1. \E v \in Workers : Left(v, c)' # 0
      BY <1>5, <1>6, <2>1, <2>4, Kinds
    <3>2. \E v \in Workers : Has(inbox'[v], "killed", c)
      BY <3>1 DEF Left
    <3> QED BY <3>2 DEF UnderWay
  <2> QED BY <2>1, <2>2, <2>3, <2>4
<1>7. ASSUME NEW c \in Classes, NEW v \in Workers, Has(inbox'[v], "killed", c)
      PROVE  kills'[c] + Left("call", c)' + Left("event", c)' = 2
  <2>1. CASE m.type = "killed" /\ k = c
    BY <1>6, <2>1
  <2>2. CASE ~(m.type = "killed" /\ k = c)
    <3>1. kills[c] + Left("call", c) + Left("event", c) = 2
      BY <1>4, <1>7, <2>2 DEF WaitInv
    <3> HIDE DEF Left
    <3> QED BY <1>4, <2>2, <3>1, Kinds
  <2> QED BY <2>1, <2>2
<1>8. \A c \in Classes : kills'[c] = 2 => killed'[c]
  BY <1>4, <1>6 DEF WaitInv
<1>9. \A c \in Classes : UnderWay(c) => UnderWay(c)'
  <2> SUFFICES ASSUME NEW c \in Classes, UnderWay(c) PROVE UnderWay(c)'
    OBVIOUS
  <2>1. CASE ~(m.type = "killed" /\ k = c)
    BY <1>3, <1>4, <2>1 DEF UnderWay, Killing, Silent
  <2> QED BY <1>6, <2>1
<1> QED BY <1>3, <1>7, <1>8, <1>9, WaitKept

LEMMA WaitRest ==
  ASSUME TypeOK, OwnInv, ListInv, WaitInv, EventHandled \/ Pipe \/ UNCHANGED vars
  PROVE  WaitInv'
<1>1. UNCHANGED <<place, mine, kills, killed, madeBy>>
  BY DEF EventHandled, Pipe, Break, Disconnect, StopThreads, Restart
<1>2. \A c \in Classes : kills'[c] = 2 => killed'[c]
  BY <1>1 DEF WaitInv
<1>3. CASE EventHandled \/ Disconnect \/ StopThreads \/ UNCHANGED vars
  <2>1. /\ UNCHANGED <<inbox, breaks, toServer, toClient, sInbox, sHand, sClasses>>
        /\ link' # "up" => link # "up"
    BY <1>3 DEF EventHandled, Disconnect, StopThreads
  <2>2. \A c \in Classes : UnderWay(c) => UnderWay(c)'
    BY <1>1, <2>1 DEF UnderWay, Killing, Silent
  <2>3. \A c \in Classes, w \in Workers :
          Has(inbox'[w], "killed", c) => kills'[c] + Left("call", c)' + Left("event", c)' = 2
    BY <1>1, <2>1 DEF WaitInv, Left
  <2> QED BY <1>1, <1>2, <2>1, <2>2, <2>3, WaitKept
<1>4. CASE Break
  <2>1. \A c \in Classes : madeBy'[c] # breaks'
    <3>1. breaks' = breaks + 1 /\ breaks \in Nat
      BY <1>4 DEF Break, TypeOK
    <3>2. \A c \in Classes : madeBy[c] <= breaks /\ madeBy[c] \in Nat
      BY DEF ListInv, TypeOK
    <3> QED BY <1>1, <3>1, <3>2
  <2>2. KillUnderWay'
    BY <1>1, <2>1 DEF KillUnderWay, OwnInv
  <2>3. \A c \in Classes, w \in Workers :
          Has(inbox'[w], "killed", c) => kills'[c] + Left("call", c)' + Left("event", c)' = 2
    BY <1>1, <1>4 DEF Break, WaitInv, Left
  <2> QED BY <1>2, <2>1, <2>2, <2>3 DEF WaitInv
<1>5. CASE Restart
  <2>1. link # "up" /\ link' = "up" /\ UNCHANGED breaks /\ \A w \in Workers : inbox'[w] = <<>>
    BY <1>5 DEF Restart
  <2>2. KillUnderWay'
    BY <1>1, <2>1 DEF WaitInv, KillUnderWay, OwnInv
  <2> QED BY <1>2, <2>1, <2>2, EmptyFacts DEF WaitInv
<1> QED BY <1>3, <1>4, <1>5 DEF Pipe

LEMMA InitWait == Init => WaitInv
<1> SUFFICES ASSUME Init PROVE WaitInv
  OBVIOUS
<1>1. /\ link = "up" /\ \A w \in Workers : inbox[w] = <<>>
      /\ \A c \in Classes : kills[c] = 0
      /\ \A t \in Threads : place[t] = "free"
  BY DEF Init
<1> QED BY <1>1, EmptyFacts DEF WaitInv, KillUnderWay

LEMMA WaitNext == IInv /\ LifeInv /\ WaitInv /\ [Next]_vars => WaitInv'
<1> SUFFICES ASSUME IInv, LifeInv, WaitInv, [Next]_vars PROVE WaitInv'
  OBVIOUS
<1>1. /\ TypeOK /\ OwnInv /\ KillInv /\ ToldInv
      /\ CreateInv /\ ListInv /\ WantedInv
  BY DEF IInv, LifeInv
<1> QED BY <1>1, WaitThread, WaitReceives, WaitTakes, WaitSends, WaitServer, WaitClientReceives,
           WaitClientTakes, WaitRest DEF Next, ServerStep

(* While a task waits in destroy() for a class that the living service made, *)
(* its MT_KILL or the answer to it is somewhere on the way, or the task has  *)
(* been told: none of the threads it passes through drops it, and the two    *)
(* threads of a process do not each leave it to the other.  What DestroyEnds *)
(* needs besides is that these threads empty their queues.                   *)
THEOREM KillsArrive == Spec => []KillUnderWay
<1>1. Spec => [](IInv /\ LifeInv)
  BY Invariance, LifeInvariance, PTL
<1>2. WaitInv => KillUnderWay
  BY DEF WaitInv
<1> QED BY <1>1, <1>2, InitWait, WaitNext, PTL DEF Spec
=============================================================================
