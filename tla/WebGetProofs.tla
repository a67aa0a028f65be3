---------------------------- MODULE WebGetProofs ----------------------------
(***************************************************************************)
(* The counters that end a download are exact, and a server serves one     *)
(* worker at a time: proofs for any number of blocks, workers and servers. *)
(*                                                                         *)
(* The inductive invariant IInv adds to these, and to the invariant of the *)
(* provider table, where a worker of each state has a superblock in hand,  *)
(* what a thief knows of its victim while it holds the locks, and in which *)
(* states a worker may be linked to a server that is not (or no longer)    *)
(* recorded as its own.  A second one, WaitInv, says that whoever is       *)
(* waited for is still on its way.                                         *)
(***************************************************************************)
EXTENDS WebGet, ProvidersProofs, FiniteSetTheorems

USE ProvidersAssumption, WebGetAssumption, NoneAssumption

\* The states of a worker with nothing in hand, and with a superblock.
EmptyHanded == {"idle", "start", "task", "split", "cut", "report"}
HasWork == {"assign", "begin", "recv", "pop", "refused", "reset", "give"}

\* The controller has a block to judge, and starts its workers in order.
CtlInv ==
  /\ ctl = "check" => hand # None
  /\ ctl = "create" => \A w \in Workers : w >= at => pc[w] = "idle"

\* Superblocks are held in the states that need one; the handler of an
\* exception has given its own back before it asks for a new url.
HoldInv ==
  /\ \A w \in Workers : pc[w] \in EmptyHanded => sb[w] = None
  /\ \A w \in Workers : pc[w] \in HasWork => sb[w] # None
  /\ \A w \in Workers : pc[w] \in {"rmagent", "geturl"} /\ sb[w] # None => why[w] = "crc"

\* A thief cuts at least one block, out of a superblock that its victim can
\* only make shorter until the cut is done.
StealInv ==
  /\ \A w \in Workers : pc[w] \in {"split", "cut"} => loot[w].from \in Workers /\ loot[w].half > 0
  /\ \A w \in Workers : pc[w] = "cut" => Shown(loot[w].from)

\* A link that still works leads to a server recorded as the worker's own,
\* unless the worker has no further use for it.
Unlinking(w) ==
  \/ pc[w] \in {"geturl", "report", "died"}
  \/ pc[w] \in {"reset", "give"} /\ why[w] = "crc"
  \/ status[w] = "STOP"

Owns(w, u) == u \in Urls \ expired => owner[u] = w

OwnLinks(w) == Unlinking(w) \/ (Owns(w, dl[w]) /\ Owns(w, conn[w]))

LinkInv == \A w \in Workers : OwnLinks(w)

IInv ==
  /\ TypeOK
  /\ TableInv
  /\ CtlInv
  /\ HoldInv
  /\ StealInv
  /\ LinkInv
  /\ WorkAccounted
  /\ RunningAccounted
  /\ CountedOutIsIdle
  /\ PopFrontSafe

USE DEF ctlVars, fileVars, workVars, userVars, taskVars, linkVars, errVars, workerVars,
        bounds, vars, NotMine, NotWorkers, NotUsers, Goto, HangUp, Workers, Blocks

----------------------------------------------------------------------------
\* Counting

LEMMA WorkersFinite ==
  ASSUME NEW S \in SUBSET Workers
  PROVE  IsFiniteSet(S) /\ Cardinality(S) \in Nat
<1>1. IsFiniteSet(1..NumWorkers)
  BY FS_Interval
<1>2. IsFiniteSet(S)
  BY <1>1, FS_Subset
<1> QED BY <1>2, FS_CardinalityType

\* The two counts when a worker joins, leaves, or neither.
LEMMA CountJoins ==
  ASSUME NEW S \in SUBSET Workers, NEW w \in Workers
  PROVE  /\ w \notin S => Cardinality(S \union {w}) = Cardinality(S) + 1
         /\ w \in S => Cardinality(S \ {w}) = Cardinality(S) - 1 /\ Cardinality(S) > 0
<1>1. /\ IsFiniteSet(S) /\ Cardinality(S) \in Nat
      /\ IsFiniteSet(S \ {w}) /\ Cardinality(S \ {w}) \in Nat
  BY WorkersFinite
<1>2. Cardinality(S \union {w}) = IF w \in S THEN Cardinality(S) ELSE Cardinality(S) + 1
  BY <1>1, FS_AddElement
<1>3. Cardinality(S \ {w}) = IF w \in S THEN Cardinality(S) - 1 ELSE Cardinality(S)
  BY <1>1, FS_RemoveElement
<1> QED BY <1>1, <1>2, <1>3

LEMMA KeepsHolders ==
  ASSUME WorkAccounted, UNCHANGED <<queue, avail>>,
         \A v \in Workers : (sb'[v] = None) <=> (sb[v] = None)
  PROVE  WorkAccounted'
<1>1. Holders' = Holders
  BY DEF Holders
<1> QED BY <1>1 DEF WorkAccounted

LEMMA KeepsCounted ==
  ASSUME RunningAccounted, UNCHANGED running,
         \A v \in Workers : /\ (pc'[v] = "idle") <=> (pc[v] = "idle")
                            /\ (status'[v] = "CONTINUE") <=> (status[v] = "CONTINUE")
  PROVE  RunningAccounted'
<1>1. Counted' = Counted
  BY DEF Counted
<1> QED BY <1>1 DEF RunningAccounted

\* A superblock's size is what it has left.
LEMMA SizeBounds ==
  ASSUME NEW s \in Super
  PROVE  /\ SizeOf(s) \in 0..NumBlocks
         /\ SizeOf(s) > 0 => s.lo \in Blocks /\ s.lo <= s.hi /\ SizeOf(s) = s.hi + 1 - s.lo
BY DEF Super, SizeOf

----------------------------------------------------------------------------
\* The shape of the state, apart from types, the table and the links.
Shape ==
  /\ CtlInv
  /\ HoldInv
  /\ StealInv
  /\ WorkAccounted
  /\ RunningAccounted
  /\ CountedOutIsIdle
  /\ PopFrontSafe

\* A worker that only goes from one place of its code to another.
LEMMA Moves ==
  ASSUME TypeOK, Shape, NEW w \in Workers, NEW l \in WorkerStates, Goto(w, l),
         UNCHANGED <<sb, status, loot, queue, avail, running, ctl, at, hand>>,
         pc[w] # "idle",
         l \notin {"idle", "split", "cut", "pop", "assign", "give"},
         l \in EmptyHanded => sb[w] = None,
         l \in HasWork => sb[w] # None,
         status[w] = "STOP" => l \in {"loop", "asleep", "leave", "done"},
         l \in {"rmagent", "geturl"} /\ sb[w] # None => why'[w] = "crc",
         \A v \in Workers : v # w => why'[v] = why[v]
  PROVE  Shape' /\ pc' \in [Workers -> WorkerStates]
<1>1. /\ pc' \in [Workers -> WorkerStates]
      /\ pc'[w] = l
      /\ \A v \in Workers : v # w => pc'[v] = pc[v]
  BY DEF TypeOK
<1>2. CtlInv'
  BY <1>1 DEF Shape, CtlInv
<1>3. HoldInv'
  BY <1>1 DEF Shape, HoldInv
<1>4. StealInv'
  <2>1. ASSUME NEW v \in Workers, pc'[v] \in {"split", "cut"} PROVE v # w /\ pc[v] = pc'[v]
    BY <1>1, <2>1
  <2>2. ASSUME NEW v \in Workers, Shown(v) PROVE Shown(v)'
    BY <1>1, <2>2 DEF Shown
  <2> QED BY <2>1, <2>2 DEF Shape, StealInv
<1>5. WorkAccounted' /\ RunningAccounted'
  BY <1>1, KeepsHolders, KeepsCounted DEF Shape
<1>6. CountedOutIsIdle'
  BY <1>1 DEF Shape, CountedOutIsIdle
<1>7. PopFrontSafe'
  BY <1>1 DEF Shape, PopFrontSafe
<1> QED BY <1>1, <1>2, <1>3, <1>4, <1>5, <1>6, <1>7 DEF Shape

\* What a step of worker w leaves alone: the other workers, and every entry of
\* the provider table that is another's.
OthersKept(w) ==
  \A v \in Workers :
    v # w => /\ pc'[v] = pc[v] /\ status'[v] = status[v] /\ why'[v] = why[v]
             /\ dl'[v] = dl[v] /\ conn'[v] = conn[v]

OwnersKept(w) ==
  /\ expired \subseteq expired'
  /\ \A u \in Urls : u \in expired' \/ owner'[u] = owner[u] \/ owner[u] \in {w, NoId}

LEMMA LinksKept ==
  ASSUME LinkInv, NEW w \in Workers, OwnersKept(w), OthersKept(w), OwnLinks(w)'
  PROVE  LinkInv'
<1> SUFFICES ASSUME NEW v \in Workers, v # w
             PROVE  OwnLinks(v)'
  BY DEF LinkInv
<1>1. CASE Unlinking(v)
  BY <1>1 DEF Unlinking, OthersKept, OwnLinks
<1>2. CASE Owns(v, dl[v]) /\ Owns(v, conn[v])
  BY <1>2 DEF Owns, OthersKept, OwnersKept, OwnLinks
<1> QED BY <1>1, <1>2 DEF LinkInv, OwnLinks

----------------------------------------------------------------------------
\* The steps of a worker that only moves on, and perhaps changes its links.

LEMMA ShapeOf == IInv => TypeOK /\ TableInv /\ Shape /\ LinkInv
BY DEF IInv, Shape

LEMMA StepOf ==
  ASSUME IInv, NEW w \in Workers,
         TypeOK', TableInv', Shape', OwnersKept(w), OthersKept(w), OwnLinks(w)'
  PROVE  IInv'
BY LinksKept DEF IInv, Shape

LEMMA NoProviders ==
  ASSUME TableInv, NEW w \in Workers, UNCHANGED provVars
  PROVE  /\ TableInv' /\ OwnersKept(w)
         /\ \A u : Owns(w, u) => Owns(w, u)'
BY UnchangedTable DEF OwnersKept, provVars, Owns

\* The worker whose getUrl or removeAgent this is keeps what it owned, unless it
\* gave it up, and disturbs no other.
LEMMA GetUrlLinks ==
  ASSUME TableInv, NEW w \in Workers, NEW r, GetUrl(w, r)
  PROVE  /\ TableInv' /\ OwnersKept(w)
         /\ r \in Urls \union {NoUrl}
         /\ Owns(w, r)'
         /\ \A u : Owns(w, u) => Owns(w, u)'
<1>1. w \in Ids /\ w # NoId
  OBVIOUS
<1>2. /\ expired' = expired
      /\ r \in Urls \union {NoUrl}
      /\ r # NoUrl => owner'[r] = w
      /\ \A u \in Urls : owner'[u] = owner[u] \/ u \in expired \/ owner[u] = NoId
  BY <1>1, GetUrlOwners
<1> QED BY <1>1, <1>2, GetUrlTable DEF Owns, OwnersKept

LEMMA GetUrlThrowsLinks ==
  ASSUME TableInv, NEW w \in Workers, GetUrlThrows(w)
  PROVE  /\ TableInv' /\ OwnersKept(w)
         /\ \A u : Owns(w, u) => Owns(w, u)'
BY GetUrlThrowsTable DEF Owns, OwnersKept

LEMMA RemoveAgentLinks ==
  ASSUME TableInv, NEW w \in Workers, NEW t \in BOOLEAN, RemoveAgent(w, t)
  PROVE  TableInv' /\ OwnersKept(w)
BY RemoveAgentTable DEF OwnersKept

LEMMA StartStep ==
  ASSUME IInv, NEW w \in Workers, Start(w)
  PROVE  IInv'
<1>0. PICK r \in Urls \union {NoUrl} :
        /\ GetUrl(w, r)
        /\ dl' = [dl EXCEPT ![w] = r]
        /\ \/ Goto(w, "report") /\ r = NoUrl
           \/ Goto(w, "loop") /\ r # NoUrl
  BY DEF Start
<1>1. TableInv' /\ OwnersKept(w) /\ (\A u : Owns(w, u) => Owns(w, u)') /\ Owns(w, r)'
  BY <1>0, GetUrlLinks DEF IInv
<1>2. pc[w] = "start" /\ sb[w] = None /\ status[w] # "STOP"
  BY DEF Start, IInv, HoldInv, EmptyHanded, CountedOutIsIdle
<1>3. /\ why' \in [Workers -> Reasons]
      /\ \A v \in Workers : v # w => why'[v] = why[v]
  BY DEF Start, IInv, TypeOK, Reasons
<1>4. Shape' /\ pc' \in [Workers -> WorkerStates]
  <2>1. UNCHANGED <<sb, status, loot, queue, avail, running, ctl, at, hand>>
    BY DEF Start
  <2> QED BY <1>0, <1>2, <1>3, <2>1, ShapeOf, Moves DEF EmptyHanded, HasWork, WorkerStates
<1>5. TypeOK'
  BY <1>0, <1>1, <1>3, <1>4 DEF Start, IInv, TypeOK, TableInv, CtlTypeOK, WorkTypeOK,
     UserTypeOK, TaskTypeOK, LinkTypeOK
<1>6. OthersKept(w)
  BY <1>0, <1>3, ShapeOf DEF Start, OthersKept, TypeOK, LinkTypeOK
<1>7. OwnLinks(w)'
  BY <1>0, <1>1, <1>2 DEF Start, IInv, TypeOK, LinkTypeOK, LinkInv, OwnLinks, Unlinking, Owns
<1> QED BY <1>1, <1>4, <1>5, <1>6, <1>7, StepOf

LEMMA LoopHeadStep ==
  ASSUME IInv, NEW w \in Workers, LoopHead(w)
  PROVE  IInv'
<1>1. TableInv' /\ OwnersKept(w) /\ \A u : Owns(w, u) => Owns(w, u)'
  BY NoProviders DEF IInv, LoopHead
<1>2. Shape' /\ pc' \in [Workers -> WorkerStates]
  BY ShapeOf, Moves DEF LoopHead, EmptyHanded, HasWork, WorkerStates, TypeOK, Shape, HoldInv,
     CountedOutIsIdle
<1>3. TypeOK'
  BY <1>1, <1>2 DEF LoopHead, Reasons, IInv, TypeOK, TableInv, CtlTypeOK, WorkTypeOK, UserTypeOK,
     TaskTypeOK,
     LinkTypeOK
<1>4. OthersKept(w)
  BY ShapeOf DEF LoopHead, OthersKept, TypeOK, LinkTypeOK
<1>5. OwnLinks(w)'
  BY <1>1 DEF LoopHead, IInv, TypeOK, LinkTypeOK, LinkInv, OwnLinks, Unlinking, Owns
<1> QED BY <1>1, <1>2, <1>3, <1>4, <1>5, StepOf

LEMMA AwakeStep ==
  ASSUME IInv, NEW w \in Workers, Awake(w)
  PROVE  IInv'
<1>1. TableInv' /\ OwnersKept(w) /\ \A u : Owns(w, u) => Owns(w, u)'
  BY NoProviders DEF IInv, Awake
<1>2. Shape' /\ pc' \in [Workers -> WorkerStates]
  BY ShapeOf, Moves DEF Awake, EmptyHanded, HasWork, WorkerStates, TypeOK, Shape, HoldInv,
     CountedOutIsIdle
<1>3. TypeOK'
  BY <1>1, <1>2 DEF Awake, Reasons, IInv, TypeOK, TableInv, CtlTypeOK, WorkTypeOK, UserTypeOK,
     TaskTypeOK,
     LinkTypeOK
<1>4. OthersKept(w)
  BY ShapeOf DEF Awake, OthersKept, TypeOK, LinkTypeOK
<1>5. OwnLinks(w)'
  BY <1>1 DEF Awake, IInv, TypeOK, LinkTypeOK, LinkInv, OwnLinks, Unlinking, Owns
<1> QED BY <1>1, <1>2, <1>3, <1>4, <1>5, StepOf

LEMMA ErrCheckStep ==
  ASSUME IInv, NEW w \in Workers, ErrCheck(w)
  PROVE  IInv'
<1>1. TableInv' /\ OwnersKept(w) /\ \A u : Owns(w, u) => Owns(w, u)'
  BY NoProviders DEF IInv, ErrCheck
<1>2. Shape' /\ pc' \in [Workers -> WorkerStates]
  BY ZenonT(60), ShapeOf, Moves DEF ErrCheck, EmptyHanded, HasWork, WorkerStates, TypeOK, Shape, HoldInv,
     CountedOutIsIdle
<1>3. TypeOK'
  BY <1>1, <1>2 DEF ErrCheck, Reasons, IInv, TypeOK, TableInv, CtlTypeOK, WorkTypeOK, UserTypeOK,
     TaskTypeOK,
     LinkTypeOK
<1>4. OthersKept(w)
  BY ShapeOf DEF ErrCheck, OthersKept, TypeOK, LinkTypeOK
<1>5. OwnLinks(w)'
  BY <1>1 DEF ErrCheck, IInv, TypeOK, LinkTypeOK, LinkInv, OwnLinks, Unlinking, Owns
<1> QED BY <1>1, <1>2, <1>3, <1>4, <1>5, StepOf

LEMMA ConnectStep ==
  ASSUME IInv, NEW w \in Workers, Connect(w)
  PROVE  IInv'
<1>1. TableInv' /\ OwnersKept(w) /\ \A u : Owns(w, u) => Owns(w, u)'
  BY NoProviders DEF IInv, Connect
<1>2. Shape' /\ pc' \in [Workers -> WorkerStates]
  BY ShapeOf, Moves DEF Connect, DlValid, EmptyHanded, HasWork, WorkerStates, TypeOK, Shape,
     HoldInv,
     CountedOutIsIdle
<1>3. TypeOK'
  <2>1. due' \in [Workers -> 0..NumBlocks]
    <3>1. sb[w] \in Super /\ due \in [Workers -> 0..NumBlocks]
      BY SMTT(60) DEF Connect, IInv, HoldInv, HasWork, TypeOK, TaskTypeOK, LinkTypeOK
    <3>2. SizeOf(sb[w]) \in 0..NumBlocks
      BY <3>1, SizeBounds
    <3> QED BY <3>1, <3>2 DEF Connect
  <2>2. conn' \in [Workers -> Urls \union {NoUrl}] /\ why' \in [Workers -> Reasons]
    BY DEF Connect, DlValid, Reasons, IInv, TypeOK, LinkTypeOK
  <2> QED BY <1>1, <1>2, <2>1, <2>2 DEF Connect, DlValid, IInv, TypeOK, TableInv, CtlTypeOK,
     WorkTypeOK,
          UserTypeOK, TaskTypeOK, LinkTypeOK
<1>4. OthersKept(w)
  BY ZenonT(60), ShapeOf DEF Connect, DlValid, OthersKept, TypeOK, LinkTypeOK
<1>5. OwnLinks(w)'
  BY ZenonT(60), <1>1 DEF Connect, DlValid, IInv, TypeOK, LinkTypeOK, LinkInv, OwnLinks, Unlinking, Owns
<1> QED BY <1>1, <1>2, <1>3, <1>4, <1>5, StepOf

LEMMA RefuseDataStep ==
  ASSUME IInv, NEW w \in Workers, RefuseData(w)
  PROVE  IInv'
<1>1. TableInv' /\ OwnersKept(w) /\ \A u : Owns(w, u) => Owns(w, u)'
  BY NoProviders DEF IInv, RefuseData
<1>2. Shape' /\ pc' \in [Workers -> WorkerStates]
  BY ShapeOf, Moves DEF RefuseData, EmptyHanded, HasWork, WorkerStates, TypeOK, Shape, HoldInv,
     CountedOutIsIdle
<1>3. TypeOK'
  BY <1>1, <1>2 DEF RefuseData, Reasons, IInv, TypeOK, TableInv, CtlTypeOK, WorkTypeOK,
     UserTypeOK, TaskTypeOK, LinkTypeOK
<1>4. OthersKept(w)
  BY ShapeOf DEF RefuseData, OthersKept, TypeOK, LinkTypeOK
<1>5. OwnLinks(w)'
  BY <1>1 DEF RefuseData, IInv, TypeOK, LinkTypeOK, LinkInv, OwnLinks, Unlinking, Owns
<1> QED BY <1>1, <1>2, <1>3, <1>4, <1>5, StepOf

LEMMA RefusedStep ==
  ASSUME IInv, NEW w \in Workers, Refused(w)
  PROVE  IInv'
<1>1. TableInv' /\ OwnersKept(w) /\ \A u : Owns(w, u) => Owns(w, u)'
  BY NoProviders DEF IInv, Refused
<1>2. Shape' /\ pc' \in [Workers -> WorkerStates]
  BY ShapeOf, Moves DEF Refused, Fails, RangeEnds, EmptyHanded, HasWork, WorkerStates, TypeOK,
     Shape, HoldInv,
     CountedOutIsIdle
<1>3. TypeOK'
  <2>1. due' \in [Workers -> 0..NumBlocks]
    BY SMTT(60) DEF Refused, Fails, RangeEnds, IInv, TypeOK, LinkTypeOK
  <2>2. conn' \in [Workers -> Urls \union {NoUrl}] /\ why' \in [Workers -> Reasons]
    BY DEF Refused, Fails, RangeEnds, Reasons, IInv, TypeOK, LinkTypeOK
  <2> QED BY <1>1, <1>2, <2>1, <2>2 DEF Refused, Fails, RangeEnds, IInv, TypeOK, TableInv,
     CtlTypeOK, WorkTypeOK,
          UserTypeOK, TaskTypeOK, LinkTypeOK
<1>4. OthersKept(w)
  BY ShapeOf DEF Refused, Fails, RangeEnds, OthersKept, TypeOK, LinkTypeOK
<1>5. OwnLinks(w)'
  BY <1>1 DEF Refused, Fails, RangeEnds, IInv, TypeOK, LinkTypeOK, LinkInv, OwnLinks, Unlinking,
     Owns
<1> QED BY <1>1, <1>2, <1>3, <1>4, <1>5, StepOf

LEMMA RangeDoneStep ==
  ASSUME IInv, NEW w \in Workers, RangeDone(w)
  PROVE  IInv'
<1>1. TableInv' /\ OwnersKept(w) /\ \A u : Owns(w, u) => Owns(w, u)'
  BY NoProviders DEF IInv, RangeDone
<1>2. Shape' /\ pc' \in [Workers -> WorkerStates]
  BY ShapeOf, Moves DEF RangeDone, RangeEnds, EmptyHanded, HasWork, WorkerStates, TypeOK, Shape,
     HoldInv,
     CountedOutIsIdle
<1>3. TypeOK'
  BY <1>1, <1>2 DEF RangeDone, RangeEnds, Reasons, IInv, TypeOK, TableInv, CtlTypeOK, WorkTypeOK,
     UserTypeOK, TaskTypeOK, LinkTypeOK
<1>4. OthersKept(w)
  BY ShapeOf DEF RangeDone, RangeEnds, OthersKept, TypeOK, LinkTypeOK
<1>5. OwnLinks(w)'
  BY <1>1 DEF RangeDone, RangeEnds, IInv, TypeOK, LinkTypeOK, LinkInv, OwnLinks, Unlinking, Owns
<1> QED BY <1>1, <1>2, <1>3, <1>4, <1>5, StepOf

LEMMA PartialFileStep ==
  ASSUME IInv, NEW w \in Workers, PartialFile(w)
  PROVE  IInv'
<1>1. TableInv' /\ OwnersKept(w) /\ \A u : Owns(w, u) => Owns(w, u)'
  BY NoProviders DEF IInv, PartialFile
<1>2. Shape' /\ pc' \in [Workers -> WorkerStates]
  BY ShapeOf, Moves DEF PartialFile, RangeEnds, EmptyHanded, HasWork, WorkerStates, TypeOK, Shape,
     HoldInv,
     CountedOutIsIdle
<1>3. TypeOK'
  <2>1. due' \in [Workers -> 0..NumBlocks]
    BY DEF PartialFile, RangeEnds, IInv, TypeOK, LinkTypeOK
  <2>2. conn' \in [Workers -> Urls \union {NoUrl}] /\ why' \in [Workers -> Reasons]
    BY DEF PartialFile, RangeEnds, Reasons, IInv, TypeOK, LinkTypeOK
  <2>3. faults' \in 0..MaxFaults
    BY DEF PartialFile, IInv, TypeOK
  <2>4. CtlTypeOK' /\ WorkTypeOK' /\ UserTypeOK' /\ TaskTypeOK'
    BY DEF PartialFile, IInv, TypeOK, CtlTypeOK, WorkTypeOK, UserTypeOK, TaskTypeOK
  <2>5. UNCHANGED <<dl, attempt, err, corrupt>> /\ ProvidersTypeOK'
    BY <1>1 DEF PartialFile, TableInv
  <2> QED BY <1>2, <2>1, <2>2, <2>3, <2>4, <2>5 DEF IInv, TypeOK, LinkTypeOK
<1>4. OthersKept(w)
  BY ShapeOf DEF PartialFile, RangeEnds, OthersKept, TypeOK, LinkTypeOK
<1>5. OwnLinks(w)'
  BY <1>1 DEF PartialFile, RangeEnds, IInv, TypeOK, LinkTypeOK, LinkInv, OwnLinks, Unlinking, Owns
<1> QED BY <1>1, <1>2, <1>3, <1>4, <1>5, StepOf

LEMMA NetErrorStep ==
  ASSUME IInv, NEW w \in Workers, NEW reason \in {"retry", "newurl"}, NetError(w, reason)
  PROVE  IInv'
<1>1. TableInv' /\ OwnersKept(w) /\ \A u : Owns(w, u) => Owns(w, u)'
  BY NoProviders DEF IInv, NetError
<1>2. Shape' /\ pc' \in [Workers -> WorkerStates]
  BY ShapeOf, Moves DEF NetError, Fails, EmptyHanded, HasWork, WorkerStates, TypeOK, Shape, HoldInv,
     CountedOutIsIdle
<1>3. TypeOK'
  <2>1. due' \in [Workers -> 0..NumBlocks]
    BY DEF NetError, Fails, IInv, TypeOK, LinkTypeOK
  <2>2. conn' \in [Workers -> Urls \union {NoUrl}] /\ why' \in [Workers -> Reasons]
    BY DEF NetError, Fails, Reasons, IInv, TypeOK, LinkTypeOK
  <2>3. faults' \in 0..MaxFaults
    BY DEF NetError, IInv, TypeOK
  <2>4. CtlTypeOK' /\ WorkTypeOK' /\ UserTypeOK' /\ TaskTypeOK'
    BY DEF NetError, IInv, TypeOK, CtlTypeOK, WorkTypeOK, UserTypeOK, TaskTypeOK
  <2>5. UNCHANGED <<dl, attempt, err, corrupt>> /\ ProvidersTypeOK'
    BY <1>1 DEF NetError, TableInv
  <2> QED BY <1>2, <2>1, <2>2, <2>3, <2>4, <2>5 DEF IInv, TypeOK, LinkTypeOK
<1>4. OthersKept(w)
  BY ShapeOf DEF NetError, Fails, OthersKept, TypeOK, LinkTypeOK
<1>5. OwnLinks(w)'
  BY <1>1 DEF NetError, Fails, IInv, TypeOK, LinkTypeOK, LinkInv, OwnLinks, Unlinking, Owns
<1> QED BY <1>1, <1>2, <1>3, <1>4, <1>5, StepOf

LEMMA RenewThrowsStep ==
  ASSUME IInv, NEW w \in Workers, RenewThrows(w)
  PROVE  IInv'
<1>1. TableInv' /\ OwnersKept(w) /\ \A u : Owns(w, u) => Owns(w, u)'
  BY GetUrlThrowsLinks DEF IInv, RenewThrows
<1>2. Shape' /\ pc' \in [Workers -> WorkerStates]
  BY ShapeOf, Moves DEF RenewThrows, EmptyHanded, HasWork, WorkerStates, TypeOK, Shape, HoldInv,
     CountedOutIsIdle
<1>3. TypeOK'
  BY <1>1, <1>2 DEF RenewThrows, Reasons, IInv, TypeOK, TableInv, CtlTypeOK, WorkTypeOK,
     UserTypeOK, TaskTypeOK, LinkTypeOK
<1>4. OthersKept(w)
  BY ShapeOf DEF RenewThrows, OthersKept, TypeOK, LinkTypeOK
<1>5. OwnLinks(w)'
  BY <1>1 DEF RenewThrows, IInv, TypeOK, LinkTypeOK, LinkInv, OwnLinks, Unlinking, Owns
<1> QED BY <1>1, <1>2, <1>3, <1>4, <1>5, StepOf

LEMMA DiesStep ==
  ASSUME IInv, NEW w \in Workers, Dies(w)
  PROVE  IInv'
<1>1. TableInv' /\ OwnersKept(w) /\ \A u : Owns(w, u) => Owns(w, u)'
  BY GetUrlThrowsLinks DEF IInv, Dies
<1>2. Shape' /\ pc' \in [Workers -> WorkerStates]
  BY ShapeOf, Moves DEF Dies, EmptyHanded, HasWork, WorkerStates, TypeOK, Shape, HoldInv,
     CountedOutIsIdle
<1>3. TypeOK'
  BY <1>1, <1>2 DEF Dies, Reasons, IInv, TypeOK, TableInv, CtlTypeOK, WorkTypeOK,
     UserTypeOK, TaskTypeOK, LinkTypeOK
<1>4. OthersKept(w)
  BY ShapeOf DEF Dies, OthersKept, TypeOK, LinkTypeOK
<1>5. OwnLinks(w)'
  BY <1>1 DEF Dies, IInv, TypeOK, LinkTypeOK, OwnLinks, Unlinking, Owns
<1> QED BY <1>1, <1>2, <1>3, <1>4, <1>5, StepOf

LEMMA RmAgentStep ==
  ASSUME IInv, NEW w \in Workers, RmAgent(w)
  PROVE  IInv'
<1>1. TableInv' /\ OwnersKept(w)
  BY RemoveAgentLinks DEF IInv, RmAgent
<1>2. Shape' /\ pc' \in [Workers -> WorkerStates]
  BY ShapeOf, Moves DEF RmAgent, EmptyHanded, HasWork, WorkerStates, TypeOK, Shape, HoldInv,
     CountedOutIsIdle
<1>3. TypeOK'
  BY <1>1, <1>2 DEF RmAgent, Reasons, IInv, TypeOK, TableInv, CtlTypeOK, WorkTypeOK,
     UserTypeOK, TaskTypeOK, LinkTypeOK
<1>4. OthersKept(w)
  BY ShapeOf DEF RmAgent, OthersKept, TypeOK, LinkTypeOK
<1>5. OwnLinks(w)'
  BY <1>1 DEF RmAgent, IInv, TypeOK, LinkTypeOK, OwnLinks, Unlinking, Owns
<1> QED BY <1>1, <1>2, <1>3, <1>4, <1>5, StepOf

LEMMA LeaveStep ==
  ASSUME IInv, NEW w \in Workers, Leave(w)
  PROVE  IInv'
<1>1. TableInv' /\ OwnersKept(w)
  BY RemoveAgentLinks DEF IInv, Leave
<1>2. Shape' /\ pc' \in [Workers -> WorkerStates]
  BY ShapeOf, Moves DEF Leave, EmptyHanded, HasWork, WorkerStates, TypeOK, Shape, HoldInv,
     CountedOutIsIdle
<1>3. TypeOK'
  BY <1>1, <1>2 DEF Leave, Reasons, IInv, TypeOK, TableInv, CtlTypeOK, WorkTypeOK,
     UserTypeOK, TaskTypeOK, LinkTypeOK
<1>4. OthersKept(w)
  BY ShapeOf DEF Leave, OthersKept, TypeOK, LinkTypeOK
<1>5. OwnLinks(w)'
  BY <1>1 DEF Leave, IInv, TypeOK, LinkTypeOK, OwnLinks, Unlinking, Owns
<1> QED BY <1>1, <1>2, <1>3, <1>4, <1>5, StepOf

LEMMA RenewUrlStep ==
  ASSUME IInv, NEW w \in Workers, RenewUrl(w)
  PROVE  IInv'
<1>0. PICK r \in Urls \union {NoUrl} :
        /\ GetUrl(w, r)
        /\ dl' = [dl EXCEPT ![w] = r]
        /\ IF r = NoUrl THEN /\ Goto(w, "reset")
                             /\ why' = [why EXCEPT ![w] = "newurl"]
                        ELSE UNCHANGED <<pc, why>>
  BY DEF RenewUrl
<1>1. TableInv' /\ OwnersKept(w) /\ \A u : Owns(w, u) => Owns(w, u)' /\ Owns(w, r)'
  BY <1>0, GetUrlLinks DEF IInv
<1>2. Shape' /\ pc' \in [Workers -> WorkerStates]
  <2>1. pc[w] = "begin" /\ sb[w] # None /\ status[w] # "STOP"
    BY DEF RenewUrl, IInv, HoldInv, HasWork, CountedOutIsIdle
  <2>2. \E l \in {"reset", "begin"} : Goto(w, l)
    BY <1>0, <2>1 DEF IInv, TypeOK
  <2>3. \A v \in Workers : v # w => why'[v] = why[v]
    BY <1>0 DEF IInv, TypeOK
  <2>4. UNCHANGED <<sb, status, loot, queue, avail, running, ctl, at, hand>>
    BY DEF RenewUrl
  <2> QED BY <2>1, <2>2, <2>3, <2>4, ShapeOf, Moves DEF WorkerStates, EmptyHanded, HasWork
<1>3. TypeOK'
  BY ZenonT(60), <1>0, <1>1, <1>2 DEF RenewUrl, Reasons, IInv, TypeOK, TableInv, CtlTypeOK, WorkTypeOK,
     UserTypeOK, TaskTypeOK, LinkTypeOK
<1>4. OthersKept(w)
  BY ZenonT(60), <1>0, ShapeOf DEF RenewUrl, OthersKept, TypeOK, LinkTypeOK
<1>5. OwnLinks(w)'
  BY <1>0, <1>1 DEF RenewUrl, IInv, TypeOK, LinkTypeOK, LinkInv, OwnLinks, Unlinking, Owns
<1> QED BY <1>1, <1>2, <1>3, <1>4, <1>5, StepOf

LEMMA GetNewUrlStep ==
  ASSUME IInv, NEW w \in Workers, GetNewUrl(w)
  PROVE  IInv'
<1>0. PICK r \in Urls \union {NoUrl} :
        /\ GetUrl(w, r)
        /\ dl' = [dl EXCEPT ![w] = r]
        /\ \/ /\ r = NoUrl
              /\ Goto(w, IF sb[w] = None THEN "report" ELSE "reset")
              /\ UNCHANGED <<attempt, conn, why, err>>
           \/ /\ r # NoUrl
              /\ attempt' = [attempt EXCEPT ![w] = 0]
              /\ HangUp(w)
              /\ why' = [why EXCEPT ![w] = "none"]
              /\ err' = IF why[w] = "crc" THEN [err EXCEPT ![w] = FALSE] ELSE err
              /\ Goto(w, IF why[w] # "crc" THEN "loop"
                         ELSE IF sb[w] = None THEN "task" ELSE "begin")
  BY DEF GetNewUrl
<1>1. TableInv' /\ OwnersKept(w) /\ \A u : Owns(w, u) => Owns(w, u)' /\ Owns(w, r)'
  BY <1>0, GetUrlLinks DEF IInv
<1>2. Shape' /\ pc' \in [Workers -> WorkerStates]
  BY ZenonT(60), <1>0, ShapeOf, Moves DEF GetNewUrl, EmptyHanded, HasWork, WorkerStates, TypeOK, Shape, HoldInv,
     CountedOutIsIdle
<1>3. TypeOK'
  <2>1. CtlTypeOK' /\ WorkTypeOK' /\ UserTypeOK' /\ TaskTypeOK'
    BY DEF GetNewUrl, IInv, TypeOK, CtlTypeOK, WorkTypeOK, UserTypeOK, TaskTypeOK
  <2>2. LinkTypeOK'
    <3>1. attempt' = attempt \/ attempt' = [attempt EXCEPT ![w] = 0]
      BY <1>0
    <3>2. conn' = conn \/ conn' = [conn EXCEPT ![w] = NoUrl]
      BY <1>0
    <3>3. UNCHANGED due
      BY DEF GetNewUrl
    <3>4. dl' \in [Workers -> Urls \union {NoUrl}]
      BY <1>0 DEF IInv, TypeOK, LinkTypeOK
    <3>5. attempt' \in [Workers -> 0..MaxAttempts]
      BY <3>1 DEF IInv, TypeOK, LinkTypeOK
    <3>6. conn' \in [Workers -> Urls \union {NoUrl}]
      BY <3>2 DEF IInv, TypeOK, LinkTypeOK
    <3> QED BY <3>3, <3>4, <3>5, <3>6 DEF IInv, TypeOK, LinkTypeOK
  <2>3. err' \in [Workers -> BOOLEAN] /\ why' \in [Workers -> Reasons]
    <3>1. err' = err \/ err' = [err EXCEPT ![w] = FALSE]
      BY <1>0
    <3>2. why' = why \/ why' = [why EXCEPT ![w] = "none"]
      BY <1>0
    <3> QED BY <3>1, <3>2 DEF IInv, TypeOK, Reasons
  <2>4. UNCHANGED bounds /\ ProvidersTypeOK'
    BY <1>1 DEF GetNewUrl, TableInv
  <2> QED BY <1>2, <2>1, <2>2, <2>3, <2>4 DEF IInv, TypeOK
<1>4. OthersKept(w)
  BY ZenonT(60), <1>0, ShapeOf DEF GetNewUrl, OthersKept, TypeOK, LinkTypeOK
<1>5. OwnLinks(w)'
  BY <1>0, <1>1 DEF GetNewUrl, IInv, TypeOK, LinkTypeOK, LinkInv, HoldInv, OwnLinks, Unlinking, Owns
<1> QED BY <1>1, <1>2, <1>3, <1>4, <1>5, StepOf

----------------------------------------------------------------------------
\* The steps that move superblocks and counters.

LEMMA TakeQueuedStep ==
  ASSUME IInv, NEW w \in Workers, TakeQueued(w)
  PROVE  IInv'
<1>0. /\ pc[w] = "task" /\ sb[w] = None /\ status[w] # "STOP"
      /\ queue \in Seq(Super) /\ queue # <<>>
      /\ sb' = [sb EXCEPT ![w] = Head(queue)] /\ queue' = Tail(queue)
      /\ pc' = [pc EXCEPT ![w] = "assign"]
      /\ sb \in [Workers -> Super \union {None}] /\ pc \in [Workers -> WorkerStates]
      /\ UNCHANGED <<avail, running, status, buf, loot, linkVars, errVars, bounds, provVars,
                     ctlVars, fileVars, userVars>>
  BY DEF TakeQueued, IInv, HoldInv, EmptyHanded, CountedOutIsIdle, TypeOK, WorkTypeOK, TaskTypeOK
<1>1. /\ Head(queue) \in Super /\ Head(queue) # None
      /\ queue' \in Seq(Super) /\ Len(queue') = Len(queue) - 1 /\ Len(queue) \in Nat
  BY <1>0
<1>2. TableInv' /\ OwnersKept(w) /\ \A u : Owns(w, u) => Owns(w, u)'
  BY <1>0, NoProviders DEF IInv
<1>3. TypeOK'
  BY <1>0, <1>1, <1>2 DEF IInv, TypeOK, TableInv, CtlTypeOK, WorkTypeOK,
     UserTypeOK, TaskTypeOK, LinkTypeOK, WorkerStates
<1>4. CtlInv' /\ HoldInv'
  BY <1>0, <1>1 DEF IInv, CtlInv, HoldInv, EmptyHanded, HasWork
<1>5. StealInv'
  BY <1>0 DEF IInv, StealInv, Shown
<1>6. WorkAccounted'
  <2>1. Holders' = Holders \union {w} /\ w \notin Holders
    BY <1>0, <1>1 DEF Holders
  <2>2. Cardinality(Holders') = Cardinality(Holders) + 1 /\ Cardinality(Holders) \in Nat
    BY ZenonT(60), <2>1, CountJoins, WorkersFinite DEF Holders
  <2> QED BY <1>0, <1>1, <2>2 DEF IInv, WorkAccounted
<1>7. RunningAccounted'
  BY <1>0, KeepsCounted DEF IInv
<1>8. CountedOutIsIdle' /\ PopFrontSafe'
  BY <1>0 DEF IInv, CountedOutIsIdle, PopFrontSafe
<1>9. OthersKept(w) /\ OwnLinks(w)'
  BY <1>0, <1>2 DEF IInv, OthersKept, LinkInv, OwnLinks, Unlinking, Owns
<1> QED BY <1>2, <1>3, <1>4, <1>5, <1>6, <1>7, <1>8, <1>9, StepOf DEF Shape

LEMMA LookForVictimStep ==
  ASSUME IInv, NEW w \in Workers, LookForVictim(w)
  PROVE  IInv'
<1>0. PICK v \in Workers :
        IF Count(v) < MinSteal
        THEN /\ Goto(w, "report")
             /\ UNCHANGED loot
        ELSE /\ Goto(w, "split")
             /\ loot' = [loot EXCEPT ![w] = [from |-> v, half |-> Count(v) \div 2]]
  BY DEF LookForVictim
<1>1. /\ pc[w] = "task" /\ sb[w] = None /\ status[w] # "STOP"
      /\ UNCHANGED <<workVars, sb, status, buf, linkVars, errVars, bounds, provVars,
                     ctlVars, fileVars, userVars>>
  BY DEF LookForVictim, IInv, HoldInv, EmptyHanded, CountedOutIsIdle
<1>2. TableInv' /\ OwnersKept(w) /\ \A u : Owns(w, u) => Owns(w, u)'
  BY <1>1, NoProviders DEF IInv
<1>3. CASE Goto(w, "report") /\ UNCHANGED loot
  <2>1. Shape' /\ pc' \in [Workers -> WorkerStates]
    BY <1>1, <1>3, ShapeOf, Moves DEF EmptyHanded, HasWork, WorkerStates
  <2>2. TypeOK'
    BY <1>1, <1>2, <1>3, <2>1 DEF IInv, TypeOK, TableInv, CtlTypeOK, WorkTypeOK,
       UserTypeOK, TaskTypeOK, LinkTypeOK
  <2>3. OthersKept(w) /\ OwnLinks(w)'
    BY <1>1, <1>2, <1>3 DEF IInv, TypeOK, OthersKept, LinkInv, OwnLinks, Unlinking, Owns
  <2> QED BY <1>2, <2>1, <2>2, <2>3, StepOf
<1>4. CASE /\ Count(v) >= MinSteal
           /\ Goto(w, "split")
           /\ loot' = [loot EXCEPT ![w] = [from |-> v, half |-> Count(v) \div 2]]
  <2>1. Count(v) \div 2 \in 0..NumBlocks /\ Count(v) \div 2 > 0
    <3>1. sb[v] \in Super
      BY <1>4 DEF IInv, TypeOK, TaskTypeOK, Count, Shown, MinSteal
    <3>2. Count(v) \in 3..NumBlocks
      BY <1>4, <3>1, SizeBounds DEF Count, MinSteal
    <3> QED BY <3>2
  <2>2. /\ pc' \in [Workers -> WorkerStates] /\ pc'[w] = "split"
        /\ loot' \in [Workers -> [from : Workers \union {0}, half : 0..NumBlocks]]
        /\ loot'[w].from = v /\ loot'[w].half > 0
        /\ \A x \in Workers : x # w => pc'[x] = pc[x] /\ loot'[x] = loot[x]
    BY <1>4, <2>1 DEF IInv, TypeOK, TaskTypeOK, WorkerStates
  <2>3. TypeOK'
    BY <1>1, <1>2, <2>2 DEF IInv, TypeOK, TableInv, CtlTypeOK, WorkTypeOK,
       UserTypeOK, TaskTypeOK, LinkTypeOK
  <2>4. CtlInv' /\ HoldInv' /\ CountedOutIsIdle' /\ PopFrontSafe'
    BY ZenonT(60), <1>1, <2>2 DEF IInv, CtlInv, HoldInv, EmptyHanded, HasWork, CountedOutIsIdle, PopFrontSafe
  <2>5. StealInv'
    BY ZenonT(60), <1>1, <2>2 DEF IInv, StealInv, Shown
  <2>6. WorkAccounted' /\ RunningAccounted'
    BY <1>1, <2>2, KeepsHolders, KeepsCounted DEF IInv
  <2>7. OthersKept(w) /\ OwnLinks(w)'
    BY <1>1, <1>2, <2>2 DEF IInv, OthersKept, LinkInv, OwnLinks, Unlinking, Owns
  <2> QED BY <1>2, <2>3, <2>4, <2>5, <2>6, <2>7, StepOf DEF Shape
<1> QED
  <2>1. Count(v) \in Nat
    <3>1. CASE Shown(v)
      BY <3>1, SizeBounds DEF Count, Shown, IInv, TypeOK, TaskTypeOK
    <3> QED BY <3>1 DEF Count
  <2> QED BY <1>0, <1>3, <1>4, <2>1 DEF MinSteal

\* What a cut makes of a superblock.
LEMMA CutInTwo ==
  ASSUME NEW s \in Super, NEW half \in 1..NumBlocks, half <= SizeOf(s)
  PROVE  /\ [lo |-> s.lo, hi |-> s.lo + half - 1] \in Super
         /\ SizeOf([lo |-> s.lo, hi |-> s.lo + half - 1]) > 0
         /\ [lo |-> s.lo + half, hi |-> s.hi] \in Super
         /\ [s EXCEPT !.hi = s.lo + half - 1] = [lo |-> s.lo, hi |-> s.lo + half - 1]
<1>1. s.lo \in 1..(NumBlocks + 1) /\ s.hi \in 0..NumBlocks
  BY DEF Super
<1>2. s.lo <= s.hi /\ half <= s.hi + 1 - s.lo
  BY SizeBounds, <1>1 DEF SizeOf
<1>3. /\ s.lo + half - 1 \in 1..NumBlocks /\ s.lo + half \in 1..(NumBlocks + 1)
      /\ s.lo <= s.lo + half - 1
  <2>1. s.lo \in Int /\ s.hi \in Int /\ half \in Int /\ NumBlocks \in Int
    BY <1>1
  <2>2. 1 <= s.lo /\ s.hi <= NumBlocks /\ 1 <= half
    BY <1>1
  <2>3. \A lo, hi, h, n \in Int :
          (1 <= lo /\ hi <= n /\ 1 <= h /\ h <= hi + 1 - lo)
            => /\ lo + h - 1 \in 1..n /\ lo + h \in 1..(n + 1)
               /\ lo <= lo + h - 1
    OBVIOUS
  <2> QED BY <1>2, <2>1, <2>2, <2>3
<1>4. \A hi : [s EXCEPT !.hi = hi] = [lo |-> s.lo, hi |-> hi]
  BY DEF Super
<1>5. [lo |-> s.lo, hi |-> s.lo + half - 1] \in Super
  BY <1>1, <1>3 DEF Super
<1>6. [lo |-> s.lo + half, hi |-> s.hi] \in Super
  BY <1>1, <1>3 DEF Super
<1>7. SizeOf([lo |-> s.lo, hi |-> s.lo + half - 1]) > 0
  BY <1>1, <1>3 DEF SizeOf
<1> QED BY <1>4, <1>5, <1>6, <1>7

LEMMA SplitStep ==
  ASSUME IInv, NEW w \in Workers, Split(w)
  PROVE  IInv'
<1>0. /\ pc[w] = "split" /\ sb[w] = None /\ status[w] # "STOP"
      /\ UNCHANGED <<workVars, sb, status, buf, linkVars, errVars, bounds, provVars,
                     ctlVars, fileVars, userVars>>
      /\ \/ Goto(w, "cut") /\ UNCHANGED loot /\ Shown(loot[w].from)
         \/ Goto(w, "report") /\ loot' = [loot EXCEPT ![w] = NoLoot]
  BY DEF Split, IInv, HoldInv, EmptyHanded, CountedOutIsIdle
<1>1. /\ pc' \in [Workers -> WorkerStates] /\ pc'[w] \in {"cut", "report"}
      /\ pc'[w] = "cut" => loot'[w] = loot[w] /\ Shown(loot[w].from)
      /\ loot' \in [Workers -> [from : Workers \union {0}, half : 0..NumBlocks]]
      /\ \A x \in Workers : x # w => pc'[x] = pc[x] /\ loot'[x] = loot[x]
  <2>1. NoLoot \in [from : Workers \union {0}, half : 0..NumBlocks]
    BY DEF NoLoot
  <2>2. /\ pc \in [Workers -> WorkerStates] /\ {"cut", "report"} \subseteq WorkerStates
        /\ loot \in [Workers -> [from : Workers \union {0}, half : 0..NumBlocks]]
    BY DEF IInv, TypeOK, TaskTypeOK, WorkerStates
  <2>3. CASE Goto(w, "cut") /\ UNCHANGED loot /\ Shown(loot[w].from)
    BY <2>2, <2>3
  <2>4. CASE Goto(w, "report") /\ loot' = [loot EXCEPT ![w] = NoLoot]
    BY <2>1, <2>2, <2>4
  <2> QED BY <1>0, <2>3, <2>4
<1>2. TableInv' /\ OwnersKept(w) /\ \A u : Owns(w, u) => Owns(w, u)'
  BY <1>0, NoProviders DEF IInv
<1>3. TypeOK'
  BY <1>0, <1>1, <1>2 DEF IInv, TypeOK, TableInv, CtlTypeOK, WorkTypeOK,
     UserTypeOK, TaskTypeOK, LinkTypeOK
<1>4. CtlInv' /\ CountedOutIsIdle' /\ PopFrontSafe'
  BY <1>0, <1>1 DEF IInv, CtlInv, CountedOutIsIdle, PopFrontSafe
<1>5. HoldInv'
  BY <1>0, <1>1 DEF IInv, HoldInv, EmptyHanded, HasWork
<1>6. StealInv'
  <2>1. \A x \in Workers : Shown(x) => Shown(x)'
    BY <1>0, <1>1 DEF Shown
  <2>2. loot[w].from \in Workers /\ loot[w].half > 0
    BY <1>0 DEF IInv, StealInv
  <2> QED BY <1>0, <1>1, <2>1, <2>2 DEF IInv, StealInv
<1>7. WorkAccounted' /\ RunningAccounted'
  BY <1>0, <1>1, KeepsHolders, KeepsCounted DEF IInv
<1>8. OthersKept(w) /\ OwnLinks(w)'
  BY <1>0, <1>1, <1>2 DEF IInv, OthersKept, LinkInv, OwnLinks, Unlinking, Owns
<1> QED BY <1>2, <1>3, <1>4, <1>5, <1>6, <1>7, <1>8, StepOf DEF Shape

LEMMA CutStep ==
  ASSUME IInv, NEW w \in Workers, Cut(w)
  PROVE  IInv'
<1> DEFINE v == loot[w].from
           half == loot[w].half
           s == sb[v]
<1>0. /\ pc[w] = "cut" /\ sb[w] = None /\ status[w] # "STOP"
      /\ v \in Workers /\ v # w /\ s \in Super /\ half \in 1..NumBlocks
      /\ pc[v] \notin {"assign", "give"}
      /\ UNCHANGED <<queue, running, status, buf, linkVars, errVars, bounds, provVars,
                     ctlVars, fileVars, userVars>>
      /\ loot' = [loot EXCEPT ![w] = NoLoot]
  <2>1. pc[w] = "cut" /\ loot' = [loot EXCEPT ![w] = NoLoot]
    BY DEF Cut
  <2>2. sb[w] = None /\ status[w] # "STOP"
    BY <2>1 DEF IInv, HoldInv, EmptyHanded, CountedOutIsIdle
  <2>3. v \in Workers /\ half > 0 /\ Shown(v)
    BY <2>1 DEF IInv, StealInv
  <2>4. s # None /\ pc[v] \notin {"assign", "give"}
    BY <2>3 DEF Shown
  <2>5. s \in Super /\ half \in 1..NumBlocks
    BY <2>3, <2>4 DEF IInv, TypeOK, TaskTypeOK
  <2>6. UNCHANGED <<queue, running, status, buf, linkVars, errVars, bounds, provVars,
                    ctlVars, fileVars, userVars>>
    BY DEF Cut
  <2> QED BY <2>1, <2>2, <2>3, <2>4, <2>5, <2>6
<1>1. TableInv' /\ OwnersKept(w) /\ \A u : Owns(w, u) => Owns(w, u)'
  BY <1>0, NoProviders DEF IInv
<1>2. /\ loot' \in [Workers -> [from : Workers \union {0}, half : 0..NumBlocks]]
      /\ \A x \in Workers : x # w => loot'[x] = loot[x]
  BY <1>0 DEF IInv, TypeOK, TaskTypeOK, NoLoot
<1>3. CASE Goto(w, "died") /\ UNCHANGED <<sb, avail>>
  <2>1. /\ pc' \in [Workers -> WorkerStates] /\ pc'[w] = "died"
        /\ \A x \in Workers : x # w => pc'[x] = pc[x]
    BY <1>3 DEF IInv, TypeOK, WorkerStates
  <2>2. TypeOK'
    BY <1>0, <1>1, <1>2, <1>3, <2>1 DEF IInv, TypeOK, TableInv, CtlTypeOK, WorkTypeOK,
       UserTypeOK, TaskTypeOK, LinkTypeOK
  <2>3. CtlInv' /\ HoldInv' /\ CountedOutIsIdle' /\ PopFrontSafe'
    BY <1>0, <1>3, <2>1 DEF IInv, CtlInv, HoldInv, EmptyHanded, HasWork, CountedOutIsIdle,
       PopFrontSafe
  <2>4. StealInv'
    BY <1>0, <1>2, <1>3, <2>1 DEF IInv, StealInv, Shown
  <2>5. WorkAccounted' /\ RunningAccounted'
    BY <1>0, <1>3, <2>1, KeepsHolders, KeepsCounted DEF IInv
  <2>6. OthersKept(w) /\ OwnLinks(w)'
    BY <1>0, <1>1, <2>1 DEF IInv, OthersKept, LinkInv, OwnLinks, Unlinking, Owns
  <2> QED BY <1>1, <2>2, <2>3, <2>4, <2>5, <2>6, StepOf DEF Shape
<1>4. CASE /\ half <= SizeOf(s)
           /\ sb' = [sb EXCEPT ![v].hi = s.lo + half - 1,
                               ![w] = [lo |-> s.lo + half, hi |-> s.hi]]
           /\ avail' = avail + 1
           /\ Goto(w, "assign")
  <2>1. /\ pc' \in [Workers -> WorkerStates] /\ pc'[w] = "assign"
        /\ \A x \in Workers : x # w => pc'[x] = pc[x]
    BY <1>4 DEF IInv, TypeOK, WorkerStates
  <2>2. /\ [lo |-> s.lo, hi |-> s.lo + half - 1] \in Super
        /\ SizeOf([lo |-> s.lo, hi |-> s.lo + half - 1]) > 0
        /\ [lo |-> s.lo + half, hi |-> s.hi] \in Super
        /\ [s EXCEPT !.hi = s.lo + half - 1] = [lo |-> s.lo, hi |-> s.lo + half - 1]
    BY <1>0, <1>4, CutInTwo
  <2>3. sb \in [Workers -> Super \union {None}]
    BY DEF IInv, TypeOK, TaskTypeOK
  <2>4. /\ sb'[v] = [lo |-> s.lo, hi |-> s.lo + half - 1]
        /\ sb'[w] = [lo |-> s.lo + half, hi |-> s.hi]
        /\ \A x \in Workers : x \notin {v, w} => sb'[x] = sb[x]
        /\ sb' \in [Workers -> Super \union {None}]
    BY <1>0, <1>4, <2>2, <2>3
  <2>5. sb'[v] \in Super /\ sb'[v] # None /\ SizeOf(sb'[v]) > 0 /\ sb'[w] \in Super /\ sb'[w] # None
    BY <2>2, <2>4
  <2>6. TypeOK'
    <3>1. CtlTypeOK' /\ UserTypeOK' /\ LinkTypeOK' /\ ProvidersTypeOK'
      BY <1>0, <1>1 DEF IInv, TypeOK, TableInv, CtlTypeOK, UserTypeOK, LinkTypeOK
    <3>2. WorkTypeOK'
      BY <1>0, <1>4 DEF IInv, TypeOK, WorkTypeOK
    <3>3. TaskTypeOK'
      BY <1>0, <1>2, <2>4 DEF IInv, TypeOK, TaskTypeOK
    <3> QED BY <1>0, <2>1, <3>1, <3>2, <3>3 DEF IInv, TypeOK
  <2>7. \A x \in Workers : x # w => ((sb'[x] = None) <=> (sb[x] = None))
    BY <1>0, <2>4, <2>5
  <2>8. CtlInv' /\ HoldInv' /\ CountedOutIsIdle'
    BY ZenonT(60), <1>0, <2>1, <2>5, <2>7 DEF IInv, CtlInv, HoldInv, EmptyHanded, HasWork, CountedOutIsIdle
  <2>9. PopFrontSafe'
    <3> SUFFICES ASSUME NEW x \in Workers, pc'[x] = "pop"
                 PROVE  sb'[x] # None /\ SizeOf(sb'[x]) > 0
      BY DEF PopFrontSafe
    <3>1. CASE x = v
      BY <3>1, <2>5
    <3>2. CASE x # v
      <4>1. x # w /\ pc[x] = "pop" /\ sb'[x] = sb[x]
        BY <3>2, <2>1, <2>4
      <4>2. sb[x] # None /\ SizeOf(sb[x]) > 0
        BY <4>1 DEF IInv, PopFrontSafe
      <4> QED BY <4>1, <4>2
    <3> QED BY <3>1, <3>2
  <2>10. StealInv'
    <3>1. \A x \in Workers : Shown(x) => Shown(x)'
      BY <1>0, <2>1, <2>7 DEF Shown
    <3>2. \A x \in Workers : pc'[x] \in {"split", "cut"} =>
            x # w /\ pc[x] = pc'[x] /\ loot'[x] = loot[x]
      BY <1>2, <2>1
    <3> QED BY <3>1, <3>2 DEF IInv, StealInv
  <2>11. WorkAccounted'
    <3>1. Holders' = Holders \union {w} /\ w \notin Holders
      BY <1>0, <2>5, <2>7 DEF Holders
    <3>2. Cardinality(Holders') = Cardinality(Holders) + 1 /\ Cardinality(Holders) \in Nat
      BY <3>1, CountJoins, WorkersFinite DEF Holders
    <3>3. Len(queue) \in Nat
      BY DEF IInv, TypeOK, WorkTypeOK
    <3> QED BY <1>0, <1>4, <3>2, <3>3 DEF IInv, WorkAccounted
  <2>12. RunningAccounted'
    BY <1>0, <2>1, KeepsCounted DEF IInv
  <2>13. OthersKept(w) /\ OwnLinks(w)'
    BY <1>0, <1>1, <2>1 DEF IInv, OthersKept, LinkInv, OwnLinks, Unlinking, Owns
  <2> QED BY <1>1, <2>6, <2>8, <2>9, <2>10, <2>11, <2>12, <2>13, StepOf DEF Shape
<1> QED BY <1>3, <1>4 DEF Cut

\* setCurrentBlock publishes the superblock: a thief may see it from here on.
LEMMA AssignStep ==
  ASSUME IInv, NEW w \in Workers, Assign(w)
  PROVE  IInv'
<1>0. /\ pc[w] = "assign" /\ sb[w] # None /\ status[w] # "STOP" /\ InfoFree(w)
      /\ UNCHANGED <<workVars, sb, buf, loot, linkVars, errVars, bounds, provVars,
                     ctlVars, fileVars, userVars>>
      /\ status' = [status EXCEPT ![w] = "CONTINUE"]
  BY DEF Assign, IInv, HoldInv, HasWork, CountedOutIsIdle
<1>1. /\ pc' \in [Workers -> WorkerStates] /\ pc'[w] = "begin" /\ UNCHANGED status
      /\ \A x \in Workers : x # w => pc'[x] = pc[x]
  BY <1>0 DEF Assign, IInv, TypeOK, TaskTypeOK, WorkerStates
<1>2. TableInv' /\ OwnersKept(w) /\ \A u : Owns(w, u) => Owns(w, u)'
  BY <1>0, NoProviders DEF IInv
<1>3. TypeOK'
  BY <1>0, <1>1, <1>2 DEF IInv, TypeOK, TableInv, CtlTypeOK, WorkTypeOK,
     UserTypeOK, TaskTypeOK, LinkTypeOK
<1>4. CtlInv' /\ CountedOutIsIdle' /\ PopFrontSafe'
  BY <1>0, <1>1 DEF IInv, CtlInv, CountedOutIsIdle, PopFrontSafe
<1>5. HoldInv'
  BY <1>0, <1>1 DEF IInv, HoldInv, EmptyHanded, HasWork
<1>6. StealInv'
  <2>1. \A x \in Workers : Shown(x) => Shown(x)'
    BY <1>0, <1>1 DEF Shown
  <2> QED BY <1>0, <1>1, <2>1 DEF IInv, StealInv
<1>7. WorkAccounted' /\ RunningAccounted'
  BY <1>0, <1>1, KeepsHolders, KeepsCounted DEF IInv
<1>8. OthersKept(w) /\ OwnLinks(w)'
  BY <1>0, <1>1, <1>2 DEF IInv, OthersKept, LinkInv, OwnLinks, Unlinking, Owns
<1> QED BY <1>2, <1>3, <1>4, <1>5, <1>6, <1>7, <1>8, StepOf DEF Shape

LEMMA RecvBlockStep ==
  ASSUME IInv, NEW w \in Workers, NEW ok \in BOOLEAN, RecvBlock(w, ok)
  PROVE  IInv'
<1>0. /\ pc[w] = "recv" /\ sb[w] \in Super /\ sb[w] # None /\ SizeOf(sb[w]) > 0
      /\ status[w] # "STOP" /\ due[w] > 0
      /\ UNCHANGED <<workVars, sb, status, loot, dl, conn, attempt, errVars, faults, provVars,
                     ctlVars, fileVars, userVars>>
  BY DEF RecvBlock, IInv, HoldInv, HasWork, CountedOutIsIdle, TypeOK, TaskTypeOK
<1>1. /\ pc' \in [Workers -> WorkerStates] /\ pc'[w] = "pop"
      /\ \A x \in Workers : x # w => pc'[x] = pc[x]
  BY <1>0 DEF RecvBlock, IInv, TypeOK, WorkerStates
<1>2. TableInv' /\ OwnersKept(w) /\ \A u : Owns(w, u) => Owns(w, u)'
  BY <1>0, NoProviders DEF IInv
<1>3. TypeOK'
  <2>1. buf' \in [Workers -> Seq(Buffered)]
    <3>1. PICK p \in Urls \union {NoUrl} :
            buf' = [buf EXCEPT ![w] = Append(@, [blk |-> sb[w].lo, ok |-> ok, prov |-> p])]
      BY DEF RecvBlock
    <3>2. [blk |-> sb[w].lo, ok |-> ok, prov |-> p] \in Buffered
      BY <1>0, SizeBounds DEF Buffered
    <3>3. buf \in [Workers -> Seq(Buffered)]
      BY DEF IInv, TypeOK, TaskTypeOK
    <3> QED BY <3>1, <3>2, <3>3
  <2>2. due' \in [Workers -> 0..NumBlocks]
    BY SMTT(60), <1>0 DEF RecvBlock, IInv, TypeOK, LinkTypeOK
  <2>3. corrupt' \in 0..MaxCorrupt
    BY DEF RecvBlock, IInv, TypeOK
  <2>4. CtlTypeOK' /\ WorkTypeOK' /\ UserTypeOK' /\ ProvidersTypeOK'
    BY <1>0, <1>2 DEF IInv, TypeOK, TableInv, CtlTypeOK, WorkTypeOK, UserTypeOK
  <2>5. TaskTypeOK' /\ LinkTypeOK'
    BY <1>0, <2>1, <2>2 DEF IInv, TypeOK, TaskTypeOK, LinkTypeOK
  <2> QED BY <1>0, <1>1, <2>3, <2>4, <2>5 DEF IInv, TypeOK
<1>4. CtlInv' /\ CountedOutIsIdle' /\ PopFrontSafe'
  BY <1>0, <1>1 DEF IInv, CtlInv, CountedOutIsIdle, PopFrontSafe
<1>5. HoldInv'
  BY <1>0, <1>1 DEF IInv, HoldInv, EmptyHanded, HasWork
<1>6. StealInv'
  <2>1. \A x \in Workers : Shown(x) => Shown(x)'
    BY <1>0, <1>1 DEF Shown
  <2> QED BY <1>0, <1>1, <2>1 DEF IInv, StealInv
<1>7. WorkAccounted' /\ RunningAccounted'
  BY <1>0, <1>1, KeepsHolders, KeepsCounted DEF IInv
<1>8. OthersKept(w) /\ OwnLinks(w)'
  BY <1>0, <1>1, <1>2 DEF IInv, OthersKept, LinkInv, OwnLinks, Unlinking, Owns
<1> QED BY <1>2, <1>3, <1>4, <1>5, <1>6, <1>7, <1>8, StepOf DEF Shape

LEMMA PopFrontStep ==
  ASSUME IInv, NEW w \in Workers, PopFront(w)
  PROVE  IInv'
<1>0. /\ pc[w] = "pop" /\ sb[w] \in Super /\ sb[w] # None /\ SizeOf(sb[w]) > 0
      /\ status[w] # "STOP"
      /\ sb \in [Workers -> Super \union {None}]
      /\ sb' = [sb EXCEPT ![w].lo = @ + 1]
      /\ UNCHANGED <<workVars, status, buf, loot, linkVars, errVars, bounds, provVars,
                     ctlVars, fileVars, userVars>>
  BY DEF PopFront, IInv, HoldInv, HasWork, CountedOutIsIdle, TypeOK, TaskTypeOK, PopFrontSafe
<1>1. /\ pc' \in [Workers -> WorkerStates] /\ pc'[w] \in {"refused", "recv"}
      /\ \A x \in Workers : x # w => pc'[x] = pc[x]
  BY <1>0 DEF PopFront, IInv, TypeOK, WorkerStates
<1>2. TableInv' /\ OwnersKept(w) /\ \A u : Owns(w, u) => Owns(w, u)'
  BY <1>0, NoProviders DEF IInv
<1>3. /\ sb'[w] \in Super /\ sb'[w] # None
      /\ \A x \in Workers : x # w => sb'[x] = sb[x]
      /\ sb' \in [Workers -> Super \union {None}]
  <2>1. sb[w].lo \in Blocks /\ sb[w].hi \in 0..NumBlocks
    BY <1>0, SizeBounds DEF Super
  <2>2. sb[w].lo + 1 \in 1..(NumBlocks + 1)
    BY <2>1
  <2>3. [sb[w] EXCEPT !.lo = @ + 1] \in Super
    BY <1>0, <2>2 DEF Super
  <2> QED BY <1>0, <2>3
<1>4. TypeOK'
  BY <1>0, <1>1, <1>2, <1>3 DEF IInv, TypeOK, TableInv, CtlTypeOK, WorkTypeOK,
     UserTypeOK, TaskTypeOK, LinkTypeOK
<1>5. CtlInv' /\ CountedOutIsIdle' /\ PopFrontSafe'
  BY ZenonT(60), <1>0, <1>1, <1>3 DEF IInv, CtlInv, CountedOutIsIdle, PopFrontSafe
<1>6. HoldInv'
  BY <1>0, <1>1, <1>3 DEF IInv, HoldInv, EmptyHanded, HasWork
<1>7. StealInv'
  <2>1. \A x \in Workers : Shown(x) => Shown(x)'
    BY <1>0, <1>1, <1>3 DEF Shown
  <2> QED BY <1>0, <1>1, <2>1 DEF IInv, StealInv
<1>8. WorkAccounted' /\ RunningAccounted'
  BY <1>0, <1>1, <1>3, KeepsHolders, KeepsCounted DEF IInv
<1>9. OthersKept(w) /\ OwnLinks(w)'
  BY <1>0, <1>1, <1>2 DEF IInv, OthersKept, LinkInv, OwnLinks, Unlinking, Owns
<1> QED BY <1>2, <1>4, <1>5, <1>6, <1>7, <1>8, <1>9, StepOf DEF Shape

\* The info mutex keeps a thief's victim from hiding its superblock here.
LEMMA ResetStep ==
  ASSUME IInv, NEW w \in Workers, Reset(w)
  PROVE  IInv'
<1>0. /\ pc[w] = "reset" /\ sb[w] # None /\ status[w] # "STOP" /\ InfoFree(w)
      /\ UNCHANGED <<workVars, sb, buf, loot, linkVars, errVars, bounds, provVars,
                     ctlVars, fileVars, userVars>>
      /\ status' = [status EXCEPT ![w] = "CONTINUE"]
  BY DEF Reset, IInv, HoldInv, HasWork, CountedOutIsIdle
<1>1. /\ pc' \in [Workers -> WorkerStates] /\ pc'[w] = "give" /\ UNCHANGED status
      /\ \A x \in Workers : x # w => pc'[x] = pc[x]
  BY <1>0 DEF Reset, IInv, TypeOK, TaskTypeOK, WorkerStates
<1>2. TableInv' /\ OwnersKept(w) /\ \A u : Owns(w, u) => Owns(w, u)'
  BY <1>0, NoProviders DEF IInv
<1>3. TypeOK'
  BY <1>0, <1>1, <1>2 DEF IInv, TypeOK, TableInv, CtlTypeOK, WorkTypeOK,
     UserTypeOK, TaskTypeOK, LinkTypeOK
<1>4. CtlInv' /\ CountedOutIsIdle' /\ PopFrontSafe'
  BY <1>0, <1>1 DEF IInv, CtlInv, CountedOutIsIdle, PopFrontSafe
<1>5. HoldInv'
  BY <1>0, <1>1 DEF IInv, HoldInv, EmptyHanded, HasWork
<1>6. StealInv'
  <2>1. \A x \in Workers : x # w /\ Shown(x) => Shown(x)'
    BY <1>0, <1>1 DEF Shown
  <2>2. \A t \in Workers : pc[t] = "cut" => loot[t].from # w
    BY <1>0 DEF InfoFree
  <2> QED BY <1>0, <1>1, <2>1, <2>2 DEF IInv, StealInv
<1>7. WorkAccounted' /\ RunningAccounted'
  BY <1>0, <1>1, KeepsHolders, KeepsCounted DEF IInv
<1>8. OthersKept(w) /\ OwnLinks(w)'
  BY <1>0, <1>1, <1>2 DEF IInv, OthersKept, LinkInv, OwnLinks, Unlinking, Owns
<1> QED BY <1>2, <1>3, <1>4, <1>5, <1>6, <1>7, <1>8, StepOf DEF Shape

LEMMA GiveStep ==
  ASSUME IInv, NEW w \in Workers, Give(w)
  PROVE  IInv'
<1>0. /\ pc[w] = "give" /\ sb[w] \in Super /\ sb[w] # None /\ status[w] # "STOP"
      /\ UNCHANGED <<running, status, buf, loot, dl, conn, due, err, bounds, provVars,
                     ctlVars, fileVars, userVars>>
      /\ sb' = [sb EXCEPT ![w] = None]
      /\ sb \in [Workers -> Super \union {None}]
      /\ queue \in Seq(Super) /\ avail \in Nat
  BY DEF Give, IInv, HoldInv, HasWork, CountedOutIsIdle, TypeOK, TaskTypeOK, WorkTypeOK
<1>1. /\ sb' \in [Workers -> Super \union {None}] /\ sb'[w] = None
      /\ \A x \in Workers : x # w => sb'[x] = sb[x]
  BY <1>0
<1>2. /\ pc' \in [Workers -> WorkerStates] /\ pc'[w] \in {"loop", "report", "rmagent"}
      /\ \A x \in Workers : x # w => pc'[x] = pc[x]
      /\ why[w] = "crc" => pc'[w] = "report"
  BY DEF Give, Loops, Retries, IInv, TypeOK, WorkerStates
<1>3. why' \in [Workers -> Reasons] /\ \A x \in Workers : x # w => why'[x] = why[x]
  <2>1. why' = why \/ why' = [why EXCEPT ![w] = "none"]
    BY DEF Give
  <2> QED BY <2>1 DEF IInv, TypeOK, Reasons
<1>4. attempt' \in [Workers -> 0..MaxAttempts]
  BY SMTT(60) DEF Give, Retries, IInv, TypeOK, LinkTypeOK
<1>5. TableInv' /\ OwnersKept(w) /\ \A u : Owns(w, u) => Owns(w, u)'
  BY <1>0, NoProviders DEF IInv
<1>6. WorkAccounted' /\ queue' \in Seq(Super) /\ avail' \in Nat
  <2>1. Holders' = Holders \ {w} /\ w \in Holders
    BY <1>0, <1>1 DEF Holders
  <2>2. Cardinality(Holders') = Cardinality(Holders) - 1 /\ Cardinality(Holders) \in Nat
        /\ Cardinality(Holders) > 0
    BY ZenonT(60), <2>1, CountJoins, WorkersFinite DEF Holders
  <2>3. avail = Len(queue) + Cardinality(Holders) /\ Len(queue) \in Nat
    BY <1>0 DEF IInv, WorkAccounted
  <2>4. CASE avail' = avail - 1 /\ UNCHANGED queue
    BY <1>0, <2>2, <2>3, <2>4 DEF WorkAccounted
  <2>5. CASE queue' = Append(queue, sb[w]) /\ UNCHANGED avail
    <3>1. queue' \in Seq(Super) /\ Len(queue') = Len(queue) + 1
      BY <1>0, <2>5
    <3> QED BY <1>0, <2>2, <2>3, <2>5, <3>1 DEF WorkAccounted
  <2> QED BY <2>4, <2>5 DEF Give
<1>7. TypeOK'
  <2>1. CtlTypeOK' /\ UserTypeOK' /\ ProvidersTypeOK' /\ LinkTypeOK'
    BY <1>0, <1>4, <1>5 DEF IInv, TypeOK, TableInv, CtlTypeOK, UserTypeOK, LinkTypeOK
  <2>2. WorkTypeOK' /\ TaskTypeOK'
    BY <1>0, <1>1, <1>6 DEF IInv, TypeOK, WorkTypeOK, TaskTypeOK
  <2> QED BY <1>0, <1>2, <1>3, <2>1, <2>2 DEF IInv, TypeOK
<1>8. CtlInv' /\ CountedOutIsIdle' /\ PopFrontSafe'
  BY ZenonT(60), <1>0, <1>1, <1>2 DEF IInv, CtlInv, CountedOutIsIdle, PopFrontSafe
<1>9. HoldInv'
  BY SMTT(60), <1>0, <1>1, <1>2, <1>3 DEF IInv, HoldInv, EmptyHanded, HasWork
<1>10. StealInv'
  <2>1. \A x \in Workers : Shown(x) => Shown(x)'
    BY <1>0, <1>1, <1>2 DEF Shown
  <2> QED BY <1>0, <1>2, <2>1 DEF IInv, StealInv
<1>11. RunningAccounted'
  BY <1>0, <1>2, KeepsCounted DEF IInv
<1>12. OthersKept(w)
  BY <1>0, <1>2, <1>3 DEF OthersKept
<1>13. OwnLinks(w)'
  <2>1. CASE why[w] = "crc"
    BY <1>2, <2>1 DEF OwnLinks, Unlinking
  <2>2. CASE why[w] # "crc"
    BY <1>0, <1>5, <2>2 DEF IInv, LinkInv, OwnLinks, Unlinking, Owns
  <2> QED BY <2>1, <2>2
<1> QED BY <1>5, <1>6, <1>7, <1>8, <1>9, <1>10, <1>11, <1>12, <1>13, StepOf DEF Shape

\* A worker is counted out once: it was still counted in.
LEMMA ReportStep ==
  ASSUME IInv, NEW w \in Workers, Report(w)
  PROVE  IInv'
<1>0. /\ pc[w] = "report" /\ sb[w] = None /\ status[w] = "CONTINUE"
      /\ UNCHANGED <<queue, avail, sb, buf, loot, linkVars, bounds, provVars,
                     ctlVars, fileVars, userVars>>
      /\ status' = [status EXCEPT ![w] = "STOP"]
      /\ running' = running - 1
      /\ status \in [Workers -> {"CONTINUE", "STOP"}]
  BY DEF Report, IInv, HoldInv, EmptyHanded, CountedOutIsIdle, TypeOK, TaskTypeOK
<1>1. /\ pc' \in [Workers -> WorkerStates] /\ pc'[w] \in {"loop", "done"}
      /\ \A x \in Workers : x # w => pc'[x] = pc[x]
  BY DEF Report, IInv, TypeOK, WorkerStates
<1>2. /\ status' \in [Workers -> {"CONTINUE", "STOP"}] /\ status'[w] = "STOP"
      /\ \A x \in Workers : x # w => status'[x] = status[x]
  BY <1>0
<1>3. /\ why' \in [Workers -> Reasons] /\ err' \in [Workers -> BOOLEAN]
      /\ \A x \in Workers : x # w => why'[x] = why[x]
  <2>1. err' = err \/ err' = [err EXCEPT ![w] = FALSE]
    BY DEF Report
  <2>2. why' = [why EXCEPT ![w] = "none"]
    BY DEF Report
  <2> QED BY <2>1, <2>2 DEF IInv, TypeOK, Reasons
<1>4. TableInv' /\ OwnersKept(w)
  BY <1>0, NoProviders DEF IInv
<1>5. RunningAccounted' /\ running' \in Nat
  <2>1. Counted' = Counted \ {w} /\ w \in Counted
    BY <1>0, <1>1, <1>2 DEF Counted
  <2>2. Cardinality(Counted') = Cardinality(Counted) - 1 /\ Cardinality(Counted) \in Nat
        /\ Cardinality(Counted) > 0
    BY <2>1, CountJoins, WorkersFinite DEF Counted
  <2> QED BY <1>0, <2>2 DEF IInv, RunningAccounted
<1>6. TypeOK'
  <2>1. CtlTypeOK' /\ UserTypeOK' /\ ProvidersTypeOK' /\ LinkTypeOK'
    BY <1>0, <1>4 DEF IInv, TypeOK, TableInv, CtlTypeOK, UserTypeOK, LinkTypeOK
  <2>2. WorkTypeOK' /\ TaskTypeOK'
    BY <1>0, <1>2, <1>5 DEF IInv, TypeOK, WorkTypeOK, TaskTypeOK
  <2> QED BY <1>0, <1>1, <1>3, <2>1, <2>2 DEF IInv, TypeOK
<1>7. CtlInv' /\ CountedOutIsIdle' /\ PopFrontSafe'
  BY <1>0, <1>1, <1>2 DEF IInv, CtlInv, CountedOutIsIdle, PopFrontSafe
<1>8. HoldInv'
  BY <1>0, <1>1, <1>3 DEF IInv, HoldInv, EmptyHanded, HasWork
<1>9. StealInv'
  <2>1. \A x \in Workers : Shown(x) => Shown(x)'
    BY <1>0, <1>1 DEF Shown
  <2> QED BY <1>0, <1>1, <2>1 DEF IInv, StealInv
<1>10. WorkAccounted'
  BY <1>0, KeepsHolders DEF IInv
<1>11. OthersKept(w) /\ OwnLinks(w)'
  BY <1>0, <1>1, <1>2, <1>3 DEF OthersKept, OwnLinks, Unlinking
<1> QED BY <1>4, <1>5, <1>6, <1>7, <1>8, <1>9, <1>10, <1>11, StepOf DEF Shape

----------------------------------------------------------------------------
\* The steps of the controller, of the user and of the environment.  None of
\* them but createWorkers touches the place or the work of a worker.

LEMMA WorkersKept ==
  ASSUME IInv, UNCHANGED <<pc, sb, status, loot, why, dl, owner>>, expired \subseteq expired',
         \A w \in Workers : conn'[w] \in {conn[w], NoUrl}
  PROVE  /\ HoldInv' /\ StealInv' /\ LinkInv' /\ CountedOutIsIdle' /\ PopFrontSafe'
         /\ UNCHANGED running => RunningAccounted'
         /\ UNCHANGED <<queue, avail>> => WorkAccounted'
<1>1. HoldInv' /\ CountedOutIsIdle' /\ PopFrontSafe'
  BY DEF IInv, HoldInv, CountedOutIsIdle, PopFrontSafe
<1>2. StealInv'
  BY DEF IInv, StealInv, Shown
<1>3. LinkInv'
  BY DEF IInv, LinkInv, OwnLinks, Unlinking, Owns
<1>4. UNCHANGED running => RunningAccounted'
  BY KeepsCounted DEF IInv
<1>5. UNCHANGED <<queue, avail>> => WorkAccounted'
  BY KeepsHolders DEF IInv
<1> QED BY <1>1, <1>2, <1>3, <1>4, <1>5

\* ... so that such a step owes the types, the table and the controller's part.
LEMMA ControlStep ==
  ASSUME IInv, UNCHANGED <<pc, sb, status, loot, why, dl, owner, workVars>>,
         expired \subseteq expired',
         \A w \in Workers : conn'[w] \in {conn[w], NoUrl},
         TypeOK', TableInv', CtlInv'
  PROVE  IInv'
BY WorkersKept DEF IInv

LEMMA TableKept ==
  IInv /\ UNCHANGED provVars => TableInv' /\ UNCHANGED owner /\ expired \subseteq expired'
BY UnchangedTable DEF IInv, provVars

LEMMA CreateWorkerStep ==
  ASSUME IInv, CreateWorker
  PROVE  IInv'
<1> SUFFICES ASSUME NEW w \in Workers, w = at PROVE IInv'
  BY DEF IInv, TypeOK, CtlTypeOK
<1>0. /\ ctl = "create" /\ pc[w] = "idle"
      /\ \A x \in Workers : x >= w => pc[x] = "idle"
      /\ pc' = [pc EXCEPT ![w] = "start"] /\ running' = running + 1
      /\ \/ w < NumWorkers /\ at' = w + 1 /\ UNCHANGED ctl
         \/ at' = 1 /\ ctl' = "loop"
      /\ UNCHANGED <<saveAll, hand, fileVars, queue, avail, userVars, taskVars, linkVars,
                     errVars, bounds, provVars>>
  BY DEF CreateWorker, IInv, CtlInv
<1>1. /\ pc[w] = "idle" /\ sb[w] = None /\ status[w] = "CONTINUE"
      /\ pc' \in [Workers -> WorkerStates] /\ pc'[w] = "start"
      /\ \A x \in Workers : x # w => pc'[x] = pc[x]
  BY <1>0 DEF IInv, HoldInv, EmptyHanded, CountedOutIsIdle, TypeOK, TaskTypeOK, WorkerStates
<1>2. at' \in Workers /\ CtlInv'
  BY <1>0, <1>1 DEF CtlInv
<1>3. TableInv' /\ OwnersKept(w) /\ \A u : Owns(w, u) => Owns(w, u)'
  BY <1>0, NoProviders DEF IInv
<1>4. RunningAccounted' /\ running' \in Nat
  <2>1. Counted' = Counted \union {w} /\ w \notin Counted
    BY <1>0, <1>1 DEF Counted
  <2>2. Cardinality(Counted') = Cardinality(Counted) + 1 /\ Cardinality(Counted) \in Nat
    BY SMTT(60), <1>0, <2>1, CountJoins, WorkersFinite DEF Counted
  <2> QED BY <1>0, <2>2 DEF IInv, RunningAccounted
<1>5. TypeOK'
  BY <1>0, <1>1, <1>2, <1>3, <1>4 DEF IInv, TypeOK, TableInv, CtlTypeOK, WorkTypeOK,
     UserTypeOK, TaskTypeOK, LinkTypeOK, CtlStates
<1>6. CountedOutIsIdle' /\ PopFrontSafe'
  BY <1>0, <1>1 DEF IInv, CountedOutIsIdle, PopFrontSafe
<1>7. HoldInv'
  BY <1>0, <1>1 DEF IInv, HoldInv, EmptyHanded, HasWork
<1>8. StealInv'
  <2>1. \A x \in Workers : Shown(x) => Shown(x)'
    BY <1>0, <1>1 DEF Shown
  <2> QED BY <1>0, <1>1, <2>1 DEF IInv, StealInv
<1>9. WorkAccounted'
  BY <1>0, KeepsHolders DEF IInv
<1>10. OthersKept(w) /\ OwnLinks(w)'
  BY <1>0, <1>1, <1>3 DEF IInv, OthersKept, LinkInv, OwnLinks, Unlinking, Owns
<1> QED BY <1>0, <1>2, <1>3, <1>4, <1>5, <1>6, <1>7, <1>8, <1>9, <1>10, StepOf DEF Shape

\* The controller's steps that only look.
LEMMA LookingStep ==
  ASSUME IInv, CtlLoop \/ CtlWait \/ SpuriousWakeup \/ Scan \/ CheckRunning \/ CtlDies
                 \/ JoinWorker \/ Finish
  PROVE  IInv'
<1> USE DEF CtlLoop, CtlWait, SpuriousWakeup, Scan, CheckRunning, CtlDies, JoinWorker, Finish
<1>1. UNCHANGED <<saveAll, hand, saved, lost, workVars, bounds, provVars, userVars, workerVars>>
  OBVIOUS
<1>2. at' \in Workers
  BY DEF IInv, TypeOK, CtlTypeOK
<1>3. ctl' \in CtlStates /\ ctl' \notin {"check", "create"}
  BY DEF CtlStates
<1>4. result' \in {"none", "complete", "failed", "stopped"}
  BY DEF IInv, TypeOK, CtlTypeOK
<1>5. TableInv' /\ UNCHANGED owner /\ expired \subseteq expired'
  BY <1>1, TableKept
<1> HIDE DEF CtlLoop, CtlWait, SpuriousWakeup, Scan, CheckRunning, CtlDies, JoinWorker, Finish
<1>6. TypeOK'
  BY <1>1, <1>2, <1>3, <1>4, <1>5 DEF IInv, TypeOK, TableInv, CtlTypeOK, WorkTypeOK,
     UserTypeOK, TaskTypeOK, LinkTypeOK
<1>7. CtlInv'
  BY <1>3 DEF CtlInv
<1> QED BY <1>1, <1>5, <1>6, <1>7, ControlStep

LEMMA PopBufferStep ==
  ASSUME IInv, PopBuffer
  PROVE  IInv'
<1>0. /\ ctl = "save" /\ at \in Workers /\ buf \in [Workers -> Seq(Buffered)]
      /\ UNCHANGED <<saveAll, fileVars, workVars, userVars, pc, sb, status, loot, linkVars,
                     errVars, bounds, provVars>>
  BY DEF PopBuffer, IInv, TypeOK, CtlTypeOK, TaskTypeOK
<1>1. CASE /\ buf[at] # <<>>
           /\ hand' = Head(buf[at])
           /\ buf' = [buf EXCEPT ![at] = Tail(@)]
           /\ ctl' = "check"
           /\ UNCHANGED at
  <2>1. hand' \in Buffered /\ buf' \in [Workers -> Seq(Buffered)]
    BY <1>0, <1>1
  <2>2. TableInv' /\ UNCHANGED owner /\ expired \subseteq expired'
    BY <1>0, TableKept
  <2>3. TypeOK'
    BY <1>0, <1>1, <2>1, <2>2 DEF IInv, TypeOK, TableInv, CtlTypeOK, WorkTypeOK,
       UserTypeOK, TaskTypeOK, LinkTypeOK, CtlStates
  <2>4. CtlInv'
    BY <1>1, <2>1 DEF CtlInv
  <2> QED BY <1>0, <2>2, <2>3, <2>4, ControlStep
<1>2. CASE NextBuffer /\ UNCHANGED <<hand, buf>>
  <2>1. at' \in Workers /\ ctl' \in {"save", "stop", "scan"}
    BY <1>0, <1>2 DEF NextBuffer
  <2>2. TableInv' /\ UNCHANGED owner /\ expired \subseteq expired'
    BY <1>0, TableKept
  <2>3. TypeOK'
    BY <1>0, <1>2, <2>1, <2>2 DEF IInv, TypeOK, TableInv, CtlTypeOK, WorkTypeOK,
       UserTypeOK, TaskTypeOK, LinkTypeOK, CtlStates
  <2>4. CtlInv'
    BY <2>1 DEF CtlInv
  <2> QED BY <1>0, <1>2, <2>2, <2>3, <2>4, ControlStep
<1> QED BY <1>1, <1>2 DEF PopBuffer

\* What the controller does with the block in its hand.
LEMMA JudgeStep ==
  ASSUME IInv, WriteBlock \/ WriteFails \/ Blame
  PROVE  IInv'
<1>1. /\ UNCHANGED <<saveAll, result, workVars, userVars, workerVars, corrupt, provVars>>
      /\ hand' = None
  BY DEF WriteBlock, WriteFails, Blame, NotWorkers
<1>2. at' \in Workers /\ ctl' \in {"save", "stop", "scan", "tell"}
  BY DEF WriteBlock, WriteFails, Blame, SameBuffer, NextBuffer, IInv, TypeOK, CtlTypeOK
<1>3. saved' \subseteq Blocks /\ lost' \subseteq Blocks
  <2>1. ctl = "check" => hand.blk \in Blocks
    BY DEF IInv, CtlInv, TypeOK, CtlTypeOK, Buffered
  <2> QED BY <2>1 DEF WriteBlock, WriteFails, Blame, IInv, TypeOK, CtlTypeOK
<1>4. faults' \in 0..MaxFaults
  BY DEF WriteBlock, WriteFails, Blame, IInv, TypeOK
<1>5. TableInv' /\ UNCHANGED owner /\ expired \subseteq expired'
  BY <1>1, TableKept
<1>6. TypeOK'
  <2>1. CtlTypeOK'
    BY <1>1, <1>2, <1>3 DEF IInv, TypeOK, CtlTypeOK, CtlStates
  <2> QED BY <1>1, <1>4, <1>5, <2>1 DEF IInv, TypeOK, TableInv, WorkTypeOK,
          UserTypeOK, TaskTypeOK, LinkTypeOK
<1>7. CtlInv'
  BY <1>2 DEF CtlInv
<1> QED BY <1>1, <1>5, <1>6, <1>7, ControlStep

LEMMA RequeueStep ==
  ASSUME IInv, Requeue
  PROVE  IInv'
<1>0. /\ ctl' = "blame" /\ hand \in Buffered
      /\ queue \in Seq(Super) /\ avail \in Nat
      /\ queue' = Append(queue, [lo |-> hand.blk, hi |-> hand.blk]) /\ avail' = avail + 1
      /\ UNCHANGED <<userVars, workerVars, at, saveAll, hand, fileVars, running, bounds, provVars>>
  BY DEF Requeue, IInv, CtlInv, TypeOK, CtlTypeOK, WorkTypeOK
<1>1. queue' \in Seq(Super) /\ Len(queue') = Len(queue) + 1 /\ Len(queue) \in Nat
  <2>1. [lo |-> hand.blk, hi |-> hand.blk] \in Super
    BY <1>0 DEF Super, Buffered
  <2> QED BY <1>0, <2>1
<1>2. TableInv' /\ UNCHANGED owner /\ expired \subseteq expired'
  BY <1>0, TableKept
<1>3. WorkAccounted'
  <2>1. Holders' = Holders
    BY <1>0 DEF Holders
  <2>2. Cardinality(Holders) \in Nat
    BY WorkersFinite DEF Holders
  <2> QED BY <1>0, <1>1, <2>1, <2>2 DEF IInv, WorkAccounted
<1>4. TypeOK'
  <2>1. WorkTypeOK'
    BY <1>0, <1>1 DEF IInv, TypeOK, WorkTypeOK
  <2>2. CtlTypeOK'
    BY <1>0 DEF IInv, TypeOK, CtlTypeOK, CtlStates
  <2> QED BY <1>0, <1>2, <2>1, <2>2 DEF IInv, TypeOK, TableInv, UserTypeOK, TaskTypeOK, LinkTypeOK
<1>5. CtlInv'
  BY <1>0 DEF CtlInv
<1> QED BY <1>0, <1>2, <1>3, <1>4, <1>5, WorkersKept DEF IInv

LEMMA TellStep ==
  ASSUME IInv, Tell
  PROVE  IInv'
<1>1. UNCHANGED <<saveAll, hand, fileVars, workVars, userVars, pc, taskVars, linkVars, why,
                 bounds, provVars>>
  BY DEF Tell
<1>2. at' \in Workers /\ ctl' \in {"save", "stop", "scan"}
  BY DEF Tell, SameBuffer, NextBuffer, IInv, TypeOK, CtlTypeOK
<1>3. err' \in [Workers -> BOOLEAN]
  BY DEF Tell, IInv, TypeOK
<1>4. TableInv' /\ UNCHANGED owner /\ expired \subseteq expired'
  BY <1>1, TableKept
<1>5. TypeOK'
  BY <1>1, <1>2, <1>3, <1>4 DEF IInv, TypeOK, TableInv, CtlTypeOK, WorkTypeOK,
     UserTypeOK, TaskTypeOK, LinkTypeOK, CtlStates
<1>6. CtlInv'
  BY <1>2 DEF CtlInv
<1> QED BY <1>1, <1>4, <1>5, <1>6, ControlStep

LEMMA CheckAgentsStep ==
  ASSUME IInv, CheckAgents
  PROVE  IInv'
<1>0. PICK res \in BOOLEAN : /\ HasValidAgents(res)
                             /\ ctl' = IF res THEN "loop" ELSE "save"
                             /\ saveAll' = ~res
  BY DEF CheckAgents
<1>1. UNCHANGED <<userVars, workerVars, at, hand, fileVars, workVars, bounds>>
  BY DEF CheckAgents
<1>2. TableInv' /\ UNCHANGED owner /\ expired \subseteq expired'
  BY <1>0, HasValidAgentsTable DEF IInv
<1>3. saveAll' \in BOOLEAN /\ ctl' \in {"loop", "save"}
  BY <1>0
<1>4. TypeOK'
  BY <1>1, <1>2, <1>3 DEF IInv, TypeOK, TableInv, CtlTypeOK, WorkTypeOK,
     UserTypeOK, TaskTypeOK, LinkTypeOK, CtlStates
<1>5. CtlInv'
  BY <1>3 DEF CtlInv
<1> QED BY <1>1, <1>2, <1>4, <1>5, ControlStep

\* Stopping a worker, by the controller or by the user.
LEMMA StopStep ==
  ASSUME IInv, StopWorker \/ OnStopWorker
  PROVE  IInv'
<1>0. PICK w \in Workers : /\ wstop' = [wstop EXCEPT ![w] = TRUE]
                           /\ conn' = [conn EXCEPT ![w] = NoUrl]
  BY DEF StopWorker, OnStopWorker, IInv, TypeOK, CtlTypeOK
<1>1. /\ UNCHANGED <<at, saveAll, hand, fileVars, workVars, stopping, paused, user, pauses,
                     pc, taskVars, dl, attempt, due, errVars, bounds, provVars>>
      /\ ctl' = "join" \/ UNCHANGED ctl
  BY DEF StopWorker, OnStopWorker
<1>2. /\ conn' \in [Workers -> Urls \union {NoUrl}]
      /\ \A v \in Workers : conn'[v] \in {conn[v], NoUrl}
  BY <1>0 DEF IInv, TypeOK, LinkTypeOK
<1>3. TableInv' /\ UNCHANGED owner /\ expired \subseteq expired'
  BY <1>1, TableKept
<1>4. TypeOK'
  <2>1. UserTypeOK'
    BY <1>0, <1>1 DEF IInv, TypeOK, UserTypeOK
  <2> QED BY <1>1, <1>2, <1>3, <2>1 DEF IInv, TypeOK, TableInv, CtlTypeOK, WorkTypeOK,
             TaskTypeOK, LinkTypeOK, CtlStates
<1>5. CtlInv'
  BY <1>1 DEF IInv, CtlInv
<1> QED BY <1>1, <1>2, <1>3, <1>4, <1>5, ControlStep

LEMMA UserStep ==
  ASSUME IInv, Pause \/ Unpause \/ Stop \/ OnStopJoin
  PROVE  IInv'
<1>1. /\ UNCHANGED <<at, saveAll, hand, fileVars, workVars, bounds, provVars, wstop, workerVars>>
      /\ ctl' = "save" \/ UNCHANGED ctl
  BY DEF Pause, Unpause, Stop, OnStopJoin, WakeController
<1>2. TableInv' /\ UNCHANGED owner /\ expired \subseteq expired'
  BY <1>1, TableKept
<1>3. UserTypeOK'
  <2>1. pauses' \in 0..MaxPauses
    BY DEF Pause, Unpause, Stop, OnStopJoin, IInv, TypeOK, UserTypeOK
  <2>2. user' \in 0..(NumWorkers + 1)
    BY DEF Pause, Unpause, Stop, OnStopJoin, IInv, TypeOK, UserTypeOK
  <2>3. stopping' \in BOOLEAN /\ paused' \in BOOLEAN
    BY DEF Pause, Unpause, Stop, OnStopJoin, IInv, TypeOK, UserTypeOK
  <2> QED BY <1>1, <2>1, <2>2, <2>3 DEF IInv, TypeOK, UserTypeOK
<1>4. TypeOK'
  BY <1>1, <1>2, <1>3 DEF IInv, TypeOK, TableInv, CtlTypeOK, WorkTypeOK,
     TaskTypeOK, LinkTypeOK, CtlStates
<1>5. CtlInv'
  BY <1>1 DEF IInv, CtlInv
<1> QED BY <1>1, <1>2, <1>4, <1>5, ControlStep

LEMMA EnvironmentStep ==
  ASSUME IInv, Environment
  PROVE  IInv'
<1>1. TableInv' /\ UNCHANGED owner /\ expired \subseteq expired'
  BY EnvironmentTable DEF Environment, IInv
<1>2. UNCHANGED <<ctlVars, fileVars, workVars, userVars, workerVars, bounds>>
  BY DEF Environment
<1>3. TypeOK' /\ CtlInv'
  BY <1>1, <1>2 DEF IInv, CtlInv, TypeOK, TableInv, CtlTypeOK, WorkTypeOK,
     UserTypeOK, TaskTypeOK, LinkTypeOK
<1> QED BY <1>1, <1>2, <1>3, ControlStep

----------------------------------------------------------------------------
LEMMA InitInv == Init => IInv
<1> SUFFICES ASSUME Init PROVE IInv
  OBVIOUS
<1>1. TableInv
  BY InitTable DEF Init
<1>2. queue \in Seq(Super)
  <2>1. PICK k \in Blocks : queue \in [1..k -> Super]
    BY DEF Init, SuperBlockLists
  <2>2. k \in Nat
    BY <2>1
  <2> QED BY <2>1, <2>2
<1>3. TypeOK
  <2>1. CtlTypeOK
    <3>1. ctl = "create" /\ at = 1 /\ saveAll = FALSE /\ hand = None
          /\ saved = {} /\ lost = {} /\ result = "none"
      BY DEF Init
    <3>2. at \in Workers
      BY <3>1
    <3> QED BY <3>1, <3>2 DEF CtlTypeOK, CtlStates
  <2>2. WorkTypeOK /\ UserTypeOK
    <3>1. /\ avail = Len(queue) /\ running = 0 /\ stopping = FALSE /\ paused = FALSE
          /\ user = 0 /\ wstop = [w \in Workers |-> FALSE] /\ pauses = 0
      BY DEF Init
    <3>2. WorkTypeOK
      BY <1>2, <3>1 DEF WorkTypeOK
    <3>3. user \in 0..(NumWorkers + 1) /\ pauses \in 0..MaxPauses
      BY <3>1
    <3> QED BY <3>1, <3>2, <3>3 DEF UserTypeOK
  <2>3. TaskTypeOK
    BY DEF Init, TaskTypeOK, NoLoot
  <2>4. LinkTypeOK
    BY DEF Init, LinkTypeOK
  <2>5. faults \in 0..MaxFaults /\ corrupt \in 0..MaxCorrupt
    BY DEF Init
  <2> QED BY <1>1, <2>1, <2>2, <2>3, <2>4, <2>5 DEF Init, TypeOK, TableInv, WorkerStates, Reasons
<1>4. CtlInv /\ HoldInv /\ StealInv /\ CountedOutIsIdle /\ PopFrontSafe
  BY DEF Init, CtlInv, HoldInv, EmptyHanded, HasWork, StealInv, CountedOutIsIdle, PopFrontSafe
<1>5. LinkInv
  BY DEF Init, LinkInv, OwnLinks, Owns
<1>6. WorkAccounted
  <2>1. Holders = {} /\ Len(queue) \in Nat
    BY <1>2 DEF Init, Holders
  <2> QED BY <2>1, FS_EmptySet DEF Init, WorkAccounted
<1>7. RunningAccounted
  <2>1. Counted = {}
    BY DEF Init, Counted
  <2> QED BY <2>1, FS_EmptySet DEF Init, RunningAccounted
<1> QED BY <1>1, <1>3, <1>4, <1>5, <1>6, <1>7 DEF IInv

LEMMA WorkerStep ==
  ASSUME IInv, NEW w \in Workers, Worker(w)
  PROVE  IInv'
BY StartStep, LoopHeadStep, AwakeStep, ErrCheckStep, LeaveStep, TakeQueuedStep,
   LookForVictimStep, SplitStep, CutStep, AssignStep, ConnectStep, RenewUrlStep,
   RecvBlockStep, PopFrontStep, RefuseDataStep, RefusedStep, RangeDoneStep, ResetStep,
   GiveStep, RmAgentStep, GetNewUrlStep, ReportStep DEF Worker

LEMMA FaultStep ==
  ASSUME IInv, Fault
  PROVE  IInv'
BY RecvBlockStep, NetErrorStep, PartialFileStep, RenewThrowsStep, DiesStep, JudgeStep,
   LookingStep, UserStep DEF Fault

LEMMA ControllerStep ==
  ASSUME IInv, Controller \/ User
  PROVE  IInv'
BY CreateWorkerStep, LookingStep, PopBufferStep, JudgeStep, RequeueStep, TellStep,
   CheckAgentsStep, StopStep, UserStep DEF Controller, User

LEMMA StutterStep == IInv /\ UNCHANGED vars => IInv'
<1> SUFFICES ASSUME IInv, UNCHANGED vars PROVE IInv'
  OBVIOUS
<1>1. TableInv' /\ UNCHANGED owner /\ expired \subseteq expired'
  BY TableKept
<1>2. TypeOK' /\ CtlInv'
  BY <1>1 DEF IInv, CtlInv, TypeOK, TableInv, CtlTypeOK, WorkTypeOK,
     UserTypeOK, TaskTypeOK, LinkTypeOK
<1> QED BY <1>1, <1>2, ControlStep

\* Every step of every thread keeps the whole invariant.
THEOREM Invariance == Spec => []IInv
<1>1. IInv /\ [Next]_vars => IInv'
  BY WorkerStep, FaultStep, ControllerStep, EnvironmentStep, StutterStep DEF Next
<1> QED BY InitInv, <1>1, PTL DEF Spec

\* Every variable of the engine keeps its type: no counter goes below zero and
\* no superblock leaves the file, whatever the threads and the network do.
THEOREM TypeCorrect == Spec => []TypeOK
BY Invariance, PTL DEF IInv

\* m_iAvailbleWork is exact at every step (WGTController.cpp:388 reads it to
\* flag the files complete).
THEOREM WorkIsAccounted == Spec => []WorkAccounted
BY Invariance, PTL DEF IInv

\* m_iRunningWorkers is exact at every step (its zero ends the controller's loop).
THEOREM RunningIsAccounted == Spec => []RunningAccounted
BY Invariance, PTL DEF IInv

\* A worker told to stop keeps no superblock back and takes none again.
THEOREM CountedOutStaysIdle == Spec => []CountedOutIsIdle
BY Invariance, PTL DEF IInv

\* However steals and downloads interleave, pop_front has a block to pop.
THEOREM PopFrontIsSafe == Spec => []PopFrontSafe
BY Invariance, PTL DEF IInv

\* No two workers are served by one live server at a time.
THEOREM ServersAreNotShared == Spec => []OneWorkerPerServer
<1>1. IInv => OneWorkerPerServer
  <2> SUFFICES ASSUME IInv, NEW v \in Workers, NEW w \in Workers,
                      pc[v] = "recv", pc[w] = "recv", conn[v] = conn[w],
                      conn[v] \in Urls \ expired
               PROVE  v = w
    BY DEF OneWorkerPerServer
  <2>1. ~Unlinking(v) /\ ~Unlinking(w)
    BY DEF IInv, CountedOutIsIdle, Unlinking
  <2>2. owner[conn[v]] = v /\ owner[conn[w]] = w
    BY <2>1 DEF IInv, LinkInv, OwnLinks, Owns
  <2> QED BY <2>2
<1> QED BY Invariance, <1>1, PTL

-----------------------------------------------------------------------------
\* Whoever is waited for is still on its way.

\* Where a worker may hold its m_ErrorMutex, and where the controller has left its loop.
Renewing == {"rmagent", "geturl", "reset", "give", "report", "died"}
Ending == {"stop", "join", "final", "end"}

WaitInv ==
  /\ \A w \in Workers : pc[w] = "idle" => ctl = "create" /\ w >= at
  /\ \A w \in Workers : why[w] = "crc" => pc[w] \in Renewing
  /\ user # 0 => stopping
  /\ \A w \in Workers : wstop[w] => stopping \/ ctl \in Ending
  /\ \A w \in Workers :
       status[w] = "CONTINUE" /\ pc[w] \in {"leave", "done"} => wstop[w] \/ stopping
  /\ ctl = "join" => wstop[at]

\* The controller waits for a mutex only if its holder is about to release it or was
\* thrown out of run(); as long as it loops, the workers that m_iRunningWorkers counts
\* have not left; and it joins only workers that were started and told to stop.
NoneAwaitedInVain ==
  /\ \A w \in Workers : ~ErrFree(w) => pc[w] \in Renewing
  /\ ctl \notin Ending /\ ~stopping => \A w \in Counted : pc[w] \notin {"leave", "done"}
  /\ ctl = "join" => pc[at] # "idle" /\ wstop[at]

\* A step of worker w, and what it may not do.
LEMMA WorkerWaits ==
  ASSUME TypeOK, WaitInv, NEW w \in Workers, NEW l, Goto(w, l),
         UNCHANGED <<ctlVars, userVars>>,
         \A v \in Workers : v # w => why'[v] = why[v] /\ status'[v] = status[v],
         pc[w] # "idle", l # "idle",
         why'[w] = "crc" => l \in Renewing,
         status'[w] = "CONTINUE" /\ l \in {"leave", "done"} => wstop[w] \/ stopping
  PROVE  WaitInv'
<1>1. pc'[w] = l /\ \A v \in Workers : v # w => pc'[v] = pc[v]
  BY DEF TypeOK
<1> QED BY <1>1 DEF WaitInv

LEMMA WorkerStepWaits ==
  ASSUME TypeOK, WaitInv, NEW w \in Workers, Worker(w)
  PROVE  WaitInv'
<1> USE DEF TypeOK, TaskTypeOK
<1>1. why[w] = "crc" => pc[w] \in Renewing
  BY DEF WaitInv
<1>2. CASE Start(w)
  <2>1. PICK l \in {"report", "loop"} : Goto(w, l)
    BY <1>2 DEF Start
  <2>2. /\ why'[w] # "crc" /\ \A v \in Workers : v # w => why'[v] = why[v]
        /\ UNCHANGED status
    BY <1>1, <1>2 DEF Start, Renewing
  <2> QED BY <1>2, <2>1, <2>2, WorkerWaits DEF Start, Renewing
<1>3. CASE LoopHead(w)
  <2>1. PICK l \in {"leave", "asleep", "errcheck"} :
          Goto(w, l) /\ (l = "leave" => wstop[w] \/ stopping \/ status[w] = "STOP")
    BY <1>3 DEF LoopHead
  <2> QED BY <1>1, <1>3, <2>1, WorkerWaits DEF LoopHead, Renewing
<1>4. CASE Awake(w)
  <2>1. PICK l \in {"leave", "errcheck"} :
          Goto(w, l) /\ (l = "leave" => stopping \/ status[w] = "STOP")
    BY <1>4 DEF Awake
  <2> QED BY <1>1, <1>4, <2>1, WorkerWaits DEF Awake, Renewing
<1>5. CASE ErrCheck(w)
  <2>1. PICK l \in {"rmagent", "task", "begin"} : Goto(w, l) /\ (l # "rmagent" => UNCHANGED why)
    BY <1>5 DEF ErrCheck
  <2>2. \A v \in Workers : v # w => why'[v] = why[v]
    BY <1>5 DEF ErrCheck
  <2> QED BY <1>1, <1>5, <2>1, <2>2, WorkerWaits DEF ErrCheck, Renewing
<1>6. CASE Leave(w)
  <2>1. status[w] = "CONTINUE" => wstop[w] \/ stopping
    BY <1>6 DEF Leave, WaitInv
  <2> QED BY <1>1, <1>6, <2>1, WorkerWaits DEF Leave, Renewing
<1>7. CASE TakeQueued(w) \/ LookForVictim(w) \/ Split(w) \/ Cut(w)
  <2>1. PICK l \in {"assign", "report", "split", "cut", "died"} : Goto(w, l)
    BY <1>7 DEF TakeQueued, LookForVictim, Split, Cut
  <2>2. UNCHANGED <<ctlVars, userVars, why, status>> /\ pc[w] \in {"task", "split", "cut"}
    BY <1>7 DEF TakeQueued, LookForVictim, Split, Cut
  <2> QED BY <1>1, <2>1, <2>2, WorkerWaits DEF Renewing
<1>8. CASE Connect(w) \/ RenewUrl(w)
  <2>1. /\ pc[w] = "begin" /\ UNCHANGED <<ctlVars, userVars, status>>
        /\ \A v \in Workers : v # w => why'[v] = why[v]
        /\ why'[w] # "crc"
    <3>1. /\ pc[w] = "begin" /\ UNCHANGED <<ctlVars, userVars, status>>
          /\ UNCHANGED why \/ why' = [why EXCEPT ![w] = "newurl"]
      BY <1>8 DEF Connect, RenewUrl
    <3>2. why[w] # "crc"
      BY <1>1, <3>1 DEF Renewing
    <3> QED BY <3>1, <3>2
  <2>2. CASE UNCHANGED pc
    BY <2>1, <2>2 DEF WaitInv
  <2>3. CASE \E l \in {"recv", "reset"} : Goto(w, l)
    BY <2>1, <2>3, WorkerWaits
  <2> QED BY <1>8, <2>2, <2>3 DEF Connect, RenewUrl
<1>9. CASE Assign(w) \/ RecvBlock(w, TRUE) \/ PopFront(w) \/ RefuseData(w) \/ RangeDone(w)
  <2>1. PICK l \in {"begin", "pop", "recv", "refused", "reset", "loop"} : Goto(w, l)
    BY <1>9 DEF Assign, RecvBlock, PopFront, RefuseData, RangeDone, RangeEnds
  <2>2. /\ UNCHANGED <<ctlVars, userVars, why>> /\ pc[w] \in {"assign", "recv", "pop"}
        /\ \A v \in Workers : v # w => status'[v] = status[v]
    BY <1>9 DEF Assign, RecvBlock, PopFront, RefuseData, RangeDone
  <2> QED BY <1>1, <2>1, <2>2, WorkerWaits DEF Renewing
<1>10. CASE Refused(w)
  <2>1. PICK l \in {"reset", "loop"} : Goto(w, l)
    BY <1>10 DEF Refused, Fails, RangeEnds
  <2>2. /\ UNCHANGED <<ctlVars, userVars, status>> /\ pc[w] = "refused"
        /\ \A v \in Workers : v # w => why'[v] = why[v]
        /\ why'[w] # "crc"
    BY <1>1, <1>10 DEF Refused, Fails, RangeEnds, Renewing
  <2> QED BY <2>1, <2>2, WorkerWaits
<1>11. CASE Reset(w)
  <2>1. \A v \in Workers : v # w => status'[v] = status[v]
    BY <1>11 DEF Reset
  <2> QED BY <1>11, <2>1, WorkerWaits DEF Reset, Renewing
<1>12. CASE Give(w)
  <2>1. PICK l \in {"loop", "report", "rmagent"} :
          Goto(w, l) /\ (l = "loop" => why' = [why EXCEPT ![w] = "none"])
    BY <1>12 DEF Give
  <2>2. UNCHANGED <<ctlVars, userVars, status>> /\ pc[w] = "give"
    BY <1>12 DEF Give
  <2>3. \A v \in Workers : v # w => why'[v] = why[v]
    BY <1>12 DEF Give
  <2> QED BY <2>1, <2>2, <2>3, WorkerWaits DEF Renewing
<1>13. CASE RmAgent(w)
  BY <1>13, WorkerWaits DEF RmAgent, Renewing
<1>14. CASE GetNewUrl(w)
  <2>1. PICK l \in {"report", "reset", "loop", "task", "begin"} :
          Goto(w, l) /\ (l \in Renewing \/ why' = [why EXCEPT ![w] = "none"])
    BY <1>14 DEF GetNewUrl, Renewing
  <2>2. /\ UNCHANGED <<ctlVars, userVars, status>> /\ pc[w] = "geturl"
        /\ \A v \in Workers : v # w => why'[v] = why[v]
    BY <1>14 DEF GetNewUrl
  <2> QED BY <2>1, <2>2, WorkerWaits
<1>15. CASE Report(w)
  <2>1. PICK l \in {"done", "loop"} : Goto(w, l)
    BY <1>15 DEF Report
  <2>2. /\ UNCHANGED <<ctlVars, userVars>> /\ pc[w] = "report"
        /\ why'[w] = "none" /\ status'[w] = "STOP"
        /\ \A v \in Workers : v # w => why'[v] = why[v] /\ status'[v] = status[v]
    BY <1>15 DEF Report
  <2> QED BY <2>1, <2>2, WorkerWaits
<1> QED BY <1>2, <1>3, <1>4, <1>5, <1>6, <1>7, <1>8, <1>9, <1>10, <1>11, <1>12, <1>13, <1>14,
           <1>15 DEF Worker

LEMMA FaultWaits ==
  ASSUME TypeOK, WaitInv, NEW w \in Workers,
         \/ RecvBlock(w, FALSE) \/ NetError(w, "retry") \/ NetError(w, "newurl")
         \/ PartialFile(w) \/ RenewThrows(w) \/ Dies(w)
  PROVE  WaitInv'
<1> USE DEF TypeOK, TaskTypeOK
<1>1. why[w] = "crc" => pc[w] \in Renewing
  BY DEF WaitInv
<1>2. PICK l \in {"pop", "reset", "loop", "died"} : Goto(w, l)
  BY DEF RecvBlock, NetError, Fails, PartialFile, RangeEnds, RenewThrows, Dies
<1>3. /\ UNCHANGED <<ctlVars, userVars, status>> /\ pc[w] \in {"recv", "begin", "start", "geturl"}
      /\ \A v \in Workers : v # w => why'[v] = why[v]
  BY DEF RecvBlock, NetError, Fails, PartialFile, RenewThrows, Dies
<1>4. why'[w] = "crc" => l \in Renewing
  BY <1>1, <1>2 DEF RecvBlock, NetError, Fails, PartialFile, RenewThrows, Dies, Renewing
<1> QED BY <1>2, <1>3, <1>4, WorkerWaits

\* The controller and the user leave the workers where they are, but for the first step.
LEMMA ControllerWaits ==
  ASSUME TypeOK, CtlInv, WaitInv, Controller \/ WriteFails \/ CtlDies \/ SpuriousWakeup
  PROVE  WaitInv'
<1> USE WebGetAssumption DEF TypeOK, CtlTypeOK, UserTypeOK
<1>1. CASE CreateWorker
  <2>1. /\ UNCHANGED <<why, status, wstop, stopping, user>> /\ ctl = "create" /\ ctl' \in {"create", "loop"}
        /\ pc'[at] = "start" /\ \A v \in Workers : v # at => pc'[v] = pc[v]
    BY <1>1 DEF CreateWorker
  <2>2. \A v \in Workers : pc'[v] = "idle" => ctl' = "create" /\ v >= at'
    BY <1>1, <2>1 DEF CreateWorker, WaitInv
  <2>3. why[at] # "crc"
    BY <2>1 DEF CtlInv, WaitInv, Renewing
  <2>4. \A v \in Workers : why'[v] = "crc" => pc'[v] \in Renewing
    BY <2>1, <2>3 DEF WaitInv
  <2> QED BY <2>1, <2>2, <2>4 DEF WaitInv, Ending
<1>2. CASE StopWorker
  BY <1>2 DEF StopWorker, WaitInv, Ending
<1>3. CASE \/ CtlLoop \/ CtlWait \/ PopBuffer \/ WriteBlock \/ Requeue \/ Blame \/ Tell \/ Scan
           \/ CheckRunning \/ CheckAgents \/ JoinWorker \/ Finish \/ WriteFails \/ CtlDies
           \/ SpuriousWakeup
  <2>1. UNCHANGED <<pc, why, status, wstop, stopping, user>> /\ ctl # "create" /\ ctl' # "join"
    BY <1>3 DEF CtlLoop, CtlWait, PopBuffer, WriteBlock, Requeue, Blame, Tell, Scan, CheckRunning,
      CheckAgents, JoinWorker, Finish, WriteFails, CtlDies, SpuriousWakeup, NextBuffer, SameBuffer
  <2>2. ctl \in Ending => ctl' \in Ending
    BY <1>3 DEF CtlLoop, CtlWait, PopBuffer, WriteBlock, Requeue, Blame, Tell, Scan, CheckRunning,
      CheckAgents, JoinWorker, Finish, WriteFails, CtlDies, SpuriousWakeup, Ending
  <2> QED BY <2>1, <2>2 DEF WaitInv
<1> QED BY <1>1, <1>2, <1>3 DEF Controller

LEMMA UserWaits ==
  ASSUME TypeOK, WaitInv, User \/ Pause \/ Stop \/ Environment \/ UNCHANGED vars
  PROVE  WaitInv'
<1> USE DEF TypeOK, CtlTypeOK, UserTypeOK
<1>1. CASE Environment \/ UNCHANGED vars
  <2>1. UNCHANGED <<pc, why, status, ctl, at, stopping, wstop, user>>
    BY <1>1 DEF Environment
  <2> QED BY <2>1 DEF WaitInv
<1>2. CASE User \/ Pause \/ Stop
  <2>1. UNCHANGED <<pc, why, status, at>> /\ (stopping => stopping')
    BY <1>2 DEF User, Unpause, OnStopWorker, OnStopJoin, Pause, Stop
  <2>2. ctl' = ctl \/ (ctl = "waiting" /\ ctl' = "save")
    BY <1>2 DEF User, Unpause, OnStopWorker, OnStopJoin, Pause, Stop, WakeController
  <2>3. \A w \in Workers : wstop[w] => wstop'[w]
    BY <1>2 DEF User, Unpause, OnStopWorker, OnStopJoin, Pause, Stop
  <2>4. (UNCHANGED wstop \/ user # 0) /\ (user' # 0 => user # 0 \/ stopping')
    BY <1>2, WebGetAssumption DEF User, Unpause, OnStopWorker, OnStopJoin, Pause, Stop
  <2> QED BY <2>1, <2>2, <2>3, <2>4 DEF WaitInv, Ending
<1> QED BY <1>1, <1>2

LEMMA InitWaits == Init => WaitInv
BY WebGetAssumption DEF Init, WaitInv

LEMMA WaitStep == IInv /\ WaitInv /\ [Next]_vars => WaitInv'
<1> SUFFICES ASSUME IInv, WaitInv, [Next]_vars PROVE WaitInv'
  OBVIOUS
<1>1. TypeOK /\ CtlInv
  BY DEF IInv
<1> QED BY <1>1, WorkerStepWaits, FaultWaits, ControllerWaits, UserWaits DEF Next, Fault

\* The safe half of Termination and StopStops: what the controller waits for (the
\* m_ErrorMutex of a worker it blames, the end of those m_iRunningWorkers counts, a
\* worker it joins) is up to workers that are still to come to it, unless one died.
THEOREM WaitsAreAnswered == Spec => []NoneAwaitedInVain
<1>1. ASSUME TypeOK, WaitInv PROVE NoneAwaitedInVain
  <2>1. \A w \in Workers : ~ErrFree(w) => pc[w] \in Renewing
    BY <1>1 DEF WaitInv, ErrFree
  <2>2. ctl \notin Ending /\ ~stopping => \A w \in Counted : pc[w] \notin {"leave", "done"}
    BY <1>1 DEF WaitInv, Counted
  <2>3. ctl = "join" => pc[at] # "idle" /\ wstop[at]
    BY <1>1 DEF WaitInv, TypeOK, CtlTypeOK
  <2> QED BY <2>1, <2>2, <2>3 DEF NoneAwaitedInVain
<1>2. Spec => []WaitInv
  BY Invariance, InitWaits, WaitStep, PTL DEF Spec
<1> QED BY <1>1, <1>2, TypeCorrect, PTL
=============================================================================
