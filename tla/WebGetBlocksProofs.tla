------------------------- MODULE WebGetBlocksProofs -------------------------
(***************************************************************************)
(* What becomes of each block, for any number of blocks, workers and       *)
(* servers: it is in one place at a time, and the engine with its steals,  *)
(* retries and failures is the abstract download.                          *)
(*                                                                         *)
(* BlockInOnePlace adds up five cardinalities.  OneSpot says the same as   *)
(* five cases, which is what the steps are reasoned about: each of them    *)
(* moves blocks from one kind of place to one other kind, or within one.   *)
(***************************************************************************)
EXTENDS WebGetProofs, WellFoundedInduction

USE ProvidersAssumption, WebGetAssumption, NoneAssumption
USE DEF ctlVars, fileVars, workVars, userVars, taskVars, linkVars, errVars, workerVars,
        bounds, vars, NotMine, NotWorkers, NotUsers, Goto, HangUp, Workers, Blocks

Once(S) == \E x : S = {x}

\* One place, in S or in T.
OnceIn(S, T) == (Once(S) /\ T = {}) \/ (S = {} /\ Once(T))
NotIn(S, T) == S = {} /\ T = {}

OneSpot(b) ==
  \/ OnceIn(Queued(b), Held(b)) /\ NotIn(InBuffer(b), InHand(b)) /\ Written(b) = {}
  \/ NotIn(Queued(b), Held(b)) /\ OnceIn(InBuffer(b), InHand(b)) /\ Written(b) = {}
  \/ NotIn(Queued(b), Held(b)) /\ NotIn(InBuffer(b), InHand(b)) /\ Once(Written(b))

SpotInv == \A b \in Blocks : OneSpot(b)

\* Behind its loop the controller has joined the workers up to the one it is at,
\* and there is a verdict when it has joined all.
EndInv ==
  /\ ctl \in {"loop", "dopause", "waiting", "running", "agents"} => at = 1
  /\ ctl \in {"stop", "join"} => \A w \in Workers : w < at => Ended(w)
  /\ ctl \in {"final", "end"} => \A w \in Workers : Ended(w)
  /\ result # "none" => ctl = "end"

----------------------------------------------------------------------------
\* A set of one place has one element, and one place is counted once.
LEMMA OnceCounts ==
  ASSUME NEW S
  PROVE  /\ S = {} => Cardinality(S) = 0
         /\ Once(S) => Cardinality(S) = 1
<1>1. S = {} => Cardinality(S) = 0
  BY FS_EmptySet
<1>2. Once(S) => Cardinality(S) = 1
  BY FS_Singleton DEF Once
<1> QED BY <1>1, <1>2

LEMMA OneSpotCounts == SpotInv => BlockInOnePlace
<1> SUFFICES ASSUME SpotInv, NEW b \in Blocks
             PROVE  Cardinality(Queued(b)) + Cardinality(Held(b)) + Cardinality(InBuffer(b))
                      + Cardinality(InHand(b)) + Cardinality(Written(b)) = 1
  BY DEF BlockInOnePlace
<1>1. OneSpot(b)
  BY DEF SpotInv
<1>2. ASSUME NEW A, NEW B, NEW C, NEW D, NEW E,
             \/ OnceIn(A, B) /\ NotIn(C, D) /\ E = {}
             \/ NotIn(A, B) /\ OnceIn(C, D) /\ E = {}
             \/ NotIn(A, B) /\ NotIn(C, D) /\ Once(E)
      PROVE  Cardinality(A) + Cardinality(B) + Cardinality(C) + Cardinality(D)
               + Cardinality(E) = 1
  <2>1. ASSUME NEW S, NEW T
        PROVE  /\ NotIn(S, T) => Cardinality(S) = 0 /\ Cardinality(T) = 0
               /\ OnceIn(S, T) => \/ Cardinality(S) = 1 /\ Cardinality(T) = 0
                                  \/ Cardinality(S) = 0 /\ Cardinality(T) = 1
    <3>1. /\ S = {} => Cardinality(S) = 0
          /\ Once(S) => Cardinality(S) = 1
      BY OnceCounts
    <3>2. /\ T = {} => Cardinality(T) = 0
          /\ Once(T) => Cardinality(T) = 1
      BY OnceCounts
    <3> QED BY <3>1, <3>2 DEF OnceIn, NotIn
  <2>2. /\ E = {} => Cardinality(E) = 0
        /\ Once(E) => Cardinality(E) = 1
    BY OnceCounts
  <2>3. \/ Cardinality(A) = 1 /\ Cardinality(B) = 0
        \/ Cardinality(A) = 0 /\ Cardinality(B) = 1
        \/ Cardinality(A) = 0 /\ Cardinality(B) = 0
    BY <1>2, <2>1
  <2>4. CASE OnceIn(A, B) /\ NotIn(C, D) /\ E = {}
    BY <2>1, <2>2, <2>4
  <2>5. CASE NotIn(A, B) /\ OnceIn(C, D) /\ E = {}
    BY <2>1, <2>2, <2>5
  <2>6. CASE NotIn(A, B) /\ NotIn(C, D) /\ Once(E)
    BY <2>1, <2>2, <2>6
  <2> QED BY <1>2, <2>4, <2>5, <2>6
<1> HIDE DEF Queued, Held, InBuffer, InHand, Written
<1> QED BY <1>1, <1>2 DEF OneSpot

\* The same sets, of two states; a set that keeps its members is kept.
LEMMA SameSet ==
  ASSUME NEW S, NEW T, \A x : x \in S <=> x \in T
  PROVE  S = T
OBVIOUS

----------------------------------------------------------------------------
\* What leaves each kind of place alone.

LEMMA QueuedKept ==
  ASSUME NEW b, UNCHANGED queue
  PROVE  Queued(b)' = Queued(b)
BY DEF Queued

LEMMA HeldKept ==
  ASSUME NEW b, UNCHANGED sb, \A w \in Workers : pc'[w] = "pop" <=> pc[w] = "pop"
  PROVE  Held(b)' = Held(b)
BY DEF Held, Holders

LEMMA InBufferKept ==
  ASSUME NEW b, UNCHANGED buf
  PROVE  InBuffer(b)' = InBuffer(b)
BY DEF InBuffer

LEMMA InHandKept ==
  ASSUME NEW b, ctl' = "check" <=> ctl = "check", ctl = "check" => UNCHANGED hand
  PROVE  InHand(b)' = InHand(b)
BY DEF InHand

LEMMA WrittenKept ==
  ASSUME NEW b, UNCHANGED <<saved, lost>>
  PROVE  Written(b)' = Written(b)
BY DEF Written

\* A step that moves blocks between the queue and the workers only.
LEMMA WorkMoves ==
  ASSUME SpotInv, UNCHANGED <<buf, saved, lost, ctl, hand>>,
         \A b \in Blocks : /\ NotIn(Queued(b), Held(b)) => NotIn(Queued(b), Held(b))'
                           /\ OnceIn(Queued(b), Held(b)) => OnceIn(Queued(b), Held(b))'
  PROVE  SpotInv'
<1> SUFFICES ASSUME NEW b \in Blocks PROVE OneSpot(b)'
  BY DEF SpotInv
<1>1. InBuffer(b)' = InBuffer(b) /\ InHand(b)' = InHand(b) /\ Written(b)' = Written(b)
  BY InBufferKept, InHandKept, WrittenKept
<1>2. NotIn(InBuffer(b), InHand(b)) => NotIn(InBuffer(b), InHand(b))'
  BY <1>1 DEF NotIn
<1>3. OnceIn(InBuffer(b), InHand(b)) => OnceIn(InBuffer(b), InHand(b))'
  BY <1>1 DEF OnceIn, Once
<1>4. OneSpot(b)
  BY DEF SpotInv
<1>5. Written(b) = {} => (Written(b) = {})'
  BY <1>1
<1>6. Once(Written(b)) => Once(Written(b))'
  BY <1>1 DEF Once
<1> QED BY <1>2, <1>3, <1>4, <1>5, <1>6 DEF OneSpot

\* A step that moves no block.
LEMMA NoMove ==
  ASSUME SpotInv, UNCHANGED <<queue, sb, buf, saved, lost>>,
         \A w \in Workers : pc'[w] = "pop" <=> pc[w] = "pop",
         ctl' = "check" <=> ctl = "check", ctl = "check" => UNCHANGED hand
  PROVE  SpotInv'
<1> SUFFICES ASSUME NEW b \in Blocks PROVE OneSpot(b)'
  BY DEF SpotInv
<1>1. /\ Queued(b)' = Queued(b) /\ Held(b)' = Held(b)
      /\ InBuffer(b)' = InBuffer(b) /\ InHand(b)' = InHand(b) /\ Written(b)' = Written(b)
  BY QueuedKept, HeldKept, InBufferKept, InHandKept, WrittenKept
<1>2. OneSpot(b)
  BY DEF SpotInv
<1> QED BY <1>1, <1>2 DEF OneSpot, OnceIn, NotIn, Once

\* The steps of a worker that hold on to what they have.
LEMMA WorkerKeeps ==
  ASSUME IInv, SpotInv, NEW w \in Workers, NEW l, Goto(w, l), pc[w] # "pop", l # "pop",
         UNCHANGED <<queue, sb, buf, ctlVars, fileVars>>
  PROVE  SpotInv'
<1>1. \A v \in Workers : pc'[v] = "pop" <=> pc[v] = "pop"
  BY DEF IInv, TypeOK
<1> QED BY <1>1, NoMove

LEMMA LookingWorker ==
  ASSUME IInv, SpotInv, NEW w \in Workers,
         \/ Start(w) \/ LoopHead(w) \/ Awake(w) \/ ErrCheck(w) \/ Leave(w)
         \/ LookForVictim(w) \/ Split(w) \/ Assign(w)
         \/ Connect(w) \/ RefuseData(w) \/ Refused(w) \/ RangeDone(w)
         \/ Reset(w) \/ RmAgent(w) \/ GetNewUrl(w) \/ Report(w)
         \/ NetError(w, "retry") \/ NetError(w, "newurl") \/ PartialFile(w)
         \/ RenewThrows(w) \/ Dies(w)
  PROVE  SpotInv'
<1> DEFINE Kept == UNCHANGED <<queue, sb, buf, ctlVars, fileVars>>
           Goes == pc[w] # "pop" /\ \E l : l # "pop" /\ Goto(w, l)
<1>1. CASE Start(w) \/ LoopHead(w) \/ Awake(w) \/ ErrCheck(w) \/ Leave(w)
  <2>1. Kept
    BY <1>1 DEF Start, LoopHead, Awake, ErrCheck, Leave
  <2>2. Goes
    BY <1>1 DEF Start, LoopHead, Awake, ErrCheck, Leave
  <2> QED BY <2>1, <2>2, WorkerKeeps
<1>2. CASE LookForVictim(w) \/ Split(w) \/ Assign(w)
  <2>1. Kept
    BY <1>2 DEF LookForVictim, Split, Assign
  <2>2. Goes
    BY <1>2 DEF LookForVictim, Split, Assign
  <2> QED BY <2>1, <2>2, WorkerKeeps
<1>3. CASE Connect(w) \/ RefuseData(w) \/ Refused(w) \/ RangeDone(w)
  <2>1. Kept
    BY <1>3 DEF Connect, RefuseData, Refused, RangeDone
  <2>2. Goes
    BY <1>3 DEF Connect, RefuseData, Refused, RangeDone, Fails, RangeEnds
  <2> QED BY <2>1, <2>2, WorkerKeeps
<1>4. CASE Reset(w) \/ RmAgent(w) \/ GetNewUrl(w) \/ Report(w)
  <2>1. Kept
    BY <1>4 DEF Reset, RmAgent, GetNewUrl, Report
  <2>2. Goes
    BY <1>4 DEF Reset, RmAgent, GetNewUrl, Report
  <2> QED BY <2>1, <2>2, WorkerKeeps
<1>5. CASE \/ NetError(w, "retry") \/ NetError(w, "newurl") \/ PartialFile(w)
           \/ RenewThrows(w) \/ Dies(w)
  <2>1. Kept
    BY <1>5 DEF NetError, PartialFile, RenewThrows, Dies
  <2>2. Goes
    BY <1>5 DEF NetError, PartialFile, RenewThrows, Dies, Fails, RangeEnds
  <2> QED BY <2>1, <2>2, WorkerKeeps
<1> QED BY <1>1, <1>2, <1>3, <1>4, <1>5

\* ... and another url, with the one it has still open.
LEMMA RenewUrlKeeps ==
  ASSUME IInv, SpotInv, NEW w \in Workers, RenewUrl(w)
  PROVE  SpotInv'
<1>1. UNCHANGED <<queue, sb, buf, ctlVars, fileVars>>
  BY DEF RenewUrl
<1>2. UNCHANGED pc \/ (pc[w] # "pop" /\ Goto(w, "reset"))
  BY DEF RenewUrl
<1>3. CASE UNCHANGED pc
  BY <1>1, <1>3, NoMove
<1> QED BY <1>1, <1>2, <1>3, WorkerKeeps

----------------------------------------------------------------------------
\* The steps that move superblocks between the queue and the workers.

\* The places of a block when an element is taken from, or added to, the queue.
LEMMA QueueTail ==
  ASSUME queue \in Seq(Super), queue # <<>>, queue' = Tail(queue), NEW b
  PROVE  \A i : i \in Queued(b)' <=> i \in Nat \ {0} /\ i + 1 \in Queued(b)
<1>1. /\ Len(queue) \in Nat /\ DOMAIN queue = 1..Len(queue)
      /\ Len(queue') = Len(queue) - 1 /\ DOMAIN queue' = 1..(Len(queue) - 1)
      /\ \A i \in 1..(Len(queue) - 1) : queue'[i] = queue[i + 1]
  OBVIOUS
<1>2. \A i : i \in DOMAIN queue' <=> i \in Nat \ {0} /\ i + 1 \in DOMAIN queue
  BY <1>1
<1>3. \A i \in DOMAIN queue' : queue'[i] = queue[i + 1]
  BY <1>1
<1> QED BY <1>2, <1>3 DEF Queued

LEMMA QueueAppend ==
  ASSUME queue \in Seq(Super), NEW s \in Super, queue' = Append(queue, s), NEW b
  PROVE  /\ Len(queue) + 1 \notin Queued(b)
         /\ \A i : i \in Queued(b)' <=> \/ i \in Queued(b)
                                        \/ i = Len(queue) + 1 /\ b \in Members(s)
<1>1. /\ Len(queue) \in Nat /\ DOMAIN queue = 1..Len(queue)
      /\ DOMAIN queue' = 1..(Len(queue) + 1)
      /\ queue'[Len(queue) + 1] = s
      /\ \A i \in 1..Len(queue) : queue'[i] = queue[i]
  OBVIOUS
<1>2. Len(queue) + 1 \notin DOMAIN queue
  BY <1>1
<1>3. \A i : i \in DOMAIN queue' <=> i \in DOMAIN queue \/ i = Len(queue) + 1
  BY <1>1
<1>4. \A i \in DOMAIN queue : queue'[i] = queue[i]
  BY <1>1
<1> QED BY <1>1, <1>2, <1>3, <1>4 DEF Queued

LEMMA TakeQueuedSpots ==
  ASSUME IInv, SpotInv, NEW w \in Workers, TakeQueued(w)
  PROVE  SpotInv'
<1>0. /\ pc[w] = "task" /\ sb[w] = None
      /\ queue \in Seq(Super) /\ queue # <<>>
      /\ sb' = [sb EXCEPT ![w] = Head(queue)] /\ queue' = Tail(queue)
      /\ pc' = [pc EXCEPT ![w] = "assign"]
      /\ sb \in [Workers -> Super \union {None}] /\ pc \in [Workers -> WorkerStates]
      /\ UNCHANGED <<buf, saved, lost, ctl, hand>>
  BY DEF TakeQueued, IInv, HoldInv, EmptyHanded, TypeOK, WorkTypeOK, TaskTypeOK
<1>1. ASSUME NEW b \in Blocks
      PROVE  /\ w \notin Held(b)
             /\ \A v : v \in Held(b)' <=> v \in Held(b) \/ (v = w /\ 1 \in Queued(b))
  <2>1. Head(queue) = queue[1] /\ 1 \in DOMAIN queue /\ queue[1] \in Super /\ queue[1] # None
    BY <1>0
  <2>2. sb'[w] = queue[1] /\ pc'[w] # "pop"
        /\ \A v \in Workers : v # w => sb'[v] = sb[v] /\ pc'[v] = pc[v]
    BY <1>0, <2>1
  <2> QED BY <1>0, <2>1, <2>2 DEF Queued, Held, Holders
<1>2. ASSUME NEW b \in Blocks
      PROVE  /\ NotIn(Queued(b), Held(b)) => NotIn(Queued(b), Held(b))'
             /\ OnceIn(Queued(b), Held(b)) => OnceIn(Queued(b), Held(b))'
  <2>1. \A i : i \in Queued(b)' <=> i \in Nat \ {0} /\ i + 1 \in Queued(b)
    BY <1>0, QueueTail
  <2>2. \A i \in Queued(b) : i \in Nat \ {0}
    BY <1>0 DEF Queued
  <2>3. NotIn(Queued(b), Held(b)) => NotIn(Queued(b), Held(b))'
    BY <1>1, <2>1 DEF NotIn
  <2>4. CASE Queued(b) = {} /\ Once(Held(b))
    <3>1. Queued(b)' = {} /\ Held(b)' = Held(b)
      BY <1>1, <2>1, <2>4
    <3> QED BY <2>3, <2>4, <3>1 DEF OnceIn, Once
  <2>5. ASSUME Held(b) = {}, NEW i, Queued(b) = {i}
        PROVE  OnceIn(Queued(b), Held(b))'
    <3>1. CASE i = 1
      <4>1. Held(b)' = {w} /\ Queued(b)' = {}
        BY <1>1, <2>1, <2>5, <3>1
      <4> QED BY <4>1 DEF OnceIn, Once
    <3>2. CASE i # 1
      <4>1. i - 1 \in Nat \ {0}
        BY <2>2, <2>5, <3>2
      <4>2. Held(b)' = {} /\ Queued(b)' = {i - 1}
        BY <1>1, <2>1, <2>2, <2>5, <3>2, <4>1
      <4> QED BY <4>2 DEF OnceIn, Once
    <3> QED BY <3>1, <3>2
  <2> QED BY <2>3, <2>4, <2>5 DEF OnceIn, Once
<1> QED BY <1>0, <1>2, WorkMoves

\* A superblock that is not finished goes to the back of the queue; of one that
\* is, nothing is left.
LEMMA GiveSpots ==
  ASSUME IInv, SpotInv, NEW w \in Workers, Give(w)
  PROVE  SpotInv'
<1>0. /\ pc[w] = "give" /\ sb[w] \in Super /\ sb[w] # None
      /\ queue \in Seq(Super)
      /\ sb' = [sb EXCEPT ![w] = None]
      /\ IF SizeOf(sb[w]) = 0 THEN UNCHANGED queue ELSE queue' = Append(queue, sb[w])
      /\ sb \in [Workers -> Super \union {None}] /\ pc \in [Workers -> WorkerStates]
      /\ UNCHANGED <<buf, saved, lost, ctl, hand>>
  BY DEF Give, IInv, HoldInv, HasWork, TypeOK, WorkTypeOK, TaskTypeOK
<1>1. \A v \in Workers : pc'[v] = "pop" <=> pc[v] = "pop"
  BY <1>0 DEF Give
<1>2. ASSUME NEW b \in Blocks
      PROVE  /\ w \in Held(b) <=> b \in Members(sb[w])
             /\ \A v : v \in Held(b)' <=> v \in Held(b) /\ v # w
  <2>1. sb'[w] = None /\ \A v \in Workers : v # w => sb'[v] = sb[v]
    BY <1>0
  <2> QED BY <1>0, <1>1, <2>1 DEF Held, Holders
<1>3. ASSUME NEW b \in Blocks
      PROVE  /\ NotIn(Queued(b), Held(b)) => NotIn(Queued(b), Held(b))'
             /\ OnceIn(Queued(b), Held(b)) => OnceIn(Queued(b), Held(b))'
  <2>1. CASE SizeOf(sb[w]) = 0
    <3>1. b \notin Members(sb[w])
      BY <1>0, <2>1 DEF SizeOf, Members, Super
    <3>2. Queued(b)' = Queued(b)
      BY <1>0, <2>1, QueuedKept
    <3>3. Held(b)' = Held(b)
      BY <1>2, <3>1
    <3> QED BY <3>2, <3>3 DEF NotIn, OnceIn, Once
  <2>2. CASE queue' = Append(queue, sb[w])
    <3>1. /\ Len(queue) + 1 \notin Queued(b)
          /\ \A i : i \in Queued(b)' <=> \/ i \in Queued(b)
                                         \/ i = Len(queue) + 1 /\ b \in Members(sb[w])
      BY <1>0, <2>2, QueueAppend
    <3>2. CASE b \in Members(sb[w])
      <4>1. ~NotIn(Queued(b), Held(b))
        BY <1>2, <3>2 DEF NotIn
      <4>2. ASSUME OnceIn(Queued(b), Held(b)) PROVE OnceIn(Queued(b), Held(b))'
        <5>1. Queued(b) = {} /\ Held(b) = {w}
          BY <1>2, <3>2, <4>2 DEF OnceIn, Once
        <5>2. Queued(b)' = {Len(queue) + 1} /\ Held(b)' = {}
          BY <1>2, <3>1, <3>2, <5>1
        <5> QED BY <5>2 DEF OnceIn, Once
      <4> QED BY <4>1, <4>2
    <3>3. CASE b \notin Members(sb[w])
      <4>1. Queued(b)' = Queued(b) /\ Held(b)' = Held(b)
        BY <1>2, <3>1, <3>3
      <4> QED BY <4>1 DEF NotIn, OnceIn, Once
    <3> QED BY <3>2, <3>3
  <2> QED BY <1>0, <2>1, <2>2
<1> QED BY <1>0, <1>3, WorkMoves

\* What a thief cuts: another's superblock, which the lock on its info keeps.
LEMMA Victim ==
  ASSUME IInv, NEW w \in Workers, pc[w] = "cut"
  PROVE  /\ loot[w].from \in Workers /\ loot[w].from # w
         /\ sb[loot[w].from] \in Super /\ loot[w].half \in 1..NumBlocks
<1>1. sb[w] = None /\ loot[w].from \in Workers /\ loot[w].half > 0 /\ Shown(loot[w].from)
  BY DEF IInv, HoldInv, EmptyHanded, StealInv
<1>2. sb[loot[w].from] # None
  BY <1>1 DEF Shown
<1> QED BY <1>1, <1>2 DEF IInv, TypeOK, TaskTypeOK

\* A cut leaves a block in one of the two halves; the one that is being written
\* stays with the victim.
LEMMA HalvesShare ==
  ASSUME NEW s \in Super, NEW half \in 1..NumBlocks, half <= SizeOf(s), NEW b \in Blocks
  PROVE  LET first == [s EXCEPT !.hi = s.lo + half - 1]
             second == [lo |-> s.lo + half, hi |-> s.hi]
         IN /\ b \in Members(s) <=> b \in Members(first) \/ b \in Members(second)
            /\ ~(b \in Members(first) /\ b \in Members(second))
            /\ first.lo = s.lo /\ s.lo \notin Members(second)
<1>1. s.lo \in 1..(NumBlocks + 1) /\ s.hi \in 0..NumBlocks
  BY DEF Super
<1>2. half <= s.hi + 1 - s.lo
  BY <1>1 DEF SizeOf
<1>3. [s EXCEPT !.hi = s.lo + half - 1] = [lo |-> s.lo, hi |-> s.lo + half - 1]
  BY DEF Super
<1>4. /\ b \in s.lo .. s.hi <=> b \in s.lo .. (s.lo + half - 1) \/ b \in (s.lo + half) .. s.hi
      /\ ~(b \in s.lo .. (s.lo + half - 1) /\ b \in (s.lo + half) .. s.hi)
      /\ s.lo \notin (s.lo + half) .. s.hi
  <2>1. s.lo \in Int /\ s.hi \in Int /\ half \in Int /\ b \in Int /\ half > 0
    BY <1>1
  <2> QED BY <1>2, <2>1
<1> QED BY <1>3, <1>4 DEF Members

LEMMA CutSpots ==
  ASSUME IInv, SpotInv, NEW w \in Workers, Cut(w)
  PROVE  SpotInv'
<1> DEFINE v == loot[w].from
           half == loot[w].half
           s == sb[v]
<1>0. /\ pc[w] = "cut" /\ sb[w] = None
      /\ v \in Workers /\ v # w /\ s \in Super /\ half \in 1..NumBlocks
      /\ sb \in [Workers -> Super \union {None}] /\ pc \in [Workers -> WorkerStates]
      /\ UNCHANGED <<queue, buf, saved, lost, ctl, hand>>
  <2>1. pc[w] = "cut"
    BY DEF Cut
  <2>2. sb[w] = None
    BY <2>1 DEF IInv, HoldInv, EmptyHanded
  <2>3. UNCHANGED <<queue, buf, saved, lost, ctl, hand>>
    BY DEF Cut
  <2>4. sb \in [Workers -> Super \union {None}] /\ pc \in [Workers -> WorkerStates]
    BY DEF IInv, TypeOK, TaskTypeOK
  <2> QED BY <2>1, <2>2, <2>3, <2>4, Victim
<1>1. \/ Goto(w, "died") /\ UNCHANGED sb
      \/ /\ half <= SizeOf(s)
         /\ sb' = [sb EXCEPT ![v].hi = s.lo + half - 1,
                             ![w] = [lo |-> s.lo + half, hi |-> s.hi]]
         /\ Goto(w, "assign")
  BY DEF Cut
<1> HIDE DEF v, half, s
<1>2. \A x \in Workers : pc'[x] = "pop" <=> pc[x] = "pop"
  BY <1>0, <1>1
<1>3. CASE UNCHANGED sb
  BY <1>0, <1>2, <1>3, NoMove
<1>4. CASE /\ half <= SizeOf(s)
           /\ sb' = [sb EXCEPT ![v].hi = s.lo + half - 1,
                               ![w] = [lo |-> s.lo + half, hi |-> s.hi]]
  <2> DEFINE first == [s EXCEPT !.hi = s.lo + half - 1]
             second == [lo |-> s.lo + half, hi |-> s.hi]
  <2>1. /\ sb'[v] = first /\ sb'[w] = second
        /\ \A x \in Workers : x \notin {v, w} => sb'[x] = sb[x]
    BY <1>0, <1>4 DEF s
  <2>2. first \in Super /\ second \in Super
    <3>1. /\ [lo |-> s.lo, hi |-> s.lo + half - 1] \in Super /\ second \in Super
          /\ first = [lo |-> s.lo, hi |-> s.lo + half - 1]
      BY <1>0, <1>4, CutInTwo
    <3> HIDE DEF first, second
    <3> QED BY <3>1
  <2>3. first # None /\ second # None /\ s # None
    BY <1>0, <2>2
  <2>4. sb[v] = s
    BY DEF s
  <2>5. ASSUME NEW b \in Blocks
        PROVE  /\ b \in Members(s) <=> b \in Members(first) \/ b \in Members(second)
               /\ ~(b \in Members(first) /\ b \in Members(second))
               /\ first.lo = s.lo /\ s.lo \notin Members(second)
    BY <1>0, <1>4, HalvesShare
  <2> HIDE DEF first, second
  <2>6. ASSUME NEW b \in Blocks
        PROVE  /\ w \notin Held(b)
               /\ \A x \in Workers : x \notin {v, w} => (x \in Held(b)' <=> x \in Held(b))
               /\ v \in Held(b)' \/ w \in Held(b)' <=> v \in Held(b)
               /\ ~(v \in Held(b)' /\ w \in Held(b)')
    <3>1. w \notin Held(b)
      BY <1>0 DEF Held, Holders
    <3>2. v \in Held(b) <=> b \in Members(s) /\ ~(pc[v] = "pop" /\ b = s.lo)
      BY <1>0, <2>3, <2>4 DEF Held, Holders
    <3>3. v \in Held(b)' <=> b \in Members(first) /\ ~(pc[v] = "pop" /\ b = first.lo)
      BY <1>0, <1>2, <2>1, <2>3 DEF Held, Holders
    <3>4. w \in Held(b)' <=> b \in Members(second)
      BY <1>0, <1>2, <2>1, <2>3 DEF Held, Holders
    <3>5. \A x \in Workers : x \notin {v, w} => (x \in Held(b)' <=> x \in Held(b))
      BY <1>2, <2>1 DEF Held, Holders
    <3> QED BY <2>5, <3>1, <3>2, <3>3, <3>4, <3>5
  <2>7. ASSUME NEW b \in Blocks
        PROVE  /\ NotIn(Queued(b), Held(b)) => NotIn(Queued(b), Held(b))'
               /\ OnceIn(Queued(b), Held(b)) => OnceIn(Queued(b), Held(b))'
    <3>1. Queued(b)' = Queued(b)
      BY <1>0, QueuedKept
    <3>2. Held(b) \subseteq Workers /\ Held(b)' \subseteq Workers
      BY DEF Held, Holders
    <3>3. Held(b) = {} => Held(b)' = {}
      BY <2>6, <3>2
    <3>4. ASSUME NEW x, Held(b) = {x} PROVE Once(Held(b)')
      <4>1. CASE x = v
        <5>1. Held(b)' = {v} \/ Held(b)' = {w}
          BY <2>6, <3>2, <3>4, <4>1
        <5> QED BY <5>1 DEF Once
      <4>2. CASE x # v
        <5>1. Held(b)' = {x}
          BY <2>6, <3>2, <3>4, <4>2
        <5> QED BY <5>1 DEF Once
      <4> QED BY <4>1, <4>2
    <3> QED BY <3>1, <3>3, <3>4 DEF NotIn, OnceIn, Once
  <2> QED BY <1>0, <2>7, WorkMoves
<1> QED BY <1>1, <1>3, <1>4

\* The block at the front counts as fetched before it is popped.
LEMMA PopFrontSpots ==
  ASSUME IInv, SpotInv, NEW w \in Workers, PopFront(w)
  PROVE  SpotInv'
<1>0. /\ pc[w] = "pop" /\ sb[w] \in Super /\ sb[w] # None
      /\ sb \in [Workers -> Super \union {None}] /\ pc \in [Workers -> WorkerStates]
      /\ sb' = [sb EXCEPT ![w].lo = @ + 1]
      /\ sb'[w] \in Super
      /\ UNCHANGED <<queue, buf, saved, lost, ctl, hand>>
  <2>1. pc[w] = "pop"
    BY DEF PopFront
  <2>2. sb[w] # None /\ SizeOf(sb[w]) > 0
    BY <2>1 DEF IInv, PopFrontSafe
  <2>3. sb \in [Workers -> Super \union {None}] /\ pc \in [Workers -> WorkerStates]
    BY DEF IInv, TypeOK, TaskTypeOK
  <2>4. sb[w] \in Super
    BY <2>2, <2>3
  <2>5. sb' = [sb EXCEPT ![w].lo = @ + 1] /\ UNCHANGED <<queue, buf, saved, lost, ctl, hand>>
    BY DEF PopFront
  <2>6. sb'[w] = [sb[w] EXCEPT !.lo = @ + 1]
    BY <2>3, <2>5
  <2>7. sb[w].lo \in Blocks
    BY <2>2, <2>4, SizeBounds
  <2>8. sb'[w] \in Super
    BY <2>4, <2>6, <2>7 DEF Super
  <2> QED BY <2>1, <2>2, <2>3, <2>4, <2>5, <2>8
<1>1. pc'[w] # "pop" /\ \A x \in Workers : x # w => pc'[x] = pc[x]
  BY <1>0 DEF PopFront
<1>2. /\ sb'[w].lo = sb[w].lo + 1 /\ sb'[w].hi = sb[w].hi
      /\ \A x \in Workers : x # w => sb'[x] = sb[x]
  BY <1>0 DEF Super
<1>3. ASSUME NEW b \in Blocks PROVE Held(b)' = Held(b)
  <2>1. b \in Members(sb'[w]) <=> b \in Members(sb[w]) /\ b # sb[w].lo
    <3>1. sb[w].lo \in Int /\ sb[w].hi \in Int /\ b \in Int
      BY <1>0 DEF Super
    <3> QED BY <1>2, <3>1 DEF Members
  <2>2. w \in Held(b)' <=> w \in Held(b)
    BY <1>0, <1>1, <2>1 DEF Held, Holders
  <2>3. \A x \in Workers : x # w => (x \in Held(b)' <=> x \in Held(b))
    BY <1>1, <1>2 DEF Held, Holders
  <2>4. Held(b) \subseteq Workers /\ Held(b)' \subseteq Workers
    BY DEF Held, Holders
  <2>5. \A x : x \in Held(b)' <=> x \in Held(b)
    BY <2>2, <2>3, <2>4
  <2> QED BY <2>5, SameSet
<1>4. \A b \in Blocks : Queued(b)' = Queued(b)
  BY <1>0, QueuedKept
<1> QED BY <1>0, <1>3, <1>4, WorkMoves DEF NotIn, OnceIn, Once

----------------------------------------------------------------------------
\* The steps that take a block from one kind of place to another.

\* The places in buffers are pairs.
LEMMA BufferPairs ==
  ASSUME NEW b
  PROVE  /\ \A v, i : <<v, i>> \in InBuffer(b) <=>
                        v \in Workers /\ i \in DOMAIN buf[v] /\ buf[v][i].blk = b
         /\ \A v, i : <<v, i>> \in InBuffer(b)' <=>
                        v \in Workers /\ i \in DOMAIN buf'[v] /\ buf'[v][i].blk = b
         /\ \A x : x \in InBuffer(b) \/ x \in InBuffer(b)' => \E v, i : x = <<v, i>>
BY DEF InBuffer

\* A block enters the buffer of a worker, or leaves it for the controller's hand.
LEMMA BufferAppend ==
  ASSUME buf \in [Workers -> Seq(Buffered)], NEW w \in Workers, NEW r \in Buffered,
         buf' = [buf EXCEPT ![w] = Append(@, r)], NEW b
  PROVE  \A x : x \in InBuffer(b)' <=> \/ x \in InBuffer(b)
                                       \/ x = <<w, Len(buf[w]) + 1>> /\ r.blk = b
<1>1. buf'[w] = Append(buf[w], r) /\ \A v \in Workers : v # w => buf'[v] = buf[v]
  OBVIOUS
<1>2. /\ Len(buf[w]) \in Nat /\ DOMAIN buf[w] = 1..Len(buf[w])
      /\ DOMAIN buf'[w] = 1..(Len(buf[w]) + 1)
      /\ buf'[w][Len(buf[w]) + 1] = r
      /\ \A i \in 1..Len(buf[w]) : buf'[w][i] = buf[w][i]
  <2>1. buf[w] \in Seq(Buffered)
    OBVIOUS
  <2> QED BY <1>1, <2>1
<1>3. /\ \A i : i \in DOMAIN buf'[w] <=> i \in DOMAIN buf[w] \/ i = Len(buf[w]) + 1
      /\ \A i \in DOMAIN buf[w] : buf'[w][i] = buf[w][i]
  BY <1>2
<1> DEFINE n == Len(buf[w]) + 1
<1>4. n \in DOMAIN buf'[w] /\ buf'[w][n] = r
  BY <1>2
<1>5. \A i : i \in DOMAIN buf'[w] <=> i \in DOMAIN buf[w] \/ i = n
  BY <1>3
<1> HIDE DEF n
<1>6. ASSUME NEW v, NEW i
      PROVE  <<v, i>> \in InBuffer(b)' <=> \/ <<v, i>> \in InBuffer(b)
                                           \/ v = w /\ i = n /\ r.blk = b
  <2>1. <<v, i>> \in InBuffer(b)' <=> v \in Workers /\ i \in DOMAIN buf'[v] /\ buf'[v][i].blk = b
    BY BufferPairs
  <2>2. <<v, i>> \in InBuffer(b) <=> v \in Workers /\ i \in DOMAIN buf[v] /\ buf[v][i].blk = b
    BY BufferPairs
  <2>3. CASE v # w
    BY <1>1, <2>1, <2>2, <2>3
  <2>4. CASE v = w /\ i = n
    BY <1>4, <2>1, <2>4, <2>2, <1>3
  <2>5. CASE v = w /\ i # n
    BY <1>3, <1>5, <2>1, <2>2, <2>5
  <2> QED BY <2>3, <2>4, <2>5
<1>7. ASSUME NEW x
      PROVE  x \in InBuffer(b)' <=> \/ x \in InBuffer(b)
                                    \/ x = <<w, n>> /\ r.blk = b
  <2>1. x \in InBuffer(b)' \/ x \in InBuffer(b) => \E v, i : x = <<v, i>>
    BY BufferPairs
  <2> QED BY <1>6, <2>1
<1> QED BY <1>7 DEF n

LEMMA BufferTail ==
  ASSUME buf \in [Workers -> Seq(Buffered)], NEW w \in Workers, buf[w] # <<>>,
         buf' = [buf EXCEPT ![w] = Tail(@)], NEW b
  PROVE  /\ <<w, 1>> \in InBuffer(b) <=> Head(buf[w]).blk = b
         /\ \A v, i : <<v, i>> \in InBuffer(b)' <=>
                        IF v = w THEN i \in Nat \ {0} /\ <<w, i + 1>> \in InBuffer(b)
                        ELSE <<v, i>> \in InBuffer(b)
<1>1. buf'[w] = Tail(buf[w]) /\ \A v \in Workers : v # w => buf'[v] = buf[v]
  OBVIOUS
<1>2. /\ Len(buf[w]) \in Nat \ {0} /\ DOMAIN buf[w] = 1..Len(buf[w])
      /\ Head(buf[w]) = buf[w][1]
      /\ DOMAIN buf'[w] = 1..(Len(buf[w]) - 1)
      /\ \A i \in 1..(Len(buf[w]) - 1) : buf'[w][i] = buf[w][i + 1]
  <2>1. buf[w] \in Seq(Buffered)
    OBVIOUS
  <2> QED BY <1>1, <2>1
<1>3. /\ 1 \in DOMAIN buf[w]
      /\ \A i : i \in DOMAIN buf'[w] <=> i \in Nat \ {0} /\ i + 1 \in DOMAIN buf[w]
      /\ \A i \in DOMAIN buf'[w] : buf'[w][i] = buf[w][i + 1]
  BY <1>2
<1>4. \A v, i : <<v, i>> \in InBuffer(b)' <=>
                  v \in Workers /\ i \in DOMAIN buf'[v] /\ buf'[v][i].blk = b
  BY BufferPairs
<1>5. \A v, i : <<v, i>> \in InBuffer(b) <=>
                  v \in Workers /\ i \in DOMAIN buf[v] /\ buf[v][i].blk = b
  BY BufferPairs
<1>6. <<w, 1>> \in InBuffer(b) <=> Head(buf[w]).blk = b
  BY <1>2, <1>3, <1>5
<1>7. ASSUME NEW i
      PROVE  <<w, i>> \in InBuffer(b)' <=> i \in Nat \ {0} /\ <<w, i + 1>> \in InBuffer(b)
  <2>1. <<w, i>> \in InBuffer(b)' <=> i \in DOMAIN buf'[w] /\ buf'[w][i].blk = b
    BY <1>4
  <2>2. <<w, i + 1>> \in InBuffer(b) <=> i + 1 \in DOMAIN buf[w] /\ buf[w][i + 1].blk = b
    BY <1>5
  <2>3. i \in DOMAIN buf'[w] => buf'[w][i] = buf[w][i + 1]
    BY <1>3
  <2>4. i \in DOMAIN buf'[w] <=> i \in Nat \ {0} /\ i + 1 \in DOMAIN buf[w]
    BY <1>3
  <2> QED BY <2>1, <2>2, <2>3, <2>4
<1>8. ASSUME NEW v, NEW i, v # w
      PROVE  <<v, i>> \in InBuffer(b)' <=> <<v, i>> \in InBuffer(b)
  BY <1>1, <1>4, <1>5, <1>8
<1> QED BY <1>6, <1>7, <1>8

\* A worker hands a block over: from the front of its superblock to its buffer.
LEMMA RecvBlockMoves ==
  ASSUME IInv, NEW w \in Workers, NEW ok \in BOOLEAN, RecvBlock(w, ok), NEW b \in Blocks
  PROVE  /\ UNCHANGED <<saved, lost, result>> /\ ~Ended(w) /\ sb[w].lo \in Blocks
         /\ Queued(b)' = Queued(b) /\ InHand(b)' = InHand(b) /\ Written(b)' = Written(b)
         /\ \A v : v \in Held(b)' <=> v \in Held(b) /\ ~(v = w /\ b = sb[w].lo)
         /\ b = sb[w].lo => w \in Held(b)
         /\ \A x : x \in InBuffer(b)' <=> \/ x \in InBuffer(b)
                                          \/ x = <<w, Len(buf[w]) + 1>> /\ b = sb[w].lo
<1>0. /\ pc[w] = "recv" /\ sb[w] \in Super /\ sb[w] # None /\ SizeOf(sb[w]) > 0
      /\ pc' = [pc EXCEPT ![w] = "pop"]
      /\ sb \in [Workers -> Super \union {None}] /\ pc \in [Workers -> WorkerStates]
      /\ buf \in [Workers -> Seq(Buffered)]
      /\ UNCHANGED <<queue, sb, saved, lost, result, ctl, hand>>
  BY DEF RecvBlock, IInv, HoldInv, HasWork, TypeOK, TaskTypeOK
<1>1. PICK r \in Buffered : r.blk = sb[w].lo /\ buf' = [buf EXCEPT ![w] = Append(@, r)]
  <2>1. PICK p \in Urls \union {NoUrl} :
          buf' = [buf EXCEPT ![w] = Append(@, [blk |-> sb[w].lo, ok |-> ok, prov |-> p])]
    BY DEF RecvBlock
  <2>2. sb[w].lo \in Blocks
    BY <1>0, SizeBounds
  <2>3. [blk |-> sb[w].lo, ok |-> ok, prov |-> p] \in Buffered
    BY <2>2 DEF Buffered
  <2> QED BY <2>1, <2>3
<1>2. Queued(b)' = Queued(b) /\ InHand(b)' = InHand(b) /\ Written(b)' = Written(b)
  BY <1>0, QueuedKept, InHandKept, WrittenKept
<1>3. pc'[w] = "pop" /\ \A v \in Workers : v # w => pc'[v] = pc[v]
  BY <1>0
<1>4. \A v : v \in Held(b)' <=> v \in Held(b) /\ ~(v = w /\ b = sb[w].lo)
  BY <1>0, <1>3 DEF Held, Holders
<1>5. sb[w].lo \in Members(sb[w])
  <2>1. sb[w].lo \in Int /\ sb[w].hi \in Int /\ sb[w].lo <= sb[w].hi
    BY <1>0, SizeBounds DEF Super
  <2> QED BY <2>1 DEF Members
<1>6. b = sb[w].lo => w \in Held(b)
  BY <1>0, <1>5 DEF Held, Holders
<1>7. \A x : x \in InBuffer(b)' <=> \/ x \in InBuffer(b)
                                    \/ x = <<w, Len(buf[w]) + 1>> /\ r.blk = b
  BY <1>0, <1>1, BufferAppend
<1>8. sb[w].lo \in Blocks
  BY <1>0, SizeBounds
<1> QED BY <1>0, <1>1, <1>2, <1>4, <1>6, <1>7, <1>8 DEF Ended

LEMMA RecvBlockSpots ==
  ASSUME IInv, SpotInv, NEW w \in Workers, NEW ok \in BOOLEAN, RecvBlock(w, ok)
  PROVE  SpotInv'
<1>1. ASSUME NEW b \in Blocks PROVE OneSpot(b)'
  <2>1. OneSpot(b)
    BY DEF SpotInv
  <2>2. CASE b = sb[w].lo
    <3>1. /\ Queued(b) = {} /\ Held(b) = {w} /\ InBuffer(b) = {} /\ InHand(b) = {}
          /\ Written(b) = {}
      BY RecvBlockMoves, <2>1, <2>2 DEF OneSpot, OnceIn, NotIn, Once
    <3>2. Held(b)' = {} /\ InBuffer(b)' = {<<w, Len(buf[w]) + 1>>}
      BY RecvBlockMoves, <2>2, <3>1
    <3>3. Queued(b)' = {} /\ InHand(b)' = {} /\ Written(b)' = {}
      BY RecvBlockMoves, <3>1
    <3> QED BY <3>2, <3>3 DEF OneSpot, OnceIn, NotIn, Once
  <2>3. CASE b # sb[w].lo
    <3>1. Held(b)' = Held(b)
      <4>1. \A v : v \in Held(b)' <=> v \in Held(b)
        BY RecvBlockMoves, <2>3
      <4> QED BY <4>1, SameSet
    <3>2. InBuffer(b)' = InBuffer(b)
      <4>1. \A x : x \in InBuffer(b)' <=> x \in InBuffer(b)
        BY RecvBlockMoves, <2>3
      <4> QED BY <4>1, SameSet
    <3> QED BY RecvBlockMoves, <2>1, <3>1, <3>2 DEF OneSpot, OnceIn, NotIn, Once
  <2> QED BY <2>2, <2>3
<1> QED BY <1>1 DEF SpotInv

\* saveBuffers takes the first block of a buffer in its hand.
LEMMA PopBufferSpots ==
  ASSUME IInv, SpotInv, PopBuffer
  PROVE  SpotInv'
<1>0. /\ ctl = "save" /\ at \in Workers /\ buf \in [Workers -> Seq(Buffered)]
      /\ UNCHANGED <<queue, sb, pc, saved, lost>>
  BY DEF PopBuffer, IInv, TypeOK, CtlTypeOK, TaskTypeOK
<1>1. CASE NextBuffer /\ UNCHANGED <<hand, buf>>
  <2>1. ctl' # "check"
    BY <1>1 DEF NextBuffer
  <2> QED BY <1>0, <1>1, <2>1, NoMove
<1>2. CASE /\ buf[at] # <<>>
           /\ hand' = Head(buf[at])
           /\ buf' = [buf EXCEPT ![at] = Tail(@)]
           /\ ctl' = "check"
  <2> SUFFICES ASSUME NEW b \in Blocks PROVE OneSpot(b)'
    BY DEF SpotInv
  <2>1. Queued(b)' = Queued(b) /\ Held(b)' = Held(b) /\ Written(b)' = Written(b)
    BY <1>0, QueuedKept, HeldKept, WrittenKept
  <2>2. InHand(b) = {} /\ InHand(b)' = IF <<at, 1>> \in InBuffer(b) THEN {"check"} ELSE {}
    <3>1. <<at, 1>> \in InBuffer(b) <=> Head(buf[at]).blk = b
      BY <1>0, <1>2, BufferTail
    <3>2. InHand(b) = {}
      BY <1>0 DEF InHand
    <3>3. InHand(b)' = IF Head(buf[at]).blk = b THEN {"check"} ELSE {}
      BY <1>2 DEF InHand
    <3> QED BY <3>1, <3>2, <3>3
  <2>3. \A v, i : <<v, i>> \in InBuffer(b)' <=>
                    IF v = at THEN i \in Nat \ {0} /\ <<at, i + 1>> \in InBuffer(b)
                    ELSE <<v, i>> \in InBuffer(b)
    BY <1>0, <1>2, BufferTail
  <2>4. /\ \A x : x \in InBuffer(b) \/ x \in InBuffer(b)' => \E v, i : x = <<v, i>>
        /\ \A v, i : <<v, i>> \in InBuffer(b) => i \in Nat \ {0}
    <3>1. \A x : x \in InBuffer(b) \/ x \in InBuffer(b)' => \E v, i : x = <<v, i>>
      BY BufferPairs
    <3>2. ASSUME NEW v, NEW i, <<v, i>> \in InBuffer(b) PROVE i \in Nat \ {0}
      <4>1. v \in Workers /\ i \in DOMAIN buf[v]
        BY <3>2, BufferPairs
      <4>2. buf[v] \in Seq(Buffered)
        BY <1>0, <4>1
      <4> QED BY <4>1, <4>2
    <3> QED BY <3>1, <3>2
  <2>5. OneSpot(b)
    BY DEF SpotInv
  <2>6. CASE InBuffer(b) = {}
    <3>1. InBuffer(b)' = {}
      BY <2>3, <2>4, <2>6
    <3>2. InHand(b)' = {}
      BY <2>2, <2>6
    <3> QED BY <2>1, <2>2, <2>5, <2>6, <3>1, <3>2 DEF OneSpot, OnceIn, NotIn, Once
  <2>7. ASSUME NEW x, InBuffer(b) = {x}
        PROVE  OneSpot(b)'
    <3>1. PICK v, i : x = <<v, i>>
      BY <2>4, <2>7
    <3>2. i \in Nat \ {0} /\ \A u, k : <<u, k>> \in InBuffer(b) <=> u = v /\ k = i
      BY <2>4, <2>7, <3>1
    <3>3. Queued(b) = {} /\ Held(b) = {} /\ Written(b) = {}
      BY <2>5, <2>7 DEF OneSpot, OnceIn, NotIn, Once
    <3>4. CASE v = at /\ i = 1
      <4>0. ASSUME NEW u, NEW k PROVE <<u, k>> \notin InBuffer(b)'
        <5>1. u = at /\ k \in Nat \ {0} => <<at, k + 1>> \notin InBuffer(b)
          BY <3>2, <3>4
        <5>2. u # at => <<u, k>> \notin InBuffer(b)
          BY <3>2, <3>4
        <5> QED BY <2>3, <5>1, <5>2
      <4>1. InBuffer(b)' = {}
        BY <2>4, <4>0
      <4>2. InHand(b)' = {"check"}
        BY <2>2, <3>2, <3>4
      <4> QED BY <2>1, <3>3, <4>1, <4>2 DEF OneSpot, OnceIn, NotIn, Once
    <3>5. CASE v = at /\ i # 1
      <4>1. i - 1 \in Nat \ {0}
        BY <3>2, <3>5
      <4>2. ASSUME NEW u, NEW k
            PROVE  <<u, k>> \in InBuffer(b)' <=> u = v /\ k = i - 1
        <5>1. CASE u = at
          <6>1. <<u, k>> \in InBuffer(b)' <=> k \in Nat \ {0} /\ <<at, k + 1>> \in InBuffer(b)
            BY <2>3, <5>1
          <6>2. <<at, k + 1>> \in InBuffer(b) <=> k + 1 = i
            BY <3>2, <3>5
          <6>3. k \in Nat \ {0} /\ k + 1 = i <=> k = i - 1
            BY <3>2, <4>1
          <6> QED BY <3>5, <5>1, <6>1, <6>2, <6>3
        <5>2. CASE u # at
          BY <2>3, <3>2, <3>5, <5>2
        <5> QED BY <5>1, <5>2
      <4>3. InBuffer(b)' = {<<v, i - 1>>}
        BY <2>4, <4>2
      <4>4. InHand(b)' = {}
        BY <2>2, <3>2, <3>5
      <4> QED BY <2>1, <3>3, <4>3, <4>4 DEF OneSpot, OnceIn, NotIn, Once
    <3>6. CASE v # at
      <4>1. \A u, k : <<u, k>> \in InBuffer(b)' <=> u = v /\ k = i
        BY <2>3, <3>2, <3>6
      <4>2. InBuffer(b)' = {<<v, i>>}
        BY <2>4, <4>1
      <4>3. InHand(b)' = {}
        BY <2>2, <3>2, <3>6
      <4> QED BY <2>1, <3>3, <4>2, <4>3 DEF OneSpot, OnceIn, NotIn, Once
    <3> QED BY <3>4, <3>5, <3>6
  <2> QED BY <2>5, <2>6, <2>7 DEF OneSpot, OnceIn, NotIn, Once
<1> QED BY <1>1, <1>2 DEF PopBuffer

\* The block in hand is written, or lost.
LEMMA WriteSpots ==
  ASSUME IInv, SpotInv, WriteBlock \/ WriteFails
  PROVE  SpotInv'
<1>0. /\ ctl = "check" /\ hand \in Buffered /\ ctl' # "check"
      /\ UNCHANGED <<queue, sb, pc, buf>>
      /\ saved' \union lost' = (saved \union lost) \union {hand.blk}
  <2>1. ctl = "check" /\ UNCHANGED <<queue, sb, pc, buf>>
    BY DEF WriteBlock, WriteFails
  <2>2. hand \in Buffered
    BY <2>1 DEF IInv, TypeOK, CtlTypeOK, CtlInv
  <2>3. ctl' # "check"
    BY DEF WriteBlock, WriteFails, SameBuffer, NextBuffer
  <2>4. saved' \union lost' = (saved \union lost) \union {hand.blk}
    BY DEF WriteBlock, WriteFails
  <2> QED BY <2>1, <2>2, <2>3, <2>4
<1> SUFFICES ASSUME NEW b \in Blocks PROVE OneSpot(b)'
  BY DEF SpotInv
<1>1. Queued(b)' = Queued(b) /\ Held(b)' = Held(b) /\ InBuffer(b)' = InBuffer(b)
  BY <1>0, QueuedKept, HeldKept, InBufferKept
<1>2. InHand(b)' = {} /\ InHand(b) = IF hand.blk = b THEN {"check"} ELSE {}
  BY <1>0 DEF InHand
<1>3. Written(b)' = IF hand.blk = b THEN {b} ELSE Written(b)
  BY <1>0 DEF Written
<1>4. OneSpot(b)
  BY DEF SpotInv
<1>5. CASE hand.blk = b
  <2>1. InHand(b) = {"check"} /\ Written(b)' = {b}
    BY <1>2, <1>3, <1>5
  <2>2. Queued(b) = {} /\ Held(b) = {} /\ InBuffer(b) = {}
    BY <1>4, <2>1 DEF OneSpot, OnceIn, NotIn, Once
  <2> QED BY <1>1, <1>2, <2>1, <2>2 DEF OneSpot, OnceIn, NotIn, Once
<1>6. CASE hand.blk # b
  <2>1. InHand(b)' = InHand(b) /\ Written(b)' = Written(b)
    BY <1>2, <1>3, <1>6
  <2> QED BY <1>1, <1>4, <2>1 DEF OneSpot, OnceIn, NotIn, Once
<1> QED BY <1>5, <1>6

\* A block whose crc is wrong becomes a superblock of its own.
LEMMA RequeueSpots ==
  ASSUME IInv, SpotInv, Requeue
  PROVE  SpotInv'
<1>0. /\ ctl = "check" /\ hand \in Buffered /\ ctl' # "check"
      /\ UNCHANGED <<sb, pc, buf, saved, lost>>
      /\ queue \in Seq(Super)
      /\ queue' = Append(queue, [lo |-> hand.blk, hi |-> hand.blk])
  <2>1. ctl = "check" /\ ctl' # "check" /\ UNCHANGED <<sb, pc, buf, saved, lost>>
    BY DEF Requeue
  <2>2. hand \in Buffered /\ queue \in Seq(Super)
    BY <2>1 DEF IInv, TypeOK, CtlTypeOK, CtlInv, WorkTypeOK
  <2> QED BY <2>1, <2>2 DEF Requeue
<1>1. hand.blk \in Blocks
  BY <1>0 DEF Buffered
<1>2. [lo |-> hand.blk, hi |-> hand.blk] \in Super
  BY <1>1 DEF Super
<1> SUFFICES ASSUME NEW b \in Blocks PROVE OneSpot(b)'
  BY DEF SpotInv
<1>3. Written(b)' = Written(b) /\ Held(b)' = Held(b) /\ InBuffer(b)' = InBuffer(b)
  BY <1>0, WrittenKept, HeldKept, InBufferKept
<1>4. InHand(b)' = {} /\ InHand(b) = IF hand.blk = b THEN {"check"} ELSE {}
  BY <1>0 DEF InHand
<1>5. b \in Members([lo |-> hand.blk, hi |-> hand.blk]) <=> hand.blk = b
  BY <1>1 DEF Members
<1>6. \A i : i \in Queued(b)' <=> \/ i \in Queued(b)
                                  \/ i = Len(queue) + 1 /\ hand.blk = b
  BY <1>0, <1>2, <1>5, QueueAppend
<1>7. OneSpot(b)
  BY DEF SpotInv
<1>8. CASE hand.blk = b
  <2>1. InHand(b) = {"check"}
    BY <1>4, <1>8
  <2>2. Queued(b) = {} /\ Held(b) = {} /\ InBuffer(b) = {} /\ Written(b) = {}
    BY <1>7, <2>1 DEF OneSpot, OnceIn, NotIn, Once
  <2>3. Queued(b)' = {Len(queue) + 1}
    BY <1>6, <1>8, <2>2
  <2> QED BY <1>3, <1>4, <2>2, <2>3 DEF OneSpot, OnceIn, NotIn, Once
<1>9. CASE hand.blk # b
  <2>1. InHand(b)' = InHand(b)
    BY <1>4, <1>9
  <2>2. Queued(b)' = Queued(b)
    BY <1>6, <1>9, SameSet
  <2> QED BY <1>3, <1>7, <2>1, <2>2 DEF OneSpot, OnceIn, NotIn, Once
<1> QED BY <1>8, <1>9

\* The other steps of the controller, the user and the environment.
LEMMA OtherSpots ==
  ASSUME IInv, SpotInv,
         \/ CreateWorker \/ CtlLoop \/ CtlWait \/ SpuriousWakeup \/ Blame \/ Tell \/ Scan
         \/ CheckRunning \/ CheckAgents \/ CtlDies \/ StopWorker \/ JoinWorker \/ Finish
         \/ Pause \/ Unpause \/ Stop \/ OnStopWorker \/ OnStopJoin \/ Environment
         \/ UNCHANGED vars
  PROVE  SpotInv'
<1>1. CASE CreateWorker
  <2>1. UNCHANGED <<queue, sb, buf, saved, lost, hand>> /\ Goto(at, "start")
        /\ ctl # "check" /\ ctl' # "check"
    BY <1>1 DEF CreateWorker
  <2>2. pc[at] # "pop" /\ at \in Workers
    BY <1>1 DEF CreateWorker, IInv, CtlInv, TypeOK, CtlTypeOK
  <2>3. \A w \in Workers : pc'[w] = "pop" <=> pc[w] = "pop"
    BY <2>1, <2>2 DEF IInv, TypeOK
  <2> QED BY <2>1, <2>3, NoMove
<1>2. CASE CtlLoop \/ CtlWait \/ SpuriousWakeup \/ Blame \/ Tell \/ Scan
  <2>1. UNCHANGED <<queue, sb, buf, pc, saved, lost>>
    BY <1>2 DEF CtlLoop, CtlWait, SpuriousWakeup, Blame, Tell, Scan
  <2>2. ctl # "check" /\ ctl' # "check"
    BY <1>2 DEF CtlLoop, CtlWait, SpuriousWakeup, Blame, Tell, Scan, SameBuffer, NextBuffer
  <2> QED BY <2>1, <2>2, NoMove
<1>3. CASE CheckRunning \/ CheckAgents \/ CtlDies \/ StopWorker \/ JoinWorker \/ Finish
  <2>1. UNCHANGED <<queue, sb, buf, pc, saved, lost>>
    BY <1>3 DEF CheckRunning, CheckAgents, CtlDies, StopWorker, JoinWorker, Finish
  <2>2. ctl # "check" /\ ctl' # "check"
    BY <1>3 DEF CheckRunning, CheckAgents, CtlDies, StopWorker, JoinWorker, Finish
  <2> QED BY <2>1, <2>2, NoMove
<1>4. CASE \/ Pause \/ Unpause \/ Stop \/ OnStopWorker \/ OnStopJoin \/ Environment
           \/ UNCHANGED vars
  <2>1. UNCHANGED <<queue, sb, buf, pc, saved, lost, hand>>
    BY <1>4 DEF Pause, Unpause, Stop, OnStopWorker, OnStopJoin, Environment
  <2>2. UNCHANGED ctl \/ (ctl = "waiting" /\ ctl' = "save")
    BY <1>4 DEF Pause, Unpause, Stop, OnStopWorker, OnStopJoin, Environment, WakeController
  <2> QED BY <2>1, <2>2, NoMove
<1> QED BY <1>1, <1>2, <1>3, <1>4

----------------------------------------------------------------------------
\* The initial cut has every block in one superblock.

LEMMA LeastNumber ==
  ASSUME NEW T \in SUBSET Nat, T # {}
  PROVE  \E m \in T : \A x \in T : m <= x
<1>1. PICK m \in T : \A x \in T : <<x, m>> \notin OpToRel(<, Nat)
  BY NatLessThanWellFounded, WFMin, Zenon
<1>2. ASSUME NEW x \in T PROVE m <= x
  <2>1. x \in Nat /\ m \in Nat
    OBVIOUS
  <2>2. ~(x < m)
    BY <1>1, <2>1, Zenon DEF OpToRel
  <2> QED BY <2>1, <2>2
<1> QED BY <1>2

LEMMA CutIsComplete ==
  ASSUME NEW k \in Nat \ {0}, NEW q \in [1..k -> Super],
         q[1].lo = 1, q[k].hi = NumBlocks,
         \A i \in 1..k : q[i].lo <= q[i].hi,
         \A i \in 1..(k - 1) : q[i + 1].lo = q[i].hi + 1,
         NEW b \in Blocks
  PROVE  \E i \in 1..k : b \in Members(q[i])
<1> DEFINE T == {i \in 1..k : b <= q[i].hi}
<1>1. k \in T
  OBVIOUS
<1> T \in SUBSET Nat
  OBVIOUS
<1>2. PICK m \in T : \A x \in T : m <= x
  <2> HIDE DEF T
  <2> QED BY <1>1, LeastNumber
<1>3. m \in 1..k /\ b <= q[m].hi /\ q[m] \in Super
  OBVIOUS
<1>4. q[m].lo <= b
  <2>1. CASE m = 1
    BY <2>1
  <2>2. CASE m # 1
    <3>1. m - 1 \in 1..(k - 1) /\ m - 1 \in 1..k /\ m - 1 < m /\ (m - 1) + 1 = m
      BY <1>3, <2>2
    <3>2. m - 1 \notin T
      BY <1>2, <3>1
    <3>3. q[m].lo = q[m - 1].hi + 1
      BY <3>1
    <3>4. q[m - 1].hi \in Int /\ ~(b <= q[m - 1].hi)
      BY <3>1, <3>2 DEF Super
    <3> QED BY <3>3, <3>4
  <2> QED BY <2>1, <2>2
<1> QED BY <1>3, <1>4 DEF Members, Super

LEMMA CutIsDisjoint ==
  ASSUME NEW k \in Nat \ {0}, NEW q \in [1..k -> Super],
         \A i \in 1..k : q[i].lo <= q[i].hi,
         \A i \in 1..(k - 1) : q[i + 1].lo = q[i].hi + 1,
         NEW i \in 1..k, NEW j \in 1..k, i < j
  PROVE  q[i].hi < q[j].lo
<1> DEFINE T == {x \in 1..k : i < x /\ ~(q[i].hi < q[x].lo)}
<1>0. \A x \in 1..k : q[x].lo \in Int /\ q[x].hi \in Int
  BY DEF Super
<1> SUFFICES ASSUME j \in T PROVE FALSE
  OBVIOUS
<1> T \in SUBSET Nat
  OBVIOUS
<1>1. PICK m \in T : \A x \in T : m <= x
  <2> HIDE DEF T
  <2> QED BY LeastNumber
<1>2. m \in 1..k /\ i < m /\ ~(q[i].hi < q[m].lo)
  OBVIOUS
<1>3. m - 1 \in 1..(k - 1) /\ m - 1 \in 1..k /\ (m - 1) + 1 = m
  BY <1>2
<1>4. q[m].lo = q[m - 1].hi + 1 /\ q[m - 1].lo <= q[m - 1].hi
  BY <1>3
<1>5. CASE m - 1 = i
  BY <1>0, <1>2, <1>4, <1>5
<1>6. CASE m - 1 # i
  <2>1. m - 1 \notin T
    BY <1>1, <1>2, <1>3
  <2>2. q[i].hi < q[m - 1].lo
    BY <1>2, <1>3, <1>6, <2>1
  <2> QED BY <1>0, <1>2, <1>3, <1>4, <2>2
<1> QED BY <1>5, <1>6

LEMMA InitSpots == Init => SpotInv
<1> SUFFICES ASSUME Init, NEW b \in Blocks PROVE OneSpot(b)
  BY DEF SpotInv
<1>1. PICK k \in Blocks : /\ queue \in [1..k -> Super]
                          /\ queue[1].lo = 1
                          /\ queue[k].hi = NumBlocks
                          /\ \A i \in 1..k : queue[i].lo <= queue[i].hi
                          /\ \A i \in 1..(k - 1) : queue[i + 1].lo = queue[i].hi + 1
  <2>1. PICK k \in Blocks :
          queue \in {q \in [1..k -> Super] : /\ q[1].lo = 1
                                             /\ q[k].hi = NumBlocks
                                             /\ \A i \in 1..k : q[i].lo <= q[i].hi
                                             /\ \A i \in 1..(k - 1) : q[i + 1].lo = q[i].hi + 1}
    BY DEF Init, SuperBlockLists
  <2> QED BY <2>1
<1>2. k \in Nat \ {0} /\ DOMAIN queue = 1..k
  BY <1>1
<1>3. PICK i \in 1..k : b \in Members(queue[i])
  BY <1>1, <1>2, CutIsComplete
<1>4. ASSUME NEW j \in 1..k, b \in Members(queue[j]) PROVE j = i
  <2>1. /\ \A x, y \in 1..k : x < y => queue[x].hi < queue[y].lo
        /\ \A x \in 1..k : queue[x].lo \in Int /\ queue[x].hi \in Int
    <3>1. \A x, y \in 1..k : x < y => queue[x].hi < queue[y].lo
      BY <1>1, <1>2, CutIsDisjoint
    <3> QED BY <1>1, <3>1 DEF Super
  <2>2. /\ queue[i].lo <= b /\ b <= queue[i].hi /\ queue[j].lo <= b /\ b <= queue[j].hi
        /\ i \in Int /\ j \in Int /\ b \in Int
    BY <1>3, <1>4, <2>1 DEF Members
  <2> QED BY <2>1, <2>2
<1>5. Queued(b) = {i}
  BY <1>2, <1>3, <1>4 DEF Queued
<1>6. Held(b) = {}
  BY DEF Init, Held, Holders
<1>7. InBuffer(b) = {}
  <2>1. ASSUME NEW w \in Workers, NEW j \in DOMAIN buf[w] PROVE FALSE
    BY <2>1 DEF Init
  <2> QED BY <2>1 DEF InBuffer
<1>8. InHand(b) = {} /\ Written(b) = {}
  BY DEF Init, InHand, Written
<1> QED BY <1>5, <1>6, <1>7, <1>8 DEF OneSpot, OnceIn, NotIn, Once

----------------------------------------------------------------------------
\* The steps of all threads, sorted by what they do to a block.

WorkerFault(w) ==
  \/ RecvBlock(w, FALSE)
  \/ NetError(w, "retry") \/ NetError(w, "newurl") \/ PartialFile(w)
  \/ RenewThrows(w) \/ Dies(w)

\* A step of worker w; one that is neither a hand-over nor a cut of superblocks.
Hands(w) == RecvBlock(w, TRUE) \/ RecvBlock(w, FALSE)
Works(w) == Worker(w) \/ WorkerFault(w)

Judges == WriteBlock \/ WriteFails \/ Requeue

Others ==
  \/ CreateWorker \/ CtlLoop \/ CtlWait \/ SpuriousWakeup \/ Blame \/ Tell \/ Scan
  \/ CheckRunning \/ CheckAgents \/ CtlDies \/ StopWorker \/ JoinWorker \/ Finish
  \/ Pause \/ Unpause \/ Stop \/ OnStopWorker \/ OnStopJoin \/ Environment
  \/ UNCHANGED vars

LEMMA StepKinds ==
  [Next]_vars => (\E w \in Workers : Works(w)) \/ PopBuffer \/ Judges \/ Others
BY DEF Next, Controller, User, Fault, WorkerFault, Works, Judges, Others

LEMMA SpotsWork ==
  ASSUME IInv, SpotInv, NEW w \in Workers, Works(w)
  PROVE  SpotInv'
BY LookingWorker, RenewUrlKeeps, TakeQueuedSpots, GiveSpots, CutSpots, PopFrontSpots,
   RecvBlockSpots DEF Works, Worker, WorkerFault

LEMMA NextSpots ==
  ASSUME IInv, SpotInv, [Next]_vars
  PROVE  SpotInv'
<1>1. CASE Judges
  BY <1>1, WriteSpots, RequeueSpots DEF Judges
<1>2. CASE Others
  BY <1>2, OtherSpots DEF Others
<1>3. CASE PopBuffer
  BY <1>3, PopBufferSpots
<1> QED BY <1>1, <1>2, <1>3, SpotsWork, StepKinds

LEMMA SpotInvariance == Spec => []SpotInv
<1>1. IInv /\ SpotInv /\ [Next]_vars => SpotInv'
  BY NextSpots
<1> QED BY InitSpots, <1>1, Invariance, PTL DEF Spec

\* No block is lost, and none is in two places: two superblocks, a superblock and
\* a buffer, or a buffer and the file, whatever is stolen, retried, refused, cut
\* past its end or fails its crc (newTask, splitCurrentBlock, workerFinishedBlock,
\* workerFinishedSuperBlock, checkBlock).
THEOREM NoneLostOrDoubled == Spec => []BlockInOnePlace
BY SpotInvariance, OneSpotCounts, PTL

----------------------------------------------------------------------------
\* The end of run(): a worker that has ended stays so.

LEMMA WorksAlone ==
  ASSUME NEW w \in Workers, Works(w)
  PROVE  /\ UNCHANGED <<ctlVars, fileVars>> /\ ~Ended(w)
         /\ UNCHANGED pc \/ \E l : Goto(w, l)
<1>1. CASE \/ Start(w) \/ LoopHead(w) \/ Awake(w) \/ ErrCheck(w) \/ Leave(w)
           \/ TakeQueued(w) \/ LookForVictim(w) \/ Split(w) \/ Assign(w)
  BY <1>1 DEF Start, LoopHead, Awake, ErrCheck, Leave, TakeQueued, LookForVictim, Split, Assign,
     Ended
<1>2. CASE Cut(w) \/ Connect(w) \/ RenewUrl(w) \/ Hands(w) \/ PopFront(w) \/ RefuseData(w)
  BY <1>2 DEF Cut, Connect, RenewUrl, Hands, RecvBlock, PopFront, RefuseData, Ended
<1>3. CASE \/ Refused(w) \/ RangeDone(w) \/ Reset(w) \/ Give(w) \/ RmAgent(w)
           \/ GetNewUrl(w) \/ Report(w)
  BY <1>3 DEF Refused, RangeDone, Reset, Give, RmAgent, GetNewUrl, Report, Fails, RangeEnds, Ended
<1>4. CASE \/ NetError(w, "retry") \/ NetError(w, "newurl") \/ PartialFile(w)
           \/ RenewThrows(w) \/ Dies(w)
  BY <1>4 DEF NetError, PartialFile, RenewThrows, Dies, Fails, RangeEnds, Ended
<1> QED BY <1>1, <1>2, <1>3, <1>4 DEF Works, Worker, WorkerFault, Hands

LEMMA EndWork ==
  ASSUME IInv, EndInv, NEW w \in Workers, Works(w)
  PROVE  EndInv'
<1>1. /\ UNCHANGED <<ctl, at, result>> /\ ~Ended(w)
      /\ \A v \in Workers : v # w => pc'[v] = pc[v]
  BY WorksAlone DEF IInv, TypeOK
<1>2. \A v \in Workers : Ended(v) => Ended(v)'
  BY <1>1 DEF Ended
<1> QED BY <1>1, <1>2 DEF EndInv

\* The controller's turns of its loop, and back to its start.
LEMMA EndControl ==
  ASSUME IInv, EndInv, PopBuffer \/ Judges \/ Others
  PROVE  EndInv'
<1>1. at \in Workers /\ \A w \in Workers : w <= NumWorkers
  BY DEF IInv, TypeOK, CtlTypeOK
<1>2. CASE CreateWorker
  <2>1. ctl = "create" /\ UNCHANGED result
    BY <1>2 DEF CreateWorker
  <2>2. ctl' = "create" \/ (ctl' = "loop" /\ at' = 1)
    BY <1>2 DEF CreateWorker
  <2> QED BY <2>1, <2>2 DEF EndInv
<1>3. CASE PopBuffer \/ Judges \/ Blame \/ Tell
  <2>1. /\ UNCHANGED <<pc, result>> /\ result = "none"
        /\ \/ ctl' \in {"save", "check", "blame", "tell", "scan"}
           \/ ctl' = "stop" /\ at' = 1
    BY <1>3 DEF PopBuffer, Judges, WriteBlock, WriteFails, Requeue, Blame, Tell, SameBuffer,
       NextBuffer, EndInv
  <2> QED BY <1>1, <2>1 DEF EndInv
<1>4. CASE CtlLoop \/ CtlWait \/ SpuriousWakeup \/ Scan \/ CheckRunning \/ CheckAgents \/ CtlDies
  <2>1. UNCHANGED <<pc, result>> /\ ctl # "end"
    BY <1>4 DEF CtlLoop, CtlWait, SpuriousWakeup, Scan, CheckRunning, CheckAgents, CtlDies
  <2>2. \/ ctl' \in {"loop", "dopause", "waiting", "running", "agents", "stop"} /\ at' = 1
        \/ ctl' \in {"save", "scan", "died"}
    BY <1>4 DEF CtlLoop, CtlWait, SpuriousWakeup, Scan, CheckRunning, CheckAgents, CtlDies, EndInv
  <2> QED BY <1>1, <2>1, <2>2 DEF EndInv
<1>5. CASE StopWorker
  BY <1>5 DEF StopWorker, EndInv, Ended
<1>6. CASE JoinWorker
  <2>1. /\ UNCHANGED <<pc, result>> /\ ctl = "join" /\ Ended(at)
        /\ \/ at < NumWorkers /\ at' = at + 1 /\ ctl' = "stop"
           \/ at >= NumWorkers /\ ctl' = "final"
    BY <1>1, <1>6 DEF JoinWorker
  <2>2. \A w \in Workers : w <= at => Ended(w)
    BY <1>1, <2>1 DEF EndInv
  <2>3. \A w \in Workers : Ended(w) => Ended(w)'
    BY <2>1 DEF Ended
  <2> QED BY <1>1, <2>1, <2>2, <2>3 DEF EndInv
<1>7. CASE Finish
  BY <1>7 DEF Finish, EndInv, Ended
<1>8. CASE \/ Pause \/ Unpause \/ Stop \/ OnStopWorker \/ OnStopJoin \/ Environment
           \/ UNCHANGED vars
  <2>1. UNCHANGED <<pc, result, at>>
    BY <1>8 DEF Pause, Unpause, Stop, OnStopWorker, OnStopJoin, Environment
  <2>2. UNCHANGED ctl \/ (ctl = "waiting" /\ ctl' = "save")
    BY <1>8 DEF Pause, Unpause, Stop, OnStopWorker, OnStopJoin, Environment, WakeController
  <2> QED BY <2>1, <2>2 DEF EndInv, Ended
<1> QED BY <1>2, <1>3, <1>4, <1>5, <1>6, <1>7, <1>8 DEF Others

LEMMA InitEnd == Init => EndInv
BY DEF Init, EndInv

LEMMA EndInvariance == Spec => []EndInv
<1>1. IInv /\ EndInv /\ [Next]_vars => EndInv'
  BY EndWork, EndControl, StepKinds
<1> QED BY InitEnd, <1>1, Invariance, PTL DEF Spec

----------------------------------------------------------------------------
\* The engine implements the abstract download.

Delivered(b) == InBuffer(b) # {} \/ InHand(b) # {}

LEMMA StateOf ==
  ASSUME NEW b
  PROVE  /\ BlockState(b) = IF b \in saved THEN "saved"
                            ELSE IF b \in lost THEN "lost"
                            ELSE IF Delivered(b) THEN "fetched" ELSE "todo"
         /\ BlockState(b)' = IF b \in saved' THEN "saved"
                             ELSE IF b \in lost' THEN "lost"
                             ELSE IF Delivered(b)' THEN "fetched" ELSE "todo"
<1> DEFINE Meant == \/ ctl = "check" /\ hand.blk = b
                    \/ \E w \in Workers : \E i \in DOMAIN buf[w] : buf[w][i].blk = b
<1>1. Meant <=> Delivered(b)
  <2>1. InHand(b) # {} <=> ctl = "check" /\ hand.blk = b
    BY DEF InHand
  <2>2. InBuffer(b) # {} <=> \E w \in Workers : \E i \in DOMAIN buf[w] : buf[w][i].blk = b
    <3>1. \A x \in InBuffer(b) : \E v, i : x = <<v, i>>
      BY BufferPairs
    <3>2. \A v, i : <<v, i>> \in InBuffer(b) <=>
                      v \in Workers /\ i \in DOMAIN buf[v] /\ buf[v][i].blk = b
      BY BufferPairs
    <3>3. ASSUME InBuffer(b) # {}
          PROVE  \E w \in Workers : \E i \in DOMAIN buf[w] : buf[w][i].blk = b
      <4>1. PICK x \in InBuffer(b) : TRUE
        BY <3>3
      <4>2. PICK v, i : x = <<v, i>>
        BY <3>1
      <4>3. <<v, i>> \in InBuffer(b)
        BY <4>1, <4>2
      <4> QED BY <3>2, <4>3
    <3>4. ASSUME NEW w \in Workers, NEW i \in DOMAIN buf[w], buf[w][i].blk = b
          PROVE  InBuffer(b) # {}
      <4>1. <<w, i>> \in InBuffer(b)
        BY <3>2, <3>4
      <4> QED BY <4>1
    <3> QED BY <3>3, <3>4
  <2> QED BY <2>1, <2>2 DEF Delivered
<1>2. Meant' <=> Delivered(b)'
  <2>1. InHand(b)' # {} <=> ctl' = "check" /\ hand'.blk = b
    BY DEF InHand
  <2>2. InBuffer(b)' # {} <=> \E w \in Workers : \E i \in DOMAIN buf'[w] : buf'[w][i].blk = b
    <3>1. \A x \in InBuffer(b)' : \E v, i : x = <<v, i>>
      BY BufferPairs
    <3>2. \A v, i : <<v, i>> \in InBuffer(b)' <=>
                      v \in Workers /\ i \in DOMAIN buf'[v] /\ buf'[v][i].blk = b
      BY BufferPairs
    <3>3. ASSUME InBuffer(b)' # {}
          PROVE  \E w \in Workers : \E i \in DOMAIN buf'[w] : buf'[w][i].blk = b
      <4>1. PICK x \in InBuffer(b)' : TRUE
        BY <3>3
      <4>2. PICK v, i : x = <<v, i>>
        BY <3>1
      <4>3. <<v, i>> \in InBuffer(b)'
        BY <4>1, <4>2
      <4> QED BY <3>2, <4>3
    <3>4. ASSUME NEW w \in Workers, NEW i \in DOMAIN buf'[w], buf'[w][i].blk = b
          PROVE  InBuffer(b)' # {}
      <4>1. <<w, i>> \in InBuffer(b)'
        BY <3>2, <3>4
      <4> QED BY <4>1
    <3> QED BY <3>3, <3>4
  <2> QED BY <2>1, <2>2 DEF Delivered
<1> QED BY <1>1, <1>2 DEF BlockState

\* In one place only, a block is fetched when it is in no other kind of place.
LEMMA FetchedIs ==
  ASSUME NEW b
  PROVE  /\ OneSpot(b) => (Delivered(b) <=> NotIn(Queued(b), Held(b)) /\ Written(b) = {})
         /\ OneSpot(b)' => (Delivered(b)' <=> NotIn(Queued(b), Held(b))' /\ Written(b)' = {})
BY DEF OneSpot, OnceIn, NotIn, Once, Delivered

\* A step of the engine that is one of the download, or none.
BlocksSame == \A b \in Blocks : BlockState(b)' = BlockState(b)

LEMMA NoBlockMoves ==
  ASSUME UNCHANGED <<saved, lost>>, \A b \in Blocks : Delivered(b)' <=> Delivered(b)
  PROVE  BlocksSame
BY StateOf DEF BlocksSame

LEMMA OneBlockMoves ==
  ASSUME NEW b \in Blocks, <<BlockState(b), BlockState(b)'>> \in Abstract!Moves,
         \A x \in Blocks : x # b => BlockState(x)' = BlockState(x),
         result = "none", UNCHANGED result
  PROVE  Abstract!Next
<1> DEFINE block == [x \in Blocks |-> BlockState(x)]
           after == [x \in Blocks |-> BlockState(x)']
<1>1. block[b] = BlockState(b) /\ after[b] = BlockState(b)'
  OBVIOUS
<1>2. BlockState(b)' # BlockState(b)
  BY DEF Abstract!Moves
<1>3. after # block
  BY <1>1, <1>2
<1>4. after = [block EXCEPT ![b] = after[b]]
  OBVIOUS
<1>5. <<block[b], after[b]>> \in Abstract!Moves
  BY <1>1
<1>6. block' = after
  OBVIOUS
<1> HIDE DEF block, after
<1>7. /\ block' # block /\ block' = [block EXCEPT ![b] = block'[b]]
      /\ <<block[b], block'[b]>> \in Abstract!Moves
  BY <1>3, <1>4, <1>5, <1>6
<1>8. Abstract!Move
  BY <1>7 DEF Abstract!Move, block
<1> QED BY <1>8 DEF Abstract!Next

\* A worker hands a block over: it is fetched.
LEMMA HandsRefines ==
  ASSUME IInv, SpotInv, EndInv, NEW w \in Workers, NEW ok \in BOOLEAN, RecvBlock(w, ok)
  PROVE  Abstract!Next
<1>0. PICK b \in Blocks : b = sb[w].lo
  <2>1. 1 \in Blocks
    OBVIOUS
  <2> QED BY <2>1, RecvBlockMoves
<1>1. /\ UNCHANGED <<saved, lost, result>> /\ ~Ended(w)
      /\ \A x \in Blocks : x # b => Delivered(x)' = Delivered(x)
      /\ w \in Held(b) /\ Delivered(b)'
  <2>1. UNCHANGED <<saved, lost, result>> /\ ~Ended(w)
    BY RecvBlockMoves
  <2>2. ASSUME NEW x \in Blocks, x # b PROVE Delivered(x)' = Delivered(x)
    <3>1. \A y : y \in InBuffer(x)' <=> y \in InBuffer(x)
      BY <1>0, <2>2, RecvBlockMoves
    <3>2. InHand(x)' = InHand(x)
      BY RecvBlockMoves
    <3> QED BY <3>1, <3>2, SameSet DEF Delivered
  <2>3. w \in Held(b) /\ InBuffer(b)' # {}
    BY <1>0, RecvBlockMoves
  <2> QED BY <2>1, <2>2, <2>3 DEF Delivered
<1>2. result = "none"
  BY <1>1 DEF EndInv
<1>3. b \notin saved /\ b \notin lost /\ ~Delivered(b)
  <2>1. OneSpot(b)
    BY <1>1 DEF SpotInv
  <2>2. Written(b) = {} /\ ~Delivered(b)
    BY <1>1, <2>1 DEF OneSpot, OnceIn, NotIn, Once, Delivered
  <2> QED BY <1>1, <2>2 DEF Written
<1>4. BlockState(b) = "todo" /\ BlockState(b)' = "fetched"
  BY <1>1, <1>3, StateOf
<1>5. \A x \in Blocks : x # b => BlockState(x)' = BlockState(x)
  BY <1>1, StateOf
<1>6. <<BlockState(b), BlockState(b)'>> \in Abstract!Moves
  BY <1>4 DEF Abstract!Moves
<1> QED BY <1>1, <1>2, <1>5, <1>6, OneBlockMoves

\* The controller judges a block: it is written, lost, or to be fetched again.
LEMMA JudgesRefines ==
  ASSUME IInv, SpotInv, EndInv, SpotInv', Judges
  PROVE  Abstract!Next
<1>0. PICK b \in Blocks : b = hand.blk
  <2>1. hand \in Buffered
    BY DEF Judges, WriteBlock, WriteFails, Requeue, IInv, TypeOK, CtlTypeOK, CtlInv
  <2> QED BY <2>1 DEF Buffered
<1>1. /\ ctl = "check" /\ ctl' # "check" /\ UNCHANGED <<buf, result>>
      /\ \/ saved' = saved \union {b} /\ UNCHANGED lost
         \/ lost' = lost \union {b} /\ UNCHANGED saved
         \/ UNCHANGED <<saved, lost>>
  <2>1. ctl = "check" /\ ctl' # "check" /\ UNCHANGED <<buf, result>>
    BY DEF Judges, WriteBlock, WriteFails, Requeue, SameBuffer, NextBuffer
  <2>2. \/ saved' = saved \union {b} /\ UNCHANGED lost
        \/ lost' = lost \union {b} /\ UNCHANGED saved
        \/ UNCHANGED <<saved, lost>>
    BY <1>0 DEF Judges, WriteBlock, WriteFails, Requeue
  <2> QED BY <2>1, <2>2
<1>2. result = "none"
  BY <1>1 DEF EndInv
<1>3. \A x \in Blocks : /\ InHand(x)' = {} /\ InBuffer(x)' = InBuffer(x)
                        /\ InHand(x) = IF x = b THEN {"check"} ELSE {}
  <2>1. \A x \in Blocks : InBuffer(x)' = InBuffer(x)
    BY <1>1, InBufferKept
  <2> QED BY <1>0, <1>1, <2>1 DEF InHand
<1>4. /\ b \notin saved /\ b \notin lost /\ InBuffer(b) = {} /\ Delivered(b) /\ ~Delivered(b)'
  <2>1. OneSpot(b) /\ InHand(b) = {"check"}
    BY <1>1, <1>3 DEF SpotInv
  <2>2. Written(b) = {} /\ InBuffer(b) = {}
    BY <2>1 DEF OneSpot, OnceIn, NotIn, Once
  <2> QED BY <1>1, <1>3, <2>1, <2>2 DEF Written, Delivered
<1>5. \A x \in Blocks : x # b => (Delivered(x)' <=> Delivered(x))
  BY <1>3 DEF Delivered
<1>6. BlockState(b) = "fetched" /\ BlockState(b)' \in {"saved", "lost", "todo"}
  BY <1>1, <1>4, StateOf
<1>7. \A x \in Blocks : x # b => BlockState(x)' = BlockState(x)
  BY <1>1, <1>5, StateOf
<1>8. <<BlockState(b), BlockState(b)'>> \in Abstract!Moves
  BY <1>6 DEF Abstract!Moves
<1> QED BY <1>1, <1>2, <1>7, <1>8, OneBlockMoves

\* The verdict.  Without available work no superblock is left, so that no block is
\* to be fetched.
LEMMA FinishRefines ==
  ASSUME IInv, SpotInv, EndInv, SpotInv', Finish
  PROVE  Abstract!Next
<1>1. /\ UNCHANGED <<saved, lost, buf, hand>> /\ ctl = "final" /\ ctl' = "end"
      /\ result' \in {"complete", "failed", "stopped"}
      /\ result' = "complete" => avail = 0
  BY DEF Finish
<1>2. result = "none"
  BY <1>1 DEF EndInv
<1>3. BlocksSame
  <2>1. \A b \in Blocks : InBuffer(b)' = InBuffer(b) /\ InHand(b)' = InHand(b)
    BY <1>1, InBufferKept, InHandKept
  <2>2. \A b \in Blocks : Delivered(b)' <=> Delivered(b)
    BY <2>1 DEF Delivered
  <2> QED BY <1>1, <2>2, NoBlockMoves
<1>4. ASSUME avail = 0, NEW b \in Blocks PROVE BlockState(b) # "todo"
  <2>1. Len(queue) = 0 /\ Cardinality(Holders) = 0 /\ queue \in Seq(Super)
    <3>1. Len(queue) \in Nat /\ Cardinality(Holders) \in Nat /\ queue \in Seq(Super)
      BY WorkersFinite DEF Holders, IInv, TypeOK, WorkTypeOK
    <3> QED BY <1>4, <3>1 DEF IInv, WorkAccounted
  <2>2. Queued(b) = {}
    BY <2>1 DEF Queued
  <2>3. Holders = {}
    <3>1. IsFiniteSet(Holders)
      BY WorkersFinite DEF Holders
    <3> QED BY <2>1, <3>1, FS_EmptySet
  <2>4. Held(b) = {}
    BY <2>3 DEF Held
  <2>5. Written(b) # {} \/ Delivered(b)
    BY <2>2, <2>4, FetchedIs DEF SpotInv, NotIn
  <2>6. Written(b) # {} => b \in saved \/ b \in lost
    BY DEF Written
  <2> QED BY <2>5, <2>6, StateOf
<1>5. [b \in Blocks |-> BlockState(b)]' = [b \in Blocks |-> BlockState(b)]
  BY <1>3 DEF BlocksSame
<1>6. result' = "complete" => \A b \in Blocks : [x \in Blocks |-> BlockState(x)][b] # "todo"
  BY <1>1, <1>4
<1>7. Abstract!End(result')
  BY <1>2, <1>5, <1>6 DEF Abstract!End
<1> QED BY <1>1, <1>7 DEF Abstract!Next

\* No other step is one of the download.
LEMMA RestStutters ==
  ASSUME IInv, SpotInv, SpotInv',
         \/ \E w \in Workers : Works(w) /\ ~Hands(w)
         \/ PopBuffer
         \/ Others /\ ~Finish
  PROVE  UNCHANGED result /\ BlocksSame
<1>1. CASE \E w \in Workers : Works(w) /\ ~Hands(w)
  <2>1. PICK w \in Workers : Works(w) /\ ~Hands(w)
    BY <1>1
  <2>2. UNCHANGED <<saved, lost, result, ctl, hand>>
    BY <2>1, WorksAlone
  <2>3. UNCHANGED buf
    <3>1. CASE \/ Start(w) \/ LoopHead(w) \/ Awake(w) \/ ErrCheck(w) \/ Leave(w)
               \/ TakeQueued(w) \/ LookForVictim(w) \/ Split(w) \/ Cut(w) \/ Assign(w)
               \/ Connect(w) \/ RenewUrl(w) \/ PopFront(w) \/ RefuseData(w)
      BY <3>1 DEF Start, LoopHead, Awake, ErrCheck, Leave, TakeQueued, LookForVictim, Split,
         Cut, Assign, Connect, RenewUrl, PopFront, RefuseData
    <3>2. CASE \/ Refused(w) \/ RangeDone(w) \/ Reset(w) \/ Give(w) \/ RmAgent(w)
               \/ GetNewUrl(w) \/ Report(w)
               \/ NetError(w, "retry") \/ NetError(w, "newurl") \/ PartialFile(w)
               \/ RenewThrows(w) \/ Dies(w)
      BY <3>2 DEF Refused, RangeDone, Reset, Give, RmAgent, GetNewUrl, Report, NetError,
         PartialFile, RenewThrows, Dies
    <3> QED BY <2>1, <3>1, <3>2 DEF Works, Worker, WorkerFault, Hands
  <2>4. \A b \in Blocks : InBuffer(b)' = InBuffer(b) /\ InHand(b)' = InHand(b)
    BY <2>2, <2>3, InBufferKept, InHandKept
  <2>5. \A b \in Blocks : Delivered(b)' <=> Delivered(b)
    BY <2>4 DEF Delivered
  <2> QED BY <2>2, <2>5, NoBlockMoves
<1>2. CASE PopBuffer
  <2>1. UNCHANGED <<queue, sb, pc, saved, lost, result>>
    BY <1>2 DEF PopBuffer
  <2>2. ASSUME NEW b \in Blocks PROVE Delivered(b)' <=> Delivered(b)
    <3>1. Queued(b)' = Queued(b) /\ Held(b)' = Held(b) /\ Written(b)' = Written(b)
      BY <2>1, QueuedKept, HeldKept, WrittenKept
    <3>2. OneSpot(b) /\ OneSpot(b)'
      BY DEF SpotInv
    <3> QED BY <3>1, <3>2, FetchedIs DEF NotIn
  <2> QED BY <2>1, <2>2, NoBlockMoves
<1>3. CASE Others /\ ~Finish
  <2>1. /\ UNCHANGED <<buf, saved, lost, result>>
        /\ \/ ctl # "check" /\ ctl' # "check"
           \/ UNCHANGED <<ctl, hand>>
    <3>1. CASE CreateWorker \/ CtlLoop \/ CtlWait \/ SpuriousWakeup \/ Blame \/ Tell \/ Scan
      BY <3>1 DEF CreateWorker, CtlLoop, CtlWait, SpuriousWakeup, Blame, Tell, Scan, SameBuffer,
         NextBuffer
    <3>2. CASE CheckRunning \/ CheckAgents \/ CtlDies \/ StopWorker \/ JoinWorker
      BY <3>2 DEF CheckRunning, CheckAgents, CtlDies, StopWorker, JoinWorker
    <3>3. CASE \/ Pause \/ Unpause \/ Stop \/ OnStopWorker \/ OnStopJoin \/ Environment
               \/ UNCHANGED vars
      BY <3>3 DEF Pause, Unpause, Stop, OnStopWorker, OnStopJoin, Environment, WakeController
    <3> QED BY <1>3, <3>1, <3>2, <3>3 DEF Others
  <2>2. \A b \in Blocks : InBuffer(b)' = InBuffer(b) /\ InHand(b)' = InHand(b)
    BY <2>1, InBufferKept, InHandKept
  <2>3. \A b \in Blocks : Delivered(b)' <=> Delivered(b)
    BY <2>2 DEF Delivered
  <2> QED BY <2>1, <2>3, NoBlockMoves
<1> QED BY <1>1, <1>2, <1>3

\* The engine, with its workers, steals, retries, pauses and failures, is the
\* abstract download: a block is written or lost once and not fetched again after,
\* nothing moves once the verdict is out, and the verdict is "complete" only when
\* nothing is left to fetch (WGTController::run, saveBuffers, checkBlock).
THEOREM EngineIsADownload == Spec => DownloadSpec
<1>1. Init => Abstract!Init
  <2> SUFFICES ASSUME Init PROVE Abstract!Init
    OBVIOUS
  <2>1. ASSUME NEW b \in Blocks PROVE BlockState(b) = "todo"
    <3>1. buf = [w \in Workers |-> <<>>] /\ saved = {} /\ lost = {} /\ ctl = "create"
      BY DEF Init
    <3> QED BY <3>1 DEF BlockState
  <2>2. result = "none"
    BY DEF Init
  <2> QED BY <2>1, <2>2 DEF Abstract!Init
<1>2. IInv /\ SpotInv /\ SpotInv' /\ EndInv /\ [Next]_vars => [Abstract!Next]_Abstract!vars
  <2> SUFFICES ASSUME IInv, SpotInv, SpotInv', EndInv, [Next]_vars
               PROVE  Abstract!Next \/ (UNCHANGED result /\ BlocksSame)
    BY DEF Abstract!vars, BlocksSame
  <2>1. CASE \E w \in Workers : Hands(w)
    BY <2>1, HandsRefines DEF Hands
  <2> QED BY <2>1, JudgesRefines, FinishRefines, RestStutters, StepKinds
<1> QED BY <1>1, <1>2, Invariance, SpotInvariance, EndInvariance, PTL
        DEF Spec, DownloadSpec, Abstract!Spec
=============================================================================
