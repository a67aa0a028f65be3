------------------------------ MODULE MCWebGet ------------------------------
(* Instances of WebGet: two providers, of which both or only the first are   *)
(* named at first and links may expire.  Two runs look at one thing at a     *)
(* time, so that the rest can be larger: MCCrcSpec cuts the blocks into one   *)
(* superblock, and the block that may arrive wrong is the last of it;         *)
(* MCLiveSpec has one trouble, of any kind, at any time.                      *)
EXTENDS WebGet

CONSTANTS u1, u2

MCIds == 1..NumWorkers
MCUrls == {u1, u2}
MCFirst == <<u1, u2>>
MCFirstOne == <<u1>>
MCNoCdn == {}
MCOneCdn == {u1}

MCLastIsBad ==
  \A w \in Workers : \A i \in DOMAIN buf[w] : buf[w][i].ok \/ buf[w][i].blk = NumBlocks
MCCrcSpec == Init /\ Len(queue) = 1 /\ [][Next /\ MCLastIsBad']_vars

MCTroubles ==
  faults + pauses + corrupt + Cardinality(expired) + (IF stopping THEN 1 ELSE 0)
MCLiveSpec == Init /\ [][Next /\ MCTroubles' <= 1]_vars /\ Fairness
=============================================================================
