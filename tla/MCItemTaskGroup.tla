-------------------------- MODULE MCItemTaskGroup --------------------------
(***************************************************************************)
(* Two items, found in this order, or the first one alone; or three that   *)
(* the wizard finds, of one thread each, left alone by the user: the first *)
(* one's event may still be open when the second one has ended and the     *)
(* third one waits.  Verifications by hand, and a force of an item that is *)
(* not listed yet, are looked at in a group of one.                        *)
(***************************************************************************)
EXTENDS ItemTaskGroup
MCOrder == <<"i1", "i2", "i3">>
MCItems == {"i1", "i2"}
MCThree == {"i1", "i2", "i3"}
MCFirst == {"i1"}
MCNone == {}
MCSlots == {1, 2}

Three == "i3" \in Items /\ ("i3" \in toAdd \/ pauseOnError["i3"])
Two == toAdd = MCItems
One == toAdd = MCFirst
Alone == ~group["i2"] /\ ~pauseOnError["i2"] /\ "i2" \notin toAdd

MCInit == Init /\ (One \/ Two \/ (wizard /\ toAdd = MCThree))
MCNext ==
  /\ Next
  /\ \A m, n \in DOMAIN MCOrder :
       m < n /\ MCOrder[n] \in toAdd \ toAdd' => MCOrder[m] \notin toAdd'
  /\ Three => Undisturbed' /\ \A i \in Items : thread'[i] # 2
  /\ verifies' # verifies => Alone
  /\ call'[User] # "idle" => toAdd \union Listed = {}
MCSpec == MCInit /\ [][MCNext]_vars

\* The wizard adds to a group that runs, the check starts one that waits.
MCLiveInit == Init /\ IF wizard THEN Two ELSE One
MCLiveSpec == MCLiveInit /\ [][MCNext]_vars /\ Fairness
=============================================================================
