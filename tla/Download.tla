------------------------------ MODULE Download ------------------------------
(***************************************************************************)
(* What the web get thread promises of a download, without its workers,    *)
(* superblocks and providers.  Each block is fetched, then judged: written *)
(* to the mcf file, lost to a failing disk, or - when its crc is wrong -   *)
(* fetched again.  What is written stays written and is never fetched      *)
(* again, and the download is called complete only when no block is left   *)
(* to fetch (WGTController::run, saveBuffers, checkBlock).                  *)
(***************************************************************************)
EXTENDS Naturals

CONSTANT Blocks

VARIABLES
  block,    \* what has become of each block
  verdict   \* how the download ended

vars == <<block, verdict>>

Init ==
  /\ block = [b \in Blocks |-> "todo"]
  /\ verdict = "none"

Moves == {<<"todo", "fetched">>,      \* a worker hands the block over
          <<"fetched", "saved">>,
          <<"fetched", "lost">>,
          <<"fetched", "todo">>}      \* its crc is wrong

\* One block moves on; none does once the verdict is out.
Move ==
  /\ block' # block
  /\ \E b \in Blocks : /\ <<block[b], block'[b]>> \in Moves
                       /\ block' = [block EXCEPT ![b] = block'[b]]
  /\ verdict = "none"
  /\ UNCHANGED verdict

End(v) ==
  /\ verdict = "none"
  /\ verdict' = v
  /\ v = "complete" => \A b \in Blocks : block[b] # "todo"
  /\ UNCHANGED block

Next == Move \/ \E v \in {"complete", "failed", "stopped"} : End(v)

Spec == Init /\ [][Next]_vars
=============================================================================
