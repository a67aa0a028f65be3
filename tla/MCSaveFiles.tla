---------------------------- MODULE MCSaveFiles ----------------------------
(***************************************************************************)
(* Two files: one of one block, which is the last as soon as it is read,   *)
(* and one that is empty, or as long, or takes its buffer twice.           *)
(***************************************************************************)
EXTENDS SaveFiles, TLC
CONSTANTS f1, f2
MCFiles == {f1, f2}
MCSizes == {(f1 :> 1) @@ (f2 :> n) : n \in {0, 1, 2}}
=============================================================================
