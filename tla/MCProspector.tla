---------------------------- MODULE MCProspector ----------------------------
(* Prospector for TLC. *)
EXTENDS Prospector

CONSTANTS f1, f2, root, sub

(* Two replays in the folder itself, or one, there or in a subfolder. *)
BothInRoot == [f \in {f1, f2} |-> root]
OneInRoot == [f \in {f1} |-> root]
OneInSub == [f \in {f1} |-> sub]
=============================================================================
