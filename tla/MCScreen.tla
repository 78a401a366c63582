------------------------------ MODULE MCScreen ------------------------------
(* Two replays, so that one can be hidden by the filter and one not. *)
EXTENDS Screen

CONSTANTS a, b

MCChecksums == {a, b}

=============================================================================
