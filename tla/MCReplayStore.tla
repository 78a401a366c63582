---------------------------- MODULE MCReplayStore ----------------------------
(* ReplayStore for TLC. *)
EXTENDS ReplayStore, TLC

Symmetric == Permutations(Paths) \cup Permutations(Checksums)
=============================================================================
