----------------------------- MODULE MCDeferred -----------------------------
(* Deferred for TLC: two paths, so that one can be drained while the other *)
(* has been put back, and two watermarks, so that a file can move away     *)
(* from a watermark and back to it.                                        *)
EXTENDS Deferred
=============================================================================
