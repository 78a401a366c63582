---------------------------- MODULE MCLogRotator ----------------------------
(* LogRotator for TLC. *)
EXTENDS LogRotator
=============================================================================
