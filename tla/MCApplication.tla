---------------------------- MODULE MCApplication ----------------------------
(* Two processes, each started again and again; a snapshot, the release made of it, and a tag that is
   no version number. *)
EXTENDS Application

CONSTANTS p1, p2, snapshot, release, nightly

MCProcesses == {p1, p2}
MCTags == {snapshot, release, nightly}
MCNumber == [t \in MCTags |-> IF t = nightly THEN None ELSE 1]
MCStable == {release}

=============================================================================
