------------------------------ MODULE LogQueue ------------------------------
(***************************************************************************)
(* What the ring buffer between the threads that log and the log thread    *)
(* promises (kwlegion_ui/cpp/logrotator.h:26-29): messages are drained in  *)
(* the order they were pushed, each once, and never more than Capacity of  *)
(* them are held.                                                          *)
(***************************************************************************)
EXTENDS Naturals, Sequences

CONSTANTS Messages, Capacity

VARIABLES
  queue,  \* what was pushed and not drained
  taken   \* what was drained, in order

Init == queue = <<>> /\ taken = <<>>

Push(m) ==
  /\ Len(queue) < Capacity
  /\ queue' = Append(queue, m)
  /\ UNCHANGED taken

Drain ==
  /\ queue # <<>>
  /\ taken' = Append(taken, Head(queue))
  /\ queue' = Tail(queue)

Next == Drain \/ \E m \in Messages : Push(m)

Spec == Init /\ [][Next]_<<queue, taken>>
=============================================================================
