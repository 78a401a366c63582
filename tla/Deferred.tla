------------------------------ MODULE Deferred ------------------------------
(***************************************************************************)
(* The retry list of the replay store: kwlegion_core/src/deferred.cpp.     *)
(*                                                                         *)
(* A caller hands over a path together with the watermark (size and        *)
(* modification time) it saw; a single-shot timer compares the watermark   *)
(* with the file again and reports the path once it moved, or once nothing *)
(* moved for the length of the long stop.  pathChanged is a direct         *)
(* connection, so the report calls back into the owner, which may put the  *)
(* path on the list again before timerFired goes on with the next path.    *)
(*                                                                         *)
(* The file system is the environment: current[p] is what Deferred::sample *)
(* would see for p.  Time is counted in rounds of the timer: an entry's    *)
(* age is the number of rounds since its watermark was sampled, and the    *)
(* long stop is LongStopRounds of them.                                    *)
(***************************************************************************)
EXTENDS Naturals

CONSTANTS
  Paths,           (* the paths that may be waited for                     *)
  Marks,           (* watermarks: a file's size and modification time      *)
  LongStopRounds,  (* m_longStopMs, in rounds of the timer                 *)
  None             (* no entry, no path                                    *)

Entry == [mark : Marks, age : 0 .. LongStopRounds]

ASSUME DeferredAssumption ==
  /\ LongStopRounds \in Nat \ {0}
  /\ None \notin Paths
  /\ None \notin Entry

VARIABLES
  current,     (* environment: the watermark of each path, as stat sees it *)
  m_deferred,  (* m_deferred: the entry of each path that is waited for    *)
  trigger,     (* m_trigger->isActive()                                    *)
  toCheck,     (* timerFired's local: what is left of the drained list     *)
  calling,     (* the path whose pathChanged handler is running            *)
  stopped      (* stop() was called: the thread's event loop has ended     *)

vars == <<current, m_deferred, trigger, toCheck, calling, stopped>>

Nothing == [p \in Paths |-> None]

(* The entry waitForChange stores for a caller's watermark.                *)
Fresh(mark) == [mark |-> mark, age |-> 0]

(* One more round has gone by; past the long stop the age tells nothing.   *)
Aged(e) ==
  IF e = None THEN None
  ELSE [e EXCEPT !.age = IF @ < LongStopRounds THEN @ + 1 ELSE @]

Without(p) == [m_deferred EXCEPT ![p] = None]

Changed(e, now) == now # e.mark

\* Mutant: the long stop is over only when more than its length has gone by.
LongStoppedLate(e) == e.age > LongStopRounds

LongStopped(e) == e.age >= LongStopRounds

InTimerFired == toCheck # Nothing \/ calling # None

Init ==
  /\ current \in [Paths -> Marks]
  /\ m_deferred = Nothing
  /\ trigger = FALSE
  /\ toCheck = Nothing
  /\ calling = None
  /\ stopped = FALSE

-----------------------------------------------------------------------------
(* Calls of the owner, outside timerFired.                                 *)

WaitForChange(p, mark) ==
  /\ ~stopped /\ ~InTimerFired
  /\ m_deferred' = [m_deferred EXCEPT ![p] = Fresh(mark)]
  /\ trigger' = TRUE
  /\ UNCHANGED <<current, toCheck, calling, stopped>>

\* Mutant: removing one path stops the poll for all of them.
RemovalStopsPoll(p) ==
  /\ ~stopped /\ ~InTimerFired
  /\ m_deferred' = Without(p)
  /\ trigger' = FALSE
  /\ UNCHANGED <<current, toCheck, calling, stopped>>

RemoveWaitForChange(p) ==
  /\ ~stopped /\ ~InTimerFired
  /\ m_deferred' = Without(p)
  /\ trigger' = (trigger /\ Without(p) # Nothing)
  /\ UNCHANGED <<current, toCheck, calling, stopped>>

Stop ==
  /\ ~stopped /\ ~InTimerFired
  /\ trigger' = FALSE
  /\ stopped' = TRUE
  /\ UNCHANGED <<current, m_deferred, toCheck, calling>>

-----------------------------------------------------------------------------
(* timerFired: the list is drained up front, then its paths are looked at  *)
(* one by one, in the order of the hash.                                   *)

TimerFires ==
  /\ ~stopped /\ trigger /\ ~InTimerFired
  /\ trigger' = FALSE
  /\ toCheck' = [p \in Paths |-> Aged(m_deferred[p])]
  /\ m_deferred' = Nothing
  /\ UNCHANGED <<current, calling, stopped>>

\* Mutant: an unchanged path goes back with a watermark sampled now.
UnchangedStartsAnew(p) ==
  /\ calling = None /\ toCheck[p] # None
  /\ ~Changed(toCheck[p], current[p]) /\ ~LongStopped(toCheck[p])
  /\ m_deferred' = [m_deferred EXCEPT ![p] = Fresh(current[p])]
  /\ trigger' = TRUE
  /\ toCheck' = [toCheck EXCEPT ![p] = None]
  /\ UNCHANGED <<current, calling, stopped>>

(* Unchanged: back on the list with the original watermark and age.        *)
CheckUnchanged(p) ==
  /\ calling = None /\ toCheck[p] # None
  /\ ~Changed(toCheck[p], current[p]) /\ ~LongStopped(toCheck[p])
  /\ m_deferred' = [m_deferred EXCEPT ![p] = toCheck[p]]
  /\ trigger' = TRUE
  /\ toCheck' = [toCheck EXCEPT ![p] = None]
  /\ UNCHANGED <<current, calling, stopped>>

(* Changed or long-stopped: pathChanged is emitted and its handler runs.   *)
CheckReports(p) ==
  /\ calling = None /\ toCheck[p] # None
  /\ Changed(toCheck[p], current[p]) \/ LongStopped(toCheck[p])
  /\ calling' = p
  /\ toCheck' = [toCheck EXCEPT ![p] = None]
  /\ UNCHANGED <<current, m_deferred, trigger, stopped>>

(* The handler gives the path up ...                                       *)
HandlerForgets ==
  /\ calling # None
  /\ m_deferred' = Without(calling)
  /\ trigger' = (trigger /\ Without(calling) # Nothing)
  /\ calling' = None
  /\ UNCHANGED <<current, toCheck, stopped>>

(* ... or enqueues it again with a watermark of its own.                   *)
HandlerRearms(mark) ==
  /\ calling # None
  /\ m_deferred' = [m_deferred EXCEPT ![calling] = Fresh(mark)]
  /\ trigger' = TRUE
  /\ calling' = None
  /\ UNCHANGED <<current, toCheck, stopped>>

-----------------------------------------------------------------------------
(* The environment: somebody writes, creates or removes the file.          *)
FileMoves(p, mark) ==
  /\ mark # current[p]
  /\ current' = [current EXCEPT ![p] = mark]
  /\ UNCHANGED <<m_deferred, trigger, toCheck, calling, stopped>>

Next ==
  \/ \E p \in Paths, mark \in Marks : WaitForChange(p, mark)
  \/ \E p \in Paths : RemoveWaitForChange(p)
  \/ Stop
  \/ TimerFires
  \/ \E p \in Paths : CheckUnchanged(p)
  \/ \E p \in Paths : CheckReports(p)
  \/ HandlerForgets
  \/ \E mark \in Marks : HandlerRearms(mark)
  \/ \E p \in Paths, mark \in Marks : FileMoves(p, mark)

Safety == Init /\ [][Next]_vars

(***************************************************************************)
(* A running event loop fires a timer that stays armed, timerFired runs to *)
(* its end, and a handler returns.  Weak fairness is enough: only emptying *)
(* the list disarms the timer, and waitForChange never restarts it.        *)
(***************************************************************************)
Fairness ==
  /\ WF_vars(TimerFires)
  /\ WF_vars(\E p \in Paths : CheckUnchanged(p) \/ CheckReports(p))
  /\ WF_vars(HandlerForgets \/ \E mark \in Marks : HandlerRearms(mark))

Spec == Safety /\ Fairness

-----------------------------------------------------------------------------
(* Between two rounds no entry is as old as the long stop.                 *)
Young == [mark : Marks, age : 0 .. LongStopRounds - 1]

TypeOK ==
  /\ current \in [Paths -> Marks]
  /\ m_deferred \in [Paths -> Young \cup {None}]
  /\ trigger \in BOOLEAN
  /\ toCheck \in [Paths -> Entry \cup {None}]
  /\ calling \in Paths \cup {None}
  /\ stopped \in BOOLEAN

Pending == m_deferred # Nothing

(***************************************************************************)
(* The poll runs exactly while something is pending: no path can sit on a  *)
(* list nobody looks at, and an idle list costs no wake-ups.  The hazard   *)
(* is the re-entrant call: the handler of one path removes it while others *)
(* have already been put back (deferred.cpp:71-76 against 83-98).          *)
(***************************************************************************)
PollsExactlyWhilePending == trigger = (Pending /\ ~stopped)

(* A path is on the list or in the part of it timerFired has drained.      *)
Waiting(p) == m_deferred[p] # None \/ toCheck[p] # None

(***************************************************************************)
(* No path waits for ever: once the owner stops asking anew for a path,    *)
(* its entry is reported, at the latest after the long stop, unless the    *)
(* owner withdraws it or the thread ends.  An entry whose file never moves *)
(* again is the case the long stop is for (deferred.cpp:21-31), and it is  *)
(* lost if a round of the poll restarts the entry's clock.                 *)
(***************************************************************************)
OwnerAsksAgain(p) == \E mark \in Marks : WaitForChange(p, mark)

EveryWaitIsAnswered ==
  \A p \in Paths :
    <>[][~OwnerAsksAgain(p)]_vars
      => (Waiting(p) ~> (calling = p \/ ~Waiting(p) \/ stopped))
=============================================================================
