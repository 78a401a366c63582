--------------------------- MODULE DeferredProofs ---------------------------
(* What holds of Deferred for every set of paths and watermarks and every  *)
(* length of the long stop.                                                *)
EXTENDS Deferred, TLAPS

(* The invariant behind PollsExactlyWhilePending: besides the property     *)
(* itself it needs the types, and that stop() never runs inside            *)
(* timerFired, so that a round under way still has its thread.             *)
Inv ==
  /\ TypeOK
  /\ InTimerFired => ~stopped
  /\ PollsExactlyWhilePending

LEMMA EntryTypes ==
  /\ \A mark \in Marks : Fresh(mark) \in Young
  /\ \A e \in Young \cup {None} : Aged(e) \in Entry \cup {None}
  /\ \A e \in Entry : LongStopped(e) \/ e \in Young
<1>1. \A mark \in Marks : Fresh(mark) \in Young
  BY DeferredAssumption DEF Fresh, Young
<1>2. \A e \in Young : Aged(e) \in Entry
  BY DeferredAssumption DEF Aged, Entry, Young
<1>3. Aged(None) = None
  BY DEF Aged
<1>4. \A e \in Entry : LongStopped(e) \/ e \in Young
  BY DeferredAssumption DEF LongStopped, Entry, Young
<1>5. QED
  BY <1>1, <1>2, <1>3, <1>4

LEMMA InitInv == Init => Inv
BY DEF Init, Inv, TypeOK, Nothing, InTimerFired, PollsExactlyWhilePending,
       Pending

(* Putting an entry in leaves the list non-empty.                          *)
LEMMA PutIsPending ==
  ASSUME NEW p \in Paths, NEW e \in Young,
         m_deferred \in [Paths -> Young \cup {None}]
  PROVE  /\ [m_deferred EXCEPT ![p] = e] \in [Paths -> Young \cup {None}]
         /\ [m_deferred EXCEPT ![p] = e] # Nothing
<1>1. [m_deferred EXCEPT ![p] = e][p] = e
  OBVIOUS
<1>2. Nothing[p] = None /\ e # None
  BY DeferredAssumption DEF Nothing, Young, Entry
<1>3. QED
  BY <1>1, <1>2

LEMMA StepInv == Inv /\ [Next]_vars => Inv'
<1>1. SUFFICES ASSUME Inv, [Next]_vars PROVE Inv'
  OBVIOUS
<1> USE <1>1 DEF Inv
<1>2. ASSUME NEW p \in Paths, NEW mark \in Marks, WaitForChange(p, mark)
      PROVE Inv'
  <2>1. Fresh(mark) \in Young
    BY EntryTypes
  <2>2. m_deferred' # Nothing /\ m_deferred' \in [Paths -> Young \cup {None}]
    BY <1>2, <2>1, PutIsPending DEF WaitForChange, TypeOK
  <2>3. QED
    BY <1>2, <2>2 DEF WaitForChange, TypeOK, InTimerFired,
                      PollsExactlyWhilePending, Pending, Nothing
<1>3. ASSUME NEW p \in Paths, RemoveWaitForChange(p)
      PROVE Inv'
  <2>1. m_deferred' \in [Paths -> Young \cup {None}]
    BY <1>3 DEF RemoveWaitForChange, Without, TypeOK
  <2>2. (m_deferred' # Nothing) => (m_deferred # Nothing)
    BY <1>3 DEF RemoveWaitForChange, Without, TypeOK, Nothing
  <2>3. QED
    BY <1>3, <2>1, <2>2 DEF RemoveWaitForChange, TypeOK, InTimerFired,
                            PollsExactlyWhilePending, Pending, Nothing
<1>4. CASE Stop
  BY <1>4 DEF Stop, TypeOK, InTimerFired, PollsExactlyWhilePending, Pending,
              Nothing
<1>5. CASE TimerFires
  <2>1. toCheck' \in [Paths -> Entry \cup {None}]
    BY <1>5, EntryTypes DEF TimerFires, TypeOK
  <2>2. m_deferred' \in [Paths -> Young \cup {None}] /\ m_deferred' = Nothing'
    BY <1>5 DEF TimerFires, Nothing
  <2>3. QED
    BY <1>5, <2>1, <2>2 DEF TimerFires, TypeOK, InTimerFired,
                            PollsExactlyWhilePending, Pending
<1>6. ASSUME NEW p \in Paths, CheckUnchanged(p)
      PROVE Inv'
  <2>1. toCheck[p] \in Young
    BY <1>6, EntryTypes DEF CheckUnchanged, TypeOK
  <2>2. toCheck # Nothing
    BY <1>6 DEF CheckUnchanged, Nothing
  <2>3. m_deferred' # Nothing /\ m_deferred' \in [Paths -> Young \cup {None}]
    BY <1>6, <2>1, PutIsPending DEF CheckUnchanged, TypeOK
  <2>4. toCheck' \in [Paths -> Entry \cup {None}]
    BY <1>6 DEF CheckUnchanged, TypeOK
  <2>5. QED
    BY <1>6, <2>2, <2>3, <2>4 DEF CheckUnchanged, TypeOK, InTimerFired,
                                  PollsExactlyWhilePending, Pending, Nothing
<1>7. ASSUME NEW p \in Paths, CheckReports(p)
      PROVE Inv'
  <2>1. toCheck # Nothing
    BY <1>7 DEF CheckReports, Nothing
  <2>2. toCheck' \in [Paths -> Entry \cup {None}]
    BY <1>7 DEF CheckReports, TypeOK
  <2>3. QED
    BY <1>7, <2>1, <2>2 DEF CheckReports, TypeOK, InTimerFired,
                            PollsExactlyWhilePending, Pending, Nothing
<1>8. CASE HandlerForgets
  <2>1. calling \in Paths
    BY <1>8 DEF HandlerForgets, TypeOK
  <2>2. m_deferred' \in [Paths -> Young \cup {None}]
    BY <1>8, <2>1 DEF HandlerForgets, Without, TypeOK
  <2>3. (m_deferred' # Nothing) => (m_deferred # Nothing)
    BY <1>8, <2>1 DEF HandlerForgets, Without, TypeOK, Nothing
  <2>4. QED
    BY <1>8, <2>2, <2>3 DEF HandlerForgets, TypeOK, InTimerFired,
                            PollsExactlyWhilePending, Pending, Nothing
<1>9. ASSUME NEW mark \in Marks, HandlerRearms(mark)
      PROVE Inv'
  <2>1. calling \in Paths /\ Fresh(mark) \in Young
    BY <1>9, EntryTypes DEF HandlerRearms, TypeOK
  <2>2. m_deferred' # Nothing /\ m_deferred' \in [Paths -> Young \cup {None}]
    BY <1>9, <2>1, PutIsPending DEF HandlerRearms, TypeOK
  <2>3. QED
    BY <1>9, <2>1, <2>2 DEF HandlerRearms, TypeOK, InTimerFired,
                            PollsExactlyWhilePending, Pending, Nothing
<1>10. ASSUME NEW p \in Paths, NEW mark \in Marks, FileMoves(p, mark)
       PROVE Inv'
  BY <1>10 DEF FileMoves, TypeOK, InTimerFired, PollsExactlyWhilePending,
               Pending, Nothing
<1>11. CASE UNCHANGED vars
  BY <1>11 DEF vars, TypeOK, InTimerFired, PollsExactlyWhilePending, Pending,
               Nothing
<1>12. QED
  BY <1>1, <1>2, <1>3, <1>4, <1>5, <1>6, <1>7, <1>8, <1>9, <1>10, <1>11
     DEF Next

(***************************************************************************)
(* The retry list keeps its types: every entry it holds or has drained is  *)
(* a watermark with an age within the long stop, and none is put back once *)
(* it has reached it (deferred.cpp:64-99).                                 *)
(***************************************************************************)
THEOREM DeferredTypes == Spec => []TypeOK
<1>1. Inv => TypeOK
  BY DEF Inv
<1>2. QED
  BY <1>1, InitInv, StepInv, PTL DEF Spec, Safety

(***************************************************************************)
(* The poll runs exactly while something is pending, whatever the number   *)
(* of paths and however calls, rounds and re-entrant handlers interleave.  *)
(***************************************************************************)
THEOREM PollsWhilePending == Spec => []PollsExactlyWhilePending
<1>1. Inv => PollsExactlyWhilePending
  BY DEF Inv
<1>2. QED
  BY <1>1, InitInv, StepInv, PTL DEF Spec, Safety
=============================================================================
