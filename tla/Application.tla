----------------------------- MODULE Application -----------------------------
(***************************************************************************)
(* main(): the guard decides which process runs the application, and that  *)
(* process owns the updater, from finishInit before the event loop to the  *)
(* destruction of the engine after it. The composition of InstanceGuard    *)
(* and AutoUpdate: the update cache is shared by every process that is     *)
(* ever started, and only the primary's updater is at work on it.          *)
(***************************************************************************)
EXTENDS AutoUpdate

CONSTANTS Processes, Overlap, Timely

VARIABLES platform, pc, listeners, stale, inbox

Guard == INSTANCE InstanceGuard

guardVars == <<platform, pc, listeners, stale, inbox>>
appVars == <<guardVars, updateVars>>

AppInit == Guard!Init /\ Init

\* Before the guard lets it through a process touches nothing of the updater.
Arrive(p) ==
    /\ Guard!Launch(p) \/ Guard!Settle(p)
    /\ UNCHANGED updateVars

RunLoop(p) == Guard!EnterLoop(p) /\ Start

\* The primary shows and raises its window.
Attend(p) ==
    /\ Guard!Activate(p)
    /\ UNCHANGED updateVars

AskToQuit ==
    /\ Guard!AskToQuit
    /\ UNCHANGED updateVars

LeaveExec(p) == (Guard!Quit(p) \/ Guard!QuitOnRequest(p)) /\ LeaveLoop

\* exec() has returned: the threads end, then the engine and its singletons, the guard's server last.
ReturnFromMain(p) == Guard!CloseServer(p) /\ Stop

Die(p) ==
    /\ Guard!Crash(p)
    /\ IF pc[p] \in {"running", "closing"} THEN Crash ELSE UNCHANGED updateVars

Work(p) == pc[p] = "running" /\ Inside /\ UNCHANGED guardVars

\* Time passes; the installation is replaced while nothing runs.
World ==
    /\ Tick \/ (Upgrade /\ \A p \in Processes : pc[p] = "off")
    /\ UNCHANGED guardVars

AppNext ==
    \/ AskToQuit \/ World
    \/ \E p \in Processes :
          Arrive(p) \/ RunLoop(p) \/ Attend(p) \/ LeaveExec(p) \/ ReturnFromMain(p) \/ Die(p) \/ Work(p)

\* Time passes, and in the primary the timer fires and the network answers each request.
AppFairness ==
    /\ WF_appVars(Tick /\ UNCHANGED guardVars)
    /\ WF_appVars(Timer /\ UNCHANGED guardVars)
    /\ WF_appVars(Reply /\ UNCHANGED guardVars)

AppSpec == AppInit /\ [][AppNext]_appVars /\ AppFairness

----------------------------------------------------------------------------
(* Properties *)

\* One process at a time is past the guard and has the database and the update cache open.
OnePrimary == Guard!OnePrimary

=============================================================================
