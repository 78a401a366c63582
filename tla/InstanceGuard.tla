---------------------------- MODULE InstanceGuard ----------------------------
(***************************************************************************)
(* SingleInstanceGuard over the life of main(): a process probes the       *)
(* local server's name, and either asks the owner to show its window and   *)
(* ends, or takes the name over and becomes the primary, the one process   *)
(* that opens the database, the replay store and the update cache.         *)
(*                                                                         *)
(* QLocalServer (outside this repository) differs by platform. On Unix the *)
(* name is a file: removeServer and the end of a server unlink it whoever  *)
(* made it, and a crash leaves it behind. On Windows it is a named pipe:   *)
(* several servers may listen on one name, and a crash leaves nothing.     *)
(***************************************************************************)
CONSTANTS Processes,     \* processes that may be started, each again and again
          Overlap,       \* whether a start may overlap another start, or the end of the server
          Timely         \* whether PROBE_TIMEOUT_MS is enough to reach a server that listens

VARIABLES platform,      \* "unix" or "windows"
          pc,            \* where each process is in main()
          listeners,     \* the processes whose server a connection to the name may reach
          stale,         \* Unix: the name is a file no server listens behind
          inbox          \* requests a process has accepted and not served

guardVars == <<platform, pc, listeners, stale, inbox>>

Request == {"activate", "quit"}
Primaries == {p \in Processes : pc[p] \in {"starting", "running", "closing"}}

\* The stages in which a process has looked at the name and has not settled who owns it.
Unsettled == {p \in Processes : pc[p] \in {"probing", "removing", "binding", "closed"}}

At(p, here, there) == pc[p] = here /\ pc' = [pc EXCEPT ![p] = there]

Init ==
    /\ platform \in {"unix", "windows"}
    /\ pc = [p \in Processes |-> "off"]
    /\ listeners = {} /\ inbox = [p \in Processes |-> {}]
    /\ stale \in {FALSE, platform = "unix"}

----------------------------------------------------------------------------
(* Plausible errors, which the properties must exclude *)

\* The name is given up when the event loop ends, and not with the guard at the end of main().
ReleasedEarly(p) ==
    /\ At(p, "running", "closing") /\ listeners' = listeners \ {p}
    /\ UNCHANGED <<platform, stale, inbox>>

----------------------------------------------------------------------------
Launch(p) ==
    /\ Overlap \/ Unsettled = {}
    /\ At(p, "off", "probing")
    /\ UNCHANGED <<platform, listeners, stale, inbox>>

\* connectToServer succeeded: ask, and return from main().
ProbeAnswered(p) ==
    /\ At(p, "probing", "off")
    /\ \E owner \in listeners : inbox' = [inbox EXCEPT ![owner] = @ \cup {"activate"}]
    /\ UNCHANGED <<platform, listeners, stale>>

\* Nobody answered, or not in time: the constructor takes the one for the other.
ProbeFails(p) ==
    /\ Timely => listeners = {}
    /\ At(p, "probing", "removing")
    /\ UNCHANGED <<platform, listeners, stale, inbox>>

RemoveServer(p) ==
    /\ At(p, "removing", "binding")
    /\ listeners' = IF platform = "unix" THEN {} ELSE listeners
    /\ stale' = FALSE
    /\ UNCHANGED <<platform, inbox>>

Listen(p) ==
    /\ IF platform = "windows" \/ (listeners = {} /\ ~stale)
       THEN At(p, "binding", "starting") /\ listeners' = listeners \cup {p}
       ELSE At(p, "binding", "off") /\ UNCHANGED listeners
    /\ UNCHANGED <<platform, stale, inbox>>

\* The rest of main() up to exec(): connections wait in the server meanwhile.
EnterLoop(p) ==
    /\ At(p, "starting", "running")
    /\ UNCHANGED <<platform, listeners, stale, inbox>>

\* The user quits, from the tray or from a window that does not close to the tray.
Quit(p) ==
    /\ At(p, "running", "closing")
    /\ UNCHANGED <<platform, listeners, stale, inbox>>

\* newConnection: whatever is not the byte of Quit, or comes too late, is an activation.
Activate(p) ==
    /\ pc[p] = "running" /\ "activate" \in inbox[p]
    /\ inbox' = [inbox EXCEPT ![p] = @ \ {"activate"}]
    /\ UNCHANGED <<platform, pc, listeners, stale>>

QuitOnRequest(p) ==
    /\ At(p, "running", "closing") /\ "quit" \in inbox[p]
    /\ inbox' = [inbox EXCEPT ![p] = @ \ {"quit"}]
    /\ UNCHANGED <<platform, listeners, stale>>

\* The program that replaces the installation asks the primary to end (it is not in this repository).
AskToQuit ==
    /\ \E owner \in listeners : /\ "quit" \notin inbox[owner]
                                /\ inbox' = [inbox EXCEPT ![owner] = @ \cup {"quit"}]
    /\ UNCHANGED <<platform, pc, listeners, stale>>

\* Both threads have ended and main() returns: the guard is destroyed last. The server stops
\* listening first and unlinks its name then.
CloseServer(p) ==
    /\ Overlap \/ Unsettled = {}
    /\ At(p, "closing", "closed")
    /\ listeners' = listeners \ {p} /\ inbox' = [inbox EXCEPT ![p] = {}]
    /\ stale' = (stale \/ (platform = "unix" /\ p \in listeners))
    /\ UNCHANGED platform

UnlinkName(p) ==
    /\ At(p, "closed", "off")
    /\ listeners' = IF platform = "unix" THEN {} ELSE listeners
    /\ stale' = FALSE
    /\ UNCHANGED <<platform, inbox>>

Crash(p) ==
    /\ pc[p] # "off" /\ pc' = [pc EXCEPT ![p] = "off"]
    /\ listeners' = listeners \ {p} /\ inbox' = [inbox EXCEPT ![p] = {}]
    /\ stale' = (stale \/ (platform = "unix" /\ p \in listeners))
    /\ UNCHANGED platform

Settle(p) == ProbeAnswered(p) \/ ProbeFails(p) \/ RemoveServer(p) \/ Listen(p) \/ UnlinkName(p)

Next ==
    \/ AskToQuit
    \/ \E p \in Processes :
          Launch(p) \/ Settle(p) \/ EnterLoop(p) \/ Activate(p) \/ Quit(p) \/ QuitOnRequest(p)
              \/ CloseServer(p) \/ Crash(p)

Spec == Init /\ [][Next]_guardVars

----------------------------------------------------------------------------
(* Properties *)

\* At most one process is past the guard until its threads have ended, so that one process at a
\* time has the database and the update cache open, and the name leads to it.
\* (singleinstanceguard.h:10: "Ensures only one instance of the application is running at a time.")
OnePrimary ==
    /\ \A p, q \in Primaries : p = q
    /\ Primaries = listeners

=============================================================================
