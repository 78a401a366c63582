---------------------------- MODULE ReplayStore ----------------------------
(***************************************************************************)
(* The ingestion core of the replay manager: how a file of the game's      *)
(* replay folder becomes a row of the catalogue and a copy in the store.   *)
(*                                                                         *)
(* kwlegion_core/src/replaystore.cpp on the io thread, with the retry list *)
(* of deferred.cpp (module Deferred) and, at the level of one path, the    *)
(* notifications of prospector.cpp.  The game, the user and copy tools     *)
(* change the folder at any time, also between two steps of the io thread; *)
(* an open may meet a lock, a database call may throw, the process may     *)
(* end between any two steps and start again.                              *)
(***************************************************************************)
EXTENDS Naturals, FiniteSets

CONSTANTS
  Paths,                     \* paths of *.KWReplay files in the folder
  Checksums,                 \* fingerprints of complete replays
  MAX_FAST_STORAGE_RETRIES,  \* storage failures retried at every round
  LongStopRounds,            \* the long stop of Deferred, in timer rounds
  MaxWrites,                 \* bound: versions of a file per path
  MaxFaults,                 \* bound: faults of the environment, all kinds
  Faults,                    \* the kinds of fault that may happen
  None                       \* no entry, no link, no path

FaultKinds ==
  {"lock", "misread", "begin", "commit", "forward", "unlink", "sweep", "crash"}

\* What a file holds.  "torn" is a complete prefix of a replay, "corrupt"
\* what no further write of the same replay makes valid.
Contents == {"empty", "torn", "corrupt"} \cup Checksums

ASSUME StoreAssumption ==
  /\ Checksums \cap {"absent", "empty", "torn", "corrupt"} = {}
  /\ None \notin Paths \cup Checksums
  /\ None \notin [mark : Nat, age : Nat]
  /\ None \notin [checksum : Checksums, mark : Nat]
  /\ MAX_FAST_STORAGE_RETRIES \in Nat
  /\ LongStopRounds \in Nat \ {0}
  /\ MaxWrites \in Nat \ {0}
  /\ MaxFaults \in Nat
  /\ Faults \subseteq FaultKinds

VARIABLES
  \* the file system
  disk,       \* path -> what the folder holds there, and since which write
  locked,     \* paths some other process keeps from being opened
  stored,     \* checksum -> content of <state>/replays/<checksum>.KWReplay
  \* the database
  replays,    \* checksums with rows in replays, analysis and players
  links,      \* replay_external_paths: path -> checksum and watermark
  \* the prospector
  dirty,      \* paths with a change it has not been notified of yet
  known,      \* m_knownFiles: path -> the watermark last reported
  \* the store and its retry list
  m_deferred, trigger, toCheck,
  retries,    \* m_storageRetries
  \* what the GUI was last told
  inbox,      \* path -> type of the inbox item
  published,  \* checksum -> how the last signal about it showed it
  \* the io thread
  pc,         \* where it is in the handler that runs
  job,        \* the handler's locals
  todo,       \* paths the sweep, or hideReplay, still has to look at
  listed,     \* paths the prospector's initial sweep found
  missed,     \* history: listed paths of a sweep that could not begin, until
              \* they are notified
  faults      \* bound: faults so far

diskVars == <<disk, locked>>
dbVars == <<replays, links, stored>>
watchVars == <<dirty, known>>
deferVars == <<m_deferred, trigger, toCheck>>
guiVars == <<inbox, published>>
sweepVars == <<todo, listed, missed>>
ioVars == <<pc, job>>
vars == <<diskVars, dbVars, watchVars, deferVars, retries, guiVars, sweepVars,
          ioVars, faults>>

-----------------------------------------------------------------------------
(* Files and watermarks.  A watermark is the number of the write that made *)
(* the file what it is; 0 is what stat reports for no file at all: no size *)
(* and no modification time.                                               *)

Absent == [content |-> "absent", mark |-> 0]
Exists(p) == disk[p].content # "absent"
Stat(p) == IF Exists(p) THEN disk[p].mark ELSE 0
HasSize(p) == disk[p].content \notin {"absent", "empty"}

(* No existing file has this watermark, so the next round finds a change.  *)
unmatchableWatermark == 0

Watermarks == 0 .. MaxWrites

Retry == INSTANCE Deferred
  WITH Marks <- Watermarks,
       current <- [p \in Paths |-> Stat(p)],
       calling <- IF pc \in {"begin", "read", "ingest", "commit"}
                     /\ job.via = "poll" THEN job.path ELSE None,
       stopped <- FALSE

(* What the GUI shows for a checksum that the database holds.              *)
Showing(c, rows, ext) ==
  IF c \notin rows THEN "unknown"
  ELSE IF \E p \in Paths : ext[p] # None /\ ext[p].checksum = c
       THEN "exposed" ELSE "hidden"

Snapshot(rows, ext) == [c \in Checksums |-> Showing(c, rows, ext)]

Busy == {"begin", "read", "ingest", "commit"}

(* m_initialSweep.isActive()                                               *)
Sweeping == pc = "sweep" \/ (pc \in Busy /\ job.via = "sweep")

(* The io thread between two events, with no timerFired under way.         *)
AtRest == pc = "idle" /\ toCheck = Retry!Nothing

NoJob == [via |-> "none", path |-> None, observed |-> 0, checksum |-> None]

(* The fault of that kind happens now; every kind shares one budget.       *)
Fault(kind) ==
  /\ kind \in Faults /\ faults < MaxFaults
  /\ faults' = faults + 1
NoFault == UNCHANGED faults

Init ==
  /\ disk = [p \in Paths |-> Absent]
  /\ locked = {}
  /\ stored = [c \in Checksums |-> "absent"]
  /\ replays = {}
  /\ links = [p \in Paths |-> None]
  /\ dirty = {}
  /\ known = [p \in Paths |-> 0]
  /\ m_deferred = Retry!Nothing
  /\ trigger = FALSE
  /\ toCheck = Retry!Nothing
  /\ retries = [p \in Paths |-> 0]
  /\ inbox = [p \in Paths |-> "none"]
  /\ published = [c \in Checksums |-> "unknown"]
  /\ pc = "down"
  /\ job = NoJob
  /\ todo = {}
  /\ listed = {}
  /\ missed = {}
  /\ faults = 0

-----------------------------------------------------------------------------
(* The folder.  A change is seen by the watches, once they are in place.   *)

Watching == pc # "down"

Touched(p) == dirty' = IF Watching THEN dirty \cup {p} ELSE dirty

(* A write: the game creates, grows or overwrites a replay, also one with  *)
(* a different match.  A locked file is only written by who locked it.     *)
Write(p, content) ==
  /\ disk[p].mark < MaxWrites
  /\ disk' = [disk EXCEPT ![p] = [content |-> content, mark |-> @.mark + 1]]
  /\ Touched(p)
  /\ UNCHANGED <<locked, dbVars, known, deferVars, retries, guiVars,
                 sweepVars, ioVars, faults>>

(* The file is deleted or renamed away; later writes are still newer.      *)
Remove(p) ==
  /\ Exists(p) /\ p \notin locked
  /\ disk' = [disk EXCEPT ![p].content = "absent"]
  /\ Touched(p)
  /\ UNCHANGED <<locked, dbVars, known, deferVars, retries, guiVars,
                 sweepVars, ioVars, faults>>

(* Another process opens the file and denies sharing, or closes it.  The   *)
(* watches report neither.                                                 *)
Lock(p) ==
  /\ p \notin locked
  /\ locked' = locked \cup {p}
  /\ Fault("lock")
  /\ UNCHANGED <<disk, dbVars, watchVars, deferVars, retries, guiVars,
                 sweepVars, ioVars>>

Unlock(p) ==
  /\ p \in locked
  /\ locked' = locked \ {p}
  /\ UNCHANGED <<disk, dbVars, watchVars, deferVars, retries, guiVars,
                 sweepVars, ioVars, faults>>

-----------------------------------------------------------------------------
(* What the handlers are made of.  Each states its primed variables whole. *)

(* The handler returns: to the sweep, or to the event loop or timerFired.  *)
Return ==
  /\ pc' = IF Sweeping THEN "sweep" ELSE "idle"
  /\ job' = NoJob

(* waitForChange                                                           *)
WaitForChange(p, mark) ==
  /\ m_deferred' = [m_deferred EXCEPT ![p] = Retry!Fresh(mark)]
  /\ trigger' = TRUE

\* Mutant: removing one path stops the poll for all of them.
RemovalStopsPoll(p) ==
  /\ m_deferred' = Retry!Without(p)
  /\ trigger' = FALSE

(* removeWaitForChange                                                     *)
RemoveWaitForChange(p) ==
  /\ m_deferred' = Retry!Without(p)
  /\ trigger' = (trigger /\ Retry!Without(p) # Retry!Nothing)

(* forwardChangedReplays: the replays as the database holds them now go to *)
(* the GUI, except during the initial sweep, which ends with a snapshot.   *)
ForwardChangedReplays(checksums) ==
  published' =
    IF Sweeping THEN published
    ELSE [c \in Checksums |->
            IF c \in checksums \cap replays' THEN Showing(c, replays', links')
            ELSE published[c]]

Links(p, c) == links[p] # None /\ links[p].checksum = c

LinkedAt(p) == IF links[p] = None THEN {} ELSE {links[p].checksum}

(* removeReplayFileLink: the row of the path goes and its replay is shown  *)
(* anew.  A database fault is logged and nothing else happens.             *)
Unlink(p) ==
  /\ links' = [links EXCEPT ![p] = None]
  /\ UNCHANGED <<replays, stored>>
  /\ ForwardChangedReplays(LinkedAt(p))

RemoveReplayFileLink(p) ==
  \/ /\ NoFault
     /\ Unlink(p)
  \/ /\ Fault("unlink")
     /\ UNCHANGED <<dbVars, published>>

Observed(p, type) == inbox' = [inbox EXCEPT ![p] = type]
Dismissed(p) == inbox' = [inbox EXCEPT ![p] = "none"]

\* Mutant: a failed open is not re-armed; the next notification will do.
StorageFailureDropsPath(p, observed) ==
  /\ retries' = [retries EXCEPT ![p] =
                   IF @ > MAX_FAST_STORAGE_RETRIES THEN @ ELSE @ + 1]
  /\ Observed(p, "pending")
  /\ Return
  /\ UNCHANGED <<m_deferred, trigger>>

(* handleStorageFailure: the link stays; the path is retried at once while *)
(* fast attempts are left, then only when the file moves.                  *)
HandleStorageFailure(p, observed) ==
  LET attempts == retries[p] + 1
  IN /\ retries' = [retries EXCEPT ![p] =
                      IF attempts > MAX_FAST_STORAGE_RETRIES + 1
                      THEN @ ELSE attempts]
     /\ WaitForChange(p, IF attempts <= MAX_FAST_STORAGE_RETRIES
                         THEN unmatchableWatermark ELSE observed)
     /\ Observed(p, "pending")
     /\ Return

(* handleTornFailure, and the empty file, which is not even opened         *)
HandleIncomplete(p, observed, type) ==
  /\ RemoveReplayFileLink(p)
  /\ WaitForChange(p, observed)
  /\ Observed(p, type)
  /\ Return
  /\ UNCHANGED retries

(* handleParseFailure                                                      *)
HandleParseFailure(p) ==
  /\ RemoveReplayFileLink(p)
  /\ Observed(p, "corrupt")
  /\ Return
  /\ UNCHANGED <<retries, m_deferred, trigger>>

-----------------------------------------------------------------------------
(* Start-up: init publishes the catalogue as the last session left it, the *)
(* prospector lists the folder and puts its watches in place, and          *)
(* receiveInitialReplayPaths begins.                                       *)

Start ==
  LET found == {p \in Paths : Exists(p)}
  IN /\ pc = "down"
     /\ pc' = "sweep"
     /\ known' = [p \in Paths |-> Stat(p)]
     /\ listed' = found
     /\ todo' = found
     /\ missed' = {}
     /\ inbox' = [p \in Paths |-> "none"]
     /\ published' = Snapshot(replays, links)
     /\ UNCHANGED <<diskVars, dbVars, dirty, deferVars, retries, job, faults>>

(* The fast path: same path, time and size as when it was ingested.  Each  *)
(* path is listed once, so its row is still the one the sweep began with.  *)
Matches(p) == links[p] # None /\ links[p].mark = Stat(p)

SweepSkips(p) ==
  /\ pc = "sweep" /\ p \in todo
  /\ Matches(p)
  /\ todo' = todo \ {p}
  /\ UNCHANGED <<diskVars, dbVars, watchVars, deferVars, retries, guiVars,
                 listed, missed, ioVars, faults>>

(* synopsizeReplayFileInfo up to the parse attempt: nothing waits for the  *)
(* path any more, and the watermark is sampled before a byte is read.  In  *)
(* the sweep it is the one the fast path looked at.                        *)
Sample(p, via) ==
  IF HasSize(p)
  THEN /\ RemoveWaitForChange(p)
       /\ pc' = "read"
       /\ job' = [via |-> via, path |-> p, observed |-> Stat(p),
                  checksum |-> None]
       /\ NoFault
       /\ UNCHANGED <<dbVars, retries, guiVars>>
  ELSE HandleIncomplete(p, Stat(p), "pending")

SweepSamples(p) ==
  /\ pc = "sweep" /\ p \in todo
  /\ ~Matches(p)
  /\ todo' = todo \ {p}
  /\ Sample(p, "sweep")
  /\ UNCHANGED <<diskVars, watchVars, toCheck, listed, missed>>

(* The query for the known rows, which precedes the first path, fails: no  *)
(* path is looked at, no row forgotten, no catalogue published.            *)
SweepFails ==
  /\ pc = "sweep" /\ todo = listed
  /\ Fault("sweep")
  /\ pc' = "idle"
  /\ missed' = listed
  /\ todo' = {} /\ listed' = {}
  /\ UNCHANGED <<diskVars, dbVars, watchVars, deferVars, retries, guiVars, job>>

(* The end of the sweep: rows of paths it did not list are forgotten and   *)
(* the reconciled catalogue is published.  A database fault skips both.    *)
SweepEnds ==
  /\ pc = "sweep" /\ todo = {}
  /\ pc' = "idle"
  /\ listed' = {}
  /\ \/ /\ NoFault
        /\ links' = [p \in Paths |-> IF p \in listed THEN links[p] ELSE None]
        /\ published' = Snapshot(replays, links')
     \/ /\ Fault("sweep")
        /\ UNCHANGED <<links, published>>
  /\ UNCHANGED <<diskVars, replays, stored, watchVars, deferVars, retries,
                 inbox, job, todo, missed>>

-----------------------------------------------------------------------------
(* The prospector passes a notification on.  Compared with what it last    *)
(* reported, the path is gone, changed, or nothing new.                    *)

Notified(p) == AtRest /\ p \in dirty /\ dirty' = dirty \ {p}

NotifyUnchanged(p) ==
  /\ Notified(p)
  /\ Stat(p) = known[p]
  /\ UNCHANGED <<diskVars, dbVars, known, deferVars, retries, guiVars,
                 sweepVars, ioVars, faults>>

NotifyChanged(p) ==
  /\ Notified(p)
  /\ Exists(p) /\ Stat(p) # known[p]
  /\ known' = [known EXCEPT ![p] = Stat(p)]
  /\ pc' = "begin"
  /\ job' = [NoJob EXCEPT !.via = "notice", !.path = p]
  /\ missed' = missed \ {p}
  /\ UNCHANGED <<diskVars, dbVars, deferVars, retries, guiVars, todo, listed,
                 faults>>

\* Mutant: a removed path keeps its place on the retry list.
RemovalKeepsRetry(p) ==
  /\ Notified(p)
  /\ ~Exists(p) /\ known[p] # 0
  /\ known' = [known EXCEPT ![p] = 0]
  /\ retries' = [retries EXCEPT ![p] = 0]
  /\ RemoveReplayFileLink(p)
  /\ Dismissed(p)
  /\ UNCHANGED <<diskVars, deferVars, sweepVars, ioVars>>

(* removeReplayFile: nothing is left to watch for.                         *)
NotifyRemoved(p) ==
  /\ Notified(p)
  /\ ~Exists(p) /\ known[p] # 0
  /\ known' = [known EXCEPT ![p] = 0]
  /\ RemoveWaitForChange(p)
  /\ retries' = [retries EXCEPT ![p] = 0]
  /\ RemoveReplayFileLink(p)
  /\ Dismissed(p)
  /\ UNCHANGED <<diskVars, toCheck, sweepVars, ioVars>>

Notify(p) == NotifyUnchanged(p) \/ NotifyChanged(p) \/ NotifyRemoved(p)

-----------------------------------------------------------------------------
(* Deferred::timerFired, whose pathChanged is synopsizeReplayFile.         *)

\* Mutant: the live list is walked, it is not drained up front.
TimerFiresUndrained ==
  /\ AtRest /\ trigger
  /\ trigger' = FALSE
  /\ toCheck' = [p \in Paths |-> Retry!Aged(m_deferred[p])]
  /\ UNCHANGED <<diskVars, dbVars, watchVars, m_deferred, retries, guiVars,
                 sweepVars, ioVars, faults>>

TimerFires ==
  /\ AtRest /\ trigger
  /\ trigger' = FALSE
  /\ toCheck' = [p \in Paths |-> Retry!Aged(m_deferred[p])]
  /\ m_deferred' = Retry!Nothing
  /\ UNCHANGED <<diskVars, dbVars, watchVars, retries, guiVars, sweepVars,
                 ioVars, faults>>

\* Mutant: only a file that moved is attempted again, however long it stood.
PollReportsChangesOnly(p) == Retry!Changed(toCheck[p], Stat(p))

PollReports(p) ==
  Retry!Changed(toCheck[p], Stat(p)) \/ Retry!LongStopped(toCheck[p])

\* Mutant: an unchanged path is drained and not put back.
PollForgets(p) ==
  /\ pc = "idle" /\ toCheck[p] # None
  /\ ~PollReports(p)
  /\ toCheck' = [toCheck EXCEPT ![p] = None]
  /\ UNCHANGED <<diskVars, dbVars, watchVars, m_deferred, trigger, retries,
                 guiVars, sweepVars, ioVars, faults>>

PollKeeps(p) ==
  /\ pc = "idle" /\ toCheck[p] # None
  /\ ~PollReports(p)
  /\ m_deferred' = [m_deferred EXCEPT ![p] = toCheck[p]]
  /\ trigger' = TRUE
  /\ toCheck' = [toCheck EXCEPT ![p] = None]
  /\ UNCHANGED <<diskVars, dbVars, watchVars, retries, guiVars, sweepVars,
                 ioVars, faults>>

PollRetries(p) ==
  /\ pc = "idle" /\ toCheck[p] # None
  /\ PollReports(p)
  /\ toCheck' = [toCheck EXCEPT ![p] = None]
  /\ pc' = "begin"
  /\ job' = [NoJob EXCEPT !.via = "poll", !.path = p]
  /\ UNCHANGED <<diskVars, dbVars, watchVars, m_deferred, trigger, retries,
                 guiVars, sweepVars, faults>>

-----------------------------------------------------------------------------
(* synopsizeReplayFile: one attempt at a file, open to the folder between  *)
(* any two of its steps.                                                   *)

Begin ==
  /\ pc = "begin"
  /\ Sample(job.path, job.via)
  /\ UNCHANGED <<diskVars, watchVars, toCheck, sweepVars>>

(* performReplaySynopsis: open, looksComplete and parse.                   *)
CanOpen(p) == Exists(p) /\ p \notin locked

OpenFails ==
  /\ pc = "read" /\ ~CanOpen(job.path)
  /\ HandleStorageFailure(job.path, job.observed)
  /\ UNCHANGED <<diskVars, dbVars, watchVars, toCheck, published, sweepVars,
                 faults>>

ParseTorn ==
  /\ pc = "read" /\ CanOpen(job.path)
  /\ disk[job.path].content \in {"empty", "torn"}
  /\ HandleIncomplete(job.path, job.observed, "torn")
  /\ UNCHANGED <<diskVars, watchVars, toCheck, sweepVars>>

(* A read that fails looks to the parser like the end of the file.         *)
ParseMisread ==
  /\ pc = "read" /\ CanOpen(job.path)
  /\ disk[job.path].content \in Checksums
  /\ Fault("misread")
  /\ Unlink(job.path)
  /\ WaitForChange(job.path, job.observed)
  /\ Observed(job.path, "torn")
  /\ Return
  /\ UNCHANGED <<diskVars, watchVars, toCheck, retries, sweepVars>>

ParseCorrupt ==
  /\ pc = "read" /\ CanOpen(job.path)
  /\ disk[job.path].content = "corrupt"
  /\ HandleParseFailure(job.path)
  /\ UNCHANGED <<diskVars, watchVars, toCheck, sweepVars>>

ParseComplete ==
  /\ pc = "read" /\ CanOpen(job.path)
  /\ disk[job.path].content \in Checksums
  /\ pc' = "ingest"
  /\ job' = [job EXCEPT !.checksum = disk[job.path].content]
  /\ UNCHANGED <<diskVars, dbVars, watchVars, deferVars, retries, guiVars,
                 sweepVars, faults>>

(* ingestReplay: the transaction up to its commit.  A replay that is known *)
(* only gains a path; an unknown one is first copied to its place in the   *)
(* store, by name, and never over a file that is already there.            *)
IngestKnown ==
  /\ pc = "ingest" /\ job.checksum \in replays
  /\ pc' = "commit"
  /\ UNCHANGED <<diskVars, dbVars, watchVars, deferVars, retries, guiVars,
                 sweepVars, job, faults>>

CanCopy == CanOpen(job.path) /\ stored[job.checksum] = "absent"

\* Mutant: the rows are committed first, the copy is left for later.
IngestBeforeCopy ==
  /\ pc = "ingest" /\ job.checksum \notin replays
  /\ CanCopy
  /\ pc' = "commit"
  /\ UNCHANGED <<diskVars, dbVars, watchVars, deferVars, retries, guiVars,
                 sweepVars, job, faults>>

IngestUnknown ==
  /\ pc = "ingest" /\ job.checksum \notin replays
  /\ CanCopy
  /\ stored' = [stored EXCEPT ![job.checksum] = disk[job.path].content]
  /\ pc' = "commit"
  /\ UNCHANGED <<diskVars, replays, links, watchVars, deferVars, retries,
                 guiVars, sweepVars, job, faults>>

(* A statement or the copy fails: the transaction is rolled back.          *)
IngestFails ==
  /\ pc = "ingest"
  /\ \/ job.checksum \notin replays /\ ~CanCopy /\ NoFault
     \/ Fault("begin")
  /\ HandleStorageFailure(job.path, job.observed)
  /\ UNCHANGED <<diskVars, dbVars, watchVars, toCheck, published, sweepVars>>

\* Mutant: the file is looked at again when its row is written.
RecordedAsSeenNow ==
  /\ replays' = replays \cup {job.checksum}
  /\ links' = [links EXCEPT ![job.path] =
                 [checksum |-> job.checksum, mark |-> Stat(job.path)]]
  /\ UNCHANGED stored

Recorded ==
  /\ replays' = replays \cup {job.checksum}
  /\ links' = [links EXCEPT ![job.path] =
                 [checksum |-> job.checksum, mark |-> job.observed]]
  /\ UNCHANGED stored

\* Mutant: the replay recorded at the path before is not announced again.
CommitAnnouncesNewOnly ==
  /\ pc = "commit"
  /\ Recorded
  /\ ForwardChangedReplays({job.checksum})
  /\ retries' = [retries EXCEPT ![job.path] = 0]
  /\ Dismissed(job.path)
  /\ Return
  /\ UNCHANGED <<diskVars, watchVars, deferVars, sweepVars, faults>>

(* The commit, and the news about the replay and about the one that was    *)
(* recorded at the path before.                                            *)
Commit ==
  /\ pc = "commit"
  /\ Recorded
  /\ ForwardChangedReplays({job.checksum} \cup LinkedAt(job.path))
  /\ retries' = [retries EXCEPT ![job.path] = 0]
  /\ Dismissed(job.path)
  /\ Return
  /\ UNCHANGED <<diskVars, watchVars, deferVars, sweepVars, faults>>

CommitFails ==
  /\ pc = "commit"
  /\ Fault("commit")
  /\ HandleStorageFailure(job.path, job.observed)
  /\ UNCHANGED <<diskVars, dbVars, watchVars, toCheck, published, sweepVars>>

(* Committed, but reading the rows back for the GUI fails.                 *)
ForwardFails ==
  /\ pc = "commit" /\ ~Sweeping
  /\ Fault("forward")
  /\ Recorded
  /\ HandleStorageFailure(job.path, job.observed)
  /\ UNCHANGED <<diskVars, watchVars, toCheck, published, sweepVars>>

-----------------------------------------------------------------------------
(* The user dismisses an inbox item; it is a matter of the display only.   *)
AcknowledgeItem(p) ==
  /\ AtRest /\ inbox[p] # "none"
  /\ Dismissed(p)
  /\ UNCHANGED <<diskVars, dbVars, watchVars, deferVars, retries, published,
                 sweepVars, ioVars, faults>>

(* exposeReplay, for toggleReplayExposed and ensureReplayExposed: the copy  *)
(* in the store goes to managed/<title> - <checksum>; titles are edited,   *)
(* so that may be any path.  A file that is already there stays.  The rows *)
(* are left to the notification that follows.                              *)
ExposeReplay(c, p) ==
  /\ AtRest /\ c \in replays
  /\ stored[c] # "absent" /\ ~Exists(p)
  /\ disk[p].mark < MaxWrites
  /\ disk' = [disk EXCEPT ![p] = [content |-> stored[c], mark |-> @.mark + 1]]
  /\ Touched(p)
  /\ UNCHANGED <<locked, dbVars, known, deferVars, retries, guiVars,
                 sweepVars, ioVars, faults>>

(* hideReplay: the paths the database links to the replay are selected,    *)
(* then their files are deleted one by one; a file that is held open, or   *)
(* gone, is logged and left.                                               *)
HideReplay(c) ==
  LET external == {p \in Paths : Links(p, c)}
  IN /\ AtRest /\ external # {}
     /\ pc' = "hide"
     /\ todo' = external
     /\ UNCHANGED <<diskVars, dbVars, watchVars, deferVars, retries, guiVars,
                    listed, missed, job, faults>>

HideRemoves(p) ==
  /\ pc = "hide" /\ p \in todo
  /\ todo' = todo \ {p}
  /\ pc' = IF todo' = {} THEN "idle" ELSE "hide"
  /\ \/ /\ CanOpen(p)
        /\ disk' = [disk EXCEPT ![p].content = "absent"]
        /\ Touched(p)
     \/ /\ ~CanOpen(p)
        /\ UNCHANGED <<disk, dirty>>
  /\ UNCHANGED <<locked, dbVars, known, deferVars, retries, guiVars, listed,
                 missed, job, faults>>

(* The process ends, wherever it is.  Files, rows and store copies stay,   *)
(* an open transaction is rolled back.                                     *)
Crash ==
  /\ pc # "down"
  /\ Fault("crash")
  /\ dirty' = {}
  /\ known' = [p \in Paths |-> 0]
  /\ m_deferred' = Retry!Nothing /\ trigger' = FALSE /\ toCheck' = Retry!Nothing
  /\ retries' = [p \in Paths |-> 0]
  /\ inbox' = [p \in Paths |-> "none"]
  /\ published' = [c \in Checksums |-> "unknown"]
  /\ pc' = "down" /\ job' = NoJob
  /\ todo' = {} /\ listed' = {} /\ missed' = {}
  /\ UNCHANGED <<diskVars, dbVars>>

Folder ==
  \/ \E p \in Paths, content \in Contents : Write(p, content)
  \/ \E p \in Paths : Remove(p) \/ Lock(p) \/ Unlock(p)

Startup ==
  \/ Start
  \/ \E p \in Paths : SweepSkips(p) \/ SweepSamples(p)
  \/ SweepFails \/ SweepEnds

User ==
  \/ \E p \in Paths : AcknowledgeItem(p)
  \/ \E c \in Checksums, p \in Paths : ExposeReplay(c, p)
  \/ \E c \in Checksums : HideReplay(c)

Hide == \E p \in Paths : HideRemoves(p)

Poll == \E p \in Paths : PollKeeps(p) \/ PollRetries(p)

Attempt ==
  \/ Begin
  \/ OpenFails \/ ParseTorn \/ ParseMisread \/ ParseCorrupt \/ ParseComplete
  \/ IngestKnown \/ IngestUnknown \/ IngestFails
  \/ Commit \/ CommitFails \/ ForwardFails

Next ==
  \/ Folder
  \/ Startup
  \/ \E p \in Paths : Notify(p)
  \/ TimerFires
  \/ Poll
  \/ Attempt
  \/ User
  \/ Hide
  \/ Crash

Safety == Init /\ [][Next]_vars

(***************************************************************************)
(* The io thread runs its handlers to their end and its event loop serves  *)
(* both posted notifications and expired timers, so neither waits for ever *)
(* behind the other; whoever locked a file closes it again.                *)
(***************************************************************************)
Fairness ==
  /\ WF_vars(Startup \/ Poll \/ Attempt \/ Hide)
  /\ SF_vars(TimerFires)
  /\ \A p \in Paths : SF_vars(Notify(p)) /\ WF_vars(Unlock(p))

Spec == Safety /\ Fairness

-----------------------------------------------------------------------------
File == [content : Contents \cup {"absent"}, mark : Watermarks]
Link == [checksum : Checksums, mark : 1 .. MaxWrites]
Job == [via : {"none", "sweep", "notice", "poll"}, path : Paths \cup {None},
        observed : Watermarks, checksum : Checksums \cup {None}]

FolderTypes ==
  /\ disk \in [Paths -> File]
  /\ locked \subseteq Paths
  /\ dirty \subseteq Paths
  /\ known \in [Paths -> Watermarks]

DatabaseTypes ==
  /\ stored \in [Checksums -> Contents \cup {"absent"}]
  /\ replays \subseteq Checksums
  /\ links \in [Paths -> Link \cup {None}]

RetryTypes ==
  /\ m_deferred \in [Paths -> Retry!Entry \cup {None}]
  /\ trigger \in BOOLEAN
  /\ toCheck \in [Paths -> Retry!Entry \cup {None}]
  /\ retries \in [Paths -> 0 .. MAX_FAST_STORAGE_RETRIES + 1]

ScreenTypes ==
  /\ inbox \in [Paths -> {"none", "pending", "torn", "corrupt"}]
  /\ published \in [Checksums -> {"unknown", "hidden", "exposed"}]

ThreadTypes ==
  /\ pc \in {"down", "sweep", "idle", "hide"} \cup Busy
  /\ job \in Job
  /\ todo \subseteq Paths
  /\ listed \subseteq Paths
  /\ missed \subseteq Paths
  /\ faults \in 0 .. MaxFaults

TypeOK ==
  /\ FolderTypes
  /\ DatabaseTypes
  /\ RetryTypes
  /\ ScreenTypes
  /\ ThreadTypes

(* The io thread has nothing to do for p until somebody acts.              *)
Settled(p) == AtRest /\ p \notin dirty

(***************************************************************************)
(* Whatever is shown as being in the folder is in the catalogue, and       *)
(* whatever is in the catalogue has its copy in the store, at every        *)
(* instant at which the process may end (replaystore.cpp:767 copies before *)
(* the commit).                                                            *)
(***************************************************************************)
CatalogueIsBacked ==
  /\ \A p \in Paths : links[p] # None => links[p].checksum \in replays
  /\ \A c \in replays : stored[c] # "absent"

(***************************************************************************)
(* The start-up fast path never skips a file whose content is not what the *)
(* row says: time and size recorded with a checksum belong to the bytes    *)
(* that were parsed, however the file moved during the attempt             *)
(* (replaystore.cpp:431-438, 212-223).                                     *)
(***************************************************************************)
FastPathIsSound ==
  \A p \in Paths : Matches(p) => disk[p].content = links[p].checksum

(***************************************************************************)
(* No replay is stranded: once the io thread is at rest, a complete file   *)
(* is recorded for what it is or still on the retry list, and one that is  *)
(* being written is on the retry list, whatever locks, faults and restarts *)
(* happened (replaystore.cpp:511-514).  The one exception is the code's    *)
(* own: a sweep whose first query fails (replaystore.cpp:202-203, 239)     *)
(* looks at no path at all, and what it listed waits for a change or for   *)
(* the next start.                                                         *)
(***************************************************************************)
NoReplayIsStranded ==
  \A p \in Paths \ missed :
    Settled(p) /\ m_deferred[p] = None =>
      \/ disk[p].content \in {"absent", "corrupt"}
      \/ disk[p].content \in Checksums /\ Links(p, disk[p].content)

(***************************************************************************)
(* No ghost: a path that is gone is neither retried nor shown as being in  *)
(* the folder, also when it vanished in the middle of an attempt or of a   *)
(* round of the poll (replaystore.cpp:412-419, 421-448).                   *)
(***************************************************************************)
NoGhostRemains ==
  \A p \in Paths :
    Settled(p) /\ disk[p].content = "absent" =>
      m_deferred[p] = None /\ links[p] = None /\ inbox[p] = "none"

(***************************************************************************)
(* An inbox item that promises more to come is backed by an attempt that   *)
(* will be made: nothing shows as pending or torn and is then forgotten.   *)
(***************************************************************************)
PromisesAreKept ==
  \A p \in Paths : inbox[p] \in {"pending", "torn"} =>
    \/ m_deferred[p] # None
    \/ toCheck[p] # None
    \/ pc \in Busy /\ job.path = p

(***************************************************************************)
(* Outside the initial sweep the GUI shows every replay as the database    *)
(* has it; in particular the replay that a path held before it was         *)
(* overwritten is announced again (replaystore.cpp:775-785, 787-811).      *)
(***************************************************************************)
PublishedIsCurrent ==
  ~Sweeping /\ pc # "down" => published = Snapshot(replays, links)

(***************************************************************************)
(* The poll runs exactly while some path waits, across every caller: the   *)
(* sweep, notifications, and handlers re-entered from the poll itself.     *)
(***************************************************************************)
PollRunsWhenNeeded == trigger = (m_deferred # Retry!Nothing)

(* The store uses its retry list as Deferred's own specification allows.   *)
RetryListIsUsedProperly == Retry!Safety

(***************************************************************************)
(* Every replay that stays in the folder is ingested: locks, misreads and  *)
(* failing statements only delay it, however the notifications and the     *)
(* rounds of the poll interleave.                                          *)
(***************************************************************************)
EveryReplayIsIngested ==
  \A p \in Paths, c \in Checksums :
    disk[p].content = c ~>
      (disk[p].content # c \/ (Links(p, c) /\ inbox[p] = "none"))

-----------------------------------------------------------------------------
(* What the repository says of the program and the code does not keep.     *)

(***************************************************************************)
(* Every copy in the store is a complete replay ("It should be complete if *)
(* its internally parsed", replaystore.cpp:271).  The copy is made by name *)
(* after the parse, so it may be of what the game wrote in between.        *)
(***************************************************************************)
StoreHoldsCompleteReplays ==
  \A c \in Checksums : stored[c] \in {"absent"} \cup Checksums

(***************************************************************************)
(* Hiding a replay takes no other replay away: what it deletes from the    *)
(* folder has been gathered (README.md:6, "LEGION will gather every replay *)
(* in your replay folder (including the rolling Last Replay)").            *)
(***************************************************************************)
HidingLosesNoReplay ==
  [][\A p \in Paths :
       /\ pc = "hide" /\ todo' = todo \ {p} /\ p \in todo
       /\ disk[p].content \in Checksums /\ ~Exists(p)'
       => stored[disk[p].content] # "absent"]_vars
=============================================================================
