----------------------------- MODULE Prospector -----------------------------
(***************************************************************************)
(* How the replay folder is followed: kwlegion_core/src/prospector.cpp on  *)
(* the io thread, on top of Qt's QFileSystemWatcher.                       *)
(*                                                                         *)
(* The watcher is two things with different views.  The engine looks at    *)
(* the paths it is armed for from a thread of its own, posts a notice when *)
(* one differs from when it last looked, and lets go of a path that is     *)
(* gone.  The front end keeps the lists that addPath consults and strikes  *)
(* a path that is gone from them only when the notice is delivered.  A     *)
(* directory is looked at for its entries, a file for size and time.       *)
(* Replays are numbered by the write that made them; 0 is no file.         *)
(***************************************************************************)
EXTENDS Naturals, Sequences

CONSTANTS
  Files,      \* canonical paths of *.KWReplay files
  Root,       \* m_replayDirectory
  Subs,       \* folders directly below it
  Home,       \* Home[f]: the folder f is in
  Hasty,      \* awkward moments at which the folder may change, see Folder
  MaxWrites,  \* bound: versions of a file
  MaxMoves,   \* bound: folders made and removed
  None        \* no entry, no path

Dirs == {Root} \cup Subs

ASSUME ProspectorAssumption ==
  /\ Root \notin Subs /\ Files \cap Dirs = {}
  /\ Home \in [Files -> Dirs]
  /\ Hasty \subseteq {"return", "unwatched"}
  /\ MaxWrites \in Nat \ {0} /\ MaxMoves \in Nat
  /\ None \notin Files \cup Dirs \cup Nat
  /\ None \notin [mark : Nat, cached : BOOLEAN]

VARIABLES
  \* the folder
  disk,         \* file -> its mark
  writes,       \* file -> the mark last used
  dirs,         \* the subfolders there are
  moves,        \* bound: folders made and removed so far
  \* QFileSystemWatcher
  engine,       \* file -> the mark the engine last saw, None if not armed
  armed,        \* directories the engine is armed for
  stale,        \* those of them whose entries changed since it looked
  files,        \* m_watcher.files()
  directories,  \* m_watcher.directories()
  queue,        \* posted notices: path, and whether it was gone
  \* the prospector
  m_knownFiles, \* file -> the mark it was tracked at, and whether the entry
                \* has its canonical path cached
  pc, job,      \* the handler that runs and its locals
  \* the store
  told,         \* file -> what the store saw when last told of it
  again         \* history: files it was told the end of without having them

folderVars == <<disk, writes, dirs, moves>>
engineVars == <<engine, armed, stale>>
listVars == <<files, directories>>
ioVars == <<pc, job>>
vars == <<folderVars, engineVars, listVars, queue, m_knownFiles, ioVars, told,
          again>>

Marks == 0 .. MaxWrites

There(d) == d = Root \/ d \in dirs

KnownMark(f) == IF m_knownFiles[f] = None THEN 0 ELSE m_knownFiles[f].mark

\* listed: marks of the files listed and not yet visited.  opened: a folder
\* between its listing and its watch, or the other way round.
NoJob == [dir |-> None, opened |-> None, listed |-> [f \in Files |-> 0],
          subs |-> {}, seen |-> {}, fresh |-> {}, telling |-> {}]

Init ==
  /\ disk \in [Files -> {0, 1}]
  /\ dirs \in SUBSET Subs
  /\ \A f \in Files : disk[f] # 0 => There(Home[f])
  /\ writes = disk
  /\ moves = 0
  /\ engine = [f \in Files |-> None]
  /\ armed = {} /\ stale = {}
  /\ files = {} /\ directories = {}
  /\ queue = <<>>
  /\ m_knownFiles = [f \in Files |-> None]
  /\ pc = "down" /\ job = NoJob
  /\ told = [f \in Files |-> None]
  /\ again = {}

-----------------------------------------------------------------------------
(* The folder.  Two kinds of moment are awkward for the watcher: a path    *)
(* that comes back before the watcher has let go of it ("return"), and a   *)
(* change in a folder that is being read but is not watched ("unwatched"), *)
(* at start-up or because it was gone when it should have been watched.    *)

Noticed(path) == \E i \in 1 .. Len(queue) : queue[i].path = path

LetGo(f) == f \notin files /\ engine[f] = None /\ ~Noticed(f)
LetGoDir(d) == d \notin directories \cup armed /\ ~Noticed(d)

Unwatched(d) == job.opened = d /\ d \notin directories

MayReturn(f) == LetGo(f) \/ "return" \in Hasty
MayChange(d) == ~Unwatched(d) \/ "unwatched" \in Hasty

EntriesMove(d) == stale' = IF d \in armed THEN stale \cup {d} ELSE stale

Overwrite(f) ==
  /\ disk[f] # 0 /\ writes[f] < MaxWrites
  /\ writes' = [writes EXCEPT ![f] = @ + 1]
  /\ disk' = [disk EXCEPT ![f] = writes'[f]]
  /\ UNCHANGED <<dirs, moves, engineVars, listVars, queue, m_knownFiles,
                 ioVars, told, again>>

Create(f) ==
  /\ disk[f] = 0 /\ writes[f] < MaxWrites
  /\ There(Home[f]) /\ MayChange(Home[f]) /\ MayReturn(f)
  /\ writes' = [writes EXCEPT ![f] = @ + 1]
  /\ disk' = [disk EXCEPT ![f] = writes'[f]]
  /\ EntriesMove(Home[f])
  /\ UNCHANGED <<dirs, moves, engine, armed, listVars, queue, m_knownFiles,
                 ioVars, told, again>>

Delete(f) ==
  /\ disk[f] # 0 /\ MayChange(Home[f])
  /\ disk' = [disk EXCEPT ![f] = 0]
  /\ EntriesMove(Home[f])
  /\ UNCHANGED <<writes, dirs, moves, engine, armed, listVars, queue,
                 m_knownFiles, ioVars, told, again>>

(* A folder appears, possibly with replays in it, as when it is moved in.  *)
MakeDir(d, with) ==
  /\ d \notin dirs /\ moves < MaxMoves /\ MayChange(Root) /\ MayChange(d)
  /\ LetGoDir(d) \/ "return" \in Hasty
  /\ \A f \in with : Home[f] = d /\ writes[f] < MaxWrites /\ MayReturn(f)
  /\ dirs' = dirs \cup {d}
  /\ moves' = moves + 1
  /\ writes' = [f \in Files |-> writes[f] + (IF f \in with THEN 1 ELSE 0)]
  /\ disk' = [f \in Files |-> IF f \in with THEN writes'[f] ELSE disk[f]]
  /\ EntriesMove(Root)
  /\ UNCHANGED <<engine, armed, listVars, queue, m_knownFiles, ioVars, told,
                 again>>

RemoveDir(d) ==
  /\ d \in dirs /\ moves < MaxMoves /\ MayChange(Root) /\ MayChange(d)
  /\ dirs' = dirs \ {d}
  /\ moves' = moves + 1
  /\ disk' = [f \in Files |-> IF Home[f] = d THEN 0 ELSE disk[f]]
  /\ EntriesMove(Root)
  /\ UNCHANGED <<writes, engine, armed, listVars, queue, m_knownFiles, ioVars,
                 told, again>>

-----------------------------------------------------------------------------
(* The engine looks at a path it is armed for.                             *)

Post(path, removed) ==
  queue' = Append(queue, [path |-> path, removed |-> removed])

EngineSeesFile(f) ==
  /\ engine[f] # None /\ engine[f] # disk[f]
  /\ Post(f, disk[f] = 0)
  /\ engine' = [engine EXCEPT ![f] = IF disk[f] = 0 THEN None ELSE disk[f]]
  /\ UNCHANGED <<folderVars, armed, stale, listVars, m_knownFiles, ioVars,
                 told, again>>

EngineSeesDir(d) ==
  /\ d \in stale \/ (d \in armed /\ ~There(d))
  /\ Post(d, ~There(d))
  /\ armed' = IF There(d) THEN armed ELSE armed \ {d}
  /\ stale' = stale \ {d}
  /\ UNCHANGED <<folderVars, engine, listVars, m_knownFiles, ioVars, told,
                 again>>

(* addPath: a path that is on the list, or not there, changes nothing.     *)
AddFile(f) ==
  IF f \in files \/ disk[f] = 0
  THEN UNCHANGED <<files, engine>>
  ELSE /\ files' = files \cup {f}
       /\ engine' = [engine EXCEPT ![f] = disk[f]]

AddDirectory(d) ==
  IF d \in directories \/ ~There(d)
  THEN UNCHANGED <<directories, armed, stale>>
  ELSE /\ directories' = directories \cup {d}
       /\ armed' = armed \cup {d}
       /\ stale' = stale \ {d}

-----------------------------------------------------------------------------
(* What the handlers are made of.                                          *)

FilesIn(d) == {f \in Files : Home[f] = d /\ disk[f] # 0}
SubsIn(d) == IF d = Root THEN dirs ELSE {}

(* A directory iterator delivers what the folder held when it was opened.  *)
WithListing(d) ==
  [f \in Files |-> IF f \in FilesIn(d) THEN disk[f] ELSE job.listed[f]]

Visited(f) == [job.listed EXCEPT ![f] = 0]
AllVisited == \A f \in Files : job.listed[f] = 0

\* Mutant: a file is remembered and the watch on its folder relied on.
TrackUnwatched(f, cached) ==
  /\ m_knownFiles' =
       [m_knownFiles EXCEPT ![f] = [mark |-> job.listed[f], cached |-> cached]]
  /\ UNCHANGED <<files, engine>>

\* Mutant: the file is looked at again for the entry, and may be gone.
TrackAsSeenNow(f, cached) ==
  /\ m_knownFiles' =
       [m_knownFiles EXCEPT ![f] = [mark |-> disk[f], cached |-> cached]]
  /\ AddFile(f)

(* trackFile: the entry, then the watch.                                   *)
TrackFile(f, cached) ==
  /\ m_knownFiles' =
       [m_knownFiles EXCEPT ![f] = [mark |-> job.listed[f], cached |-> cached]]
  /\ AddFile(f)

(* untrackFile, and replayFileRemoved                                      *)
UntrackFiles(gone) ==
  /\ files' = files \ gone
  /\ engine' = [f \in Files |-> IF f \in gone THEN None ELSE engine[f]]
  /\ told' = [f \in Files |-> IF f \in gone THEN None ELSE told[f]]
  /\ again' = again \cup {f \in gone : told[f] = None}

(* replayFileChanged and initialSweepCompleted: the store looks at the     *)
(* file when it handles the signal, not when the prospector did.           *)
Tells(f) ==
  /\ f \in job.telling
  /\ told' = [told EXCEPT ![f] = disk[f]]
  /\ UNCHANGED again
  /\ job' = [job EXCEPT !.telling = @ \ {f}]
  /\ pc' = IF pc = "file" /\ job'.telling = {} THEN "idle" ELSE pc
  /\ UNCHANGED <<folderVars, engineVars, listVars, queue, m_knownFiles>>

-----------------------------------------------------------------------------
(* initialSweep.  The iterator is built before addPath is called, and it   *)
(* reads one entry ahead, so each folder is opened before it is watched.   *)

SweepBegins ==
  /\ pc = "down"
  /\ pc' = "sweep"
  /\ job' = [NoJob EXCEPT !.subs = {Root}]
  /\ UNCHANGED <<folderVars, engineVars, listVars, queue, m_knownFiles, told,
                 again>>

SweepOpens(d) ==
  /\ pc = "sweep" /\ job.opened = None /\ d \in job.subs
  /\ job' = [job EXCEPT !.opened = d, !.subs = (@ \ {d}) \cup SubsIn(d),
                        !.listed = WithListing(d)]
  /\ UNCHANGED <<folderVars, engineVars, listVars, queue, m_knownFiles, pc,
                 told, again>>

SweepWatches ==
  /\ pc = "sweep" /\ job.opened # None
  /\ AddDirectory(job.opened)
  /\ job' = [job EXCEPT !.opened = None]
  /\ UNCHANGED <<folderVars, engine, files, queue, m_knownFiles, pc, told,
                 again>>

SweepTracks(f) ==
  /\ pc = "sweep" /\ job.opened = None /\ job.listed[f] # 0
  /\ TrackFile(f, TRUE)
  /\ job' = [job EXCEPT !.listed = Visited(f)]
  /\ UNCHANGED <<folderVars, armed, stale, directories, queue, pc, told,
                 again>>

SweepEnds ==
  LET found == {f \in Files : m_knownFiles[f] # None}
  IN /\ pc = "sweep" /\ job.opened = None /\ job.subs = {} /\ AllVisited
     /\ pc' = IF found = {} THEN "idle" ELSE "file"
     /\ job' = [NoJob EXCEPT !.telling = found]
     /\ UNCHANGED <<folderVars, engineVars, listVars, queue, m_knownFiles,
                    told, again>>

-----------------------------------------------------------------------------
(* The event loop delivers the oldest notice.  The front end forgets a     *)
(* path it has no longer on its list and strikes one that was gone.        *)

Delivered(path) ==
  /\ pc = "idle" /\ queue # <<>>
  /\ path = Head(queue).path
  /\ queue' = Tail(queue)

Struck(paths, path) == IF Head(queue).removed THEN paths \ {path} ELSE paths

Discard(path) ==
  /\ Delivered(path)
  /\ path \notin files \cup directories
  /\ UNCHANGED <<folderVars, engineVars, listVars, m_knownFiles, ioVars, told,
                 again>>

(* watchedFileChanged                                                      *)
FileUnknownOrUnchanged(f) ==
  /\ Delivered(f) /\ f \in files
  /\ files' = Struck(files, f)
  /\ KnownMark(f) \in {0, disk[f]}
  /\ UNCHANGED <<folderVars, engineVars, directories, m_knownFiles, ioVars,
                 told, again>>

FileGone(f) ==
  /\ Delivered(f) /\ f \in files
  /\ KnownMark(f) # 0 /\ disk[f] = 0
  /\ m_knownFiles' = [m_knownFiles EXCEPT ![f] = None]
  /\ UntrackFiles({f})
  /\ UNCHANGED <<folderVars, armed, stale, directories, ioVars>>

FileChanged(f) ==
  /\ Delivered(f) /\ f \in files
  /\ KnownMark(f) # 0 /\ disk[f] \notin {0, KnownMark(f)}
  /\ files' = Struck(files, f)
  /\ pc' = "file"
  /\ job' = [NoJob EXCEPT !.listed[f] = disk[f]]
  /\ UNCHANGED <<folderVars, engineVars, directories, m_knownFiles, told,
                 again>>

FileTracks(f) ==
  /\ pc = "file" /\ job.listed[f] # 0
  /\ TrackFile(f, FALSE)
  /\ job' = [NoJob EXCEPT !.telling = {f}]
  /\ UNCHANGED <<folderVars, armed, stale, directories, queue, pc, told,
                 again>>

(* watchedDirectoryChanged                                                 *)
Rescan(d) ==
  /\ Delivered(d) /\ d \in directories
  /\ directories' = Struck(directories, d)
  /\ pc' = "rescan"
  /\ job' = [NoJob EXCEPT !.dir = d, !.listed = WithListing(d),
                          !.subs = SubsIn(d)]
  /\ UNCHANGED <<folderVars, engineVars, files, m_knownFiles, told, again>>

Rescanning == pc = "rescan" /\ job.opened = None /\ job.telling = {}

SkipSub(d) ==
  /\ Rescanning /\ job.fresh = {} /\ d \in job.subs /\ d \in directories
  /\ job' = [job EXCEPT !.subs = @ \ {d}]
  /\ UNCHANGED <<folderVars, engineVars, listVars, queue, m_knownFiles, pc,
                 told, again>>

\* Mutant: a folder that shows up is read but not watched.
TreeUnwatched(d) ==
  /\ Rescanning /\ job.fresh = {} /\ d \in job.subs /\ d \notin directories
  /\ job' = [job EXCEPT !.subs = @ \ {d}, !.opened = d]
  /\ UNCHANGED <<folderVars, engineVars, listVars, queue, m_knownFiles, pc,
                 told, again>>

(* watchDirectoryTree: the watch first, then the listing; every replay in  *)
(* the new folder is reported.                                             *)
TreeWatches(d) ==
  /\ Rescanning /\ job.fresh = {} /\ d \in job.subs /\ d \notin directories
  /\ AddDirectory(d)
  /\ job' = [job EXCEPT !.subs = @ \ {d}, !.opened = d]
  /\ UNCHANGED <<folderVars, engine, files, queue, m_knownFiles, pc, told,
                 again>>

TreeOpens ==
  /\ pc = "rescan" /\ job.opened # None
  /\ job' = [job EXCEPT !.listed = WithListing(job.opened),
                        !.fresh = FilesIn(job.opened), !.opened = None]
  /\ UNCHANGED <<folderVars, engineVars, listVars, queue, m_knownFiles, pc,
                 told, again>>

IsNews(f) == f \in job.fresh \/ KnownMark(f) # job.listed[f]

Visiting(f) ==
  /\ Rescanning /\ job.listed[f] # 0
  /\ job.fresh = {} \/ f \in job.fresh

RescanFindsNews(f) ==
  /\ Visiting(f) /\ IsNews(f)
  /\ TrackFile(f, TRUE)
  /\ job' = [job EXCEPT !.listed = Visited(f), !.seen = @ \cup {f},
                        !.fresh = @ \ {f}, !.telling = {f}]
  /\ UNCHANGED <<folderVars, armed, stale, directories, queue, pc, told,
                 again>>

RescanFindsNoNews(f) ==
  /\ Visiting(f) /\ ~IsNews(f)
  /\ job' = [job EXCEPT !.listed = Visited(f), !.seen = @ \cup {f}]
  /\ UNCHANGED <<folderVars, engineVars, listVars, queue, m_knownFiles, pc,
                 told, again>>

\* Mutant: whatever the folder once held and does not now counts as gone.
OnceInFolder(f) == Home[f] = job.dir /\ writes[f] # 0

(* The known files of the folder that were not seen are gone.  canonicalPath *)
(* has no answer for a file that is gone, unless the entry has it cached,    *)
(* and looking it up for the others caches it.                               *)
InFolder(f) ==
  /\ m_knownFiles[f] # None /\ Home[f] = job.dir
  /\ m_knownFiles[f].cached \/ disk[f] # 0

RescanEnds ==
  LET gone == {f \in Files : InFolder(f) /\ f \notin job.seen}
      Looked(f) == IF m_knownFiles[f] = None \/ disk[f] = 0
                   THEN m_knownFiles[f]
                   ELSE [m_knownFiles[f] EXCEPT !.cached = TRUE]
  IN /\ Rescanning /\ job.subs = {} /\ AllVisited
     /\ m_knownFiles' = [f \in Files |-> IF f \in gone THEN None ELSE Looked(f)]
     /\ UntrackFiles(gone)
     /\ pc' = "idle" /\ job' = NoJob
     /\ UNCHANGED <<folderVars, armed, stale, directories, queue>>

-----------------------------------------------------------------------------
Folder ==
  \/ \E f \in Files : Overwrite(f) \/ Create(f) \/ Delete(f)
  \/ \E d \in Subs : RemoveDir(d)
  \/ \E d \in Subs, with \in SUBSET Files : MakeDir(d, with)

Engine ==
  \/ \E f \in Files : EngineSeesFile(f)
  \/ \E d \in Dirs : EngineSeesDir(d)

Sweep ==
  \/ SweepBegins
  \/ \E d \in Dirs : SweepOpens(d)
  \/ SweepWatches
  \/ \E f \in Files : SweepTracks(f)
  \/ SweepEnds

Handler ==
  \/ \E f \in Files :
       FileUnknownOrUnchanged(f) \/ FileGone(f) \/ FileChanged(f) \/ FileTracks(f)
  \/ \E path \in Files \cup Dirs : Discard(path)
  \/ \E d \in Dirs : Rescan(d) \/ SkipSub(d) \/ TreeWatches(d)
  \/ TreeOpens
  \/ \E f \in Files : RescanFindsNews(f) \/ RescanFindsNoNews(f) \/ Tells(f)
  \/ RescanEnds

Next == Folder \/ Engine \/ Sweep \/ Handler

Safety == Init /\ [][Next]_vars

(* Both threads run: the engine looks again, the io thread goes on.        *)
Spec == Safety /\ WF_vars(Engine) /\ WF_vars(Sweep \/ Handler)

-----------------------------------------------------------------------------
FolderTypes ==
  /\ disk \in [Files -> Marks]
  /\ writes \in [Files -> Marks]
  /\ dirs \subseteq Subs
  /\ moves \in 0 .. MaxMoves

WatcherTypes ==
  /\ engine \in [Files -> Marks \cup {None}]
  /\ stale \subseteq armed
  /\ armed \subseteq Dirs
  /\ files \subseteq Files
  /\ directories \subseteq Dirs
  /\ queue \in Seq([path : Files \cup Dirs, removed : BOOLEAN])

Known == [mark : Marks \ {0}, cached : BOOLEAN]

Job == [dir : Dirs \cup {None}, opened : Dirs \cup {None},
        listed : [Files -> Marks], subs : SUBSET Dirs, seen : SUBSET Files,
        fresh : SUBSET Files, telling : SUBSET Files]

ThreadTypes ==
  /\ m_knownFiles \in [Files -> Known \cup {None}]
  /\ pc \in {"down", "sweep", "idle", "rescan", "file"}
  /\ job \in Job
  /\ told \in [Files -> Marks \cup {None}]

HistoryTypes == again \subseteq Files

TypeOK == FolderTypes /\ WatcherTypes /\ ThreadTypes /\ HistoryTypes

(* Nothing more will happen unless the folder changes.                     *)
Quiescent ==
  /\ pc = "idle" /\ queue = <<>>
  /\ \A f \in Files : engine[f] \in {None, disk[f]}
  /\ stale = {} /\ \A d \in armed : There(d)

(***************************************************************************)
(* Once things are quiet the store has seen every replay of the folder as  *)
(* it now is and was told of every one that went, however creations,       *)
(* overwrites, moves of whole folders, the engine's looks and the rescans  *)
(* interleaved.  The watch comes before the report for that reason         *)
(* (prospector.cpp:120-121, 176-177, 239-240, 262-281).                    *)
(***************************************************************************)
InStep == \A f \in Files : told[f] = IF disk[f] = 0 THEN None ELSE disk[f]

FolderIsFollowed == Quiescent => InStep

(***************************************************************************)
(* The map of known files and Qt's lists do not drift apart (prospector.h  *)
(* 114-117): once things are quiet every replay and every folder there is  *)
(* is watched, and nothing that is gone is.                                *)
(***************************************************************************)
NothingGoesUnwatched ==
  Quiescent =>
    /\ \A f \in Files :
         LET watched == f \in files /\ engine[f] = disk[f]
         IN IF disk[f] = 0 THEN LetGo(f) /\ m_knownFiles[f] = None
            ELSE watched /\ m_knownFiles[f] # None
    /\ directories = {Root} \cup dirs /\ armed = directories

(***************************************************************************)
(* The end of a file is announced exactly once for every time the store    *)
(* was told of the file: never again when the second of the two notices    *)
(* of a deletion comes, whichever that is (prospector.cpp:209-214), and    *)
(* whenever the prospector is at rest, what it tracks is what the store    *)
(* was told of and not told the end of.                                    *)
(***************************************************************************)
KnownIsAnnounced ==
  /\ again = {}
  /\ pc = "idle" => \A f \in Files : m_knownFiles[f] # None <=> told[f] # None

(***************************************************************************)
(* Once the folder stays as it is (and its writes are bounded here) the    *)
(* store comes to have it right for good: no sweep, rescan or delivery     *)
(* gets stuck half way, and the engine's last look is acted on.            *)
(***************************************************************************)
FolderIsCaughtUp == <>[]InStep

-----------------------------------------------------------------------------
(* What the repository says of the program and the code does not keep.     *)

(***************************************************************************)
(* A file that is recreated does not stop being watched (prospector.cpp:   *)
(* 246-250, "re-adding is the point, since Qt drops a watch when its file  *)
(* disappears and a recreated path would otherwise silently stop being     *)
(* watched").  Re-adding is in vain while the path is still on Qt's list,  *)
(* and the notice that strikes it then reads as one already accounted for. *)
(***************************************************************************)
RecreatedFilesAreWatched ==
  Quiescent => \A f \in Files : disk[f] # 0 => f \in files /\ engine[f] = disk[f]
=============================================================================
