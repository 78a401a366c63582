-------------------------- MODULE ProspectorProofs --------------------------
(***************************************************************************)
(* What holds of Prospector for any files, folders and writes.  Whatever   *)
(* the haste: the types, and that the store is told of a file's end        *)
(* exactly when it was told of the file.  Where the folder does not change *)
(* at awkward moments: once things are quiet the folder is followed, and   *)
(* nothing in it goes unwatched.                                           *)
(***************************************************************************)
EXTENDS Prospector, TLAPS

(* The sweep announces only at its end, and a rescan or a file's notice    *)
(* has one report to make at a time.                                       *)
Announced ==
  /\ pc = "down" => \A f \in Files : m_knownFiles[f] = None
  /\ pc \in {"down", "sweep"} => \A f \in Files : told[f] = None
  /\ pc \in {"down", "sweep", "idle"} => job.telling = {}
  /\ pc \notin {"down", "sweep"} =>
       \A f \in Files :
         m_knownFiles[f] # None <=> told[f] # None \/ f \in job.telling
  /\ pc = "file" /\ job.telling # {} => AllVisited

(* No end of a file was announced that the store did not know.             *)
OnceOnly == again = {}

StateTypes == FolderTypes /\ WatcherTypes /\ ThreadTypes

IInv == StateTypes /\ Announced

-----------------------------------------------------------------------------
LEMMA MarkTypes ==
  /\ 0 \in Marks /\ None \notin Marks /\ None \notin Known
  /\ None \notin Dirs /\ None \notin Files
BY ProspectorAssumption DEF Marks, Known

LEMMA NoJobTypes == NoJob \in Job
BY MarkTypes DEF NoJob, Job

LEMMA ListingTypes ==
  ASSUME StateTypes, NEW d \in Dirs
  PROVE  WithListing(d) \in [Files -> Marks] /\ SubsIn(d) \subseteq Dirs
BY DEF StateTypes, FolderTypes, ThreadTypes, WithListing, SubsIn, Job, Dirs

(* What trackFile and addPath do to the lists.                             *)
LEMMA TrackTypes ==
  ASSUME StateTypes, NEW f \in Files, NEW cached \in BOOLEAN,
         job.listed[f] # 0, TrackFile(f, cached)
  PROVE  /\ engine' \in [Files -> Marks \cup {None}]
         /\ files' \subseteq Files
         /\ m_knownFiles' \in [Files -> Known \cup {None}]
         /\ m_knownFiles'[f] # None
         /\ \A g \in Files \ {f} : m_knownFiles'[g] = m_knownFiles[g]
<1> USE DEF StateTypes, FolderTypes, WatcherTypes, ThreadTypes
<1>1. job.listed[f] \in Marks \ {0}
  BY DEF Job
<1>2. [mark |-> job.listed[f], cached |-> cached] \in Known
  BY <1>1 DEF Known
<1>3. engine' \in [Files -> Marks \cup {None}] /\ files' \subseteq Files
  BY DEF TrackFile, AddFile
<1>4. m_knownFiles' =
        [m_knownFiles EXCEPT ![f] =
           [mark |-> job.listed[f], cached |-> cached]]
  BY DEF TrackFile
<1>5. QED
  BY <1>2, <1>3, <1>4, MarkTypes

LEMMA AddDirectoryTypes ==
  ASSUME StateTypes, NEW d \in Dirs, AddDirectory(d)
  PROVE  stale' \subseteq armed' /\ armed' \subseteq Dirs
         /\ directories' \subseteq Dirs
BY DEF StateTypes, WatcherTypes, AddDirectory

LEMMA InitIInv == Init => IInv
<1> SUFFICES ASSUME Init PROVE IInv
  OBVIOUS
<1>1. FolderTypes
  BY ProspectorAssumption DEF Init, FolderTypes, Marks
<1>2. WatcherTypes
  BY DEF Init, WatcherTypes
<1>3. ThreadTypes
  BY NoJobTypes DEF Init, ThreadTypes
<1>4. Announced
  BY DEF Init, Announced, NoJob
<1>5. QED
  BY <1>1, <1>2, <1>3, <1>4 DEF IInv, StateTypes

-----------------------------------------------------------------------------
LEMMA StepFolder ==
  ASSUME IInv, Folder
  PROVE  IInv'
<1> USE ProspectorAssumption
<1>1. UNCHANGED <<listVars, engine, armed, queue, m_knownFiles, ioVars, told, again>>
  BY DEF Folder, Overwrite, Create, Delete, MakeDir, RemoveDir, EntriesMove,
     engineVars
<1>2. Announced' /\ ThreadTypes'
  BY <1>1 DEF IInv, StateTypes, ThreadTypes, Announced, AllVisited, ioVars
<1>3. stale' \subseteq armed'
  BY <1>1 DEF Folder, Overwrite, Create, Delete, MakeDir, RemoveDir,
     EntriesMove, engineVars, IInv, StateTypes, WatcherTypes
<1>4. WatcherTypes'
  BY <1>1, <1>3 DEF IInv, StateTypes, WatcherTypes, listVars
<1>5. FolderTypes'
  <2> USE DEF IInv, StateTypes, FolderTypes, Marks
  <2>1. CASE \E f \in Files : Overwrite(f) \/ Create(f) \/ Delete(f)
    BY <2>1 DEF Overwrite, Create, Delete
  <2>2. CASE \E d \in Subs : RemoveDir(d)
    BY <2>2 DEF RemoveDir
  <2>3. CASE \E d \in Subs, with \in SUBSET Files : MakeDir(d, with)
    <3> PICK d \in Subs, with \in SUBSET Files : MakeDir(d, with)
      BY <2>3
    <3>1. writes' \in [Files -> Marks]
      BY DEF MakeDir
    <3>2. QED
      BY <3>1 DEF MakeDir
  <2>4. QED
    BY <2>1, <2>2, <2>3 DEF Folder
<1>6. QED
  BY <1>2, <1>4, <1>5 DEF IInv, StateTypes

LEMMA StepEngine ==
  ASSUME IInv, Engine
  PROVE  IInv'
<1>1. UNCHANGED <<folderVars, listVars, m_knownFiles, ioVars, told, again>>
  BY DEF Engine, EngineSeesFile, EngineSeesDir
<1>2. FolderTypes' /\ Announced' /\ ThreadTypes'
  BY <1>1 DEF IInv, StateTypes, FolderTypes, ThreadTypes, Announced, AllVisited,
     folderVars, ioVars
<1>3. WatcherTypes'
  <2> USE DEF IInv, StateTypes, FolderTypes, WatcherTypes, listVars
  <2>1. ASSUME NEW f \in Files, EngineSeesFile(f)
        PROVE  WatcherTypes'
    <3>1. queue' \in Seq([path : Files \cup Dirs, removed : BOOLEAN])
      BY <2>1 DEF EngineSeesFile, Post
    <3>2. engine' \in [Files -> Marks \cup {None}]
      BY <2>1 DEF EngineSeesFile
    <3>3. QED
      BY <1>1, <2>1, <3>1, <3>2 DEF EngineSeesFile
  <2>2. ASSUME NEW d \in Dirs, EngineSeesDir(d)
        PROVE  WatcherTypes'
    <3>1. queue' \in Seq([path : Files \cup Dirs, removed : BOOLEAN])
      BY <2>2 DEF EngineSeesDir, Post, There
    <3>2. stale' \subseteq armed' /\ armed' \subseteq Dirs
      BY <2>2 DEF EngineSeesDir
    <3>3. QED
      BY <1>1, <2>2, <3>1, <3>2 DEF EngineSeesDir
  <2>3. QED
    BY <2>1, <2>2 DEF Engine
<1>4. QED
  BY <1>2, <1>3 DEF IInv, StateTypes

LEMMA StepSweep ==
  ASSUME IInv, Sweep
  PROVE  IInv'
<1> USE MarkTypes, NoJobTypes
<1>1. UNCHANGED <<folderVars, queue, told, again>>
  BY DEF Sweep, SweepBegins, SweepOpens, SweepWatches, SweepTracks, SweepEnds
<1>2. FolderTypes'
  BY <1>1 DEF IInv, StateTypes, FolderTypes, folderVars
<1>3. CASE SweepBegins
  <2>1. WatcherTypes'
    BY <1>3 DEF SweepBegins, IInv, StateTypes, WatcherTypes, engineVars, listVars
  <2>2. job' \in Job
    BY <1>3 DEF SweepBegins, NoJob, Job, Dirs
  <2>3. ThreadTypes'
    BY <1>3, <2>2 DEF SweepBegins, IInv, StateTypes, ThreadTypes
  <2>4. Announced'
    BY <1>3 DEF SweepBegins, IInv, Announced, NoJob
  <2>5. QED
    BY <1>2, <2>1, <2>3, <2>4 DEF IInv, StateTypes
<1>4. ASSUME NEW d \in Dirs, SweepOpens(d)
      PROVE  IInv'
  <2>1. WatcherTypes'
    BY <1>4 DEF SweepOpens, IInv, StateTypes, WatcherTypes, engineVars, listVars
  <2>2. job' \in Job
    BY <1>4, ListingTypes DEF SweepOpens, IInv, StateTypes, ThreadTypes, Job
  <2>3. ThreadTypes'
    BY <1>4, <2>2 DEF SweepOpens, IInv, StateTypes, ThreadTypes
  <2>4. Announced'
    BY <1>4 DEF SweepOpens, IInv, StateTypes, ThreadTypes, Announced, Job
  <2>5. QED
    BY <1>2, <2>1, <2>3, <2>4 DEF IInv, StateTypes
<1>5. CASE SweepWatches
  <2>1. job.opened \in Dirs
    BY <1>5 DEF SweepWatches, IInv, StateTypes, ThreadTypes, Job
  <2>2. WatcherTypes'
    BY <1>5, <2>1, AddDirectoryTypes
       DEF SweepWatches, IInv, StateTypes, WatcherTypes
  <2>3. job' \in Job
    BY <1>5 DEF SweepWatches, IInv, StateTypes, ThreadTypes, Job
  <2>4. ThreadTypes'
    BY <1>5, <2>3 DEF SweepWatches, IInv, StateTypes, ThreadTypes
  <2>5. Announced'
    BY <1>5 DEF SweepWatches, IInv, StateTypes, ThreadTypes, Announced, Job
  <2>6. QED
    BY <1>2, <2>2, <2>4, <2>5 DEF IInv, StateTypes
<1>6. ASSUME NEW f \in Files, SweepTracks(f)
      PROVE  IInv'
  <2>1. WatcherTypes' /\ m_knownFiles' \in [Files -> Known \cup {None}]
    BY <1>6, TrackTypes DEF SweepTracks, IInv, StateTypes, WatcherTypes
  <2>2. job' \in Job
    BY <1>6 DEF SweepTracks, Visited, IInv, StateTypes, ThreadTypes, Job
  <2>3. ThreadTypes'
    BY <1>6, <2>1, <2>2 DEF SweepTracks, IInv, StateTypes, ThreadTypes
  <2>4. Announced'
    BY <1>6 DEF SweepTracks, IInv, StateTypes, ThreadTypes, Announced, Job
  <2>5. QED
    BY <1>2, <2>1, <2>3, <2>4 DEF IInv, StateTypes
<1>7. CASE SweepEnds
  <2> DEFINE found == {f \in Files : m_knownFiles[f] # None}
  <2>1. job' = [NoJob EXCEPT !.telling = found]
    BY <1>7 DEF SweepEnds
  <2>2. WatcherTypes'
    BY <1>7 DEF SweepEnds, IInv, StateTypes, WatcherTypes, engineVars, listVars
  <2>3. job' \in Job /\ job'.telling = found
    BY <2>1 DEF NoJob, Job
  <2>4. ThreadTypes'
    BY <1>7, <2>3 DEF SweepEnds, IInv, StateTypes, ThreadTypes
  <2>5. \A f \in Files : job'.listed[f] = 0
    BY <2>1 DEF NoJob
  <2>6. Announced'
    BY <1>7, <2>3, <2>5 DEF SweepEnds, IInv, Announced, AllVisited
  <2>7. QED
    BY <1>2, <2>2, <2>4, <2>6 DEF IInv, StateTypes
<1>8. QED
  BY <1>3, <1>4, <1>5, <1>6, <1>7 DEF Sweep

-----------------------------------------------------------------------------
(* A delivery takes the oldest notice and strikes at most its path.        *)
LEMMA DeliveryTypes ==
  ASSUME StateTypes, NEW path \in Files \cup Dirs, Delivered(path)
  PROVE  /\ queue' \in Seq([path : Files \cup Dirs, removed : BOOLEAN])
         /\ \A paths : Struck(paths, path) \subseteq paths
BY DEF StateTypes, WatcherTypes, Delivered, Struck

LEMMA StepFileNotice ==
  ASSUME IInv, NEW f \in Files,
         FileUnknownOrUnchanged(f) \/ FileGone(f) \/ FileChanged(f)
           \/ FileTracks(f)
  PROVE  IInv'
<1> USE MarkTypes, NoJobTypes
<1>1. CASE FileUnknownOrUnchanged(f)
  <2>1. WatcherTypes'
    BY <1>1, DeliveryTypes
       DEF FileUnknownOrUnchanged, IInv, StateTypes, WatcherTypes, engineVars
  <2>2. FolderTypes' /\ ThreadTypes' /\ Announced'
    BY <1>1 DEF FileUnknownOrUnchanged, IInv, StateTypes, FolderTypes,
       ThreadTypes, Announced, AllVisited, folderVars, ioVars
  <2>3. QED
    BY <2>1, <2>2 DEF IInv, StateTypes
<1>2. CASE FileGone(f)
  <2>1. WatcherTypes'
    BY <1>2, DeliveryTypes
       DEF FileGone, UntrackFiles, IInv, StateTypes, WatcherTypes
  <2>2. FolderTypes' /\ ThreadTypes'
    BY <1>2 DEF FileGone, UntrackFiles, IInv, StateTypes, FolderTypes,
       ThreadTypes, folderVars, ioVars
  <2>3. Announced'
    BY <1>2 DEF FileGone, Delivered, UntrackFiles, IInv, StateTypes, ThreadTypes,
       Announced, ioVars
  <2>4. QED
    BY <2>1, <2>2, <2>3 DEF IInv, StateTypes
<1>3. CASE FileChanged(f)
  <2>1. WatcherTypes'
    BY <1>3, DeliveryTypes
       DEF FileChanged, IInv, StateTypes, WatcherTypes, engineVars
  <2>2. disk[f] \in Marks
    BY DEF IInv, StateTypes, FolderTypes
  <2>3. job' \in Job /\ job'.telling = {}
    BY <1>3, <2>2 DEF FileChanged, NoJob, Job
  <2>4. FolderTypes' /\ ThreadTypes'
    BY <1>3, <2>3 DEF FileChanged, IInv, StateTypes, FolderTypes, ThreadTypes,
       folderVars
  <2>5. Announced'
    BY <1>3, <2>3 DEF FileChanged, Delivered, IInv, Announced
  <2>6. QED
    BY <2>1, <2>4, <2>5 DEF IInv, StateTypes
<1>4. CASE FileTracks(f)
  <2>1. /\ WatcherTypes' /\ m_knownFiles' \in [Files -> Known \cup {None}]
        /\ m_knownFiles'[f] # None
        /\ \A g \in Files \ {f} : m_knownFiles'[g] = m_knownFiles[g]
    BY <1>4, TrackTypes DEF FileTracks, IInv, StateTypes, WatcherTypes
  <2>2. job' \in Job /\ job'.telling = {f}
    BY <1>4 DEF FileTracks, NoJob, Job
  <2>3. \A g \in Files : job'.listed[g] = 0
    BY <1>4 DEF FileTracks, NoJob
  <2>4. FolderTypes' /\ ThreadTypes'
    BY <1>4, <2>1, <2>2 DEF FileTracks, IInv, StateTypes, FolderTypes,
       ThreadTypes, folderVars
  <2>5. job.telling = {}
    BY <1>4 DEF FileTracks, IInv, Announced, AllVisited
  <2>6. Announced'
    BY <1>4, <2>1, <2>2, <2>3, <2>5
       DEF FileTracks, IInv, Announced, AllVisited
  <2>7. QED
    BY <2>1, <2>4, <2>6 DEF IInv, StateTypes
<1>5. QED
  BY <1>1, <1>2, <1>3, <1>4

LEMMA StepRescan ==
  ASSUME IInv, NEW d \in Dirs, Rescan(d) \/ SkipSub(d) \/ TreeWatches(d)
  PROVE  IInv'
<1> USE MarkTypes, NoJobTypes
<1>1. CASE Rescan(d)
  <2>1. WatcherTypes'
    BY <1>1, DeliveryTypes
       DEF Rescan, IInv, StateTypes, WatcherTypes, engineVars
  <2>2. job' \in Job /\ job'.telling = {}
    BY <1>1, ListingTypes DEF Rescan, NoJob, Job, IInv
  <2>3. FolderTypes' /\ ThreadTypes'
    BY <1>1, <2>2 DEF Rescan, IInv, StateTypes, FolderTypes, ThreadTypes,
       folderVars
  <2>4. Announced'
    BY <1>1, <2>2 DEF Rescan, Delivered, IInv, Announced
  <2>5. QED
    BY <2>1, <2>3, <2>4 DEF IInv, StateTypes
<1>2. CASE SkipSub(d)
  <2>1. job' \in Job /\ job'.telling = job.telling
    BY <1>2 DEF SkipSub, IInv, StateTypes, ThreadTypes, Job
  <2>2. StateTypes'
    BY <1>2, <2>1 DEF SkipSub, IInv, StateTypes, FolderTypes, WatcherTypes,
       ThreadTypes, folderVars, engineVars, listVars
  <2>3. Announced'
    BY <1>2, <2>1 DEF SkipSub, Rescanning, IInv, Announced
  <2>4. QED
    BY <2>2, <2>3 DEF IInv
<1>3. CASE TreeWatches(d)
  <2>1. job' \in Job /\ job'.telling = job.telling
    BY <1>3 DEF TreeWatches, IInv, StateTypes, ThreadTypes, Job
  <2>2. WatcherTypes'
    BY <1>3, AddDirectoryTypes DEF TreeWatches, IInv, StateTypes, WatcherTypes
  <2>3. FolderTypes' /\ ThreadTypes'
    BY <1>3, <2>1 DEF TreeWatches, IInv, StateTypes, FolderTypes, ThreadTypes,
       folderVars
  <2>4. Announced'
    BY <1>3, <2>1 DEF TreeWatches, Rescanning, IInv, Announced
  <2>5. QED
    BY <2>2, <2>3, <2>4 DEF IInv, StateTypes
<1>4. QED
  BY <1>1, <1>2, <1>3

LEMMA StepVisit ==
  ASSUME IInv, NEW f \in Files, RescanFindsNews(f) \/ RescanFindsNoNews(f)
  PROVE  IInv'
<1> USE MarkTypes
<1>1. CASE RescanFindsNews(f)
  <2>1. /\ WatcherTypes' /\ m_knownFiles' \in [Files -> Known \cup {None}]
        /\ m_knownFiles'[f] # None
        /\ \A g \in Files \ {f} : m_knownFiles'[g] = m_knownFiles[g]
    BY <1>1, TrackTypes DEF RescanFindsNews, Visiting, IInv, StateTypes,
       WatcherTypes
  <2>2. job' \in Job /\ job'.telling = {f}
    BY <1>1 DEF RescanFindsNews, Visited, IInv, StateTypes, ThreadTypes, Job
  <2>3. FolderTypes' /\ ThreadTypes'
    BY <1>1, <2>1, <2>2 DEF RescanFindsNews, IInv, StateTypes, FolderTypes,
       ThreadTypes, folderVars
  <2>4. pc = "rescan" /\ pc' = pc /\ job.telling = {} /\ told' = told
    BY <1>1 DEF RescanFindsNews, Visiting, Rescanning
  <2>5. Announced'
    BY <2>1, <2>2, <2>4 DEF IInv, Announced
  <2>6. QED
    BY <2>1, <2>3, <2>5 DEF IInv, StateTypes
<1>2. CASE RescanFindsNoNews(f)
  <2>1. job' \in Job /\ job'.telling = job.telling
    BY <1>2 DEF RescanFindsNoNews, Visited, IInv, StateTypes, ThreadTypes, Job
  <2>2. StateTypes'
    BY <1>2, <2>1 DEF RescanFindsNoNews, IInv, StateTypes, FolderTypes,
       WatcherTypes, ThreadTypes, folderVars, engineVars, listVars
  <2>3. Announced'
    BY <1>2, <2>1 DEF RescanFindsNoNews, Visiting, Rescanning, IInv, Announced
  <2>4. QED
    BY <2>2, <2>3 DEF IInv
<1>3. QED
  BY <1>1, <1>2

LEMMA StepTells ==
  ASSUME IInv, NEW f \in Files, Tells(f)
  PROVE  IInv'
<1> USE MarkTypes
<1>1. /\ job' \in Job /\ job'.telling = job.telling \ {f}
      /\ job'.listed = job.listed
  BY DEF Tells, IInv, StateTypes, ThreadTypes, Job
<1>2. /\ told' \in [Files -> Marks \cup {None}] /\ told'[f] # None
      /\ \A g \in Files \ {f} : told'[g] = told[g]
  BY DEF Tells, IInv, StateTypes, FolderTypes, ThreadTypes
<1>3. StateTypes'
  BY <1>1, <1>2 DEF Tells, IInv, StateTypes, FolderTypes, WatcherTypes,
     ThreadTypes, folderVars, engineVars, listVars
<1>4. pc \in {"rescan", "file"}
  BY DEF Tells, IInv, StateTypes, ThreadTypes, Announced
<1>5. Announced'
  <2>1. pc' \in {"rescan", "file", "idle"} /\ (pc' = "file" => pc = "file")
        /\ (pc' = "idle" => job'.telling = {})
    BY <1>4 DEF Tells
  <2>2. \A g \in Files :
          m_knownFiles'[g] # None <=> told'[g] # None \/ g \in job'.telling
    BY <1>1, <1>2, <1>4 DEF Tells, IInv, Announced
  <2>3. pc' = "file" /\ job'.telling # {} => AllVisited'
    BY <1>1, <2>1 DEF IInv, Announced, AllVisited
  <2>4. QED
    BY <2>1, <2>2, <2>3 DEF Announced
<1>6. QED
  BY <1>3, <1>5 DEF IInv

LEMMA StepTreeOpens ==
  ASSUME IInv, TreeOpens
  PROVE  IInv'
<1>1. job.opened \in Dirs
  BY DEF TreeOpens, IInv, StateTypes, ThreadTypes, Job
<1>2. job' \in Job /\ job'.telling = job.telling
  BY <1>1, ListingTypes, MarkTypes
     DEF TreeOpens, FilesIn, IInv, StateTypes, ThreadTypes, Job
<1>3. StateTypes'
  BY <1>2 DEF TreeOpens, IInv, StateTypes, FolderTypes, WatcherTypes,
     ThreadTypes, folderVars, engineVars, listVars
<1>4. Announced'
  BY <1>2 DEF TreeOpens, IInv, Announced
<1>5. QED
  BY <1>3, <1>4 DEF IInv

LEMMA StepRescanEnds ==
  ASSUME IInv, RescanEnds
  PROVE  IInv'
<1> USE MarkTypes, NoJobTypes
<1> DEFINE gone == {f \in Files : InFolder(f) /\ f \notin job.seen}
           Looked(f) == IF m_knownFiles[f] = None \/ disk[f] = 0
                        THEN m_knownFiles[f]
                        ELSE [m_knownFiles[f] EXCEPT !.cached = TRUE]
<1>1. /\ m_knownFiles' =
           [f \in Files |-> IF f \in gone THEN None ELSE Looked(f)]
      /\ files' = files \ gone
      /\ engine' = [f \in Files |-> IF f \in gone THEN None ELSE engine[f]]
      /\ told' = [f \in Files |-> IF f \in gone THEN None ELSE told[f]]
  BY DEF RescanEnds, UntrackFiles
<1>2. \A f \in Files : /\ Looked(f) \in Known \cup {None}
                       /\ Looked(f) = None <=> m_knownFiles[f] = None
  BY DEF IInv, StateTypes, ThreadTypes, Known
<1> HIDE DEF gone, Looked
<1>3. WatcherTypes'
  BY <1>1 DEF RescanEnds, IInv, StateTypes, WatcherTypes
<1>4. FolderTypes' /\ ThreadTypes'
  <2>1. UNCHANGED folderVars /\ pc' = "idle" /\ job' = NoJob
    BY DEF RescanEnds
  <2>2. FolderTypes'
    BY <2>1 DEF IInv, StateTypes, FolderTypes, folderVars
  <2>3. m_knownFiles' \in [Files -> Known \cup {None}]
    BY <1>1, <1>2
  <2>4. told' \in [Files -> Marks \cup {None}]
    BY <1>1 DEF IInv, StateTypes, ThreadTypes
  <2>5. QED
    BY <2>1, <2>2, <2>3, <2>4 DEF ThreadTypes
<1>5. pc = "rescan" /\ job.telling = {} /\ pc' = "idle" /\ job'.telling = {}
  BY DEF RescanEnds, Rescanning, NoJob
<1>6. Announced'
  BY <1>1, <1>2, <1>5 DEF IInv, Announced
<1>7. QED
  BY <1>3, <1>4, <1>6 DEF IInv, StateTypes

LEMMA StepDiscard ==
  ASSUME IInv, NEW path \in Files \cup Dirs, Discard(path)
  PROVE  IInv'
<1>1. WatcherTypes'
  BY DeliveryTypes DEF Discard, IInv, StateTypes, WatcherTypes, engineVars, listVars
<1>2. FolderTypes' /\ ThreadTypes' /\ Announced'
  BY DEF Discard, IInv, StateTypes, FolderTypes, ThreadTypes, Announced,
     AllVisited, folderVars, ioVars
<1>3. QED
  BY <1>1, <1>2 DEF IInv, StateTypes

LEMMA StepIInv == IInv /\ [Next]_vars => IInv'
<1> SUFFICES ASSUME IInv, [Next]_vars PROVE IInv'
  OBVIOUS
<1>1. CASE Handler
  BY <1>1, StepFileNotice, StepDiscard, StepRescan, StepTreeOpens, StepVisit,
     StepTells, StepRescanEnds DEF Handler
<1>2. CASE UNCHANGED vars
  BY <1>2 DEF vars, folderVars, engineVars, listVars, ioVars, IInv, StateTypes,
     FolderTypes, WatcherTypes, ThreadTypes, Announced, AllVisited
<1>3. QED
  BY <1>1, <1>2, StepFolder, StepEngine, StepSweep DEF Next

LEMMA IInvHolds == Safety => []IInv
BY InitIInv, StepIInv, PTL DEF Safety

LEMMA FolderAnnouncesNothing == Folder \/ Engine \/ Sweep => again' = again
BY DEF Folder, Overwrite, Create, Delete, RemoveDir, MakeDir, Engine,
   EngineSeesFile, EngineSeesDir, Sweep, SweepBegins, SweepOpens, SweepWatches,
   SweepTracks, SweepEnds

(* Only two handlers announce an end, each of files that are tracked, at a *)
(* moment at which the store was told of all of those.                     *)
LEMMA StepOnce == IInv /\ OnceOnly /\ [Next]_vars => OnceOnly'
<1> SUFFICES ASSUME IInv, OnceOnly, [Next]_vars PROVE again' = {}
  BY DEF OnceOnly
<1>1. CASE Folder \/ Engine \/ Sweep \/ UNCHANGED vars
  BY <1>1, FolderAnnouncesNothing DEF vars, OnceOnly
<1>2. ASSUME NEW f \in Files, FileGone(f)
      PROVE  again' = {}
  <2>1. told[f] # None
    BY <1>2 DEF FileGone, Delivered, KnownMark, IInv, Announced
  <2>2. QED
    BY <1>2, <2>1 DEF FileGone, UntrackFiles, OnceOnly
<1>3. CASE RescanEnds
  <2>1. \A f \in Files : InFolder(f) => told[f] # None
    BY <1>3 DEF RescanEnds, Rescanning, InFolder, IInv, Announced
  <2>2. QED
    BY <1>3, <2>1 DEF RescanEnds, UntrackFiles, OnceOnly
<1>4. CASE Handler /\ ~RescanEnds /\ ~\E f \in Files : FileGone(f)
  BY <1>4 DEF Handler, FileUnknownOrUnchanged, FileChanged, FileTracks, Discard,
     Rescan, SkipSub, TreeWatches, TreeOpens, RescanFindsNews,
     RescanFindsNoNews, Tells, OnceOnly
<1>5. QED
  BY <1>1, <1>2, <1>3, <1>4 DEF Next

LEMMA OnceHolds == Safety => [](IInv /\ OnceOnly)
<1>1. Init => OnceOnly
  BY DEF Init, OnceOnly
<1>2. QED
  BY <1>1, StepOnce, IInvHolds, PTL DEF Safety

(***************************************************************************)
(* Every variable keeps its type, through any order of sweeps, notices and *)
(* folder changes (prospector.cpp, prospector.h:121-127).                  *)
(***************************************************************************)
THEOREM ProspectorTypes == Safety => []TypeOK
<1>1. IInv /\ OnceOnly => TypeOK
  BY DEF IInv, StateTypes, TypeOK, HistoryTypes, OnceOnly
<1>2. QED
  BY <1>1, OnceHolds, PTL

(***************************************************************************)
(* The end of a file is announced once for every time the store was told   *)
(* of the file, also when paths come back before the watcher let go of     *)
(* them: no removal is announced twice and none of a path that was never   *)
(* there, and at rest the prospector tracks what it announced as present   *)
(* (prospector.cpp:182-229).                                               *)
(***************************************************************************)
THEOREM AnnouncedOnce == Safety => []KnownIsAnnounced
<1>1. IInv /\ OnceOnly => KnownIsAnnounced
  BY DEF IInv, OnceOnly, Announced, KnownIsAnnounced
<1>2. QED
  BY <1>1, OnceHolds, PTL

-----------------------------------------------------------------------------
(* How the folder is followed when it does not change at awkward moments.  *)

RemovalNoticed(path) ==
  \E i \in 1 .. Len(queue) : queue[i].path = path /\ queue[i].removed

(* Every write is newer than anything anybody has seen.                    *)
MarksArePast ==
  \A f \in Files :
    /\ disk[f] <= writes[f] /\ job.listed[f] <= writes[f]
    /\ KnownMark(f) <= writes[f]
    /\ engine[f] # None => engine[f] \in 1 .. writes[f]
    /\ disk[f] # 0 => There(Home[f])

(* Qt's two views differ only while the notice of a removal is on its way, *)
(* and a path does not come back before that is delivered.                 *)
FilesAgree ==
  \A f \in Files :
    /\ RemovalNoticed(f) => disk[f] = 0 /\ engine[f] = None
    /\ engine[f] # None => f \in files
    /\ f \in files => m_knownFiles[f] # None /\ (engine[f] # None \/ RemovalNoticed(f))

FoldersAgree ==
  /\ armed \subseteq directories
  /\ \A d \in Dirs :
       /\ RemovalNoticed(d) => ~There(d) /\ d \notin armed
       /\ d \in directories => d \in armed \/ RemovalNoticed(d)

(* A folder that is there is watched, or a look at the folder it is in is  *)
(* still to come or under way.                                             *)
LookComes(d) == d \in stale \/ Noticed(d)

FolderIsOwed(d) ==
  \/ pc = "down"
  \/ pc = "sweep" /\ (d \in job.subs \/ job.opened = d \/ Root \in job.subs)
  \/ d # Root /\ LookComes(Root)
  \/ d # Root /\ pc = "rescan" /\ job.dir = Root /\ d \in job.subs

FoldersAreWatched == \A d \in Dirs : There(d) => d \in armed \/ FolderIsOwed(d)

(* What a handler has to do in the order it does it.                       *)
Looking == pc \in {"sweep", "rescan"}

JobsAreOrderly ==
  /\ pc = "down" => directories = {} /\ \A f \in Files : m_knownFiles[f] = None
  /\ pc = "idle" => AllVisited
  /\ ~Looking => job.opened = None
  /\ pc = "rescan" /\ job.opened # None =>
       job.opened \in directories \/ ~There(job.opened)
  /\ pc = "file" =>
       \A f \in Files : job.listed[f] # 0 =>
         f \in files /\ \A g \in Files \ {f} : job.listed[g] = 0

(* A folder will be looked at (again).                                     *)
LookOwed(d) ==
  d \in directories /\ (LookComes(d) \/ (d \in armed /\ ~There(d)))

(* What was listed is there, or its end will be noticed.                   *)
ListingsAreSafe ==
  Looking => \A f \in Files : job.listed[f] # 0 =>
    \/ job.opened = Home[f] /\ Home[f] \notin directories /\ disk[f] # 0
    \/ Home[f] \in directories /\ (disk[f] = 0 => LookOwed(Home[f]))

(* A file that is known but not watched had gone when it was tracked; the  *)
(* rescan that finds it gone is to come, and knows its canonical path.     *)
LostFilesAreFound ==
  \A f \in Files : m_knownFiles[f] # None /\ f \notin files =>
    /\ m_knownFiles[f].cached
    /\ m_knownFiles[f].mark \notin {disk[f], job.listed[f]}
    /\ LookOwed(Home[f]) \/ (pc = "rescan" /\ job.dir = Home[f] /\ f \notin job.seen)

(* A replay nobody watches is in a folder nobody watches, listed, or in a  *)
(* folder somebody is going to list.                                       *)
ToBeListed(d) == d \notin armed \/ LookComes(d) \/ (pc = "rescan" /\ job.opened = d)

NewFilesAreFound ==
  /\ pc # "down" => \A f \in Files : disk[f] # 0 /\ f \notin files =>
       ToBeListed(Home[f]) \/ (Looking /\ job.listed[f] # 0)
  /\ pc = "sweep" => \A f \in Files :
       disk[f] # 0 /\ job.opened = Home[f] /\ Home[f] \notin directories =>
         job.listed[f] # 0
  /\ pc = "rescan" => \A f \in Files :
       disk[f] # 0 /\ Home[f] = job.dir /\ f \notin job.seen =>
         ToBeListed(Home[f]) \/ job.listed[f] # 0

(* A replay that is watched was told of as it is, or a change to it is     *)
(* still to be seen, to be noticed or to be told of.                       *)
FileIsOwed(f) ==
  \/ engine[f] # disk[f]
  \/ Noticed(f)
  \/ f \in job.telling
  \/ pc = "file" /\ job.listed[f] # 0
  \/ pc = "sweep"

WatchedFilesAreTold ==
  \A f \in Files : disk[f] # 0 =>
    /\ f \in files => told[f] = disk[f] \/ FileIsOwed(f)
    /\ KnownMark(f) = disk[f] =>
         told[f] = disk[f] \/ f \in job.telling \/ pc = "sweep"

Followed ==
  /\ IInv
  /\ MarksArePast
  /\ FilesAgree
  /\ FoldersAgree
  /\ FoldersAreWatched
  /\ JobsAreOrderly
  /\ ListingsAreSafe
  /\ LostFilesAreFound
  /\ NewFilesAreFound
  /\ WatchedFilesAreTold

-----------------------------------------------------------------------------
(* What posting and delivering does to what is noticed.                    *)
LEMMA PostNotices ==
  ASSUME StateTypes, NEW path \in Files \cup Dirs, NEW removed \in BOOLEAN,
         Post(path, removed)
  PROVE  \A x : /\ Noticed(x)' <=> Noticed(x) \/ x = path
                /\ RemovalNoticed(x)' <=>
                     RemovalNoticed(x) \/ (x = path /\ removed)
<1> DEFINE n == [path |-> path, removed |-> removed]
<1>1. queue \in Seq([path : Files \cup Dirs, removed : BOOLEAN])
  BY DEF StateTypes, WatcherTypes
<1>2. queue' = Append(queue, n) /\ n.path = path /\ n.removed = removed
  BY DEF Post
<1>3. n \in [path : Files \cup Dirs, removed : BOOLEAN]
  OBVIOUS
<1> HIDE DEF n
<1>4. /\ Len(queue') = Len(queue) + 1 /\ Len(queue) \in Nat
      /\ queue'[Len(queue) + 1] = n
      /\ \A i \in 1 .. Len(queue) : queue'[i] = queue[i]
  BY <1>1, <1>2, <1>3
<1>5. QED
  BY <1>2, <1>4 DEF Noticed, RemovalNoticed

LEMMA PostNews ==
  ASSUME StateTypes, NEW path \in Files \cup Dirs, Post(path, FALSE)
  PROVE  \A x : /\ Noticed(x)' <=> Noticed(x) \/ x = path
                /\ RemovalNoticed(x)' <=> RemovalNoticed(x)
BY PostNotices

LEMMA PostRemoval ==
  ASSUME StateTypes, NEW path \in Files \cup Dirs, Post(path, TRUE)
  PROVE  \A x : /\ Noticed(x)' <=> Noticed(x) \/ x = path
                /\ RemovalNoticed(x)' <=> RemovalNoticed(x) \/ x = path
BY PostNotices

LEMMA DeliverNotices ==
  ASSUME StateTypes, NEW path \in Files \cup Dirs, Delivered(path)
  PROVE  /\ Noticed(path)
         /\ Head(queue).removed => RemovalNoticed(path)
         /\ \A x : /\ Noticed(x)' => Noticed(x)
                   /\ RemovalNoticed(x)' => RemovalNoticed(x)
                   /\ Noticed(x) => Noticed(x)' \/ x = path
                   /\ RemovalNoticed(x) =>
                        RemovalNoticed(x)' \/ (x = path /\ Head(queue).removed)
<1>1. queue \in Seq([path : Files \cup Dirs, removed : BOOLEAN])
  BY DEF StateTypes, WatcherTypes
<1>2. queue # <<>> /\ path = Head(queue).path /\ queue' = Tail(queue)
  BY DEF Delivered
<1>3. /\ Len(queue) \in Nat \ {0} /\ Head(queue) = queue[1]
      /\ Len(queue') = Len(queue) - 1
      /\ \A i \in 1 .. Len(queue') : queue'[i] = queue[i + 1]
  BY <1>1, <1>2
<1>4. \A x : /\ Noticed(x)' => Noticed(x)
             /\ RemovalNoticed(x)' => RemovalNoticed(x)
  BY <1>3, SMTT(30) DEF Noticed, RemovalNoticed
<1>5. \A i \in 1 .. Len(queue) :
        i = 1 \/ (i - 1 \in 1 .. Len(queue') /\ queue'[i - 1] = queue[i])
  BY <1>3
<1>6. ASSUME NEW x
      PROVE  /\ Noticed(x) => Noticed(x)' \/ x = path
             /\ RemovalNoticed(x) =>
                  RemovalNoticed(x)' \/ (x = path /\ Head(queue).removed)
  <2>1. ASSUME NEW i \in 1 .. Len(queue), queue[i].path = x
        PROVE  /\ Noticed(x)' \/ x = path
               /\ queue[i].removed =>
                    RemovalNoticed(x)' \/ (x = path /\ Head(queue).removed)
    <3>1. CASE i = 1
      BY <1>2, <1>3, <2>1, <3>1
    <3>2. CASE i # 1
      <4>1. i - 1 \in 1 .. Len(queue') /\ queue'[i - 1] = queue[i]
        BY <1>5, <3>2
      <4>2. QED
        BY <2>1, <4>1 DEF Noticed, RemovalNoticed
    <3>3. QED
      BY <3>1, <3>2
  <2>2. QED
    BY <2>1 DEF Noticed, RemovalNoticed
<1>7. Noticed(path) /\ (Head(queue).removed => RemovalNoticed(path))
  BY <1>2, <1>3 DEF Noticed, RemovalNoticed
<1>8. QED
  BY <1>4, <1>6, <1>7

LEMMA KeepNotices ==
  ASSUME UNCHANGED queue
  PROVE  \A x : /\ Noticed(x)' <=> Noticed(x)
                /\ RemovalNoticed(x)' <=> RemovalNoticed(x)
BY DEF Noticed, RemovalNoticed

LEMMA RemovalIsNotice == \A x : RemovalNoticed(x) => Noticed(x)
BY DEF Noticed, RemovalNoticed

-----------------------------------------------------------------------------
(* The folder changes, at moments that are not awkward.                    *)
LEMMA FollowInit == Init => Followed
<1> SUFFICES ASSUME Init PROVE Followed
  OBVIOUS
<1> USE DEF Init, NoJob
<1>1. IInv
  BY InitIInv
<1>2. \A x : ~Noticed(x) /\ ~RemovalNoticed(x)
  BY DEF Noticed, RemovalNoticed
<1>3. MarksArePast /\ FilesAgree /\ FoldersAgree
  BY <1>2, ProspectorAssumption
     DEF MarksArePast, FilesAgree, FoldersAgree, KnownMark
<1>4. FoldersAreWatched /\ JobsAreOrderly /\ ListingsAreSafe
  BY DEF FoldersAreWatched, FolderIsOwed, JobsAreOrderly, ListingsAreSafe,
     Looking, AllVisited
<1>5. LostFilesAreFound /\ NewFilesAreFound /\ WatchedFilesAreTold
  BY DEF LostFilesAreFound, NewFilesAreFound, WatchedFilesAreTold, KnownMark
<1>6. QED
  BY <1>1, <1>3, <1>4, <1>5 DEF Followed

LEMMA FollowOverwrite ==
  ASSUME Followed, NEW f \in Files, Overwrite(f)
  PROVE  Followed'
<1> USE ProspectorAssumption DEF Followed, IInv, StateTypes
<1>1. IInv'
  BY StepFolder DEF Folder
<1>2. /\ UNCHANGED <<dirs, engine, armed, stale, files, directories, queue,
                     m_knownFiles, pc, job, told, again>>
      /\ disk[f] # 0 /\ writes[f] \in Nat /\ disk'[f] = writes[f] + 1
      /\ writes'[f] = writes[f] + 1
      /\ \A g \in Files : g # f => disk'[g] = disk[g] /\ writes'[g] = writes[g]
  BY DEF Overwrite, engineVars, listVars, ioVars, FolderTypes, Marks
<1>3. \A x : /\ Noticed(x)' <=> Noticed(x)
             /\ RemovalNoticed(x)' <=> RemovalNoticed(x)
  BY <1>2, KeepNotices
<1>4. \A g \in Files : KnownMark(g)' = KnownMark(g) /\ KnownMark(g) \in Nat
  BY <1>2 DEF KnownMark, ThreadTypes, Known, Marks
<1>5. \A d : There(d)' <=> There(d)
  BY <1>2 DEF There
<1>6. MarksArePast'
  BY <1>2, <1>4, <1>5 DEF MarksArePast, FolderTypes, ThreadTypes, Job, Marks
<1>7. FilesAgree' /\ FoldersAgree'
  BY <1>2, <1>3, <1>5 DEF FilesAgree, FoldersAgree
<1>8. FoldersAreWatched' /\ JobsAreOrderly'
  BY <1>2, <1>3, <1>5 DEF FoldersAreWatched, JobsAreOrderly, FolderIsOwed,
     LookComes, Looking, AllVisited
<1>9. ListingsAreSafe' /\ NewFilesAreFound'
  BY <1>2, <1>3, <1>5 DEF ListingsAreSafe, LookOwed, LookComes, Looking,
     NewFilesAreFound, ToBeListed
<1>10. LostFilesAreFound'
  BY <1>2, <1>3, <1>5 DEF LostFilesAreFound, LookOwed, LookComes,
     MarksArePast, KnownMark, ThreadTypes, Job, Known, Marks
<1>11. WatchedFilesAreTold'
  BY <1>2, <1>3, <1>4 DEF WatchedFilesAreTold, FileIsOwed, MarksArePast
<1>12. QED
  BY <1>1, <1>6, <1>7, <1>8, <1>9, <1>10, <1>11

LEMMA FollowCreate ==
  ASSUME Followed, Hasty = {}, NEW f \in Files, Create(f)
  PROVE  Followed'
<1> USE ProspectorAssumption DEF Followed, IInv, StateTypes
<1>1. IInv'
  BY StepFolder DEF Folder
<1>2. /\ UNCHANGED <<dirs, engine, armed, files, directories, queue,
                     m_knownFiles, pc, job, told, again>>
      /\ disk[f] = 0 /\ writes[f] \in Nat /\ disk'[f] = writes[f] + 1
      /\ writes'[f] = writes[f] + 1
      /\ \A g \in Files : g # f => disk'[g] = disk[g] /\ writes'[g] = writes[g]
  BY DEF Create, listVars, ioVars, FolderTypes, Marks
<1>3. /\ There(Home[f]) /\ LetGo(f) /\ ~Unwatched(Home[f])
      /\ stale \subseteq stale' /\ (Home[f] \in armed => Home[f] \in stale')
  BY DEF Create, MayChange, MayReturn, EntriesMove
<1>4. \A x : /\ Noticed(x)' <=> Noticed(x)
             /\ RemovalNoticed(x)' <=> RemovalNoticed(x)
  BY <1>2, KeepNotices
<1>5. \A g \in Files : KnownMark(g)' = KnownMark(g) /\ KnownMark(g) \in Nat
  BY <1>2 DEF KnownMark, ThreadTypes, Known, Marks
<1>6. \A d : There(d)' <=> There(d)
  BY <1>2 DEF There
<1>7. MarksArePast'
  BY <1>2, <1>3, <1>5, <1>6 DEF MarksArePast, FolderTypes, ThreadTypes, Job,
     Marks
<1>8. FilesAgree' /\ FoldersAgree'
  BY <1>2, <1>3, <1>4, <1>6, RemovalIsNotice
     DEF FilesAgree, FoldersAgree, LetGo
<1>9. FoldersAreWatched' /\ JobsAreOrderly'
  BY <1>2, <1>3, <1>4, <1>6 DEF FoldersAreWatched, JobsAreOrderly,
     FolderIsOwed, LookComes, Looking, AllVisited
<1>10. ListingsAreSafe'
  BY <1>2, <1>3, <1>4, <1>6 DEF ListingsAreSafe, LookOwed, LookComes, Looking
<1>11. NewFilesAreFound'
  BY <1>2, <1>3, <1>4, <1>6 DEF NewFilesAreFound, ToBeListed, LookComes,
     Looking, Unwatched
<1>12. LostFilesAreFound'
  BY <1>2, <1>3, <1>4, <1>6 DEF LostFilesAreFound, LookOwed, LookComes,
     MarksArePast, KnownMark, ThreadTypes, Job, Known, Marks
<1>13. WatchedFilesAreTold'
  BY <1>2, <1>3, <1>4, <1>5 DEF WatchedFilesAreTold, FileIsOwed,
     MarksArePast, LetGo
<1>14. QED
  BY <1>1, <1>7, <1>8, <1>9, <1>10, <1>11, <1>12, <1>13

LEMMA FollowDelete ==
  ASSUME Followed, Hasty = {}, NEW f \in Files, Delete(f)
  PROVE  Followed'
<1> USE ProspectorAssumption DEF Followed, IInv, StateTypes
<1>1. IInv'
  BY StepFolder DEF Folder
<1>2. /\ UNCHANGED <<writes, dirs, engine, armed, files, directories, queue,
                     m_knownFiles, pc, job, told, again>>
      /\ disk[f] # 0 /\ disk'[f] = 0
      /\ \A g \in Files : g # f => disk'[g] = disk[g]
  BY DEF Delete, listVars, ioVars, FolderTypes, Marks
<1>3. /\ ~Unwatched(Home[f])
      /\ stale \subseteq stale' /\ (Home[f] \in armed => Home[f] \in stale')
  BY DEF Delete, MayChange, EntriesMove
<1>4. \A x : /\ Noticed(x)' <=> Noticed(x)
             /\ RemovalNoticed(x)' <=> RemovalNoticed(x)
  BY <1>2, KeepNotices
<1>5. \A g \in Files : KnownMark(g)' = KnownMark(g)
  BY <1>2 DEF KnownMark
<1>6. \A d : There(d)' <=> There(d)
  BY <1>2 DEF There
<1>7. MarksArePast'
  BY <1>2, <1>5, <1>6 DEF MarksArePast, FolderTypes, Marks
<1>8. FilesAgree' /\ FoldersAgree'
  BY <1>2, <1>4, <1>6 DEF FilesAgree, FoldersAgree
<1>9. FoldersAreWatched' /\ JobsAreOrderly'
  BY <1>2, <1>3, <1>4, <1>6 DEF FoldersAreWatched, JobsAreOrderly,
     FolderIsOwed, LookComes, Looking, AllVisited
<1>10. Home[f] \in directories => LookOwed(Home[f])'
  BY <1>2, <1>3, <1>4, RemovalIsNotice DEF FoldersAgree, LookOwed, LookComes
<1>11. ListingsAreSafe'
  BY <1>2, <1>3, <1>4, <1>6, <1>10
     DEF ListingsAreSafe, LookOwed, LookComes, Looking, Unwatched
<1>12. NewFilesAreFound'
  BY <1>2, <1>3, <1>4, <1>6 DEF NewFilesAreFound, ToBeListed, LookComes,
     Looking
<1>13. LostFilesAreFound'
  BY <1>2, <1>3, <1>4, <1>6, MarkTypes DEF LostFilesAreFound, LookOwed,
     LookComes, ThreadTypes, Known
<1>14. WatchedFilesAreTold'
  BY <1>2, <1>4, <1>5 DEF WatchedFilesAreTold, FileIsOwed
<1>15. QED
  BY <1>1, <1>7, <1>8, <1>9, <1>11, <1>12, <1>13, <1>14

LEMMA FollowMakeDir ==
  ASSUME Followed, Hasty = {}, NEW d \in Subs, NEW with \in SUBSET Files,
         MakeDir(d, with)
  PROVE  Followed'
<1> USE ProspectorAssumption DEF Followed, IInv, StateTypes
<1>1. IInv'
  BY StepFolder DEF Folder
<1>2. /\ UNCHANGED <<engine, armed, files, directories, queue, m_knownFiles,
                     pc, job, told, again>>
      /\ dirs' = dirs \cup {d} /\ d \notin dirs /\ d # Root
      /\ \A f \in with : /\ Home[f] = d /\ LetGo(f)
                         /\ writes'[f] = writes[f] + 1
                         /\ disk'[f] = writes[f] + 1
      /\ \A f \in Files : /\ writes[f] \in Nat /\ disk[f] \in Nat
                          /\ f \notin with => writes'[f] = writes[f]
                                              /\ disk'[f] = disk[f]
  BY DEF MakeDir, MayReturn, listVars, ioVars, FolderTypes, Marks
<1>3. /\ ~Unwatched(Root) /\ ~Unwatched(d) /\ LetGoDir(d)
      /\ stale \subseteq stale' /\ (Root \in armed => Root \in stale')
  BY DEF MakeDir, MayChange, EntriesMove
<1>4. \A x : /\ Noticed(x)' <=> Noticed(x)
             /\ RemovalNoticed(x)' <=> RemovalNoticed(x)
  BY <1>2, KeepNotices
<1>5. \A g \in Files : KnownMark(g)' = KnownMark(g) /\ KnownMark(g) \in Nat
  BY <1>2 DEF KnownMark, ThreadTypes, Known, Marks
<1>6. \A e : There(e)' <=> There(e) \/ e = d
  BY <1>2 DEF There
<1>7. MarksArePast'
  BY <1>2, <1>5, <1>6 DEF MarksArePast, FolderTypes, ThreadTypes, WatcherTypes,
     Job, Marks
<1>8. FilesAgree' /\ FoldersAgree'
  BY <1>2, <1>3, <1>4, <1>6, RemovalIsNotice
     DEF FilesAgree, FoldersAgree, LetGo, LetGoDir
<1>9. FolderIsOwed(d)'
  BY <1>2, <1>3, <1>4, RemovalIsNotice DEF FoldersAreWatched, FoldersAgree,
     FolderIsOwed, LookComes, Unwatched, There, Dirs
<1>10. FoldersAreWatched'
  BY <1>2, <1>3, <1>4, <1>6, <1>9
     DEF FoldersAreWatched, FolderIsOwed, LookComes
<1>11. JobsAreOrderly'
  BY <1>2, <1>3, <1>6 DEF JobsAreOrderly, Looking, AllVisited, Unwatched
<1>12. \A f \in with : disk[f] = 0
  BY <1>2, <1>6 DEF MarksArePast, There
<1>13. ListingsAreSafe'
  BY <1>2, <1>3, <1>4, <1>6, <1>12
     DEF ListingsAreSafe, LookOwed, LookComes, Looking, LetGoDir
<1>14. NewFilesAreFound'
  BY <1>2, <1>3, <1>4, <1>6
     DEF NewFilesAreFound, ToBeListed, LookComes, Looking, LetGoDir, Unwatched
<1>15. LostFilesAreFound'
  BY <1>2, <1>3, <1>4, <1>6, <1>12 DEF LostFilesAreFound, LookOwed, LookComes,
     LetGoDir, MarksArePast, KnownMark, ThreadTypes, Job, Known, Marks
<1>16. WatchedFilesAreTold'
  BY <1>2, <1>4, <1>5 DEF WatchedFilesAreTold, FileIsOwed, MarksArePast, LetGo
<1>17. QED
  BY <1>1, <1>7, <1>8, <1>10, <1>11, <1>13, <1>14, <1>15, <1>16

LEMMA FollowRemoveDir ==
  ASSUME Followed, Hasty = {}, NEW d \in Subs, RemoveDir(d)
  PROVE  Followed'
<1> USE ProspectorAssumption DEF Followed, IInv, StateTypes
<1>1. IInv'
  BY StepFolder DEF Folder
<1>2. /\ UNCHANGED <<writes, engine, armed, files, directories, queue,
                     m_knownFiles, pc, job, told, again>>
      /\ dirs' = dirs \ {d} /\ d # Root
      /\ \A f \in Files : IF Home[f] = d THEN disk'[f] = 0
                          ELSE disk'[f] = disk[f]
  BY DEF RemoveDir, listVars, ioVars
<1>3. /\ ~Unwatched(d)
      /\ stale \subseteq stale' /\ (Root \in armed => Root \in stale')
  BY DEF RemoveDir, MayChange, EntriesMove
<1>4. \A x : /\ Noticed(x)' <=> Noticed(x)
             /\ RemovalNoticed(x)' <=> RemovalNoticed(x)
  BY <1>2, KeepNotices
<1>5. \A g \in Files : KnownMark(g)' = KnownMark(g)
  BY <1>2 DEF KnownMark
<1>6. \A e : There(e)' <=> There(e) /\ e # d
  BY <1>2 DEF There
<1>7. MarksArePast'
  BY <1>2, <1>5, <1>6 DEF MarksArePast, FolderTypes, Marks
<1>8. FilesAgree' /\ FoldersAgree'
  BY <1>2, <1>4, <1>6 DEF FilesAgree, FoldersAgree
<1>9. FoldersAreWatched' /\ JobsAreOrderly'
  BY <1>2, <1>3, <1>4, <1>6 DEF FoldersAreWatched, JobsAreOrderly,
     FolderIsOwed, LookComes, Looking, AllVisited
<1>10. d \in directories => LookOwed(d)'
  BY <1>2, <1>4, <1>6, RemovalIsNotice
     DEF FoldersAgree, LookOwed, LookComes, Dirs
<1>11. ListingsAreSafe'
  BY <1>2, <1>3, <1>4, <1>6, <1>10
     DEF ListingsAreSafe, LookOwed, LookComes, Looking, Unwatched
<1>12. NewFilesAreFound'
  BY <1>2, <1>3, <1>4, <1>6 DEF NewFilesAreFound, ToBeListed, LookComes,
     Looking
<1>13. LostFilesAreFound'
  BY <1>2, <1>3, <1>4, <1>6, MarkTypes DEF LostFilesAreFound, LookOwed,
     LookComes, ThreadTypes, Known
<1>14. WatchedFilesAreTold'
  BY <1>2, <1>4, <1>5 DEF WatchedFilesAreTold, FileIsOwed
<1>15. QED
  BY <1>1, <1>7, <1>8, <1>9, <1>11, <1>12, <1>13, <1>14

-----------------------------------------------------------------------------
(* The engine looks.                                                       *)
LEMMA FollowEngineSeesFile ==
  ASSUME Followed, NEW f \in Files, EngineSeesFile(f)
  PROVE  Followed'
<1> USE ProspectorAssumption DEF Followed, IInv, StateTypes
<1>1. IInv'
  BY StepEngine DEF Engine
<1>2. /\ UNCHANGED <<disk, writes, dirs, armed, stale, files, directories,
                     m_knownFiles, pc, job, told, again>>
      /\ engine[f] # None /\ engine[f] # disk[f]
      /\ engine' = [engine EXCEPT ![f] = IF disk[f] = 0 THEN None ELSE disk[f]]
      /\ Post(f, disk[f] = 0)
  BY DEF EngineSeesFile, folderVars, listVars, ioVars
<1>3. \A x : /\ Noticed(x)' <=> Noticed(x) \/ x = f
             /\ RemovalNoticed(x)' <=> RemovalNoticed(x) \/ (x = f /\ disk[f] = 0)
  <2>1. CASE disk[f] = 0
    <3>1. Post(f, TRUE)
      BY <1>2, <2>1 DEF Post
    <3>2. QED
      BY <2>1, <3>1, PostRemoval
  <2>2. CASE disk[f] # 0
    <3>1. Post(f, FALSE)
      BY <1>2, <2>2 DEF Post
    <3>2. QED
      BY <2>2, <3>1, PostNews
  <2>3. QED
    BY <2>1, <2>2
<1>4. \A g \in Files : KnownMark(g)' = KnownMark(g)
  BY <1>2 DEF KnownMark
<1>5. \A d : There(d)' <=> There(d)
  BY <1>2 DEF There
<1>6. MarksArePast'
  BY <1>2, <1>4, <1>5
     DEF MarksArePast, FolderTypes, WatcherTypes, Marks
<1>7. FilesAgree' /\ FoldersAgree'
  BY <1>2, <1>3, <1>5
     DEF FilesAgree, FoldersAgree, WatcherTypes, FolderTypes, Marks
<1>8. FoldersAreWatched' /\ JobsAreOrderly'
  BY <1>2, <1>3, <1>5 DEF FoldersAreWatched, JobsAreOrderly,
     FolderIsOwed, LookComes, Looking, AllVisited
<1>9. ListingsAreSafe' /\ NewFilesAreFound'
  BY <1>2, <1>3, <1>5 DEF ListingsAreSafe, LookOwed, LookComes, Looking,
     NewFilesAreFound, ToBeListed
<1>10. LostFilesAreFound'
  BY <1>2, <1>3, <1>5 DEF LostFilesAreFound, LookOwed, LookComes
<1>11. WatchedFilesAreTold'
  BY <1>2, <1>3, <1>4 DEF WatchedFilesAreTold, FileIsOwed
<1>12. QED
  BY <1>1, <1>6, <1>7, <1>8, <1>9, <1>10, <1>11

LEMMA FollowEngineSeesDir ==
  ASSUME Followed, NEW d \in Dirs, EngineSeesDir(d)
  PROVE  Followed'
<1> USE ProspectorAssumption DEF Followed, IInv, StateTypes
<1>1. IInv'
  BY StepEngine DEF Engine
<1>2. /\ UNCHANGED <<disk, writes, dirs, engine, files, directories,
                     m_knownFiles, pc, job, told, again>>
      /\ armed' = IF There(d) THEN armed ELSE armed \ {d}
      /\ stale' = stale \ {d} /\ d \in armed
      /\ Post(d, ~There(d))
  BY DEF EngineSeesDir, folderVars, listVars, ioVars, WatcherTypes
<1>3. \A x : /\ Noticed(x)' <=> Noticed(x) \/ x = d
             /\ RemovalNoticed(x)' <=> RemovalNoticed(x) \/ (x = d /\ ~There(d))
  <2>1. CASE There(d)
    <3>1. Post(d, FALSE)
      BY <1>2, <2>1 DEF Post
    <3>2. QED
      BY <2>1, <3>1, PostNews
  <2>2. CASE ~There(d)
    <3>1. Post(d, TRUE)
      BY <1>2, <2>2 DEF Post
    <3>2. QED
      BY <2>2, <3>1, PostRemoval
  <2>3. QED
    BY <2>1, <2>2
<1>4. \A g \in Files : KnownMark(g)' = KnownMark(g)
  BY <1>2 DEF KnownMark
<1>5. \A e : There(e)' <=> There(e)
  BY <1>2 DEF There
<1>6. MarksArePast'
  BY <1>2, <1>4, <1>5 DEF MarksArePast
<1>7. FilesAgree' /\ FoldersAgree'
  BY <1>2, <1>3, <1>5 DEF FilesAgree, FoldersAgree
<1>8. FoldersAreWatched' /\ JobsAreOrderly'
  BY <1>2, <1>3, <1>5 DEF FoldersAreWatched, JobsAreOrderly,
     FolderIsOwed, LookComes, Looking, AllVisited
<1>9. ListingsAreSafe' /\ NewFilesAreFound'
  BY <1>2, <1>3, <1>5 DEF ListingsAreSafe, LookOwed, LookComes, Looking,
     NewFilesAreFound, ToBeListed
<1>10. LostFilesAreFound'
  BY <1>2, <1>3, <1>5 DEF LostFilesAreFound, LookOwed, LookComes
<1>11. WatchedFilesAreTold'
  BY <1>2, <1>3, <1>4 DEF WatchedFilesAreTold, FileIsOwed
<1>12. QED
  BY <1>1, <1>6, <1>7, <1>8, <1>9, <1>10, <1>11

-----------------------------------------------------------------------------
(* The sweep at start-up.                                                  *)
LEMMA TrackEffect ==
  ASSUME StateTypes, NEW f \in Files, NEW cached \in BOOLEAN,
         job.listed[f] # 0, TrackFile(f, cached)
  PROVE  /\ m_knownFiles'[f] # None /\ m_knownFiles'[f].mark = job.listed[f]
         /\ m_knownFiles'[f].cached = cached
         /\ IF f \in files \/ disk[f] = 0
            THEN files' = files /\ engine' = engine
            ELSE files' = files \cup {f} /\ engine'[f] = disk[f]
         /\ \A g \in Files : g # f =>
              m_knownFiles'[g] = m_knownFiles[g] /\ engine'[g] = engine[g]
<1>1. m_knownFiles'[f] = [mark |-> job.listed[f], cached |-> cached]
  BY DEF TrackFile, StateTypes, ThreadTypes
<1>2. QED
  BY <1>1, TrackTypes DEF TrackFile, AddFile, StateTypes, ThreadTypes, WatcherTypes

LEMMA FollowSweepBegins ==
  ASSUME Followed, SweepBegins
  PROVE  Followed'
<1> USE ProspectorAssumption DEF Followed, IInv, StateTypes
<1>1. IInv'
  BY StepSweep DEF Sweep
<1>2. /\ UNCHANGED <<disk, writes, dirs, engine, armed, stale, files,
                     directories, queue, m_knownFiles, told, again>>
      /\ pc = "down" /\ pc' = "sweep"
      /\ job'.opened = None /\ job'.subs = {Root} /\ job'.telling = {}
      /\ \A f \in Files : job'.listed[f] = 0
  BY DEF SweepBegins, NoJob, folderVars, engineVars, listVars
<1>3. \A x : /\ Noticed(x)' <=> Noticed(x)
             /\ RemovalNoticed(x)' <=> RemovalNoticed(x)
  BY <1>2, KeepNotices
<1>4. \A g \in Files : KnownMark(g)' = KnownMark(g)
  BY <1>2 DEF KnownMark
<1>5. \A d : There(d)' <=> There(d)
  BY <1>2 DEF There
<1>6. /\ armed = {} /\ files = {}
      /\ \A f \in Files : m_knownFiles[f] = None
  BY <1>2 DEF JobsAreOrderly, FoldersAgree, FilesAgree, WatcherTypes
<1>7. MarksArePast'
  BY <1>2, <1>4, <1>5 DEF MarksArePast, FolderTypes, Marks
<1>8. FilesAgree' /\ FoldersAgree'
  BY <1>2, <1>3, <1>5 DEF FilesAgree, FoldersAgree
<1>9. FoldersAreWatched' /\ JobsAreOrderly'
  BY <1>2, <1>3, <1>5 DEF FoldersAreWatched, JobsAreOrderly, FolderIsOwed,
     Looking
<1>10. ListingsAreSafe' /\ NewFilesAreFound'
  BY <1>2, <1>6 DEF ListingsAreSafe, NewFilesAreFound, ToBeListed
<1>11. LostFilesAreFound' /\ WatchedFilesAreTold'
  BY <1>2, <1>6 DEF LostFilesAreFound, WatchedFilesAreTold, FileIsOwed,
     KnownMark
<1>12. QED
  BY <1>1, <1>7, <1>8, <1>9, <1>10, <1>11

(* What a folder that is opened now adds to what was listed.               *)
LEMMA ListingEffect ==
  ASSUME StateTypes, NEW d \in Dirs
  PROVE  \A f \in Files :
           WithListing(d)[f] = IF Home[f] = d /\ disk[f] # 0 THEN disk[f]
                               ELSE job.listed[f]
BY DEF StateTypes, FolderTypes, ThreadTypes, WithListing, FilesIn

LEMMA FollowSweepOpens ==
  ASSUME Followed, NEW d \in Dirs, SweepOpens(d)
  PROVE  Followed'
<1> USE ProspectorAssumption DEF Followed, IInv, StateTypes
<1>1. IInv'
  BY StepSweep DEF Sweep
<1>2. /\ UNCHANGED <<disk, writes, dirs, engine, armed, stale, files,
                     directories, queue, m_knownFiles, pc, told, again>>
      /\ pc = "sweep" /\ job.opened = None /\ d \in job.subs /\ d # None
      /\ job'.opened = d /\ job'.subs = (job.subs \ {d}) \cup SubsIn(d)
      /\ job'.listed = WithListing(d) /\ job'.telling = job.telling
  BY MarkTypes DEF SweepOpens, folderVars, engineVars, listVars, ThreadTypes,
     Job
<1>3. \A x : /\ Noticed(x)' <=> Noticed(x)
             /\ RemovalNoticed(x)' <=> RemovalNoticed(x)
  BY <1>2, KeepNotices
<1>4. \A g \in Files : KnownMark(g)' = KnownMark(g)
  BY <1>2 DEF KnownMark
<1>5. \A e : There(e)' <=> There(e)
  BY <1>2 DEF There
<1>6. \A f \in Files :
        job'.listed[f] = IF Home[f] = d /\ disk[f] # 0 THEN disk[f]
                         ELSE job.listed[f]
  BY <1>2, ListingEffect
<1>7. MarksArePast'
  BY <1>2, <1>4, <1>5, <1>6 DEF MarksArePast
<1>8. FilesAgree' /\ FoldersAgree'
  BY <1>2, <1>3, <1>5 DEF FilesAgree, FoldersAgree
<1>9. FoldersAreWatched' /\ JobsAreOrderly'
  BY <1>2, <1>3, <1>5 DEF FoldersAreWatched, JobsAreOrderly, FolderIsOwed,
     Looking, LookComes, SubsIn, There
<1>10. ListingsAreSafe'
  BY <1>2, <1>3, <1>5, <1>6, MarkTypes
     DEF ListingsAreSafe, Looking, LookOwed, LookComes
<1>11. NewFilesAreFound'
  BY <1>2, <1>3, <1>6 DEF NewFilesAreFound, ToBeListed, Looking, LookComes
<1>12. LostFilesAreFound'
  BY <1>2, <1>3, <1>5, <1>6 DEF LostFilesAreFound, LookOwed, LookComes
<1>13. WatchedFilesAreTold'
  BY <1>2, <1>4 DEF WatchedFilesAreTold, FileIsOwed
<1>14. QED
  BY <1>1, <1>7, <1>8, <1>9, <1>10, <1>11, <1>12, <1>13

LEMMA FollowSweepWatches ==
  ASSUME Followed, SweepWatches
  PROVE  Followed'
<1> DEFINE d == job.opened
<1> USE ProspectorAssumption DEF Followed, IInv, StateTypes
<1>1. IInv'
  BY StepSweep DEF Sweep
<1>2. /\ UNCHANGED <<disk, writes, dirs, engine, files, queue, m_knownFiles,
                     pc, told, again>>
      /\ pc = "sweep" /\ d \in Dirs
      /\ job'.opened = None /\ job'.subs = job.subs
      /\ job'.listed = job.listed /\ job'.telling = job.telling
  BY DEF SweepWatches, folderVars, ThreadTypes, Job
<1>3. \A x : /\ Noticed(x)' <=> Noticed(x)
             /\ RemovalNoticed(x)' <=> RemovalNoticed(x)
  BY <1>2, KeepNotices
<1>4. \A g \in Files : KnownMark(g)' = KnownMark(g)
  BY <1>2 DEF KnownMark
<1>5. \A e : There(e)' <=> There(e)
  BY <1>2 DEF There
<1>6. /\ stale' = stale
      /\ IF d \in directories \/ ~There(d)
         THEN directories' = directories /\ armed' = armed
         ELSE directories' = directories \cup {d} /\ armed' = armed \cup {d}
  <2>1. armed \subseteq directories /\ stale \subseteq armed
    BY DEF FoldersAgree, WatcherTypes
  <2>2. AddDirectory(d)
    BY DEF SweepWatches
  <2>3. QED
    BY <1>2, <2>1, <2>2 DEF AddDirectory
<1> HIDE DEF d
<1>7. MarksArePast'
  BY <1>2, <1>4, <1>5 DEF MarksArePast
<1>8. FilesAgree' /\ FoldersAgree'
  BY <1>2, <1>3, <1>5, <1>6 DEF FilesAgree, FoldersAgree
<1>9. FoldersAreWatched' /\ JobsAreOrderly'
  BY <1>2, <1>3, <1>5, <1>6, RemovalIsNotice DEF FoldersAreWatched,
     FoldersAgree, JobsAreOrderly, FolderIsOwed, Looking, LookComes, d
<1>10. ListingsAreSafe'
  BY <1>2, <1>3, <1>5, <1>6
     DEF ListingsAreSafe, MarksArePast, Looking, LookOwed, LookComes, d
<1>11. NewFilesAreFound'
  BY <1>2, <1>3, <1>6, MarkTypes DEF NewFilesAreFound, ToBeListed, Looking,
     LookComes, d
<1>12. LostFilesAreFound'
  BY <1>2, <1>3, <1>5, <1>6 DEF LostFilesAreFound, LookOwed, LookComes
<1>13. WatchedFilesAreTold'
  BY <1>2, <1>4 DEF WatchedFilesAreTold, FileIsOwed
<1>14. QED
  BY <1>1, <1>7, <1>8, <1>9, <1>10, <1>11, <1>12, <1>13

LEMMA FollowSweepTracks ==
  ASSUME Followed, NEW f \in Files, SweepTracks(f)
  PROVE  Followed'
<1> USE ProspectorAssumption DEF Followed, IInv, StateTypes
<1>1. IInv'
  BY StepSweep DEF Sweep
<1>2. /\ UNCHANGED <<disk, writes, dirs, armed, stale, directories, queue, pc,
                     told, again>>
      /\ pc = "sweep" /\ job.opened = None /\ job.listed[f] # 0
      /\ TrackFile(f, TRUE)
      /\ job'.opened = None /\ job'.subs = job.subs
      /\ job'.telling = job.telling /\ job'.listed[f] = 0
      /\ \A g \in Files : g # f => job'.listed[g] = job.listed[g]
  BY DEF SweepTracks, Visited, folderVars, ThreadTypes, Job
<1>3. \A x : /\ Noticed(x)' <=> Noticed(x)
             /\ RemovalNoticed(x)' <=> RemovalNoticed(x)
  BY <1>2, KeepNotices
<1>4. /\ m_knownFiles'[f] # None /\ m_knownFiles'[f].mark = job.listed[f]
      /\ m_knownFiles'[f].cached
      /\ IF f \in files \/ disk[f] = 0
         THEN files' = files /\ engine' = engine
         ELSE files' = files \cup {f} /\ engine'[f] = disk[f]
      /\ \A g \in Files : g # f =>
           m_knownFiles'[g] = m_knownFiles[g] /\ engine'[g] = engine[g]
  BY <1>2, TrackEffect
<1>5. \A e : There(e)' <=> There(e)
  BY <1>2 DEF There
<1>6. /\ KnownMark(f)' = job.listed[f]
      /\ \A g \in Files : g # f => KnownMark(g)' = KnownMark(g)
  BY <1>4 DEF KnownMark
<1>7. MarksArePast'
  BY <1>2, <1>4, <1>5, <1>6 DEF MarksArePast, FolderTypes, Marks
<1>8. FilesAgree' /\ FoldersAgree'
  BY <1>2, <1>3, <1>4, <1>5, MarkTypes
     DEF FilesAgree, FoldersAgree, FolderTypes
<1>9. FoldersAreWatched' /\ JobsAreOrderly'
  BY <1>2, <1>3, <1>5 DEF FoldersAreWatched, JobsAreOrderly, FolderIsOwed,
     Looking, LookComes
<1>10. ListingsAreSafe'
  BY <1>2, <1>3, <1>5, MarkTypes
     DEF ListingsAreSafe, Looking, LookOwed, LookComes
<1>11. NewFilesAreFound'
  BY <1>2, <1>3, <1>4, MarkTypes DEF NewFilesAreFound, ToBeListed, Looking,
     LookComes
<1>12. LostFilesAreFound'
  BY <1>2, <1>3, <1>4, <1>5, MarkTypes DEF LostFilesAreFound, ListingsAreSafe,
     Looking, LookOwed, LookComes, ThreadTypes, Known
<1>13. WatchedFilesAreTold'
  BY <1>2 DEF WatchedFilesAreTold, FileIsOwed
<1>14. QED
  BY <1>1, <1>7, <1>8, <1>9, <1>10, <1>11, <1>12, <1>13

LEMMA FollowSweepEnds ==
  ASSUME Followed, SweepEnds
  PROVE  Followed'
<1> USE ProspectorAssumption DEF Followed, IInv, StateTypes
<1>1. IInv'
  BY StepSweep DEF Sweep
<1>2. /\ UNCHANGED <<disk, writes, dirs, engine, armed, stale, files,
                     directories, queue, m_knownFiles, told, again>>
      /\ pc = "sweep" /\ pc' \in {"idle", "file"}
      /\ job.opened = None /\ job.subs = {} /\ AllVisited
      /\ job'.opened = None
      /\ \A f \in Files : /\ job'.listed[f] = 0
                          /\ m_knownFiles[f] # None => f \in job'.telling
  BY DEF SweepEnds, NoJob, folderVars, engineVars, listVars
<1>3. \A x : /\ Noticed(x)' <=> Noticed(x)
             /\ RemovalNoticed(x)' <=> RemovalNoticed(x)
  BY <1>2, KeepNotices
<1>4. \A g \in Files : KnownMark(g)' = KnownMark(g)
  BY <1>2 DEF KnownMark
<1>5. \A d : There(d)' <=> There(d)
  BY <1>2 DEF There
<1>6. MarksArePast'
  BY <1>2, <1>4, <1>5 DEF MarksArePast, FolderTypes, Marks
<1>7. FilesAgree' /\ FoldersAgree'
  BY <1>2, <1>3, <1>5 DEF FilesAgree, FoldersAgree
<1>8. FoldersAreWatched' /\ JobsAreOrderly'
  BY <1>2, <1>3, <1>5, MarkTypes DEF FoldersAreWatched, JobsAreOrderly,
     FolderIsOwed, LookComes, Looking, AllVisited
<1>9. ListingsAreSafe' /\ NewFilesAreFound'
  BY <1>2, <1>3 DEF ListingsAreSafe, NewFilesAreFound, ToBeListed, LookComes,
     Looking, AllVisited
<1>10. LostFilesAreFound'
  BY <1>2, <1>3, <1>5 DEF LostFilesAreFound, LookOwed, LookComes, AllVisited
<1>11. WatchedFilesAreTold'
  BY <1>2 DEF WatchedFilesAreTold, FileIsOwed, FilesAgree, KnownMark
<1>12. QED
  BY <1>1, <1>6, <1>7, <1>8, <1>9, <1>10, <1>11

-----------------------------------------------------------------------------
(* The notices.  The folder the others are in stays watched.               *)
LEMMA RootIsWatched ==
  ASSUME Followed, pc = "idle"
  PROVE  Root \in directories
BY DEF Followed, FoldersAreWatched, FolderIsOwed, FoldersAgree, There, Dirs

LEMMA FollowDiscard ==
  ASSUME Followed, NEW path \in Files \cup Dirs, Discard(path)
  PROVE  Followed'
<1> USE ProspectorAssumption DEF Followed, IInv, StateTypes
<1>1. IInv'
  BY StepDiscard
<1>2. /\ UNCHANGED <<disk, writes, dirs, engine, armed, stale, files,
                     directories, m_knownFiles, pc, job, told, again>>
      /\ pc = "idle" /\ path \notin files \cup directories
      /\ Root \in directories
  BY RootIsWatched DEF Discard, Delivered, folderVars, engineVars, listVars,
     ioVars
<1>3. \A x : /\ Noticed(x)' => Noticed(x)
             /\ RemovalNoticed(x)' => RemovalNoticed(x)
             /\ x \in files \cup directories =>
                  /\ Noticed(x)' <=> Noticed(x)
                  /\ RemovalNoticed(x)' <=> RemovalNoticed(x)
  BY <1>2, DeliverNotices DEF Discard
<1>4. \A g \in Files : KnownMark(g)' = KnownMark(g)
  BY <1>2 DEF KnownMark
<1>5. \A d : There(d)' <=> There(d)
  BY <1>2 DEF There
<1>6. MarksArePast'
  BY <1>2, <1>4, <1>5 DEF MarksArePast
<1>7. FilesAgree' /\ FoldersAgree'
  BY <1>2, <1>3, <1>5 DEF FilesAgree, FoldersAgree
<1>8. FoldersAreWatched' /\ JobsAreOrderly'
  BY <1>2, <1>3, <1>5 DEF FoldersAreWatched, JobsAreOrderly,
     FolderIsOwed, LookComes, Looking, AllVisited
<1>9. ListingsAreSafe'
  BY <1>2 DEF ListingsAreSafe, Looking
<1>10. NewFilesAreFound'
  BY <1>2, <1>3 DEF NewFilesAreFound, ToBeListed, LookComes, Looking,
     FoldersAgree
<1>11. LostFilesAreFound'
  BY <1>2, <1>3, <1>5 DEF LostFilesAreFound, LookOwed, LookComes
<1>12. WatchedFilesAreTold'
  BY <1>2, <1>3, <1>4 DEF WatchedFilesAreTold, FileIsOwed
<1>13. QED
  BY <1>1, <1>6, <1>7, <1>8, <1>9, <1>10, <1>11, <1>12

(* A watched file is known, and nothing is noticed of its folder by it.    *)
LEMMA FileNotice ==
  ASSUME Followed, NEW f \in Files, Delivered(f), f \in files
  PROVE  /\ pc = "idle" /\ KnownMark(f) # 0
         /\ disk[f] # 0 => ~Head(queue).removed
         /\ \A x : /\ Noticed(x)' => Noticed(x)
                   /\ RemovalNoticed(x)' => RemovalNoticed(x)
                   /\ x # f => (Noticed(x)' <=> Noticed(x))
                   /\ x # f => (RemovalNoticed(x)' <=> RemovalNoticed(x))
                   /\ disk[f] # 0 => (RemovalNoticed(x)' <=> RemovalNoticed(x))
<1>1. pc = "idle"
  BY DEF Delivered
<1>2. KnownMark(f) # 0
  BY MarkTypes DEF Followed, FilesAgree, IInv, StateTypes, ThreadTypes, Known,
     KnownMark
<1>3. /\ Head(queue).removed => RemovalNoticed(f)
      /\ \A x : /\ Noticed(x)' => Noticed(x)
                /\ RemovalNoticed(x)' => RemovalNoticed(x)
                /\ Noticed(x) => Noticed(x)' \/ x = f
                /\ RemovalNoticed(x) =>
                     RemovalNoticed(x)' \/ (x = f /\ Head(queue).removed)
  BY DeliverNotices DEF Followed, IInv
<1>4. disk[f] # 0 => ~Head(queue).removed
  BY <1>3 DEF Followed, FilesAgree
<1>5. QED
  BY <1>1, <1>2, <1>3, <1>4

LEMMA FollowUnknownOrUnchanged ==
  ASSUME Followed, NEW f \in Files, FileUnknownOrUnchanged(f)
  PROVE  Followed'
<1> USE ProspectorAssumption DEF Followed, IInv, StateTypes
<1>1. IInv'
  BY StepFileNotice
<1>2. pc = "idle" /\ disk[f] # 0 /\ KnownMark(f) = disk[f]
  BY FileNotice DEF FileUnknownOrUnchanged
<1>3. \A x : /\ Noticed(x)' => Noticed(x)
             /\ RemovalNoticed(x)' <=> RemovalNoticed(x)
             /\ x # f => (Noticed(x)' <=> Noticed(x))
  BY <1>2, FileNotice DEF FileUnknownOrUnchanged
<1>4. UNCHANGED <<disk, writes, dirs, engine, armed, stale, files,
                  directories, m_knownFiles, pc, job, told, again>>
  BY <1>2, FileNotice DEF FileUnknownOrUnchanged, Struck, folderVars,
     engineVars, ioVars
<1>5. \A g \in Files : KnownMark(g)' = KnownMark(g)
  BY <1>4 DEF KnownMark
<1>6. \A d : There(d)' <=> There(d)
  BY <1>4 DEF There
<1>7. MarksArePast'
  BY <1>4, <1>5, <1>6 DEF MarksArePast
<1>8. FilesAgree' /\ FoldersAgree'
  BY <1>3, <1>4, <1>6 DEF FilesAgree, FoldersAgree
<1>9. FoldersAreWatched' /\ JobsAreOrderly'
  BY <1>3, <1>4, <1>6 DEF FoldersAreWatched, JobsAreOrderly,
     FolderIsOwed, LookComes, Looking, AllVisited, Dirs
<1>10. ListingsAreSafe' /\ NewFilesAreFound'
  BY <1>2, <1>3, <1>4 DEF ListingsAreSafe, NewFilesAreFound, ToBeListed,
     LookComes, Looking
<1>11. LostFilesAreFound'
  BY <1>2, <1>3, <1>4, <1>6 DEF LostFilesAreFound, LookOwed, LookComes
<1>12. job.telling = {}
  BY <1>2 DEF Announced
<1>13. WatchedFilesAreTold'
  BY <1>2, <1>3, <1>4, <1>5, <1>12 DEF WatchedFilesAreTold, FileIsOwed
<1>14. QED
  BY <1>1, <1>7, <1>8, <1>9, <1>10, <1>11, <1>13

LEMMA FollowFileGone ==
  ASSUME Followed, NEW f \in Files, FileGone(f)
  PROVE  Followed'
<1> USE ProspectorAssumption DEF Followed, IInv, StateTypes
<1>1. IInv'
  BY StepFileNotice
<1>2. /\ UNCHANGED <<disk, writes, dirs, armed, stale, directories, pc, job>>
      /\ pc = "idle" /\ disk[f] = 0 /\ files' = files \ {f}
      /\ m_knownFiles'[f] = None /\ engine'[f] = None
      /\ \A g \in Files : g # f =>
           /\ m_knownFiles'[g] = m_knownFiles[g]
           /\ engine'[g] = engine[g] /\ told'[g] = told[g]
  BY DEF FileGone, Delivered, UntrackFiles, folderVars, ioVars, ThreadTypes
<1>3. \A x : /\ Noticed(x)' => Noticed(x)
             /\ RemovalNoticed(x)' => RemovalNoticed(x)
             /\ x # f => (Noticed(x)' <=> Noticed(x))
             /\ x # f => (RemovalNoticed(x)' <=> RemovalNoticed(x))
  BY FileNotice DEF FileGone
<1>4. \A g \in Files :
        KnownMark(g)' = IF g = f THEN 0 ELSE KnownMark(g)
  BY <1>2 DEF KnownMark
<1>5. \A d : There(d)' <=> There(d)
  BY <1>2 DEF There
<1>6. MarksArePast'
  BY <1>2, <1>4, <1>5 DEF MarksArePast, FolderTypes, Marks
<1>7. FilesAgree' /\ FoldersAgree'
  BY <1>2, <1>3, <1>5 DEF FilesAgree, FoldersAgree
<1>8. FoldersAreWatched' /\ JobsAreOrderly'
  BY <1>2, <1>3, <1>5 DEF FoldersAreWatched, JobsAreOrderly,
     FolderIsOwed, LookComes, Looking, AllVisited, Dirs
<1>9. ListingsAreSafe' /\ NewFilesAreFound'
  BY <1>2, <1>3 DEF ListingsAreSafe, NewFilesAreFound, ToBeListed,
     LookComes, Looking
<1>10. LostFilesAreFound'
  BY <1>2, <1>3, <1>5 DEF LostFilesAreFound, LookOwed, LookComes
<1>11. WatchedFilesAreTold'
  BY <1>2, <1>3, <1>4 DEF WatchedFilesAreTold, FileIsOwed
<1>12. QED
  BY <1>1, <1>6, <1>7, <1>8, <1>9, <1>10, <1>11

LEMMA FollowFileChanged ==
  ASSUME Followed, NEW f \in Files, FileChanged(f)
  PROVE  Followed'
<1> USE ProspectorAssumption DEF Followed, IInv, StateTypes
<1>1. IInv'
  BY StepFileNotice
<1>2. /\ pc = "idle" /\ f \in files /\ disk[f] \notin {0, KnownMark(f)}
      /\ files' = files
  BY FileNotice DEF FileChanged, Struck
<1>3. \A x : /\ Noticed(x)' => Noticed(x)
             /\ RemovalNoticed(x)' <=> RemovalNoticed(x)
             /\ x # f => (Noticed(x)' <=> Noticed(x))
  BY <1>2, FileNotice DEF FileChanged
<1>4. /\ UNCHANGED <<disk, writes, dirs, engine, armed, stale, files,
                     directories, m_knownFiles, told, again>>
      /\ pc' = "file" /\ job'.opened = None
      /\ job'.listed[f] = disk[f]
      /\ \A g \in Files : g # f => job'.listed[g] = 0
  BY <1>2 DEF FileChanged, NoJob, folderVars, engineVars
<1>5. \A g \in Files : KnownMark(g)' = KnownMark(g)
  BY <1>4 DEF KnownMark
<1>6. \A d : There(d)' <=> There(d)
  BY <1>4 DEF There
<1>7. MarksArePast'
  BY <1>4, <1>5, <1>6 DEF MarksArePast, FolderTypes, Marks
<1>8. FilesAgree' /\ FoldersAgree'
  BY <1>3, <1>4, <1>6 DEF FilesAgree, FoldersAgree
<1>9. FoldersAreWatched' /\ JobsAreOrderly'
  BY <1>2, <1>3, <1>4, <1>6 DEF FoldersAreWatched, JobsAreOrderly,
     FolderIsOwed, LookComes, Looking, AllVisited, Dirs
<1>10. ListingsAreSafe' /\ NewFilesAreFound'
  BY <1>2, <1>3, <1>4 DEF ListingsAreSafe, NewFilesAreFound, ToBeListed,
     LookComes, Looking
<1>11. LostFilesAreFound'
  BY <1>2, <1>3, <1>4, <1>6, MarkTypes DEF LostFilesAreFound, LookOwed,
     LookComes, ThreadTypes, Known
<1>12. job.telling = {}
  BY <1>2 DEF Announced
<1>13. WatchedFilesAreTold'
  BY <1>2, <1>3, <1>4, <1>5, <1>12 DEF WatchedFilesAreTold, FileIsOwed
<1>14. QED
  BY <1>1, <1>7, <1>8, <1>9, <1>10, <1>11, <1>13

LEMMA FollowFileTracks ==
  ASSUME Followed, NEW f \in Files, FileTracks(f)
  PROVE  Followed'
<1> USE ProspectorAssumption DEF Followed, IInv, StateTypes
<1>1. IInv'
  BY StepFileNotice
<1>2. /\ UNCHANGED <<disk, writes, dirs, armed, stale, directories, queue, pc,
                     told, again>>
      /\ pc = "file" /\ job.listed[f] # 0 /\ f \in files
      /\ TrackFile(f, FALSE)
      /\ job'.opened = None /\ job'.telling = {f}
      /\ \A g \in Files : job'.listed[g] = 0
  BY DEF FileTracks, NoJob, JobsAreOrderly, folderVars
<1>3. \A x : /\ Noticed(x)' <=> Noticed(x)
             /\ RemovalNoticed(x)' <=> RemovalNoticed(x)
  BY <1>2, KeepNotices
<1>4. /\ m_knownFiles'[f] # None /\ m_knownFiles'[f].mark = job.listed[f]
      /\ files' = files /\ engine' = engine
      /\ \A g \in Files : g # f => m_knownFiles'[g] = m_knownFiles[g]
  BY <1>2, TrackEffect
<1>5. \A e : There(e)' <=> There(e)
  BY <1>2 DEF There
<1>6. /\ KnownMark(f)' = job.listed[f]
      /\ \A g \in Files : g # f => KnownMark(g)' = KnownMark(g)
  BY <1>4 DEF KnownMark
<1>7. job.telling = {} /\ \A g \in Files : g # f => job.listed[g] = 0
  BY <1>2 DEF Announced, AllVisited, JobsAreOrderly
<1>8. MarksArePast'
  BY <1>2, <1>4, <1>5, <1>6 DEF MarksArePast, FolderTypes, Marks
<1>9. FilesAgree' /\ FoldersAgree'
  BY <1>2, <1>3, <1>4, <1>5 DEF FilesAgree, FoldersAgree
<1>10. FoldersAreWatched' /\ JobsAreOrderly'
  BY <1>2, <1>3, <1>4, <1>5 DEF FoldersAreWatched, JobsAreOrderly,
     FolderIsOwed, Looking, LookComes
<1>11. ListingsAreSafe' /\ NewFilesAreFound'
  BY <1>2, <1>3, <1>4 DEF ListingsAreSafe, NewFilesAreFound, ToBeListed,
     LookComes, Looking
<1>12. LostFilesAreFound'
  BY <1>2, <1>3, <1>4, <1>5, MarkTypes DEF LostFilesAreFound, LookOwed,
     LookComes, ThreadTypes, Known
<1>13. WatchedFilesAreTold'
  BY <1>2, <1>3, <1>4, <1>6, <1>7 DEF WatchedFilesAreTold, FileIsOwed
<1>14. QED
  BY <1>1, <1>8, <1>9, <1>10, <1>11, <1>12, <1>13

-----------------------------------------------------------------------------
(* The rescans.                                                            *)
LEMMA FollowRescan ==
  ASSUME Followed, NEW d \in Dirs, Rescan(d)
  PROVE  Followed'
<1> USE ProspectorAssumption DEF Followed, IInv, StateTypes
<1>1. IInv'
  BY StepRescan
<1>2. /\ UNCHANGED <<disk, writes, dirs, engine, armed, stale, files,
                     m_knownFiles, told, again>>
      /\ pc = "idle" /\ pc' = "rescan" /\ d \in directories
      /\ Delivered(d) /\ directories' = Struck(directories, d)
      /\ job'.dir = d /\ job'.opened = None /\ job'.subs = SubsIn(d)
      /\ job'.listed = WithListing(d) /\ job'.seen = {} /\ job'.telling = {}
  BY DEF Rescan, Delivered, NoJob, folderVars, engineVars
<1>3. /\ Head(queue).removed => RemovalNoticed(d)
      /\ \A x : /\ Noticed(x)' => Noticed(x)
                /\ RemovalNoticed(x)' => RemovalNoticed(x)
                /\ Noticed(x) => Noticed(x)' \/ x = d
                /\ RemovalNoticed(x) =>
                     RemovalNoticed(x)' \/ (x = d /\ Head(queue).removed)
  BY <1>2, DeliverNotices
<1>4. \A g \in Files : KnownMark(g)' = KnownMark(g)
  BY <1>2 DEF KnownMark
<1>5. \A e : There(e)' <=> There(e)
  BY <1>2 DEF There
<1>6. \A f \in Files :
        job'.listed[f] = IF Home[f] = d /\ disk[f] # 0 THEN disk[f] ELSE 0
  BY <1>2, ListingEffect DEF JobsAreOrderly, AllVisited
<1>7. /\ directories' = directories \/ (directories' = directories \ {d}
                                        /\ ~There(d) /\ d \notin armed)
      /\ There(d) => directories' = directories
  BY <1>2, <1>3 DEF Struck, FoldersAgree
<1>8. MarksArePast'
  BY <1>2, <1>4, <1>5, <1>6 DEF MarksArePast, FolderTypes, Marks
<1>9. FilesAgree'
  BY <1>2, <1>3 DEF FilesAgree
<1>10. FoldersAgree'
  BY <1>2, <1>3, <1>5, <1>7 DEF FoldersAgree, Struck
<1>11. FoldersAreWatched' /\ JobsAreOrderly'
  BY <1>2, <1>3, <1>5 DEF FoldersAreWatched, JobsAreOrderly, FolderIsOwed,
     LookComes, Looking, SubsIn, There
<1>12. ListingsAreSafe'
  BY <1>2, <1>5, <1>6, <1>7 DEF ListingsAreSafe, MarksArePast
<1>13. NewFilesAreFound'
  BY <1>2, <1>3, <1>6 DEF NewFilesAreFound, ToBeListed, Looking, LookComes
<1>14. LostFilesAreFound'
  <2> SUFFICES ASSUME NEW f \in Files, m_knownFiles[f] # None, f \notin files
               PROVE  /\ m_knownFiles[f].cached
                      /\ m_knownFiles[f].mark \notin {disk[f], job'.listed[f]}
                      /\ LookOwed(Home[f])' \/ Home[f] = d
    BY <1>2 DEF LostFilesAreFound
  <2>1. m_knownFiles[f].mark # 0
    BY MarkTypes DEF ThreadTypes, Known
  <2>2. LookOwed(Home[f])
    BY <1>2 DEF LostFilesAreFound
  <2>3. Home[f] # d => LookOwed(Home[f])'
    BY <1>2, <1>3, <1>5, <1>7, <2>2 DEF LookOwed, LookComes
  <2>4. QED
    BY <1>6, <2>1, <2>3 DEF LostFilesAreFound
<1>15. job.telling = {}
  BY <1>2 DEF Announced
<1>16. WatchedFilesAreTold'
  BY <1>2, <1>3, <1>4, <1>15 DEF WatchedFilesAreTold, FileIsOwed
<1>17. QED
  BY <1>1, <1>8, <1>9, <1>10, <1>11, <1>12, <1>13, <1>14, <1>16

LEMMA FollowSkipSub ==
  ASSUME Followed, NEW d \in Dirs, SkipSub(d)
  PROVE  Followed'
<1> USE ProspectorAssumption DEF Followed, IInv, StateTypes
<1>1. IInv'
  BY StepRescan
<1>2. /\ UNCHANGED <<disk, writes, dirs, engine, armed, stale, files,
                     directories, queue, m_knownFiles, pc, told, again>>
      /\ pc = "rescan" /\ job.opened = None /\ d \in directories
      /\ job'.dir = job.dir /\ job'.opened = job.opened
      /\ job'.subs = job.subs \ {d} /\ job'.listed = job.listed
      /\ job'.seen = job.seen /\ job'.telling = job.telling
  BY DEF SkipSub, Rescanning, folderVars, engineVars, listVars, ThreadTypes,
     Job
<1>3. \A x : /\ Noticed(x)' <=> Noticed(x)
             /\ RemovalNoticed(x)' <=> RemovalNoticed(x)
  BY <1>2, KeepNotices
<1>4. \A g \in Files : KnownMark(g)' = KnownMark(g)
  BY <1>2 DEF KnownMark
<1>5. \A e : There(e)' <=> There(e)
  BY <1>2 DEF There
<1>6. MarksArePast'
  BY <1>2, <1>4, <1>5 DEF MarksArePast
<1>7. FilesAgree' /\ FoldersAgree'
  BY <1>2, <1>3, <1>5 DEF FilesAgree, FoldersAgree
<1>8. There(d) => d \in armed
  BY <1>2 DEF FoldersAgree
<1>9. FoldersAreWatched' /\ JobsAreOrderly'
  BY <1>2, <1>3, <1>5, <1>8 DEF FoldersAreWatched, JobsAreOrderly,
     FolderIsOwed, LookComes, Looking
<1>10. ListingsAreSafe' /\ NewFilesAreFound'
  BY <1>2, <1>3, <1>5 DEF ListingsAreSafe, NewFilesAreFound, ToBeListed,
     LookOwed, LookComes, Looking
<1>11. LostFilesAreFound'
  BY <1>2, <1>3, <1>5 DEF LostFilesAreFound, LookOwed, LookComes
<1>12. WatchedFilesAreTold'
  BY <1>2, <1>3, <1>4 DEF WatchedFilesAreTold, FileIsOwed
<1>13. QED
  BY <1>1, <1>6, <1>7, <1>9, <1>10, <1>11, <1>12

LEMMA FollowTreeWatches ==
  ASSUME Followed, NEW d \in Dirs, TreeWatches(d)
  PROVE  Followed'
<1> USE ProspectorAssumption DEF Followed, IInv, StateTypes
<1>1. IInv'
  BY StepRescan
<1>2. /\ UNCHANGED <<disk, writes, dirs, engine, files, queue, m_knownFiles,
                     pc, told, again>>
      /\ pc = "rescan" /\ job.opened = None /\ d \notin directories
      /\ AddDirectory(d) /\ d # None
      /\ job'.dir = job.dir /\ job'.opened = d
      /\ job'.subs = job.subs \ {d} /\ job'.listed = job.listed
      /\ job'.seen = job.seen /\ job'.telling = job.telling
  BY MarkTypes DEF TreeWatches, Rescanning, folderVars, ThreadTypes, Job
<1>3. \A x : /\ Noticed(x)' <=> Noticed(x)
             /\ RemovalNoticed(x)' <=> RemovalNoticed(x)
  BY <1>2, KeepNotices
<1>4. \A g \in Files : KnownMark(g)' = KnownMark(g)
  BY <1>2 DEF KnownMark
<1>5. \A e : There(e)' <=> There(e)
  BY <1>2 DEF There
<1>6. /\ stale' = stale
      /\ IF There(d)
         THEN directories' = directories \cup {d} /\ armed' = armed \cup {d}
         ELSE directories' = directories /\ armed' = armed
  <2>1. armed \subseteq directories /\ stale \subseteq armed
    BY DEF FoldersAgree, WatcherTypes
  <2>2. QED
    BY <1>2, <2>1 DEF AddDirectory
<1>7. MarksArePast'
  BY <1>2, <1>4, <1>5 DEF MarksArePast
<1>8. FilesAgree' /\ FoldersAgree'
  BY <1>2, <1>3, <1>5, <1>6 DEF FilesAgree, FoldersAgree
<1>9. FoldersAreWatched' /\ JobsAreOrderly'
  BY <1>2, <1>3, <1>5, <1>6 DEF FoldersAreWatched, JobsAreOrderly,
     FolderIsOwed, LookComes, Looking
<1>10. ListingsAreSafe'
  BY <1>2, <1>3, <1>5, <1>6, MarkTypes
     DEF ListingsAreSafe, LookOwed, LookComes, Looking
<1>11. NewFilesAreFound'
  BY <1>2, <1>3, <1>5, <1>6
     DEF NewFilesAreFound, ToBeListed, LookComes, Looking
<1>12. LostFilesAreFound'
  BY <1>2, <1>3, <1>5, <1>6 DEF LostFilesAreFound, LookOwed, LookComes
<1>13. WatchedFilesAreTold'
  BY <1>2, <1>3, <1>4 DEF WatchedFilesAreTold, FileIsOwed
<1>14. QED
  BY <1>1, <1>7, <1>8, <1>9, <1>10, <1>11, <1>12, <1>13

LEMMA FollowTreeOpens ==
  ASSUME Followed, TreeOpens
  PROVE  Followed'
<1> DEFINE d == job.opened
<1> USE ProspectorAssumption DEF Followed, IInv, StateTypes
<1>1. IInv'
  BY StepTreeOpens
<1>2. /\ UNCHANGED <<disk, writes, dirs, engine, armed, stale, files,
                     directories, queue, m_knownFiles, pc, told, again>>
      /\ pc = "rescan" /\ d \in Dirs
      /\ job'.dir = job.dir /\ job'.opened = None /\ job'.subs = job.subs
      /\ job'.listed = WithListing(d)
      /\ job'.seen = job.seen /\ job'.telling = job.telling
  BY DEF TreeOpens, folderVars, engineVars, listVars, ThreadTypes, Job
<1>3. \A x : /\ Noticed(x)' <=> Noticed(x)
             /\ RemovalNoticed(x)' <=> RemovalNoticed(x)
  BY <1>2, KeepNotices
<1>4. \A g \in Files : KnownMark(g)' = KnownMark(g)
  BY <1>2 DEF KnownMark
<1>5. \A e : There(e)' <=> There(e)
  BY <1>2 DEF There
<1> HIDE DEF d
<1>6. \A f \in Files :
        job'.listed[f] = IF Home[f] = d /\ disk[f] # 0 THEN disk[f]
                         ELSE job.listed[f]
  BY <1>2, ListingEffect
<1>7. There(d) => d \in directories
  BY <1>2, MarkTypes DEF JobsAreOrderly, d
<1>8. MarksArePast'
  BY <1>2, <1>4, <1>5, <1>6 DEF MarksArePast
<1>9. FilesAgree' /\ FoldersAgree'
  BY <1>2, <1>3, <1>5 DEF FilesAgree, FoldersAgree
<1>10. FoldersAreWatched' /\ JobsAreOrderly'
  BY <1>2, <1>3, <1>5 DEF FoldersAreWatched, JobsAreOrderly, FolderIsOwed,
     Looking, LookComes
<1>11. ListingsAreSafe'
  BY <1>2, <1>3, <1>5, <1>6, <1>7
     DEF ListingsAreSafe, MarksArePast, Looking, LookOwed, LookComes, d
<1>12. NewFilesAreFound'
  BY <1>2, <1>3, <1>6 DEF NewFilesAreFound, ToBeListed, Looking, LookComes, d
<1>13. LostFilesAreFound'
  BY <1>2, <1>3, <1>5, <1>6 DEF LostFilesAreFound, LookOwed, LookComes
<1>14. WatchedFilesAreTold'
  BY <1>2, <1>3, <1>4 DEF WatchedFilesAreTold, FileIsOwed
<1>15. QED
  BY <1>1, <1>8, <1>9, <1>10, <1>11, <1>12, <1>13, <1>14

LEMMA FollowFindsNews ==
  ASSUME Followed, NEW f \in Files, RescanFindsNews(f)
  PROVE  Followed'
<1> USE ProspectorAssumption DEF Followed, IInv, StateTypes
<1>1. IInv'
  BY StepVisit
<1>2. /\ UNCHANGED <<disk, writes, dirs, armed, stale, directories, queue, pc,
                     told, again>>
      /\ pc = "rescan" /\ job.opened = None /\ job.telling = {}
      /\ job.listed[f] # 0 /\ TrackFile(f, TRUE)
      /\ job'.dir = job.dir /\ job'.opened = None /\ job'.subs = job.subs
      /\ job'.seen = job.seen \cup {f} /\ job'.telling = {f}
      /\ job'.listed[f] = 0
      /\ \A g \in Files : g # f => job'.listed[g] = job.listed[g]
  BY DEF RescanFindsNews, Visiting, Rescanning, Visited, folderVars,
     ThreadTypes, Job
<1>3. \A x : /\ Noticed(x)' <=> Noticed(x)
             /\ RemovalNoticed(x)' <=> RemovalNoticed(x)
  BY <1>2, KeepNotices
<1>4. /\ m_knownFiles'[f] # None /\ m_knownFiles'[f].mark = job.listed[f]
      /\ m_knownFiles'[f].cached
      /\ IF f \in files \/ disk[f] = 0
         THEN files' = files /\ engine' = engine
         ELSE files' = files \cup {f} /\ engine'[f] = disk[f]
      /\ \A g \in Files : g # f =>
           m_knownFiles'[g] = m_knownFiles[g] /\ engine'[g] = engine[g]
  BY <1>2, TrackEffect
<1>5. \A e : There(e)' <=> There(e)
  BY <1>2 DEF There
<1>6. /\ KnownMark(f)' = job.listed[f]
      /\ \A g \in Files : g # f => KnownMark(g)' = KnownMark(g)
  BY <1>4 DEF KnownMark
<1>7. MarksArePast'
  BY <1>2, <1>4, <1>5, <1>6 DEF MarksArePast, FolderTypes, Marks
<1>8. FilesAgree' /\ FoldersAgree'
  BY <1>2, <1>3, <1>4, <1>5, MarkTypes
     DEF FilesAgree, FoldersAgree, FolderTypes
<1>9. FoldersAreWatched' /\ JobsAreOrderly'
  BY <1>2, <1>3, <1>5 DEF FoldersAreWatched, JobsAreOrderly, FolderIsOwed,
     Looking, LookComes
<1>10. ListingsAreSafe'
  BY <1>2, <1>3, <1>5, MarkTypes
     DEF ListingsAreSafe, Looking, LookOwed, LookComes
<1>11. NewFilesAreFound'
  BY <1>2, <1>3, <1>4, MarkTypes DEF NewFilesAreFound, ToBeListed, Looking,
     LookComes
<1>12. LostFilesAreFound'
  BY <1>2, <1>3, <1>4, <1>5, MarkTypes DEF LostFilesAreFound, ListingsAreSafe,
     Looking, LookOwed, LookComes, ThreadTypes, Known
<1>13. WatchedFilesAreTold'
  BY <1>2, <1>3, <1>4, <1>6 DEF WatchedFilesAreTold, FileIsOwed
<1>14. QED
  BY <1>1, <1>7, <1>8, <1>9, <1>10, <1>11, <1>12, <1>13

LEMMA FollowFindsNoNews ==
  ASSUME Followed, NEW f \in Files, RescanFindsNoNews(f)
  PROVE  Followed'
<1> USE ProspectorAssumption DEF Followed, IInv, StateTypes
<1>1. IInv'
  BY StepVisit
<1>2. /\ UNCHANGED <<disk, writes, dirs, engine, armed, stale, files,
                     directories, queue, m_knownFiles, pc, told, again>>
      /\ pc = "rescan" /\ job.listed[f] # 0 /\ KnownMark(f) = job.listed[f]
      /\ job'.dir = job.dir /\ job'.opened = job.opened
      /\ job'.subs = job.subs /\ job'.telling = job.telling
      /\ job'.seen = job.seen \cup {f} /\ job'.listed[f] = 0
      /\ \A g \in Files : g # f => job'.listed[g] = job.listed[g]
  BY DEF RescanFindsNoNews, Visiting, Rescanning, IsNews, Visited, folderVars,
     engineVars, listVars, ThreadTypes, Job
<1>3. \A x : /\ Noticed(x)' <=> Noticed(x)
             /\ RemovalNoticed(x)' <=> RemovalNoticed(x)
  BY <1>2, KeepNotices
<1>4. \A g \in Files : KnownMark(g)' = KnownMark(g)
  BY <1>2 DEF KnownMark
<1>5. \A e : There(e)' <=> There(e)
  BY <1>2 DEF There
<1>6. f \in files
  BY <1>2 DEF LostFilesAreFound, KnownMark
<1>7. MarksArePast'
  BY <1>2, <1>4, <1>5 DEF MarksArePast, FolderTypes, Marks
<1>8. FilesAgree' /\ FoldersAgree'
  BY <1>2, <1>3, <1>5 DEF FilesAgree, FoldersAgree
<1>9. FoldersAreWatched' /\ JobsAreOrderly'
  BY <1>2, <1>3, <1>5 DEF FoldersAreWatched, JobsAreOrderly, FolderIsOwed,
     Looking, LookComes
<1>10. ListingsAreSafe'
  BY <1>2, <1>3, <1>5 DEF ListingsAreSafe, Looking, LookOwed, LookComes
<1>11. NewFilesAreFound'
  BY <1>2, <1>3, <1>6 DEF NewFilesAreFound, ToBeListed, Looking, LookComes
<1>12. LostFilesAreFound'
  BY <1>2, <1>3, <1>5, <1>6 DEF LostFilesAreFound, LookOwed, LookComes
<1>13. WatchedFilesAreTold'
  BY <1>2, <1>3, <1>4 DEF WatchedFilesAreTold, FileIsOwed
<1>14. QED
  BY <1>1, <1>7, <1>8, <1>9, <1>10, <1>11, <1>12, <1>13

LEMMA FollowTells ==
  ASSUME Followed, NEW f \in Files, Tells(f)
  PROVE  Followed'
<1> USE ProspectorAssumption DEF Followed, IInv, StateTypes
<1>1. IInv'
  BY StepTells
<1>2. /\ UNCHANGED <<disk, writes, dirs, engine, armed, stale, files,
                     directories, queue, m_knownFiles>>
      /\ f \in job.telling /\ job'.telling = job.telling \ {f}
      /\ told'[f] = disk[f]
      /\ \A g \in Files : g # f => told'[g] = told[g]
      /\ job'.dir = job.dir /\ job'.opened = job.opened
      /\ job'.subs = job.subs /\ job'.listed = job.listed
      /\ job'.seen = job.seen
      /\ pc' = pc \/ (pc = "file" /\ pc' = "idle")
  BY DEF Tells, folderVars, engineVars, listVars, ThreadTypes, Job
<1>3. pc \in {"rescan", "file"} /\ (pc = "file" => AllVisited)
  BY <1>2 DEF Announced, ThreadTypes
<1>4. \A x : /\ Noticed(x)' <=> Noticed(x)
             /\ RemovalNoticed(x)' <=> RemovalNoticed(x)
  BY <1>2, KeepNotices
<1>5. \A g \in Files : KnownMark(g)' = KnownMark(g)
  BY <1>2 DEF KnownMark
<1>6. \A e : There(e)' <=> There(e)
  BY <1>2 DEF There
<1>7. MarksArePast'
  BY <1>2, <1>5, <1>6 DEF MarksArePast
<1>8. FilesAgree' /\ FoldersAgree'
  BY <1>2, <1>4, <1>6 DEF FilesAgree, FoldersAgree
<1>9. FoldersAreWatched' /\ JobsAreOrderly'
  BY <1>2, <1>3, <1>4, <1>6 DEF FoldersAreWatched, JobsAreOrderly,
     FolderIsOwed, Looking, LookComes, AllVisited
<1>10. ListingsAreSafe' /\ NewFilesAreFound'
  BY <1>2, <1>3, <1>4, <1>6 DEF ListingsAreSafe, NewFilesAreFound, ToBeListed,
     LookOwed, LookComes, Looking
<1>11. LostFilesAreFound'
  BY <1>2, <1>3, <1>4, <1>6 DEF LostFilesAreFound, LookOwed, LookComes
<1>12. WatchedFilesAreTold'
  BY <1>2, <1>3, <1>4, <1>5 DEF WatchedFilesAreTold, FileIsOwed, AllVisited
<1>13. QED
  BY <1>1, <1>7, <1>8, <1>9, <1>10, <1>11, <1>12

LEMMA FollowRescanEnds ==
  ASSUME Followed, RescanEnds
  PROVE  Followed'
<1> DEFINE gone == {f \in Files : InFolder(f) /\ f \notin job.seen}
<1> USE ProspectorAssumption DEF Followed, IInv, StateTypes
<1>1. IInv'
  BY StepRescanEnds
<1>2. /\ UNCHANGED <<disk, writes, dirs, armed, stale, directories, queue>>
      /\ pc = "rescan" /\ pc' = "idle"
      /\ job.opened = None /\ job.telling = {} /\ job.subs = {} /\ AllVisited
      /\ job'.opened = None /\ \A f \in Files : job'.listed[f] = 0
      /\ files' = files \ gone
  BY DEF RescanEnds, Rescanning, UntrackFiles, NoJob, folderVars
<1>3. \A f \in gone :
        m_knownFiles'[f] = None /\ engine'[f] = None /\ told'[f] = None
  BY DEF RescanEnds, UntrackFiles
<1>4. \A f \in Files : f \notin gone =>
        /\ engine'[f] = engine[f] /\ told'[f] = told[f]
        /\ m_knownFiles'[f] = None <=> m_knownFiles[f] = None
        /\ m_knownFiles[f] # None =>
             /\ m_knownFiles'[f].mark = m_knownFiles[f].mark
             /\ m_knownFiles[f].cached => m_knownFiles'[f].cached
  BY MarkTypes DEF RescanEnds, UntrackFiles, ThreadTypes, Known
<1>5. \A f \in gone : Home[f] = job.dir /\ f \notin job.seen
  BY DEF InFolder
<1>6. \A f \in Files : f \in gone
        \/ m_knownFiles[f] = None \/ ~m_knownFiles[f].cached
        \/ Home[f] # job.dir \/ f \in job.seen
  BY DEF InFolder
<1> HIDE DEF gone
<1>7. \A x : /\ Noticed(x)' <=> Noticed(x)
             /\ RemovalNoticed(x)' <=> RemovalNoticed(x)
  BY <1>2, KeepNotices
<1>8. \A g \in Files : KnownMark(g)' = IF g \in gone THEN 0 ELSE KnownMark(g)
  BY <1>3, <1>4 DEF KnownMark
<1>9. \A e : There(e)' <=> There(e)
  BY <1>2 DEF There
<1>10. MarksArePast'
  BY <1>2, <1>3, <1>4, <1>8, <1>9 DEF MarksArePast, FolderTypes, Marks
<1>11. FilesAgree' /\ FoldersAgree'
  BY <1>2, <1>3, <1>4, <1>7, <1>9 DEF FilesAgree, FoldersAgree
<1>12. FoldersAreWatched' /\ JobsAreOrderly'
  BY <1>2, <1>7, <1>9 DEF FoldersAreWatched, JobsAreOrderly, FolderIsOwed,
     Looking, LookComes, AllVisited
<1>13. ListingsAreSafe'
  BY <1>2 DEF ListingsAreSafe, Looking
<1>14. NewFilesAreFound'
  BY <1>2, <1>5, <1>7, MarkTypes DEF NewFilesAreFound, ToBeListed, Looking,
     LookComes, AllVisited
<1>15. LostFilesAreFound'
  BY <1>2, <1>3, <1>4, <1>6, <1>7, <1>9, MarkTypes
     DEF LostFilesAreFound, LookOwed, LookComes, AllVisited
<1>16. WatchedFilesAreTold'
  BY <1>2, <1>3, <1>4, <1>7, <1>8 DEF WatchedFilesAreTold, FileIsOwed
<1>17. QED
  BY <1>1, <1>10, <1>11, <1>12, <1>13, <1>14, <1>15, <1>16

-----------------------------------------------------------------------------
LEMMA FollowStep ==
  ASSUME Followed, Hasty = {}, [Next]_vars
  PROVE  Followed'
<1>1. CASE Folder
  BY <1>1, FollowOverwrite, FollowCreate, FollowDelete, FollowMakeDir,
     FollowRemoveDir DEF Folder
<1>2. CASE Engine
  BY <1>2, FollowEngineSeesFile, FollowEngineSeesDir DEF Engine
<1>3. CASE Sweep
  BY <1>3, FollowSweepBegins, FollowSweepOpens, FollowSweepWatches,
     FollowSweepTracks, FollowSweepEnds DEF Sweep
<1>4. CASE Handler
  BY <1>4, FollowUnknownOrUnchanged, FollowFileGone, FollowFileChanged,
     FollowFileTracks, FollowDiscard, FollowRescan, FollowSkipSub,
     FollowTreeWatches, FollowTreeOpens, FollowFindsNews, FollowFindsNoNews,
     FollowTells, FollowRescanEnds DEF Handler
<1>5. CASE UNCHANGED vars
  <2> USE <1>5 DEF vars, folderVars, engineVars, listVars, ioVars, Followed
  <2>1. IInv'
    BY StepIInv
  <2>2. MarksArePast' /\ FilesAgree' /\ FoldersAgree' /\ JobsAreOrderly'
    BY DEF MarksArePast, KnownMark, FilesAgree, FoldersAgree, JobsAreOrderly,
       RemovalNoticed, There, Looking, AllVisited
  <2>3. FoldersAreWatched' /\ ListingsAreSafe' /\ LostFilesAreFound'
    BY DEF FoldersAreWatched, ListingsAreSafe, LostFilesAreFound, FolderIsOwed,
       LookOwed, LookComes, Noticed, There, Looking
  <2>4. NewFilesAreFound' /\ WatchedFilesAreTold'
    BY DEF NewFilesAreFound, WatchedFilesAreTold, ToBeListed, FileIsOwed,
       LookComes, Noticed, KnownMark, Looking
  <2>5. QED
    BY <2>1, <2>2, <2>3, <2>4
<1>6. QED
  BY <1>1, <1>2, <1>3, <1>4, <1>5 DEF Next

LEMMA FollowedHolds == ASSUME Hasty = {} PROVE Safety => []Followed
<1>1. Followed /\ [Next]_vars => Followed'
  BY FollowStep
<1>2. QED
  BY <1>1, FollowInit, PTL DEF Safety

(* What is owed nothing: every folder there is is watched, and every file. *)
LEMMA QuietFolders ==
  ASSUME Followed, Quiescent
  PROVE  /\ directories = {Root} \cup dirs /\ armed = directories
         /\ \A d : ~LookOwed(d)
         /\ \A x : ~Noticed(x) /\ ~RemovalNoticed(x)
<1>1. \A x : ~Noticed(x) /\ ~RemovalNoticed(x)
  BY DEF Quiescent, Noticed, RemovalNoticed
<1>2. armed = directories
  BY <1>1 DEF Followed, FoldersAgree, IInv, StateTypes, WatcherTypes
<1>3. \A d \in Dirs : There(d) <=> d \in armed
  BY <1>1 DEF Followed, FoldersAreWatched, FolderIsOwed, LookComes, Quiescent
<1>4. directories = {Root} \cup dirs
  BY <1>2, <1>3 DEF There, Dirs, Followed, IInv, StateTypes, FolderTypes,
     WatcherTypes
<1>5. \A d : ~LookOwed(d)
  BY <1>1, <1>2 DEF LookOwed, LookComes, Quiescent
<1>6. QED
  BY <1>1, <1>2, <1>4, <1>5

LEMMA QuietFile ==
  ASSUME Followed, Quiescent, NEW f \in Files
  PROVE  IF disk[f] = 0
         THEN f \notin files /\ engine[f] = None /\ m_knownFiles[f] = None
              /\ told[f] = None
         ELSE f \in files /\ engine[f] = disk[f] /\ m_knownFiles[f] # None
              /\ told[f] = disk[f]
<1> USE DEF Followed
<1>1. /\ pc = "idle" /\ engine[f] \in {None, disk[f]} /\ job.telling = {}
      /\ AllVisited
  BY DEF Quiescent, IInv, Announced, JobsAreOrderly
<1>2. \A x : ~Noticed(x) /\ ~RemovalNoticed(x) /\ ~LookOwed(x)
  BY QuietFolders
<1>3. f \in files <=> engine[f] # None
  BY <1>2 DEF FilesAgree
<1>4. f \in files => disk[f] # 0
  BY <1>1, <1>3 DEF MarksArePast
<1>5. m_knownFiles[f] # None <=> f \in files
  BY <1>1, <1>2 DEF LostFilesAreFound, FilesAgree
<1>6. disk[f] # 0 => f \in files
  <2>1. There(Home[f]) => Home[f] \in armed
    BY QuietFolders, ProspectorAssumption DEF There, Dirs
  <2>2. disk[f] # 0 => There(Home[f])
    BY DEF MarksArePast
  <2>3. QED
    BY <1>1, <1>2, <2>1, <2>2 DEF NewFilesAreFound, ToBeListed, LookComes,
       Looking, Quiescent
<1>7. f \in files => told[f] = disk[f]
  BY <1>1, <1>2, <1>3, <1>4 DEF WatchedFilesAreTold, FileIsOwed
<1>8. f \notin files => told[f] = None
  BY <1>1, <1>5 DEF IInv, Announced
<1>9. QED
  BY <1>1, <1>3, <1>4, <1>5, <1>6, <1>7, <1>8

(***************************************************************************)
(* Once things are quiet the store has seen every replay as it now is and  *)
(* was told of every one that went, for any files, folders, writes and     *)
(* moves and any order of the two threads, as long as no path comes back   *)
(* before the watcher has let go of it and no folder changes while it is   *)
(* read and not watched (prospector.cpp:83-134, 162-281).                  *)
(***************************************************************************)
THEOREM FolderFollowed == ASSUME Hasty = {} PROVE Safety => []FolderIsFollowed
<1>1. Followed => FolderIsFollowed
  BY QuietFile DEF FolderIsFollowed, InStep
<1>2. QED
  BY <1>1, FollowedHolds, PTL

(***************************************************************************)
(* Once things are quiet Qt's lists, what it is armed for, the map of      *)
(* known files and the folder are the same, under the same condition       *)
(* (prospector.h:114-117, prospector.cpp:236-251).                         *)
(***************************************************************************)
THEOREM NothingUnwatched ==
  ASSUME Hasty = {} PROVE Safety => []NothingGoesUnwatched
<1>1. Followed => NothingGoesUnwatched
  BY QuietFile, QuietFolders DEF NothingGoesUnwatched, LetGo
<1>2. QED
  BY <1>1, FollowedHolds, PTL

=============================================================================
