-------------------------- MODULE ReplayStoreProofs --------------------------
(***************************************************************************)
(* What holds of ReplayStore for every number of paths, replays, writes,   *)
(* retries and faults.  The inductive invariant is built in layers, each   *)
(* proved with the layers before it:                                       *)
(*   Grounded       the types, and what the locals of an attempt mean;     *)
(*   Backed         CatalogueIsBacked, also while a commit is under way;   *)
(*   Stamped        a watermark stands for one content, FastPathIsSound;   *)
(*   Accounted      somebody still owes every file a look unless it is     *)
(*                  recorded, which at rest is NoReplayIsStranded.         *)
(*                                                                         *)
(* The second half is what the store promises to the parts around it: to   *)
(* the user interface, that it shows what the database holds and nothing   *)
(* that is gone; to the retry list, that every handler uses it as module   *)
(* Deferred allows.  For that the invariant is extended by                 *)
(*   ChangesAreNoticed  what the prospector remembers of a path is what    *)
(*                      is there, unless a notification is still to come;  *)
(*   TracesAreKnown     only a path the prospector remembers has left a    *)
(*                      trace: an entry, an inbox item, a row, an attempt; *)
(*   ListIsWalked       where the list is while timerFired walks it;       *)
(*   ShownIsCurrent     PublishedIsCurrent.                                *)
(***************************************************************************)
EXTENDS ReplayStore, TLAPS

(* The attempt's locals are set in the order the attempt needs them.       *)
JobIsUsable ==
  /\ pc \in Busy => job.path \in Paths
  /\ pc \in {"read", "ingest", "commit"} => job.observed >= 1
  /\ pc \in {"ingest", "commit"} => job.checksum \in Checksums

FilesAreMarked == \A p \in Paths : Exists(p) => disk[p].mark >= 1

Grounded == TypeOK /\ JobIsUsable /\ FilesAreMarked

Backed ==
  /\ CatalogueIsBacked
  /\ pc = "commit" => stored[job.checksum] # "absent"

(* No watermark that was written down is of a write still to come.         *)
MarksArePast ==
  /\ \A p \in Paths : links[p] # None => links[p].mark <= disk[p].mark
  /\ \A p \in Paths : known[p] <= disk[p].mark
  /\ pc \in {"read", "ingest", "commit"} =>
       job.observed <= disk[job.path].mark

(* What was parsed is what the watermark stands for, and what is there     *)
(* unless a change is still to be notified.                                *)
ParseIsCurrent ==
  pc \in {"ingest", "commit"} =>
    /\ job.observed = Stat(job.path) => disk[job.path].content = job.checksum
    /\ job.path \in dirty \/ disk[job.path].content = job.checksum

(* The watches are in place whenever something can be notified, and what   *)
(* the prospector would take for nothing new is a file that is gone.       *)
WatchesAreSound ==
  /\ pc = "down" => dirty = {}
  /\ \A p \in dirty : known[p] = Stat(p) => ~Exists(p)
  /\ Sweeping => \A p \in Paths \ (listed \cup dirty) : ~Exists(p)

Stamped == MarksArePast /\ ParseIsCurrent /\ FastPathIsSound

Recognised(p) ==
  \/ disk[p].content \in {"absent", "corrupt"}
  \/ Links(p, disk[p].content)

Owed(p) ==
  \/ p \in dirty
  \/ m_deferred[p] # None
  \/ toCheck[p] # None
  \/ pc \in Busy /\ job.path = p
  \/ Sweeping /\ p \in todo

Accounted ==
  /\ WatchesAreSound
  /\ pc # "down" => \A p \in Paths \ missed : Recognised(p) \/ Owed(p)

IInv ==
  /\ Grounded
  /\ PollRunsWhenNeeded
  /\ PromisesAreKept
  /\ Backed
  /\ Stamped
  /\ Accounted

-----------------------------------------------------------------------------
(* The parts the handlers are made of, and the types they keep.            *)

LEMMA ConstantFacts ==
  /\ MaxWrites \in Nat \ {0} /\ MaxFaults \in Nat
  /\ MAX_FAST_STORAGE_RETRIES \in Nat /\ LongStopRounds \in Nat \ {0}
  /\ \A p \in Paths : None # p
  /\ \A e \in Retry!Entry : e # None
  /\ \A k \in Link : k # None
  /\ \A c \in Checksums : c \in Contents /\ c \notin {"absent", "empty", "torn", "corrupt"}
<1>1. \A e \in Retry!Entry : e \in [mark : Nat, age : Nat]
  BY StoreAssumption DEF Retry!Entry, Watermarks
<1>2. \A k \in Link : k \in [checksum : Checksums, mark : Nat]
  BY StoreAssumption DEF Link
<1>3. QED
  BY <1>1, <1>2, StoreAssumption DEF Contents

LEMMA PutKeepsTypes ==
  ASSUME RetryTypes, NEW p \in Paths, NEW mark \in Watermarks,
         WaitForChange(p, mark)
  PROVE  /\ m_deferred' \in [Paths -> Retry!Entry \cup {None}]
         /\ m_deferred'[p] # None
         /\ \A q \in Paths \ {p} : m_deferred'[q] = m_deferred[q]
         /\ trigger' = TRUE
<1>1. Retry!Fresh(mark) \in Retry!Entry
  BY ConstantFacts DEF Retry!Fresh, Retry!Entry
<1>2. QED
  BY <1>1, ConstantFacts DEF WaitForChange, RetryTypes

LEMMA DropKeepsTypes ==
  ASSUME RetryTypes, NEW p \in Paths, RemoveWaitForChange(p)
  PROVE  /\ m_deferred' \in [Paths -> Retry!Entry \cup {None}]
         /\ \A q \in Paths \ {p} : m_deferred'[q] = m_deferred[q]
         /\ trigger' = (trigger /\ m_deferred' # Retry!Nothing)
         /\ trigger' \in BOOLEAN
BY DEF RemoveWaitForChange, RetryTypes, Retry!Without

LEMMA ForwardKeepsTypes ==
  ASSUME ScreenTypes, NEW cs, ForwardChangedReplays(cs)
  PROVE  published' \in [Checksums -> {"unknown", "hidden", "exposed"}]
<1>1. \A c, rows, ext : Showing(c, rows, ext) \in {"unknown", "hidden", "exposed"}
  BY DEF Showing
<1>2. QED
  BY <1>1 DEF ForwardChangedReplays, ScreenTypes

LEMMA UnlinkKeepsTypes ==
  ASSUME DatabaseTypes, ScreenTypes, NEW p \in Paths, Unlink(p)
  PROVE  /\ DatabaseTypes'
         /\ published' \in [Checksums -> {"unknown", "hidden", "exposed"}]
         /\ links' = [links EXCEPT ![p] = None]
         /\ UNCHANGED <<replays, stored>>
<1>1. published' \in [Checksums -> {"unknown", "hidden", "exposed"}]
  BY ForwardKeepsTypes DEF Unlink
<1>2. QED
  BY <1>1 DEF Unlink, DatabaseTypes

LEMMA FaultKeepsTypes ==
  ASSUME ThreadTypes, NEW kind, Fault(kind) \/ NoFault
  PROVE  faults' \in 0 .. MaxFaults
BY ConstantFacts DEF Fault, NoFault, ThreadTypes

LEMMA RemoveLinkKeepsTypes ==
  ASSUME DatabaseTypes, ScreenTypes, ThreadTypes, NEW p \in Paths,
         RemoveReplayFileLink(p)
  PROVE  /\ DatabaseTypes'
         /\ published' \in [Checksums -> {"unknown", "hidden", "exposed"}]
         /\ links' = links \/ links' = [links EXCEPT ![p] = None]
         /\ UNCHANGED <<replays, stored>>
         /\ faults' \in 0 .. MaxFaults
<1>1. CASE NoFault /\ Unlink(p)
  BY <1>1, UnlinkKeepsTypes, FaultKeepsTypes
<1>2. CASE Fault("unlink") /\ UNCHANGED <<dbVars, published>>
  BY <1>2, FaultKeepsTypes DEF dbVars, DatabaseTypes, ScreenTypes
<1>3. QED
  BY <1>1, <1>2 DEF RemoveReplayFileLink

LEMMA ReturnKeepsTypes ==
  ASSUME Return
  PROVE  pc' \in {"sweep", "idle"} /\ job' = NoJob /\ NoJob \in Job
BY ConstantFacts DEF Return, NoJob, Job, Watermarks

LEMMA StorageFailureKeepsTypes ==
  ASSUME RetryTypes, ScreenTypes, NEW p \in Paths,
         NEW observed \in Watermarks, HandleStorageFailure(p, observed)
  PROVE  /\ m_deferred' \in [Paths -> Retry!Entry \cup {None}]
         /\ m_deferred'[p] # None
         /\ \A q \in Paths \ {p} : m_deferred'[q] = m_deferred[q]
         /\ trigger' = TRUE
         /\ retries' \in [Paths -> 0 .. MAX_FAST_STORAGE_RETRIES + 1]
         /\ inbox' \in [Paths -> {"none", "pending", "torn", "corrupt"}]
         /\ \A q \in Paths \ {p} : inbox'[q] = inbox[q]
         /\ Return
<1> DEFINE mark == IF retries[p] + 1 <= MAX_FAST_STORAGE_RETRIES
                   THEN unmatchableWatermark ELSE observed
<1>1. mark \in Watermarks
  BY ConstantFacts DEF unmatchableWatermark, Watermarks
<1>2. WaitForChange(p, mark) /\ Return /\ Observed(p, "pending")
  BY DEF HandleStorageFailure
<1>3. retries' \in [Paths -> 0 .. MAX_FAST_STORAGE_RETRIES + 1]
  BY ConstantFacts DEF HandleStorageFailure, RetryTypes
<1> HIDE DEF mark
<1>4. QED
  BY <1>1, <1>2, <1>3, PutKeepsTypes DEF Observed, ScreenTypes

LEMMA IncompleteKeepsTypes ==
  ASSUME RetryTypes, DatabaseTypes, ScreenTypes, ThreadTypes, NEW p \in Paths,
         NEW observed \in Watermarks, NEW type \in {"pending", "torn"},
         HandleIncomplete(p, observed, type)
  PROVE  /\ m_deferred' \in [Paths -> Retry!Entry \cup {None}]
         /\ m_deferred'[p] # None
         /\ \A q \in Paths \ {p} : m_deferred'[q] = m_deferred[q]
         /\ trigger' = TRUE
         /\ UNCHANGED retries
         /\ DatabaseTypes'
         /\ ScreenTypes'
         /\ \A q \in Paths \ {p} : inbox'[q] = inbox[q]
         /\ links' = links \/ links' = [links EXCEPT ![p] = None]
         /\ UNCHANGED <<replays, stored>>
         /\ faults' \in 0 .. MaxFaults
         /\ Return
<1>1. RemoveReplayFileLink(p) /\ WaitForChange(p, observed) /\ Return
      /\ Observed(p, type) /\ UNCHANGED retries
  BY DEF HandleIncomplete
<1>2. QED
  BY <1>1, PutKeepsTypes, RemoveLinkKeepsTypes DEF Observed, ScreenTypes

LEMMA StatIsWatermark ==
  ASSUME FolderTypes, NEW p \in Paths
  PROVE  Stat(p) \in Watermarks /\ Stat(p) <= disk[p].mark
BY ConstantFacts DEF FolderTypes, File, Stat, Watermarks

-----------------------------------------------------------------------------
LEMMA InitGrounded == Init => Grounded
<1> SUFFICES ASSUME Init PROVE Grounded
  OBVIOUS
<1> USE ConstantFacts DEF Init
<1>1. FolderTypes /\ DatabaseTypes
  BY DEF FolderTypes, DatabaseTypes, File, Absent, Watermarks, Contents
<1>2. RetryTypes /\ ScreenTypes
  <2>1. 0 \in 0 .. MAX_FAST_STORAGE_RETRIES + 1
    OBVIOUS
  <2>2. QED
    BY <2>1 DEF RetryTypes, ScreenTypes, Retry!Nothing
<1>3. ThreadTypes
  BY DEF ThreadTypes, NoJob, Job, Watermarks
<1>4. JobIsUsable /\ FilesAreMarked
  BY DEF JobIsUsable, FilesAreMarked, Exists, Absent, Busy
<1>5. QED
  BY <1>1, <1>2, <1>3, <1>4 DEF Grounded, TypeOK

(* What the environment does to the folder leaves the rest alone.          *)
LEMMA FolderGrounded == Grounded /\ Folder => Grounded'
<1> SUFFICES ASSUME Grounded, Folder PROVE Grounded'
  OBVIOUS
<1> USE ConstantFacts DEF Grounded, TypeOK, diskVars, dbVars, watchVars, deferVars,
    guiVars, sweepVars, ioVars
<1>1. ASSUME NEW p \in Paths, NEW content \in Contents, Write(p, content)
      PROVE Grounded'
  BY <1>1 DEF Write, Touched, FolderTypes, File, Watermarks, DatabaseTypes,
     RetryTypes, ScreenTypes, ThreadTypes, JobIsUsable, FilesAreMarked, Exists
<1>2. ASSUME NEW p \in Paths, Remove(p)
      PROVE Grounded'
  BY <1>2 DEF Remove, Touched, FolderTypes, File, Watermarks, DatabaseTypes,
     RetryTypes, ScreenTypes, ThreadTypes, JobIsUsable, FilesAreMarked, Exists
<1>3. ASSUME NEW p \in Paths, Lock(p) \/ Unlock(p)
      PROVE Grounded'
  BY <1>3, FaultKeepsTypes DEF Lock, Unlock, FolderTypes, DatabaseTypes,
     RetryTypes, ScreenTypes, ThreadTypes, JobIsUsable, FilesAreMarked, Exists
<1>4. QED
  BY <1>1, <1>2, <1>3 DEF Folder

(* The attempt begins, or ends at once with an entry on the retry list.    *)
LEMMA SampleGrounded ==
  ASSUME Grounded, NEW p \in Paths, NEW via \in {"none", "sweep", "notice", "poll"},
         Sample(p, via), UNCHANGED <<diskVars, watchVars, toCheck, listed, missed>>,
         todo' \subseteq Paths
  PROVE  Grounded'
<1> USE ConstantFacts DEF Grounded, TypeOK, diskVars, dbVars, watchVars, guiVars
<1>1. FolderTypes' /\ FilesAreMarked'
  BY DEF FolderTypes, FilesAreMarked, Exists
<1>2. Stat(p) \in Watermarks
  BY StatIsWatermark
<1>3. CASE HasSize(p)
  <2>1. Stat(p) >= 1
    BY <1>3 DEF HasSize, Stat, Exists, FilesAreMarked
  <2>2. RemoveWaitForChange(p) /\ pc' = "read" /\ NoFault
        /\ job' = [via |-> via, path |-> p, observed |-> Stat(p), checksum |-> None]
        /\ UNCHANGED <<dbVars, retries, guiVars>>
    BY <1>3 DEF Sample
  <2>3. DatabaseTypes' /\ ScreenTypes'
    BY <2>2 DEF DatabaseTypes, ScreenTypes
  <2>4. RetryTypes'
    BY <2>2, DropKeepsTypes DEF RetryTypes
  <2>5. ThreadTypes' /\ JobIsUsable'
    BY <1>2, <2>1, <2>2, FaultKeepsTypes DEF ThreadTypes, JobIsUsable, Job, Busy
  <2>6. QED
    BY <1>1, <2>3, <2>4, <2>5
<1>4. CASE ~HasSize(p)
  <2>1. HandleIncomplete(p, Stat(p), "pending")
    BY <1>4 DEF Sample
  <2>2. DatabaseTypes' /\ ScreenTypes' /\ RetryTypes' /\ Return
        /\ faults' \in 0 .. MaxFaults
    BY <1>2, <2>1, IncompleteKeepsTypes DEF RetryTypes
  <2>3. QED
    BY <1>1, <2>2, ReturnKeepsTypes DEF ThreadTypes, JobIsUsable, Busy
<1>5. QED
  BY <1>3, <1>4

LEMMA StartupGrounded == Grounded /\ Startup => Grounded'
<1> SUFFICES ASSUME Grounded, Startup PROVE Grounded'
  OBVIOUS
<1> USE ConstantFacts DEF Grounded, TypeOK, diskVars, dbVars, watchVars, deferVars,
    guiVars, sweepVars, ioVars
<1>1. CASE Start
  <2>1. FolderTypes'
    BY <1>1, StatIsWatermark DEF Start, FolderTypes
  <2>2. published' \in [Checksums -> {"unknown", "hidden", "exposed"}]
    BY <1>1 DEF Start, Snapshot, Showing
  <2>3. QED
    BY <1>1, <2>1, <2>2 DEF Start, DatabaseTypes, RetryTypes, ScreenTypes,
       ThreadTypes, JobIsUsable, FilesAreMarked, Exists, Busy
<1>2. ASSUME NEW p \in Paths, SweepSkips(p)
      PROVE Grounded'
  BY <1>2 DEF SweepSkips, FolderTypes, DatabaseTypes, RetryTypes, ScreenTypes,
     ThreadTypes, JobIsUsable, FilesAreMarked, Exists
<1>3. ASSUME NEW p \in Paths, SweepSamples(p)
      PROVE Grounded'
  BY <1>3, SampleGrounded DEF SweepSamples, ThreadTypes
<1>4. CASE SweepFails
  BY <1>4, FaultKeepsTypes DEF SweepFails, FolderTypes, DatabaseTypes, RetryTypes,
     ScreenTypes, ThreadTypes, JobIsUsable, FilesAreMarked, Exists, Busy
<1>5. CASE SweepEnds
  <2>1. published' \in [Checksums -> {"unknown", "hidden", "exposed"}]
    BY <1>5 DEF SweepEnds, Snapshot, Showing, ScreenTypes
  <2>2. links' \in [Paths -> Link \cup {None}]
    BY <1>5 DEF SweepEnds, DatabaseTypes
  <2>3. QED
    BY <1>5, <2>1, <2>2, FaultKeepsTypes DEF SweepEnds, FolderTypes,
       DatabaseTypes, RetryTypes, ScreenTypes, ThreadTypes, JobIsUsable,
       FilesAreMarked, Exists, Busy
<1>6. QED
  BY <1>1, <1>2, <1>3, <1>4, <1>5 DEF Startup

LEMMA NotifyGrounded ==
  ASSUME Grounded, NEW p \in Paths, Notify(p)
  PROVE  Grounded'
<1> USE ConstantFacts DEF Grounded, TypeOK, diskVars, dbVars, watchVars, deferVars,
    guiVars, sweepVars, ioVars, Notified
<1>1. CASE NotifyUnchanged(p)
  BY <1>1 DEF NotifyUnchanged, FolderTypes, DatabaseTypes, RetryTypes,
     ScreenTypes, ThreadTypes, JobIsUsable, FilesAreMarked, Exists
<1>2. CASE NotifyChanged(p)
  <2>1. FolderTypes' /\ FilesAreMarked'
    BY <1>2, StatIsWatermark DEF NotifyChanged, FolderTypes, FilesAreMarked, Exists
  <2>2. ThreadTypes' /\ JobIsUsable'
    <3>1. job' = [via |-> "notice", path |-> p, observed |-> 0, checksum |-> None]
      BY <1>2 DEF NotifyChanged, NoJob
    <3>2. QED
      BY <1>2, <3>1 DEF NotifyChanged, Job, Watermarks, ThreadTypes, JobIsUsable, Busy
  <2>3. QED
    BY <1>2, <2>1, <2>2 DEF NotifyChanged, DatabaseTypes, RetryTypes, ScreenTypes
<1>3. CASE NotifyRemoved(p)
  <2>1. FolderTypes' /\ FilesAreMarked'
    BY <1>3 DEF NotifyRemoved, FolderTypes, FilesAreMarked, Exists, Watermarks
  <2>2. RetryTypes'
    BY <1>3, DropKeepsTypes DEF NotifyRemoved, RetryTypes
  <2>3. DatabaseTypes' /\ ScreenTypes' /\ faults' \in 0 .. MaxFaults
    BY <1>3, RemoveLinkKeepsTypes DEF NotifyRemoved, Dismissed, ScreenTypes
  <2>4. QED
    BY <1>3, <2>1, <2>2, <2>3 DEF NotifyRemoved, ThreadTypes, JobIsUsable, Busy
<1>4. QED
  BY <1>1, <1>2, <1>3 DEF Notify

LEMMA PollGrounded == Grounded /\ (TimerFires \/ Poll) => Grounded'
<1> SUFFICES ASSUME Grounded, TimerFires \/ Poll PROVE Grounded'
  OBVIOUS
<1> USE ConstantFacts DEF Grounded, TypeOK, diskVars, dbVars, watchVars, deferVars,
    guiVars, sweepVars, ioVars
<1>1. CASE TimerFires
  <2>1. toCheck' \in [Paths -> Retry!Entry \cup {None}]
    BY <1>1 DEF TimerFires, RetryTypes, Retry!Aged, Retry!Entry
  <2>2. QED
    BY <1>1, <2>1 DEF TimerFires, FolderTypes, DatabaseTypes, RetryTypes,
       Retry!Nothing, ScreenTypes, ThreadTypes, JobIsUsable, FilesAreMarked, Exists
<1>2. ASSUME NEW p \in Paths, PollKeeps(p)
      PROVE Grounded'
  BY <1>2 DEF PollKeeps, FolderTypes, DatabaseTypes, RetryTypes,
     ScreenTypes, ThreadTypes, JobIsUsable, FilesAreMarked, Exists
<1>3. ASSUME NEW p \in Paths, PollRetries(p)
      PROVE Grounded'
  <2>1. ThreadTypes' /\ JobIsUsable'
    <3>1. job' = [via |-> "poll", path |-> p, observed |-> 0, checksum |-> None]
      BY <1>3 DEF PollRetries, NoJob
    <3>2. QED
      BY <1>3, <3>1 DEF PollRetries, Job, Watermarks, ThreadTypes, JobIsUsable, Busy
  <2>2. QED
    BY <1>3, <2>1 DEF PollRetries, FolderTypes, DatabaseTypes, RetryTypes,
       ScreenTypes, FilesAreMarked, Exists
<1>4. QED
  BY <1>1, <1>2, <1>3 DEF Poll

LEMMA RecordedKeepsTypes ==
  ASSUME Grounded, pc = "commit", Recorded
  PROVE  DatabaseTypes'
<1>1. [checksum |-> job.checksum, mark |-> job.observed] \in Link
  BY ConstantFacts DEF Grounded, TypeOK, ThreadTypes, JobIsUsable, Job, Link, Watermarks
<1>2. job.checksum \in Checksums /\ job.path \in Paths
  BY DEF Grounded, JobIsUsable, Busy
<1>3. QED
  BY <1>1, <1>2 DEF Recorded, Grounded, TypeOK, DatabaseTypes

LEMMA AttemptGrounded == Grounded /\ Attempt => Grounded'
<1> SUFFICES ASSUME Grounded, Attempt PROVE Grounded'
  OBVIOUS
<1> USE ConstantFacts DEF Grounded, TypeOK, diskVars, dbVars, watchVars, deferVars,
    guiVars, sweepVars
<1>1. pc \in Busy => job.path \in Paths
  BY DEF JobIsUsable
<1>2. job.observed \in Watermarks
  BY DEF ThreadTypes, Job
<1>3. CASE Begin
  <2>1. job.path \in Paths /\ job.via \in {"none", "sweep", "notice", "poll"}
    BY <1>1, <1>3 DEF Begin, Busy, ThreadTypes, Job
  <2>2. Sample(job.path, job.via) /\ todo' \subseteq Paths
        /\ UNCHANGED <<diskVars, watchVars, toCheck, listed, missed>>
    BY <1>3 DEF Begin, ThreadTypes
  <2>3. QED
    BY <2>1, <2>2, SampleGrounded
<1>4. CASE OpenFails \/ IngestFails \/ CommitFails
  <2>1. pc \in Busy /\ HandleStorageFailure(job.path, job.observed)
        /\ UNCHANGED <<diskVars, dbVars, watchVars, toCheck, published, sweepVars>>
        /\ faults' \in 0 .. MaxFaults
    BY <1>4, FaultKeepsTypes DEF OpenFails, IngestFails, CommitFails, NoFault, Busy,
       ThreadTypes
  <2>2. RetryTypes' /\ ScreenTypes' /\ Return
    BY <1>1, <1>2, <2>1, StorageFailureKeepsTypes DEF RetryTypes, ScreenTypes
  <2>3. QED
    BY <2>1, <2>2, ReturnKeepsTypes DEF FolderTypes, DatabaseTypes, ThreadTypes,
       JobIsUsable, FilesAreMarked, Exists, Busy
<1>5. CASE ParseTorn
  <2>1. pc \in Busy /\ HandleIncomplete(job.path, job.observed, "torn")
        /\ UNCHANGED <<diskVars, watchVars, toCheck, sweepVars>>
    BY <1>5 DEF ParseTorn, Busy
  <2>2. RetryTypes' /\ DatabaseTypes' /\ ScreenTypes' /\ Return
        /\ faults' \in 0 .. MaxFaults
    BY <1>1, <1>2, <2>1, IncompleteKeepsTypes DEF RetryTypes
  <2>3. QED
    BY <2>1, <2>2, ReturnKeepsTypes DEF FolderTypes, ThreadTypes, JobIsUsable,
       FilesAreMarked, Exists, Busy
<1>6. CASE ParseMisread
  <2>1. job.path \in Paths /\ Unlink(job.path)
        /\ WaitForChange(job.path, job.observed) /\ Return
        /\ UNCHANGED <<diskVars, watchVars, toCheck, retries, sweepVars>>
        /\ Observed(job.path, "torn")
        /\ faults' \in 0 .. MaxFaults
    BY <1>1, <1>6, FaultKeepsTypes DEF ParseMisread, Busy
  <2>2. RetryTypes' /\ DatabaseTypes' /\ ScreenTypes'
    BY <1>2, <2>1, PutKeepsTypes, UnlinkKeepsTypes DEF RetryTypes, ScreenTypes,
       Observed
  <2>3. QED
    BY <2>1, <2>2, ReturnKeepsTypes DEF FolderTypes, ThreadTypes, JobIsUsable,
       FilesAreMarked, Exists, Busy
<1>7. CASE ParseCorrupt
  <2>1. job.path \in Paths /\ RemoveReplayFileLink(job.path) /\ Return
        /\ Observed(job.path, "corrupt")
        /\ UNCHANGED <<diskVars, watchVars, deferVars, retries, sweepVars>>
    BY <1>1, <1>7 DEF ParseCorrupt, HandleParseFailure, Busy
  <2>2. DatabaseTypes' /\ ScreenTypes' /\ faults' \in 0 .. MaxFaults
    BY <2>1, RemoveLinkKeepsTypes DEF ScreenTypes, Observed
  <2>3. QED
    BY <2>1, <2>2, ReturnKeepsTypes DEF FolderTypes, RetryTypes, ThreadTypes,
       JobIsUsable, FilesAreMarked, Exists, Busy
<1>8. CASE ParseComplete \/ IngestKnown \/ IngestUnknown
  <2>1. FolderTypes' /\ FilesAreMarked' /\ RetryTypes' /\ ScreenTypes'
    BY <1>8 DEF ParseComplete, IngestKnown, IngestUnknown, FolderTypes,
       FilesAreMarked, Exists, RetryTypes, ScreenTypes
  <2>2. ThreadTypes' /\ JobIsUsable'
    BY <1>8 DEF ParseComplete, IngestKnown, IngestUnknown, ThreadTypes, Job,
       JobIsUsable, Busy
  <2>3. DatabaseTypes'
    BY <1>1, <1>8 DEF ParseComplete, IngestKnown, IngestUnknown, DatabaseTypes,
       FolderTypes, File, JobIsUsable, Busy
  <2>4. QED
    BY <2>1, <2>2, <2>3
<1>9. CASE Commit
  <2>1. DatabaseTypes'
    BY <1>9, RecordedKeepsTypes DEF Commit
  <2>2. RetryTypes' /\ ScreenTypes'
    <3>1. published' \in [Checksums -> {"unknown", "hidden", "exposed"}]
      BY <1>9, ForwardKeepsTypes DEF Commit
    <3>2. 0 \in 0 .. MAX_FAST_STORAGE_RETRIES + 1
      OBVIOUS
    <3>3. QED
      BY <1>9, <3>1, <3>2 DEF Commit, Dismissed, RetryTypes, ScreenTypes
  <2>3. QED
    BY <1>9, <2>1, <2>2, ReturnKeepsTypes DEF Commit, FolderTypes, ThreadTypes,
       JobIsUsable, FilesAreMarked, Exists, Busy
<1>10. CASE ForwardFails
  <2>1. pc = "commit" /\ HandleStorageFailure(job.path, job.observed)
        /\ UNCHANGED <<diskVars, watchVars, toCheck, published, sweepVars>>
        /\ Recorded /\ faults' \in 0 .. MaxFaults
    BY <1>10, FaultKeepsTypes DEF ForwardFails
  <2>2. RetryTypes' /\ ScreenTypes' /\ Return
    BY <1>1, <1>2, <2>1, StorageFailureKeepsTypes DEF RetryTypes, ScreenTypes, Busy
  <2>3. DatabaseTypes'
    BY <2>1, RecordedKeepsTypes
  <2>4. QED
    BY <2>1, <2>2, <2>3, ReturnKeepsTypes DEF FolderTypes, ThreadTypes,
       JobIsUsable, FilesAreMarked, Exists, Busy
<1>11. QED
  BY <1>3, <1>4, <1>5, <1>6, <1>7, <1>8, <1>9, <1>10 DEF Attempt

LEMMA UserGrounded == Grounded /\ (User \/ Hide \/ Crash) => Grounded'
<1> SUFFICES ASSUME Grounded, User \/ Hide \/ Crash PROVE Grounded'
  OBVIOUS
<1> USE ConstantFacts DEF Grounded, TypeOK, diskVars, dbVars, watchVars, deferVars,
    guiVars, sweepVars, ioVars
<1>1. ASSUME NEW p \in Paths, AcknowledgeItem(p)
      PROVE Grounded'
  BY <1>1 DEF AcknowledgeItem, Dismissed, FolderTypes, DatabaseTypes, RetryTypes,
     ScreenTypes, ThreadTypes, JobIsUsable, FilesAreMarked, Exists
<1>2. ASSUME NEW c \in Checksums, NEW p \in Paths, ExposeReplay(c, p)
      PROVE Grounded'
  <2>1. stored[c] \in Contents \cup {"absent"}
    BY DEF DatabaseTypes
  <2>2. QED
    BY <1>2, <2>1 DEF ExposeReplay, Touched, File, Watermarks, FolderTypes,
     DatabaseTypes, RetryTypes, ScreenTypes, ThreadTypes, JobIsUsable,
     FilesAreMarked, Exists
<1>3. ASSUME NEW c \in Checksums, HideReplay(c)
      PROVE Grounded'
  BY <1>3 DEF HideReplay, AtRest, FolderTypes, DatabaseTypes, RetryTypes,
     ScreenTypes, ThreadTypes, JobIsUsable, FilesAreMarked, Exists, Busy
<1>4. ASSUME NEW p \in Paths, HideRemoves(p)
      PROVE Grounded'
  <2>1. FolderTypes' /\ FilesAreMarked'
    BY <1>4 DEF HideRemoves, Touched, CanOpen, FolderTypes, FilesAreMarked, File,
       Watermarks, Exists
  <2>2. QED
    BY <1>4, <2>1 DEF HideRemoves, DatabaseTypes, RetryTypes, ScreenTypes,
       ThreadTypes, JobIsUsable, Busy
<1>5. CASE Crash
  <2>1. faults' \in 0 .. MaxFaults
    BY <1>5, FaultKeepsTypes DEF Crash
  <2>2. 0 \in 0 .. MAX_FAST_STORAGE_RETRIES + 1 /\ 0 \in Watermarks
    BY DEF Watermarks
  <2>3. RetryTypes' /\ ScreenTypes'
    BY <1>5, <2>2 DEF Crash, RetryTypes, ScreenTypes, Retry!Nothing
  <2>4. FolderTypes' /\ FilesAreMarked'
    BY <1>5, <2>2 DEF Crash, FolderTypes, FilesAreMarked, Exists
  <2>5. QED
    BY <1>5, <2>1, <2>3, <2>4 DEF Crash, DatabaseTypes, ThreadTypes, JobIsUsable,
       Busy, NoJob, Job, Watermarks
<1>6. QED
  BY <1>1, <1>2, <1>3, <1>4, <1>5 DEF User, Hide

LEMMA StepGrounded == Grounded /\ [Next]_vars => Grounded'
<1>1. Grounded /\ UNCHANGED vars => Grounded'
  BY DEF Grounded, TypeOK, FolderTypes, DatabaseTypes, RetryTypes, ScreenTypes,
     ThreadTypes, JobIsUsable, FilesAreMarked, Exists, vars, diskVars, dbVars,
     watchVars, deferVars, guiVars, sweepVars, ioVars
<1>2. QED
  BY <1>1, FolderGrounded, StartupGrounded, NotifyGrounded, PollGrounded,
     AttemptGrounded, UserGrounded DEF Next

-----------------------------------------------------------------------------
(* What a step can do to the folder, to the rows, to the locals of the     *)
(* attempt and to the retry list: the case analyses the invariants share.  *)

Moved(p) ==
  /\ \A q \in Paths \ {p} : disk'[q] = disk[q]
  /\ \/ disk'[p].content \in Contents /\ disk'[p].mark = disk[p].mark + 1
     \/ disk'[p].content = "absent" /\ disk'[p].mark = disk[p].mark
  /\ dirty' = IF pc = "down" THEN dirty ELSE dirty \cup {p}

(* A step of somebody else, or of hideReplay.                              *)
AttemptRests ==
  /\ UNCHANGED <<dbVars, known, deferVars, job, listed, missed>>
  /\ \/ pc' = pc /\ todo' = todo
     \/ {pc, pc'} \subseteq {"idle", "hide"}

LEMMA FolderSteps ==
  ASSUME Grounded, Folder \/ User \/ Hide
  PROVE  /\ AttemptRests
         /\ UNCHANGED <<disk, dirty>> \/ \E p \in Paths : Moved(p)
<1> USE DEF Grounded, TypeOK, FolderTypes, DatabaseTypes, diskVars, dbVars,
    watchVars, deferVars, guiVars, sweepVars, ioVars
<1>1. ASSUME NEW p \in Paths, NEW content \in Contents, Write(p, content)
      PROVE AttemptRests /\ Moved(p)
  BY <1>1 DEF Write, Touched, Watching, AttemptRests, Moved, File
<1>2. ASSUME NEW p \in Paths, Remove(p)
      PROVE AttemptRests /\ Moved(p)
  BY <1>2 DEF Remove, Touched, Watching, AttemptRests, Moved, File
<1>3. ASSUME NEW p \in Paths, Lock(p) \/ Unlock(p)
      PROVE AttemptRests /\ UNCHANGED <<disk, dirty>>
  BY <1>3 DEF Lock, Unlock, AttemptRests
<1>4. ASSUME NEW c \in Checksums, NEW p \in Paths, ExposeReplay(c, p)
      PROVE AttemptRests /\ Moved(p)
  BY <1>4, ConstantFacts DEF ExposeReplay, Touched, Watching, AttemptRests, Moved, File
<1>5. ASSUME NEW p \in Paths, HideRemoves(p)
      PROVE AttemptRests /\ (UNCHANGED <<disk, dirty>> \/ Moved(p))
  BY <1>5 DEF HideRemoves, Touched, Watching, AttemptRests, Moved, File
<1>6. ASSUME (\E p \in Paths : AcknowledgeItem(p)) \/ \E c \in Checksums : HideReplay(c)
      PROVE AttemptRests /\ UNCHANGED <<disk, dirty>>
  BY <1>6 DEF AcknowledgeItem, HideReplay, AttemptRests, AtRest
<1>7. QED
  BY <1>1, <1>2, <1>3, <1>4, <1>5, <1>6 DEF Folder, User, Hide

LEMMA DiskSteps ==
  ASSUME Grounded, [Next]_vars
  PROVE  \/ UNCHANGED disk
         \/ AttemptRests /\ \E p \in Paths : Moved(p)
<1> USE DEF diskVars, dbVars, watchVars, deferVars, guiVars, sweepVars, ioVars
<1>1. CASE Startup \/ TimerFires \/ Poll \/ Crash \/ \E p \in Paths : Notify(p)
  BY <1>1 DEF Startup, Start, SweepSkips, SweepSamples, SweepFails, SweepEnds, TimerFires,
     Poll, PollKeeps, PollRetries, Crash, Notify, NotifyUnchanged,
     NotifyChanged, NotifyRemoved
<1>2. CASE Attempt
  BY <1>2 DEF Attempt, Begin, OpenFails, ParseTorn, ParseMisread, ParseCorrupt,
     ParseComplete, IngestKnown, IngestUnknown, IngestFails, Commit,
     CommitFails, ForwardFails
<1>3. QED
  BY <1>1, <1>2, FolderSteps DEF Next, vars

LEMMA SampleLinks ==
  ASSUME Grounded, NEW p \in Paths, NEW via, Sample(p, via)
  PROVE  /\ UNCHANGED <<replays, stored>>
         /\ links' = links \/ links' = [links EXCEPT ![p] = None]
<1>1. CASE HasSize(p)
  BY <1>1 DEF Sample, dbVars
<1>2. CASE ~HasSize(p)
  BY <1>2, RemoveLinkKeepsTypes DEF Sample, HandleIncomplete, Grounded, TypeOK
<1>3. QED
  BY <1>1, <1>2

LEMMA RowSteps ==
  ASSUME Grounded, [Next]_vars
  PROVE  \/ pc = "commit" /\ Recorded /\ (Commit \/ ForwardFails)
         \/ IngestUnknown
         \/ /\ UNCHANGED <<replays, stored>>
            /\ \A p \in Paths : links'[p] \in {links[p], None}
<1> USE DEF diskVars, dbVars, watchVars, deferVars, guiVars, sweepVars, ioVars
<1> DEFINE Forgets == /\ UNCHANGED <<replays, stored>>
                      /\ \A p \in Paths : links'[p] \in {links[p], None}
<1>1. ASSUME NEW p \in Paths, RemoveReplayFileLink(p)
      PROVE Forgets
  BY <1>1, RemoveLinkKeepsTypes DEF Grounded, TypeOK, DatabaseTypes
<1>2. ASSUME NEW p \in Paths, NEW via, Sample(p, via)
      PROVE Forgets
  BY <1>2, SampleLinks DEF Grounded, TypeOK, DatabaseTypes
<1>3. pc \in Busy => job.path \in Paths
  BY DEF Grounded, JobIsUsable
<1>4. CASE Folder \/ User \/ Hide \/ TimerFires \/ Poll \/ Crash
  BY <1>4 DEF Folder, Write, Remove, Lock, Unlock, User, AcknowledgeItem,
     ExposeReplay, HideReplay, Hide, HideRemoves, TimerFires, Poll, PollKeeps,
     PollRetries, Crash
<1>5. CASE Startup
  <2>1. SweepEnds \/ SweepFails => Forgets
    BY DEF SweepEnds, SweepFails
  <2>2. QED
    BY <1>2, <1>5, <2>1 DEF Startup, Start, SweepSkips, SweepSamples
<1>6. ASSUME NEW p \in Paths, Notify(p)
      PROVE Forgets
  BY <1>1, <1>6 DEF Notify, NotifyUnchanged, NotifyChanged, NotifyRemoved
<1>7. CASE Begin \/ ParseTorn \/ ParseCorrupt
  BY <1>1, <1>2, <1>3, <1>7 DEF Begin, ParseTorn, HandleIncomplete, ParseCorrupt,
     HandleParseFailure, Busy
<1>8. CASE ParseMisread
  BY <1>3, <1>8 DEF ParseMisread, Unlink, Busy, Grounded, TypeOK, DatabaseTypes
<1>9. CASE OpenFails \/ ParseComplete \/ IngestKnown \/ IngestFails \/ CommitFails
  BY <1>9 DEF OpenFails, ParseComplete, IngestKnown, IngestFails, CommitFails
<1>10. CASE IngestUnknown \/ Commit \/ ForwardFails
  BY <1>10 DEF Commit, ForwardFails
<1>11. CASE UNCHANGED vars
  BY <1>11 DEF vars
<1>12. QED
  BY <1>4, <1>5, <1>6, <1>7, <1>8, <1>9, <1>10, <1>11 DEF Next, Attempt

LEMMA JobSteps ==
  ASSUME Grounded, [Next]_vars
  PROVE  \/ pc' \notin {"read", "ingest", "commit"}
         \/ UNCHANGED <<pc, job>>
         \/ /\ pc' = "read" /\ job'.path \in Paths
            /\ job'.observed = Stat(job'.path)
            /\ UNCHANGED disk
         \/ ParseComplete
         \/ IngestKnown \/ IngestUnknown
<1> USE DEF diskVars, dbVars, watchVars, deferVars, guiVars, sweepVars, ioVars
<1>1. ASSUME NEW p \in Paths, NEW via, Sample(p, via)
      PROVE  \/ pc' \notin {"read", "ingest", "commit"}
             \/ pc' = "read" /\ job'.path = p /\ job'.observed = Stat(p)
  BY <1>1 DEF Sample, HandleIncomplete, Return
<1>2. CASE Folder
  BY <1>2 DEF Folder, Write, Remove, Lock, Unlock
<1>3. CASE User \/ Hide \/ TimerFires \/ Poll \/ Crash
  BY <1>3 DEF User, AcknowledgeItem, ExposeReplay, HideReplay, Hide, HideRemoves,
     TimerFires, Poll, PollKeeps, PollRetries, Crash
<1>4. CASE Startup
  BY <1>1, <1>4 DEF Startup, Start, SweepSkips, SweepSamples, SweepFails, SweepEnds
<1>5. ASSUME NEW p \in Paths, Notify(p)
      PROVE  pc' = "begin" \/ UNCHANGED <<pc, job>>
  BY <1>5 DEF Notify, NotifyUnchanged, NotifyChanged, NotifyRemoved
<1>6. CASE Begin
  <2>1. job.path \in Paths
    BY <1>6 DEF Begin, Grounded, JobIsUsable, Busy
  <2>2. QED
    BY <1>1, <1>6, <2>1 DEF Begin
<1>7. CASE OpenFails \/ ParseTorn \/ ParseMisread \/ ParseCorrupt \/ IngestFails
           \/ Commit \/ CommitFails \/ ForwardFails
  <2>1. Return
    BY <1>7 DEF OpenFails, ParseTorn, ParseMisread, ParseCorrupt, IngestFails,
       Commit, CommitFails, ForwardFails, HandleStorageFailure, HandleIncomplete,
       HandleParseFailure
  <2>2. QED
    BY <2>1, ReturnKeepsTypes
<1>8. CASE UNCHANGED vars
  BY <1>8 DEF vars
<1>9. QED
  BY <1>2, <1>3, <1>4, <1>5, <1>6, <1>7, <1>8 DEF Next, Attempt

-----------------------------------------------------------------------------
(* The catalogue is backed.                                                *)

LEMMA StepBacked ==
  ASSUME Grounded, Backed, [Next]_vars
  PROVE  Backed'
<1> USE DEF Grounded, TypeOK, diskVars, dbVars, watchVars, deferVars, guiVars,
    sweepVars, ioVars
<1>1. CASE pc = "commit" /\ Recorded /\ (Commit \/ ForwardFails)
  <2>1. pc' # "commit"
    BY <1>1, ReturnKeepsTypes DEF Commit, ForwardFails, HandleStorageFailure
  <2>2. job.checksum \in Checksums /\ job.path \in Paths
    BY <1>1 DEF JobIsUsable, Busy
  <2>3. CatalogueIsBacked'
    BY <1>1, <2>2 DEF Recorded, Backed, CatalogueIsBacked, DatabaseTypes
  <2>4. QED
    BY <2>1, <2>3 DEF Backed
<1>2. CASE IngestUnknown
  <2>1. job.checksum \in Checksums /\ job.path \in Paths
    BY <1>2 DEF IngestUnknown, JobIsUsable, Busy
  <2>2. stored'[job.checksum] # "absent" /\ job' = job
    BY <1>2, <2>1 DEF IngestUnknown, CanCopy, CanOpen, Exists, DatabaseTypes
  <2>3. \A c \in Checksums : stored[c] # "absent" => stored'[c] # "absent"
    BY <1>2, <2>1, <2>2 DEF IngestUnknown, DatabaseTypes
  <2>4. QED
    BY <1>2, <2>2, <2>3 DEF IngestUnknown, Backed, CatalogueIsBacked, DatabaseTypes
<1>3. CASE /\ UNCHANGED <<replays, stored>>
           /\ \A p \in Paths : links'[p] \in {links[p], None}
  <2>1. CatalogueIsBacked'
    BY <1>3 DEF Backed, CatalogueIsBacked
  <2>2. pc' = "commit" => stored'[job'.checksum] # "absent"
    <3>1. CASE IngestUnknown
      <4>1. job.checksum \in Checksums /\ job.path \in Paths
        BY <3>1 DEF IngestUnknown, JobIsUsable, Busy
      <4>2. QED
        BY <3>1, <4>1 DEF IngestUnknown, CanCopy, CanOpen, Exists, DatabaseTypes
    <3>2. CASE IngestKnown
      BY <1>3, <3>2 DEF IngestKnown, Backed, CatalogueIsBacked
    <3>3. CASE UNCHANGED <<pc, job>>
      BY <1>3, <3>3 DEF Backed
    <3>4. QED
      BY <3>1, <3>2, <3>3, JobSteps DEF ParseComplete
  <2>3. QED
    BY <2>1, <2>2 DEF Backed
<1>4. QED
  BY <1>1, <1>2, <1>3, RowSteps

-----------------------------------------------------------------------------
(* A watermark stands for one content.                                     *)

LEMMA MovedMarks ==
  ASSUME Grounded, NEW p \in Paths, Moved(p)
  PROVE  /\ \A q \in Paths : disk'[q].mark \in Nat /\ disk[q].mark \in Nat
                             /\ disk[q].mark <= disk'[q].mark
         /\ \A m \in Nat \ {0} : m <= disk[p].mark => m # Stat(p)'
         /\ \A q \in Paths \ {p} : disk'[q] = disk[q] /\ Stat(q)' = Stat(q)
<1> USE ConstantFacts DEF Grounded, TypeOK, FolderTypes, File, Watermarks, Contents
<1>1. \A q \in Paths : disk[q].mark \in Nat
  OBVIOUS
<1>2. disk'[p].mark \in {disk[p].mark, disk[p].mark + 1}
  BY DEF Moved
<1>3. \A q \in Paths \ {p} : disk'[q] = disk[q] /\ Stat(q)' = Stat(q)
  BY DEF Moved, Stat, Exists
<1>4. Stat(p)' \in {0, disk[p].mark + 1}
  BY DEF Moved, Stat, Exists
<1>5. QED
  BY <1>1, <1>2, <1>3, <1>4

LEMMA WatchSteps ==
  ASSUME Grounded, [Next]_vars
  PROVE  /\ \A q \in Paths : known'[q] \in {known[q], 0, Stat(q)}
         /\ pc \in Busy /\ pc' \in Busy => dirty \subseteq dirty'
<1> USE DEF diskVars, dbVars, watchVars, deferVars, guiVars, sweepVars, ioVars
<1>1. CASE Folder \/ User \/ Hide
  BY <1>1 DEF Folder, Write, Remove, Lock, Unlock, Touched, User, AcknowledgeItem,
     ExposeReplay, HideReplay, Hide, HideRemoves
<1>2. CASE Startup \/ Crash
  BY <1>2 DEF Startup, Start, SweepSkips, SweepSamples, SweepFails, SweepEnds, Crash, Busy
<1>3. ASSUME NEW p \in Paths, Notify(p)
      PROVE  /\ \A q \in Paths : known'[q] \in {known[q], 0, Stat(q)}
             /\ pc \notin Busy
  BY <1>3 DEF Notify, NotifyUnchanged, NotifyChanged, NotifyRemoved, Notified,
     AtRest, Busy, Grounded, TypeOK, FolderTypes
<1>4. CASE TimerFires \/ Poll
  BY <1>4 DEF TimerFires, Poll, PollKeeps, PollRetries
<1>5. CASE Attempt
  BY <1>5 DEF Attempt, Begin, OpenFails, ParseTorn, ParseMisread, ParseCorrupt,
     ParseComplete, IngestKnown, IngestUnknown, IngestFails, Commit,
     CommitFails, ForwardFails
<1>6. CASE UNCHANGED vars
  BY <1>6 DEF vars
<1>7. QED
  BY <1>1, <1>2, <1>3, <1>4, <1>5, <1>6 DEF Next

LEMMA StepStamped ==
  ASSUME Grounded, Grounded', Stamped, WatchesAreSound, [Next]_vars
  PROVE  Stamped'
<1> USE DEF Stamped
<1>1. CASE AttemptRests /\ \E p \in Paths : Moved(p)
  <2>1. PICK p \in Paths : Moved(p)
    BY <1>1
  <2>2. links' = links /\ known' = known /\ job' = job
        /\ (pc' \in {"read", "ingest", "commit"} => pc' = pc)
    BY <1>1 DEF AttemptRests, dbVars
  <2>3. \A q \in Paths : links[q] # None => links[q].mark \in Nat \ {0}
    BY ConstantFacts DEF Grounded, TypeOK, DatabaseTypes, Link
  <2>4. job.observed \in Nat /\ \A q \in Paths : known[q] \in Nat
    BY ConstantFacts DEF Grounded, TypeOK, ThreadTypes, Job, FolderTypes, Watermarks
  <2>5. pc \in {"read", "ingest", "commit"} =>
          job.path \in Paths /\ job.observed \in Nat \ {0}
    BY <2>4 DEF Grounded, JobIsUsable, Busy
  <2>6. MarksArePast'
    BY <2>1, <2>2, <2>3, <2>4, <2>5, MovedMarks DEF MarksArePast
  <2>7. FastPathIsSound'
    BY <2>1, <2>2, <2>3, MovedMarks DEF MarksArePast, FastPathIsSound, Matches
  <2>8. ParseIsCurrent'
    <3>1. SUFFICES ASSUME pc' \in {"ingest", "commit"}
                   PROVE  ParseIsCurrent'
      BY DEF ParseIsCurrent
    <3>2. pc' = pc /\ pc # "down" /\ job.path \in Paths
          /\ job.observed \in Nat \ {0} /\ job.observed <= disk[job.path].mark
      BY <2>2, <2>5, <3>1 DEF MarksArePast
    <3>3. CASE job.path = p
      BY <2>1, <2>2, <3>2, <3>3, MovedMarks DEF ParseIsCurrent, Moved
    <3>4. CASE job.path # p
      BY <2>1, <2>2, <3>1, <3>2, <3>4, MovedMarks DEF ParseIsCurrent, Moved
    <3>5. QED
      BY <3>3, <3>4
  <2>9. QED
    BY <2>6, <2>7, <2>8
<1>2. CASE UNCHANGED disk
  <2>1. \A q \in Paths : Stat(q)' = Stat(q) /\ Stat(q) \in Nat
                         /\ Stat(q) <= disk[q].mark /\ disk[q].mark \in Nat
    BY <1>2, StatIsWatermark, ConstantFacts
       DEF Stat, Exists, Watermarks, Grounded, TypeOK, FolderTypes, File
  <2>2. \A q \in Paths : links'[q] # None =>
          /\ links'[q].mark <= disk[q].mark
          /\ links'[q].mark = Stat(q) => disk[q].content = links'[q].checksum
    <3>1. CASE pc = "commit" /\ Recorded
      <4>1. job.path \in Paths /\ job.checksum \in Checksums
        BY <3>1 DEF Grounded, JobIsUsable, Busy
      <4>2. \A q \in Paths : links'[q] = IF q = job.path
              THEN [checksum |-> job.checksum, mark |-> job.observed] ELSE links[q]
        BY <3>1, <4>1 DEF Recorded, Grounded, TypeOK, DatabaseTypes
      <4>3. QED
        BY <3>1, <4>1, <4>2 DEF MarksArePast, ParseIsCurrent, FastPathIsSound,
           Matches
    <3>2. CASE \A q \in Paths : links'[q] \in {links[q], None}
      BY <3>2 DEF MarksArePast, FastPathIsSound, Matches
    <3>3. QED
      BY <3>1, <3>2, RowSteps DEF IngestUnknown
  <2>3. FastPathIsSound'
    BY <1>2, <2>1, <2>2 DEF FastPathIsSound, Matches
  <2>4. \A q \in Paths : known'[q] <= disk[q].mark
    BY <2>1, WatchSteps DEF MarksArePast
  <2>5. pc' \in {"read", "ingest", "commit"} => job'.observed <= disk[job'.path].mark
    BY <2>1, JobSteps DEF MarksArePast, ParseComplete, IngestKnown, IngestUnknown,
       Grounded, TypeOK, ThreadTypes, Job
  <2>6. MarksArePast'
    BY <1>2, <2>2, <2>4, <2>5 DEF MarksArePast
  <2>7. ParseIsCurrent'
    <3>1. pc' \in {"ingest", "commit"} => dirty \subseteq dirty' \/ pc \notin Busy
      BY WatchSteps DEF Busy
    <3>2. CASE UNCHANGED <<pc, job>> \/ IngestKnown \/ IngestUnknown
      <4>1. pc' \in {"ingest", "commit"} =>
              pc \in {"ingest", "commit"} /\ job' = job /\ job.path \in Paths
        BY <3>2 DEF IngestKnown, IngestUnknown, Grounded, JobIsUsable, Busy
      <4>2. QED
        BY <1>2, <2>1, <3>1, <4>1 DEF ParseIsCurrent, Busy
    <3>3. CASE ParseComplete
      <4>1. job.path \in Paths /\ job'.path = job.path
            /\ job'.checksum = disk[job.path].content
        BY <3>3 DEF ParseComplete, Grounded, TypeOK, ThreadTypes, Job, JobIsUsable,
           Busy
      <4>2. QED
        BY <1>2, <4>1 DEF ParseIsCurrent
    <3>4. CASE pc' \notin {"ingest", "commit"}
      BY <3>4 DEF ParseIsCurrent
    <3>5. QED
      BY <3>2, <3>3, <3>4, JobSteps
  <2>8. QED
    BY <2>3, <2>6, <2>7
<1>3. QED
  BY <1>1, <1>2, DiskSteps

-----------------------------------------------------------------------------
(* The retry list.                                                         *)

(* Somebody is at the path, or will be at the latest after a long stop.    *)
Waits(p) ==
  \/ m_deferred[p] # None
  \/ toCheck[p] # None
  \/ pc \in Busy /\ job.path = p

(* The steps after which nobody waits for the path any more.               *)
GivesUp(p) ==
  \/ Crash
  \/ NotifyRemoved(p)
  \/ job.path = p /\ (ParseCorrupt \/ Commit)

LEMMA ListSteps ==
  ASSUME Grounded, [Next]_vars
  PROVE  \/ UNCHANGED <<m_deferred, trigger>>
         \/ trigger' = TRUE /\ \E p \in Paths : m_deferred'[p] # None
         \/ trigger' = FALSE /\ m_deferred' = Retry!Nothing
         \/ \E p \in Paths : RemoveWaitForChange(p)
<1> USE DEF Grounded, TypeOK, diskVars, dbVars, watchVars, deferVars, guiVars,
    sweepVars, ioVars
<1> DEFINE Puts == trigger' = TRUE /\ \E p \in Paths : m_deferred'[p] # None
<1>1. pc \in Busy => job.path \in Paths
  BY DEF JobIsUsable
<1>2. job.observed \in Watermarks
  BY DEF ThreadTypes, Job
<1>3. ASSUME NEW p \in Paths, NEW via, Sample(p, via)
      PROVE  RemoveWaitForChange(p) \/ Puts
  BY <1>3, StatIsWatermark, IncompleteKeepsTypes DEF Sample
<1>4. CASE Folder \/ User \/ Hide
  BY <1>4 DEF Folder, Write, Remove, Lock, Unlock, User, AcknowledgeItem,
     ExposeReplay, HideReplay, Hide, HideRemoves
<1>5. CASE Startup
  BY <1>3, <1>5 DEF Startup, Start, SweepSkips, SweepSamples, SweepFails, SweepEnds
<1>6. ASSUME NEW p \in Paths, Notify(p)
      PROVE  UNCHANGED <<m_deferred, trigger>> \/ RemoveWaitForChange(p)
  BY <1>6 DEF Notify, NotifyUnchanged, NotifyChanged, NotifyRemoved
<1>7. CASE TimerFires \/ Crash
  BY <1>7 DEF TimerFires, Crash
<1>8. CASE Poll
  <2>1. ASSUME NEW p \in Paths, PollKeeps(p)
        PROVE  Puts
    BY <2>1 DEF PollKeeps, RetryTypes
  <2>2. QED
    BY <1>8, <2>1 DEF Poll, PollRetries
<1>9. CASE Begin
  BY <1>1, <1>3, <1>9 DEF Begin, Busy
<1>10. CASE ParseTorn
  BY <1>1, <1>2, <1>10, IncompleteKeepsTypes DEF ParseTorn, Busy
<1>11. CASE ParseMisread
  BY <1>1, <1>2, <1>11, PutKeepsTypes DEF ParseMisread, Busy
<1>12. CASE OpenFails \/ IngestFails \/ CommitFails \/ ForwardFails
  BY <1>1, <1>2, <1>12, StorageFailureKeepsTypes
     DEF OpenFails, IngestFails, CommitFails, ForwardFails, Busy
<1>13. CASE ParseCorrupt \/ ParseComplete \/ IngestKnown \/ IngestUnknown \/ Commit
  BY <1>13 DEF ParseCorrupt, HandleParseFailure, ParseComplete, IngestKnown,
     IngestUnknown, Commit
<1>14. CASE UNCHANGED vars
  BY <1>14 DEF vars
<1>15. QED
  BY <1>4, <1>5, <1>6, <1>7, <1>8, <1>9, <1>10, <1>11, <1>12, <1>13, <1>14
     DEF Next, Attempt

LEMMA StepPoll ==
  ASSUME Grounded, PollRunsWhenNeeded, [Next]_vars
  PROVE  PollRunsWhenNeeded'
<1>1. CASE trigger' = TRUE /\ \E p \in Paths : m_deferred'[p] # None
  BY <1>1 DEF PollRunsWhenNeeded, Retry!Nothing
<1>2. ASSUME NEW p \in Paths, RemoveWaitForChange(p)
      PROVE  PollRunsWhenNeeded'
  <2>1. m_deferred = Retry!Nothing => m_deferred' = Retry!Nothing
    BY <1>2 DEF RemoveWaitForChange, Retry!Without, Retry!Nothing
  <2>2. Retry!Nothing' = Retry!Nothing
    BY DEF Retry!Nothing
  <2>3. trigger \in BOOLEAN
    BY DEF Grounded, TypeOK, RetryTypes
  <2>4. QED
    BY <1>2, <2>1, <2>2, <2>3 DEF RemoveWaitForChange, PollRunsWhenNeeded
<1>3. QED
  BY <1>1, <1>2, ListSteps DEF PollRunsWhenNeeded, Retry!Nothing

LEMMA SampleWaits ==
  ASSUME Grounded, NEW p \in Paths, NEW via, Sample(p, via), UNCHANGED toCheck,
         pc \in Busy => job.path = p
  PROVE  /\ Waits(p)'
         /\ \A q \in Paths \ {p} :
              inbox'[q] = inbox[q] /\ (Waits(q) => Waits(q)')
<1>1. CASE HasSize(p)
  BY <1>1, DropKeepsTypes DEF Sample, Waits, Busy, Grounded, TypeOK, guiVars
<1>2. CASE ~HasSize(p)
  <2>1. HandleIncomplete(p, Stat(p), "pending") /\ Stat(p) \in Watermarks
    BY <1>2, StatIsWatermark DEF Sample, Grounded, TypeOK
  <2>2. QED
    BY <2>1, IncompleteKeepsTypes DEF Waits, Grounded, TypeOK
<1>3. QED
  BY <1>1, <1>2

LEMMA WaitSteps ==
  ASSUME Grounded, [Next]_vars, NEW p \in Paths
  PROVE  /\ Waits(p) => Waits(p)' \/ GivesUp(p)
         /\ inbox'[p] \in {inbox[p], "none", "corrupt"} \/ Waits(p)'
<1> USE DEF Grounded, TypeOK, diskVars, dbVars, watchVars, deferVars, guiVars,
    sweepVars, ioVars
<1> DEFINE Goal == /\ Waits(p) => Waits(p)' \/ GivesUp(p)
                   /\ inbox'[p] \in {inbox[p], "none", "corrupt"} \/ Waits(p)'
<1>1. pc \in Busy => job.path \in Paths
  BY DEF JobIsUsable
<1>2. job.observed \in Watermarks
  BY DEF ThreadTypes, Job
<1>3. CASE Folder \/ User \/ Hide
  BY <1>3 DEF Folder, Write, Remove, Lock, Unlock, User, AcknowledgeItem, Dismissed,
     ExposeReplay, HideReplay, Hide, HideRemoves, AtRest, Waits, Busy, ScreenTypes
<1>4. CASE Startup
  <2>1. CASE Start
    BY <2>1 DEF Start, Waits, Busy, ScreenTypes
  <2>2. ASSUME NEW q \in Paths, SweepSamples(q)
        PROVE  Goal
    BY <2>2, SampleWaits DEF SweepSamples, Busy
  <2>3. CASE SweepFails \/ SweepEnds \/ \E q \in Paths : SweepSkips(q)
    BY <2>3 DEF SweepFails, SweepEnds, SweepSkips, Waits, Busy
  <2>4. QED
    BY <1>4, <2>1, <2>2, <2>3 DEF Startup
<1>5. ASSUME NEW q \in Paths, Notify(q)
      PROVE  Goal
  <2>1. CASE NotifyUnchanged(q)
    BY <2>1 DEF NotifyUnchanged, Waits
  <2>2. CASE NotifyChanged(q)
    BY <2>2 DEF NotifyChanged, Notified, AtRest, Waits, Busy
  <2>3. CASE NotifyRemoved(q)
    <3>1. \A r \in Paths \ {q} : m_deferred'[r] = m_deferred[r]
      BY <2>3, DropKeepsTypes DEF NotifyRemoved
    <3>2. inbox' = [inbox EXCEPT ![q] = "none"] /\ UNCHANGED <<toCheck, pc, job>>
      BY <2>3 DEF NotifyRemoved, Dismissed
    <3>3. QED
      BY <2>3, <3>1, <3>2 DEF Waits, GivesUp, ScreenTypes
  <2>4. QED
    BY <1>5, <2>1, <2>2, <2>3 DEF Notify
<1>6. CASE TimerFires
  <2>1. m_deferred[p] # None => toCheck'[p] # None
    BY <1>6, ConstantFacts DEF TimerFires, Retry!Aged, Retry!Entry, RetryTypes
  <2>2. QED
    BY <1>6, <2>1 DEF TimerFires, AtRest, Retry!Nothing, Waits, Busy
<1>7. CASE Poll
  <2>1. ASSUME NEW q \in Paths, PollKeeps(q)
        PROVE  Goal
    BY <2>1 DEF PollKeeps, Waits, RetryTypes, Busy
  <2>2. ASSUME NEW q \in Paths, PollRetries(q)
        PROVE  Goal
    <3>1. job'.path = q
      BY <2>2 DEF PollRetries, NoJob
    <3>2. QED
      BY <2>2, <3>1 DEF PollRetries, Waits, RetryTypes, Busy
  <2>3. QED
    BY <1>7, <2>1, <2>2 DEF Poll
<1>8. CASE Begin
  BY <1>1, <1>8, SampleWaits DEF Begin, Busy
<1>9. CASE OpenFails \/ IngestFails \/ CommitFails \/ ForwardFails
  <2>1. pc \in Busy /\ HandleStorageFailure(job.path, job.observed)
        /\ UNCHANGED toCheck
    BY <1>9 DEF OpenFails, IngestFails, CommitFails, ForwardFails, Busy
  <2>2. QED
    BY <1>1, <1>2, <2>1, StorageFailureKeepsTypes DEF Waits
<1>10. CASE ParseTorn
  BY <1>1, <1>2, <1>10, IncompleteKeepsTypes DEF ParseTorn, Waits, Busy
<1>11. CASE ParseMisread
  BY <1>1, <1>2, <1>11, PutKeepsTypes DEF ParseMisread, Observed, Waits, Busy,
     ScreenTypes
<1>12. CASE ParseCorrupt \/ Commit
  <2>1. pc \in Busy /\ UNCHANGED <<m_deferred, toCheck>>
        /\ (inbox' = [inbox EXCEPT ![job.path] = "none"]
            \/ inbox' = [inbox EXCEPT ![job.path] = "corrupt"])
    BY <1>12 DEF ParseCorrupt, Commit, HandleParseFailure, Observed, Dismissed, Busy
  <2>2. QED
    BY <1>1, <1>12, <2>1 DEF Waits, GivesUp, ScreenTypes
<1>13. CASE ParseComplete \/ IngestKnown \/ IngestUnknown
  <2>1. pc' \in Busy /\ job'.path = job.path
        /\ UNCHANGED <<m_deferred, toCheck, inbox>>
    BY <1>13 DEF ParseComplete, IngestKnown, IngestUnknown, Busy, ThreadTypes, Job
  <2>2. QED
    BY <2>1, <1>13 DEF Waits, ParseComplete, IngestKnown, IngestUnknown, Busy
<1>14. CASE Crash
  BY <1>14 DEF Crash, GivesUp, ScreenTypes
<1>15. CASE UNCHANGED vars
  BY <1>15 DEF vars, Waits
<1>16. QED
  BY <1>3, <1>4, <1>5, <1>6, <1>7, <1>8, <1>9, <1>10, <1>11, <1>12, <1>13, <1>14,
     <1>15 DEF Next, Attempt

LEMMA StepPromises ==
  ASSUME Grounded, PromisesAreKept, [Next]_vars
  PROVE  PromisesAreKept'
<1> SUFFICES ASSUME NEW p \in Paths, inbox'[p] \in {"pending", "torn"}
             PROVE  Waits(p)'
  BY DEF PromisesAreKept, Waits
<1>1. CASE inbox'[p] # inbox[p]
  BY <1>1, WaitSteps
<1>2. CASE inbox'[p] = inbox[p]
  <2>1. Waits(p)
    BY <1>2 DEF PromisesAreKept, Waits
  <2>2. ~GivesUp(p)
    <3>1. Crash => inbox'[p] = "none"
      BY DEF Crash
    <3>2. NotifyRemoved(p) => inbox'[p] = "none"
      BY DEF NotifyRemoved, Dismissed, Grounded, TypeOK, ScreenTypes
    <3>3. job.path = p /\ ParseCorrupt => inbox'[p] = "corrupt"
      BY DEF ParseCorrupt, HandleParseFailure, Observed, Grounded, TypeOK, ScreenTypes
    <3>4. job.path = p /\ Commit => inbox'[p] = "none"
      BY DEF Commit, Dismissed, Grounded, TypeOK, ScreenTypes
    <3>5. QED
      BY <3>1, <3>2, <3>3, <3>4 DEF GivesUp
  <2>3. QED
    BY <2>1, <2>2, WaitSteps
<1>3. QED
  BY <1>1, <1>2

-----------------------------------------------------------------------------
(* Every file is accounted for.                                            *)

LEMMA AttemptSteps ==
  ASSUME Grounded, Attempt
  PROVE  /\ UNCHANGED <<disk, dirty, known, todo, listed, missed>>
         /\ pc \in Busy /\ pc' # "down"
         /\ Sweeping' = Sweeping
         /\ \A q \in Paths : q # job.path => links'[q] = links[q]
<1> USE DEF Grounded, TypeOK, diskVars, dbVars, watchVars, deferVars, guiVars,
    sweepVars
<1>1. Return => pc' # "down" /\ Sweeping' = Sweeping
  BY DEF Return, Sweeping, Busy, NoJob
<1>2. pc \in Busy /\ job.path \in Paths
  BY DEF Attempt, Begin, OpenFails, ParseTorn, ParseMisread, ParseCorrupt,
     ParseComplete, IngestKnown, IngestUnknown, IngestFails, Commit,
     CommitFails, ForwardFails, JobIsUsable, Busy
<1>3. CASE Begin
  <2>1. pc' # "down" /\ Sweeping' = Sweeping
    BY <1>1, <1>3 DEF Begin, Sample, HandleIncomplete, Sweeping, Busy
  <2>2. \A q \in Paths : q # job.path => links'[q] = links[q]
    BY <1>2, <1>3, SampleLinks DEF Begin, DatabaseTypes
  <2>3. QED
    BY <1>2, <1>3, <2>1, <2>2 DEF Begin
<1>4. CASE OpenFails \/ IngestFails \/ CommitFails
  BY <1>1, <1>2, <1>4 DEF OpenFails, IngestFails, CommitFails, HandleStorageFailure
<1>5. CASE ParseTorn \/ ParseCorrupt
  BY <1>1, <1>2, <1>5, RemoveLinkKeepsTypes DEF ParseTorn, ParseCorrupt,
     HandleIncomplete, HandleParseFailure, DatabaseTypes
<1>6. CASE ParseMisread
  BY <1>1, <1>2, <1>6 DEF ParseMisread, Unlink, DatabaseTypes
<1>7. CASE ParseComplete \/ IngestKnown \/ IngestUnknown
  BY <1>2, <1>7 DEF ParseComplete, IngestKnown, IngestUnknown, Sweeping, Busy,
     ThreadTypes, Job
<1>8. CASE Commit \/ ForwardFails
  BY <1>1, <1>2, <1>8 DEF Commit, ForwardFails, Recorded, HandleStorageFailure,
     DatabaseTypes
<1>9. QED
  BY <1>3, <1>4, <1>5, <1>6, <1>7, <1>8 DEF Attempt

LEMMA SweepSampleSteps ==
  ASSUME Grounded, NEW p \in Paths, SweepSamples(p)
  PROVE  /\ UNCHANGED <<disk, dirty, known, listed, missed>>
         /\ Sweeping /\ Sweeping' /\ todo' = todo \ {p}
         /\ Waits(p)'
         /\ \A q \in Paths \ {p} : links'[q] = links[q]
<1> USE DEF Grounded, TypeOK, diskVars, dbVars, watchVars
<1>1. Sample(p, "sweep") /\ pc = "sweep" /\ UNCHANGED toCheck
  BY DEF SweepSamples
<1>2. Waits(p)'
  BY <1>1, SampleWaits DEF Busy
<1>3. Sweeping'
  BY <1>1 DEF Sample, HandleIncomplete, Return, Sweeping, Busy
<1>4. QED
  BY <1>1, <1>2, <1>3, SampleLinks DEF SweepSamples, Sweeping, DatabaseTypes

LEMMA StepWatches ==
  ASSUME Grounded, MarksArePast, WatchesAreSound, [Next]_vars
  PROVE  WatchesAreSound'
<1> USE DEF diskVars, dbVars, watchVars, deferVars, guiVars, sweepVars, ioVars,
    WatchesAreSound
<1>1. CASE Folder \/ User \/ Hide
  <2>1. AttemptRests /\ known' = known /\ listed' = listed
        /\ (Sweeping' => Sweeping) /\ (pc' = "down" <=> pc = "down")
    BY <1>1, FolderSteps DEF AttemptRests, Sweeping, Busy
  <2>2. CASE UNCHANGED <<disk, dirty>>
    BY <2>1, <2>2 DEF Stat, Exists
  <2>3. ASSUME NEW p \in Paths, Moved(p)
        PROVE  WatchesAreSound'
    <3>1. known[p] <= disk[p].mark /\ known[p] \in Nat /\ disk[p].mark \in Nat
      BY ConstantFacts DEF MarksArePast, Grounded, TypeOK, FolderTypes, File, Watermarks
    <3>2. known[p] = Stat(p)' => ~Exists(p)'
      BY <2>3, <3>1 DEF Moved, Stat, Exists
    <3>3. \A q \in Paths \ {p} : Stat(q)' = Stat(q) /\ Exists(q)' = Exists(q)
      BY <2>3 DEF Moved, Stat, Exists
    <3>4. dirty \subseteq Paths
      BY DEF Grounded, TypeOK, FolderTypes
    <3>5. CASE pc = "down"
      BY <2>1, <2>3, <3>5 DEF Moved, Sweeping, Busy
    <3>6. CASE pc # "down"
      BY <2>1, <2>3, <3>2, <3>3, <3>4, <3>6 DEF Moved
    <3>7. QED
      BY <3>5, <3>6
  <2>4. QED
    BY <1>1, <2>2, <2>3, FolderSteps
<1>2. CASE Start \/ Crash
  BY <1>2 DEF Start, Crash, Stat, Exists, Sweeping, Busy
<1>3. CASE SweepFails \/ SweepEnds \/ \E p \in Paths : SweepSkips(p)
  BY <1>3 DEF SweepFails, SweepEnds, SweepSkips, Stat, Exists, Sweeping, Busy
<1>4. ASSUME NEW p \in Paths, SweepSamples(p)
      PROVE  WatchesAreSound'
  BY <1>4, SweepSampleSteps DEF Stat, Exists, Sweeping, Busy
<1>5. ASSUME NEW p \in Paths, Notify(p)
      PROVE  WatchesAreSound'
  <2>1. dirty' = dirty \ {p} /\ disk' = disk /\ pc = "idle" /\ pc' # "down"
        /\ ~Sweeping' /\ \A q \in Paths \ {p} : known'[q] = known[q]
    BY <1>5 DEF Notify, NotifyUnchanged, NotifyChanged, NotifyRemoved, Notified,
       AtRest, Sweeping, Busy, NoJob, Grounded, TypeOK, FolderTypes
  <2>2. QED
    BY <2>1 DEF Stat, Exists, Grounded, TypeOK, FolderTypes
<1>6. CASE TimerFires \/ Poll
  BY <1>6 DEF TimerFires, Poll, PollKeeps, PollRetries, Stat, Exists, AtRest,
     Sweeping, Busy, NoJob
<1>7. CASE Attempt
  BY <1>7, AttemptSteps DEF Stat, Exists
<1>8. CASE UNCHANGED vars
  BY <1>8 DEF vars, Stat, Exists, Sweeping
<1>9. QED
  BY <1>1, <1>2, <1>3, <1>4, <1>5, <1>6, <1>7, <1>8 DEF Next, Startup

(* What GivesUp gives up is gone, is corrupt, or is recorded for what it   *)
(* is, unless a change to it is still to be notified.                      *)
LEMMA GivenUpIsRecognised ==
  ASSUME Grounded, ParseIsCurrent, NEW p \in Paths, GivesUp(p), pc' # "down"
  PROVE  Recognised(p)' \/ p \in dirty'
<1> USE DEF Grounded, TypeOK, diskVars, watchVars
<1>1. CASE NotifyRemoved(p)
  BY <1>1 DEF NotifyRemoved, Exists, Recognised
<1>2. CASE job.path = p /\ ParseCorrupt
  BY <1>2 DEF ParseCorrupt, Recognised
<1>3. CASE job.path = p /\ Commit
  <2>1. links'[p] = [checksum |-> job.checksum, mark |-> job.observed]
    BY <1>3 DEF Commit, Recorded, DatabaseTypes
  <2>2. links'[p] # None
    BY <1>3, <2>1, RecordedKeepsTypes, ConstantFacts DEF Commit, DatabaseTypes,
       ThreadTypes, JobIsUsable, Job, Link, Watermarks
  <2>3. p \in dirty \/ disk[p].content = job.checksum
    BY <1>3 DEF Commit, ParseIsCurrent
  <2>4. QED
    BY <1>3, <2>1, <2>2, <2>3 DEF Commit, Recognised, Links
<1>4. QED
  BY <1>1, <1>2, <1>3 DEF GivesUp, Crash

LEMMA StepAccounted ==
  ASSUME Grounded, Stamped, Accounted, [Next]_vars
  PROVE  Accounted'
<1> USE DEF diskVars, dbVars, watchVars, deferVars, guiVars, sweepVars, ioVars
<1>1. WatchesAreSound'
  BY StepWatches DEF Accounted, Stamped
<1>2. SUFFICES ASSUME pc' # "down", NEW p \in Paths, p \notin missed'
               PROVE  Recognised(p)' \/ Owed(p)'
  BY <1>1 DEF Accounted
<1>3. CASE Waits(p)
  <2>1. Waits(p)' => Owed(p)'
    BY DEF Waits, Owed
  <2>2. p \in dirty' => Owed(p)'
    BY DEF Owed
  <2>3. GivesUp(p) => Recognised(p)' \/ p \in dirty'
    BY <1>2, GivenUpIsRecognised DEF Stamped
  <2>4. QED
    BY <1>3, <2>1, <2>2, <2>3, WaitSteps
<1>4. CASE SweepFails
  <2>1. p \in dirty \/ ~Exists(p)
    BY <1>2, <1>4 DEF SweepFails, Accounted, WatchesAreSound, Sweeping
  <2>2. QED
    BY <1>4, <2>1 DEF SweepFails, Recognised, Exists, Owed
<1>5. CASE ~SweepFails /\ ~Waits(p) /\ p \in missed
  <2>1. Start \/ NotifyChanged(p)
    <3>1. CASE Folder \/ User \/ Hide
      BY <1>2, <1>5, <3>1, FolderSteps DEF AttemptRests
    <3>2. CASE TimerFires \/ Poll \/ SweepEnds
               \/ \E q \in Paths : SweepSkips(q) \/ SweepSamples(q)
      BY <1>2, <1>5, <3>2 DEF SweepSkips, SweepSamples, SweepEnds,
         TimerFires, Poll, PollKeeps, PollRetries
    <3>3. ASSUME NEW q \in Paths, Notify(q)
          PROVE  NotifyChanged(p)
      BY <1>2, <1>5, <3>3 DEF Notify, NotifyUnchanged, NotifyChanged, NotifyRemoved
    <3>4. CASE Attempt
      BY <1>2, <1>5, <3>4, AttemptSteps
    <3>5. CASE UNCHANGED vars \/ Crash
      BY <1>2, <1>5, <3>5 DEF vars, Crash
    <3>6. QED
      BY <1>5, <3>1, <3>2, <3>3, <3>4, <3>5 DEF Next, Startup
  <2>2. QED
    BY <2>1 DEF Start, Recognised, Exists, Owed, Sweeping, NotifyChanged, NoJob, Busy
<1>6. CASE ~SweepFails /\ ~Waits(p) /\ p \notin missed
  <2>1. pc # "down"
        => Recognised(p) \/ p \in dirty \/ (Sweeping /\ p \in todo)
    BY <1>6 DEF Accounted, Owed, Waits
  <2>2. CASE Folder \/ User \/ Hide
    <3>1. AttemptRests /\ (UNCHANGED <<disk, dirty>> \/ \E q \in Paths : Moved(q))
      BY <2>2, FolderSteps
    <3>2. pc # "down"
      BY <1>2, <3>1 DEF AttemptRests
    <3>3. links' = links /\ (Sweeping /\ p \in todo => Sweeping' /\ p \in todo')
      BY <3>1 DEF AttemptRests, Sweeping, Busy
    <3>4. \/ disk'[p] = disk[p] /\ (p \in dirty => p \in dirty')
          \/ p \in dirty'
      BY <3>1, <3>2 DEF Moved
    <3>5. QED
      BY <2>1, <3>2, <3>3, <3>4 DEF Recognised, Links, Owed
  <2>3. CASE Start
    BY <2>3 DEF Start, Recognised, Exists, Owed, Sweeping
  <2>4. ASSUME NEW q \in Paths, SweepSkips(q)
        PROVE  Recognised(p)' \/ Owed(p)'
    <3>1. q = p => Recognised(p)
      BY <2>4 DEF SweepSkips, Stamped, FastPathIsSound, Matches, Recognised, Links
    <3>2. QED
      BY <2>1, <2>4, <3>1 DEF SweepSkips, Recognised, Links, Owed, Sweeping
  <2>5. ASSUME NEW q \in Paths, SweepSamples(q)
        PROVE  Recognised(p)' \/ Owed(p)'
    <3>1. CASE q = p
      BY <2>5, <3>1, SweepSampleSteps DEF Waits, Owed
    <3>2. CASE q # p
      <4>1. pc # "down" /\ links'[p] = links[p] /\ disk' = disk /\ dirty' = dirty
            /\ Sweeping' /\ (p \in todo => p \in todo')
        BY <2>5, <3>2, SweepSampleSteps DEF SweepSamples
      <4>2. QED
        BY <2>1, <4>1 DEF Recognised, Links, Owed
    <3>3. QED
      BY <3>1, <3>2
  <2>6. CASE SweepEnds
    <3>1. p \in dirty \/ p \in listed \/ ~Exists(p)
      BY <2>6 DEF SweepEnds, Accounted, WatchesAreSound, Sweeping
    <3>2. p \in listed => links'[p] = links[p]
      BY <2>6 DEF SweepEnds
    <3>3. QED
      BY <2>1, <2>6, <3>1, <3>2 DEF SweepEnds, Recognised, Links, Exists, Owed
  <2>7. ASSUME NEW q \in Paths, Notify(q)
        PROVE  Recognised(p)' \/ Owed(p)'
    <3>1. pc = "idle" /\ disk' = disk /\ dirty' = dirty \ {q} /\ ~Sweeping
      BY <2>7 DEF Notify, NotifyUnchanged, NotifyChanged, NotifyRemoved, Notified,
         AtRest, Sweeping, Busy
    <3>2. q # p => links'[p] = links[p]
      BY <2>7, RemoveLinkKeepsTypes DEF Notify, NotifyUnchanged, NotifyChanged,
         NotifyRemoved, Grounded, TypeOK, DatabaseTypes
    <3>3. CASE q # p
      BY <2>1, <3>1, <3>2, <3>3 DEF Recognised, Links, Owed
    <3>4. CASE q = p /\ NotifyChanged(p)
      BY <3>4 DEF NotifyChanged, NoJob, Owed, Busy
    <3>5. CASE q = p /\ ~NotifyChanged(p)
      <4>1. ~Exists(p)
        BY <2>7, <3>5 DEF Notify, NotifyUnchanged, NotifyRemoved, Notified,
           Accounted, WatchesAreSound
      <4>2. QED
        BY <3>1, <4>1 DEF Exists, Recognised
    <3>6. QED
      BY <2>7, <3>3, <3>4, <3>5
  <2>8. CASE TimerFires \/ Poll
    <3>1. ~Sweeping /\ pc # "down" /\ UNCHANGED <<disk, dirty, links>>
      BY <2>8 DEF TimerFires, Poll, PollKeeps, PollRetries, AtRest, Sweeping, Busy
    <3>2. QED
      BY <2>1, <3>1 DEF Recognised, Links, Owed
  <2>9. CASE Attempt
    <3>1. job.path # p
      BY <1>6, <2>9, AttemptSteps DEF Waits
    <3>2. UNCHANGED <<disk, dirty, todo>> /\ pc # "down" /\ Sweeping' = Sweeping
          /\ links'[p] = links[p]
      BY <2>9, <3>1, AttemptSteps DEF Busy
    <3>3. QED
      BY <2>1, <3>2 DEF Recognised, Links, Owed
  <2>10. CASE UNCHANGED vars
    BY <1>2, <2>1, <2>10 DEF vars, Recognised, Links, Owed, Sweeping
  <2>11. QED
    BY <1>2, <1>6, <2>2, <2>3, <2>4, <2>5, <2>6, <2>7, <2>8, <2>9, <2>10
       DEF Next, Startup, Crash
<1>7. QED
  BY <1>3, <1>4, <1>5, <1>6

-----------------------------------------------------------------------------
LEMMA InitIInv == Init => IInv
<1> SUFFICES ASSUME Init PROVE IInv
  OBVIOUS
<1>1. Grounded
  BY InitGrounded
<1>2. PollRunsWhenNeeded /\ PromisesAreKept /\ Backed
  BY DEF Init, PollRunsWhenNeeded, PromisesAreKept, Backed, CatalogueIsBacked
<1>3. Stamped
  BY DEF Init, Stamped, MarksArePast, ParseIsCurrent, FastPathIsSound, Matches, Absent
<1>4. Accounted
  BY DEF Init, Accounted, WatchesAreSound, Sweeping, Busy
<1>5. QED
  BY <1>1, <1>2, <1>3, <1>4 DEF IInv

LEMMA StepIInv == IInv /\ [Next]_vars => IInv'
<1> SUFFICES ASSUME IInv, [Next]_vars PROVE IInv'
  OBVIOUS
<1> USE DEF IInv
<1>1. Grounded'
  BY StepGrounded
<1>2. PollRunsWhenNeeded' /\ PromisesAreKept' /\ Backed'
  BY StepPoll, StepPromises, StepBacked
<1>3. Stamped' /\ Accounted'
  BY <1>1, StepStamped, StepAccounted DEF Accounted
<1>4. QED
  BY <1>1, <1>2, <1>3

LEMMA IInvHolds == Safety => []IInv
BY InitIInv, StepIInv, PTL DEF Safety

(***************************************************************************)
(* Every variable keeps its type, on every path of every handler, through  *)
(* faults and restarts (replaystore.cpp, deferred.cpp).                    *)
(***************************************************************************)
THEOREM StoreTypes == Safety => []TypeOK
<1>1. IInv => TypeOK
  BY DEF IInv, Grounded
<1>2. QED
  BY <1>1, IInvHolds, PTL

(***************************************************************************)
(* Whatever the database lists has its copy in the store, at every instant *)
(* at which the process may end (replaystore.cpp:748-773).                 *)
(***************************************************************************)
THEOREM CatalogueBacked == Safety => []CatalogueIsBacked
<1>1. IInv => CatalogueIsBacked
  BY DEF IInv, Backed
<1>2. QED
  BY <1>1, IInvHolds, PTL

(***************************************************************************)
(* The start-up fast path never skips a file that is not what its row says *)
(* (replaystore.cpp:212-223, 431-438).                                     *)
(***************************************************************************)
THEOREM FastPathSound == Safety => []FastPathIsSound
<1>1. IInv => FastPathIsSound
  BY DEF IInv, Stamped
<1>2. QED
  BY <1>1, IInvHolds, PTL

(***************************************************************************)
(* No replay is stranded: at rest, a file that is not recorded for what it *)
(* is waits on the retry list, whatever locks, misreads, failing           *)
(* statements and restarts went before (replaystore.cpp:426-543), unless a *)
(* sweep whose first query failed listed it and it has not changed since   *)
(* (replaystore.cpp:202-203, 239).                                         *)
(***************************************************************************)
THEOREM NothingStranded == Safety => []NoReplayIsStranded
<1>1. IInv => NoReplayIsStranded
  <2> SUFFICES ASSUME IInv, NEW p \in Paths, Settled(p), m_deferred[p] = None,
                      p \notin missed, disk[p].content \notin {"absent", "corrupt"}
               PROVE  disk[p].content \in Checksums /\ Links(p, disk[p].content)
    BY DEF NoReplayIsStranded
  <2>1. ~Owed(p) /\ pc # "down"
    BY DEF Settled, AtRest, Owed, Retry!Nothing, Busy, Sweeping
  <2>2. Links(p, disk[p].content)
    BY <2>1 DEF IInv, Accounted, Recognised
  <2>3. QED
    BY <2>2 DEF Links, IInv, Grounded, TypeOK, DatabaseTypes, Link
<1>2. QED
  BY <1>1, IInvHolds, PTL

(***************************************************************************)
(* An inbox item that shows a file as pending or torn is backed by an      *)
(* attempt under way or to come (replaystore.cpp:442-448, 469-543).        *)
(***************************************************************************)
THEOREM PromisesKept == Safety => []PromisesAreKept
<1>1. IInv => PromisesAreKept
  BY DEF IInv
<1>2. QED
  BY <1>1, IInvHolds, PTL

(***************************************************************************)
(* The poll runs exactly while some path waits, in the store's own use of  *)
(* its retry list (deferred.cpp:64-99).                                    *)
(***************************************************************************)
THEOREM PollRuns == Safety => []PollRunsWhenNeeded
<1>1. IInv => PollRunsWhenNeeded
  BY DEF IInv
<1>2. QED
  BY <1>1, IInvHolds, PTL

-----------------------------------------------------------------------------
ChangesAreNoticed ==
  IF pc = "down" THEN \A p \in Paths : known[p] = 0
  ELSE \A p \in Paths \ dirty : known[p] = Stat(p)

(* A path that was gone when the sweep began keeps its row until it ends;  *)
(* a fault in removing the row is swallowed, and the row stays.            *)
RowMayStay(p) ==
  \/ pc = "down"
  \/ Sweeping /\ p \notin listed
  \/ Faults \cap {"unlink", "sweep"} # {}

TracesAreKnown ==
  /\ \A p \in Paths : known[p] = 0 =>
       /\ m_deferred[p] = None /\ toCheck[p] = None /\ inbox[p] = "none"
       /\ pc \in Busy => job.path # p
       /\ links[p] = None \/ RowMayStay(p)
  /\ Sweeping => todo \subseteq listed /\ \A p \in listed : known[p] # 0

ListIsWalked ==
  /\ \A p \in Paths : toCheck[p] # None => m_deferred[p] = None
  /\ pc # "idle" /\ ~(pc \in Busy /\ job.via = "poll") => toCheck = Retry!Nothing
  /\ pc \in Busy /\ job.via = "poll" =>
       m_deferred[job.path] = None /\ toCheck[job.path] = None

ShownIsCurrent == Faults \cap {"forward", "sweep"} = {} => PublishedIsCurrent

Outward ==
  /\ IInv
  /\ ChangesAreNoticed
  /\ TracesAreKnown
  /\ ListIsWalked
  /\ ShownIsCurrent

-----------------------------------------------------------------------------
(* What a handler does to the retry list: it takes its path off and goes   *)
(* on, puts it on and returns, or leaves the list alone.                   *)

LEMMA SampleOnList ==
  ASSUME Grounded, NEW p \in Paths, NEW via, Sample(p, via)
  PROVE  /\ \A q \in Paths : q # p => inbox'[q] = inbox[q] /\ m_deferred'[q] = m_deferred[q]
         /\ \/ /\ RemoveWaitForChange(p)
               /\ pc' = "read" /\ job'.via = via /\ job'.path = p
            \/ Return /\ \E mark \in Watermarks : WaitForChange(p, mark)
<1> USE DEF Grounded, TypeOK
<1>1. CASE HasSize(p)
  <2>1. RemoveWaitForChange(p) /\ inbox' = inbox
        /\ pc' = "read" /\ job'.via = via /\ job'.path = p
    BY <1>1 DEF Sample, guiVars
  <2>2. QED
    BY <2>1, DropKeepsTypes
<1>2. CASE ~HasSize(p)
  <2>1. Stat(p) \in Watermarks /\ HandleIncomplete(p, Stat(p), "pending")
    BY <1>2, StatIsWatermark DEF Sample
  <2>2. Return /\ WaitForChange(p, Stat(p))
    BY <2>1 DEF HandleIncomplete
  <2>3. QED
    BY <2>1, <2>2, IncompleteKeepsTypes
<1>3. QED
  BY <1>1, <1>2

LEMMA FailureOnList ==
  ASSUME Grounded, NEW p \in Paths, NEW observed \in Watermarks,
         HandleStorageFailure(p, observed)
  PROVE  /\ \A q \in Paths : q # p => inbox'[q] = inbox[q] /\ m_deferred'[q] = m_deferred[q]
         /\ Return /\ \E mark \in Watermarks : WaitForChange(p, mark)
<1>1. \A q \in Paths : q # p => inbox'[q] = inbox[q] /\ m_deferred'[q] = m_deferred[q]
  BY StorageFailureKeepsTypes DEF Grounded, TypeOK
<1>2. unmatchableWatermark \in Watermarks
  BY ConstantFacts DEF unmatchableWatermark, Watermarks
<1>3. QED
  BY <1>1, <1>2 DEF HandleStorageFailure

LEMMA AttemptOnList ==
  ASSUME Grounded, Attempt
  PROVE  /\ job.path \in Paths /\ UNCHANGED toCheck
         /\ \A q \in Paths : q # job.path => inbox'[q] = inbox[q] /\ m_deferred'[q] = m_deferred[q]
         /\ \/ /\ pc = "begin" /\ RemoveWaitForChange(job.path)
               /\ pc' = "read" /\ job'.via = job.via /\ job'.path = job.path
            \/ Return /\ \E mark \in Watermarks : WaitForChange(job.path, mark)
            \/ Return /\ UNCHANGED <<m_deferred, trigger>>
            \/ /\ pc' \in Busy /\ job'.via = job.via /\ job'.path = job.path
               /\ UNCHANGED <<m_deferred, trigger>>
<1> USE DEF Grounded, TypeOK, diskVars, dbVars, watchVars, deferVars, guiVars, sweepVars
<1>1. job.path \in Paths
  BY AttemptSteps DEF JobIsUsable
<1>2. job.observed \in Watermarks
  BY DEF ThreadTypes, Job
<1>3. CASE Begin
  BY <1>1, <1>3, SampleOnList DEF Begin
<1>4. CASE OpenFails \/ IngestFails \/ CommitFails \/ ForwardFails
  <2>1. HandleStorageFailure(job.path, job.observed) /\ UNCHANGED toCheck
    BY <1>4 DEF OpenFails, IngestFails, CommitFails, ForwardFails
  <2>2. QED
    BY <1>1, <1>2, <2>1, FailureOnList
<1>5. CASE ParseTorn
  <2>1. HandleIncomplete(job.path, job.observed, "torn") /\ UNCHANGED toCheck
    BY <1>5 DEF ParseTorn
  <2>2. Return /\ WaitForChange(job.path, job.observed)
    BY <2>1 DEF HandleIncomplete
  <2>3. QED
    BY <1>1, <1>2, <2>1, <2>2, IncompleteKeepsTypes
<1>6. CASE ParseMisread
  <2>1. /\ Return /\ WaitForChange(job.path, job.observed) /\ UNCHANGED toCheck
        /\ inbox' = [inbox EXCEPT ![job.path] = "torn"]
    BY <1>6 DEF ParseMisread, Observed
  <2>2. QED
    BY <1>1, <1>2, <2>1, PutKeepsTypes DEF ScreenTypes
<1>7. CASE ParseCorrupt \/ Commit
  <2>1. /\ Return /\ UNCHANGED <<m_deferred, trigger, toCheck>>
        /\ \/ inbox' = [inbox EXCEPT ![job.path] = "none"]
           \/ inbox' = [inbox EXCEPT ![job.path] = "corrupt"]
    BY <1>7 DEF ParseCorrupt, Commit, HandleParseFailure, Observed, Dismissed
  <2>2. QED
    BY <1>1, <2>1 DEF ScreenTypes
<1>8. CASE ParseComplete \/ IngestKnown \/ IngestUnknown
  BY <1>1, <1>8 DEF ParseComplete, IngestKnown, IngestUnknown, Busy, ThreadTypes, Job
<1>9. QED
  BY <1>3, <1>4, <1>5, <1>6, <1>7, <1>8 DEF Attempt

-----------------------------------------------------------------------------
(* What is gone leaves no trace.                                           *)

LEMMA StepNoticed ==
  ASSUME Grounded, WatchesAreSound, ChangesAreNoticed, [Next]_vars
  PROVE  ChangesAreNoticed'
<1> USE DEF diskVars, dbVars, watchVars, deferVars, guiVars, sweepVars, ioVars,
    ChangesAreNoticed
<1>1. CASE Folder \/ User \/ Hide
  <2>1. known' = known /\ (pc' = "down" <=> pc = "down")
    BY <1>1, FolderSteps DEF AttemptRests
  <2>2. CASE UNCHANGED <<disk, dirty>>
    BY <2>1, <2>2 DEF Stat, Exists
  <2>3. ASSUME NEW p \in Paths, Moved(p)
        PROVE  ChangesAreNoticed'
    <3>1. \A q \in Paths \ {p} : Stat(q)' = Stat(q)
      BY <2>3 DEF Moved, Stat, Exists
    <3>2. QED
      BY <2>1, <2>3, <3>1 DEF Moved
  <2>4. QED
    BY <1>1, <2>2, <2>3, FolderSteps
<1>2. CASE Start \/ Crash
  BY <1>2 DEF Start, Crash, Stat, Exists, WatchesAreSound
<1>3. CASE SweepFails \/ SweepEnds \/ \E p \in Paths : SweepSkips(p)
  BY <1>3 DEF SweepFails, SweepEnds, SweepSkips, Stat, Exists
<1>4. ASSUME NEW p \in Paths, SweepSamples(p)
      PROVE  ChangesAreNoticed'
  <2>1. pc # "down" /\ pc' # "down" /\ UNCHANGED <<disk, dirty, known>>
    BY <1>4, SweepSampleSteps DEF SweepSamples, Sweeping, Busy
  <2>2. QED
    BY <2>1 DEF Stat, Exists
<1>5. ASSUME NEW p \in Paths, Notify(p)
      PROVE  ChangesAreNoticed'
  <2>1. /\ dirty' = dirty \ {p} /\ disk' = disk /\ pc = "idle" /\ pc' # "down"
        /\ \A q \in Paths \ {p} : known'[q] = known[q]
        /\ known'[p] = Stat(p)
    BY <1>5 DEF Notify, NotifyUnchanged, NotifyChanged, NotifyRemoved, Notified,
       AtRest, Stat, Grounded, TypeOK, FolderTypes
  <2>2. QED
    BY <2>1 DEF Stat, Exists
<1>6. CASE TimerFires \/ Poll
  BY <1>6 DEF TimerFires, Poll, PollKeeps, PollRetries, Stat, Exists, AtRest
<1>7. CASE Attempt
  BY <1>7, AttemptSteps DEF Stat, Exists, Busy
<1>8. CASE UNCHANGED vars
  BY <1>8 DEF vars, Stat, Exists
<1>9. QED
  BY <1>1, <1>2, <1>3, <1>4, <1>5, <1>6, <1>7, <1>8 DEF Next, Startup

LEMMA StepTraces ==
  ASSUME Grounded, ChangesAreNoticed, TracesAreKnown, [Next]_vars
  PROVE  TracesAreKnown'
<1> USE DEF diskVars, dbVars, watchVars, deferVars, guiVars, sweepVars, ioVars,
    RowMayStay
<1> DEFINE NoTrace(p) == /\ m_deferred[p] = None /\ toCheck[p] = None /\ inbox[p] = "none"
                         /\ pc \in Busy => job.path # p
                         /\ links[p] = None \/ RowMayStay(p)
<1>0. \A p \in Paths : known[p] = 0 => NoTrace(p)
  BY DEF TracesAreKnown
<1>1. CASE Folder \/ User \/ Hide
  <2>1. AttemptRests
    BY <1>1, FolderSteps
  <2>2. \A p \in Paths : inbox'[p] \in {inbox[p], "none"}
    BY <1>1 DEF Folder, Write, Remove, Lock, Unlock, User, AcknowledgeItem, Dismissed,
       ExposeReplay, HideReplay, Hide, HideRemoves, Grounded, TypeOK, ScreenTypes
  <2>3. Sweeping' = Sweeping /\ (Sweeping => todo' = todo) /\ (pc' \in Busy => pc \in Busy)
        /\ (pc' = "down" <=> pc = "down")
    BY <2>1 DEF AttemptRests, Sweeping, Busy
  <2>4. UNCHANGED <<links, known, m_deferred, toCheck, job, listed>>
    BY <2>1 DEF AttemptRests
  <2>5. QED
    BY <2>2, <2>3, <2>4 DEF TracesAreKnown
<1>2. CASE Start
  <2>1. /\ \A p \in Paths : known[p] = 0 /\ known'[p] = Stat(p)
        /\ listed' = {p \in Paths : Exists(p)} /\ todo' = listed'
        /\ pc' = "sweep" /\ inbox' = [p \in Paths |-> "none"]
        /\ UNCHANGED <<m_deferred, toCheck>>
    BY <1>2 DEF Start, ChangesAreNoticed
  <2>2. \A p \in Paths : Stat(p) = 0 <=> ~Exists(p)
    BY DEF Grounded, FilesAreMarked, Stat
  <2>3. QED
    BY <2>1, <2>2 DEF TracesAreKnown, Sweeping, Busy
<1>3. ASSUME NEW q \in Paths, SweepSkips(q)
      PROVE  TracesAreKnown'
  BY <1>3 DEF SweepSkips, TracesAreKnown, Sweeping
<1>4. ASSUME NEW q \in Paths, SweepSamples(q)
      PROVE  TracesAreKnown'
  <2>1. /\ UNCHANGED <<known, listed, toCheck>> /\ Sweeping /\ Sweeping' /\ todo' = todo \ {q}
        /\ \A p \in Paths \ {q} : links'[p] = links[p]
    BY <1>4, SweepSampleSteps DEF SweepSamples
  <2>2. known[q] # 0
    BY <1>4, <2>1 DEF SweepSamples, TracesAreKnown
  <2>3. /\ \A p \in Paths \ {q} : inbox'[p] = inbox[p] /\ m_deferred'[p] = m_deferred[p]
        /\ pc' \in Busy => job'.path = q
    <3>1. Sample(q, "sweep")
      BY <1>4 DEF SweepSamples
    <3>2. QED
      BY <3>1, SampleOnList, ReturnKeepsTypes DEF Busy
  <2>4. pc # "down"
    BY <1>4 DEF SweepSamples
  <2>5. QED
    BY <2>1, <2>2, <2>3, <2>4 DEF TracesAreKnown
<1>5. CASE SweepEnds
  <2>1. UNCHANGED <<known, m_deferred, toCheck, inbox>> /\ pc' = "idle" /\ Sweeping /\ ~Sweeping'
    BY <1>5 DEF SweepEnds, Sweeping, Busy
  <2>2. ASSUME NEW p \in Paths, known[p] = 0
        PROVE  links'[p] = None \/ RowMayStay(p)'
    <3>1. p \notin listed
      BY <2>1, <2>2 DEF TracesAreKnown
    <3>2. CASE Fault("sweep")
      BY <3>2 DEF Fault
    <3>3. CASE links' = [r \in Paths |-> IF r \in listed THEN links[r] ELSE None]
      BY <3>1, <3>3
    <3>4. QED
      BY <1>5, <3>2, <3>3 DEF SweepEnds
  <2>3. QED
    BY <2>1, <2>2 DEF TracesAreKnown, Busy
<1>6. ASSUME NEW q \in Paths, Notify(q)
      PROVE  TracesAreKnown'
  <2>1. /\ pc = "idle" /\ toCheck = Retry!Nothing /\ toCheck' = toCheck /\ ~Sweeping
        /\ UNCHANGED listed /\ \A p \in Paths \ {q} : known'[p] = known[p]
    BY <1>6 DEF Notify, NotifyUnchanged, NotifyChanged, NotifyRemoved, Notified,
       AtRest, Sweeping, Busy, Grounded, TypeOK, FolderTypes
  <2>2. CASE NotifyUnchanged(q)
    BY <2>1, <2>2 DEF NotifyUnchanged, TracesAreKnown, Sweeping
  <2>3. CASE NotifyChanged(q)
    <3>1. known'[q] # 0
      BY <2>3 DEF NotifyChanged, Grounded, TypeOK, FolderTypes, FilesAreMarked, Stat
    <3>2. job'.path = q /\ job'.via = "notice" /\ pc' = "begin"
          /\ UNCHANGED <<m_deferred, inbox, links>>
      BY <2>3 DEF NotifyChanged, NoJob
    <3>3. ~Sweeping'
      BY <3>2 DEF Sweeping
    <3>4. QED
      BY <2>1, <3>1, <3>2, <3>3 DEF TracesAreKnown, Busy
  <2>4. CASE NotifyRemoved(q)
    <3>1. /\ m_deferred' = Retry!Without(q) /\ inbox' = [inbox EXCEPT ![q] = "none"]
          /\ UNCHANGED <<pc, job>>
      BY <2>4 DEF NotifyRemoved, RemoveWaitForChange, Dismissed
    <3>2. m_deferred'[q] = None /\ \A p \in Paths \ {q} : m_deferred'[p] = m_deferred[p]
      BY <3>1 DEF Retry!Without, Grounded, TypeOK, RetryTypes
    <3>3. inbox'[q] = "none" /\ \A p \in Paths \ {q} : inbox'[p] = inbox[p]
      BY <3>1 DEF Grounded, TypeOK, ScreenTypes
    <3>4. links'[q] = None \/ Faults \cap {"unlink", "sweep"} # {}
      BY <2>4 DEF NotifyRemoved, RemoveReplayFileLink, Unlink, Fault, Grounded, TypeOK,
         DatabaseTypes
    <3>5. \A p \in Paths \ {q} : links'[p] = links[p]
      BY <2>4, RemoveLinkKeepsTypes DEF NotifyRemoved, Grounded, TypeOK, DatabaseTypes
    <3>6. toCheck'[q] = None
      BY <2>1 DEF Retry!Nothing
    <3>7. QED
      BY <2>1, <3>1, <3>2, <3>3, <3>4, <3>5, <3>6 DEF TracesAreKnown, Sweeping, Busy
  <2>5. QED
    BY <1>6, <2>2, <2>3, <2>4 DEF Notify
<1>7. CASE TimerFires
  <2>1. /\ \A p \in Paths : toCheck'[p] = Retry!Aged(m_deferred[p]) /\ m_deferred'[p] = None
        /\ UNCHANGED <<known, inbox, links, pc, job, listed, todo>>
    BY <1>7 DEF TimerFires, Retry!Nothing
  <2>2. \A p \in Paths : m_deferred[p] = None => toCheck'[p] = None
    BY <2>1 DEF Retry!Aged
  <2>3. QED
    BY <2>1, <2>2 DEF TracesAreKnown, Sweeping
<1>8. ASSUME NEW q \in Paths, PollKeeps(q) \/ PollRetries(q)
      PROVE  TracesAreKnown'
  <2>1. /\ known[q] # 0 /\ pc = "idle" /\ ~Sweeping
        /\ UNCHANGED <<known, inbox, links, listed, todo>>
    BY <1>8 DEF PollKeeps, PollRetries, TracesAreKnown, Sweeping, Busy
  <2>2. \A p \in Paths \ {q} : toCheck'[p] = toCheck[p] /\ m_deferred'[p] = m_deferred[p]
    BY <1>8 DEF PollKeeps, PollRetries, Grounded, TypeOK, RetryTypes
  <2>3. (pc' \in Busy => job'.path = q /\ job'.via = "poll") /\ pc' \in {"idle", "begin"}
    BY <1>8 DEF PollKeeps, PollRetries, NoJob, Busy
  <2>4. ~Sweeping'
    BY <2>3 DEF Sweeping
  <2>5. QED
    BY <2>1, <2>2, <2>3, <2>4 DEF TracesAreKnown
<1>9. CASE Attempt
  <2>1. /\ UNCHANGED <<known, todo, listed, toCheck>> /\ pc \in Busy /\ Sweeping' = Sweeping
        /\ pc' # "down" /\ job.path \in Paths
        /\ \A q \in Paths : q # job.path =>
             links'[q] = links[q] /\ inbox'[q] = inbox[q] /\ m_deferred'[q] = m_deferred[q]
    BY <1>9, AttemptSteps, AttemptOnList
  <2>2. known[job.path] # 0
    BY <2>1 DEF TracesAreKnown
  <2>3. pc' \in Busy => job'.path = job.path
    BY <1>9, AttemptOnList, ReturnKeepsTypes DEF Busy
  <2>4. pc # "down"
    BY <2>1 DEF Busy
  <2>5. QED
    BY <2>1, <2>2, <2>3, <2>4 DEF TracesAreKnown
<1>10. CASE Crash
  BY <1>10 DEF Crash, TracesAreKnown, Retry!Nothing, Sweeping, Busy
<1>11. CASE SweepFails
  BY <1>11 DEF SweepFails, Fault, TracesAreKnown, Sweeping, Busy
<1>12. CASE UNCHANGED vars
  BY <1>12 DEF vars, TracesAreKnown, Sweeping
<1>13. QED
  BY <1>1, <1>2, <1>3, <1>4, <1>5, <1>6, <1>7, <1>8, <1>9, <1>10, <1>11, <1>12
     DEF Next, Startup, Poll

-----------------------------------------------------------------------------
(* timerFired walks what it drained, and no one else touches that.         *)

LEMMA StepWalked ==
  ASSUME Grounded, ListIsWalked, [Next]_vars
  PROVE  ListIsWalked'
<1> USE DEF diskVars, dbVars, watchVars, deferVars, guiVars, sweepVars, ioVars
<1> DEFINE Apart == \A p \in Paths : toCheck[p] # None => m_deferred[p] = None
           Polling == pc \in Busy /\ job.via = "poll"
<1>1. CASE Folder \/ User \/ Hide
  <2>1. AttemptRests
    BY <1>1, FolderSteps
  <2>2. pc' = "hide" /\ pc # "hide" => toCheck = Retry!Nothing
    BY <1>1 DEF Folder, Write, Remove, Lock, Unlock, User, AcknowledgeItem,
       ExposeReplay, HideReplay, Hide, HideRemoves, AtRest
  <2>3. QED
    BY <2>1, <2>2 DEF AttemptRests, ListIsWalked, Busy, Retry!Nothing
<1>2. CASE Startup \/ Crash
  <2>1. CASE Start \/ SweepFails \/ SweepEnds \/ Crash \/ \E p \in Paths : SweepSkips(p)
    BY <2>1 DEF Start, SweepFails, SweepEnds, Crash, SweepSkips, ListIsWalked, Retry!Nothing, Busy
  <2>2. ASSUME NEW p \in Paths, SweepSamples(p)
        PROVE  ListIsWalked'
    <3>1. toCheck = Retry!Nothing /\ toCheck' = toCheck /\ Sample(p, "sweep")
      BY <2>2 DEF SweepSamples, ListIsWalked, Busy
    <3>2. ~Polling'
      BY <3>1, SampleOnList, ReturnKeepsTypes DEF Busy
    <3>3. QED
      BY <3>1, <3>2 DEF ListIsWalked, Retry!Nothing
  <2>3. QED
    BY <1>2, <2>1, <2>2 DEF Startup
<1>3. ASSUME NEW p \in Paths, Notify(p)
      PROVE  ListIsWalked'
  <2>1. toCheck = Retry!Nothing /\ toCheck' = toCheck /\ pc = "idle"
        /\ (pc' = "idle" \/ job'.via = "notice")
    BY <1>3 DEF Notify, NotifyUnchanged, NotifyChanged, NotifyRemoved, Notified,
       AtRest, NoJob
  <2>2. QED
    BY <2>1 DEF ListIsWalked, Retry!Nothing, Busy
<1>4. CASE TimerFires
  BY <1>4 DEF TimerFires, AtRest, ListIsWalked, Retry!Nothing, Busy
<1>5. ASSUME NEW p \in Paths, PollKeeps(p)
      PROVE  ListIsWalked'
  BY <1>5 DEF PollKeeps, ListIsWalked, Busy, Grounded, TypeOK, RetryTypes
<1>6. ASSUME NEW p \in Paths, PollRetries(p)
      PROVE  ListIsWalked'
  <2>1. /\ toCheck' = [toCheck EXCEPT ![p] = None] /\ m_deferred' = m_deferred
        /\ m_deferred[p] = None
        /\ pc' = "begin" /\ job'.via = "poll" /\ job'.path = p
    BY <1>6 DEF PollRetries, NoJob, ListIsWalked
  <2>2. QED
    BY <2>1 DEF ListIsWalked, Busy, Grounded, TypeOK, RetryTypes
<1>7. CASE Attempt
  <2>1. /\ job.path \in Paths /\ UNCHANGED toCheck /\ pc \in Busy
        /\ \A q \in Paths : q # job.path => m_deferred'[q] = m_deferred[q]
    BY <1>7, AttemptOnList, AttemptSteps
  <2>2. CASE job.via = "poll"
    <3>1. \/ pc' = "idle"
          \/ /\ pc' \in Busy /\ job'.via = "poll" /\ job'.path = job.path
             /\ m_deferred'[job.path] \in {m_deferred[job.path], None}
      <4>1. Return => pc' = "idle"
        BY <2>1, <2>2 DEF Return, Sweeping, Busy
      <4>2. RemoveWaitForChange(job.path) => m_deferred'[job.path] = None
        BY <2>1 DEF RemoveWaitForChange, Retry!Without, Grounded, TypeOK, RetryTypes
      <4>3. QED
        BY <1>7, <2>2, <4>1, <4>2, AttemptOnList DEF Busy
    <3>2. QED
      BY <2>1, <2>2, <3>1 DEF ListIsWalked, Busy
  <2>3. CASE job.via # "poll"
    <3>1. toCheck = Retry!Nothing
      BY <2>1, <2>3 DEF ListIsWalked, Busy
    <3>2. ~Polling'
      BY <1>7, <2>3, AttemptOnList, ReturnKeepsTypes DEF Busy
    <3>3. QED
      BY <2>1, <3>1, <3>2 DEF ListIsWalked, Retry!Nothing
  <2>4. QED
    BY <2>2, <2>3
<1>8. CASE UNCHANGED vars
  BY <1>8 DEF vars, ListIsWalked
<1>9. QED
  BY <1>1, <1>2, <1>3, <1>4, <1>5, <1>6, <1>7, <1>8 DEF Next, Poll

-----------------------------------------------------------------------------
(* What is shown follows the catalogue: a change to the row of one path    *)
(* only changes how the replays recorded there are shown, and those are    *)
(* announced.                                                              *)

LEMMA NewsAreEnough ==
  ASSUME Grounded, NEW p \in Paths, NEW news,
         ~Sweeping, published = Snapshot(replays, links),
         \A q \in Paths : q # p => links'[q] = links[q],
         Links(p, links[p].checksum) => links[p].checksum \in news,
         links'[p] # None => links'[p].checksum \in news,
         replays \subseteq replays',
         \A c \in Checksums : c \in replays' => c \in replays \cup news,
         ForwardChangedReplays(news)
  PROVE  published' = Snapshot(replays, links)'
<1> DEFINE Linked(c, ext) == \E q \in Paths : ext[q] # None /\ ext[q].checksum = c
<1>1. published' = [c \in Checksums |->
                      IF c \in news \cap replays' THEN Showing(c, replays', links')
                      ELSE published[c]]
  BY DEF ForwardChangedReplays
<1>2. ASSUME NEW c \in Checksums, c \notin news \cap replays'
      PROVE  published[c] = Showing(c, replays', links')
  <2>1. published[c] = Showing(c, replays, links)
    BY <1>2 DEF Snapshot
  <2>2. CASE c \notin replays'
    BY <2>1, <2>2 DEF Showing
  <2>3. CASE c \in replays'
    <3>1. c \notin news /\ c \in replays
      BY <1>2, <2>3
    <3>2. Linked(c, links) <=> Linked(c, links')
      BY <3>1 DEF Links
    <3>3. QED
      BY <2>1, <2>3, <3>1, <3>2 DEF Showing
  <2>4. QED
    BY <2>2, <2>3
<1>3. QED
  BY <1>1, <1>2 DEF Snapshot

LEMMA UnlinkShows ==
  ASSUME Grounded, NEW p \in Paths, ~Sweeping, Unlink(p) \/ UNCHANGED <<dbVars, published>>,
         published = Snapshot(replays, links)
  PROVE  published' = Snapshot(replays, links)'
<1>1. CASE Unlink(p)
  <2>1. links' = [links EXCEPT ![p] = None] /\ replays' = replays
        /\ ForwardChangedReplays(LinkedAt(p))
    BY <1>1 DEF Unlink
  <2>2. \A q \in Paths : q # p => links'[q] = links[q]
    BY <2>1 DEF Grounded, TypeOK, DatabaseTypes
  <2>3. links'[p] = None
    BY <2>1 DEF Grounded, TypeOK, DatabaseTypes
  <2>4. Links(p, links[p].checksum) => links[p].checksum \in LinkedAt(p)
    BY DEF Links, LinkedAt
  <2>5. QED
    BY <2>1, <2>2, <2>3, <2>4, NewsAreEnough
<1>2. CASE UNCHANGED <<dbVars, published>>
  BY <1>2 DEF dbVars, Snapshot, Showing
<1>3. QED
  BY <1>1, <1>2

LEMMA CommitShows ==
  ASSUME Grounded, ~Sweeping, Commit, published = Snapshot(replays, links)
  PROVE  published' = Snapshot(replays, links)'
<1> DEFINE news == {job.checksum} \cup LinkedAt(job.path)
<1>1. job.path \in Paths
  BY DEF Commit, Grounded, JobIsUsable, Busy
<1>2. replays' = replays \cup {job.checksum} /\ ForwardChangedReplays(news)
  BY DEF Commit, Recorded
<1>3. links' = [links EXCEPT ![job.path] = [checksum |-> job.checksum, mark |-> job.observed]]
  BY DEF Commit, Recorded
<1>4. \A q \in Paths : q # job.path => links'[q] = links[q]
  BY <1>3 DEF Grounded, TypeOK, DatabaseTypes
<1>5. links'[job.path].checksum \in news
  BY <1>1, <1>3 DEF Grounded, TypeOK, DatabaseTypes
<1>6. Links(job.path, links[job.path].checksum) => links[job.path].checksum \in news
  BY DEF Links, LinkedAt
<1>7. \A c \in Checksums : c \in replays' => c \in replays \cup news
  BY <1>2
<1> HIDE DEF news
<1>8. QED
  BY <1>1, <1>2, <1>4, <1>5, <1>6, <1>7, NewsAreEnough

LEMMA StepShown ==
  ASSUME Grounded, ShownIsCurrent, [Next]_vars
  PROVE  ShownIsCurrent'
<1> USE DEF diskVars, dbVars, watchVars, deferVars, guiVars, sweepVars, ioVars
<1> SUFFICES ASSUME Faults \cap {"forward", "sweep"} = {}, ~Sweeping', pc' # "down"
             PROVE  published' = Snapshot(replays, links)'
  BY DEF ShownIsCurrent, PublishedIsCurrent
<1> DEFINE Shown == published = Snapshot(replays, links)
<1>1. ~Sweeping /\ pc # "down" => Shown
  BY DEF ShownIsCurrent, PublishedIsCurrent
<1>2. UNCHANGED <<replays, links, published>> /\ Shown => Shown'
  BY DEF Snapshot, Showing
<1>3. CASE Folder \/ User \/ Hide
  <2>1. ~Sweeping /\ pc # "down" /\ UNCHANGED <<replays, links>>
    BY <1>3, FolderSteps DEF AttemptRests, Sweeping, Busy
  <2>2. published' = published
    BY <1>3 DEF Folder, Write, Remove, Lock, Unlock, User, AcknowledgeItem,
       ExposeReplay, HideReplay, Hide, HideRemoves
  <2>3. QED
    BY <1>1, <1>2, <2>1, <2>2
<1>4. CASE Start \/ Crash \/ \E p \in Paths : SweepSkips(p) \/ SweepSamples(p)
  BY <1>4, SweepSampleSteps DEF Start, Crash, SweepSkips, Sweeping
<1>5. CASE SweepEnds \/ SweepFails
  BY <1>5 DEF SweepEnds, SweepFails, Fault, Snapshot, Showing
<1>6. ASSUME NEW p \in Paths, Notify(p)
      PROVE  Shown'
  <2>1. pc = "idle" /\ ~Sweeping
    BY <1>6 DEF Notify, NotifyUnchanged, NotifyChanged, NotifyRemoved, Notified,
       AtRest, Sweeping, Busy
  <2>2. CASE NotifyUnchanged(p) \/ NotifyChanged(p)
    BY <1>1, <1>2, <2>1, <2>2 DEF NotifyUnchanged, NotifyChanged
  <2>3. CASE NotifyRemoved(p)
    BY <1>1, <2>1, <2>3, UnlinkShows DEF NotifyRemoved, RemoveReplayFileLink
  <2>4. QED
    BY <1>6, <2>2, <2>3 DEF Notify
<1>7. CASE TimerFires \/ Poll
  BY <1>1, <1>2, <1>7 DEF TimerFires, Poll, PollKeeps, PollRetries, AtRest, Sweeping, Busy
<1>8. CASE Attempt
  <2>1. ~Sweeping /\ pc # "down" /\ job.path \in Paths
    BY <1>8, AttemptSteps DEF Busy, Grounded, JobIsUsable
  <2>2. ASSUME NEW via, Sample(job.path, via)
        PROVE  Shown'
    BY <1>1, <1>2, <2>1, <2>2, UnlinkShows DEF Sample, HandleIncomplete, RemoveReplayFileLink
  <2>3. CASE Begin \/ ParseTorn \/ ParseCorrupt \/ ParseMisread
    BY <1>1, <2>1, <2>2, <2>3, UnlinkShows DEF Begin, ParseTorn, HandleIncomplete,
       ParseCorrupt, HandleParseFailure, ParseMisread, RemoveReplayFileLink
  <2>4. CASE Commit
    BY <1>1, <2>1, <2>4, CommitShows
  <2>5. ~ForwardFails
    BY DEF ForwardFails, Fault
  <2>6. CASE OpenFails \/ ParseComplete \/ IngestKnown \/ IngestUnknown \/ IngestFails
             \/ CommitFails
    BY <1>1, <1>2, <2>1, <2>6 DEF OpenFails, ParseComplete, IngestKnown, IngestUnknown,
       IngestFails, CommitFails
  <2>7. QED
    BY <1>8, <2>3, <2>4, <2>5, <2>6 DEF Attempt
<1>9. CASE UNCHANGED vars
  BY <1>1, <1>2, <1>9 DEF vars, Sweeping
<1>10. QED
  BY <1>3, <1>4, <1>5, <1>6, <1>7, <1>8, <1>9 DEF Next, Startup

-----------------------------------------------------------------------------
LEMMA InitOutward == Init => Outward
<1> SUFFICES ASSUME Init PROVE Outward
  OBVIOUS
<1>1. ChangesAreNoticed /\ TracesAreKnown
  BY DEF Init, ChangesAreNoticed, TracesAreKnown, Retry!Nothing, Busy, Sweeping
<1>2. ListIsWalked /\ ShownIsCurrent
  BY DEF Init, ListIsWalked, Retry!Nothing, Busy, ShownIsCurrent, PublishedIsCurrent
<1>3. QED
  BY <1>1, <1>2, InitIInv DEF Outward

LEMMA StepOutward == Outward /\ [Next]_vars => Outward'
<1> SUFFICES ASSUME Outward, [Next]_vars PROVE Outward'
  OBVIOUS
<1>1. IInv' /\ Grounded /\ WatchesAreSound
  BY StepIInv DEF Outward, IInv, Accounted
<1>2. ChangesAreNoticed' /\ TracesAreKnown'
  BY <1>1, StepNoticed, StepTraces DEF Outward
<1>3. ListIsWalked' /\ ShownIsCurrent'
  BY <1>1, StepWalked, StepShown DEF Outward
<1>4. QED
  BY <1>1, <1>2, <1>3 DEF Outward

LEMMA OutwardHolds == Safety => []Outward
BY InitOutward, StepOutward, PTL DEF Safety

(* At rest nothing is known of a path that is gone.                        *)
LEMMA GoneIsUnknown ==
  ASSUME Outward, NEW p \in Paths, Settled(p), ~Exists(p)
  PROVE  known[p] = 0
BY DEF Outward, ChangesAreNoticed, Settled, AtRest, Stat

(***************************************************************************)
(* A path that is gone is neither retried nor in the inbox nor shown as    *)
(* being in the folder, also when it vanished in the middle of an attempt  *)
(* or of a round of the poll, as long as its row can be removed            *)
(* (replaystore.cpp:412-419, 421-448, 225-238).                            *)
(***************************************************************************)
THEOREM NoGhosts ==
  ASSUME Faults \cap {"unlink", "sweep"} = {}
  PROVE  Safety => []NoGhostRemains
<1>1. Outward => NoGhostRemains
  <2> SUFFICES ASSUME Outward, NEW p \in Paths, Settled(p), ~Exists(p)
               PROVE  m_deferred[p] = None /\ links[p] = None /\ inbox[p] = "none"
    BY DEF NoGhostRemains, Exists
  <2>1. known[p] = 0
    BY GoneIsUnknown
  <2>2. ~RowMayStay(p)
    BY DEF RowMayStay, Settled, AtRest, Sweeping, Busy
  <2>3. QED
    BY <2>1, <2>2 DEF Outward, TracesAreKnown
<1>2. QED
  BY <1>1, OutwardHolds, PTL

(***************************************************************************)
(* Under every fault, also one that keeps a row, nothing that is gone is   *)
(* retried or in the inbox (replaystore.cpp:412-419).                      *)
(***************************************************************************)
NothingGoneIsRetried ==
  \A p \in Paths :
    Settled(p) /\ ~Exists(p) => m_deferred[p] = None /\ inbox[p] = "none"

THEOREM GoneIsNotRetried == Safety => []NothingGoneIsRetried
<1>1. Outward => NothingGoneIsRetried
  BY GoneIsUnknown DEF NothingGoneIsRetried, Outward, TracesAreKnown
<1>2. QED
  BY <1>1, OutwardHolds, PTL

(***************************************************************************)
(* Once the initial sweep is over the GUI shows every replay as the        *)
(* database has it, if reading rows back for it does not fail: every       *)
(* handler announces the replays whose display it changes, the one that    *)
(* was recorded at the path before among them (replaystore.cpp:775-811).   *)
(***************************************************************************)
THEOREM PublishedCurrent ==
  ASSUME Faults \cap {"forward", "sweep"} = {}
  PROVE  Safety => []PublishedIsCurrent
<1>1. Outward => PublishedIsCurrent
  BY DEF Outward, ShownIsCurrent
<1>2. QED
  BY <1>1, OutwardHolds, PTL

-----------------------------------------------------------------------------
(* The store uses the retry list as module Deferred allows. Under the      *)
(* mapping of Retry, the handler of pathChanged runs while an attempt is   *)
(* under way that timerFired began.                                        *)

Calling == IF pc \in Busy /\ job.via = "poll" THEN job.path ELSE None

CurrentMarks == [p \in Paths |-> Stat(p)]

ListRests == UNCHANGED <<CurrentMarks, m_deferred, trigger, toCheck, Calling>>

(* A step of the folder moves one watermark, or none.                      *)
LEMMA FolderOnList ==
  ASSUME Grounded, Folder \/ User \/ Hide
  PROVE  /\ UNCHANGED <<m_deferred, trigger, toCheck, Calling>>
         /\ \/ UNCHANGED CurrentMarks
            \/ \E p \in Paths, mark \in Watermarks : Retry!FileMoves(p, mark)
<1> USE DEF deferVars
<1>1. UNCHANGED <<m_deferred, trigger, toCheck, Calling>>
  BY FolderSteps DEF AttemptRests, Calling, Busy
<1>2. CASE UNCHANGED <<disk, dirty>>
  BY <1>1, <1>2 DEF CurrentMarks, Stat, Exists
<1>3. ASSUME NEW p \in Paths, Moved(p)
      PROVE  \/ UNCHANGED CurrentMarks
             \/ \E q \in Paths, mark \in Watermarks : Retry!FileMoves(q, mark)
  <2>1. \A q \in Paths \ {p} : Stat(q)' = Stat(q)
    BY <1>3 DEF Moved, Stat, Exists
  <2>2. CurrentMarks' = [CurrentMarks EXCEPT ![p] = Stat(p)']
    BY <2>1 DEF CurrentMarks
  <2>3. Stat(p)' \in Watermarks
    <3>1. FolderTypes'
      BY FolderGrounded, UserGrounded DEF Grounded, TypeOK
    <3>2. QED
      BY <3>1, ConstantFacts DEF FolderTypes, File, Stat, Watermarks
  <2>4. CASE Stat(p)' = Stat(p)
    BY <2>2, <2>4 DEF CurrentMarks
  <2>5. CASE Stat(p)' # Stat(p)
    <3>1. Retry!FileMoves(p, Stat(p)')
      BY <1>1, <2>2, <2>5 DEF Retry!FileMoves, CurrentMarks, Calling, Busy
    <3>2. QED
      BY <2>3, <3>1
  <2>6. QED
    BY <2>4, <2>5
<1>4. QED
  BY <1>1, <1>2, <1>3, FolderSteps

(* What timerFired's call of pathChanged does to the list.                 *)
LEMMA HandlerOnList ==
  ASSUME Outward, Attempt, job.via = "poll"
  PROVE  \/ ListRests
         \/ Retry!HandlerForgets
         \/ \E mark \in Watermarks : Retry!HandlerRearms(mark)
<1> USE DEF diskVars
<1>1. Grounded /\ ListIsWalked /\ PollRunsWhenNeeded
  BY DEF Outward, IInv
<1>2. /\ job.path \in Paths /\ toCheck' = toCheck /\ pc \in Busy
      /\ Calling = job.path /\ Calling # None
  BY <1>1, AttemptOnList, AttemptSteps, ConstantFacts DEF Calling
<1>3. UNCHANGED CurrentMarks
  BY <1>1, AttemptSteps DEF CurrentMarks, Stat, Exists
<1>4. Retry!Without(job.path) = m_deferred
  BY <1>1, <1>2 DEF ListIsWalked, Retry!Without, Grounded, TypeOK, RetryTypes
<1>5. (trigger /\ m_deferred # Retry!Nothing) = trigger
  BY <1>1 DEF PollRunsWhenNeeded
<1>6. Return => Calling' = None
  BY <1>2 DEF Return, Calling, Sweeping, Busy
<1>7. CASE pc = "begin" /\ RemoveWaitForChange(job.path)
           /\ pc' = "read" /\ job'.via = job.via /\ job'.path = job.path
  <2>1. m_deferred' = m_deferred /\ trigger' = trigger
    BY <1>4, <1>5, <1>7 DEF RemoveWaitForChange
  <2>2. Calling' = Calling
    BY <1>2, <1>7 DEF Calling, Busy
  <2>3. QED
    BY <1>2, <1>3, <2>1, <2>2 DEF ListRests
<1>8. CASE Return /\ \E mark \in Watermarks : WaitForChange(job.path, mark)
  <2>1. PICK mark \in Watermarks : WaitForChange(job.path, mark)
    BY <1>8
  <2>2. Retry!HandlerRearms(mark)
    BY <1>2, <1>3, <1>6, <1>8, <2>1
       DEF WaitForChange, Retry!HandlerRearms, Calling, CurrentMarks, Busy
  <2>3. QED
    BY <2>2
<1>9. CASE Return /\ UNCHANGED <<m_deferred, trigger>>
  <2>1. Retry!HandlerForgets
    BY <1>2, <1>3, <1>4, <1>5, <1>6, <1>9
       DEF Retry!HandlerForgets, Calling, CurrentMarks, Busy
  <2>2. QED
    BY <2>1
<1>10. CASE pc' \in Busy /\ job'.via = job.via /\ job'.path = job.path
            /\ UNCHANGED <<m_deferred, trigger>>
  BY <1>2, <1>3, <1>10 DEF ListRests, Calling
<1>11. QED
  BY <1>1, <1>7, <1>8, <1>9, <1>10, AttemptOnList

(* What a handler that a notification or the sweep called does to it.      *)
LEMMA OwnerOnList ==
  ASSUME Outward, Attempt, job.via # "poll"
  PROVE  \/ ListRests
         \/ \E p \in Paths : Retry!RemoveWaitForChange(p)
         \/ \E p \in Paths, mark \in Watermarks : Retry!WaitForChange(p, mark)
<1>1. Grounded /\ ListIsWalked
  BY DEF Outward, IInv
<1>2. /\ job.path \in Paths /\ toCheck' = toCheck
      /\ toCheck = Retry!Nothing /\ Calling = None
  BY <1>1, AttemptOnList, AttemptSteps DEF ListIsWalked, Calling, Busy
<1>3. UNCHANGED CurrentMarks
  BY <1>1, AttemptSteps DEF CurrentMarks, Stat, Exists
<1>4. Calling' = None
  BY <1>1, AttemptOnList, ReturnKeepsTypes DEF Calling, Busy
<1>5. CASE RemoveWaitForChange(job.path)
  <2>1. Retry!RemoveWaitForChange(job.path)
    BY <1>2, <1>3, <1>4, <1>5 DEF RemoveWaitForChange, Retry!RemoveWaitForChange,
       Retry!InTimerFired, Calling, CurrentMarks, Busy
  <2>2. QED
    BY <1>2, <2>1
<1>6. CASE \E mark \in Watermarks : WaitForChange(job.path, mark)
  <2>1. PICK mark \in Watermarks : WaitForChange(job.path, mark)
    BY <1>6
  <2>2. Retry!WaitForChange(job.path, mark)
    BY <1>2, <1>3, <1>4, <2>1 DEF WaitForChange, Retry!WaitForChange,
       Retry!InTimerFired, Calling, CurrentMarks, Busy
  <2>3. QED
    BY <1>2, <2>2
<1>7. CASE UNCHANGED <<m_deferred, trigger>>
  BY <1>2, <1>3, <1>4, <1>7 DEF ListRests
<1>8. QED
  BY <1>1, <1>5, <1>6, <1>7, AttemptOnList

(* A restart throws the list away with the process that held it.           *)
Restarted == Crash /\ (Retry!Init)'

LEMMA RestartOnList ==
  ASSUME Grounded, Crash
  PROVE  Restarted
<1>1. CurrentMarks' \in [Paths -> Watermarks]
  <2>1. FolderTypes'
    BY UserGrounded DEF Grounded, TypeOK
  <2>2. QED
    BY <2>1, ConstantFacts DEF CurrentMarks, FolderTypes, File, Stat, Watermarks
<1>2. QED
  BY <1>1 DEF Crash, Restarted, Retry!Init, Retry!Nothing, CurrentMarks, Busy

LEMMA StepOnList ==
  ASSUME Outward, [Next]_vars
  PROVE  Retry!Next \/ Restarted \/ ListRests
<1> USE DEF diskVars, dbVars, watchVars, deferVars, guiVars, sweepVars, ioVars
<1>1. Grounded /\ ListIsWalked
  BY DEF Outward, IInv
<1>2. UNCHANGED disk => UNCHANGED CurrentMarks
  BY DEF CurrentMarks, Stat, Exists
<1>3. CASE Folder \/ User \/ Hide
  BY <1>1, <1>3, FolderOnList DEF ListRests, Retry!Next
<1>4. CASE Start \/ SweepFails \/ SweepEnds \/ \E p \in Paths : SweepSkips(p)
  BY <1>2, <1>4 DEF Start, SweepFails, SweepEnds, SweepSkips, ListRests, Calling, Busy
<1>5. ASSUME NEW p \in Paths, SweepSamples(p)
      PROVE  Retry!Next
  <2>1. /\ toCheck = Retry!Nothing /\ toCheck' = toCheck /\ Calling = None
        /\ UNCHANGED CurrentMarks /\ Sample(p, "sweep")
    BY <1>1, <1>2, <1>5 DEF SweepSamples, ListIsWalked, Calling, Busy
  <2>2. Calling' = None
    BY <1>1, <2>1, SampleOnList, ReturnKeepsTypes DEF Calling, Busy
  <2>3. CASE RemoveWaitForChange(p)
    <3>1. Retry!RemoveWaitForChange(p)
      BY <2>1, <2>2, <2>3 DEF RemoveWaitForChange, Retry!RemoveWaitForChange,
         Retry!InTimerFired, Calling, CurrentMarks, Busy
    <3>2. QED
      BY <3>1 DEF Retry!Next
  <2>4. CASE \E mark \in Watermarks : WaitForChange(p, mark)
    <3>1. PICK mark \in Watermarks : WaitForChange(p, mark)
      BY <2>4
    <3>2. Retry!WaitForChange(p, mark)
      BY <2>1, <2>2, <3>1 DEF WaitForChange, Retry!WaitForChange,
         Retry!InTimerFired, Calling, CurrentMarks, Busy
    <3>3. QED
      BY <3>2 DEF Retry!Next
  <2>5. QED
    BY <1>1, <2>1, <2>3, <2>4, SampleOnList
<1>6. ASSUME NEW p \in Paths, Notify(p)
      PROVE  Retry!Next \/ ListRests
  <2>1. pc = "idle" /\ toCheck = Retry!Nothing /\ toCheck' = toCheck
        /\ UNCHANGED CurrentMarks /\ Calling = None /\ Calling' = None
    BY <1>2, <1>6 DEF Notify, NotifyUnchanged, NotifyChanged, NotifyRemoved, Notified,
       AtRest, NoJob, Calling, Busy
  <2>2. CASE NotifyUnchanged(p) \/ NotifyChanged(p)
    BY <2>1, <2>2 DEF NotifyUnchanged, NotifyChanged, ListRests
  <2>3. CASE NotifyRemoved(p)
    <3>1. Retry!RemoveWaitForChange(p)
      BY <2>1, <2>3 DEF NotifyRemoved, RemoveWaitForChange, Retry!RemoveWaitForChange,
         Retry!InTimerFired, Calling, CurrentMarks, Busy
    <3>2. QED
      BY <3>1 DEF Retry!Next
  <2>4. QED
    BY <1>6, <2>2, <2>3 DEF Notify
<1>7. CASE TimerFires
  <2>1. pc = "idle" /\ toCheck = Retry!Nothing /\ UNCHANGED CurrentMarks
    BY <1>2, <1>7 DEF TimerFires, AtRest
  <2>2. Retry!TimerFires
    BY <1>7, <2>1 DEF TimerFires, Retry!TimerFires, Retry!InTimerFired, CurrentMarks, Busy
  <2>3. QED
    BY <2>2 DEF Retry!Next
<1>8. ASSUME NEW p \in Paths, PollKeeps(p)
      PROVE  Retry!Next
  <2>1. UNCHANGED CurrentMarks /\ CurrentMarks[p] = Stat(p) /\ pc = "idle" /\ pc' = "idle"
    BY <1>2, <1>8 DEF PollKeeps, CurrentMarks
  <2>2. Retry!CheckUnchanged(p)
    BY <1>8, <2>1 DEF PollKeeps, PollReports, Retry!CheckUnchanged, CurrentMarks, Busy
  <2>3. QED
    BY <2>2 DEF Retry!Next
<1>9. ASSUME NEW p \in Paths, PollRetries(p)
      PROVE  Retry!Next
  <2>1. UNCHANGED CurrentMarks /\ CurrentMarks[p] = Stat(p) /\ pc = "idle"
        /\ pc' = "begin" /\ job'.via = "poll" /\ job'.path = p
    BY <1>2, <1>9 DEF PollRetries, NoJob, CurrentMarks
  <2>2. Retry!CheckReports(p)
    BY <1>9, <2>1 DEF PollRetries, PollReports, Retry!CheckReports, CurrentMarks, Busy
  <2>3. QED
    BY <2>2 DEF Retry!Next
<1>10. CASE Attempt
  BY <1>10, HandlerOnList, OwnerOnList DEF Retry!Next
<1>11. CASE Crash
  BY <1>1, <1>11, RestartOnList
<1>12. CASE UNCHANGED vars
  BY <1>2, <1>12 DEF vars, ListRests, Calling
<1>13. QED
  BY <1>3, <1>4, <1>5, <1>6, <1>7, <1>8, <1>9, <1>10, <1>11, <1>12 DEF Next, Startup, Poll

LEMMA InitOnList == Init => Retry!Init
BY ConstantFacts DEF Init, Retry!Init, Retry!Nothing, Stat, Exists, Absent, Busy, Watermarks

LEMMA RestIsStutter == ListRests => UNCHANGED Retry!vars
BY DEF ListRests, Retry!vars, CurrentMarks, Calling, Busy

(***************************************************************************)
(* Every call the store makes on its retry list, from the sweep, from a    *)
(* notification and from the handler that timerFired calls back, is one    *)
(* that Deferred allows where it is made; only the end of the process      *)
(* interrupts it, and leaves an empty list (replaystore.cpp:412-543,       *)
(* deferred.cpp:64-142).                                                   *)
(***************************************************************************)
THEOREM RetryListSteps ==
  Safety => Retry!Init /\ [][Retry!Next \/ Restarted]_(Retry!vars)
<1>1. Outward /\ [Next]_vars => [Retry!Next \/ Restarted]_(Retry!vars)
  BY StepOnList, RestIsStutter
<1>2. QED
  BY <1>1, InitOnList, OutwardHolds, PTL DEF Safety

(***************************************************************************)
(* While the process lives, ReplayStore implements Deferred.               *)
(***************************************************************************)
THEOREM StoreImplementsRetryList ==
  ASSUME "crash" \notin Faults
  PROVE  Safety => RetryListIsUsedProperly
<1>1. Outward /\ [Next]_vars => [Retry!Next]_(Retry!vars)
  <2>1. ~Restarted
    BY DEF Restarted, Crash, Fault
  <2>2. QED
    BY <2>1, StepOnList, RestIsStutter
<1>2. QED
  BY <1>1, InitOnList, OutwardHolds, PTL DEF Safety, RetryListIsUsedProperly, Retry!Safety

=============================================================================
