# A verification development for KW Legion

KW Legion gathers the replays that Command & Conquer 3: Kane's Wrath leaves in
its replay folder. It watches the folder, parses every file, keeps a copy of
every complete replay in a store of its own and a catalogue of them in SQLite,
and shows the catalogue in a Qt Quick user interface. This directory holds TLA+
models of the program, the TLC configurations that check them, and proofs for
the TLA+ proof system. `PROJECT.json` relates every definition to the lines it
models, and lists the runs, the mutants each property is tried against, the
findings, the hazards and the theorems.

## 1. Inventory

Two threads run the program (`kwlegion_ui/cpp/main.cpp:145-286`): the GUI
thread with the models the QML binds to, and the *io thread* that owns
`Persistence`, `ReplayProspector`, `ReplayStore` and `ReplayAnalyzer`. Objects
of the io thread call each other directly (their signals are direct
connections), signals between the threads are queued. Outside the program, the
game, the user and copy tools change the replay folder whenever they like.

| Component | State it keeps | Operations | Talks to |
|---|---|---|---|
| `Deferred` | `m_deferred`: path → watermark (size, mtime, sampling time); single-shot timer | `waitForChange`, `removeWaitForChange`, `timerFired`, `stop` | calls back into `ReplayStore` through `pathChanged` |
| `ReplayProspector` | `m_knownFiles`, the lists and the engine inside `QFileSystemWatcher` | `initialSweep`, `watchedDirectoryChanged`, `watchDirectoryTree`, `watchedFileChanged` | tells `ReplayStore` of changed and removed paths |
| `ReplayStore` | the catalogue (through `Persistence`), store copies `<checksum>.KWReplay`, `m_deferred`, `m_storageRetries`, `m_initialSweep` | start-up reconciliation, synopsis attempts, removal, expose/hide, titles, export, healing | everything; publishes to the GUI |
| `Persistence`, `Queries`, `SqlTransactionGuard` | the SQLite tables, one transaction at a time | statements, migrations | called by `ReplayStore` |
| `ReplayStoreModel`, `ReplayModel` | the GUI's copy of the catalogue, selection, analyses | snapshots and changes in, requests out | queued signals to and from the io thread |
| `IngestionModel` | the inbox rows | observed, removed, reset, acknowledged | queued signals |
| `ReplayAnalyzer`, `ApmAnalyzer` | none between requests | parse a stored replay, count actions | queued request and result |
| `AutoUpdater` | check policy, last check, request in flight, available release | timer, start and finish of a check, dismissal | network, settings |
| Filter and team models | query, accepted rows | parse, filter, sort | `ReplayStoreModel` |
| `legionparser` | none between calls | footer search, header, body, `looksComplete`, chunk analysers | called by the store and the analyser |
| `SingleInstanceGuard` | the name of a local server | probe or take it, activate or quit the first instance | other processes |
| `LogRotator` | ring buffer, log files | enqueue, write, rotate, stop | every thread that logs |

What is hard here, and what makes each part correct:

* **The folder moves under the io thread.** Every step of an attempt can see
  another file than the step before. Correct means: no complete replay is
  stranded, no row says of a file what it is not, nothing that is gone is shown.
* **Notifications are late, merged and not reliable.** Closing a file is not
  notified; a path can vanish while an attempt is queued. Correct means: the
  retry list and the notifications cover for each other.
* **Re-entrance.** `timerFired` emits into handlers that edit the list it is
  walking. Correct means: the timer runs exactly while something waits, and no
  wait is lost or restarted.
* **Failure.** A statement, the copy, the commit or reading back may throw; the
  process may end anywhere. Correct means: rows, links and copies agree
  whenever the process may end, and the next session repairs the rest.
* **Qt's two views of a watch.** `addPath` consults a list that is only updated
  when a notice is delivered. Correct means: every replay is watched, reported
  as it is, and a removal is announced once.
* **Interrupted healing.** A newer version migrates the schema, corrects wrong
  checksums and analyses again, over several starts if need be. Correct means:
  a start goes on from where the last one was cut off, nothing is lost on the
  way, and nothing wrong passes for checked. The code keeps this but for two
  places, which section 3 names: a start cut off in a migration that cannot be
  repeated, and a copy that is cut off in the place of a match.
* **Two threads.** The GUI acts on an older catalogue than the database's.
  Correct means: the list catches up, roles are announced whenever what they
  show changes, and the last title the user asked for is the one that stays.
* **Shutdown and second instances.** Threads are stopped in an order, other
  processes race for the name. Correct means: one process at a time has the
  database and the caches open, and what it remembers outlives it.
* **Half-written files, bytes without lengths.** Correct means: what is accepted
  is whole, what is only unfinished is tried again, one command's length does not
  lose the next, and a filter means what its grammar says.

## 2. Modules

| Module | Models | Checked by | Proved in |
|---|---|---|---|
| `Deferred` | `deferred.cpp`, the retry list alone | `MCDeferred` | `DeferredProofs` |
| `ReplayStore` | ingestion: `replaystore.cpp` with its retry list, the paths of the prospector and the rows of the database | `MCReplayStore` | `ReplayStoreProofs` |
| `CatalogHeal` | `queries.cpp` migrations, re-checksum and re-analysis of `replaystore.cpp`, titles | `MCCatalogHeal` | `CatalogHealProofs` |
| `Prospector` | `prospector.cpp` over Qt's watcher | `MCProspector` | `ProspectorProofs` |
| `Screen` | `replaystoremodel.cpp`, `replayanalyzer.cpp`'s bridge, the list page | `MCScreen` | `ScreenProofs` |
| `InstanceGuard` | `singleinstanceguard.cpp` over the life of `main` | `MCApplication` | `ApplicationProofs` |
| `AutoUpdate` | `autoupdate.cpp`: updater and checker over restarts | `MCApplication` | `ApplicationProofs` |
| `Application` | `main.cpp`: the guard and the updater composed | `MCApplication` | `ApplicationProofs` |
| `SynopsisParser` | `synopsisparser.cpp`, `reader.cpp`, `teedevice.cpp` on a growing file | `MCReplayFile` | `ReplayFileProofs` |
| `CommandFrames` | `chunkanalyzer.cpp`: the command table and the framing | `MCReplayFile` | `ReplayFileProofs` |
| `ReplayAnalysis` | `analysisparser.cpp`, `apmanalyzer.cpp` over both | `MCReplayFile` | `ReplayFileProofs` |
| `QueryFilter` | `replayfilterqueryparser.cpp`, `replayfilterquery.cpp`, `filterquery.cpp` | `MCQueryFilter` | |
| `LogQueue` | what the ring buffer promises: a bounded FIFO queue | `MCLogRotator`, as a property | `LogRotatorProofs` |
| `LogRotator` | `logrotator.h`, `logrotator.cpp`, and main's way out of `main.cpp` | `MCLogRotator` | `LogRotatorProofs` |

`ReplayStore` composes with `Deferred` in two ways: it uses its operators
(`Retry!Fresh`, `Retry!Aged`, …) and it *implements* it, under the mapping of
`Retry == INSTANCE Deferred WITH …`: the handler that is running for a path the
poll reported is `calling`, a file's watermark is `current`.
`Prospector` and `ReplayStore` meet at the signals: what `ReplayStore` calls
`dirty` and `Notify` is what `Prospector` delivers, at the level of one path;
`FolderIsFollowed` is what `ReplayStore` assumes of it. `ReplayStore` begins with
the catalogue `CatalogHeal` leaves; what it publishes is `catalogue` in `Screen`.
`Application` conjoins steps of `InstanceGuard` and `AutoUpdate`;
`ReplayAnalysis` extends `SynopsisParser` and `CommandFrames`, since a replay is
analysed from the store's copy of what the parser accepted.

### Deferred

A watermark is a value, time is counted in rounds of the timer, and an entry's
age is the number of rounds since it was sampled. `TimerFires` drains the list
(`std::exchange`), then each path is one step: `CheckUnchanged` puts it back as
it was, `CheckReports` enters the handler, which ends in `HandlerForgets` or
`HandlerRearms`, the two things the store's handler can do to the list.

### ReplayStore

A file is its content (`absent`, `empty`, `torn`, `corrupt` or the fingerprint
of a complete replay) and the number of the write that made it, which stands for
size and modification time. The io thread is a program counter and the locals of
the handler that runs:

| Step | Code |
|---|---|
| `Start`, `SweepFails`, `SweepSkips`, `SweepSamples`, `SweepEnds` | `init`, `receiveInitialReplayPaths` |
| `NotifyUnchanged`, `NotifyChanged`, `NotifyRemoved` | the prospector's signals, `removeReplayFile` |
| `TimerFires`, `PollKeeps`, `PollRetries` | `Deferred::timerFired` |
| `Begin` (`Sample`) | `synopsizeReplayFileInfo` up to the parse |
| `OpenFails`, `ParseTorn`, `ParseMisread`, `ParseCorrupt`, `ParseComplete` | `performReplaySynopsis` and the three failure handlers |
| `IngestKnown`, `IngestUnknown`, `IngestFails`, `Commit`, `CommitFails`, `ForwardFails` | `ingestReplay` and what it calls |
| `AcknowledgeItem`, `ExposeReplay`, `HideReplay`, `HideRemoves` | the slots the GUI calls |
| `Write`, `Remove`, `Lock`, `Unlock`, `Crash` | the world outside |

The folder may change between any two of them. A failed read reaches the store
as a torn file (`ParseMisread`), because the reader turns an I/O error into the
exception for missing data. The transaction is the pair of steps up to `Commit`:
the store copy is made before it and is not undone by a rollback. The GUI is
represented by what it was last told (`inbox`, `published`).

Faults are of eight kinds (`FaultKinds`); a configuration says which of them may
happen and how many in all. A fault of the sweep is that of the query before its
first path (`SweepFails`: the exception leaves the loop out altogether, and what
the sweep listed is looked at only when it changes or at the next start) or of its
last statements (`SweepEnds`). The history variable `missed` remembers the paths
of a sweep that never began: they are what `NoReplayIsStranded` excepts.

### Prospector

The watcher's engine (what it last saw of each armed path) and its front end
(the lists `addPath` consults) are separate state, joined by a FIFO queue of
notices. A directory iterator delivers what a folder held when it was opened;
the iterator of the sweep is opened before the watch is placed, that of
`watchDirectoryTree` after. The store's own look at a file (`Tells`) is a step
of its own, later than the watch: *watch first, then report*. What the store was
told last is `told`, and `again` collects files whose end it was told of without
having been told of the file.

Two kinds of awkward moment are parameters of the environment (`Hasty`), because
the code does not survive them and everything else should be shown to hold
without them: `"return"`, a path that comes back before Qt has let go of it, and
`"unwatched"`, a change in a folder that is being read but not yet watched.

### LogRotator

Every call of `enqueue` or `dequeue` is one step once it has the mutex: it ends
with its work done, or asleep on its condition variable, which gives the mutex
up; `wakeOne` picks any sleeper, who then tries again. The nullopt that `stop`
pushes is `Sentinel`. The log thread's loop (`Dequeue`, `Log`,
`RotateIfNecessary`, `Finish`) and main's end (`ExecReturns`, `IoThreadEnds`,
`Stop`, `Wait`, `Exit`) are a step for each thing others can see. A rotation may
fail to remove or rename any of the files and to open the new one (`Rotate`).

The ring implements `LogQueue` under the mapping that reads its slots from tail
to head. The message handler is never uninstalled, so threads may log behind the
sentinel, where nobody drains any more: `MaxLate` bounds such messages, and
`RotatorAssumption` says that together with those that other threads are about
to push they fit into the buffer (`BufferSize` is 10000 in the program,
`logrotator.h:34`). Without it a producer, main included, could wait for ever.

### CatalogHeal

A replay's content is named by its true checksum, and a row's checksum may be a
wrong one of an older version. Each migration is two steps, the statement and the
number (`Migrate`, `NumberMigration`), because they are two statements without a
transaction. The re-checksum visits each flagged row: `SkipUnreadable`,
`MarkChecked`, `DeleteDuplicate`, or `MigrateCopy`, `MigrateRows`,
`MigrateRemove`, `MigrateCommit`; the re-analysis is `BeginReanalysis` and
`Reanalyse`; a title set meanwhile waits in the queue (`AskTitle`) and is stored
by `SetOverrideTitle`. Any statement, copy or commit may
fail and the process may end before any step; both count against `MaxFaults`.
Copies found damaged or incomplete are `Corrupt`, files that are gone `None`. A
copy takes two steps (`MigrateCopy`, `CopyEnds`), and what is there between them is
incomplete; one that fails is taken away by `QFile::copy`, one during which the
process ends stays. `IngestCutOff` leaves such a copy from an ingestion, and `Init`
begins with any. The code takes whatever stands in a copy's place for the copy of an
earlier attempt and then removes the original: `HealingLosesNoReplay` excepts a
match in whose place an incomplete copy stands, and `MCHealLoss.cfg` shows the
loss. A start that was cut off between a migration that cannot be repeated and its
number is `Stuck`: that migration fails at every start from then on.
`QuietStartHealsAll` says that this is the only way for a start without faults not
to reach the last version, and that even a stuck one heals the rows if the
migrations have flagged them.

### Screen

The io thread's catalogue, the queued signals in both directions, the model and
the page. A row on the screen (`seen`) is what QML read when a role was last
announced, so that a forgotten `dataChanged` is visible. `ReplaysLoaded` resets
the model, `ReplaysChanged` merges rows into it; selection, analysis and bulk
operations are actions of the GUI, and the io thread answers in order; a command
may fail in the database (`EditFails`), which is logged and tells the GUI nothing.
The history variable `asked` has, for each replay, the title last asked for; it is
given up for when the replay leaves the catalogue or the database refuses. The
bridge answers an analysis also when the analyser throws, which holds of the
program's own exceptions: all of them are `std::runtime_error`, the only kind it
catches (`replayanalyzerbridge.cpp:33`). The export's folder dialog is open between
two of its steps (`OpenExport`, `AcceptExport`).

### InstanceGuard, AutoUpdate, Application

A process is at one place in `main` (`pc`): probing the name, removing a stale
one, listening, starting, running, closing. The two platforms of `QLocalServer`
differ in what a name is, hence the variable `platform`. `Overlap = FALSE` says
that no start overlaps another process's start or the end of its server, `Timely =
TRUE` that no probe times out (`PROBE_TIMEOUT_MS`) on a server that listens.

In `AutoUpdate` a moment is kept as its age, capped at `Slow`. The cache is a
`QSettings`: `Sync` writes it some time later, a crash before that loses it. The
history variables `since`, `answered` and `refused` remember over restarts what the
properties speak of. The service may name any of `Tags` as the latest at any time,
so releases are published and withdrawn; `IsReleaseNewer` compares tags as the code
does, one without a number being newer than any other, and `DebugBuild` is a
parameter, because a debug build offers older releases too. The cache has room for
one dismissed release: an earlier one that becomes the latest again is offered
again, and `OfferIsWelcome` speaks of the last one (`refused`). `RunLoop` of
`Application` is where the guard's process starts the updater, `ReturnFromMain`
where the updater is destroyed before the server is closed; `Upgrade` replaces the
program while none runs.

### SynopsisParser, CommandFrames, ReplayAnalysis

A file is a sequence of units, one per field, which the game writes one by one
(`Write`). The parser reads the header, a chunk at a time, and then all that is
left, which must be the footer; each of these steps may end in *torn* (the end of
the file, tried again) or *corrupt* (given up). `LooksComplete` is the store's quick
look at the tail. The text of the slots may end before the last player (`textEnds`):
the code accepts that, and those players share the default team number
(`synopsisparser.cpp:317-320`). Footers longer than the window of the quick look are
among the files, and so are footers that hold the number of the units before it: cut
off there they have the length they name and are given up as corrupt
(`EchoesFooter`), which the code cannot tell from a broken one. `CommandFrames` has
the whole command table and works on bytes; its recursion is by recursive functions.
`ReplayAnalysis` walks the accepted chunks again as `analysisparser.cpp` does and
counts with `ApmAnalyzer`'s windows; its `Encoding` gives every kind of command as
bytes, terminators inside included, so that the property knows the commands without
framing them. There is one for every kind of scanner, some that look like their
neighbour, one whose id the table does not have and one that the end of its chunk
cuts off. The count a subheader announces is one of two bytes here, which is enough
to be above the limit of 10000.

### QueryFilter

The typed text is a sequence of symbols; between two readings of it it grows by a
piece, which is one symbol or several (`Type`: the page waits until nobody types),
or it is cleared (`Clear`); the parser is translated operator by operator
(`NextWord`, `NextDate`, `NextTime`, ...). The reference it is checked against is a
grammar without a parser: which ways there are of cutting a text into clauses, and
what each clause accepts.

## 3. Runs

Every passing property is also tried against a plausible bug in the definition
it is about (`mutants` in `PROJECT.json`).

| Run | Bounds | What it shows |
|---|---|---|
| `retry_list` | 2 paths, 2 watermarks, long stop of 2 rounds | the timer runs exactly while something waits; a wait that nobody renews is answered |
| `store_faults` | 1 path, 2 replays, 3 writes, 2 faults of all 8 kinds | the catalogue is backed, the fast path is sound, nothing is stranded but by a sweep that never began, promises are kept |
| `store_pair` | 2 paths, 2 replays, 2 writes each, 1 fault | no ghosts, the GUI is current, the shared poll runs |
| `store_implements_retry_list` | 2 paths on one poll, 1 write each, 1 fault | every replay that stays is ingested; the store implements `Deferred` |
| `prospector_folders` | 1 file in a folder that comes and goes, 3 writes, 3 moves | no watch is lost or left behind, the end of a file is announced once, no handler gets stuck |
| `log_rotator` | 3 threads with 2 messages each, 1 of them late, a ring of 3, 1 rotated file, the size (limit 1) looked at every 2 messages | the ring implements a queue and loses no wake-up; stopping ends and loses nothing; the files stay small and hold the newest messages in order |
| `catalog_heal` | 2 wrong checksums of one replay and its true one, 1 path, 1 title, 2 faults, any of three older versions | no migration is skipped, nothing unchecked passes for checked, no link without a row, no title lost, no match lost but one with an incomplete copy in its place; a start without a fault heals everything that can be, unless it is stuck |
| `screen` | 2 replays, queues of 2, 2 events | the screen shows the model and the right count of what is selected, the last title asked for is the one the list ends with, every analysis asked for is answered |
| `application` | 2 processes, either platform, intervals of 1 and 2 ticks, a snapshot, its release and a tag without a number | one primary; an offer is newer and not the one dismissed last; requests keep their distance over restarts; checks go on |
| `replay_file` | several hundred files: a flaw in each field, chunk and footer in turn, every pair of kinds of commands; each read at every length | what is accepted is whole, a sound whole file is accepted, an attempt that overtakes the game is torn, each command is counted in its window |
| `filter` | texts of up to 7 symbols, typed as 17 pieces: the punctuation, three words, all nine fields, a date of two words, a time | the rows shown are those the grammar says, and half a clause changes nothing |

The violation run `finding_orphan_copy` is described below.

Why the bounds are enough: two paths are what it takes for one to be drained from
the poll while the other is back on it, and for two paths to link one replay; two
replays are what it takes for a path to change its match; three writes give an
incomplete file, a replay and another one; `MAX_FAST_STORAGE_RETRIES` is 1 instead
of 12 so that both sides of the limit are reached; a long stop of two rounds tells a
restarted clock from one that runs. Two faults allow a fault during the recovery
from another. A ring of 3 wraps around, is full with two messages and leaves a third
thread to wait. Two wrong checksums of one replay make it a duplicate before and
after it is corrected; two faults let a repair be cut off that repairs an earlier
cut. Two replays on the screen are one inside and one outside a filter or a
selection. Intervals of 1 and 2 ticks tell the slow interval from the fast one and
leave a moment between them. Seven symbols hold a field, its colon and a quoted
value of any kind, or an unquoted date of two words and a term behind it. The proofs
below lift much of this.

`CHECK_DEADLOCK FALSE` is said where the system may really stop: when the writes
of a bound are used up and the folder is in order, nothing is left to do until
somebody acts; a file that is written and analysed is done with; and the process
of `LogRotator` ends.

### Fairness

* `Deferred`: weak fairness of the timer, the walk and the handler: a running
  event loop fires an armed timer, and handlers return.
* `ReplayStore`: weak fairness of the handlers' steps (the io thread runs them
  to their end); strong fairness of the timer and of each path's notification,
  since the event loop serves both kinds in turn and each is disabled while the
  other's handler runs; whoever locked a file closes it (weak).
* `Prospector`: weak fairness of the engine's thread and of the io thread.
* `LogRotator`: weak fairness of each thread's call, of the log thread and of
  main once it leaves. Nobody has to log, and the application may stay up.

* `CatalogHeal`: weak fairness of the io thread's next step, and of a process
  that was asked to end: the loops run without waiting for anybody.
* `Screen`: weak fairness of each thread's event loop, which delivers queued
  signals in order.
* `Application`: time passes, the timer fires, and each request ends (weak). For
  the last the code relies on Qt and the system's network to give up on a silent
  peer: it sets no timeout of its own (`autoupdate.cpp:239`).

No fairness is assumed of writers, users, faults or crashes.

### What does not hold

`finding_orphan_copy` is a run TLC must refute, with the line of the repository
that says otherwise (`findings` in `PROJECT.json`): the process ends between copy
and commit, and the copy left behind makes every later copy of that replay fail.

Further disagreements have a configuration but no run. Each is refuted by
`tlc -config <cfg> <module>` with a short trace:

| Configuration | Module | Property | What happens, and what says otherwise |
|---|---|---|---|
| `MCStoreRace.cfg` | `MCReplayStore` | `StoreHoldsCompleteReplays` | the copy is made by name after the parse (`replaystore.cpp:768`) and may be torn |
| `MCStoreHide.cfg` | `MCReplayStore` | `HidingLosesNoReplay` | hiding deletes by remembered path (`replaystore.cpp:637`), possibly a match nobody has gathered yet |
| `MCProspectorReturn.cfg` | `MCProspector` | `RecreatedFilesAreWatched` | of two queued notices the first re-adds the watch in vain and the second strikes the path from Qt's list |
| `MCHealFixed.cfg` | `MCCatalogHeal` | `WrongChecksumsAreFixed` | the original copy is removed before the commit (`replaystore.cpp:406`); if that fails, the row keeps its wrong checksum for good, whereas `CHANGELOG.md:19` has wrong checksums corrected |
| `MCHealLoss.cfg` | `MCCatalogHeal` | `EveryMatchStays` | an incomplete target of the copy is kept (`replaystore.cpp:389-395`) and the original, the last complete copy, removed (406); the comment at 386-387 has the existing file removed |
| `MCHealStuck.cfg` | `MCCatalogHeal` | `NextIsNotExecuted` | the process ends between a migration and its number (`queries.cpp:219-229`): the next start executes the migration again, and where it adds a table or a column that fails at every start from then on; the comment at 215-216 has the number be that of the next to execute |
| `MCScreenExport.cfg` | `MCScreen` | `ExportsAreVisible` | the selection is restricted before the folder dialog and read after it (`replaystoremodel.cpp:360`); a replay filtered out in between is exported, against `ReplaysPage.qml:57-60` |
| `MCGuardOverlap.cfg` | `InstanceGuard` | `OnePrimary` | two starts, or a start and an end, overlap (`singleinstanceguard.cpp:46`); `singleinstanceguard.h:10` promises one instance at a time |
| `MCGuardLate.cfg` | `InstanceGuard` | `OnePrimary` | the probe times out although a server listens (`singleinstanceguard.cpp:30-32`), and its name is taken over; against the same line |
| `MCReplayQuickLook.cfg` | `MCReplayFile` | `QuickLookAgrees` | a footer longer than the window is accepted by the parser and not found by the quick look (`synopsisparser.cpp:90`, 505, 605), against `legionparser_tests.cpp:68-72` |
| `MCReplaySlots.cfg` | `MCReplayFile` | `EmptySlotsAreSkipped` | an empty slot in a player's place has the file given up as corrupt (`synopsisparser.cpp:357-362`); the comment at 302-303 has it skipped |

`MCReplayStoreLive.cfg` (one path, liveness under two faults) and
`MCProspectorFiles.cfg` (two files in the folder itself) pass; they ask what the
runs ask, on another instance.

Noticed on the way, without a run of their own:

* An attempt that opens the file but finds it torn does not end the row of
  failed opens (`replaystore.cpp:453`, where only a completed attempt or a
  removal takes the counter away), while the comment at lines 45-46 speaks of
  consecutive failures.
* An unfinished file is attempted after every long stop, for ever
  (`deferred.cpp:89`), where `docs/ARCHITECTURE.md:58` says it is given up.
* The sweep opens a folder (`prospector.cpp:98`) before it watches it (102, 112),
  where `docs/ARCHITECTURE.md:33-34` has it the other way: with
  `Hasty = {"unwatched"}` in `MCProspectorFiles.cfg` TLC refutes
  `FolderIsFollowed`.
* `watchedFileChanged` (`prospector.cpp:239`) tracks a file without caching its
  canonical path, against lines 188-189.
* A title asked for while healing moves its replay's rows is stored under the
  checksum the replay had (`replaystore.cpp:169`) and is not shown again.
* `exportSelectedReplaysTo` and the bulk operations read one selection;
  only the latter restrict it in the same step.
* A storage exception while a link is removed is logged and swallowed
  (`replaystore.cpp:549`): the row stays until the path's next event.
* `docs/ARCHITECTURE.md:60-62` says a notification does not clear a retry, which
  `replaystore.cpp:428-429` does; and the removal slot it names,
  `removeReplayFileLink`, is connected as `removeReplayFile` (`main.cpp:183-184`).

## 4. Proofs

All theorems are of the safety part of the specifications, for any values of
the constants that satisfy the assumptions named in the modules. Those say that
marks like `None` are not values of anything, that bounds are numbers, and:

* `RotatorAssumption`: what is logged behind the sentinel fits into the buffer
  (see `LogRotator` above).
* `ScreenAssumption`: a catalogue has finitely many replays, so that a selection
  can be counted, and a queue of the event loop holds at least one message.
* `HealAssumption`: there is something to call a replay (`Titles`), and contents
  are among the names a checksum may have.

* `MatchAssumption`: a match is a record of the parts of one; no chunk has the time
  code that marks the end; a lobby's teams are numbered below `MaxPlayers`
  (`synopsisparser.cpp:47-54`); no footer is a whole footer with something
  behind it, which of a sound one follows from its own count; only the last player,
  the commentator, may be without a name (`replayanalyzer.cpp:37-41`); and only the
  last command of a chunk can be one that is cut off.
* `AnalysisAssumption`: a window has at least one tick.

Where a theorem excludes some kinds of fault, its `ASSUME` says so. No bound on
paths, replays, writes, faults or retries is needed anywhere.

* **DeferredProofs.** `DeferredTypes`, and `PollsWhilePending`: the timer is
  armed iff an entry is waiting, unless stopped. The invariant is inductive with
  the types.
* **ReplayStoreProofs.** One inductive invariant in layers, because each named
  property leans on the ones before. *Grounded*: types; an attempt's locals are set
  when they are read; a file that exists was written. *Backed*: the catalogue is
  backed by copies, and so is a commit under way. *Stamped*: no recorded watermark
  is of a write to come (`MarksArePast`), and while a parse is under way its
  watermark belongs to the bytes it read or the file has moved on
  (`ParseIsCurrent`); from this follows that the fast path is sound, which is not
  inductive alone, since the row is written from locals sampled long before.
  *Accounted*: every file, but those of a sweep that never began, is recognised for
  what it is or *owed* a look by somebody: a notification, the retry list, the walk
  of the poll, the attempt that runs, the sweep. At rest only the retry list is
  left, which is `NoReplayIsStranded`. Theorems: `StoreTypes`, `CatalogueBacked`,
  `FastPathSound`, `NothingStranded`, `PromisesKept`, `PollRuns`. The second half of
  the module is what the store promises to the parts around it; the invariant above
  is extended by four parts. *ChangesAreNoticed*: what the prospector remembers of a
  path is what is there, or a notification is to come. *TracesAreKnown*: only a path
  the prospector remembers has an entry, an inbox item, an attempt or a row, unless
  the initial sweep has not removed the row yet or a fault kept it. Both are needed
  for `NoGhosts`, because a file can vanish during an attempt that leaves new traces
  of it: the attempt is of a remembered path, so a removal is still to be notified.
  `NoGhosts` supposes that removing a row does not fail (the code swallows that, see
  5); `GoneIsNotRetried` says what holds even then. `PublishedCurrent` rests on
  `NewsAreEnough`: a step that changes the row of one path changes how the replays
  recorded there before and after are shown, and no others, and those it announces.
  *ListIsWalked*: what `timerFired` still has to walk is apart from the live list,
  and empty while a handler runs that it did not call. With it every step of the
  store is mapped to a step of `Deferred`, or to none (`StepOnList`):
  `RetryListSteps` for any run, with a restart as the one step `Deferred` does not
  have, and `StoreImplementsRetryList` while the process lives.
* **CatalogHealProofs.** None of the six properties is inductive; the invariant
  has eight parts. *StepsInOrder* relates the loop to the rows it runs over and
  to the migrations done; *StoreIsTrue*: a copy under a true name holds that
  content, complete, or is damaged. *TransactionPorts*: the open transaction is the
  database, or the database with one row, and everything that refers to it, under
  its true checksum; this is what a commit makes true. *WrongRowsCanMove* is the
  reason why a moved row never meets a taken key (`MovedRowsNeverConflict`): a
  title or an analysis under a true checksum has its row, or the migrations have
  emptied the table. *QuietProgress* says how far the migrations and the loops of a
  start without faults have come, and that one which does not reach the last version
  is stuck; at its end it is `QuietStartsHeal`. Theorems: `HealTypes`,
  `MigrationsAreNotSkipped`, `KnownPathsHaveRows`, `WrongRowsStayFlagged`,
  `QuietStartsHeal`, `MovedRowsNeverConflict`, and of steps `StoreLosesNoReplay`
  and `TitlesAreKept`.
* **ScreenProofs.** `ViewIsCurrent` speaks of an empty queue and is not
  inductive. The invariant says it of any queue (`ListCatchesUp`): the last
  queued message about a replay says what the catalogue says, and with none the
  list does; a reset counts as a message about every replay. `SeenIsNow`, that QML
  shows each row as it is, needs every handler to name the roles it touches.
  `TitlesAsAsked` speaks of empty queues too, and its invariant is of the same kind
  (`ListWillBeAsAsked`): the last queued command about a replay's title is the one
  last asked for, and with none the catalogue has it; with `ListCatchesUp` the list
  then gets it. Theorems: `ScreenTypes`, `ViewFollowsCatalogue`,
  `CountFollowsSelection`, which says nothing while no replay is selected
  (`replaysLoaded` clears the selection without announcing it,
  `replaystoremodel.cpp:124`), and `TitlesBecomeAsAsked`.
* **ProspectorProofs.** `ProspectorTypes`, and `AnnouncedOnce`: the end of a file
  is announced only if the store was told of it, and at rest what is tracked is what
  was last announced, with the reports under way accounted for (`Announced`), for
  any haste of the environment. `FolderFollowed` and
  `NothingUnwatched` assume `Hasty = {}`: what happens otherwise is in section 3.
  Their invariant (`Followed`) says of everything that is not in step what is
  still to come for it. A folder that is there is watched, or a look at the
  folder it is in is due (`FoldersAreWatched`); a replay nobody watches is
  listed, or its folder will be (`NewFilesAreFound`); a watched one was told of
  as it is, or a change to it is still to be seen, noticed or told of
  (`WatchedFilesAreTold`). Qt's two views differ only while the notice of a
  removal is on its way (`FilesAgree`, `FoldersAgree`). The hard part is a file
  that went between its listing and its watch: it is known and never noticed, and
  only a rescan can find it gone, which works because such an entry has its
  canonical path cached (`ListingsAreSafe`, `LostFilesAreFound`). In a quiet state
  nothing is to come, so everything is in step (`QuietFolders`, `QuietFile`).
* **LogRotatorProofs.** `RingIsAQueue`: every step of the ring is a step of
  `LogQueue` or a stutter, from the arithmetic of the slots and from the types
  with `HeldAreItems`, that a slot between tail and head is never empty.
  `NobodyForgotten` is inductive with the types (`Woken`): a drain adds a free
  slot and a pusher, a push takes away both. `DiskBounded` strengthens the bound
  by the polls gone by (`GrowthIsCounted`). `StoppingIsSafe` follows a message
  from the call through the ring into `taken` (`Flow`), and the sentinel, which
  is pushed when main and the io thread have nothing under way, behind it.
  `NewestAreKept` says it of the files: their invariant (`Filed`) is that what was
  written is one sequence, that the files are in its order however many removals and
  renames of a rotation fail, and that while none fails there are cuts in the
  sequence with each file between two of them, the last message in the newest file,
  and the first in the oldest unless every rotated file is over its limit.
* **ReplayFileProofs.** First what the format says where: the place of every field
  of every chunk and of the footer in a file of any length (`FileLayout`), and what
  can be told from the front of a footer (`FooterOfItsOwnLength`, `AcceptedFooter`,
  `SoundFooter`): the magic is nowhere but at its front, so that what claims to be a
  footer before it is all there can only claim it by a count in the data that is the
  length so far (`EchoesFooter`). The invariant (`Parsed`) is where the parser is:
  behind a number of chunks, all sound and on disk, of a header without fault, with
  the time of the last chunk. The end marker is then met only behind the last chunk,
  and what is left is the front of the footer. Theorems: `ParserIsRight`,
  `SynopsesAreWhole`, and of each step of an attempt at a sound file
  `GrowingFilesAreTorn`: header, chunks and footer each go on as long as their units
  are there (`HeaderOfASoundFile`, `ChunkOfASoundFile`, `BodyOfASoundFile`,
  `EndOfASoundFile`), so that nothing fails once the file is whole but the quick
  look, and that if and only if the footer is longer than its window
  (`QuickLookFindsTheFooter`, `QuickLookMissesALongFooter`). Then the framing, in
  three steps. A recursive function over the positions of a buffer has the values
  its definition says, because each looks only at positions above its own
  (`DownwardRecursion`); so the scanners stay inside the buffer (`ScanIsWithin`),
  and the framing is what its loop makes it (`FramesAreFound`). Every command of
  `Encoding` is framed to its last byte whatever comes behind it, and one that
  cannot be read is not. By induction from the end of a chunk to its front this is
  `FramesAreCommands`: in a chunk of any length, with the commands in any order,
  what is framed are the commands themselves up to the first that cannot be read.
  Last the counting: `Analysis` says that between two chunks the `ApmAnalyzer`
  holds, for each player, how many actions the chunks so far had (`leading`), how
  many of them were in windows before the one that is open (`trailing`), and a point
  for each window that is closed. A chunk that opens a later window closes the one
  before with the difference, and all windows between with zero
  (`AdvanceClosesWindows`), and then adds its commands (`IngestTallies`); one whose
  time is behind the open window counts into the open one. Theorem:
  `EveryActionIsCounted`.
* **ApplicationProofs.** `OneProcessAtATime`: with `Overlap = FALSE` and `Timely =
  TRUE`, at most one process is unsettled, and once it has found nobody to answer,
  or has given the name up, nobody listens (`Settled`); with this `OnePrimary` is
  inductive, for any number of processes and on both platforms. `OffersAreWelcome`:
  a release that is refused is the dismissed one in memory and on disk, and is not
  on offer (`Welcome`). `RequestsKeepTheirDistance`: a remembered request is no
  younger than the attempt that is noted, and no older than its answer (`Noted`), so
  that the noted ages may stand for the real ones; ageing keeps their order
  (`OlderIsMonotone`). Both are proved of the updater's own steps and hold of the
  application because each of its steps is one of those (`ApplicationUpdates`).

Model-checked only, and why:

* all liveness properties (`EveryWaitIsAnswered`, `EveryReplayIsIngested`,
  `FolderIsCaughtUp`, `PendingIsAnswered`, ...): fairness and `ENABLED` are out of
  the prover's reach;
* `FilterMeansWhatItSays`: `Parse` cuts the typed text greedily from its front,
  `Meaning` tries every cut, and that there is at most one which counts is an
  argument over all texts, quotes and values. It is checked for every text up to
  seven symbols, which hold any single clause, and most with another term behind it,
  and not proved.
* the refutations of the runs that expect a violation.

## 5. Limits and what is not modelled

* A failing unlink or end of sweep is swallowed by the code and may leave a row
  of a file that is gone until its next event; a failing read-back leaves the
  GUI behind. `NoGhostRemains` and `PublishedIsCurrent` are therefore checked
  without the faults `"unlink"`, `"sweep"` and `"forward"`; the other
  invariants with them.
* A `BEGIN` that fails leaves the transaction object in place and the statements
  behind it in autocommit (`transaction.cpp:12-13`); the model's transactions begin.
* The log file's own failed writes, and a crash of the process with messages in the
  ring, are not in `LogRotator`; nor is a second instance that rotates the first
  one's files.
* `EveryReplayIsIngested` supposes commits that succeed: one that fails leaves the
  store copy behind as an end of the process does (`finding_orphan_copy`).
* Two writes of one path are taken to differ in time or size, as the code does.
* Folders below the replay folder are one level deep.
* A replay folder that does not exist at start-up leaves the prospector without
  any watch for the session (`prospector.cpp:86-90`); the model begins with one.
* A second instance starts the log thread and returns from `main` with it
  running (`main.cpp:91-110`); `LogRotator` is the first instance.
* Of the database only what five tables say of a checksum is modelled; the text
  of the statements, and a database that cannot be opened at all, are left out.
* `IngestionModel::inboxReset`, sorting, the team grouping, formatting of names,
  durations and dates, and the locale's own reading of dates are left out.
* The player's attributes in the game info other than the slot, the team and the
  kind, and the factions, are left out of `SynopsisParser`. `CommandFrames`
  does not say what happens on bytes that end before a subheader.
* `BroadcastChunkAnalyzer` and `BookkeepingChunkAnalyzer` are only used by the
  `chunkdump` tool.
* QML layout, settings, autostart, start-up trace, packaging and the test
  harness have no state of their own that several steps could get wrong.

## 6. Plan

The modules are written and every safety invariant the runs check is proved; of the
action properties all but `FilterMeansWhatItSays` are. What is left is an abstract
catalogue that `ReplayStore` and `Screen` together implement, and with it that the
rows `Prospector` reports reach the list on the screen.

## 7. Running it

`tlc -config <run's cfg> <run's module>` for each run in `PROJECT.json`;
`tlapm <module>` for the modules whose name ends in `Proofs`. Every run ends
within a few minutes on two cores.
