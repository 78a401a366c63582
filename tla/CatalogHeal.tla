---------------------------- MODULE CatalogHeal ----------------------------
(***************************************************************************)
(* What a start-up does to a catalogue an older version left behind: the   *)
(* schema migrations (Queries::migrate), the re-checksum and the           *)
(* re-analysis of ReplayStore::receiveInitialReplayPaths, each interrupted *)
(* at any step by the end of the process or by a statement that fails.     *)
(*                                                                         *)
(* A replay's content is named by its true checksum; the file of a row is  *)
(* stored under the row's checksum, which an older version got wrong.      *)
(* SQL is reduced to what the five tables say of a checksum. A statement   *)
(* inside a transaction works on `tx', the rest of the code on `db'.       *)
(***************************************************************************)
EXTENDS Integers, Sequences, FiniteSets, Functions

CONSTANTS Names,       \* checksums, wrong ones included
          Contents,    \* \subseteq Names: the true checksums
          Paths,       \* paths in the replay folder
          Titles,      \* titles a user may give
          MaxFaults    \* statements and commits that fail, processes that end

CONSTANTS None, Corrupt

ASSUME HealAssumption == /\ Contents \subseteq Names
                         /\ None \notin Names /\ Corrupt \notin Names /\ None # Corrupt
                         /\ Titles # {} /\ MaxFaults \in Nat

VARIABLES phase,   \* what the io thread is doing
          disk,    \* [Names -> content of <checksum>.KWReplay in the store]
          db,      \* the committed database
          tx,      \* the open transaction, or None
          schema,  \* migrations executed, whatever user_version says
          todo,    \* checksums the current loop has still to visit
          cur,     \* the replay being migrated, or None
          shown,   \* checksums of the last snapshot the GUI received
          asked,   \* the GUI's queued setOverrideTitle, or None
          faults,  \* faults so far, bounded by MaxFaults
          quiet    \* no fault since the process started

vars == <<phase, disk, db, tx, schema, todo, cur, shown, asked, faults, quiet>>

\* Every migration in order: the statement, and the table it is about.
Migrations ==
    << <<"create", "replays">>, <<"create", "paths">>, <<"create", "players">>,
       <<"index", "players">>, <<"create", "broken">>, <<"add", "broken">>,
       <<"add", "title">>, <<"drop", "broken">>, <<"create", "titles">>,
       <<"insert", "titles">>, <<"remove", "title">>, <<"create", "analysis">>,
       <<"index", "paths">>, <<"delete", "analysis">>, <<"add", "ticks">>,
       <<"unindex", "players">>, <<"drop", "players">>, <<"create", "players">>,
       <<"add", "rechecksum">>, <<"update", "rechecksum">>, <<"delete", "paths">>,
       <<"add", "mtime">>, <<"add", "size">> >>

Last == Len(Migrations)
PlayersAt == 18        \* players have their index column
FlagAt == 19           \* replays have the rechecksum column

\* DDL cannot be executed twice; a DELETE, an UPDATE and an INSERT that finds nothing can.
Repeatable(n) == Migrations[n][1] \in {"delete", "update", "insert"}

Empty == [version |-> 0, rows |-> <<>>, analysis |-> {}, players |-> {},
          titles |-> <<>>, paths |-> <<>>]

\* What a migration does to rows that are already there.
Migrated(d, n) ==
    CASE Migrations[n] = <<"delete", "analysis">>   -> [d EXCEPT !.analysis = {}]
      [] Migrations[n] = <<"drop", "players">>      -> [d EXCEPT !.players = {}]
      [] Migrations[n] = <<"update", "rechecksum">> -> [d EXCEPT !.rows = [c \in DOMAIN @ |-> 1]]
      [] Migrations[n] = <<"delete", "paths">>      -> [d EXCEPT !.paths = <<>>]
      [] OTHER -> d

Rows(d) == DOMAIN d.rows
NeedRechecksum(d) == {c \in Rows(d) : d.rows[c] = 1}
NeedAnalysis(d) == {c \in Rows(d) : c \notin d.analysis \/ c \notin d.players}
Readable(c) == disk[c] \in Contents

Without(f, c) == Restrict(f, DOMAIN f \ {c})
With(f, c, v) == [x \in DOMAIN f \cup {c} |-> IF x = c THEN v ELSE f[x]]
Rekeyed(f, c, n) == IF c \in DOMAIN f THEN With(Without(f, c), n, f[c]) ELSE f
Renamed(S, c, n) == IF c \in S THEN (S \ {c}) \cup {n} ELSE S

(* What an older version leaves: a checksum may be wrong, a copy lost or damaged, and a copy of *)
(* which there is no row complete or cut off (ingestReplay copies before it commits).           *)
Init ==
    /\ phase = "off" /\ tx = None /\ todo = {} /\ cur = None
    /\ shown = {} /\ asked = None /\ faults = 0 /\ quiet = TRUE
    /\ \E wrong \in [Names -> Contents \cup {Corrupt, None}], kept \in SUBSET Names :
          /\ \A c \in Contents : wrong[c] \in {c, None, Corrupt}
          /\ \A c \in Names \ (kept \cup Contents) : wrong[c] = None
          /\ disk = wrong
          /\ \E v \in {0, 13, 18}, named \in SUBSET kept, linked \in SUBSET kept :
                /\ schema = v
                /\ v = 0 => kept = {}
                /\ db = [Empty EXCEPT !.version = v,
                            !.rows = [c \in kept |-> 0],
                            !.analysis = kept, !.players = kept,
                            !.titles = [c \in named |-> CHOOSE t \in Titles : TRUE],
                            !.paths = IF linked = {} THEN <<>>
                                      ELSE [p \in Paths |-> CHOOSE c \in linked : TRUE]]

Idle == phase = "idle" /\ tx = None

----------------------------------------------------------------------------
(* Plausible errors, which the properties must exclude *)

NumberedFirst ==
    /\ phase = "migrate" /\ db.version < Last
    /\ db' = [db EXCEPT !.version = @ + 1] /\ phase' = "number"
    /\ UNCHANGED <<disk, tx, schema, todo, cur, shown, asked, faults, quiet>>

MarkedWithoutComparing(c) ==
    /\ phase = "rechecksum" /\ cur = None /\ c \in todo /\ Readable(c)
    /\ db' = [db EXCEPT !.rows[c] = 0] /\ todo' = todo \ {c}
    /\ UNCHANGED <<phase, disk, tx, schema, cur, shown, asked, faults, quiet>>

DuplicateKeepsLinks(c) ==
    /\ phase = "rechecksum" /\ cur = None /\ c \in todo
    /\ Readable(c) /\ disk[c] # c /\ disk[c] \in Rows(db)
    /\ db' = [db EXCEPT !.rows = Without(@, c), !.analysis = @ \ {c}, !.players = @ \ {c},
                        !.titles = Without(@, c)]
    /\ todo' = todo \ {c}
    /\ UNCHANGED <<phase, disk, tx, schema, cur, shown, asked, faults, quiet>>

CopyMustBeFresh(c) ==
    /\ phase = "rechecksum" /\ cur = None /\ c \in todo
    /\ Readable(c) /\ disk[c] # c /\ disk[c] \notin Rows(db)
    /\ IF disk[disk[c]] = None
       THEN /\ cur' = c /\ tx' = db /\ disk' = [disk EXCEPT ![disk[c]] = Corrupt]
            /\ phase' = "copy" /\ UNCHANGED todo
       ELSE todo' = todo \ {c} /\ UNCHANGED <<phase, cur, tx, disk>>
    /\ UNCHANGED <<db, schema, shown, asked, faults, quiet>>

CopyMayFail(c) ==
    /\ phase = "rechecksum" /\ cur = None /\ c \in todo
    /\ Readable(c) /\ disk[c] # c /\ disk[c] \notin Rows(db)
    /\ cur' = c /\ tx' = db
    /\ UNCHANGED <<phase, disk, db, schema, todo, shown, asked, faults, quiet>>

RowsLeaveTitles ==
    /\ phase = "rechecksum" /\ cur # None /\ cur \in Rows(tx)
    /\ LET n == disk[cur] IN
          tx' = [tx EXCEPT !.rows = Rekeyed(@, cur, n), !.analysis = Renamed(@, cur, n),
                           !.players = Renamed(@, cur, n),
                           !.paths = [p \in DOMAIN @ |-> IF @[p] = cur THEN n ELSE @[p]]]
    /\ UNCHANGED <<phase, disk, db, schema, todo, cur, shown, asked, faults, quiet>>

----------------------------------------------------------------------------
(* Persistence::init: migrations outside any transaction, a statement and then its user_version. *)

Start ==
    /\ phase = "off"
    /\ phase' = "migrate" /\ quiet' = TRUE
    /\ UNCHANGED <<disk, db, tx, schema, todo, cur, shown, asked, faults>>

Migrate ==
    /\ phase = "migrate" /\ db.version < Last
    /\ LET n == db.version + 1 IN
          IF schema < n \/ Repeatable(n)
          THEN /\ db' = Migrated(db, n) /\ schema' = n /\ phase' = "number"
          ELSE /\ phase' = "load" /\ UNCHANGED <<db, schema>>
    /\ UNCHANGED <<disk, tx, todo, cur, shown, asked, faults, quiet>>

NumberMigration ==
    /\ phase = "number"
    /\ db' = [db EXCEPT !.version = @ + 1] /\ phase' = "migrate"
    /\ UNCHANGED <<disk, tx, schema, todo, cur, shown, asked, faults, quiet>>

\* ReplayStore::init publishes the catalogue before anything in it is healed.
Load ==
    /\ \/ phase = "migrate" /\ db.version = Last
       \/ phase = "load"
    /\ phase' = "ready" /\ shown' = Rows(db)
    /\ UNCHANGED <<disk, db, tx, schema, todo, cur, asked, faults, quiet>>

----------------------------------------------------------------------------
(* performReplayRechecksum *)

BeginRechecksum ==
    /\ phase = "ready" /\ phase' = "rechecksum"
    /\ todo' = IF schema < FlagAt THEN {} ELSE NeedRechecksum(db)
    /\ UNCHANGED <<disk, db, tx, schema, cur, shown, asked, faults, quiet>>

SkipUnreadable(c) ==
    /\ phase = "rechecksum" /\ cur = None /\ c \in todo /\ ~Readable(c)
    /\ todo' = todo \ {c}
    /\ UNCHANGED <<phase, disk, db, tx, schema, cur, shown, asked, faults, quiet>>

MarkChecked(c) ==
    /\ phase = "rechecksum" /\ cur = None /\ c \in todo /\ disk[c] = c
    /\ db' = [db EXCEPT !.rows[c] = 0] /\ todo' = todo \ {c}
    /\ UNCHANGED <<phase, disk, tx, schema, cur, shown, asked, faults, quiet>>

\* The replay is in the catalogue under its true checksum too: its wrong row goes, its file stays.
DeleteDuplicate(c) ==
    /\ phase = "rechecksum" /\ cur = None /\ c \in todo
    /\ Readable(c) /\ disk[c] # c /\ disk[c] \in Rows(db)
    /\ db' = [db EXCEPT !.rows = Without(@, c), !.analysis = @ \ {c}, !.players = @ \ {c},
                        !.titles = Without(@, c),
                        !.paths = Restrict(@, {p \in DOMAIN @ : @[p] # c})]
    /\ todo' = todo \ {c}
    /\ UNCHANGED <<phase, disk, tx, schema, cur, shown, asked, faults, quiet>>

\* migrateReplayChecksum: the file is copied, unless an earlier attempt has left something there,
\* complete or not ...
MigrateCopy(c) ==
    /\ phase = "rechecksum" /\ cur = None /\ c \in todo
    /\ Readable(c) /\ disk[c] # c /\ disk[c] \notin Rows(db)
    /\ cur' = c /\ tx' = db
    /\ IF disk[disk[c]] = None
       THEN disk' = [disk EXCEPT ![disk[c]] = Corrupt] /\ phase' = "copy"
       ELSE UNCHANGED <<disk, phase>>
    /\ UNCHANGED <<db, schema, todo, shown, asked, faults, quiet>>

CopyEnds ==
    /\ phase = "copy" /\ phase' = "rechecksum"
    /\ disk' = [disk EXCEPT ![disk[cur]] = disk[cur]]
    /\ UNCHANGED <<db, tx, schema, todo, cur, shown, asked, faults, quiet>>

Conflicts(c, n) ==
    \/ {c, n} \subseteq tx.analysis
    \/ {c, n} \subseteq tx.players
    \/ {c, n} \subseteq DOMAIN tx.titles

\* ... the five tables follow, unless a primary key is taken (the transaction is rolled back) ...
MigrateRows ==
    /\ phase = "rechecksum" /\ cur # None /\ cur \in Rows(tx)
    /\ LET n == disk[cur] IN
          IF Conflicts(cur, n)
          THEN tx' = None /\ cur' = None /\ todo' = todo \ {cur}
          ELSE /\ tx' = [tx EXCEPT !.rows = Rekeyed(@, cur, n),
                                   !.analysis = Renamed(@, cur, n),
                                   !.players = Renamed(@, cur, n),
                                   !.titles = Rekeyed(@, cur, n),
                                   !.paths = [p \in DOMAIN @ |-> IF @[p] = cur THEN n ELSE @[p]]]
               /\ UNCHANGED <<cur, todo>>
    /\ UNCHANGED <<phase, disk, db, schema, shown, asked, faults, quiet>>

\* ... and the old file is removed, which fails where an open file cannot be removed.
MigrateRemove ==
    /\ cur # None /\ cur \notin Rows(tx) /\ phase = "rechecksum"
    /\ \E gone \in BOOLEAN :
          /\ disk' = IF gone THEN [disk EXCEPT ![cur] = None] ELSE disk
          /\ tx' = [tx EXCEPT !.rows[disk[cur]] = 0]
    /\ phase' = "commit"
    /\ UNCHANGED <<db, schema, todo, cur, shown, asked, faults, quiet>>

MigrateCommit ==
    /\ phase = "commit"
    /\ db' = tx /\ tx' = None /\ cur' = None /\ todo' = todo \ {cur} /\ phase' = "rechecksum"
    /\ UNCHANGED <<disk, schema, shown, asked, faults, quiet>>

----------------------------------------------------------------------------
(* performReplayReanalysis *)

BeginReanalysis ==
    /\ phase = "rechecksum" /\ todo = {}
    /\ phase' = "reanalysis"
    /\ todo' = IF schema < PlayersAt THEN {} ELSE NeedAnalysis(db)
    /\ UNCHANGED <<disk, db, tx, schema, cur, shown, asked, faults, quiet>>

\* What the file says is stored under the checksum of the file, not of the row.
Reanalyse(c) ==
    /\ phase = "reanalysis" /\ c \in todo
    /\ todo' = todo \ {c}
    /\ db' = IF Readable(c)
             THEN [db EXCEPT !.analysis = @ \cup {disk[c]}, !.players = @ \cup {disk[c]}]
             ELSE db
    /\ UNCHANGED <<phase, disk, tx, schema, cur, shown, asked, faults, quiet>>

\* The sweep over the replay folder is ReplayStore's; its last act publishes the catalogue again.
EndSweep ==
    /\ phase = "reanalysis" /\ todo = {}
    /\ phase' = "idle" /\ shown' = Rows(db)
    /\ UNCHANGED <<disk, db, tx, schema, todo, cur, asked, faults, quiet>>

----------------------------------------------------------------------------
(* Handlers of the io thread once the sweep is over, or before it has begun *)

Free == phase \in {"ready", "idle"}

\* A replay of the folder is ingested under its true checksum.
Ingest(n, p) ==
    /\ phase = "idle" /\ schema = Last
    /\ IF n \in Rows(db)
       THEN db' = [db EXCEPT !.paths = With(@, p, n)] /\ UNCHANGED <<disk, shown>>
       ELSE /\ disk[n] = None
            /\ disk' = [disk EXCEPT ![n] = n]
            /\ db' = [db EXCEPT !.rows = With(@, n, 0), !.analysis = @ \cup {n},
                                !.players = @ \cup {n}, !.paths = With(@, p, n)]
            /\ shown' = shown \cup {n}
    /\ UNCHANGED <<phase, tx, schema, todo, cur, asked, faults, quiet>>

\* The GUI thread: the user names a replay of the last snapshot, whatever the io thread is doing.
AskTitle(c, t) ==
    /\ asked = None /\ c \in shown
    /\ asked' = [checksum |-> c, title |-> t]
    /\ UNCHANGED <<phase, disk, db, tx, schema, todo, cur, shown, faults, quiet>>

\* updateOverrideTitle: an empty title deletes the row, any other is stored for the checksum given.
SetOverrideTitle ==
    /\ asked # None /\ Free
    /\ db' = [db EXCEPT !.titles = IF asked.title = None
                                   THEN Without(@, asked.checksum)
                                   ELSE With(@, asked.checksum, asked.title)]
    /\ asked' = None
    /\ UNCHANGED <<phase, disk, tx, schema, todo, cur, shown, faults, quiet>>

----------------------------------------------------------------------------
(* Faults *)

Fault == faults < MaxFaults /\ faults' = faults + 1 /\ quiet' = FALSE

\* A statement, a commit, an open or the copy fails: the guard rolls back, the loop goes on with the
\* next. A copy that fails takes what it wrote away.
StatementFails ==
    /\ Fault /\ phase \in {"rechecksum", "copy", "commit", "reanalysis"} /\ todo # {}
    /\ \E c \in IF cur = None THEN todo ELSE {cur} : todo' = todo \ {c}
    /\ tx' = None /\ cur' = None
    /\ phase' = IF phase \in {"commit", "copy"} THEN "rechecksum" ELSE phase
    /\ disk' = IF phase = "copy" THEN [disk EXCEPT ![disk[cur]] = None] ELSE disk
    /\ UNCHANGED <<db, schema, shown, asked>>

\* A migration or the statement that numbers it fails: the rest waits for another start.
MigrationFails ==
    /\ Fault /\ phase \in {"migrate", "number"} /\ db.version < Last
    /\ phase' = "load"
    /\ UNCHANGED <<disk, db, tx, schema, todo, cur, shown, asked>>

\* The process ends between any two steps: the transaction is rolled back, the files stay, also a
\* copy that was cut off.
Crash ==
    /\ Fault /\ phase # "off"
    /\ phase' = "off" /\ tx' = None /\ todo' = {} /\ cur' = None /\ shown' = {} /\ asked' = None
    /\ UNCHANGED <<disk, db, schema>>

\* The process ends within ingestReplay: the copy is there, complete or not, and has no row.
IngestCutOff(n) ==
    /\ Fault /\ phase = "idle" /\ schema = Last /\ n \notin Rows(db) /\ disk[n] = None
    /\ \E copied \in {n, Corrupt} : disk' = [disk EXCEPT ![n] = copied]
    /\ phase' = "off" /\ shown' = {} /\ asked' = None
    /\ UNCHANGED <<db, tx, schema, todo, cur>>

\* The user closes the program; the next start finds what this one left.
Quit ==
    /\ phase = "idle"
    /\ phase' = "off" /\ shown' = {} /\ asked' = None
    /\ UNCHANGED <<disk, db, tx, schema, todo, cur, faults, quiet>>

Heal == \/ Start \/ Migrate \/ NumberMigration \/ Load
        \/ BeginRechecksum \/ CopyEnds \/ MigrateRows \/ MigrateRemove \/ MigrateCommit
        \/ BeginReanalysis \/ EndSweep
        \/ \E c \in Names : \/ SkipUnreadable(c) \/ MarkChecked(c) \/ DeleteDuplicate(c)
                            \/ MigrateCopy(c) \/ Reanalyse(c)

Next == \/ Heal
        \/ \E n \in Contents, p \in Paths : Ingest(n, p)
        \/ \E c \in Names, t \in Titles \cup {None} : AskTitle(c, t)
        \/ SetOverrideTitle \/ Quit \/ StatementFails \/ MigrationFails \/ Crash
        \/ \E n \in Contents : IngestCutOff(n)

\* The io thread goes on with what it has to do; the program is closed and started again.
Spec == Init /\ [][Next]_vars /\ WF_vars(Heal) /\ WF_vars(Quit)

----------------------------------------------------------------------------
(* Properties *)

IsDatabase(d) ==
    /\ DOMAIN d = DOMAIN Empty
    /\ d.version \in 0 .. Last /\ Rows(d) \subseteq Names /\ \A c \in Rows(d) : d.rows[c] \in {0, 1}
    /\ d.analysis \subseteq Names /\ d.players \subseteq Names
    /\ DOMAIN d.titles \subseteq Names /\ \A c \in DOMAIN d.titles : d.titles[c] \in Titles
    /\ DOMAIN d.paths \subseteq Paths /\ \A p \in DOMAIN d.paths : d.paths[p] \in Names

\* The variables hold values of their types; the store holds contents, the tables checksums.
TypeOK ==
    /\ phase \in {"off", "migrate", "number", "load", "ready", "rechecksum", "copy", "commit",
                  "reanalysis", "idle"}
    /\ disk \in [Names -> Contents \cup {None, Corrupt}]
    /\ IsDatabase(db) /\ IF cur = None THEN tx = None ELSE IsDatabase(tx)
    /\ schema \in 0 .. Last /\ todo \subseteq Names /\ cur \in Names \cup {None}
    /\ shown \subseteq Names
    /\ asked # None => asked.checksum \in Names /\ asked.title \in Titles \cup {None}
    /\ faults \in 0 .. MaxFaults /\ quiet \in BOOLEAN

\* Queries::migrate numbers a migration after executing it: whatever is cut short, a later
\* start never takes a migration for done that was not, and is behind by one at most.
NoMigrationIsSkipped == db.version \in {schema - 1, schema}

\* Once every replay was flagged (queries.cpp:186), a row loses its flag only with a checksum that
\* is its file's: no crash, conflict or failing statement lets a wrong checksum pass for checked.
UncheckedRowsStayFlagged ==
    schema >= FlagAt + 1 =>
        \A c \in Rows(db) : Readable(c) /\ disk[c] # c => db.rows[c] = 1

\* A path of the replay folder is linked to a row that exists: the sweep skips a known path
\* (receiveInitialReplayPaths), so a link to nothing would hide its replay for good.
LinksHaveRows == \A p \in DOMAIN db.paths : db.paths[p] \in Rows(db)

\* The start was cut off between a migration that cannot be repeated and its number: it fails at
\* every start from then on, and so does every migration after it (queries.cpp:219-229).
Stuck ==
    /\ db.version < Last /\ schema = db.version + 1
    /\ ~Repeatable(schema)

\* A start without faults runs every migration, unless it is stuck; and once the migrations have
\* flagged every row it repairs all it can read, stuck or not: rows under their true checksum, no
\* match twice, no flag left, analysis and players there, whatever earlier starts left half done.
QuietStartHealsAll ==
    phase = "idle" /\ quiet =>
        /\ db.version = Last \/ Stuck
        /\ schema > FlagAt =>
              \A c \in Rows(db) : Readable(c) =>
                  /\ disk[c] = c /\ db.rows[c] = 0
                  /\ c \in db.analysis \cap db.players

\* Healing copies before it removes: a match the store holds stays in the store, under some name.
\* The exception is a match in whose place there is a copy that was cut off (replaystore.cpp:386-393):
\* see EveryMatchStays.
HealingLosesNoReplay ==
    [][\A k \in Contents : k \in Range(disk) /\ disk[k] # Corrupt => k \in Range(disk')]_disk

\* A title stays with its replay when the row moves to another checksum. It goes only when the user
\* clears or replaces it, or with a row under a wrong checksum whose match has its true row already.
TitlesFollowTheirReplay ==
    [][\A c \in Rows(db) \cap DOMAIN db.titles :
          \/ c \in Rows(db') /\ c \in DOMAIN db'.titles /\ db'.titles[c] = db.titles[c]
          \/ /\ c \notin Rows(db')
             /\ \E n \in (Rows(db') \ Rows(db)) \cap DOMAIN db'.titles : db'.titles[n] = db.titles[c]
          \/ c \notin Rows(db') /\ disk[c] # c /\ disk[c] \in Rows(db) \cap Rows(db')
          \/ asked # None /\ asked.checksum = c /\ asked' = None]_db

----------------------------------------------------------------------------
(* What the repository says of the program and the code does not keep. *)

\* replaystore.cpp:386-388: "If the file already exists assume we failed a previous migration attempt
\* and remove it". The code keeps it and removes the original, complete copy.
EveryMatchStays == [][\A k \in Contents : k \in Range(disk) => k \in Range(disk')]_disk

\* queries.cpp:215-216: user_version "is always the next thing to execute". After a start that was cut
\* off it is the number of a migration that was executed.
NextIsNotExecuted == phase = "migrate" => schema = db.version

\* CHANGELOG.md:19: "Automatically fix broken data that can occur with replays loaded under the wrong
\* checksum". A row whose file has another checksum does not stay, however often the program starts.
WrongChecksumsAreFixed ==
    \A c \in Names : (db.version = Last /\ c \in Rows(db) /\ Readable(c) /\ disk[c] # c)
                        ~> (c \notin Rows(db))

=============================================================================
