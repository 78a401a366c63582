-------------------------- MODULE CatalogHealProofs --------------------------
(***************************************************************************)
(* Theorems about CatalogHeal: what a start-up makes of a catalogue an     *)
(* older version left, for every number of replays, paths and faults.      *)
(*                                                                         *)
(* None of the properties is inductive alone. The invariant adds           *)
(*   StepsInOrder       which loop runs over which rows, and since which   *)
(*                      migration there is anything for it to do,          *)
(*   StoreIsTrue        a name that is a content never holds another one,  *)
(*   TransactionPorts   the open transaction is the database, or the       *)
(*                      database with one row under its true checksum,     *)
(*   WrongRowsCanMove   why a key of the moved row is never taken: a title *)
(*                      or an analysis under a true checksum has its row,  *)
(*                      or the migrations have emptied the table,          *)
(*   QuietProgress      how far the loops of a start without faults are.   *)
(***************************************************************************)
EXTENDS CatalogHeal, TLAPS

\* The databases as a set of records, which the provers take apart more easily than IsDatabase.
Database ==
  [version : 0 .. Last, rows : UNION {[C -> {0, 1}] : C \in SUBSET Names},
   analysis : SUBSET Names, players : SUBSET Names,
   titles : UNION {[C -> Titles] : C \in SUBSET Names},
   paths : UNION {[P -> Names] : P \in SUBSET Paths}]

Typed ==
  /\ phase \in {"off", "migrate", "number", "load", "ready", "rechecksum", "copy", "commit",
                "reanalysis", "idle"}
  /\ disk \in [Names -> Contents \cup {None, Corrupt}]
  /\ db \in Database
  /\ IF cur = None THEN tx = None ELSE tx \in Database
  /\ schema \in 0 .. Last /\ todo \subseteq Names /\ cur \in Names \cup {None}
  /\ shown \subseteq Names
  /\ asked # None => asked.checksum \in Names /\ asked.title \in Titles \cup {None}
  /\ faults \in 0 .. MaxFaults /\ quiet \in BOOLEAN

StepsInOrder ==
  /\ NoMigrationIsSkipped
  /\ phase = "number" => schema = db.version + 1
  /\ phase = "commit" => cur # None
  /\ phase = "copy" => cur # None /\ tx = db
  /\ cur # None => phase \in {"rechecksum", "copy", "commit"} /\ cur \in todo
  /\ phase \in {"rechecksum", "copy", "commit", "reanalysis"} => todo \subseteq Rows(db)
  /\ phase \in {"rechecksum", "copy", "commit"} /\ todo # {} => schema >= FlagAt
  /\ phase \in {"load", "ready", "rechecksum", "copy", "commit", "reanalysis", "idle"} /\ quiet =>
       db.version = Last \/ Stuck
  /\ phase = "reanalysis" /\ todo # {} => schema >= PlayersAt

StoreIsTrue == \A k \in Contents : disk[k] \in {k, None, Corrupt}

\* The transaction after updateReplayChecksum: the row, and all that refers to it, under n.
Ported(n) ==
  /\ n \in Contents /\ n \notin Rows(db)
  /\ phase \in {"rechecksum", "copy"} => n = disk[cur]
  /\ tx.version = db.version
  /\ Rows(tx) = (Rows(db) \ {cur}) \cup {n}
  /\ phase = "commit" => tx.rows[n] = 0
  /\ \A c \in Rows(db) \ {cur} : tx.rows[c] = db.rows[c]
  /\ tx.analysis = Renamed(db.analysis, cur, n)
  /\ tx.players = Renamed(db.players, cur, n)
  /\ tx.titles = Rekeyed(db.titles, cur, n)
  /\ DOMAIN tx.paths = DOMAIN db.paths
  /\ \A p \in DOMAIN db.paths : tx.paths[p] = IF db.paths[p] = cur THEN n ELSE db.paths[p]

TransactionPorts ==
  cur # None =>
    /\ cur \notin Contents
    /\ \/ tx = db /\ phase \in {"rechecksum", "copy"}
       \/ \E n \in Contents : Ported(n)
    /\ phase \in {"rechecksum", "copy"} => Readable(cur) /\ disk[cur] \notin Rows(db)
    /\ phase = "rechecksum" => disk[disk[cur]] \in {disk[cur], Corrupt}

\* Rows whose checksum is nobody's content.
Wrong(d) == Rows(d) \ Contents

\* A title, also one the user is about to give, is under a wrong checksum or has its row.
TitledHaveRows ==
  /\ shown \cap Contents \subseteq Rows(db)
  /\ DOMAIN db.titles \cap Contents \subseteq Rows(db)
  /\ asked # None => (asked.checksum \in Contents => asked.checksum \in Rows(db))

\* Before a re-analysis touched it, a wrong row has analysis and players under its own checksum,
\* and no true checksum has any without a row ...
NeverReanalysed ==
  /\ Wrong(db) \subseteq db.analysis \cap db.players
  /\ (db.analysis \cup db.players) \cap Contents \subseteq Rows(db)
  /\ phase = "reanalysis" => todo \cap Wrong(db) = {}

\* ... or the migrations dropped them, and a re-analysis stores them under the true checksum only.
LosesItsKeys == Wrong(db) \cap (db.analysis \cup db.players) = {}

WrongRowsCanMove ==
  /\ TitledHaveRows
  /\ schema \in 14 .. 17 => Wrong(db) \cap db.analysis = {}
  /\ schema = 17 => Wrong(db) \cap db.players = {}
  /\ schema >= PlayersAt => NeverReanalysed \/ LosesItsKeys

\* The row is under the checksum of its file, and says that somebody looked.
Checked(c) == disk[c] = c /\ db.rows[c] = 0

QuietProgress ==
  quiet /\ schema > FlagAt =>
    \A c \in Rows(db) : Readable(c) =>
      /\ phase \in {"rechecksum", "copy", "commit"} => c \in todo \/ Checked(c)
      /\ phase = "reanalysis" => Checked(c) /\ (c \in todo \/ c \in db.analysis \cap db.players)
      /\ phase = "idle" => Checked(c) /\ c \in db.analysis \cap db.players

\* The inductive invariant.
IInv == /\ Typed /\ StepsInOrder /\ StoreIsTrue /\ TransactionPorts
        /\ LinksHaveRows /\ UncheckedRowsStayFlagged /\ WrongRowsCanMove /\ QuietProgress

-----------------------------------------------------------------------------
(* The operators the model is built from.                                  *)

\* Four of the 23 migrations touch rows that are already there.
LEMMA MigrationFacts ==
  /\ Last = 23
  /\ \A n \in 1 .. 23 :
        /\ Migrations[n] = <<"delete", "analysis">> <=> n = 14
        /\ Migrations[n] = <<"drop", "players">> <=> n = 17
        /\ Migrations[n] = <<"update", "rechecksum">> <=> n = 20
        /\ Migrations[n] = <<"delete", "paths">> <=> n = 21
<1>1. Last = 23
  BY DEF Last, Migrations
<1>2. \A n \in 1 .. 23 : Migrations[n] = <<"delete", "analysis">> <=> n = 14
  BY DEF Migrations
<1>3. \A n \in 1 .. 23 : Migrations[n] = <<"drop", "players">> <=> n = 17
  BY DEF Migrations
<1>4. \A n \in 1 .. 23 : Migrations[n] = <<"update", "rechecksum">> <=> n = 20
  BY DEF Migrations
<1>5. \A n \in 1 .. 23 : Migrations[n] = <<"delete", "paths">> <=> n = 21
  BY DEF Migrations
<1>6. QED
  BY <1>1, <1>2, <1>3, <1>4, <1>5

\* A database, field by field.
LEMMA DatabaseFacts ==
  ASSUME NEW d
  PROVE  d \in Database <=>
           /\ d = [version |-> d.version, rows |-> d.rows, analysis |-> d.analysis,
                   players |-> d.players, titles |-> d.titles, paths |-> d.paths]
           /\ d.version \in 0 .. Last
           /\ Rows(d) \subseteq Names /\ d.rows \in [Rows(d) -> {0, 1}]
           /\ d.analysis \subseteq Names /\ d.players \subseteq Names
           /\ DOMAIN d.titles \subseteq Names /\ d.titles \in [DOMAIN d.titles -> Titles]
           /\ DOMAIN d.paths \subseteq Paths /\ d.paths \in [DOMAIN d.paths -> Names]
BY DEF Database, Rows

\* A row that moves leaves its old key and has its new one; the others stay.
LEMMA RekeyedDomain ==
  ASSUME NEW f, NEW c, c \in DOMAIN f, NEW n
  PROVE  DOMAIN Rekeyed(f, c, n) = (DOMAIN f \ {c}) \cup {n}
BY DEF Rekeyed, With, Without, Restrict

LEMMA RekeyedMoved ==
  ASSUME NEW f, NEW c, c \in DOMAIN f, NEW n
  PROVE  Rekeyed(f, c, n)[n] = f[c]
BY DEF Rekeyed, With, Without, Restrict

LEMMA RekeyedOther ==
  ASSUME NEW f, NEW c, c \in DOMAIN f, NEW n, NEW x \in DOMAIN f \ {c}, x # n
  PROVE  Rekeyed(f, c, n)[x] = f[x]
BY DEF Rekeyed, With, Without, Restrict

LEMMA RekeyedType ==
  ASSUME NEW V, NEW f, f \in [DOMAIN f -> V], NEW c, NEW n
  PROVE  /\ Rekeyed(f, c, n) \in [DOMAIN Rekeyed(f, c, n) -> V]
         /\ DOMAIN Rekeyed(f, c, n) \subseteq DOMAIN f \cup {n}
<1>1. CASE c \notin DOMAIN f
  BY <1>1 DEF Rekeyed
<1>2. CASE c \in DOMAIN f
  <2> DEFINE g == Without(f, c)
  <2>1. g \in [DOMAIN f \ {c} -> V] /\ DOMAIN g = DOMAIN f \ {c}
    BY DEF Without, Restrict
  <2>2. Rekeyed(f, c, n) = With(g, n, f[c]) /\ f[c] \in V
    BY <1>2 DEF Rekeyed
  <2> HIDE DEF g
  <2>3. g \in [DOMAIN g -> V]
    BY <2>1
  <2>4. With(g, n, f[c]) \in [DOMAIN g \cup {n} -> V]
    BY <2>2, <2>3 DEF With
  <2>5. QED
    BY <2>1, <2>2, <2>4
<1>3. QED
  BY <1>1, <1>2

LEMMA ConstantFacts ==
  /\ Contents \subseteq Names /\ None \notin Names /\ Corrupt \notin Names /\ None # Corrupt
  /\ None \notin Contents /\ Corrupt \notin Contents
  /\ Titles # {} /\ MaxFaults \in Nat
  /\ Last = 23 /\ FlagAt = 19 /\ PlayersAt = 18
BY HealAssumption, MigrationFacts DEF FlagAt, PlayersAt

-----------------------------------------------------------------------------
(* What each action makes of the database.                                 *)

\* A migration that runs: which table it empties or flags.
LEMMA MigrateEffect ==
  ASSUME Typed, Migrate, schema < db.version + 1 \/ Repeatable(db.version + 1)
  PROVE  LET n == db.version + 1 IN
         /\ n \in 1 .. 23 /\ schema' = n /\ phase' = "number"
         /\ db' \in Database /\ db'.version = db.version /\ Rows(db') = Rows(db)
         /\ \A c \in Rows(db) : db'.rows[c] = IF n = 20 THEN 1 ELSE db.rows[c]
         /\ db'.analysis = IF n = 14 THEN {} ELSE db.analysis
         /\ db'.players = IF n = 17 THEN {} ELSE db.players
         /\ db'.titles = db.titles
         /\ db'.paths = IF n = 21 THEN <<>> ELSE db.paths
<1> DEFINE n == db.version + 1
<1>1. n \in 1 .. 23 /\ schema' = n /\ phase' = "number" /\ db' = Migrated(db, n)
  BY ConstantFacts, DatabaseFacts DEF Typed, Migrate
<1>2. db \in Database
  BY DEF Typed
<1>3. /\ n = 14 => db' = [db EXCEPT !.analysis = {}]
      /\ n = 17 => db' = [db EXCEPT !.players = {}]
      /\ n = 20 => db' = [db EXCEPT !.rows = [c \in DOMAIN db.rows |-> 1]]
      /\ n = 21 => db' = [db EXCEPT !.paths = <<>>]
      /\ n \notin {14, 17, 20, 21} => db' = db
  <2>1. /\ Migrations[n] = <<"delete", "analysis">> <=> n = 14
        /\ Migrations[n] = <<"drop", "players">> <=> n = 17
        /\ Migrations[n] = <<"update", "rechecksum">> <=> n = 20
        /\ Migrations[n] = <<"delete", "paths">> <=> n = 21
    BY <1>1, MigrationFacts
  <2>2. db' = CASE Migrations[n] = <<"delete", "analysis">>   -> [db EXCEPT !.analysis = {}]
              [] Migrations[n] = <<"drop", "players">>      -> [db EXCEPT !.players = {}]
              [] Migrations[n] = <<"update", "rechecksum">> ->
                   [db EXCEPT !.rows = [c \in DOMAIN db.rows |-> 1]]
              [] Migrations[n] = <<"delete", "paths">>      -> [db EXCEPT !.paths = <<>>]
              [] OTHER -> db
    BY <1>1 DEF Migrated
  <2> HIDE DEF n
  <2>3. db' = CASE n = 14 -> [db EXCEPT !.analysis = {}]
              [] n = 17 -> [db EXCEPT !.players = {}]
              [] n = 20 -> [db EXCEPT !.rows = [c \in DOMAIN db.rows |-> 1]]
              [] n = 21 -> [db EXCEPT !.paths = <<>>]
              [] OTHER -> db
    BY <2>1, <2>2
  <2>4. QED
    BY <2>3
<1> HIDE DEF n
<1>4. CASE n = 14
  BY <1>1, <1>2, <1>3, <1>4, DatabaseFacts DEF Rows, n
<1>5. CASE n = 17
  BY <1>1, <1>2, <1>3, <1>5, DatabaseFacts DEF Rows, n
<1>6. CASE n = 20
  BY <1>1, <1>2, <1>3, <1>6, DatabaseFacts DEF Rows, n
<1>7. CASE n = 21
  <2>1. <<>> \in [{} -> Names] /\ DOMAIN <<>> = {}
    OBVIOUS
  <2> DEFINE e == <<>>
  <2>2. db' = [db EXCEPT !.paths = e]
    BY <1>3, <1>7
  <2>3. e \in [{} -> Names] /\ DOMAIN e = {}
    BY <2>1
  <2> HIDE DEF e
  <2>4. /\ db'.version = db.version /\ db'.rows = db.rows /\ db'.analysis = db.analysis
        /\ db'.players = db.players /\ db'.titles = db.titles /\ db'.paths = e
        /\ db' = [version |-> db'.version, rows |-> db'.rows, analysis |-> db'.analysis,
                  players |-> db'.players, titles |-> db'.titles, paths |-> db'.paths]
    BY <1>2, <2>2, DatabaseFacts
  <2>5. db' \in Database
    BY <1>2, <2>3, <2>4, DatabaseFacts DEF Rows
  <2>6. QED
    BY <1>1, <1>2, <1>7, <2>4, <2>5, DatabaseFacts DEF Rows, n, e
<1>8. CASE n \notin {14, 17, 20, 21}
  BY <1>1, <1>2, <1>3, <1>8 DEF Rows, n
<1>9. QED
  BY <1>4, <1>5, <1>6, <1>7, <1>8

LEMMA NumberEffect ==
  ASSUME Typed, StepsInOrder, NumberMigration
  PROVE  /\ db' \in Database /\ db'.version = db.version + 1 /\ db'.version = schema
         /\ db' = [db EXCEPT !.version = db.version + 1]
         /\ db'.rows = db.rows /\ db'.analysis = db.analysis /\ db'.players = db.players
         /\ db'.titles = db.titles /\ db'.paths = db.paths
<1>1. db \in Database /\ schema = db.version + 1 /\ schema \in 0 .. Last
  BY DEF Typed, StepsInOrder, NumberMigration
<1>2. db' = [db EXCEPT !.version = db.version + 1]
  BY DEF NumberMigration
<1>3. QED
  BY <1>1, <1>2, ConstantFacts, DatabaseFacts DEF Rows

LEMMA MarkEffect ==
  ASSUME Typed, StepsInOrder, NEW c \in Names, MarkChecked(c)
  PROVE  /\ c \in Rows(db) /\ db' \in Database /\ db'.version = db.version /\ Rows(db') = Rows(db)
         /\ db'.rows[c] = 0 /\ \A x \in Rows(db) : x # c => db'.rows[x] = db.rows[x]
         /\ db'.analysis = db.analysis /\ db'.players = db.players
         /\ db'.titles = db.titles /\ db'.paths = db.paths
<1>1. db \in Database /\ c \in Rows(db)
  BY DEF Typed, StepsInOrder, MarkChecked
<1>2. db' = [db EXCEPT !.rows[c] = 0]
  BY DEF MarkChecked
<1>3. QED
  BY <1>1, <1>2, DatabaseFacts DEF Rows

LEMMA DuplicateEffect ==
  ASSUME Typed, NEW c \in Names, DeleteDuplicate(c)
  PROVE  /\ db' \in Database /\ db'.version = db.version /\ Rows(db') = Rows(db) \ {c}
         /\ \A x \in Rows(db') : db'.rows[x] = db.rows[x]
         /\ db'.analysis = db.analysis \ {c} /\ db'.players = db.players \ {c}
         /\ DOMAIN db'.titles = DOMAIN db.titles \ {c}
         /\ \A x \in DOMAIN db'.titles : db'.titles[x] = db.titles[x]
         /\ \A p \in DOMAIN db'.paths : /\ p \in DOMAIN db.paths
                                        /\ db'.paths[p] = db.paths[p] /\ db.paths[p] # c
<1> DEFINE few == {p \in DOMAIN db.paths : db.paths[p] # c}
<1>1. db \in Database
  BY DEF Typed
<1>2. db' = [db EXCEPT !.rows = Without(db.rows, c), !.analysis = db.analysis \ {c},
                       !.players = db.players \ {c}, !.titles = Without(db.titles, c),
                       !.paths = Restrict(db.paths, few)]
  BY DEF DeleteDuplicate
<1>3. /\ DOMAIN Restrict(db.paths, few) = few
      /\ \A p \in few : Restrict(db.paths, few)[p] = db.paths[p]
      /\ db.paths \in [DOMAIN db.paths -> Names] => Restrict(db.paths, few) \in [few -> Names]
  BY DEF Restrict
<1>4. /\ db'.version = db.version /\ db'.rows = Without(db.rows, c)
      /\ db'.analysis = db.analysis \ {c} /\ db'.players = db.players \ {c}
      /\ db'.titles = Without(db.titles, c) /\ db'.paths = Restrict(db.paths, few)
      /\ db' = [version |-> db'.version, rows |-> db'.rows, analysis |-> db'.analysis,
                players |-> db'.players, titles |-> db'.titles, paths |-> db'.paths]
  <2>1. db = [version |-> db.version, rows |-> db.rows, analysis |-> db.analysis,
              players |-> db.players, titles |-> db.titles, paths |-> db.paths]
    BY <1>1, DatabaseFacts
  <2> DEFINE f == Without(db.rows, c)
             g == Without(db.titles, c)
             h == Restrict(db.paths, few)
  <2>2. db' = [db EXCEPT !.rows = f, !.analysis = db.analysis \ {c},
                         !.players = db.players \ {c}, !.titles = g, !.paths = h]
    BY <1>2
  <2> HIDE DEF f, g, h
  <2>3. db' = [version |-> db.version, rows |-> f, analysis |-> db.analysis \ {c},
               players |-> db.players \ {c}, titles |-> g, paths |-> h]
    BY <2>1, <2>2
  <2>4. /\ db'.version = db.version /\ db'.rows = f /\ db'.analysis = db.analysis \ {c}
        /\ db'.players = db.players \ {c} /\ db'.titles = g /\ db'.paths = h
    BY <2>3
  <2>5. QED
    BY <2>3, <2>4 DEF f, g, h
<1>5. /\ DOMAIN Without(db.rows, c) = DOMAIN db.rows \ {c}
      /\ \A x \in DOMAIN db.rows \ {c} : Without(db.rows, c)[x] = db.rows[x]
      /\ DOMAIN Without(db.titles, c) = DOMAIN db.titles \ {c}
      /\ \A x \in DOMAIN db.titles \ {c} : Without(db.titles, c)[x] = db.titles[x]
      /\ Without(db.rows, c) \in [DOMAIN db.rows \ {c} -> {0, 1}]
      /\ Without(db.titles, c) \in [DOMAIN db.titles \ {c} -> Titles]
  <2>1. db.rows \in [DOMAIN db.rows -> {0, 1}] /\ db.titles \in [DOMAIN db.titles -> Titles]
    BY <1>1, DatabaseFacts DEF Rows
  <2>2. /\ Without(db.rows, c) \in [DOMAIN db.rows \ {c} -> {0, 1}]
        /\ Without(db.titles, c) \in [DOMAIN db.titles \ {c} -> Titles]
    BY <2>1 DEF Without, Restrict
  <2>3. QED
    BY <2>2 DEF Without, Restrict
<1> HIDE DEF few
<1>6. few \subseteq DOMAIN db.paths /\ \A p \in few : db.paths[p] # c
  BY DEF few
<1>7. db' \in Database
  BY <1>1, <1>3, <1>4, <1>5, <1>6, DatabaseFacts DEF Rows
<1>8. QED
  BY <1>1, <1>3, <1>4, <1>5, <1>6, <1>7 DEF Rows

LEMMA ReanalyseEffect ==
  ASSUME Typed, NEW c \in Names, Reanalyse(c)
  PROVE  /\ db' \in Database /\ db'.version = db.version /\ db'.rows = db.rows
         /\ db'.titles = db.titles /\ db'.paths = db.paths
         /\ ~Readable(c) => db' = db
         /\ Readable(c) => /\ db'.analysis = db.analysis \cup {disk[c]}
                           /\ db'.players = db.players \cup {disk[c]}
<1>1. db \in Database
  BY DEF Typed
<1>2. db' = IF Readable(c)
            THEN [db EXCEPT !.analysis = db.analysis \cup {disk[c]},
                            !.players = db.players \cup {disk[c]}]
            ELSE db
  BY DEF Reanalyse
<1>3. Readable(c) => disk[c] \in Names
  BY ConstantFacts DEF Readable
<1>4. CASE Readable(c)
  <2>1. db' = [db EXCEPT !.analysis = db.analysis \cup {disk[c]},
                         !.players = db.players \cup {disk[c]}]
    BY <1>2, <1>4
  <2>2. disk[c] \in Names
    BY <1>3, <1>4
  <2> DEFINE A == db.analysis \cup {disk[c]}
             P == db.players \cup {disk[c]}
  <2>3. A \subseteq Names /\ P \subseteq Names
    BY <1>1, <2>2, DatabaseFacts
  <2>4. db' = [db EXCEPT !.analysis = A, !.players = P]
    BY <2>1
  <2> HIDE DEF A, P
  <2>5. db' = [version |-> db.version, rows |-> db.rows, analysis |-> A, players |-> P,
               titles |-> db.titles, paths |-> db.paths]
    <3>1. db = [version |-> db.version, rows |-> db.rows, analysis |-> db.analysis,
                players |-> db.players, titles |-> db.titles, paths |-> db.paths]
      BY <1>1, DatabaseFacts
    <3>2. QED
      BY <2>4, <3>1
  <2>6. /\ db'.version = db.version /\ db'.rows = db.rows /\ db'.analysis = A
        /\ db'.players = P /\ db'.titles = db.titles /\ db'.paths = db.paths
    BY <2>5
  <2>7. db' \in Database
    BY <1>1, <2>3, <2>5, <2>6, DatabaseFacts DEF Rows
  <2>8. QED
    BY <1>4, <2>6, <2>7 DEF A, P
<1>5. CASE ~Readable(c)
  BY <1>1, <1>2, <1>5
<1>6. QED
  BY <1>4, <1>5

LEMMA IngestKnownEffect ==
  ASSUME Typed, NEW n \in Contents, NEW p \in Paths, Ingest(n, p), n \in Rows(db)
  PROVE  /\ db' \in Database /\ db'.version = db.version /\ db'.rows = db.rows
         /\ db'.analysis = db.analysis /\ db'.players = db.players /\ db'.titles = db.titles
         /\ \A q \in DOMAIN db'.paths : IF q = p THEN db'.paths[q] = n
                                        ELSE q \in DOMAIN db.paths /\ db'.paths[q] = db.paths[q]
<1> DEFINE h == With(db.paths, p, n)
<1>1. db \in Database /\ n \in Names
  BY ConstantFacts DEF Typed
<1>2. db' = [db EXCEPT !.paths = h]
  BY DEF Ingest
<1>3. /\ DOMAIN h = DOMAIN db.paths \cup {p} /\ h[p] = n
      /\ \A q \in DOMAIN db.paths : q # p => h[q] = db.paths[q]
      /\ h \in [DOMAIN db.paths \cup {p} -> Names]
  <2>1. db.paths \in [DOMAIN db.paths -> Names]
    BY <1>1, DatabaseFacts
  <2>2. QED
    BY <1>1, <2>1 DEF With
<1> HIDE DEF h
<1>4. db = [version |-> db.version, rows |-> db.rows, analysis |-> db.analysis,
            players |-> db.players, titles |-> db.titles, paths |-> db.paths]
  BY <1>1, DatabaseFacts
<1>5. db' = [version |-> db.version, rows |-> db.rows, analysis |-> db.analysis,
             players |-> db.players, titles |-> db.titles, paths |-> h]
  BY <1>2, <1>4
<1>6. /\ db'.version = db.version /\ db'.rows = db.rows /\ db'.analysis = db.analysis
      /\ db'.players = db.players /\ db'.titles = db.titles /\ db'.paths = h
  BY <1>5
<1>7. db' \in Database
  BY <1>1, <1>3, <1>5, <1>6, DatabaseFacts DEF Rows
<1>8. QED
  BY <1>3, <1>6, <1>7

LEMMA IngestNewEffect ==
  ASSUME Typed, NEW n \in Contents, NEW p \in Paths, Ingest(n, p), n \notin Rows(db)
  PROVE  /\ db' \in Database /\ db'.version = db.version /\ Rows(db') = Rows(db) \cup {n}
         /\ db'.rows[n] = 0 /\ \A c \in Rows(db) : db'.rows[c] = db.rows[c]
         /\ db'.analysis = db.analysis \cup {n} /\ db'.players = db.players \cup {n}
         /\ db'.titles = db.titles
         /\ \A q \in DOMAIN db'.paths : IF q = p THEN db'.paths[q] = n
                                        ELSE q \in DOMAIN db.paths /\ db'.paths[q] = db.paths[q]
         /\ disk[n] = None /\ disk' = [disk EXCEPT ![n] = n] /\ shown' = shown \cup {n}
<1> DEFINE f == With(db.rows, n, 0)
           h == With(db.paths, p, n)
           A == db.analysis \cup {n}
           P == db.players \cup {n}
<1>1. db \in Database /\ n \in Names
  BY ConstantFacts DEF Typed
<1>2. db' = [db EXCEPT !.rows = f, !.analysis = A, !.players = P, !.paths = h]
      /\ disk[n] = None /\ disk' = [disk EXCEPT ![n] = n] /\ shown' = shown \cup {n}
  BY DEF Ingest
<1>3. /\ DOMAIN h = DOMAIN db.paths \cup {p} /\ h[p] = n
      /\ \A q \in DOMAIN db.paths : q # p => h[q] = db.paths[q]
      /\ h \in [DOMAIN db.paths \cup {p} -> Names]
  <2>1. db.paths \in [DOMAIN db.paths -> Names]
    BY <1>1, DatabaseFacts
  <2>2. QED
    BY <1>1, <2>1 DEF With
<1>4. /\ DOMAIN f = DOMAIN db.rows \cup {n} /\ f[n] = 0
      /\ \A q \in DOMAIN db.rows : q # n => f[q] = db.rows[q]
      /\ f \in [DOMAIN db.rows \cup {n} -> {0, 1}]
  <2>1. db.rows \in [DOMAIN db.rows -> {0, 1}]
    BY <1>1, DatabaseFacts DEF Rows
  <2>2. QED
    BY <2>1 DEF With
<1>5. A \subseteq Names /\ P \subseteq Names
  BY <1>1, DatabaseFacts
<1> HIDE DEF h, f, A, P
<1>6. db = [version |-> db.version, rows |-> db.rows, analysis |-> db.analysis,
            players |-> db.players, titles |-> db.titles, paths |-> db.paths]
  BY <1>1, DatabaseFacts
<1>7. db' = [version |-> db.version, rows |-> f, analysis |-> A, players |-> P,
             titles |-> db.titles, paths |-> h]
  BY <1>2, <1>6
<1>8. /\ db'.version = db.version /\ db'.rows = f /\ db'.analysis = A
      /\ db'.players = P /\ db'.titles = db.titles /\ db'.paths = h
  BY <1>7
<1>9. db' \in Database
  BY <1>1, <1>3, <1>4, <1>5, <1>7, <1>8, DatabaseFacts DEF Rows
<1>10. QED
  BY <1>2, <1>3, <1>4, <1>8, <1>9 DEF Rows, A, P

LEMMA TitleEffect ==
  ASSUME Typed, SetOverrideTitle
  PROVE  /\ db' \in Database /\ db'.version = db.version /\ db'.rows = db.rows
         /\ db'.analysis = db.analysis /\ db'.players = db.players /\ db'.paths = db.paths
         /\ DOMAIN db'.titles \subseteq DOMAIN db.titles \cup {asked.checksum}
         /\ \A c \in DOMAIN db.titles :
               c # asked.checksum => c \in DOMAIN db'.titles /\ db'.titles[c] = db.titles[c]
<1> DEFINE g == IF asked.title = None THEN Without(db.titles, asked.checksum)
                ELSE With(db.titles, asked.checksum, asked.title)
<1>1. db \in Database /\ asked.checksum \in Names /\ asked.title \in Titles \cup {None}
  BY DEF Typed, SetOverrideTitle
<1>2. db' = [db EXCEPT !.titles = g]
  BY DEF SetOverrideTitle
<1>3. /\ DOMAIN g \subseteq Names /\ g \in [DOMAIN g -> Titles]
      /\ DOMAIN g \subseteq DOMAIN db.titles \cup {asked.checksum}
      /\ \A c \in DOMAIN db.titles : c # asked.checksum => c \in DOMAIN g /\ g[c] = db.titles[c]
  <2>1. DOMAIN db.titles \subseteq Names /\ db.titles \in [DOMAIN db.titles -> Titles]
    BY <1>1, DatabaseFacts
  <2>2. CASE asked.title = None
    <3>1. g = Without(db.titles, asked.checksum)
      BY <2>2
    <3> HIDE DEF g
    <3>2. /\ g \in [DOMAIN db.titles \ {asked.checksum} -> Titles]
          /\ \A c \in DOMAIN db.titles \ {asked.checksum} : g[c] = db.titles[c]
      BY <2>1, <3>1 DEF Without, Restrict
    <3>3. QED
      BY <2>1, <3>2
  <2>3. CASE asked.title # None
    <3>1. g = With(db.titles, asked.checksum, asked.title) /\ asked.title \in Titles
      BY <1>1, <2>3
    <3> HIDE DEF g
    <3>2. /\ g \in [DOMAIN db.titles \cup {asked.checksum} -> Titles]
          /\ \A c \in DOMAIN db.titles : c # asked.checksum => g[c] = db.titles[c]
      BY <2>1, <3>1 DEF With
    <3>3. QED
      BY <1>1, <2>1, <3>2
  <2>4. QED
    BY <2>2, <2>3
<1> HIDE DEF g
<1>4. db = [version |-> db.version, rows |-> db.rows, analysis |-> db.analysis,
            players |-> db.players, titles |-> db.titles, paths |-> db.paths]
  BY <1>1, DatabaseFacts
<1>5. db' = [version |-> db.version, rows |-> db.rows, analysis |-> db.analysis,
             players |-> db.players, titles |-> g, paths |-> db.paths]
  BY <1>2, <1>4
<1>6. /\ db'.version = db.version /\ db'.rows = db.rows /\ db'.analysis = db.analysis
      /\ db'.players = db.players /\ db'.titles = g /\ db'.paths = db.paths
  BY <1>5
<1>7. db' \in Database
  BY <1>1, <1>3, <1>5, <1>6, DatabaseFacts DEF Rows
<1>8. QED
  BY <1>3, <1>6, <1>7

(* The transaction that moves a row: begun, ported, finished, committed.   *)

LEMMA PortEffect ==
  ASSUME Typed, StepsInOrder, TransactionPorts, MigrateRows, ~Conflicts(cur, disk[cur])
  PROVE  /\ tx' \in Database /\ disk[cur] \in Contents /\ Ported(disk[cur])'
         /\ UNCHANGED <<phase, disk, db, schema, todo, cur, shown, asked, faults, quiet>>
<1> DEFINE n == disk[cur]
           f == Rekeyed(db.rows, cur, n)
           g == Rekeyed(db.titles, cur, n)
           A == Renamed(db.analysis, cur, n)
           P == Renamed(db.players, cur, n)
           h == [p \in DOMAIN db.paths |-> IF db.paths[p] = cur THEN n ELSE db.paths[p]]
<1>1. cur # None /\ cur \in Rows(tx) /\ cur \in Names /\ phase = "rechecksum"
      /\ UNCHANGED <<phase, disk, db, schema, todo, cur, shown, asked, faults, quiet>>
  BY DEF MigrateRows, Typed
<1>2. /\ tx = db /\ phase = "rechecksum" /\ cur \notin Contents
      /\ n \in Contents /\ n \notin Rows(db)
  BY <1>1, ConstantFacts DEF TransactionPorts, Ported, Readable
<1>3. db \in Database /\ n \in Names
  BY <1>2, ConstantFacts DEF Typed
<1>4. tx' = [db EXCEPT !.rows = f, !.analysis = A, !.players = P, !.titles = g, !.paths = h]
  BY <1>2 DEF MigrateRows
<1>5. /\ DOMAIN f = (Rows(db) \ {cur}) \cup {n}
      /\ \A c \in Rows(db) \ {cur} : f[c] = db.rows[c]
      /\ f \in [DOMAIN f -> {0, 1}]
  <2>1. db.rows \in [DOMAIN db.rows -> {0, 1}] /\ cur \in DOMAIN db.rows
    BY <1>1, <1>2, <1>3, DatabaseFacts DEF Rows
  <2> HIDE DEF n
  <2>2. f \in [DOMAIN f -> {0, 1}]
    BY <2>1, RekeyedType
  <2>3. QED
    <3>1. /\ DOMAIN f = (DOMAIN db.rows \ {cur}) \cup {n}
          /\ \A x \in DOMAIN db.rows \ {cur} : x # n => f[x] = db.rows[x]
      BY <2>1, RekeyedDomain, RekeyedOther
    <3>2. QED
      BY <1>2, <2>2, <3>1 DEF Rows
<1>6. DOMAIN g \subseteq Names /\ g \in [DOMAIN g -> Titles]
  <2>1. DOMAIN db.titles \subseteq Names /\ db.titles \in [DOMAIN db.titles -> Titles]
    BY <1>3, DatabaseFacts
  <2> HIDE DEF n
  <2>2. QED
    <3>1. /\ g \in [DOMAIN g -> Titles] /\ DOMAIN g \subseteq DOMAIN db.titles \cup {n}
      BY <2>1, RekeyedType
    <3>2. QED
      BY <1>3, <2>1, <3>1
<1>7. A \subseteq Names /\ P \subseteq Names
  BY <1>3, DatabaseFacts DEF Renamed
<1>8. DOMAIN h = DOMAIN db.paths /\ h \in [DOMAIN h -> Names]
      /\ \A p \in DOMAIN db.paths : h[p] = IF db.paths[p] = cur THEN n ELSE db.paths[p]
  BY <1>3, DatabaseFacts
<1>9. db = [version |-> db.version, rows |-> db.rows, analysis |-> db.analysis,
            players |-> db.players, titles |-> db.titles, paths |-> db.paths]
  BY <1>3, DatabaseFacts
<1> HIDE DEF f, g, h, A, P
<1>10. tx' = [version |-> db.version, rows |-> f, analysis |-> A, players |-> P,
              titles |-> g, paths |-> h]
  BY <1>4, <1>9
<1>11. /\ tx'.version = db.version /\ tx'.rows = f /\ tx'.analysis = A
       /\ tx'.players = P /\ tx'.titles = g /\ tx'.paths = h
  BY <1>10
<1>12. tx' \in Database
  BY <1>1, <1>3, <1>5, <1>6, <1>7, <1>8, <1>10, <1>11, DatabaseFacts DEF Rows
<1>13. Ported(n)'
  BY <1>1, <1>2, <1>5, <1>8, <1>11 DEF Ported, Rows, f, g, A, P
<1>14. QED
  BY <1>1, <1>2, <1>12, <1>13

LEMMA RemoveEffect ==
  ASSUME Typed, StepsInOrder, TransactionPorts, MigrateRemove
  PROVE  /\ cur \notin Contents /\ tx' \in Database
         /\ \E n \in Contents : n = disk[cur] /\ Ported(n) /\ Ported(n)'
         /\ disk' = disk \/ disk' = [disk EXCEPT ![cur] = None]
<1>0. PICK n \in Contents : n = disk[cur] /\ Ported(n)
  BY DEF MigrateRemove, TransactionPorts, StepsInOrder, Ported
<1>1. /\ cur # None /\ cur \notin Rows(tx) /\ phase = "rechecksum" /\ phase' = "commit"
      /\ tx' = [tx EXCEPT !.rows[n] = 0] /\ UNCHANGED <<db, cur>>
      /\ disk' = disk \/ disk' = [disk EXCEPT ![cur] = None]
  BY <1>0 DEF MigrateRemove
<1>2. n \in Contents /\ Ported(n) /\ cur \notin Contents
  BY <1>0, <1>1 DEF TransactionPorts
<1>3. tx \in Database /\ n \in Rows(tx)
  BY <1>1, <1>2 DEF Typed, Ported
<1>4. /\ tx' \in Database /\ Rows(tx') = Rows(tx) /\ tx'.rows[n] = 0
      /\ \A c \in Rows(tx) : c # n => tx'.rows[c] = tx.rows[c]
      /\ tx'.version = tx.version /\ tx'.analysis = tx.analysis /\ tx'.players = tx.players
      /\ tx'.titles = tx.titles /\ tx'.paths = tx.paths
  BY <1>1, <1>3, DatabaseFacts DEF Rows
<1>5. Ported(n)'
  <2>1. /\ tx'.version = db.version /\ Rows(tx') = (Rows(db) \ {cur}) \cup {n}
        /\ \A c \in Rows(db) \ {cur} : tx'.rows[c] = db.rows[c]
    BY <1>2, <1>4 DEF Ported
  <2>2. /\ tx'.analysis = Renamed(db.analysis, cur, n) /\ tx'.players = Renamed(db.players, cur, n)
        /\ tx'.titles = Rekeyed(db.titles, cur, n) /\ DOMAIN tx'.paths = DOMAIN db.paths
        /\ \A p \in DOMAIN db.paths : tx'.paths[p] = IF db.paths[p] = cur THEN n ELSE db.paths[p]
    BY <1>2, <1>4 DEF Ported
  <2>3. n \in Contents /\ n \notin Rows(db)
    BY <1>2 DEF Ported
  <2>4. /\ n \notin Rows(db') /\ phase' # "rechecksum"
        /\ Rows(tx') = (Rows(db') \ {cur'}) \cup {n}
        /\ \A c \in Rows(db') \ {cur'} : tx'.rows[c] = db'.rows[c]
        /\ DOMAIN tx'.paths = DOMAIN db'.paths
        /\ \A p \in DOMAIN db'.paths : tx'.paths[p] = IF db'.paths[p] = cur' THEN n ELSE db'.paths[p]
    BY <1>1, <2>1, <2>2, <2>3
  <2>5. QED
    BY <1>1, <1>4, <2>1, <2>2, <2>3, <2>4 DEF Ported
<1>6. QED
  BY <1>0, <1>1, <1>2, <1>4, <1>5

LEMMA CommitEffect ==
  ASSUME Typed, StepsInOrder, TransactionPorts, MigrateCommit
  PROVE  \E n \in Contents :
            /\ cur \in Rows(db) /\ cur \notin Contents /\ n \notin Rows(db)
            /\ db' \in Database /\ db'.version = db.version
            /\ Rows(db') = (Rows(db) \ {cur}) \cup {n}
            /\ db'.rows[n] = 0 /\ \A c \in Rows(db) \ {cur} : db'.rows[c] = db.rows[c]
            /\ db'.analysis = Renamed(db.analysis, cur, n)
            /\ db'.players = Renamed(db.players, cur, n)
            /\ db'.titles = Rekeyed(db.titles, cur, n)
            /\ DOMAIN db'.paths = DOMAIN db.paths
            /\ \A p \in DOMAIN db.paths :
                  db'.paths[p] = IF db.paths[p] = cur THEN n ELSE db.paths[p]
<1>1. cur # None /\ phase = "commit" /\ db' = tx /\ tx \in Database /\ cur \in Rows(db)
  BY DEF MigrateCommit, StepsInOrder, Typed
<1>2. PICK n \in Contents : Ported(n)
  BY <1>1 DEF TransactionPorts
<1>3. cur \notin Contents
  BY <1>1 DEF TransactionPorts
<1>4. QED
  BY <1>1, <1>2, <1>3 DEF Ported

-----------------------------------------------------------------------------
(* The parts of the invariant, one at a time.                              *)

\* What lies in the place of the copy stays, and the transaction goes on without copying.
LEMMA CopyEffect ==
  ASSUME Typed, NEW c \in Names, MigrateCopy(c)
  PROVE  /\ cur = None /\ phase = "rechecksum" /\ cur' = c /\ tx' = db /\ tx' \in Database
         /\ disk[c] \in Contents /\ disk[c] # c /\ disk[c] \notin Rows(db) /\ c \in todo
         /\ disk' \in [Names -> Contents \cup {None, Corrupt}]
         /\ \A x \in Names : x # disk[c] => disk'[x] = disk[x]
         /\ IF disk[disk[c]] = None THEN disk'[disk[c]] = Corrupt /\ phase' = "copy"
                                    ELSE disk' = disk /\ phase' = phase
         /\ UNCHANGED <<db, schema, todo, shown, asked, faults, quiet>>
<1>1. disk[c] \in Contents /\ disk[c] \in Names
  BY ConstantFacts DEF MigrateCopy, Readable
<1>2. CASE disk[disk[c]] = None
  BY <1>1, <1>2 DEF MigrateCopy, Typed
<1>3. CASE disk[disk[c]] # None
  BY <1>1, <1>3 DEF MigrateCopy, Typed
<1>4. QED
  BY <1>2, <1>3

\* The copy has grown to the whole match, under the checksum of the match.
LEMMA CopyEndsEffect ==
  ASSUME Typed, StepsInOrder, TransactionPorts, CopyEnds
  PROVE  /\ phase = "copy" /\ phase' = "rechecksum" /\ tx = db
         /\ cur \in Names /\ cur \notin Contents /\ disk[cur] \in Contents /\ disk[cur] \in Names
         /\ disk' \in [Names -> Contents \cup {None, Corrupt}]
         /\ \A x \in Names : x # disk[cur] => disk'[x] = disk[x]
         /\ disk'[disk[cur]] = disk[cur]
         /\ UNCHANGED <<db, tx, schema, todo, cur, shown, asked, faults, quiet>>
<1>1. phase = "copy" /\ cur # None /\ tx = db /\ cur \notin Contents /\ disk[cur] \in Contents
  BY DEF CopyEnds, StepsInOrder, TransactionPorts, Readable
<1>2. cur \in Names /\ disk[cur] \in Names
  BY <1>1, ConstantFacts DEF Typed
<1>3. QED
  BY <1>1, <1>2 DEF CopyEnds, Typed

\* A failing statement changes the store only where a copy was under way.
LEMMA StatementFailsEffect ==
  ASSUME Typed, StepsInOrder, TransactionPorts, StatementFails
  PROVE  /\ cur' = None /\ tx' = None /\ todo' \subseteq todo
         /\ phase \in {"rechecksum", "copy", "commit", "reanalysis"}
         /\ phase' = IF phase \in {"commit", "copy"} THEN "rechecksum" ELSE phase
         /\ disk' \in [Names -> Contents \cup {None, Corrupt}]
         /\ \/ disk' = disk
            \/ /\ phase = "copy" /\ cur \in Names /\ cur \notin Contents
               /\ disk[cur] \in Contents /\ disk[cur] \notin Rows(db)
               /\ \A x \in Names : x # disk[cur] => disk'[x] = disk[x]
               /\ disk'[disk[cur]] = None
         /\ UNCHANGED <<db, schema, shown, asked>> /\ quiet' = FALSE
<1>1. /\ cur' = None /\ tx' = None /\ todo' \subseteq todo
      /\ phase \in {"rechecksum", "copy", "commit", "reanalysis"}
      /\ phase' = IF phase \in {"commit", "copy"} THEN "rechecksum" ELSE phase
      /\ UNCHANGED <<db, schema, shown, asked>> /\ quiet' = FALSE
  BY DEF StatementFails, Fault
<1>2. CASE phase = "copy"
  <2>1. /\ cur # None /\ cur \notin Contents
        /\ disk[cur] \in Contents /\ disk[cur] \notin Rows(db)
        /\ disk' = [disk EXCEPT ![disk[cur]] = None]
    BY <1>2 DEF StatementFails, StepsInOrder, TransactionPorts, Readable
  <2>2. cur \in Names /\ disk[cur] \in Names
    BY <2>1, ConstantFacts DEF Typed
  <2>3. QED
    BY <1>1, <1>2, <2>1, <2>2 DEF Typed
<1>3. CASE phase # "copy"
  <2>1. disk' = disk
    BY <1>3 DEF StatementFails
  <2>2. QED
    BY <1>1, <2>1 DEF Typed
<1>4. QED
  BY <1>2, <1>3

\* The copy of an ingestion that was cut off, in a place that was empty.
LEMMA IngestCutOffEffect ==
  ASSUME Typed, NEW n \in Contents, IngestCutOff(n)
  PROVE  /\ phase = "idle" /\ phase' = "off" /\ n \notin Rows(db) /\ disk[n] = None
         /\ disk' \in [Names -> Contents \cup {None, Corrupt}]
         /\ \A x \in Names : x # n => disk'[x] = disk[x]
         /\ disk'[n] \in {n, Corrupt}
         /\ UNCHANGED <<db, tx, schema, todo, cur>>
         /\ shown' = {} /\ asked' = None /\ quiet' = FALSE
<1>1. n \in Names
  BY ConstantFacts
<1>2. PICK copied \in {n, Corrupt} : disk' = [disk EXCEPT ![n] = copied]
  BY DEF IngestCutOff
<1>3. QED
  BY <1>1, <1>2 DEF IngestCutOff, Fault, Typed

\* Whether a start is stuck depends on two numbers alone.
LEMMA StuckStays ==
  ASSUME db'.version = db.version, schema' = schema
  PROVE  Stuck' <=> Stuck
BY DEF Stuck, Repeatable

LEMMA FaultsAreBounded ==
  ASSUME Typed, faults < MaxFaults, faults' = faults + 1
  PROVE  faults' \in 0 .. MaxFaults
BY ConstantFacts DEF Typed

\* Every variable keeps its type.
LEMMA TypedStep == IInv /\ [Next]_vars => Typed'
<1> SUFFICES ASSUME IInv, [Next]_vars
             PROVE  Typed'
  OBVIOUS
<1>0. Typed /\ StepsInOrder /\ TransactionPorts
  BY DEF IInv
<1>1. CASE Start \/ Load \/ BeginReanalysis \/ BeginRechecksum \/ EndSweep \/ Quit \/ UNCHANGED vars
  <2>1. Rows(db) \subseteq Names /\ NeedRechecksum(db) \subseteq Names /\ NeedAnalysis(db) \subseteq Names
    BY <1>0, DatabaseFacts DEF Typed, NeedRechecksum, NeedAnalysis
  <2>2. CASE Start
    BY <1>0, <2>2 DEF Start, Typed
  <2>3. CASE Load
    BY <1>0, <2>1, <2>3 DEF Load, Typed
  <2>4. CASE BeginRechecksum
    BY <1>0, <2>1, <2>4 DEF BeginRechecksum, Typed
  <2>5. CASE BeginReanalysis
    BY <1>0, <2>1, <2>5 DEF BeginReanalysis, Typed
  <2>6. CASE EndSweep
    BY <1>0, <2>1, <2>6 DEF EndSweep, Typed
  <2>7. CASE Quit
    BY <1>0, <2>7 DEF Quit, Typed
  <2>8. CASE UNCHANGED vars
    BY <1>0, <2>8 DEF vars, Typed
  <2>9. QED
    BY <1>1, <2>2, <2>3, <2>4, <2>5, <2>6, <2>7, <2>8
<1>2. CASE Migrate
  <2>1. CASE schema < db.version + 1 \/ Repeatable(db.version + 1)
    <3>1. db' \in Database /\ schema' \in 0 .. Last /\ phase' = "number"
      BY <1>0, <1>2, <2>1, MigrateEffect, ConstantFacts
    <3>2. QED
      BY <1>0, <1>2, <3>1 DEF Migrate, Typed
  <2>2. CASE ~(schema < db.version + 1 \/ Repeatable(db.version + 1))
    BY <1>0, <1>2, <2>2 DEF Migrate, Typed
  <2>3. QED
    BY <2>1, <2>2
<1>3. CASE NumberMigration
  BY <1>0, <1>3, NumberEffect DEF NumberMigration, Typed
<1>4. ASSUME NEW c \in Names, MarkChecked(c)
      PROVE  Typed'
  BY <1>0, <1>4, MarkEffect DEF MarkChecked, Typed
<1>5. ASSUME NEW c \in Names, DeleteDuplicate(c)
      PROVE  Typed'
  BY <1>0, <1>5, DuplicateEffect DEF DeleteDuplicate, Typed
<1>6. ASSUME NEW c \in Names, SkipUnreadable(c)
      PROVE  Typed'
  BY <1>0, <1>6 DEF SkipUnreadable, Typed
<1>7. ASSUME NEW c \in Names, MigrateCopy(c)
      PROVE  Typed'
  BY <1>0, <1>7, CopyEffect, ConstantFacts DEF Typed
<1>8. CASE MigrateRows
  <2>1. CASE ~Conflicts(cur, disk[cur])
    <3>1. /\ tx' \in Database /\ cur # None
          /\ UNCHANGED <<phase, disk, db, schema, todo, cur, shown, asked, faults, quiet>>
      BY <1>0, <1>8, <2>1, PortEffect DEF MigrateRows
    <3>2. QED
      BY <1>0, <3>1 DEF Typed
  <2>2. CASE Conflicts(cur, disk[cur])
    BY <1>0, <1>8, <2>2 DEF MigrateRows, Typed
  <2>3. QED
    BY <2>1, <2>2
<1>9. CASE MigrateRemove
  <2>1. tx' \in Database /\ (disk' = disk \/ disk' = [disk EXCEPT ![cur] = None])
    BY <1>0, <1>9, RemoveEffect
  <2>2. QED
    BY <1>0, <1>9, <2>1 DEF MigrateRemove, Typed
<1>10. CASE MigrateCommit
  BY <1>0, <1>10 DEF MigrateCommit, Typed, StepsInOrder
<1>11. ASSUME NEW c \in Names, Reanalyse(c)
       PROVE  Typed'
  BY <1>0, <1>11, ReanalyseEffect DEF Reanalyse, Typed
<1>12. ASSUME NEW n \in Contents, NEW p \in Paths, Ingest(n, p)
       PROVE  Typed'
  <2>1. CASE n \in Rows(db)
    BY <1>0, <1>12, <2>1, IngestKnownEffect DEF Ingest, Typed
  <2>2. CASE n \notin Rows(db)
    <3>1. db' \in Database /\ disk' = [disk EXCEPT ![n] = n] /\ shown' = shown \cup {n}
      BY <1>0, <1>12, <2>2, IngestNewEffect
    <3>2. n \in Names
      BY ConstantFacts
    <3>3. QED
      BY <1>0, <1>12, <3>1, <3>2 DEF Ingest, Typed
  <2>3. QED
    BY <2>1, <2>2
<1>13. ASSUME NEW c \in Names, NEW t \in Titles \cup {None}, AskTitle(c, t)
       PROVE  Typed'
  BY <1>0, <1>13 DEF AskTitle, Typed
<1>14. CASE SetOverrideTitle
  BY <1>0, <1>14, TitleEffect DEF SetOverrideTitle, Typed
<1>15. CASE StatementFails
  <2>1. faults' \in 0 .. MaxFaults /\ quiet' \in BOOLEAN
    BY <1>0, <1>15, FaultsAreBounded DEF StatementFails, Fault
  <2>2. cur' = None /\ tx' = None
        /\ disk' \in [Names -> Contents \cup {None, Corrupt}]
    BY <1>0, <1>15, StatementFailsEffect
  <2>3. QED
    BY <1>0, <1>15, <2>1, <2>2 DEF StatementFails, Typed
<1>16. CASE MigrationFails
  <2>1. faults' \in 0 .. MaxFaults /\ quiet' \in BOOLEAN
    BY <1>0, <1>16, FaultsAreBounded DEF MigrationFails, Fault
  <2>2. QED
    BY <1>0, <1>16, <2>1 DEF MigrationFails, Typed
<1>17. CASE Crash
  <2>1. faults' \in 0 .. MaxFaults /\ quiet' \in BOOLEAN
    BY <1>0, <1>17, FaultsAreBounded DEF Crash, Fault
  <2>2. QED
    BY <1>0, <1>17, <2>1 DEF Crash, Typed
<1>18. CASE CopyEnds
  BY <1>0, <1>18, CopyEndsEffect DEF Typed
<1>19. ASSUME NEW n \in Contents, IngestCutOff(n)
       PROVE  Typed'
  <2>1. faults' \in 0 .. MaxFaults /\ quiet' \in BOOLEAN
    BY <1>0, <1>19, FaultsAreBounded DEF IngestCutOff, Fault
  <2>2. QED
    BY <1>0, <1>19, <2>1, IngestCutOffEffect DEF Typed
<1>20. QED
  BY <1>1, <1>2, <1>3, <1>4, <1>5, <1>6, <1>7, <1>8, <1>9, <1>10, <1>11, <1>12, <1>13, <1>14,
     <1>15, <1>16, <1>17, <1>18, <1>19 DEF Next, Heal

\* The loops run in the order of the code, each over rows that exist.
LEMMA OrderStep == IInv /\ [Next]_vars => StepsInOrder'
<1> SUFFICES ASSUME IInv, [Next]_vars
             PROVE  StepsInOrder'
  OBVIOUS
<1>0. Typed /\ StepsInOrder /\ TransactionPorts
  BY DEF IInv
<1>a. /\ schema' = schema /\ db'.version = db.version => (Stuck' <=> Stuck)
      /\ db \in Database
  BY <1>0, StuckStays DEF Typed
<1> USE DEF StepsInOrder, NoMigrationIsSkipped
<1>1. CASE Start \/ Load \/ BeginReanalysis \/ BeginRechecksum \/ EndSweep \/ Quit \/ UNCHANGED vars
  <2>1. CASE Start \/ Load \/ EndSweep \/ Quit
    BY <1>0, <1>a, <2>1, ConstantFacts DEF Start, Load, EndSweep, Quit
  <2>2. CASE BeginRechecksum
    BY <1>0, <1>a, <2>2, ConstantFacts DEF BeginRechecksum, NeedRechecksum, Typed
  <2>3. CASE BeginReanalysis
    BY <1>0, <1>a, <2>3, ConstantFacts DEF BeginReanalysis, NeedAnalysis, Typed
  <2>4. CASE UNCHANGED vars
    BY <1>0, <1>a, <2>4 DEF vars
  <2>5. QED
    BY <1>1, <2>1, <2>2, <2>3, <2>4
<1>2. CASE Migrate
  <2>1. CASE schema < db.version + 1 \/ Repeatable(db.version + 1)
    <3>1. db'.version = db.version /\ schema' = db.version + 1 /\ phase' = "number"
          /\ schema' \in 1 .. 23
      BY <1>0, <1>2, <2>1, MigrateEffect
    <3>2. db'.version \in {schema' - 1, schema'} /\ schema' = db'.version + 1
      BY <3>1, <1>0, DatabaseFacts DEF Typed
    <3>3. QED
      BY <1>0, <1>2, <3>1, <3>2 DEF Migrate
  <2>2. CASE ~(schema < db.version + 1 \/ Repeatable(db.version + 1))
    <3>1. phase' = "load" /\ UNCHANGED <<db, schema, todo, cur, quiet>> /\ db.version < Last
      BY <1>2, <2>2 DEF Migrate
    <3>2. Stuck
      BY <1>0, <2>2, <3>1, DatabaseFacts DEF Stuck, Typed
    <3>3. QED
      BY <1>0, <1>a, <1>2, <3>1, <3>2 DEF Migrate
  <2>3. QED
    BY <2>1, <2>2
<1>3. CASE NumberMigration
  BY <1>0, <1>3, NumberEffect DEF NumberMigration
<1>4. ASSUME NEW c \in Names, MarkChecked(c)
      PROVE  StepsInOrder'
  <2>1. db'.version = db.version /\ Rows(db') = Rows(db)
    BY <1>0, <1>4, MarkEffect
  <2>2. QED
    BY <1>0, <1>a, <1>4, <2>1 DEF MarkChecked
<1>5. ASSUME NEW c \in Names, DeleteDuplicate(c)
      PROVE  StepsInOrder'
  <2>1. db'.version = db.version /\ Rows(db') = Rows(db) \ {c}
    BY <1>0, <1>5, DuplicateEffect
  <2>2. QED
    BY <1>0, <1>a, <1>5, <2>1 DEF DeleteDuplicate
<1>6. ASSUME NEW c \in Names, SkipUnreadable(c)
      PROVE  StepsInOrder'
  BY <1>0, <1>a, <1>6 DEF SkipUnreadable
<1>7. ASSUME NEW c \in Names, MigrateCopy(c)
      PROVE  StepsInOrder'
  BY <1>0, <1>a, <1>7, CopyEffect, ConstantFacts
<1>8. CASE MigrateRows
  <2>1. phase = "rechecksum"
    BY <1>0, <1>8 DEF MigrateRows, TransactionPorts, Ported
  <2>2. QED
    BY <1>0, <1>a, <1>8, <2>1 DEF MigrateRows
<1>9. CASE MigrateRemove
  BY <1>0, <1>a, <1>9 DEF MigrateRemove
<1>10. CASE MigrateCommit
  <2>1. db'.version = db.version /\ Rows(db) \ {cur} \subseteq Rows(db')
    BY <1>0, <1>10, CommitEffect
  <2>2. QED
    BY <1>0, <1>a, <1>10, <2>1 DEF MigrateCommit
<1>11. ASSUME NEW c \in Names, Reanalyse(c)
       PROVE  StepsInOrder'
  <2>1. db'.version = db.version /\ Rows(db') = Rows(db)
    BY <1>0, <1>11, ReanalyseEffect DEF Rows
  <2>2. QED
    BY <1>0, <1>a, <1>11, <2>1 DEF Reanalyse
<1>12. ASSUME NEW n \in Contents, NEW p \in Paths, Ingest(n, p)
       PROVE  StepsInOrder'
  <2>1. db'.version = db.version
    BY <1>0, <1>12, IngestKnownEffect, IngestNewEffect
  <2>2. QED
    BY <1>0, <1>a, <1>12, <2>1 DEF Ingest
<1>13. ASSUME NEW c \in Names, NEW t \in Titles \cup {None}, AskTitle(c, t)
       PROVE  StepsInOrder'
  BY <1>0, <1>a, <1>13 DEF AskTitle
<1>14. CASE SetOverrideTitle
  <2>1. db'.version = db.version
    BY <1>0, <1>14, TitleEffect
  <2>2. QED
    BY <1>0, <1>a, <1>14, <2>1 DEF SetOverrideTitle, Free
<1>15. CASE StatementFails
  BY <1>0, <1>a, <1>15, StatementFailsEffect
<1>16. CASE MigrationFails
  BY <1>0, <1>a, <1>16 DEF MigrationFails, Fault
<1>17. CASE Crash
  BY <1>0, <1>a, <1>17 DEF Crash
<1>18. CASE CopyEnds
  BY <1>0, <1>a, <1>18, CopyEndsEffect
<1>19. ASSUME NEW n \in Contents, IngestCutOff(n)
       PROVE  StepsInOrder'
  BY <1>0, <1>a, <1>19, IngestCutOffEffect
<1>20. QED
  BY <1>1, <1>2, <1>3, <1>4, <1>5, <1>6, <1>7, <1>8, <1>9, <1>10, <1>11, <1>12, <1>13, <1>14,
     <1>15, <1>16, <1>17, <1>18, <1>19 DEF Next, Heal

\* A row under a true checksum is never removed.
LEMMA TrueRowsStay ==
  ASSUME IInv, [Next]_vars
  PROVE  Rows(db) \cap Contents \subseteq Rows(db')
<1>0. Typed /\ StepsInOrder /\ TransactionPorts /\ StoreIsTrue
  BY DEF IInv
<1>1. CASE Migrate
  <2>1. CASE schema < db.version + 1 \/ Repeatable(db.version + 1)
    BY <1>0, <1>1, <2>1, MigrateEffect
  <2>2. CASE ~(schema < db.version + 1 \/ Repeatable(db.version + 1))
    BY <1>1, <2>2 DEF Migrate
  <2>3. QED
    BY <2>1, <2>2
<1>2. CASE NumberMigration
  BY <1>0, <1>2, NumberEffect DEF Rows
<1>3. ASSUME NEW c \in Names, MarkChecked(c)
      PROVE  Rows(db) \cap Contents \subseteq Rows(db')
  BY <1>0, <1>3, MarkEffect
<1>4. ASSUME NEW c \in Names, DeleteDuplicate(c)
      PROVE  Rows(db) \cap Contents \subseteq Rows(db')
  <2>1. c \notin Contents
    BY <1>0, <1>4, ConstantFacts DEF DeleteDuplicate, StoreIsTrue, Readable
  <2>2. QED
    BY <1>0, <1>4, <2>1, DuplicateEffect
<1>5. CASE MigrateCommit
  BY <1>0, <1>5, CommitEffect
<1>6. ASSUME NEW c \in Names, Reanalyse(c)
      PROVE  Rows(db) \cap Contents \subseteq Rows(db')
  BY <1>0, <1>6, ReanalyseEffect DEF Rows
<1>7. ASSUME NEW n \in Contents, NEW p \in Paths, Ingest(n, p)
      PROVE  Rows(db) \cap Contents \subseteq Rows(db')
  <2>1. CASE n \in Rows(db)
    BY <1>0, <1>7, <2>1, IngestKnownEffect DEF Rows
  <2>2. CASE n \notin Rows(db)
    BY <1>0, <1>7, <2>2, IngestNewEffect
  <2>3. QED
    BY <2>1, <2>2
<1>8. CASE SetOverrideTitle
  BY <1>0, <1>8, TitleEffect DEF Rows
<1>9. CASE UNCHANGED db
  BY <1>9
<1>10. QED
  BY <1>1, <1>2, <1>3, <1>4, <1>5, <1>6, <1>7, <1>8, <1>9
  DEF Next, Heal, Start, Load, BeginRechecksum, MigrateRows, MigrateRemove, BeginReanalysis,
      EndSweep, SkipUnreadable, MigrateCopy, CopyEnds, AskTitle, Quit, StatementFails,
      MigrationFails, Crash, IngestCutOff, vars

\* The store never holds one match under the checksum of another.
LEMMA StoreStep == IInv /\ [Next]_vars => StoreIsTrue'
<1> SUFFICES ASSUME IInv, [Next]_vars
             PROVE  StoreIsTrue'
  OBVIOUS
<1>0. Typed /\ StepsInOrder /\ TransactionPorts /\ StoreIsTrue /\ Contents \subseteq Names
      /\ Rows(db) \cap Contents \subseteq Rows(db')
  BY TrueRowsStay, ConstantFacts DEF IInv
<1> USE DEF StoreIsTrue
<1>1. ASSUME NEW c \in Names, MigrateCopy(c)
      PROVE  StoreIsTrue'
  BY <1>0, <1>1, CopyEffect, ConstantFacts
<1>2. CASE MigrateRemove
  BY <1>0, <1>2, RemoveEffect, ConstantFacts DEF Typed
<1>3. ASSUME NEW n \in Contents, NEW p \in Paths, Ingest(n, p)
      PROVE  StoreIsTrue'
  <2>1. CASE n \in Rows(db)
    BY <1>0, <1>3, <2>1 DEF Ingest
  <2>2. CASE n \notin Rows(db)
    BY <1>0, <1>3, <2>2, IngestNewEffect, ConstantFacts DEF Typed
  <2>3. QED
    BY <2>1, <2>2
<1>4. CASE UNCHANGED disk
  BY <1>0, <1>4
<1>5. CASE CopyEnds
  BY <1>0, <1>5, CopyEndsEffect
<1>6. CASE StatementFails
  BY <1>0, <1>6, StatementFailsEffect
<1>7. ASSUME NEW n \in Contents, IngestCutOff(n)
      PROVE  StoreIsTrue'
  BY <1>0, <1>7, IngestCutOffEffect
<1>8. QED
  BY <1>1, <1>2, <1>3, <1>4, <1>5, <1>6, <1>7
  DEF Next, Heal, Start, Migrate, NumberMigration, Load, BeginRechecksum, MigrateRows, MigrateCommit,
      BeginReanalysis, EndSweep, SkipUnreadable, MarkChecked, DeleteDuplicate, Reanalyse, AskTitle,
      SetOverrideTitle, Quit, MigrationFails, Crash, vars

\* While a row moves nothing else changes the database, and its copy stays.
LEMMA TransactionStep == IInv /\ [Next]_vars => TransactionPorts'
<1> SUFFICES ASSUME IInv, [Next]_vars
             PROVE  TransactionPorts'
  OBVIOUS
<1>0. Typed /\ StepsInOrder /\ TransactionPorts /\ StoreIsTrue
  BY DEF IInv
<1>1. ASSUME NEW c \in Names, MigrateCopy(c)
      PROVE  TransactionPorts'
  <2>1. /\ cur' = c /\ tx' = db /\ db' = db /\ c \notin Contents /\ phase' \in {"rechecksum", "copy"}
        /\ disk[c] \in Contents /\ disk[c] # c /\ disk[c] \notin Rows(db)
    BY <1>0, <1>1, CopyEffect, ConstantFacts DEF StoreIsTrue
  <2>2. disk[disk[c]] \in {disk[c], None, Corrupt}
    BY <1>0, <2>1 DEF StoreIsTrue
  <2>3. disk'[c] = disk[c]
    BY <1>1, <1>0, <2>1, CopyEffect
  <2>4. phase' = "rechecksum" => disk'[disk[c]] \in {disk[c], Corrupt}
    BY <1>1, <1>0, <2>2, CopyEffect
  <2>5. QED
    BY <2>1, <2>3, <2>4 DEF TransactionPorts, Readable
<1>2. CASE MigrateRows
  <2>1. CASE ~Conflicts(cur, disk[cur])
    <3>1. /\ Ported(disk[cur])' /\ disk[cur] \in Contents
          /\ UNCHANGED <<phase, disk, db, schema, todo, cur, shown, asked, faults, quiet>>
      BY <1>0, <1>2, <2>1, PortEffect
    <3>2. \E n \in Contents : Ported(n)'
      BY <3>1
    <3>3. QED
      BY <1>0, <3>1, <3>2 DEF TransactionPorts, Readable
  <2>2. CASE Conflicts(cur, disk[cur])
    BY <1>2, <2>2 DEF MigrateRows, TransactionPorts
  <2>3. QED
    BY <2>1, <2>2
<1>3. CASE MigrateRemove
  <2>1. cur \notin Contents /\ \E n \in Contents : Ported(n)'
    BY <1>0, <1>3, RemoveEffect
  <2>2. QED
    BY <1>3, <2>1 DEF MigrateRemove, TransactionPorts
<1>4. CASE UNCHANGED <<cur, tx, db, disk, phase>>
  <2>1. \A n : Ported(n) => Ported(n)'
    BY <1>4 DEF Ported
  <2>2. QED
    BY <1>0, <1>4, <2>1 DEF TransactionPorts, Readable
<1>5. CASE cur' = None
  BY <1>5 DEF TransactionPorts
<1>6. CASE cur # None /\ cur' # None
  <2>1. CASE \E c \in Names : \/ SkipUnreadable(c) \/ MarkChecked(c) \/ DeleteDuplicate(c)
                              \/ MigrateCopy(c) \/ Reanalyse(c)
    BY <1>0, <1>6, <2>1 DEF SkipUnreadable, MarkChecked, DeleteDuplicate, MigrateCopy, Reanalyse,
       StepsInOrder
  <2>2. CASE \/ Start \/ Migrate \/ NumberMigration \/ Load \/ BeginReanalysis \/ EndSweep \/ Quit
             \/ BeginRechecksum \/ MigrateCommit
             \/ \E n \in Contents, p \in Paths : Ingest(n, p)
    BY <1>0, <1>6, <2>2 DEF Start, Migrate, NumberMigration, Load, BeginReanalysis, EndSweep, Quit,
       BeginRechecksum, MigrateCommit, Ingest, StepsInOrder
  <2>3. CASE \/ SetOverrideTitle \/ MigrationFails \/ StatementFails \/ Crash \/ UNCHANGED vars
             \/ \E c \in Names, t \in Titles \cup {None} : AskTitle(c, t)
    BY <1>0, <1>4, <1>6, <2>3 DEF SetOverrideTitle, Free, MigrationFails, StatementFails, Crash,
       AskTitle, vars, StepsInOrder
  <2>4. CASE CopyEnds
    <3>1. /\ phase' = "rechecksum" /\ tx' = db' /\ db' = db /\ cur' = cur
          /\ disk[cur] \in Contents /\ cur \notin Contents
          /\ disk'[disk[cur]] = disk[cur] /\ disk'[cur] = disk[cur]
      BY <1>0, <2>4, CopyEndsEffect
    <3>2. disk[cur] \notin Rows(db)
      BY <1>0, <1>6, <2>4 DEF CopyEnds, TransactionPorts
    <3>3. QED
      BY <3>1, <3>2 DEF TransactionPorts, Readable
  <2>5. CASE \E n \in Contents : IngestCutOff(n)
    BY <1>0, <1>6, <2>5 DEF IngestCutOff, StepsInOrder
  <2>6. QED
    BY <1>2, <1>3, <2>1, <2>2, <2>3, <2>4, <2>5 DEF Next, Heal
<1>7. CASE cur = None /\ cur' # None
  BY <1>1, <1>7 DEF Next, Heal, Start, Migrate, NumberMigration, Load, BeginReanalysis, EndSweep,
     Quit, BeginRechecksum, MigrateCommit, Ingest, SetOverrideTitle, MigrationFails, StatementFails,
     Crash, AskTitle, vars, SkipUnreadable, MarkChecked, DeleteDuplicate, Reanalyse, MigrateRows,
     MigrateRemove, CopyEnds, IngestCutOff
<1>8. QED
  BY <1>5, <1>6, <1>7

\* Links move with their row, and go with it.
LEMMA LinksStep == IInv /\ [Next]_vars => LinksHaveRows'
<1> SUFFICES ASSUME IInv, [Next]_vars
             PROVE  LinksHaveRows'
  OBVIOUS
<1>0. Typed /\ StepsInOrder /\ TransactionPorts /\ LinksHaveRows
  BY DEF IInv
<1> USE DEF LinksHaveRows
<1>1. CASE Migrate
  <2>1. CASE schema < db.version + 1 \/ Repeatable(db.version + 1)
    <3>1. Rows(db') = Rows(db) /\ (db'.paths = db.paths \/ db'.paths = <<>>)
      BY <1>0, <1>1, <2>1, MigrateEffect
    <3>2. QED
      BY <1>0, <3>1
  <2>2. CASE ~(schema < db.version + 1 \/ Repeatable(db.version + 1))
    BY <1>0, <1>1, <2>2 DEF Migrate, Rows
  <2>3. QED
    BY <2>1, <2>2
<1>2. CASE NumberMigration
  BY <1>0, <1>2, NumberEffect DEF Rows
<1>3. ASSUME NEW c \in Names, MarkChecked(c)
      PROVE  LinksHaveRows'
  BY <1>0, <1>3, MarkEffect
<1>4. ASSUME NEW c \in Names, DeleteDuplicate(c)
      PROVE  LinksHaveRows'
  BY <1>0, <1>4, DuplicateEffect
<1>5. CASE MigrateCommit
  BY <1>0, <1>5, CommitEffect
<1>6. ASSUME NEW c \in Names, Reanalyse(c)
      PROVE  LinksHaveRows'
  BY <1>0, <1>6, ReanalyseEffect DEF Rows
<1>7. ASSUME NEW n \in Contents, NEW p \in Paths, Ingest(n, p)
      PROVE  LinksHaveRows'
  <2>1. CASE n \in Rows(db)
    BY <1>0, <1>7, <2>1, IngestKnownEffect DEF Rows
  <2>2. CASE n \notin Rows(db)
    BY <1>0, <1>7, <2>2, IngestNewEffect
  <2>3. QED
    BY <2>1, <2>2
<1>8. CASE SetOverrideTitle
  BY <1>0, <1>8, TitleEffect DEF Rows
<1>9. CASE UNCHANGED db
  BY <1>0, <1>9 DEF Rows
<1>10. QED
  BY <1>1, <1>2, <1>3, <1>4, <1>5, <1>6, <1>7, <1>8, <1>9
  DEF Next, Heal, Start, Load, BeginRechecksum, MigrateRows, MigrateRemove, BeginReanalysis,
      EndSweep, SkipUnreadable, MigrateCopy, CopyEnds, AskTitle, Quit, StatementFails,
      MigrationFails, Crash, IngestCutOff, vars

\* The flag of a row is cleared only when its checksum is that of its file.
LEMMA FlagStep == IInv /\ [Next]_vars => UncheckedRowsStayFlagged'
<1> SUFFICES ASSUME IInv, [Next]_vars
             PROVE  UncheckedRowsStayFlagged'
  OBVIOUS
<1>0. /\ Typed /\ StepsInOrder /\ TransactionPorts /\ StoreIsTrue /\ UncheckedRowsStayFlagged
      /\ Contents \subseteq Names /\ None \notin Contents /\ Corrupt \notin Contents
      /\ Rows(db) \subseteq Names
  BY ConstantFacts, DatabaseFacts DEF IInv, Typed
<1>a. StoreIsTrue'
  BY StoreStep
<1> USE DEF UncheckedRowsStayFlagged, Readable
<1>1. CASE Migrate
  <2>1. CASE schema < db.version + 1 \/ Repeatable(db.version + 1)
    <3>1. /\ Rows(db') = Rows(db) /\ schema' = db.version + 1
          /\ \A c \in Rows(db) : db'.rows[c] = IF schema' = 20 THEN 1 ELSE db.rows[c]
      BY <1>0, <1>1, <2>1, MigrateEffect
    <3>2. UNCHANGED disk /\ db.version \in {schema - 1, schema} /\ schema \in Nat
      BY <1>0, <1>1, ConstantFacts DEF Migrate, StepsInOrder, NoMigrationIsSkipped, Typed
    <3>3. CASE schema' = 20
      BY <3>1, <3>3
    <3>4. CASE schema' > 20
      BY <1>0, <3>1, <3>2, <3>4, ConstantFacts
    <3>5. CASE schema' < 20
      <4>1. schema' \in Nat
        BY <3>1, <3>2
      <4>2. ~(schema' >= FlagAt + 1)
        BY <3>5, <4>1, ConstantFacts
      <4>3. QED
        BY <4>2
    <3>6. schema' \in Nat
      BY <3>1, <3>2
    <3>7. QED
      BY <3>3, <3>4, <3>5, <3>6
  <2>2. CASE ~(schema < db.version + 1 \/ Repeatable(db.version + 1))
    BY <1>0, <1>1, <2>2 DEF Migrate, Rows
  <2>3. QED
    BY <2>1, <2>2
<1>2. CASE NumberMigration
  BY <1>0, <1>2, NumberEffect DEF NumberMigration, Rows
<1>3. ASSUME NEW c \in Names, MarkChecked(c)
      PROVE  UncheckedRowsStayFlagged'
  BY <1>0, <1>3, MarkEffect DEF MarkChecked
<1>4. ASSUME NEW c \in Names, DeleteDuplicate(c)
      PROVE  UncheckedRowsStayFlagged'
  <2>1. /\ Rows(db') = Rows(db) \ {c} /\ UNCHANGED <<disk, schema>>
        /\ \A x \in Rows(db') : db'.rows[x] = db.rows[x]
    BY <1>0, <1>4, DuplicateEffect DEF DeleteDuplicate
  <2>2. QED
    BY <1>0, <2>1
<1>5. CASE MigrateCommit
  <2>1. PICK n \in Contents :
           /\ Rows(db') = (Rows(db) \ {cur}) \cup {n}
           /\ \A c \in Rows(db) \ {cur} : db'.rows[c] = db.rows[c]
    BY <1>0, <1>5, CommitEffect
  <2>2. UNCHANGED <<disk, schema>>
    BY <1>5 DEF MigrateCommit
  <2>3. disk[n] \in {n, None, Corrupt}
    BY <1>0 DEF StoreIsTrue
  <2>4. QED
    BY <1>0, <2>1, <2>2, <2>3
<1>6. ASSUME NEW c \in Names, Reanalyse(c)
      PROVE  UncheckedRowsStayFlagged'
  BY <1>0, <1>6, ReanalyseEffect DEF Reanalyse, Rows
<1>7. ASSUME NEW n \in Contents, NEW p \in Paths, Ingest(n, p)
      PROVE  UncheckedRowsStayFlagged'
  <2>1. CASE n \in Rows(db)
    BY <1>0, <1>7, <2>1, IngestKnownEffect DEF Ingest, Rows
  <2>2. CASE n \notin Rows(db)
    <3>1. /\ Rows(db') = Rows(db) \cup {n} /\ UNCHANGED schema
          /\ \A c \in Rows(db) : db'.rows[c] = db.rows[c]
          /\ disk' = [disk EXCEPT ![n] = n]
      BY <1>0, <1>7, <2>2, IngestNewEffect DEF Ingest
    <3>2. disk'[n] = n /\ \A c \in Names : c # n => disk'[c] = disk[c]
      BY <1>0, <3>1 DEF Typed
    <3>3. QED
      BY <1>0, <2>2, <3>1, <3>2
  <2>3. QED
    BY <2>1, <2>2
<1>8. CASE SetOverrideTitle
  BY <1>0, <1>8, TitleEffect DEF SetOverrideTitle, Rows
<1>9. ASSUME NEW c \in Names, MigrateCopy(c)
      PROVE  UncheckedRowsStayFlagged'
  <2>1. /\ disk[c] \notin Rows(db) /\ UNCHANGED <<db, schema>>
        /\ \A x \in Names : x # disk[c] => disk'[x] = disk[x]
    BY <1>0, <1>9, CopyEffect
  <2>2. QED
    BY <1>0, <2>1
<1>10. CASE MigrateRemove
  <2>1. /\ disk' = disk \/ disk' = [disk EXCEPT ![cur] = None]
        /\ UNCHANGED <<db, schema>>
    BY <1>0, <1>10, RemoveEffect DEF MigrateRemove
  <2>2. QED
    BY <1>0, <2>1 DEF Typed
<1>11. CASE UNCHANGED <<disk, db, schema>>
  BY <1>0, <1>11 DEF Rows
<1>12. CASE CopyEnds
  <2>1. /\ disk[cur] \notin Rows(db) /\ UNCHANGED <<db, schema>>
        /\ \A x \in Names : x # disk[cur] => disk'[x] = disk[x]
    BY <1>0, <1>12, CopyEndsEffect DEF CopyEnds, TransactionPorts, StepsInOrder
  <2>2. QED
    BY <1>0, <2>1
<1>13. CASE StatementFails
  <2>1. UNCHANGED <<db, schema>>
    BY <1>0, <1>13, StatementFailsEffect
  <2>2. CASE disk' = disk
    BY <1>0, <2>1, <2>2
  <2>3. CASE /\ disk[cur] \notin Rows(db)
             /\ \A x \in Names : x # disk[cur] => disk'[x] = disk[x]
    BY <1>0, <2>1, <2>3
  <2>4. QED
    BY <1>0, <1>13, <2>2, <2>3, StatementFailsEffect
<1>14. ASSUME NEW n \in Contents, IngestCutOff(n)
       PROVE  UncheckedRowsStayFlagged'
  <2>1. /\ n \notin Rows(db) /\ UNCHANGED <<db, schema>>
        /\ \A x \in Names : x # n => disk'[x] = disk[x]
    BY <1>0, <1>14, IngestCutOffEffect
  <2>2. QED
    BY <1>0, <2>1
<1>15. QED
  BY <1>1, <1>2, <1>3, <1>4, <1>5, <1>6, <1>7, <1>8, <1>9, <1>10, <1>11, <1>12, <1>13, <1>14
  DEF Next, Heal, Start, Load, BeginRechecksum, MigrateRows, BeginReanalysis, EndSweep,
      SkipUnreadable, AskTitle, Quit, MigrationFails, Crash, vars

\* Titles and requests for titles concern rows that are there.
LEMMA TitledStep == IInv /\ [Next]_vars => TitledHaveRows'
<1> SUFFICES ASSUME IInv, [Next]_vars
             PROVE  TitledHaveRows'
  OBVIOUS
<1>0. /\ Typed /\ StepsInOrder /\ TransactionPorts /\ TitledHaveRows
      /\ Rows(db) \cap Contents \subseteq Rows(db')
  BY TrueRowsStay DEF IInv, WrongRowsCanMove
<1> USE DEF TitledHaveRows
<1>1. ASSUME DOMAIN db'.titles \subseteq DOMAIN db.titles, shown' \subseteq shown,
             asked' = asked \/ asked' = None
      PROVE  TitledHaveRows'
  BY <1>0, <1>1
<1>2. CASE Migrate
  <2>1. CASE schema < db.version + 1 \/ Repeatable(db.version + 1)
    BY <1>0, <1>1, <1>2, <2>1, MigrateEffect DEF Migrate
  <2>2. CASE ~(schema < db.version + 1 \/ Repeatable(db.version + 1))
    BY <1>1, <1>2, <2>2 DEF Migrate
  <2>3. QED
    BY <2>1, <2>2
<1>3. CASE NumberMigration
  BY <1>0, <1>1, <1>3, NumberEffect DEF NumberMigration
<1>4. ASSUME NEW c \in Names, MarkChecked(c)
      PROVE  TitledHaveRows'
  BY <1>0, <1>1, <1>4, MarkEffect DEF MarkChecked
<1>5. ASSUME NEW c \in Names, DeleteDuplicate(c)
      PROVE  TitledHaveRows'
  <2>1. DOMAIN db'.titles \subseteq DOMAIN db.titles /\ UNCHANGED <<shown, asked>>
    BY <1>0, <1>5, DuplicateEffect DEF DeleteDuplicate
  <2>2. QED
    BY <1>1, <2>1
<1>6. CASE MigrateCommit
  <2>1. PICK n \in Contents : /\ Rows(db') = (Rows(db) \ {cur}) \cup {n}
                              /\ db'.titles = Rekeyed(db.titles, cur, n)
    BY <1>0, <1>6, CommitEffect
  <2>2. DOMAIN db'.titles \subseteq DOMAIN db.titles \cup {n}
    <3>1. db.titles \in [DOMAIN db.titles -> Titles]
      BY <1>0, DatabaseFacts DEF Typed
    <3>2. QED
      BY <2>1, <3>1, RekeyedType
  <2>3. UNCHANGED <<shown, asked>>
    BY <1>6 DEF MigrateCommit
  <2>4. QED
    BY <1>0, <2>1, <2>2, <2>3
<1>7. ASSUME NEW c \in Names, Reanalyse(c)
      PROVE  TitledHaveRows'
  BY <1>0, <1>1, <1>7, ReanalyseEffect DEF Reanalyse
<1>8. ASSUME NEW n \in Contents, NEW p \in Paths, Ingest(n, p)
      PROVE  TitledHaveRows'
  <2>1. CASE n \in Rows(db)
    BY <1>0, <1>1, <1>8, <2>1, IngestKnownEffect DEF Ingest
  <2>2. CASE n \notin Rows(db)
    <3>1. /\ Rows(db') = Rows(db) \cup {n} /\ db'.titles = db.titles
          /\ shown' = shown \cup {n} /\ UNCHANGED asked
      BY <1>0, <1>8, <2>2, IngestNewEffect DEF Ingest
    <3>2. QED
      BY <1>0, <3>1
  <2>3. QED
    BY <2>1, <2>2
<1>9. CASE SetOverrideTitle
  <2>1. /\ DOMAIN db'.titles \subseteq DOMAIN db.titles \cup {asked.checksum}
        /\ asked # None /\ asked' = None /\ UNCHANGED shown
    BY <1>0, <1>9, TitleEffect DEF SetOverrideTitle
  <2>2. QED
    BY <1>0, <2>1
<1>10. ASSUME NEW c \in Names, NEW t \in Titles \cup {None}, AskTitle(c, t)
       PROVE  TitledHaveRows'
  <2>1. asked'.checksum = c /\ c \in shown /\ UNCHANGED <<db, shown>>
    BY <1>10 DEF AskTitle
  <2>2. QED
    BY <1>0, <2>1
<1>11. CASE Load \/ EndSweep
  BY <1>0, <1>11 DEF Load, EndSweep
<1>12. CASE UNCHANGED db /\ shown' \subseteq shown /\ (asked' = asked \/ asked' = None)
  BY <1>1, <1>12
<1>13. QED
  BY <1>2, <1>3, <1>4, <1>5, <1>6, <1>7, <1>8, <1>9, <1>10, <1>11, <1>12
  DEF Next, Heal, Start, BeginRechecksum, MigrateRows, MigrateRemove, BeginReanalysis,
      SkipUnreadable, MigrateCopy, CopyEnds, Quit, StatementFails, MigrationFails, Crash,
      IngestCutOff, vars

\* No analysis or players appear under the checksum of a row still to be moved to.
LEMMA KeysStep == IInv /\ [Next]_vars => WrongRowsCanMove'
<1> SUFFICES ASSUME IInv, [Next]_vars
             PROVE  WrongRowsCanMove'
  OBVIOUS
<1>0. /\ Typed /\ StepsInOrder /\ TransactionPorts /\ StoreIsTrue /\ WrongRowsCanMove
      /\ TitledHaveRows'
      /\ Contents \subseteq Names /\ None \notin Contents /\ Corrupt \notin Contents
      /\ FlagAt = 19 /\ PlayersAt = 18 /\ schema \in Nat
  BY TitledStep, ConstantFacts DEF IInv, Typed
<1> USE DEF WrongRowsCanMove, NeverReanalysed, LosesItsKeys, Wrong
<1>1. CASE Migrate
  <2>1. CASE schema < db.version + 1 \/ Repeatable(db.version + 1)
    <3> DEFINE n == db.version + 1
    <3>1. /\ n \in 1 .. 23 /\ schema' = n /\ phase' = "number" /\ Rows(db') = Rows(db)
          /\ db'.analysis = IF n = 14 THEN {} ELSE db.analysis
          /\ db'.players = IF n = 17 THEN {} ELSE db.players
      BY <1>0, <1>1, <2>1, MigrateEffect
    <3>2. schema \in {n - 1, n}
      BY <1>0, <3>1, DatabaseFacts DEF StepsInOrder, NoMigrationIsSkipped, Typed
    <3> HIDE DEF n
    <3>3. n \in 14 .. 17 => Wrong(db') \cap db'.analysis = {}
      <4>1. CASE n = 14
        BY <3>1, <4>1
      <4>2. CASE n \in 15 .. 17
        <5>1. schema \in 14 .. 17 /\ n # 14
          BY <3>1, <3>2, <4>2
        <5>2. QED
          BY <1>0, <3>1, <5>1
      <4>3. QED
        BY <3>1, <4>1, <4>2
    <3>4. n = 17 => Wrong(db') \cap db'.players = {}
      BY <3>1
    <3>5. n >= 18 => NeverReanalysed' \/ LosesItsKeys'
      <4>1. SUFFICES ASSUME n >= 18
                     PROVE  NeverReanalysed' \/ LosesItsKeys'
        OBVIOUS
      <4>2. db'.analysis = db.analysis /\ db'.players = db.players
        BY <3>1, <4>1
      <4>3. CASE schema >= 18
        BY <1>0, <3>1, <4>2, <4>3
      <4>4. CASE schema = 17
        BY <1>0, <3>1, <4>2, <4>4
      <4>5. QED
        BY <3>1, <3>2, <4>1, <4>3, <4>4
    <3>6. QED
      BY <1>0, <3>1, <3>3, <3>4, <3>5
  <2>2. CASE ~(schema < db.version + 1 \/ Repeatable(db.version + 1))
    BY <1>0, <1>1, <2>2 DEF Migrate, Rows
  <2>3. QED
    BY <2>1, <2>2
<1>2. CASE NumberMigration
  <2>1. /\ Rows(db') = Rows(db) /\ db'.analysis = db.analysis /\ db'.players = db.players
        /\ UNCHANGED schema /\ phase' = "migrate"
    BY <1>0, <1>2, NumberEffect DEF NumberMigration, Rows
  <2>2. QED
    BY <1>0, <2>1
<1>3. ASSUME NEW c \in Names, MarkChecked(c)
      PROVE  WrongRowsCanMove'
  <2>1. /\ Rows(db') = Rows(db) /\ db'.analysis = db.analysis /\ db'.players = db.players
        /\ UNCHANGED schema /\ phase' = "rechecksum"
    BY <1>0, <1>3, MarkEffect DEF MarkChecked
  <2>2. QED
    BY <1>0, <2>1
<1>4. ASSUME NEW c \in Names, DeleteDuplicate(c)
      PROVE  WrongRowsCanMove'
  <2>1. c \notin Contents
    BY <1>0, <1>4 DEF DeleteDuplicate, StoreIsTrue, Readable
  <2>2. /\ Rows(db') = Rows(db) \ {c} /\ db'.analysis = db.analysis \ {c}
        /\ db'.players = db.players \ {c} /\ UNCHANGED schema /\ phase' = "rechecksum"
    BY <1>0, <1>4, DuplicateEffect DEF DeleteDuplicate
  <2>3. QED
    BY <1>0, <2>1, <2>2
<1>5. CASE MigrateCommit
  <2>1. PICK n \in Contents :
           /\ cur \in Rows(db) /\ cur \notin Contents
           /\ Rows(db') = (Rows(db) \ {cur}) \cup {n}
           /\ db'.analysis = Renamed(db.analysis, cur, n)
           /\ db'.players = Renamed(db.players, cur, n)
    BY <1>0, <1>5, CommitEffect
  <2>2. schema' = schema /\ phase' = "rechecksum"
    BY <1>5 DEF MigrateCommit
  <2>3. Wrong(db') = Wrong(db) \ {cur} /\ cur \in Wrong(db)
    BY <2>1
  <2>4. /\ \A c \in db'.analysis : (c \in db.analysis /\ c # cur) \/ c = n
        /\ \A c \in db'.players : (c \in db.players /\ c # cur) \/ c = n
        /\ db.analysis \ {cur} \subseteq db'.analysis /\ db.players \ {cur} \subseteq db'.players
    BY <2>1 DEF Renamed
  <2>5. NeverReanalysed => NeverReanalysed'
    BY <2>1, <2>2, <2>3, <2>4
  <2>6. LosesItsKeys => LosesItsKeys'
    BY <2>1, <2>3, <2>4
  <2>7. /\ Wrong(db) \cap db.analysis = {} => Wrong(db') \cap db'.analysis = {}
        /\ Wrong(db) \cap db.players = {} => Wrong(db') \cap db'.players = {}
    BY <2>1, <2>3, <2>4
  <2> HIDE DEF NeverReanalysed, LosesItsKeys, Wrong
  <2>8. QED
    BY <1>0, <2>2, <2>5, <2>6, <2>7
<1>6. ASSUME NEW c \in Names, Reanalyse(c)
      PROVE  WrongRowsCanMove'
  <2>0. c \in todo /\ c \in Rows(db) /\ schema >= PlayersAt /\ UNCHANGED <<schema, phase>>
        /\ phase = "reanalysis" /\ todo' \subseteq todo
    BY <1>0, <1>6 DEF Reanalyse, StepsInOrder
  <2>1. CASE ~Readable(c)
    BY <1>0, <1>6, <2>0, <2>1, ReanalyseEffect DEF Rows
  <2>2. CASE Readable(c)
    <3>1. /\ Rows(db') = Rows(db) /\ db'.analysis = db.analysis \cup {disk[c]}
          /\ db'.players = db.players \cup {disk[c]} /\ disk[c] \in Contents
      BY <1>0, <1>6, <2>2, ReanalyseEffect DEF Rows, Readable
    <3>2. NeverReanalysed => NeverReanalysed'
      <4>1. NeverReanalysed => c \in Contents
        BY <2>0
      <4>2. NeverReanalysed => disk[c] \in Rows(db)
        BY <1>0, <2>0, <3>1, <4>1 DEF StoreIsTrue
      <4>3. QED
        BY <2>0, <3>1, <4>2
    <3>3. LosesItsKeys => LosesItsKeys'
      BY <3>1
    <3>4. QED
      BY <1>0, <2>0, <3>2, <3>3
  <2>3. QED
    BY <2>1, <2>2
<1>7. ASSUME NEW n \in Contents, NEW p \in Paths, Ingest(n, p)
      PROVE  WrongRowsCanMove'
  <2>1. UNCHANGED <<schema, phase>> /\ phase = "idle"
    BY <1>7 DEF Ingest
  <2>2. CASE n \in Rows(db)
    BY <1>0, <1>7, <2>1, <2>2, IngestKnownEffect DEF Rows
  <2>3. CASE n \notin Rows(db)
    <3>1. /\ Rows(db') = Rows(db) \cup {n} /\ db'.analysis = db.analysis \cup {n}
          /\ db'.players = db.players \cup {n}
      BY <1>0, <1>7, <2>3, IngestNewEffect
    <3>2. QED
      BY <1>0, <2>1, <3>1
  <2>4. QED
    BY <2>2, <2>3
<1>8. CASE SetOverrideTitle
  <2>1. UNCHANGED <<schema, phase, todo>>
    BY <1>8 DEF SetOverrideTitle
  <2>2. QED
    BY <1>0, <1>8, <2>1, TitleEffect DEF Rows
<1>9. CASE BeginReanalysis
  <2>1. /\ UNCHANGED <<db, schema>> /\ phase' = "reanalysis"
        /\ \A c \in todo' : c \notin db.analysis \/ c \notin db.players
    BY <1>9 DEF BeginReanalysis, NeedAnalysis
  <2>2. QED
    BY <1>0, <2>1 DEF Rows
<1>10. CASE /\ UNCHANGED <<db, schema>>
            /\ phase' = "reanalysis" => phase = "reanalysis" /\ todo' \subseteq todo
  BY <1>0, <1>10 DEF Rows
<1>11. CASE StatementFails
  <2>1. /\ UNCHANGED <<db, schema>> /\ todo' \subseteq todo
        /\ phase' = "reanalysis" => phase = "reanalysis"
    BY <1>11 DEF StatementFails
  <2>2. QED
    BY <1>10, <2>1
<1>12. CASE MigrateRows
  <2>1. UNCHANGED <<db, schema, phase>> /\ todo' \subseteq todo
    BY <1>12 DEF MigrateRows
  <2>2. QED
    BY <1>10, <2>1
<1>13. ASSUME NEW c \in Names, MigrateCopy(c)
       PROVE  WrongRowsCanMove'
  <2>1. UNCHANGED <<db, schema>> /\ phase' # "reanalysis"
    BY <1>0, <1>13, CopyEffect
  <2>2. QED
    BY <1>10, <2>1
<1>14. QED
  BY <1>1, <1>2, <1>3, <1>4, <1>5, <1>6, <1>7, <1>8, <1>9, <1>10, <1>11, <1>12, <1>13
  DEF Next, Heal, Start, Load, BeginRechecksum, MigrateRemove, EndSweep, SkipUnreadable,
      CopyEnds, AskTitle, Quit, MigrationFails, Crash, IngestCutOff, vars

\* The rollback of updateReplayChecksum on a taken primary key is never needed.
LEMMA NothingConflicts ==
  ASSUME IInv, cur # None, cur \in Rows(tx)
  PROVE  ~Conflicts(cur, disk[cur])
<1>1. /\ tx = db /\ phase \in {"rechecksum", "copy"} /\ cur \in Rows(db) /\ cur \notin Contents
      /\ disk[cur] \in Contents /\ disk[cur] \notin Rows(db)
  BY DEF IInv, TransactionPorts, Ported, Readable
<1>2. schema >= PlayersAt
  BY <1>1, ConstantFacts DEF IInv, StepsInOrder, Typed
<1>3. disk[cur] \notin DOMAIN db.titles
  BY <1>1 DEF IInv, WrongRowsCanMove, TitledHaveRows
<1>4. CASE NeverReanalysed
  BY <1>1, <1>3, <1>4 DEF NeverReanalysed, Conflicts
<1>5. CASE LosesItsKeys
  BY <1>1, <1>3, <1>5 DEF LosesItsKeys, Wrong, Conflicts
<1>6. QED
  BY <1>2, <1>4, <1>5 DEF IInv, WrongRowsCanMove

\* A loop without faults leaves nothing behind it.
LEMMA QuietStep == IInv /\ [Next]_vars => QuietProgress'
<1> SUFFICES ASSUME IInv, [Next]_vars, quiet', schema' > FlagAt
             PROVE  QuietProgress'
  BY DEF QuietProgress
<1>0. /\ Typed /\ StepsInOrder /\ TransactionPorts /\ StoreIsTrue /\ QuietProgress
      /\ UncheckedRowsStayFlagged
      /\ Contents \subseteq Names /\ None \notin Contents /\ Corrupt \notin Contents
      /\ Last = 23 /\ FlagAt = 19 /\ PlayersAt = 18
      /\ schema \in 0 .. 23
      /\ Rows(db) \subseteq Names /\ \A c \in Rows(db) : db.rows[c] \in {0, 1}
  BY ConstantFacts, DatabaseFacts DEF IInv, Typed
<1> USE DEF QuietProgress, Checked, Readable
<1>1. CASE phase' \in {"off", "migrate", "number", "load", "ready"}
  BY <1>1
<1>2. CASE BeginRechecksum
  <2>0. /\ db' = db /\ disk' = disk /\ quiet' = quiet /\ schema' = schema /\ phase' = "rechecksum"
        /\ todo' = IF schema < FlagAt THEN {} ELSE NeedRechecksum(db)
    BY <1>2 DEF BeginRechecksum
  <2>a. schema >= 20
    BY <1>0, <2>0
  <2>1. todo' = NeedRechecksum(db)
    BY <1>0, <2>0, <2>a
  <2>b. \A c \in Rows(db) : disk[c] \in Contents /\ disk[c] # c => db.rows[c] = 1
    BY <1>0, <2>a DEF UncheckedRowsStayFlagged
  <2>c. \A c \in Rows(db) : db.rows[c] = 1 => c \in todo'
    BY <2>1 DEF NeedRechecksum
  <2>2. \A c \in Rows(db) : disk[c] \in Contents => c \in todo' \/ (disk[c] = c /\ db.rows[c] = 0)
    <3>1. \A c \in Rows(db) : db.rows[c] \in {0, 1}
      BY <1>0
    <3>2. QED
      BY <2>b, <2>c, <3>1
  <2>3. QED
    BY <2>0, <2>2 DEF Rows
<1>3. ASSUME NEW c \in Names, SkipUnreadable(c)
      PROVE  QuietProgress'
  BY <1>0, <1>3 DEF SkipUnreadable, Rows
<1>4. ASSUME NEW c \in Names, MarkChecked(c)
      PROVE  QuietProgress'
  <2>1. /\ db'.version = db.version /\ Rows(db') = Rows(db) /\ db'.rows[c] = 0
        /\ \A x \in Rows(db) : x # c => db'.rows[x] = db.rows[x]
    BY <1>0, <1>4, MarkEffect
  <2>2. /\ UNCHANGED <<disk, quiet, schema, phase>> /\ todo' = todo \ {c} /\ disk[c] = c
        /\ phase = "rechecksum"
    BY <1>4 DEF MarkChecked
  <2>3. QED
    BY <1>0, <2>1, <2>2
<1>5. ASSUME NEW c \in Names, DeleteDuplicate(c)
      PROVE  QuietProgress'
  <2>1. /\ db'.version = db.version /\ Rows(db') = Rows(db) \ {c}
        /\ \A x \in Rows(db') : db'.rows[x] = db.rows[x]
    BY <1>0, <1>5, DuplicateEffect
  <2>2. /\ UNCHANGED <<disk, quiet, schema, phase>> /\ todo' = todo \ {c} /\ phase = "rechecksum"
    BY <1>5 DEF DeleteDuplicate
  <2>3. QED
    BY <1>0, <2>1, <2>2
<1>6. ASSUME NEW c \in Names, MigrateCopy(c)
      PROVE  QuietProgress'
  <2>1. /\ disk[c] \notin Rows(db) /\ \A x \in Names : x # disk[c] => disk'[x] = disk[x]
        /\ UNCHANGED <<db, quiet, schema, todo>> /\ phase = "rechecksum"
        /\ phase' \in {"rechecksum", "copy"}
    BY <1>0, <1>6, CopyEffect
  <2>2. QED
    BY <1>0, <2>1
<1>7. CASE MigrateRows
  <2>1. ~Conflicts(cur, disk[cur])
    BY <1>7, NothingConflicts DEF MigrateRows
  <2>2. UNCHANGED <<phase, disk, db, todo, quiet, schema>>
    BY <1>7, <2>1 DEF MigrateRows
  <2>3. QED
    BY <1>0, <2>2
<1>8. CASE MigrateRemove
  <2>1. disk' = disk \/ disk' = [disk EXCEPT ![cur] = None]
    BY <1>0, <1>8, RemoveEffect
  <2>2. /\ UNCHANGED <<db, quiet, schema, todo>> /\ phase = "rechecksum" /\ phase' = "commit"
        /\ cur \in todo
    BY <1>0, <1>8 DEF MigrateRemove, StepsInOrder
  <2>3. \A c \in Names : c # cur => disk'[c] = disk[c]
    BY <1>0, <2>1 DEF Typed
  <2>4. QED
    BY <1>0, <2>2, <2>3
<1>9. CASE MigrateCommit
  <2>1. PICK n \in Contents :
           /\ db'.version = db.version
           /\ Rows(db') = (Rows(db) \ {cur}) \cup {n}
           /\ db'.rows[n] = 0 /\ \A c \in Rows(db) \ {cur} : db'.rows[c] = db.rows[c]
    BY <1>0, <1>9, CommitEffect
  <2>2. /\ UNCHANGED <<disk, quiet, schema>> /\ phase = "commit" /\ phase' = "rechecksum"
        /\ todo' = todo \ {cur}
    BY <1>9 DEF MigrateCommit
  <2>3. disk[n] \in Contents => disk[n] = n
    BY <1>0 DEF StoreIsTrue
  <2>4. QED
    BY <1>0, <2>1, <2>2, <2>3
<1>10. CASE BeginReanalysis
  <2>0. /\ db' = db /\ disk' = disk /\ quiet' = quiet /\ schema' = schema
        /\ phase = "rechecksum" /\ phase' = "reanalysis" /\ todo = {}
        /\ todo' = IF schema < PlayersAt THEN {} ELSE NeedAnalysis(db)
    BY <1>10 DEF BeginReanalysis
  <2>a. schema >= 20
    BY <1>0, <2>0
  <2>1. todo' = NeedAnalysis(db)
    BY <1>0, <2>0, <2>a
  <2>2. QED
    BY <1>0, <2>0, <2>1 DEF NeedAnalysis, Rows
<1>11. ASSUME NEW c \in Names, Reanalyse(c)
       PROVE  QuietProgress'
  <2>1. /\ UNCHANGED <<disk, quiet, schema, phase>> /\ phase = "reanalysis" /\ todo' = todo \ {c}
        /\ c \in Rows(db)
    BY <1>0, <1>11 DEF Reanalyse, StepsInOrder
  <2>2. db'.version = db.version /\ db'.rows = db.rows /\ Rows(db') = Rows(db)
    BY <1>0, <1>11, ReanalyseEffect DEF Rows
  <2>3. CASE ~Readable(c)
    BY <1>0, <1>11, <2>1, <2>2, <2>3, ReanalyseEffect
  <2>4. CASE Readable(c)
    <3>1. /\ db'.analysis = db.analysis \cup {disk[c]} /\ db'.players = db.players \cup {disk[c]}
      BY <1>0, <1>11, <2>4, ReanalyseEffect
    <3>2. disk[c] = c
      BY <1>0, <2>1, <2>2, <2>4
    <3>3. QED
      BY <1>0, <2>1, <2>2, <3>1, <3>2
  <2>5. QED
    BY <2>3, <2>4
<1>12. CASE EndSweep
  BY <1>0, <1>12 DEF EndSweep, Rows
<1>13. ASSUME NEW n \in Contents, NEW p \in Paths, Ingest(n, p)
       PROVE  QuietProgress'
  <2>1. UNCHANGED <<quiet, schema, phase, todo>> /\ phase = "idle"
    BY <1>13 DEF Ingest
  <2>2. CASE n \in Rows(db)
    <3>1. /\ db'.version = db.version /\ db'.rows = db.rows /\ db'.analysis = db.analysis
          /\ db'.players = db.players /\ UNCHANGED disk
      BY <1>0, <1>13, <2>2, IngestKnownEffect DEF Ingest
    <3>2. QED
      BY <1>0, <2>1, <3>1 DEF Rows
  <2>3. CASE n \notin Rows(db)
    <3>1. /\ db'.version = db.version /\ Rows(db') = Rows(db) \cup {n}
          /\ db'.rows[n] = 0 /\ \A c \in Rows(db) : db'.rows[c] = db.rows[c]
          /\ db'.analysis = db.analysis \cup {n} /\ db'.players = db.players \cup {n}
          /\ disk' = [disk EXCEPT ![n] = n]
      BY <1>0, <1>13, <2>3, IngestNewEffect
    <3>2. disk'[n] = n /\ \A c \in Names : c # n => disk'[c] = disk[c]
      BY <1>0, <3>1 DEF Typed
    <3>3. QED
      BY <1>0, <2>1, <2>3, <3>1, <3>2
  <2>4. QED
    BY <2>2, <2>3
<1>14. CASE SetOverrideTitle
  <2>1. /\ db'.version = db.version /\ db'.rows = db.rows /\ db'.analysis = db.analysis
        /\ db'.players = db.players /\ UNCHANGED <<disk, quiet, schema, phase, todo>>
    BY <1>0, <1>14, TitleEffect DEF SetOverrideTitle
  <2>2. QED
    BY <1>0, <2>1 DEF Rows
<1>15. CASE UNCHANGED <<db, disk, quiet, schema, phase, todo>>
  BY <1>0, <1>15
<1>16. CASE StatementFails \/ MigrationFails \/ Crash
  BY <1>16 DEF StatementFails, MigrationFails, Crash, Fault
<1>17. CASE Migrate
  <2>1. CASE schema < db.version + 1 \/ Repeatable(db.version + 1)
    BY <1>0, <1>1, <1>17, <2>1, MigrateEffect
  <2>2. CASE ~(schema < db.version + 1 \/ Repeatable(db.version + 1))
    BY <1>1, <1>17, <2>2 DEF Migrate
  <2>3. QED
    BY <2>1, <2>2
<1>18. CASE CopyEnds
  <2>1. /\ disk[cur] \notin Rows(db) /\ \A x \in Names : x # disk[cur] => disk'[x] = disk[x]
        /\ UNCHANGED <<db, quiet, schema, todo>> /\ phase = "copy" /\ phase' = "rechecksum"
    BY <1>0, <1>18, CopyEndsEffect DEF CopyEnds, TransactionPorts, StepsInOrder
  <2>2. QED
    BY <1>0, <2>1
<1>19. ASSUME NEW n \in Contents, IngestCutOff(n)
       PROVE  QuietProgress'
  BY <1>19 DEF IngestCutOff, Fault
<1>20. QED
  BY <1>1, <1>2, <1>3, <1>4, <1>5, <1>6, <1>7, <1>8, <1>9, <1>10, <1>11, <1>12, <1>13, <1>14,
     <1>15, <1>16, <1>17, <1>18, <1>19
  DEF Next, Heal, Start, NumberMigration, Load, AskTitle, Quit, vars

-----------------------------------------------------------------------------
(* The inductive invariant of the specification.                           *)

\* The catalogues an older version leaves satisfy the invariant.
LEMMA InitIsGood == Init => IInv
<1> SUFFICES ASSUME Init
             PROVE  IInv
  OBVIOUS
<1>a. PICK wrong \in [Names -> Contents \cup {Corrupt, None}], kept \in SUBSET Names :
         /\ \A c \in Contents : wrong[c] \in {c, None, Corrupt}
         /\ \A c \in Names \ (kept \cup Contents) : wrong[c] = None
         /\ disk = wrong
         /\ \E v \in {0, 13, 18}, named \in SUBSET kept, linked \in SUBSET kept :
               /\ schema = v
               /\ v = 0 => kept = {}
               /\ db = [Empty EXCEPT !.version = v,
                           !.rows = [c \in kept |-> 0],
                           !.analysis = kept, !.players = kept,
                           !.titles = [c \in named |-> CHOOSE t \in Titles : TRUE],
                           !.paths = IF linked = {} THEN <<>>
                                     ELSE [p \in Paths |-> CHOOSE c \in linked : TRUE]]
  BY Zenon DEF Init
<1>b. PICK v \in {0, 13, 18}, named \in SUBSET kept, linked \in SUBSET kept :
         /\ schema = v
         /\ v = 0 => kept = {}
         /\ db = [Empty EXCEPT !.version = v,
                     !.rows = [c \in kept |-> 0],
                     !.analysis = kept, !.players = kept,
                     !.titles = [c \in named |-> CHOOSE t \in Titles : TRUE],
                     !.paths = IF linked = {} THEN <<>>
                               ELSE [p \in Paths |-> CHOOSE c \in linked : TRUE]]
  BY <1>a, Zenon
<1>1. /\ kept \subseteq Names /\ named \subseteq kept /\ linked \subseteq kept
      /\ disk \in [Names -> Contents \cup {Corrupt, None}]
      /\ \A c \in Contents : disk[c] \in {c, None, Corrupt}
      /\ schema = v /\ v \in {0, 13, 18}
      /\ db = [Empty EXCEPT !.version = v,
                  !.rows = [c \in kept |-> 0],
                  !.analysis = kept, !.players = kept,
                  !.titles = [c \in named |-> CHOOSE t \in Titles : TRUE],
                  !.paths = IF linked = {} THEN <<>>
                            ELSE [p \in Paths |-> CHOOSE c \in linked : TRUE]]
  BY <1>a, <1>b, Zenon
<1> DEFINE f == [c \in kept |-> 0]
           g == [c \in named |-> CHOOSE t \in Titles : TRUE]
           h == IF linked = {} THEN <<>> ELSE [p \in Paths |-> CHOOSE c \in linked : TRUE]
<1>2. f \in [kept -> {0, 1}] /\ DOMAIN f = kept
  OBVIOUS
<1>3. g \in [named -> Titles] /\ DOMAIN g = named
  BY ConstantFacts
<1>4. h \in [DOMAIN h -> linked] /\ DOMAIN h \subseteq Paths
  <2>1. CASE linked = {}
    <3>1. h = <<>>
      BY <2>1
    <3> HIDE DEF h
    <3>2. DOMAIN h = {} /\ h \in [{} -> linked]
      BY <3>1
    <3>3. QED
      BY <3>2
  <2>2. CASE linked # {}
    BY <2>2
  <2>3. QED
    BY <2>1, <2>2
<1>5. db = [Empty EXCEPT !.version = v, !.rows = f, !.analysis = kept, !.players = kept,
                         !.titles = g, !.paths = h]
  BY <1>1
<1> HIDE DEF f, g, h
<1>6. db = [version |-> v, rows |-> f, analysis |-> kept, players |-> kept, titles |-> g,
            paths |-> h]
  BY <1>5 DEF Empty
<1>7. /\ db.version = v /\ db.rows = f /\ db.analysis = kept /\ db.players = kept
      /\ db.titles = g /\ db.paths = h /\ Rows(db) = kept
  BY <1>2, <1>6 DEF Rows
<1>8. v \in 0 .. Last
  BY ConstantFacts
<1>9. db \in Database
  BY <1>2, <1>3, <1>4, <1>6, <1>7, <1>8, DatabaseFacts DEF Rows
<1>10. /\ phase = "off" /\ tx = None /\ todo = {} /\ cur = None
       /\ shown = {} /\ asked = None /\ faults = 0 /\ quiet = TRUE
  BY DEF Init
<1>11. Typed
  BY <1>1, <1>8, <1>9, <1>10, ConstantFacts DEF Typed
<1>12. StepsInOrder /\ TransactionPorts /\ QuietProgress
  BY <1>1, <1>7, <1>10 DEF StepsInOrder, NoMigrationIsSkipped, TransactionPorts, QuietProgress
<1>13. StoreIsTrue
  BY <1>1 DEF StoreIsTrue
<1>14. LinksHaveRows
  BY <1>4, <1>7 DEF LinksHaveRows
<1>15. UncheckedRowsStayFlagged
  BY <1>1, ConstantFacts DEF UncheckedRowsStayFlagged
<1>16. WrongRowsCanMove
  <2>1. TitledHaveRows
    BY <1>3, <1>7, <1>10 DEF TitledHaveRows
  <2>2. NeverReanalysed
    BY <1>7, <1>10 DEF NeverReanalysed, Wrong
  <2>3. schema \notin 14 .. 17
    BY <1>1
  <2>4. QED
    BY <2>1, <2>2, <2>3 DEF WrongRowsCanMove
<1>17. QED
  BY <1>11, <1>12, <1>13, <1>14, <1>15, <1>16 DEF IInv

\* All parts hold in every state of every start, whatever was cut short before.
THEOREM HealInvariant == Spec => []IInv
<1>1. Init => IInv
  BY InitIsGood
<1>2. IInv /\ [Next]_vars => IInv'
  BY TypedStep, OrderStep, StoreStep, TransactionStep, LinksStep, FlagStep, KeysStep, QuietStep
  DEF IInv
<1>3. QED
  BY <1>1, <1>2, PTL DEF Spec

-----------------------------------------------------------------------------
(* What the runs check, for every number of replays, paths and faults.     *)

\* The variables hold values of their types, whatever an older version left and wherever a
\* start-up was cut short (Persistence::init, Queries::migrate and the loops of ReplayStore).
THEOREM HealTypes == Spec => []TypeOK
<1>1. ASSUME NEW d, d \in Database
      PROVE  IsDatabase(d)
  <2>1. d = [version |-> d.version, rows |-> d.rows, analysis |-> d.analysis,
             players |-> d.players, titles |-> d.titles, paths |-> d.paths]
    BY <1>1, DatabaseFacts
  <2>2. DOMAIN d = {"version", "rows", "analysis", "players", "titles", "paths"}
    BY <2>1
  <2>3. DOMAIN Empty = {"version", "rows", "analysis", "players", "titles", "paths"}
    BY DEF Empty
  <2>4. QED
    BY <1>1, <2>2, <2>3, DatabaseFacts DEF IsDatabase, Rows
<1>2. IInv => TypeOK
  BY <1>1 DEF IInv, Typed, TypeOK
<1>3. QED
  BY <1>2, HealInvariant, PTL

\* No migration is taken for done that was not executed: Queries::migrate writes user_version after
\* the statement, so a start cut short anywhere leaves the number behind by one and never ahead.
THEOREM MigrationsAreNotSkipped == Spec => []NoMigrationIsSkipped
<1>1. IInv => NoMigrationIsSkipped
  BY DEF IInv, StepsInOrder
<1>2. QED
  BY <1>1, HealInvariant, PTL

\* A path that the sweep would skip as known is linked to a row that exists, through the moves of
\* migrateReplayChecksum, the removal of duplicates and every fault between their steps.
THEOREM KnownPathsHaveRows == Spec => []LinksHaveRows
<1>1. IInv => LinksHaveRows
  BY DEF IInv
<1>2. QED
  BY <1>1, HealInvariant, PTL

\* A row whose readable file has another checksum keeps the flag that brings it back to
\* performReplayRechecksum, however often the process ends or a statement fails.
THEOREM WrongRowsStayFlagged == Spec => []UncheckedRowsStayFlagged
<1>1. IInv => UncheckedRowsStayFlagged
  BY DEF IInv
<1>2. QED
  BY <1>1, HealInvariant, PTL

\* A start in which nothing fails executes every migration, unless an earlier start was cut off
\* between a migration that cannot be repeated and its number (Queries::migrate). Stuck or not, once
\* the migrations have flagged the rows it leaves every readable row under its true checksum,
\* unflagged and with its analysis and players.
THEOREM QuietStartsHeal == Spec => []QuietStartHealsAll
<1>1. IInv => QuietStartHealsAll
  BY DEF IInv, StepsInOrder, QuietProgress, QuietStartHealsAll, Checked
<1>2. QED
  BY <1>1, HealInvariant, PTL

\* A row that migrateReplayChecksum moves never meets a primary key that is taken: no older start,
\* no re-analysis and no title the user gave has left a row of the other tables under the checksum
\* it moves to.
THEOREM MovedRowsNeverConflict ==
  Spec => [](cur # None /\ cur \in Rows(tx) => ~Conflicts(cur, disk[cur]))
<1>1. IInv => (cur # None /\ cur \in Rows(tx) => ~Conflicts(cur, disk[cur]))
  BY NothingConflicts
<1>2. QED
  BY <1>1, HealInvariant, PTL

\* A match the store holds is in it after every step, whatever fails and wherever the process ends:
\* migrateReplayChecksum removes a file only when the copy is complete, and ingestion writes only a
\* name that is free. The one exception is named in the statement: a match in whose place lies a
\* copy that was cut off, which migrateReplayChecksum takes for the match.
THEOREM StoreLosesNoReplay == Spec => HealingLosesNoReplay
<1>1. ASSUME IInv, [Next]_vars, disk' # disk, NEW k \in Contents, k \in Range(disk),
             disk[k] # Corrupt
      PROVE  k \in Range(disk')
  <2>0. /\ Typed /\ StepsInOrder /\ TransactionPorts
        /\ Contents \subseteq Names /\ None \notin Contents /\ Corrupt \notin Contents
        /\ disk[k] \in {k, None}
    BY <1>1, ConstantFacts DEF IInv, StoreIsTrue
  <2>1. PICK x \in Names : disk[x] = k
    BY <1>1, <2>0 DEF Typed, Range
  <2>2. \/ \E c \in Names : MigrateCopy(c)
        \/ CopyEnds \/ MigrateRemove \/ StatementFails
        \/ \E n \in Contents, p \in Paths : Ingest(n, p)
        \/ \E n \in Contents : IngestCutOff(n)
    BY <1>1 DEF Next, Heal, Start, Migrate, NumberMigration, Load, BeginRechecksum, MigrateRows,
       MigrateCommit, BeginReanalysis, EndSweep, SkipUnreadable, MarkChecked, DeleteDuplicate,
       Reanalyse, AskTitle, SetOverrideTitle, Quit, MigrationFails, Crash, vars
  <2>3. ASSUME NEW y \in Names, disk' \in [Names -> Contents \cup {None, Corrupt}], disk'[y] = k
        PROVE  k \in Range(disk')
    BY <2>3 DEF Range
  <2>4. disk' \in [Names -> Contents \cup {None, Corrupt}]
    BY <1>1, TypedStep DEF Typed
  <2>5. ASSUME NEW c \in Names, MigrateCopy(c)
        PROVE  k \in Range(disk')
    <3>1. /\ \A y \in Names : y # disk[c] => disk'[y] = disk[y]
          /\ disk[disk[c]] # None => disk' = disk
      BY <2>0, <2>5, CopyEffect
    <3>2. disk'[x] = k
      BY <2>0, <2>1, <3>1
    <3>3. QED
      BY <2>1, <2>3, <2>4, <3>2
  <2>6. CASE CopyEnds
    <3>1. /\ cur \in Names /\ cur \notin Contents /\ disk[cur] \in Names
          /\ \A y \in Names : y # disk[cur] => disk'[y] = disk[y]
          /\ disk'[disk[cur]] = disk[cur] /\ disk[cur] \in Contents
      BY <2>0, <2>6, CopyEndsEffect
    <3>2. CASE x # disk[cur]
      BY <2>1, <2>3, <2>4, <3>1, <3>2
    <3>3. CASE x = disk[cur]
      <4>1. disk[x] \in {x, None, Corrupt}
        BY <1>1, <3>1, <3>3 DEF IInv, StoreIsTrue
      <4>2. disk'[x] = k
        BY <2>0, <2>1, <3>1, <3>3, <4>1
      <4>3. QED
        BY <2>1, <2>3, <2>4, <4>2
    <3>4. QED
      BY <3>2, <3>3
  <2>7. CASE MigrateRemove
    <3>1. /\ cur \in Names /\ cur \notin Contents
          /\ disk[cur] \in Contents /\ disk[disk[cur]] \in {disk[cur], Corrupt}
      <4>1. cur # None /\ phase = "rechecksum"
        BY <2>7 DEF MigrateRemove
      <4>2. QED
        BY <2>0, <4>1 DEF TransactionPorts, Readable, Typed
    <3>2. disk' = disk \/ disk' = [disk EXCEPT ![cur] = None]
      BY <2>0, <2>7, RemoveEffect
    <3>3. CASE x # cur
      <4>1. disk'[x] = k
        BY <2>0, <2>1, <3>2, <3>3 DEF Typed
      <4>2. QED
        BY <2>1, <2>3, <2>4, <4>1
    <3>4. CASE x = cur
      <4>1. k # cur /\ k \in Names /\ disk[k] = k
        BY <1>1, <2>0, <2>1, <3>1, <3>4
      <4>2. disk'[k] = k
        BY <2>0, <3>2, <4>1 DEF Typed
      <4>3. QED
        BY <2>3, <2>4, <4>1, <4>2
    <3>5. QED
      BY <3>3, <3>4
  <2>8. CASE StatementFails
    <3>1. CASE disk' = disk
      BY <1>1, <3>1
    <3>2. CASE /\ phase = "copy" /\ cur \in Names /\ cur \notin Contents
               /\ disk[cur] \in Contents
               /\ \A y \in Names : y # disk[cur] => disk'[y] = disk[y]
      <4>1. CASE k = disk[cur]
        <5>1. disk'[cur] = k
          BY <3>2, <4>1
        <5>2. QED
          BY <2>3, <2>4, <3>2, <5>1
      <4>2. CASE k # disk[cur]
        <5>1. x # disk[cur]
          BY <1>1, <2>0, <2>1, <3>2, <4>2 DEF IInv, StoreIsTrue
        <5>2. QED
          BY <2>1, <2>3, <2>4, <3>2, <5>1
      <4>3. QED
        BY <4>1, <4>2
    <3>3. QED
      BY <2>0, <2>8, <3>1, <3>2, StatementFailsEffect
  <2>9. ASSUME NEW n \in Contents, NEW p \in Paths, Ingest(n, p)
        PROVE  k \in Range(disk')
    <3>1. disk[n] = None /\ disk' = [disk EXCEPT ![n] = n]
      BY <1>1, <2>9 DEF Ingest
    <3>2. disk'[x] = k
      BY <2>0, <2>1, <3>1 DEF Typed
    <3>3. QED
      BY <2>1, <2>3, <2>4, <3>2
  <2>10. ASSUME NEW n \in Contents, IngestCutOff(n)
         PROVE  k \in Range(disk')
    <3>1. disk[n] = None /\ \A y \in Names : y # n => disk'[y] = disk[y]
      BY <2>0, <2>10, IngestCutOffEffect
    <3>2. disk'[x] = k
      BY <2>0, <2>1, <3>1
    <3>3. QED
      BY <2>1, <2>3, <2>4, <3>2
  <2>11. QED
    BY <2>2, <2>5, <2>6, <2>7, <2>8, <2>9, <2>10
<1>2. IInv /\ [Next]_vars =>
        [\A k \in Contents : k \in Range(disk) /\ disk[k] # Corrupt => k \in Range(disk')]_disk
  BY <1>1
<1>3. QED
  BY <1>2, HealInvariant, PTL DEF Spec, HealingLosesNoReplay

\* A title the user gave moves, unchanged, with its replay (updateReplayChecksum rewrites
\* replay_override_titles with the other tables); it goes only with a row under a wrong checksum
\* whose match has its true row, or because the user says so.
THEOREM TitlesAreKept == Spec => TitlesFollowTheirReplay
<1> DEFINE Kept(c) ==
             \/ c \in Rows(db') /\ c \in DOMAIN db'.titles /\ db'.titles[c] = db.titles[c]
             \/ /\ c \notin Rows(db')
                /\ \E n \in (Rows(db') \ Rows(db)) \cap DOMAIN db'.titles :
                      db'.titles[n] = db.titles[c]
             \/ c \notin Rows(db') /\ disk[c] # c /\ disk[c] \in Rows(db) \cap Rows(db')
             \/ asked # None /\ asked.checksum = c /\ asked' = None
<1>1. ASSUME IInv, [Next]_vars, NEW c \in Rows(db) \cap DOMAIN db.titles
      PROVE  Kept(c)
  <2>0. Typed /\ StepsInOrder /\ TransactionPorts
    BY <1>1 DEF IInv
  <2>1. CASE db' = db
    BY <1>1, <2>1
  <2>2. CASE Migrate
    <3>1. CASE schema < db.version + 1 \/ Repeatable(db.version + 1)
      <4>1. Rows(db') = Rows(db) /\ db'.titles = db.titles
        BY <2>0, <2>2, <3>1, MigrateEffect
      <4>2. QED
        BY <1>1, <4>1
    <3>2. CASE ~(schema < db.version + 1 \/ Repeatable(db.version + 1))
      BY <2>1, <2>2, <3>2 DEF Migrate
    <3>3. QED
      BY <3>1, <3>2
  <2>3. CASE NumberMigration
    BY <1>1, <2>0, <2>3, NumberEffect DEF Rows
  <2>4. ASSUME NEW x \in Names, MarkChecked(x)
        PROVE  Kept(c)
    BY <1>1, <2>0, <2>4, MarkEffect
  <2>5. ASSUME NEW x \in Names, DeleteDuplicate(x)
        PROVE  Kept(c)
    <3>1. /\ Rows(db') = Rows(db) \ {x} /\ DOMAIN db'.titles = DOMAIN db.titles \ {x}
          /\ \A y \in DOMAIN db'.titles : db'.titles[y] = db.titles[y]
      BY <2>0, <2>5, DuplicateEffect
    <3>2. disk[x] \in Rows(db) /\ disk[x] # x
      BY <2>5 DEF DeleteDuplicate
    <3>3. CASE c = x
      BY <3>1, <3>2, <3>3
    <3>4. CASE c # x
      BY <1>1, <3>1, <3>4
    <3>5. QED
      BY <3>3, <3>4
  <2>6. CASE MigrateCommit
    <3>1. PICK n \in Contents :
             /\ cur \in Rows(db) /\ n \notin Rows(db) /\ Rows(db') = (Rows(db) \ {cur}) \cup {n}
             /\ db'.titles = Rekeyed(db.titles, cur, n)
      BY <2>0, <2>6, CommitEffect
    <3>2. CASE c = cur
      <4>1. cur \in DOMAIN db.titles
        BY <1>1, <3>2
      <4>2. DOMAIN db'.titles = (DOMAIN db.titles \ {cur}) \cup {n}
        <5>1. DOMAIN Rekeyed(db.titles, cur, n) = (DOMAIN db.titles \ {cur}) \cup {n}
          BY <4>1 DEF Rekeyed, With, Without, Restrict
        <5>2. QED
          BY <3>1, <5>1
      <4>3. db'.titles[n] = db.titles[cur]
        BY <3>1, <4>1, RekeyedMoved
      <4>4. QED
        BY <3>1, <3>2, <4>2, <4>3
    <3>3. CASE c # cur
      <4>1. CASE cur \in DOMAIN db.titles
        <5>1. DOMAIN db'.titles = (DOMAIN db.titles \ {cur}) \cup {n}
          <6>1. DOMAIN Rekeyed(db.titles, cur, n) = (DOMAIN db.titles \ {cur}) \cup {n}
            BY <4>1 DEF Rekeyed, With, Without, Restrict
          <6>2. QED
            BY <3>1, <6>1
        <5>2. db'.titles[c] = db.titles[c]
          BY <1>1, <3>1, <3>3, <4>1, RekeyedOther
        <5>3. QED
          BY <1>1, <3>1, <3>3, <5>1, <5>2
      <4>2. CASE cur \notin DOMAIN db.titles
        <5>1. db'.titles = db.titles
          BY <3>1, <4>2 DEF Rekeyed
        <5>2. QED
          BY <1>1, <3>1, <3>3, <5>1
      <4>3. QED
        BY <4>1, <4>2
    <3>4. QED
      BY <3>2, <3>3
  <2>7. ASSUME NEW x \in Names, Reanalyse(x)
        PROVE  Kept(c)
    BY <1>1, <2>0, <2>7, ReanalyseEffect DEF Rows
  <2>8. ASSUME NEW n \in Contents, NEW p \in Paths, Ingest(n, p)
        PROVE  Kept(c)
    <3>1. CASE n \in Rows(db)
      BY <1>1, <2>0, <2>8, <3>1, IngestKnownEffect DEF Rows
    <3>2. CASE n \notin Rows(db)
      BY <1>1, <2>0, <2>8, <3>2, IngestNewEffect
    <3>3. QED
      BY <3>1, <3>2
  <2>9. CASE SetOverrideTitle
    <3>1. /\ Rows(db') = Rows(db)
          /\ \A x \in DOMAIN db.titles :
                x # asked.checksum => x \in DOMAIN db'.titles /\ db'.titles[x] = db.titles[x]
      BY <2>0, <2>9, TitleEffect DEF Rows
    <3>2. asked # None /\ asked' = None
      BY <2>9 DEF SetOverrideTitle
    <3>3. QED
      BY <1>1, <3>1, <3>2
  <2>10. QED
    <3>1. \/ db' = db \/ Migrate \/ NumberMigration \/ MigrateCommit \/ SetOverrideTitle
          \/ \E x \in Names : MarkChecked(x) \/ DeleteDuplicate(x) \/ Reanalyse(x)
          \/ \E n \in Contents, p \in Paths : Ingest(n, p)
      BY <1>1 DEF Next, Heal, Start, Load, BeginRechecksum, MigrateRows, MigrateRemove,
         BeginReanalysis, EndSweep, SkipUnreadable, MigrateCopy, CopyEnds, AskTitle, Quit,
         StatementFails, MigrationFails, Crash, IngestCutOff, vars
    <3>2. QED
      BY <2>1, <2>2, <2>3, <2>4, <2>5, <2>6, <2>7, <2>8, <2>9, <3>1
<1>2. IInv /\ [Next]_vars => [\A c \in Rows(db) \cap DOMAIN db.titles : Kept(c)]_db
  BY <1>1
<1>3. QED
  BY <1>2, HealInvariant, PTL DEF Spec, TitlesFollowTheirReplay

=============================================================================
