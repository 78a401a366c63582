------------------------------- MODULE Screen -------------------------------
(***************************************************************************)
(* The replay list on the GUI thread: ReplayStoreModel, the page that      *)
(* shows it, and its conversation with the io thread. Both directions are  *)
(* queued: the io thread publishes the catalogue (replaysLoaded), changed  *)
(* rows (replaysChanged) and answers of the analyser; the GUI sends        *)
(* commands. Each side works on what it last heard of the other.           *)
(*                                                                         *)
(* QML re-reads a role of a row when the model announces that role, so     *)
(* what the user sees (`seen', `seenCount') is kept beside the model.      *)
(***************************************************************************)
EXTENDS Integers, Sequences, FiniteSets, Functions

CONSTANTS Checksums,     \* the replays
          MaxQueue,      \* bound: queued messages, either way
          MaxEvents      \* bound: what the io thread does of its own accord, user commands

CONSTANT None

ASSUME ScreenAssumption == /\ IsFiniteSet(Checksums)
                           /\ MaxQueue \in Nat \ {0} /\ MaxEvents \in Nat

VARIABLES catalogue,   \* io thread: checksum -> [exposed, titled]
          toGui, toIo, \* queued signals
          events,      \* counts what is bounded by MaxEvents
          rows,        \* m_replays: checksum -> [exposed, titled]
          selections,  \* m_selections
          entries,     \* m_analysisEntries: checksum -> AsyncState
          filter,      \* the query the proxy model applies
          dialog,      \* the folder dialog of an export is open
          seen,        \* what QML shows of each row
          seenCount,   \* the selectionCount QML has read
          asked        \* history: checksum -> the title last asked for, TRUE for set, FALSE for cleared

ioVars == <<catalogue, toGui, toIo, events>>
modelVars == <<rows, selections, entries>>
pageVars == <<filter, dialog>>
seenVars == <<seen, seenCount>>
vars == <<ioVars, modelVars, pageVars, seenVars, asked>>

Roles == {"exposed", "titled", "selected", "expanded", "state", "plot"}
AnalysisRoles == {"state", "plot"}

\* ReplayStoreModel::data
Data(rs, sel, ent, c) ==
    [exposed |-> rs[c].exposed, titled |-> rs[c].titled, selected |-> c \in sel,
     expanded |-> c \in DOMAIN ent,
     state |-> IF c \in DOMAIN ent THEN ent[c] ELSE None,
     plot |-> c \in DOMAIN ent /\ ent[c] = "complete"]

Now(c) == Data(rows, selections, entries, c)

\* dataChanged(row, roles) for some rows; a row that is new is read as a whole.
Announce(roles) ==
    seen' = [c \in DOMAIN rows' |->
        LET now == Data(rows', selections', entries', c) IN
           IF c \notin DOMAIN seen THEN now
           ELSE [r \in Roles |-> IF c \in DOMAIN roles /\ r \in roles[c] THEN now[r] ELSE seen[c][r]]]

Announced(C, R) == [c \in C |-> R]

\* The text is a predicate already: everything, or the replays whose title matches.
Visible == {c \in DOMAIN rows : filter = "all" \/ rows[c].titled}

\* What was asked for a replay is kept as long as the replay is.
Forget(C) == asked' = Restrict(asked, DOMAIN asked \ C)

----------------------------------------------------------------------------
(* Plausible errors, which the properties must exclude *)

LoadedKeepsAnalyses ==
    /\ toGui # <<>> /\ Head(toGui).kind = "loaded" /\ toGui' = Tail(toGui)
    /\ rows' = Head(toGui).replays /\ selections' = {}
    /\ seen' = [c \in DOMAIN rows' |-> Data(rows', selections', entries, c)]
    /\ UNCHANGED <<catalogue, toIo, events, entries, pageVars, seenCount, asked>>

DismissedSilently(c) ==
    /\ c \in Visible \cap DOMAIN entries
    /\ entries' = Restrict(entries, DOMAIN entries \ {c})
    /\ UNCHANGED <<ioVars, rows, selections, pageVars, seenVars, asked>>

CountAnnouncedWhenItGrows(always) ==
    seenCount' = IF Cardinality(selections') > Cardinality(selections)
                 THEN Cardinality(selections') ELSE seenCount

AnalyzeMayThrow ==
    /\ toIo # <<>> /\ Head(toIo).kind = "analyze"
    /\ toIo' = Tail(toIo)
    /\ UNCHANGED <<catalogue, toGui, events, modelVars, pageVars, seenVars, asked>>

----------------------------------------------------------------------------
\* selectionCountChanged, emitted by most handlers when the size has changed.
AnnounceCount(always) ==
    seenCount' = IF always \/ Cardinality(selections') # Cardinality(selections)
                 THEN Cardinality(selections') ELSE seenCount

Init ==
    /\ \E C \in SUBSET Checksums : catalogue = [c \in C |-> [exposed |-> TRUE, titled |-> FALSE]]
    /\ toGui = <<[kind |-> "loaded", replays |-> catalogue]>> /\ toIo = <<>> /\ events = 0
    /\ rows = <<>> /\ selections = {} /\ entries = <<>>
    /\ filter = "all" /\ dialog = FALSE
    /\ seen = <<>> /\ seenCount = 0 /\ asked = <<>>

----------------------------------------------------------------------------
(* The io thread *)

Event == events < MaxEvents /\ events' = events + 1
Room(queue, n) == Len(queue) + n <= MaxQueue
Tell(msg) == Room(toGui, 1) /\ toGui' = Append(toGui, msg)
Changed(c) == [kind |-> "changed", checksum |-> c, replay |-> catalogue'[c]]

\* The sweep over the folder ends: healing may have dropped rows, and what is left is published again.
Publish ==
    /\ Event
    /\ \E kept \in SUBSET DOMAIN catalogue :
          catalogue' = Restrict(catalogue, kept) /\ Forget(Checksums \ kept)
    /\ Tell([kind |-> "loaded", replays |-> catalogue'])
    /\ UNCHANGED <<toIo, modelVars, pageVars, seenVars>>

\* A match is gathered, or the game removes or restores a file. A title is stored beside the row and
\* may have been there before it.
Gather(c, stored) ==
    /\ Event
    /\ catalogue' = [x \in DOMAIN catalogue \cup {c} |->
           IF x = c THEN [exposed |-> IF c \in DOMAIN catalogue THEN ~catalogue[c].exposed ELSE TRUE,
                          titled |-> IF c \in DOMAIN catalogue THEN catalogue[c].titled ELSE stored]
           ELSE catalogue[x]]
    /\ Tell(Changed(c))
    /\ UNCHANGED <<toIo, modelVars, pageVars, seenVars, asked>>

HandleEdit ==
    /\ toIo # <<>> /\ Head(toIo).kind \in {"exposed", "titled"}
    /\ LET m == Head(toIo) IN
          IF m.checksum \in DOMAIN catalogue
          THEN /\ catalogue' = [catalogue EXCEPT ![m.checksum][m.kind] = m.value]
               /\ Tell(Changed(m.checksum))
          ELSE UNCHANGED <<catalogue, toGui>>
    /\ toIo' = Tail(toIo)
    /\ UNCHANGED <<events, modelVars, pageVars, seenVars, asked>>

\* The database or the disk refuses: logged, and nothing is announced.
EditFails ==
    /\ Event
    /\ toIo # <<>> /\ Head(toIo).kind \in {"exposed", "titled"} /\ toIo' = Tail(toIo)
    /\ Forget({Head(toIo).checksum})
    /\ UNCHANGED <<catalogue, toGui, modelVars, pageVars, seenVars>>

HandleExport ==
    /\ toIo # <<>> /\ Head(toIo).kind = "export"
    /\ toIo' = Tail(toIo)
    /\ UNCHANGED <<catalogue, toGui, events, modelVars, pageVars, seenVars, asked>>

\* ReplayAnalyzerBridge: the promise gets a result, also when analyze throws one of the program's own
\* exceptions. (All of them derive from std::runtime_error, the only one that is caught: another, for
\* want of memory, ends the program.)
Analyze ==
    /\ toIo # <<>> /\ Head(toIo).kind = "analyze"
    /\ toIo' = Tail(toIo)
    /\ \E state \in IF Head(toIo).checksum \in DOMAIN catalogue
                    THEN {"complete", "failed"} ELSE {"failed"} :
          Tell([kind |-> "answer", checksum |-> Head(toIo).checksum, state |-> state])
    /\ UNCHANGED <<catalogue, events, modelVars, pageVars, seenVars, asked>>

----------------------------------------------------------------------------
(* ReplayStoreModel: what the io thread sends *)

Receives(kind) == toGui # <<>> /\ Head(toGui).kind = kind /\ toGui' = Tail(toGui)

\* The reset makes QML read every row again; the count is not announced.
ReplaysLoaded ==
    /\ Receives("loaded")
    /\ rows' = Head(toGui).replays /\ selections' = {} /\ entries' = <<>>
    /\ seen' = [c \in DOMAIN rows' |-> Data(rows', selections', entries', c)]
    /\ UNCHANGED <<catalogue, toIo, events, pageVars, seenCount, asked>>

\* updateFromReplay announces what differs.
ReplaysChanged ==
    /\ Receives("changed")
    /\ LET c == Head(toGui).checksum
           new == Head(toGui).replay
       IN /\ rows' = [x \in DOMAIN rows \cup {c} |-> IF x = c THEN new ELSE rows[x]]
          /\ UNCHANGED <<selections, entries>>
          /\ Announce(Announced({c}, IF c \in DOMAIN rows
                                     THEN {r \in DOMAIN new : rows[c][r] # new[r]} ELSE {}))
    /\ UNCHANGED <<catalogue, toIo, events, pageVars, seenCount, asked>>

\* The future's continuation: nothing to do when the analysis was dismissed meanwhile.
ReceiveAnswer ==
    /\ Receives("answer")
    /\ LET c == Head(toGui).checksum IN
          /\ entries' = IF c \in DOMAIN entries THEN [entries EXCEPT ![c] = Head(toGui).state] ELSE entries
          /\ UNCHANGED <<rows, selections>>
          /\ Announce(IF c \in DOMAIN entries THEN Announced({c}, AnalysisRoles) ELSE <<>>)
    /\ UNCHANGED <<catalogue, toIo, events, pageVars, seenCount, asked>>

----------------------------------------------------------------------------
(* The user *)

Select(new, touched, always) ==
    /\ selections' = new /\ UNCHANGED <<rows, entries>>
    /\ Announce(Announced(touched, {"selected"}))
    /\ AnnounceCount(always)
    /\ UNCHANGED <<ioVars, pageVars, asked>>

ToggleSelected(c) ==
    /\ c \in DOMAIN rows
    /\ Select(IF c \in selections THEN selections \ {c} ELSE selections \cup {c}, {c}, TRUE)

\* A click: clearSelected, then setReplaySelected.
Click(c) == c \in Visible /\ Select({c}, selections \cup {c}, TRUE)

\* clearSelected, then extendReplaySelection with what passes the filter.
SelectAll == Select(Visible, selections \cup Visible, selections # {})

InvertSelection ==
    Select(Visible \ selections, selections \cup Visible, FALSE)

Send(msgs) == Room(toIo, Len(msgs)) /\ toIo' = toIo \o msgs

RequestAnalysis(c) ==
    /\ Event /\ c \in Visible /\ c \notin DOMAIN entries
    /\ entries' = [x \in DOMAIN entries \cup {c} |-> IF x = c THEN "pending" ELSE entries[x]]
    /\ Send(<<[kind |-> "analyze", checksum |-> c]>>)
    /\ UNCHANGED <<rows, selections>>
    /\ Announce(Announced({c}, {"expanded", "state"}))
    /\ UNCHANGED <<catalogue, toGui, pageVars, seenCount, asked>>

DismissAnalysis(c) ==
    /\ c \in Visible \cap DOMAIN entries
    /\ entries' = Restrict(entries, DOMAIN entries \ {c})
    /\ UNCHANGED <<rows, selections>>
    /\ Announce(Announced({c}, {"expanded"}))
    /\ UNCHANGED <<ioVars, pageVars, seenCount, asked>>

Asks(c, field, value) ==
    asked' = IF field = "titled" /\ c \in DOMAIN catalogue
             THEN [x \in DOMAIN asked \cup {c} |-> IF x = c THEN value ELSE asked[x]] ELSE asked

\* A plausible error: a command for the same cell is under way, so this one is thought to be a repeat.
EditOnce(c, field, value) ==
    /\ Event /\ c \in Visible
    /\ Send(IF \E i \in DOMAIN toIo : toIo[i].kind = field /\ toIo[i].checksum = c THEN <<>>
            ELSE <<[kind |-> field, checksum |-> c, value |-> value]>>)
    /\ Asks(c, field, value)
    /\ UNCHANGED <<catalogue, toGui, modelVars, pageVars, seenVars>>

Edit(c, field, value) ==
    /\ Event /\ c \in Visible
    /\ Send(<<[kind |-> field, checksum |-> c, value |-> value]>>)
    /\ Asks(c, field, value)
    /\ UNCHANGED <<catalogue, toGui, modelVars, pageVars, seenVars>>

\* restrictSelectionTo: drops what the filter hides.
Restricted == selections \cap Visible

\* The show and hide buttons: one command for each replay that is left.
EditSelected(value) ==
    /\ Event /\ seenCount > 0
    /\ \E order \in {s \in [1 .. Cardinality(Restricted) -> Restricted] : Range(s) = Restricted} :
          Send([i \in DOMAIN order |-> [kind |-> "exposed", checksum |-> order[i], value |-> value]])
    /\ selections' = Restricted /\ UNCHANGED <<rows, entries>>
    /\ Announce(Announced(selections \ Restricted, {"selected"})) /\ AnnounceCount(FALSE)
    /\ UNCHANGED <<catalogue, toGui, pageVars, asked>>

\* The export button restricts the selection and opens a dialog; the page lives on meanwhile.
OpenExport ==
    /\ ~dialog /\ seenCount > 0 /\ dialog' = TRUE
    /\ selections' = Restricted /\ UNCHANGED <<rows, entries>>
    /\ Announce(Announced(selections \ Restricted, {"selected"})) /\ AnnounceCount(FALSE)
    /\ UNCHANGED <<ioVars, filter, asked>>

AcceptExport ==
    /\ dialog /\ dialog' = FALSE
    /\ Send(<<[kind |-> "export", checksums |-> selections]>>)
    /\ UNCHANGED <<catalogue, toGui, events, modelVars, seenVars, filter, asked>>

\* The debounce timer of the filter field fires and the text typed meanwhile becomes the query.
DebounceFires(text) ==
    /\ text # filter /\ filter' = text
    /\ UNCHANGED <<ioVars, modelVars, seenVars, dialog, asked>>

Io == HandleEdit \/ HandleExport \/ Analyze
Gui == ReplaysLoaded \/ ReplaysChanged \/ ReceiveAnswer

User ==
    \/ SelectAll \/ InvertSelection \/ OpenExport \/ AcceptExport
    \/ \E value \in BOOLEAN : EditSelected(value)
    \/ \E text \in {"all", "titled"} : DebounceFires(text)
    \/ \E c \in Checksums : \/ ToggleSelected(c) \/ Click(c)
                            \/ RequestAnalysis(c) \/ DismissAnalysis(c)
                            \/ \E field \in {"exposed", "titled"}, value \in BOOLEAN : Edit(c, field, value)

Next == \/ Io \/ Gui \/ User \/ Publish \/ EditFails
        \/ \E c \in Checksums, stored \in BOOLEAN : Gather(c, stored)

\* Both event loops run.
Spec == Init /\ [][Next]_vars /\ WF_vars(Io) /\ WF_vars(Gui)

----------------------------------------------------------------------------
(* Properties *)

Replay == [exposed : BOOLEAN, titled : BOOLEAN]

\* The variables hold values of their types, and the model keeps no selection and no analysis for a
\* row that is gone: what the handlers find by checksum (replaystoremodel.cpp:334) is there.
TypeOK ==
    /\ DOMAIN catalogue \subseteq Checksums /\ Range(catalogue) \subseteq Replay
    /\ DOMAIN rows \subseteq Checksums /\ Range(rows) \subseteq Replay
    /\ selections \subseteq DOMAIN rows
    /\ DOMAIN entries \subseteq DOMAIN rows /\ Range(entries) \subseteq {"pending", "complete", "failed"}
    /\ Len(toGui) <= MaxQueue /\ Len(toIo) <= MaxQueue /\ events \in 0 .. MaxEvents
    /\ filter \in {"all", "titled"} /\ dialog \in BOOLEAN
    /\ DOMAIN seen = DOMAIN rows /\ seenCount \in 0 .. Cardinality(Checksums)
    /\ DOMAIN asked \subseteq DOMAIN catalogue /\ Range(asked) \subseteq BOOLEAN

\* What the user sees is the model, and the model is the catalogue once nothing is in flight: every
\* change is announced with the roles it touches, whatever the order of commands, changes, resets
\* and answers, and no edit of an outdated row leaves the list behind. The state of an analysis is
\* read while its panel is open, the plot once the analysis is complete.
ViewIsCurrent ==
    /\ toGui = <<>> => rows = catalogue
    /\ \A c \in DOMAIN rows :
          /\ \A r \in Roles \ AnalysisRoles : seen[c][r] = Now(c)[r]
          /\ c \in DOMAIN entries => seen[c].state = entries[c]
          /\ Now(c).plot => seen[c].plot

\* selectionCount is right while something is selected, so that the bulk buttons are never disabled
\* over a selection. (replaysLoaded clears the selection without announcing the count, which QML
\* then shows too high until the next change.)
CountIsCurrent == selections # {} => seenCount = Cardinality(selections)

\* The last title the user asked for is the one the list ends up with: a snapshot or a change that
\* was queued before the user acted undoes it only until the command's own change arrives, and of
\* two commands the later wins. It is given up for when the replay leaves the catalogue, or when the
\* database refuses.
TitlesAsAsked ==
    toIo = <<>> /\ toGui = <<>> => \A c \in DOMAIN asked : c \in DOMAIN rows /\ rows[c].titled = asked[c]

\* ReplaysPage.qml:57-60, of the export button: "Bulk selection actions are scoped to this set so they
\* never silently act on rows the user can't currently see."
ExportsAreVisible == [][AcceptExport => selections \subseteq Visible]_vars

\* An open analysis panel does not wait for ever: each request is answered, a throw included, and a
\* dismissal, a reset or a second request in between takes the answer from nobody.
PendingIsAnswered ==
    \A c \in Checksums :
        (c \in DOMAIN entries /\ entries[c] = "pending")
            ~> (c \notin DOMAIN entries \/ entries[c] # "pending")

=============================================================================
