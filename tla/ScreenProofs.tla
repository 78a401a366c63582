---------------------------- MODULE ScreenProofs ----------------------------
(***************************************************************************)
(* What the replay list shows, for every number of replays, every length   *)
(* of the two queues and any number of commands.  The inductive invariant: *)
(*   Typed          the types, those of the queued messages included;      *)
(*   SeenIsNow      what QML shows of a row is the row;                    *)
(*   CountIsCurrent as it stands;                                          *)
(*   ListCatchesUp  whatever is still queued, the last message about a     *)
(*                  replay says what the catalogue says, and without one   *)
(*                  the list says it: an empty queue leaves them equal;    *)
(*   ListWillBeAsAsked  the same of the other queue: the last command for  *)
(*                  a title is what was asked last, or the catalogue is.   *)
(***************************************************************************)
EXTENDS Screen, FiniteSetTheorems, SequenceTheorems, TLAPS

(* A catalogue, and the list the model keeps of it.                        *)
Lists == UNION {[C -> Replay] : C \in SUBSET Checksums}

GuiMessages ==
  [kind : {"loaded"}, replays : Lists]
    \cup [kind : {"changed"}, checksum : Checksums, replay : Replay]
    \cup [kind : {"answer"}, checksum : Checksums, state : {"complete", "failed"}]

IoMessages ==
  [kind : {"analyze"}, checksum : Checksums]
    \cup [kind : {"exposed", "titled"}, checksum : Checksums, value : BOOLEAN]
    \cup [kind : {"export"}, checksums : SUBSET Checksums]

Typed ==
  /\ TypeOK
  /\ catalogue \in Lists /\ rows \in Lists
  /\ toGui \in Seq(GuiMessages) /\ toIo \in Seq(IoMessages)
  /\ \A c \in DOMAIN entries : entries[c] \in {"pending", "complete", "failed"}
  /\ asked \in [DOMAIN asked -> BOOLEAN]

(* The state is read while the panel is open, the plot once it is drawn.   *)
RowIsSeen(c) ==
  /\ seen[c].exposed = rows[c].exposed
  /\ seen[c].titled = rows[c].titled
  /\ seen[c].selected = (c \in selections)
  /\ seen[c].expanded = (c \in DOMAIN entries)
  /\ c \in DOMAIN entries => seen[c].state = entries[c]
  /\ c \in DOMAIN entries => (entries[c] = "complete" => seen[c].plot)

SeenIsNow == \A c \in DOMAIN rows : RowIsSeen(c)

-----------------------------------------------------------------------------
(* The operators the model is built from.                                  *)

LEMMA ListFacts ==
  /\ \A f : f \in Lists => DOMAIN f \subseteq Checksums /\ f \in [DOMAIN f -> Replay]
  /\ \A f : DOMAIN f \subseteq Checksums /\ f \in [DOMAIN f -> Replay] => f \in Lists
  /\ <<>> \in Lists
<1>1. \A f : f \in Lists => DOMAIN f \subseteq Checksums /\ f \in [DOMAIN f -> Replay]
  BY DEF Lists
<1>2. \A f : DOMAIN f \subseteq Checksums /\ f \in [DOMAIN f -> Replay] => f \in Lists
  BY DEF Lists
<1>3. <<>> \in [{} -> Replay]
  OBVIOUS
<1>4. QED
  BY <1>1, <1>2, <1>3 DEF Lists

LEMMA DataFacts ==
  ASSUME NEW rs, NEW sel, NEW ent, NEW c
  PROVE  LET d == Data(rs, sel, ent, c) IN
         /\ d["exposed"] = rs[c].exposed /\ d["titled"] = rs[c].titled
         /\ d["selected"] = (c \in sel) /\ d["expanded"] = (c \in DOMAIN ent)
         /\ c \in DOMAIN ent => d["state"] = ent[c]
         /\ d["plot"] = (c \in DOMAIN ent /\ ent[c] = "complete")
BY DEF Data

LEMMA AnnounceFacts ==
  ASSUME NEW roles, Announce(roles)
  PROVE  /\ DOMAIN seen' = DOMAIN rows'
         /\ \A c \in DOMAIN rows' : 
              c \notin DOMAIN seen => seen'[c] = Data(rows', selections', entries', c)
         /\ \A c \in DOMAIN rows', r \in Roles : c \in DOMAIN seen =>
               seen'[c][r] = IF c \in DOMAIN roles /\ r \in roles[c]
                             THEN Data(rows', selections', entries', c)[r] ELSE seen[c][r]
BY DEF Announce

LEMMA PutInList ==
  ASSUME NEW f \in Lists, NEW c \in Checksums, NEW r \in Replay
  PROVE  LET g == [x \in DOMAIN f \cup {c} |-> IF x = c THEN r ELSE f[x]] IN
         /\ g \in Lists /\ DOMAIN g = DOMAIN f \cup {c} /\ g[c] = r
         /\ \A x \in DOMAIN f : x # c => g[x] = f[x]
<1> DEFINE g == [x \in DOMAIN f \cup {c} |-> IF x = c THEN r ELSE f[x]]
<1>1. DOMAIN f \subseteq Checksums /\ f \in [DOMAIN f -> Replay]
  BY ListFacts
<1>2. g \in [DOMAIN f \cup {c} -> Replay]
  BY <1>1
<1>3. g \in Lists
  BY <1>1, <1>2, ListFacts
<1>4. QED
  BY <1>1, <1>3

LEMMA RestrictInList ==
  ASSUME NEW f \in Lists, NEW S \in SUBSET DOMAIN f
  PROVE  Restrict(f, S) \in Lists
<1>1. DOMAIN f \subseteq Checksums /\ f \in [DOMAIN f -> Replay]
  BY ListFacts
<1>2. Restrict(f, S) \in [S -> Replay]
  BY <1>1 DEF Restrict
<1>3. QED
  BY <1>1, <1>2, ListFacts

LEMMA EditInList ==
  ASSUME NEW f \in Lists, NEW c \in DOMAIN f, NEW k \in {"exposed", "titled"}, NEW v \in BOOLEAN
  PROVE  LET g == [f EXCEPT ![c][k] = v] IN
         /\ g \in Lists /\ DOMAIN g = DOMAIN f /\ g[c] \in Replay
         /\ \A x \in DOMAIN f : x # c => g[x] = f[x]
<1> DEFINE g == [f EXCEPT ![c][k] = v]
<1>1. DOMAIN f \subseteq Checksums /\ f \in [DOMAIN f -> Replay]
  BY ListFacts
<1>2. [f[c] EXCEPT ![k] = v] \in Replay
  BY <1>1 DEF Replay
<1>3. g \in [DOMAIN f -> Replay]
  BY <1>1, <1>2
<1>4. g \in Lists
  BY <1>1, <1>3, ListFacts
<1>5. QED
  BY <1>1, <1>2, <1>4

LEMMA GatheredIsReplay ==
  ASSUME catalogue \in Lists, NEW c, NEW stored \in BOOLEAN
  PROVE  [exposed |-> IF c \in DOMAIN catalogue THEN ~catalogue[c].exposed ELSE TRUE,
          titled |-> IF c \in DOMAIN catalogue THEN catalogue[c].titled ELSE stored] \in Replay
<1>1. CASE c \in DOMAIN catalogue
  BY <1>1, ListFacts DEF Replay
<1>2. CASE c \notin DOMAIN catalogue
  BY <1>2 DEF Replay
<1>3. QED
  BY <1>1, <1>2

LEMMA MessageFacts ==
  /\ \A m \in GuiMessages :
        /\ m.kind = "loaded" => m.replays \in Lists
        /\ m.kind = "changed" => m.checksum \in Checksums /\ m.replay \in Replay
        /\ m.kind = "answer" => m.checksum \in Checksums /\ m.state \in {"complete", "failed"}
  /\ \A f \in Lists : [kind |-> "loaded", replays |-> f] \in GuiMessages
  /\ \A c \in Checksums, r \in Replay : [kind |-> "changed", checksum |-> c, replay |-> r] \in GuiMessages
  /\ \A c \in Checksums, s \in {"complete", "failed"} :
        [kind |-> "answer", checksum |-> c, state |-> s] \in GuiMessages
  /\ \A m \in IoMessages :
        /\ m.kind = "analyze" => m.checksum \in Checksums
        /\ m.kind \in {"exposed", "titled"} => m.checksum \in Checksums /\ m.value \in BOOLEAN
  /\ \A c \in Checksums : [kind |-> "analyze", checksum |-> c] \in IoMessages
  /\ \A k \in {"exposed", "titled"}, c \in Checksums, v \in BOOLEAN :
        [kind |-> k, checksum |-> c, value |-> v] \in IoMessages
  /\ \A S \in SUBSET Checksums : [kind |-> "export", checksums |-> S] \in IoMessages
BY DEF GuiMessages, IoMessages

LEMMA HeadAndTail ==
  ASSUME NEW S, NEW q \in Seq(S), q # <<>>
  PROVE  /\ Head(q) \in S /\ Tail(q) \in Seq(S) /\ Len(Tail(q)) = Len(q) - 1
         /\ Head(q) = q[1] /\ \A i \in 1 .. Len(Tail(q)) : Tail(q)[i] = q[i + 1]
BY HeadTailProperties

LEMMA TellKeepsTypes ==
  ASSUME toGui \in Seq(GuiMessages), NEW m \in GuiMessages, Tell(m)
  PROVE  toGui' \in Seq(GuiMessages) /\ Len(toGui') <= MaxQueue
BY ScreenAssumption DEF Tell, Room

LEMMA SendKeepsTypes ==
  ASSUME toIo \in Seq(IoMessages), NEW s \in Seq(IoMessages), Send(s)
  PROVE  toIo' \in Seq(IoMessages) /\ Len(toIo') <= MaxQueue
BY ScreenAssumption DEF Send, Room

(* A bulk action sends commands for what passes the filter only.           *)
LEMMA RestrictedFacts ==
  ASSUME Typed
  PROVE  /\ Visible \subseteq DOMAIN rows /\ DOMAIN rows \subseteq Checksums
         /\ Restricted \subseteq selections /\ Restricted \subseteq Visible
         /\ IsFiniteSet(Restricted) /\ Cardinality(Restricted) \in Nat
<1>1. /\ Visible \subseteq DOMAIN rows /\ DOMAIN rows \subseteq Checksums
      /\ Restricted \subseteq selections /\ Restricted \subseteq Visible
  BY DEF Typed, TypeOK, Visible, Restricted
<1>2. IsFiniteSet(Restricted)
  BY <1>1, FS_Subset, ScreenAssumption
<1>3. QED
  BY <1>1, <1>2, FS_CardinalityType

LEMMA EditsAreMessages ==
  ASSUME Typed, NEW value \in BOOLEAN,
         NEW order \in [1 .. Cardinality(Restricted) -> Restricted]
  PROVE  LET msgs == [i \in DOMAIN order |->
                        [kind |-> "exposed", checksum |-> order[i], value |-> value]] IN
         msgs \in Seq(IoMessages)
<1> DEFINE msgs == [i \in DOMAIN order |->
                      [kind |-> "exposed", checksum |-> order[i], value |-> value]]
<1>1. DOMAIN order = 1 .. Cardinality(Restricted) /\ Cardinality(Restricted) \in Nat
  BY RestrictedFacts
<1>2. \A i \in DOMAIN order : order[i] \in Visible /\ order[i] \in Checksums
  BY RestrictedFacts
<1>3. \A i \in DOMAIN order : msgs[i] \in IoMessages
  BY <1>2, MessageFacts
<1>4. msgs \in Seq(IoMessages)
  BY <1>1, <1>3
<1>5. QED
  BY <1>4

(* A match that is gathered and a row that is edited: one row, announced.  *)
Changes(c) ==
  /\ catalogue' \in Lists /\ DOMAIN catalogue' = DOMAIN catalogue \cup {c}
  /\ catalogue'[c] \in Replay
  /\ \A x \in DOMAIN catalogue : x # c => catalogue'[x] = catalogue[x]
  /\ Tell([kind |-> "changed", checksum |-> c, replay |-> catalogue'[c]])

LEMMA GatherChanges ==
  ASSUME catalogue \in Lists, NEW c \in Checksums, NEW stored \in BOOLEAN, Gather(c, stored)
  PROVE  /\ Changes(c)
         /\ c \in DOMAIN catalogue => catalogue'[c].titled = catalogue[c].titled
<1> DEFINE r == [exposed |-> IF c \in DOMAIN catalogue THEN ~catalogue[c].exposed ELSE TRUE,
                 titled |-> IF c \in DOMAIN catalogue THEN catalogue[c].titled ELSE stored]
<1>1. r \in Replay /\ (c \in DOMAIN catalogue => r.titled = catalogue[c].titled)
  BY GatheredIsReplay
<1>2. catalogue' = [x \in DOMAIN catalogue \cup {c} |-> IF x = c THEN r ELSE catalogue[x]]
  BY DEF Gather
<1> HIDE DEF r
<1>3. /\ catalogue' \in Lists /\ DOMAIN catalogue' = DOMAIN catalogue \cup {c}
      /\ catalogue'[c] = r
      /\ \A x \in DOMAIN catalogue : x # c => catalogue'[x] = catalogue[x]
  <2> DEFINE g == [x \in DOMAIN catalogue \cup {c} |-> IF x = c THEN r ELSE catalogue[x]]
  <2>1. /\ g \in Lists /\ DOMAIN g = DOMAIN catalogue \cup {c} /\ g[c] = r
        /\ \A x \in DOMAIN catalogue : x # c => g[x] = catalogue[x]
    BY <1>1, PutInList
  <2>2. catalogue' = g
    BY <1>2
  <2> HIDE DEF g
  <2>3. QED
    BY <2>1, <2>2
<1>4. Tell([kind |-> "changed", checksum |-> c, replay |-> catalogue'[c]])
  BY DEF Gather, Changed
<1>5. QED
  BY <1>1, <1>3, <1>4 DEF Changes

LEMMA EditChanges ==
  ASSUME catalogue \in Lists, toIo \in Seq(IoMessages), HandleEdit,
         Head(toIo).checksum \in DOMAIN catalogue
  PROVE  /\ Head(toIo).checksum \in Checksums /\ Changes(Head(toIo).checksum)
         /\ catalogue'[Head(toIo).checksum].titled =
              IF Head(toIo).kind = "titled" THEN Head(toIo).value
              ELSE catalogue[Head(toIo).checksum].titled
<1> DEFINE m == Head(toIo)
           c == m.checksum
           k == m.kind
           v == m.value
<1>1. k \in {"exposed", "titled"} /\ toIo # <<>>
  BY DEF HandleEdit
<1>2. c \in Checksums /\ v \in BOOLEAN
  BY <1>1, HeadAndTail, MessageFacts
<1>3. /\ catalogue' = [catalogue EXCEPT ![c][k] = v]
      /\ Tell([kind |-> "changed", checksum |-> c, replay |-> catalogue'[c]])
  BY DEF HandleEdit, Changed
<1>4. c \in DOMAIN catalogue
  OBVIOUS
<1> HIDE DEF m, c, k, v
<1>5. /\ catalogue' \in Lists /\ DOMAIN catalogue' = DOMAIN catalogue
      /\ catalogue'[c] \in Replay
      /\ \A x \in DOMAIN catalogue : x # c => catalogue'[x] = catalogue[x]
  BY <1>1, <1>2, <1>3, <1>4, EditInList, Zenon
<1>6. Changes(c)
  BY <1>3, <1>4, <1>5 DEF Changes
<1>7. catalogue'[c].titled = IF k = "titled" THEN v ELSE catalogue[c].titled
  <2>1. DOMAIN catalogue \subseteq Checksums /\ catalogue[c] \in Replay
    BY <1>4, ListFacts
  <2>2. catalogue'[c] = [catalogue[c] EXCEPT ![k] = v]
    BY <1>3, <1>4
  <2>3. QED
    BY <1>1, <2>1, <2>2 DEF Replay
<1>8. QED
  BY <1>2, <1>6, <1>7 DEF c, m, k, v

-----------------------------------------------------------------------------
(* Types, first of the catalogue and the queues, then of the model.        *)

QueueTypes ==
  /\ catalogue \in Lists
  /\ toGui \in Seq(GuiMessages) /\ Len(toGui) <= MaxQueue
  /\ toIo \in Seq(IoMessages) /\ Len(toIo) <= MaxQueue
  /\ events \in 0 .. MaxEvents

LEMMA QueueTypesStep == Typed /\ [Next]_vars => QueueTypes'
<1> SUFFICES ASSUME Typed, [Next]_vars
             PROVE  QueueTypes'
  OBVIOUS
<1>0. QueueTypes
  BY DEF Typed, TypeOK, QueueTypes
<1> USE <1>0 DEF QueueTypes
<1>1. CASE Publish
  <2>1. catalogue' \in Lists
    BY <1>1, RestrictInList DEF Publish
  <2>2. PICK m \in GuiMessages : Tell(m)
    BY <1>1, <2>1, MessageFacts DEF Publish
  <2>3. events' \in 0 .. MaxEvents /\ UNCHANGED toIo
    BY <1>1, ScreenAssumption DEF Publish, Event
  <2>4. QED
    BY <2>1, <2>2, <2>3, TellKeepsTypes
<1>2. ASSUME NEW c \in Checksums, NEW stored \in BOOLEAN, Gather(c, stored)
      PROVE  QueueTypes'
  <2>1. Changes(c)
    BY <1>2, GatherChanges
  <2>2. PICK m \in GuiMessages : Tell(m)
    BY <2>1, MessageFacts DEF Changes
  <2>3. events' \in 0 .. MaxEvents /\ UNCHANGED toIo
    BY <1>2, ScreenAssumption DEF Gather, Event
  <2>4. QED
    BY <2>1, <2>2, <2>3, TellKeepsTypes DEF Changes
<1>3. CASE Io
  <2>0. /\ toIo # <<>> /\ toIo' = Tail(toIo)
        /\ UNCHANGED events
    BY <1>3 DEF Io, HandleEdit, HandleExport, Analyze
  <2>1. toIo' \in Seq(IoMessages) /\ Len(toIo') <= MaxQueue /\ Head(toIo) \in IoMessages
    BY <2>0, HeadAndTail, ScreenAssumption
  <2>2. CASE HandleEdit
    <3>1. CASE Head(toIo).checksum \notin DOMAIN catalogue
      BY <2>0, <2>1, <2>2, <3>1 DEF HandleEdit
    <3>2. CASE Head(toIo).checksum \in DOMAIN catalogue
      <4> DEFINE c == Head(toIo).checksum
      <4>1. c \in Checksums /\ Changes(c)
        BY <2>2, <3>2, EditChanges
      <4>2. PICK m \in GuiMessages : Tell(m)
        BY <4>1, MessageFacts DEF Changes
      <4>3. QED
        BY <2>0, <2>1, <4>1, <4>2, TellKeepsTypes DEF Changes
    <3>3. QED
      BY <3>1, <3>2
  <2>3. CASE HandleExport
    BY <2>0, <2>1, <2>3 DEF HandleExport
  <2>4. CASE Analyze
    <3>1. Head(toIo).checksum \in Checksums
      BY <2>1, <2>4, MessageFacts DEF Analyze
    <3>2. PICK m \in GuiMessages : Tell(m)
      BY <2>4, <3>1, MessageFacts DEF Analyze
    <3>3. QED
      BY <2>0, <2>1, <2>4, <3>2, TellKeepsTypes DEF Analyze
  <2>5. QED
    BY <1>3, <2>2, <2>3, <2>4 DEF Io
<1>4. CASE Gui
  <2>1. toGui # <<>> /\ toGui' = Tail(toGui) /\ UNCHANGED <<catalogue, toIo, events>>
    BY <1>4 DEF Gui, ReplaysLoaded, ReplaysChanged, ReceiveAnswer, Receives
  <2>2. QED
    BY <2>1, HeadAndTail, ScreenAssumption
<1>5. CASE User
  <2>0. UNCHANGED <<catalogue, toGui>>
    BY <1>5 DEF User, SelectAll, InvertSelection, Select, OpenExport, AcceptExport, EditSelected,
                DebounceFires, ToggleSelected, Click, RequestAnalysis, DismissAnalysis, Edit, ioVars
  <2>1. ASSUME NEW s \in Seq(IoMessages), Send(s), events' \in 0 .. MaxEvents
        PROVE  QueueTypes'
    BY <2>0, <2>1, SendKeepsTypes
  <2>2. ASSUME NEW m \in IoMessages
        PROVE  <<m>> \in Seq(IoMessages)
    OBVIOUS
  <2>3. ASSUME NEW c \in Checksums, RequestAnalysis(c)
        PROVE  QueueTypes'
    <3>1. [kind |-> "analyze", checksum |-> c] \in IoMessages
      BY MessageFacts
    <3>2. events' \in 0 .. MaxEvents
      BY <2>3, ScreenAssumption DEF RequestAnalysis, Event
    <3>3. QED
      BY <2>1, <2>2, <2>3, <3>1, <3>2 DEF RequestAnalysis
  <2>4. ASSUME NEW c \in Checksums, NEW field \in {"exposed", "titled"}, NEW value \in BOOLEAN,
               Edit(c, field, value)
        PROVE  QueueTypes'
    <3>1. [kind |-> field, checksum |-> c, value |-> value] \in IoMessages
      BY MessageFacts
    <3>2. events' \in 0 .. MaxEvents
      BY <2>4, ScreenAssumption DEF Edit, Event
    <3>3. QED
      BY <2>1, <2>2, <2>4, <3>1, <3>2 DEF Edit
  <2>5. CASE AcceptExport
    <3>1. [kind |-> "export", checksums |-> selections] \in IoMessages
      BY MessageFacts, RestrictedFacts DEF Typed, TypeOK
    <3>2. QED
      BY <2>1, <2>2, <2>5, <3>1 DEF AcceptExport
  <2>6. ASSUME NEW value \in BOOLEAN, EditSelected(value)
        PROVE  QueueTypes'
    <3>1. PICK s \in Seq(IoMessages) : Send(s)
      BY <2>6, EditsAreMessages DEF EditSelected
    <3>2. events' \in 0 .. MaxEvents
      BY <2>6, ScreenAssumption DEF EditSelected, Event
    <3>3. QED
      BY <2>1, <3>1, <3>2
  <2>7. ASSUME UNCHANGED ioVars
        PROVE  QueueTypes'
    BY <2>7 DEF ioVars
  <2>8. QED
    BY <1>5, <2>3, <2>4, <2>5, <2>6, <2>7
    DEF User, SelectAll, InvertSelection, Select, OpenExport, DebounceFires, ToggleSelected, Click,
        DismissAnalysis
<1>6. CASE UNCHANGED vars
  BY <1>6 DEF vars, ioVars
<1>7. CASE EditFails
  <2>1. toIo # <<>> /\ toIo' = Tail(toIo) /\ UNCHANGED <<catalogue, toGui>>
    BY <1>7 DEF EditFails
  <2>2. events' \in 0 .. MaxEvents
    BY <1>7, ScreenAssumption DEF EditFails, Event
  <2>3. QED
    BY <2>1, <2>2, HeadAndTail, ScreenAssumption
<1>8. QED
  BY <1>1, <1>2, <1>3, <1>4, <1>5, <1>6, <1>7 DEF Next

ModelTypes ==
  /\ rows \in Lists
  /\ selections \subseteq DOMAIN rows
  /\ DOMAIN entries \subseteq DOMAIN rows
  /\ \A c \in DOMAIN entries : entries[c] \in {"pending", "complete", "failed"}
  /\ DOMAIN seen = DOMAIN rows
  /\ filter \in {"all", "titled"} /\ dialog \in BOOLEAN

LEMMA SelectKeepsTypes ==
  ASSUME ModelTypes, NEW new \in SUBSET DOMAIN rows, NEW touched, NEW always,
         Select(new, touched, always)
  PROVE  ModelTypes'
BY AnnounceFacts DEF Select, ModelTypes, pageVars

LEMMA ModelTypesStep == Typed /\ [Next]_vars => ModelTypes'
<1> SUFFICES ASSUME Typed, [Next]_vars
             PROVE  ModelTypes'
  OBVIOUS
<1>0. ModelTypes
  BY DEF Typed, TypeOK, ModelTypes
<1>a. Visible \subseteq DOMAIN rows /\ Restricted \subseteq Visible
  BY RestrictedFacts
<1>1. CASE ReplaysLoaded
  <2>1. Head(toGui) \in GuiMessages /\ Head(toGui).kind = "loaded"
    BY <1>1, HeadAndTail DEF ReplaysLoaded, Receives, Typed
  <2>2. rows' \in Lists
    BY <1>1, <2>1, MessageFacts DEF ReplaysLoaded
  <2>3. QED
    BY <1>0, <1>1, <2>2 DEF ReplaysLoaded, ModelTypes, pageVars
<1>2. CASE ReplaysChanged
  <2> DEFINE c == Head(toGui).checksum
             new == Head(toGui).replay
  <2>1. Head(toGui) \in GuiMessages /\ Head(toGui).kind = "changed"
    BY <1>2, HeadAndTail DEF ReplaysChanged, Receives, Typed
  <2>2. c \in Checksums /\ new \in Replay
    BY <2>1, MessageFacts
  <2>3. PICK roles : /\ rows' = [x \in DOMAIN rows \cup {c} |-> IF x = c THEN new ELSE rows[x]]
                     /\ Announce(roles) /\ UNCHANGED <<selections, entries, pageVars>>
    BY <1>2 DEF ReplaysChanged
  <2> HIDE DEF c, new
  <2>4. rows' \in Lists /\ DOMAIN rows' = DOMAIN rows \cup {c}
    <3>1. rows \in Lists
      BY <1>0 DEF ModelTypes
    <3>2. QED
      BY <2>2, <2>3, <3>1, PutInList
  <2>5. QED
    BY <1>0, <2>3, <2>4, AnnounceFacts DEF ModelTypes, pageVars
<1>3. CASE ReceiveAnswer
  <2>1. Head(toGui) \in GuiMessages /\ Head(toGui).kind = "answer"
    BY <1>3, HeadAndTail DEF ReceiveAnswer, Receives, Typed
  <2>2. Head(toGui).state \in {"complete", "failed"}
    BY <2>1, MessageFacts
  <2>3. PICK roles : /\ Announce(roles) /\ UNCHANGED <<rows, selections, pageVars>>
    BY <1>3 DEF ReceiveAnswer
  <2>4. DOMAIN entries' = DOMAIN entries
        /\ \A c \in DOMAIN entries : entries'[c] = entries[c] \/ entries'[c] = Head(toGui).state
    BY <1>3 DEF ReceiveAnswer
  <2>5. QED
    BY <1>0, <2>2, <2>3, <2>4, AnnounceFacts DEF ModelTypes, pageVars
<1>4. ASSUME NEW c \in Checksums, ToggleSelected(c)
      PROVE  ModelTypes'
  <2>1. PICK new, touched, always : new \in SUBSET DOMAIN rows /\ Select(new, touched, always)
    BY <1>0, <1>4 DEF ToggleSelected, ModelTypes
  <2>2. QED
    BY <1>0, <2>1, SelectKeepsTypes
<1>5. ASSUME NEW c \in Checksums, Click(c)
      PROVE  ModelTypes'
  BY <1>0, <1>a, <1>5, SelectKeepsTypes DEF Click
<1>6. CASE SelectAll \/ InvertSelection
  <2>1. PICK new, touched, always : new \in SUBSET DOMAIN rows /\ Select(new, touched, always)
    BY <1>a, <1>6 DEF SelectAll, InvertSelection
  <2>2. QED
    BY <1>0, <2>1, SelectKeepsTypes
<1>7. ASSUME NEW c \in Checksums, RequestAnalysis(c)
      PROVE  ModelTypes'
  <2>1. PICK roles : Announce(roles) /\ UNCHANGED <<rows, selections, pageVars>>
    BY <1>7 DEF RequestAnalysis
  <2>2. DOMAIN entries' = DOMAIN entries \cup {c} /\ c \in DOMAIN rows
        /\ \A x \in DOMAIN entries' : entries'[x] = IF x = c THEN "pending" ELSE entries[x]
    BY <1>7, <1>a DEF RequestAnalysis
  <2>3. QED
    BY <1>0, <2>1, <2>2, AnnounceFacts DEF ModelTypes, pageVars
<1>8. ASSUME NEW c \in Checksums, DismissAnalysis(c)
      PROVE  ModelTypes'
  <2>1. PICK roles : Announce(roles) /\ UNCHANGED <<rows, selections, pageVars>>
    BY <1>8 DEF DismissAnalysis
  <2>2. DOMAIN entries' \subseteq DOMAIN entries
        /\ \A x \in DOMAIN entries' : entries'[x] = entries[x]
    BY <1>8 DEF DismissAnalysis, Restrict
  <2>3. QED
    BY <1>0, <2>1, <2>2, AnnounceFacts DEF ModelTypes, pageVars
<1>9. CASE OpenExport \/ \E value \in BOOLEAN : EditSelected(value)
  <2>1. PICK roles : /\ Announce(roles) /\ UNCHANGED <<rows, entries, filter>>
                     /\ selections' = Restricted /\ dialog' \in {dialog, TRUE}
    BY <1>9 DEF OpenExport, EditSelected, pageVars
  <2>2. QED
    BY <1>0, <1>a, <2>1, AnnounceFacts DEF ModelTypes
<1>10. ASSUME UNCHANGED <<modelVars, seenVars>>, filter' \in {"all", "titled"}, dialog' \in BOOLEAN
       PROVE  ModelTypes'
  BY <1>0, <1>10 DEF ModelTypes, modelVars, seenVars
<1>11. CASE AcceptExport \/ \E text \in {"all", "titled"} : DebounceFires(text)
  BY <1>0, <1>10, <1>11 DEF ModelTypes, AcceptExport, DebounceFires
<1>12. CASE \/ Io \/ Publish \/ EditFails \/ UNCHANGED vars
            \/ \E c \in Checksums, stored \in BOOLEAN : Gather(c, stored)
            \/ \E c \in Checksums, field \in {"exposed", "titled"}, value \in BOOLEAN :
                  Edit(c, field, value)
  <2>1. UNCHANGED <<modelVars, seenVars, pageVars>>
    BY <1>12 DEF Io, HandleEdit, HandleExport, Analyze, Publish, EditFails, Gather, Edit, vars
  <2>2. QED
    BY <1>0, <1>10, <2>1 DEF ModelTypes, pageVars
<1>13. QED
  BY <1>1, <1>2, <1>3, <1>4, <1>5, <1>6, <1>7, <1>8, <1>9, <1>11, <1>12 DEF Next, Gui, User

-----------------------------------------------------------------------------

(* The count: only a selection of the same size may go without a signal.   *)
CountTypes == seenCount \in 0 .. Cardinality(Checksums)

LEMMA CountStays ==
  ASSUME Typed, CountIsCurrent, selections' \subseteq Checksums,
         NEW always, AnnounceCount(always)
  PROVE  CountTypes' /\ CountIsCurrent'
<1>1. selections \subseteq Checksums
  BY DEF Typed, TypeOK
<1>2. /\ IsFiniteSet(selections) /\ Cardinality(selections) \in Nat
      /\ IsFiniteSet(selections') /\ Cardinality(selections') \in Nat
      /\ Cardinality(selections') <= Cardinality(Checksums) /\ Cardinality(Checksums) \in Nat
  BY <1>1, ScreenAssumption, FS_Subset, FS_CardinalityType
<1>3. seenCount \in 0 .. Cardinality(Checksums)
  BY DEF Typed, TypeOK
<1>4. CASE seenCount' = Cardinality(selections')
  BY <1>2, <1>4 DEF CountTypes, CountIsCurrent
<1>5. CASE seenCount' = seenCount /\ Cardinality(selections') = Cardinality(selections)
  <2>1. selections' # {} => selections # {}
    BY <1>2, <1>5, FS_EmptySet
  <2>2. QED
    BY <1>3, <1>5, <2>1 DEF CountTypes, CountIsCurrent
<1>6. QED
  BY <1>4, <1>5 DEF AnnounceCount

LEMMA CountStep == Typed /\ CountIsCurrent /\ [Next]_vars => CountTypes' /\ CountIsCurrent'
<1> SUFFICES ASSUME Typed, CountIsCurrent, [Next]_vars
             PROVE  CountTypes' /\ CountIsCurrent'
  OBVIOUS
<1>1. selections' \subseteq Checksums
  BY ModelTypesStep, ListFacts DEF ModelTypes
<1>2. CASE \E always : AnnounceCount(always)
  BY <1>1, <1>2, CountStays
<1>3. ASSUME UNCHANGED seenCount, selections' = selections \/ selections' = {}
      PROVE  CountTypes' /\ CountIsCurrent'
  BY <1>3 DEF CountTypes, CountIsCurrent, Typed, TypeOK
<1>4. CASE Gui
  BY <1>3, <1>4 DEF Gui, ReplaysLoaded, ReplaysChanged, ReceiveAnswer
<1>5. CASE \/ Io \/ Publish \/ EditFails \/ UNCHANGED vars
           \/ \E c \in Checksums, stored \in BOOLEAN : Gather(c, stored)
  BY <1>3, <1>5
  DEF Io, HandleEdit, HandleExport, Analyze, Publish, EditFails, Gather, vars, modelVars, seenVars
<1>6. CASE User
  BY <1>2, <1>3, <1>6 DEF User, SelectAll, InvertSelection, Select, OpenExport, AcceptExport,
     EditSelected, DebounceFires, ToggleSelected, Click, RequestAnalysis, DismissAnalysis, Edit,
     modelVars, seenVars
<1>7. QED
  BY <1>4, <1>5, <1>6 DEF Next

-----------------------------------------------------------------------------
(* What QML shows.                                                         *)

LEMMA WholeRowIsSeen ==
  ASSUME NEW c, seen'[c] = Data(rows', selections', entries', c)
  PROVE  RowIsSeen(c)'
<1>1. /\ Data(rows', selections', entries', c)["exposed"] = rows'[c].exposed
      /\ Data(rows', selections', entries', c)["titled"] = rows'[c].titled
      /\ Data(rows', selections', entries', c)["selected"] = (c \in selections')
      /\ Data(rows', selections', entries', c)["expanded"] = (c \in DOMAIN entries')
      /\ c \in DOMAIN entries' => Data(rows', selections', entries', c)["state"] = entries'[c]
      /\ Data(rows', selections', entries', c)["plot"]
            = (c \in DOMAIN entries' /\ entries'[c] = "complete")
  BY DataFacts
<1>2. QED
  BY <1>1 DEF RowIsSeen

(* A row is seen as it is when what changed of it was announced.           *)
LEMMA AnnouncedRowIsSeen ==
  ASSUME NEW roles, Announce(roles), NEW c \in DOMAIN rows',
         c \in DOMAIN seen => RowIsSeen(c),
         c \in DOMAIN seen =>
           LET told == IF c \in DOMAIN roles THEN roles[c] ELSE {} IN
           /\ rows'[c].exposed = rows[c].exposed \/ "exposed" \in told
           /\ rows'[c].titled = rows[c].titled \/ "titled" \in told
           /\ (c \in selections' <=> c \in selections) \/ "selected" \in told
           /\ (c \in DOMAIN entries' <=> c \in DOMAIN entries) \/ "expanded" \in told
           /\ c \in DOMAIN entries' =>
                 \/ c \in DOMAIN entries /\ entries'[c] = entries[c]
                 \/ "state" \in told /\ (entries'[c] = "complete" => "plot" \in told)
  PROVE  RowIsSeen(c)'
<1>1. CASE c \notin DOMAIN seen
  BY <1>1, AnnounceFacts, WholeRowIsSeen
<1>2. CASE c \in DOMAIN seen
  <2> DEFINE told == IF c \in DOMAIN roles THEN roles[c] ELSE {}
             now == Data(rows', selections', entries', c)
  <2>1. \A r \in Roles : seen'[c][r] = IF r \in told THEN now[r] ELSE seen[c][r]
    BY <1>2, AnnounceFacts
  <2>2. /\ now["exposed"] = rows'[c].exposed
        /\ now["titled"] = rows'[c].titled
        /\ now["selected"] = (c \in selections')
        /\ now["expanded"] = (c \in DOMAIN entries')
        /\ c \in DOMAIN entries' => now["state"] = entries'[c]
        /\ now["plot"] = (c \in DOMAIN entries' /\ entries'[c] = "complete")
    BY DataFacts
  <2>3. RowIsSeen(c)
    BY <1>2
  <2>4. /\ rows'[c].exposed = rows[c].exposed \/ "exposed" \in told
        /\ rows'[c].titled = rows[c].titled \/ "titled" \in told
        /\ (c \in selections' <=> c \in selections) \/ "selected" \in told
        /\ (c \in DOMAIN entries' <=> c \in DOMAIN entries) \/ "expanded" \in told
        /\ c \in DOMAIN entries' =>
              \/ c \in DOMAIN entries /\ entries'[c] = entries[c]
              \/ "state" \in told /\ (entries'[c] = "complete" => "plot" \in told)
    BY <1>2
  <2> HIDE DEF told, now
  <2>5. seen'[c].exposed = rows'[c].exposed /\ seen'[c].titled = rows'[c].titled
    BY <2>1, <2>2, <2>3, <2>4 DEF Roles, RowIsSeen
  <2>6. seen'[c].selected = (c \in selections')
    BY <2>1, <2>2, <2>3, <2>4 DEF Roles, RowIsSeen
  <2>7. seen'[c].expanded = (c \in DOMAIN entries')
    BY <2>1, <2>2, <2>3, <2>4 DEF Roles, RowIsSeen
  <2>8. c \in DOMAIN entries' => seen'[c].state = entries'[c]
    BY <2>1, <2>2, <2>3, <2>4 DEF Roles, RowIsSeen
  <2>9. c \in DOMAIN entries' => (entries'[c] = "complete" => seen'[c].plot)
    BY <2>1, <2>2, <2>3, <2>4 DEF Roles, RowIsSeen
  <2>10. QED
    BY <2>5, <2>6, <2>7, <2>8, <2>9 DEF RowIsSeen
<1>3. QED
  BY <1>1, <1>2

LEMMA SelectIsSeen ==
  ASSUME Typed, SeenIsNow, NEW new, NEW touched, NEW always,
         Select(new, touched, always),
         \A c \in DOMAIN rows : (c \in new <=> c \in selections) \/ c \in touched
  PROVE  SeenIsNow'
<1> SUFFICES ASSUME NEW c \in DOMAIN rows'
             PROVE  RowIsSeen(c)'
  BY DEF SeenIsNow
<1> DEFINE roles == Announced(touched, {"selected"})
<1>1. /\ Announce(roles) /\ UNCHANGED <<rows, entries>> /\ selections' = new
      /\ DOMAIN roles = touched /\ \A x \in touched : roles[x] = {"selected"}
  BY DEF Select, Announced
<1>2. RowIsSeen(c) /\ ((c \in new <=> c \in selections) \/ c \in touched)
  BY <1>1 DEF SeenIsNow
<1> HIDE DEF roles
<1>3. QED
  BY <1>1, <1>2, AnnouncedRowIsSeen

LEMMA SeenStep == Typed /\ SeenIsNow /\ [Next]_vars => SeenIsNow'
<1> SUFFICES ASSUME Typed, SeenIsNow, [Next]_vars
             PROVE  SeenIsNow'
  OBVIOUS
<1>0. /\ Visible \subseteq DOMAIN rows /\ Restricted \subseteq selections
      /\ DOMAIN seen = DOMAIN rows
  BY RestrictedFacts DEF Typed, TypeOK
<1>1. CASE ReplaysLoaded
  BY <1>1, WholeRowIsSeen DEF ReplaysLoaded, SeenIsNow
<1>2. CASE ReplaysChanged
  <2> SUFFICES ASSUME NEW x \in DOMAIN rows'
               PROVE  RowIsSeen(x)'
    BY DEF SeenIsNow
  <2> DEFINE c == Head(toGui).checksum
             new == Head(toGui).replay
             differs == IF c \in DOMAIN rows THEN {r \in DOMAIN new : rows[c][r] # new[r]} ELSE {}
             roles == Announced({c}, differs)
  <2>1. /\ rows' = [y \in DOMAIN rows \cup {c} |-> IF y = c THEN new ELSE rows[y]]
        /\ Announce(roles) /\ UNCHANGED <<selections, entries>>
    BY <1>2 DEF ReplaysChanged
  <2>2. new \in Replay
    BY <1>2, HeadAndTail, MessageFacts DEF ReplaysChanged, Receives, Typed
  <2>3. /\ x \in DOMAIN seen => RowIsSeen(x)
        /\ x \in DOMAIN seen => (x = c => x \in DOMAIN rows)
    BY <1>0 DEF SeenIsNow
  <2>4. DOMAIN roles = {c} /\ roles[c] = differs
    BY DEF Announced
  <2>5. c \in DOMAIN rows => /\ rows[c].exposed = new.exposed \/ "exposed" \in differs
                             /\ rows[c].titled = new.titled \/ "titled" \in differs
    BY <2>2 DEF Replay
  <2> HIDE DEF c, new, differs, roles
  <2>6. CASE x = c
    BY <2>1, <2>3, <2>4, <2>5, <2>6, AnnouncedRowIsSeen
  <2>7. CASE x # c
    BY <2>1, <2>3, <2>7, AnnouncedRowIsSeen
  <2>8. QED
    BY <2>6, <2>7
<1>3. CASE ReceiveAnswer
  <2> SUFFICES ASSUME NEW x \in DOMAIN rows'
               PROVE  RowIsSeen(x)'
    BY DEF SeenIsNow
  <2> DEFINE c == Head(toGui).checksum
  <2>1. PICK roles : /\ Announce(roles) /\ UNCHANGED <<rows, selections>>
                     /\ c \in DOMAIN entries => roles = Announced({c}, AnalysisRoles)
                     /\ entries' = IF c \in DOMAIN entries
                                   THEN [entries EXCEPT ![c] = Head(toGui).state] ELSE entries
    BY <1>3 DEF ReceiveAnswer
  <2> HIDE DEF c
  <2>2. RowIsSeen(x)
    BY <2>1 DEF SeenIsNow
  <2>3. CASE x = c /\ c \in DOMAIN entries
    <3>1. x \in DOMAIN roles /\ "state" \in roles[x] /\ "plot" \in roles[x]
      BY <2>1, <2>3 DEF Announced, AnalysisRoles
    <3>2. DOMAIN entries' = DOMAIN entries
      BY <2>1
    <3>3. QED
      BY <2>1, <2>2, <3>1, <3>2, AnnouncedRowIsSeen
  <2>4. CASE ~(x = c /\ c \in DOMAIN entries)
    <3>1. DOMAIN entries' = DOMAIN entries /\ (x \in DOMAIN entries => entries'[x] = entries[x])
      BY <2>1, <2>4
    <3>2. QED
      BY <2>1, <2>2, <3>1, AnnouncedRowIsSeen
  <2>5. QED
    BY <2>3, <2>4
<1>4. ASSUME NEW c \in Checksums, ToggleSelected(c)
      PROVE  SeenIsNow'
  <2> DEFINE new == IF c \in selections THEN selections \ {c} ELSE selections \cup {c}
             touched == {c}
  <2>1. Select(new, touched, TRUE)
    BY <1>4 DEF ToggleSelected
  <2>2. \A x \in DOMAIN rows : (x \in new <=> x \in selections) \/ x \in touched
    OBVIOUS
  <2> HIDE DEF new, touched
  <2>3. QED
    BY <2>1, <2>2, SelectIsSeen
<1>5. ASSUME NEW c \in Checksums, Click(c)
      PROVE  SeenIsNow'
  <2> DEFINE new == {c}
             touched == selections \cup {c}
  <2>1. Select(new, touched, TRUE)
    BY <1>5 DEF Click
  <2>2. \A x \in DOMAIN rows : (x \in new <=> x \in selections) \/ x \in touched
    OBVIOUS
  <2> HIDE DEF new, touched
  <2>3. QED
    BY <2>1, <2>2, SelectIsSeen
<1>6. CASE SelectAll
  BY <1>6, SelectIsSeen DEF SelectAll
<1>7. CASE InvertSelection
  <2> DEFINE new == Visible \ selections
             touched == selections \cup Visible
  <2>1. Select(new, touched, FALSE)
    BY <1>7 DEF InvertSelection
  <2>2. \A x \in DOMAIN rows : (x \in new <=> x \in selections) \/ x \in touched
    OBVIOUS
  <2> HIDE DEF new, touched
  <2>3. QED
    BY <2>1, <2>2, SelectIsSeen
<1>8. ASSUME NEW c \in Checksums, RequestAnalysis(c)
      PROVE  SeenIsNow'
  <2> SUFFICES ASSUME NEW x \in DOMAIN rows'
               PROVE  RowIsSeen(x)'
    BY DEF SeenIsNow
  <2> DEFINE roles == Announced({c}, {"expanded", "state"})
  <2>1. /\ Announce(roles) /\ UNCHANGED <<rows, selections>>
        /\ DOMAIN roles = {c} /\ roles[c] = {"expanded", "state"}
        /\ DOMAIN entries' = DOMAIN entries \cup {c} /\ entries'[c] = "pending"
        /\ \A y \in DOMAIN entries : y # c => entries'[y] = entries[y]
    BY <1>8 DEF RequestAnalysis, Announced
  <2> HIDE DEF roles
  <2>2. RowIsSeen(x)
    BY <2>1 DEF SeenIsNow
  <2>3. QED
    BY <2>1, <2>2, AnnouncedRowIsSeen
<1>9. ASSUME NEW c \in Checksums, DismissAnalysis(c)
      PROVE  SeenIsNow'
  <2> SUFFICES ASSUME NEW x \in DOMAIN rows'
               PROVE  RowIsSeen(x)'
    BY DEF SeenIsNow
  <2> DEFINE roles == Announced({c}, {"expanded"})
  <2>1. /\ Announce(roles) /\ UNCHANGED <<rows, selections>>
        /\ DOMAIN roles = {c} /\ roles[c] = {"expanded"}
        /\ DOMAIN entries' = DOMAIN entries \ {c}
        /\ \A y \in DOMAIN entries' : entries'[y] = entries[y]
    BY <1>9 DEF DismissAnalysis, Announced, Restrict
  <2> HIDE DEF roles
  <2>2. RowIsSeen(x)
    BY <2>1 DEF SeenIsNow
  <2>3. QED
    BY <2>1, <2>2, AnnouncedRowIsSeen
<1>10. CASE OpenExport \/ \E value \in BOOLEAN : EditSelected(value)
  <2> SUFFICES ASSUME NEW x \in DOMAIN rows'
               PROVE  RowIsSeen(x)'
    BY DEF SeenIsNow
  <2> DEFINE roles == Announced(selections \ Restricted, {"selected"})
  <2>1. /\ Announce(roles) /\ UNCHANGED <<rows, entries>> /\ selections' = Restricted
        /\ DOMAIN roles = selections \ Restricted
        /\ \A y \in selections \ Restricted : roles[y] = {"selected"}
    BY <1>10 DEF OpenExport, EditSelected, Announced
  <2> HIDE DEF roles
  <2>2. RowIsSeen(x)
    BY <2>1 DEF SeenIsNow
  <2>3. QED
    BY <1>0, <2>1, <2>2, AnnouncedRowIsSeen
<1>11. CASE UNCHANGED <<modelVars, seenVars>>
  BY <1>11 DEF SeenIsNow, RowIsSeen, modelVars, seenVars
<1>12. QED
  BY <1>1, <1>2, <1>3, <1>4, <1>5, <1>6, <1>7, <1>8, <1>9, <1>10, <1>11
  DEF Next, Io, Gui, User, HandleEdit, HandleExport, Analyze, Publish, EditFails, Gather, Edit,
      AcceptExport, DebounceFires, vars

-----------------------------------------------------------------------------
(* What is in flight to the GUI: the last message that says something of a *)
(* replay says what the catalogue says; without one the list says it.      *)

Agrees(f, g, c) ==
  /\ c \in DOMAIN f <=> c \in DOMAIN g
  /\ c \in DOMAIN g => f[c] = g[c]

Touches(m, c) == m.kind = "loaded" \/ (m.kind = "changed" /\ m.checksum = c)

Says(m, g, c) ==
  IF m.kind = "loaded" THEN Agrees(m.replays, g, c) ELSE c \in DOMAIN g /\ m.replay = g[c]

LastWordIsRight(c) ==
  /\ \A i \in 1 .. Len(toGui) :
        /\ Touches(toGui[i], c)
        /\ \A j \in i + 1 .. Len(toGui) : ~Touches(toGui[j], c)
        => Says(toGui[i], catalogue, c)
  /\ (\A i \in 1 .. Len(toGui) : ~Touches(toGui[i], c)) => Agrees(rows, catalogue, c)

ListCatchesUp == \A c \in Checksums : LastWordIsRight(c)

LEMMA TellKeepsLastWord ==
  ASSUME Typed, NEW m, Tell(m), UNCHANGED rows,
         NEW c \in Checksums, LastWordIsRight(c),
         Touches(m, c) => Says(m, catalogue', c),
         ~Touches(m, c) => Agrees(catalogue, catalogue', c)
  PROVE  LastWordIsRight(c)'
<1>1. /\ Len(toGui) \in Nat /\ Len(toGui') = Len(toGui) + 1 /\ toGui'[Len(toGui) + 1] = m
      /\ \A i \in 1 .. Len(toGui) : toGui'[i] = toGui[i]
  BY DEF Typed, Tell
<1>2. \A i \in 1 .. Len(toGui') : toGui'[i] = IF i = Len(toGui') THEN m ELSE toGui[i]
  BY <1>1
<1>3. CASE Touches(m, c)
  <2>1. \A i \in 1 .. Len(toGui') : i = Len(toGui') \/ Len(toGui') \in i + 1 .. Len(toGui')
    BY <1>1
  <2>2. QED
    BY <1>1, <1>3, <2>1 DEF LastWordIsRight, Touches
<1>4. CASE ~Touches(m, c)
  <2>1. \A x : Agrees(x, catalogue, c) => Agrees(x, catalogue', c)
    BY <1>4 DEF Agrees
  <2>2. \A x : Says(x, catalogue, c) => Says(x, catalogue', c)
    BY <1>4, <2>1 DEF Says, Agrees
  <2>3. ASSUME NEW i \in 1 .. Len(toGui'), Touches(toGui'[i], c),
               \A j \in i + 1 .. Len(toGui') : ~Touches(toGui'[j], c)
        PROVE  Says(toGui'[i], catalogue', c)
    <3>1. i \in 1 .. Len(toGui) /\ toGui'[i] = toGui[i]
      BY <1>1, <1>4, <2>3
    <3>2. \A j \in i + 1 .. Len(toGui) : ~Touches(toGui[j], c)
      BY <1>1, <2>3, <3>1
    <3>3. Says(toGui[i], catalogue, c)
      BY <2>3, <3>1, <3>2 DEF LastWordIsRight
    <3>4. QED
      BY <2>2, <3>1, <3>3
  <2>4. (\A i \in 1 .. Len(toGui') : ~Touches(toGui'[i], c)) => Agrees(rows, catalogue, c)
    BY <1>1 DEF LastWordIsRight
  <2>5. Agrees(rows, catalogue, c) => Agrees(rows, catalogue', c)
    BY <1>4 DEF Agrees
  <2>6. QED
    BY <2>3, <2>4, <2>5 DEF LastWordIsRight, Touches
<1>5. QED
  BY <1>3, <1>4

LEMMA ReceiveKeepsLastWord ==
  ASSUME Typed, toGui # <<>>, toGui' = Tail(toGui), UNCHANGED catalogue,
         NEW c \in Checksums, LastWordIsRight(c),
         Touches(Head(toGui), c) /\ Says(Head(toGui), catalogue, c) => Agrees(rows', catalogue, c),
         ~Touches(Head(toGui), c) /\ Agrees(rows, catalogue, c) => Agrees(rows', catalogue, c)
  PROVE  LastWordIsRight(c)'
<1>1. /\ Len(toGui) \in Nat /\ Len(toGui) >= 1 /\ Len(toGui') = Len(toGui) - 1
      /\ Head(toGui) = toGui[1] /\ \A i \in 1 .. Len(toGui') : toGui'[i] = toGui[i + 1]
  BY HeadAndTail DEF Typed
<1>2. ASSUME NEW i \in 1 .. Len(toGui'), Touches(toGui'[i], c),
             \A j \in i + 1 .. Len(toGui') : ~Touches(toGui'[j], c)
      PROVE  Says(toGui'[i], catalogue, c)
  <2>1. i + 1 \in 1 .. Len(toGui) /\ toGui'[i] = toGui[i + 1]
    BY <1>1
  <2>2. ASSUME NEW j \in i + 2 .. Len(toGui)
        PROVE  ~Touches(toGui[j], c)
    <3>1. j - 1 \in i + 1 .. Len(toGui') /\ j - 1 \in 1 .. Len(toGui') /\ (j - 1) + 1 = j
      BY <1>1
    <3>2. toGui'[j - 1] = toGui[j]
      BY <1>1, <3>1
    <3>3. QED
      BY <1>2, <3>1, <3>2
  <2>3. QED
    BY <1>2, <2>1, <2>2 DEF LastWordIsRight
<1>3. ASSUME \A i \in 1 .. Len(toGui') : ~Touches(toGui'[i], c)
      PROVE  Agrees(rows', catalogue, c)
  <2>1. ASSUME NEW j \in 2 .. Len(toGui)
        PROVE  ~Touches(toGui[j], c)
    <3>1. j - 1 \in 1 .. Len(toGui') /\ (j - 1) + 1 = j
      BY <1>1
    <3>2. QED
      BY <1>1, <1>3, <3>1
  <2>2. CASE Touches(Head(toGui), c)
    <3>1. 1 \in 1 .. Len(toGui) /\ toGui[1] = Head(toGui)
      BY <1>1
    <3>2. Says(Head(toGui), catalogue, c)
      BY <2>1, <2>2, <3>1 DEF LastWordIsRight
    <3>3. QED
      BY <2>2, <3>2
  <2>3. CASE ~Touches(Head(toGui), c)
    <3>1. \A j \in 1 .. Len(toGui) : ~Touches(toGui[j], c)
      BY <1>1, <2>1, <2>3
    <3>2. QED
      BY <2>3, <3>1 DEF LastWordIsRight
  <2>4. QED
    BY <2>2, <2>3
<1>4. QED
  BY <1>2, <1>3 DEF LastWordIsRight, Touches, Says, Agrees

LEMMA ChangeKeepsLastWord ==
  ASSUME Typed, ListCatchesUp, NEW x \in Checksums, Changes(x), UNCHANGED rows
  PROVE  ListCatchesUp'
<1> DEFINE m == [kind |-> "changed", checksum |-> x, replay |-> catalogue'[x]]
<1>1. Tell(m) /\ m.kind = "changed" /\ m.checksum = x /\ m.replay = catalogue'[x]
  BY DEF Changes
<1> HIDE DEF m
<1> SUFFICES ASSUME NEW c \in Checksums
             PROVE  LastWordIsRight(c)'
  BY DEF ListCatchesUp
<1>2. LastWordIsRight(c)
  BY DEF ListCatchesUp
<1>3. Touches(m, c) => Says(m, catalogue', c)
  BY <1>1 DEF Touches, Says, Changes
<1>4. ~Touches(m, c) => Agrees(catalogue, catalogue', c)
  BY <1>1 DEF Touches, Agrees, Changes
<1>5. QED
  BY <1>1, <1>2, <1>3, <1>4, TellKeepsLastWord

LEMMA ListStep == Typed /\ ListCatchesUp /\ [Next]_vars => ListCatchesUp'
<1> SUFFICES ASSUME Typed, ListCatchesUp, [Next]_vars
             PROVE  ListCatchesUp'
  OBVIOUS
<1>0. catalogue \in Lists /\ toIo \in Seq(IoMessages)
  BY DEF Typed
<1>1. CASE Publish
  <2> SUFFICES ASSUME NEW c \in Checksums
               PROVE  LastWordIsRight(c)'
    BY DEF ListCatchesUp
  <2> DEFINE m == [kind |-> "loaded", replays |-> catalogue']
  <2>1. Tell(m) /\ m.kind = "loaded" /\ m.replays = catalogue' /\ UNCHANGED rows
    BY <1>1 DEF Publish, modelVars
  <2> HIDE DEF m
  <2>2. Touches(m, c) /\ Says(m, catalogue', c)
    BY <2>1 DEF Touches, Says, Agrees
  <2>3. LastWordIsRight(c)
    BY DEF ListCatchesUp
  <2>4. QED
    BY <2>1, <2>2, <2>3, TellKeepsLastWord
<1>2. ASSUME NEW c \in Checksums, NEW stored \in BOOLEAN, Gather(c, stored)
      PROVE  ListCatchesUp'
  BY <1>0, <1>2, GatherChanges, ChangeKeepsLastWord DEF Gather, modelVars
<1>3. CASE HandleEdit /\ Head(toIo).checksum \in DOMAIN catalogue
  BY <1>0, <1>3, EditChanges, ChangeKeepsLastWord DEF HandleEdit, modelVars
<1>4. CASE Analyze
  <2> SUFFICES ASSUME NEW c \in Checksums
               PROVE  LastWordIsRight(c)'
    BY DEF ListCatchesUp
  <2>1. PICK state : Tell([kind |-> "answer", checksum |-> Head(toIo).checksum, state |-> state])
    BY <1>4 DEF Analyze
  <2> DEFINE m == [kind |-> "answer", checksum |-> Head(toIo).checksum, state |-> state]
  <2>2. Tell(m) /\ m.kind = "answer" /\ UNCHANGED <<rows, catalogue>>
    BY <1>4, <2>1 DEF Analyze, modelVars
  <2> HIDE DEF m
  <2>3. ~Touches(m, c) /\ Agrees(catalogue, catalogue', c)
    BY <2>2 DEF Touches, Agrees
  <2>4. LastWordIsRight(c)
    BY DEF ListCatchesUp
  <2>5. QED
    BY <2>2, <2>3, <2>4, TellKeepsLastWord
<1>5. CASE Gui
  <2> SUFFICES ASSUME NEW c \in Checksums
               PROVE  LastWordIsRight(c)'
    BY DEF ListCatchesUp
  <2>0. LastWordIsRight(c)
    BY DEF ListCatchesUp
  <2> DEFINE m == Head(toGui)
  <2>1. toGui # <<>> /\ toGui' = Tail(toGui) /\ UNCHANGED catalogue
    BY <1>5 DEF Gui, ReplaysLoaded, ReplaysChanged, ReceiveAnswer, Receives
  <2>2. CASE ReplaysLoaded
    <3>1. Touches(m, c) /\ (Says(m, catalogue, c) => Agrees(rows', catalogue, c))
      BY <2>2 DEF ReplaysLoaded, Receives, Touches, Says
    <3>2. QED
      BY <2>0, <2>1, <3>1, ReceiveKeepsLastWord
  <2>3. CASE ReplaysChanged
    <3>1. /\ m.kind = "changed"
          /\ rows' = [x \in DOMAIN rows \cup {m.checksum} |->
                        IF x = m.checksum THEN m.replay ELSE rows[x]]
      BY <2>3 DEF ReplaysChanged, Receives
    <3> HIDE DEF m
    <3>2. Touches(m, c) /\ Says(m, catalogue, c) => Agrees(rows', catalogue, c)
      BY <3>1 DEF Touches, Says, Agrees
    <3>3. ~Touches(m, c) /\ Agrees(rows, catalogue, c) => Agrees(rows', catalogue, c)
      BY <3>1 DEF Touches, Agrees
    <3>4. QED
      BY <2>0, <2>1, <3>2, <3>3, ReceiveKeepsLastWord DEF m
  <2>4. CASE ReceiveAnswer
    <3>1. ~Touches(m, c) /\ UNCHANGED rows
      BY <2>4 DEF ReceiveAnswer, Receives, Touches
    <3>2. QED
      BY <2>0, <2>1, <3>1, ReceiveKeepsLastWord
  <2>5. QED
    BY <1>5, <2>2, <2>3, <2>4 DEF Gui
<1>6. CASE UNCHANGED <<catalogue, toGui, rows>>
  BY <1>6 DEF ListCatchesUp, LastWordIsRight, Touches, Says, Agrees
<1>7. QED
  BY <1>1, <1>2, <1>3, <1>4, <1>5, <1>6
  DEF Next, Io, User, HandleEdit, HandleExport, EditFails, SelectAll, InvertSelection, Select, OpenExport,
      AcceptExport, EditSelected, DebounceFires, ToggleSelected, Click, RequestAnalysis,
      DismissAnalysis, Edit, vars, ioVars, modelVars

-----------------------------------------------------------------------------
(* What is in flight to the io thread: the last command for a title gives  *)
(* the title last asked for; without one the catalogue has it already.     *)

Titles(m, c) == m.kind = "titled" /\ m.checksum = c

LastAskIsRight(c) ==
  /\ \A i \in 1 .. Len(toIo) :
        Titles(toIo[i], c) /\ (\A j \in i + 1 .. Len(toIo) : ~Titles(toIo[j], c))
        => toIo[i].value = asked[c]
  /\ (\A i \in 1 .. Len(toIo) : ~Titles(toIo[i], c)) => catalogue[c].titled = asked[c]

ListWillBeAsAsked == \A c \in DOMAIN asked : LastAskIsRight(c)

LEMMA SameQueueKeepsAsk ==
  ASSUME NEW c, LastAskIsRight(c), UNCHANGED toIo, asked'[c] = asked[c],
         catalogue'[c].titled = catalogue[c].titled
  PROVE  LastAskIsRight(c)'
BY DEF LastAskIsRight, Titles

LEMMA OtherCommandsKeepAsk ==
  ASSUME toIo \in Seq(IoMessages), NEW s \in Seq(IoMessages), Send(s),
         NEW c, \A k \in 1 .. Len(s) : ~Titles(s[k], c),
         LastAskIsRight(c), asked'[c] = asked[c], catalogue'[c] = catalogue[c]
  PROVE  LastAskIsRight(c)'
<1>1. toIo' = toIo \o s
  BY DEF Send
<1>2. /\ Len(toIo) \in Nat /\ Len(s) \in Nat /\ Len(toIo') = Len(toIo) + Len(s)
      /\ \A i \in 1 .. Len(toIo) : toIo'[i] = toIo[i]
      /\ \A i \in 1 .. Len(toIo') : i > Len(toIo) => toIo'[i] = s[i - Len(toIo)]
  BY <1>1
<1>3. \A i \in 1 .. Len(toIo') : i > Len(toIo) => ~Titles(toIo'[i], c)
  <2> SUFFICES ASSUME NEW i \in 1 .. Len(toIo'), i > Len(toIo)
               PROVE  ~Titles(toIo'[i], c)
    OBVIOUS
  <2>1. i - Len(toIo) \in 1 .. Len(s) /\ toIo'[i] = s[i - Len(toIo)]
    BY <1>2
  <2>2. QED
    BY <2>1
<1>4. ASSUME NEW i \in 1 .. Len(toIo'), Titles(toIo'[i], c),
             \A j \in i + 1 .. Len(toIo') : ~Titles(toIo'[j], c)
      PROVE  toIo'[i].value = asked[c]
  <2>1. i \in 1 .. Len(toIo) /\ toIo'[i] = toIo[i]
    BY <1>2, <1>3, <1>4
  <2>2. ASSUME NEW j \in i + 1 .. Len(toIo)
        PROVE  ~Titles(toIo[j], c)
    <3>1. j \in i + 1 .. Len(toIo') /\ j \in 1 .. Len(toIo)
      BY <1>2, <2>1
    <3>2. QED
      BY <1>2, <1>4, <3>1
  <2>3. QED
    BY <1>4, <2>1, <2>2 DEF LastAskIsRight
<1>5. ASSUME \A i \in 1 .. Len(toIo') : ~Titles(toIo'[i], c)
      PROVE  catalogue[c].titled = asked[c]
  <2>1. ASSUME NEW i \in 1 .. Len(toIo)
        PROVE  ~Titles(toIo[i], c)
    <3>1. i \in 1 .. Len(toIo')
      BY <1>2
    <3>2. QED
      BY <1>2, <1>5, <3>1
  <2>2. QED
    BY <2>1 DEF LastAskIsRight
<1>6. QED
  BY <1>4, <1>5 DEF LastAskIsRight, Titles

LEMMA CommandIsLastAsk ==
  ASSUME toIo \in Seq(IoMessages), NEW m, Send(<<m>>),
         NEW c, Titles(m, c), m.value = asked'[c]
  PROVE  LastAskIsRight(c)'
<1>1. toIo' = Append(toIo, m)
  BY DEF Send
<1>2. /\ Len(toIo) \in Nat /\ Len(toIo') = Len(toIo) + 1 /\ toIo'[Len(toIo')] = m
  BY <1>1
<1> DEFINE n == Len(toIo')
<1>3. n \in 1 .. n /\ toIo'[n] = m /\ n \in Nat
  BY <1>2
<1> HIDE DEF n
<1>4. ASSUME NEW i \in 1 .. n, \A j \in i + 1 .. n : ~Titles(toIo'[j], c)
      PROVE  i = n
  <2>1. n \notin i + 1 .. n
    BY <1>3, <1>4
  <2>2. QED
    BY <1>3, <2>1
<1>5. QED
  BY <1>3, <1>4 DEF LastAskIsRight, Titles, n

LEMMA HandledCommandKeepsAsk ==
  ASSUME toIo \in Seq(IoMessages), toIo # <<>>, toIo' = Tail(toIo),
         NEW c, LastAskIsRight(c), asked'[c] = asked[c],
         catalogue'[c].titled = IF Titles(Head(toIo), c) THEN Head(toIo).value
                                ELSE catalogue[c].titled
  PROVE  LastAskIsRight(c)'
<1>1. /\ Len(toIo) \in Nat /\ Len(toIo') = Len(toIo) - 1 /\ Len(toIo) >= 1 /\ Head(toIo) = toIo[1]
      /\ \A i \in 1 .. Len(toIo') : toIo'[i] = toIo[i + 1]
  BY HeadAndTail
<1>2. ASSUME NEW i \in 1 .. Len(toIo'), Titles(toIo'[i], c),
             \A j \in i + 1 .. Len(toIo') : ~Titles(toIo'[j], c)
      PROVE  toIo'[i].value = asked[c]
  <2>1. i + 1 \in 1 .. Len(toIo) /\ toIo'[i] = toIo[i + 1]
    BY <1>1
  <2>2. ASSUME NEW j \in i + 2 .. Len(toIo)
        PROVE  ~Titles(toIo[j], c)
    <3>1. j - 1 \in i + 1 .. Len(toIo') /\ toIo'[j - 1] = toIo[j]
      BY <1>1
    <3>2. QED
      BY <1>2, <3>1
  <2>3. \A j \in (i + 1) + 1 .. Len(toIo) : ~Titles(toIo[j], c)
    BY <2>2
  <2>4. QED
    BY <1>2, <2>1, <2>3 DEF LastAskIsRight
<1>3. ASSUME \A i \in 1 .. Len(toIo') : ~Titles(toIo'[i], c)
      PROVE  catalogue'[c].titled = asked[c]
  <2>1. ASSUME NEW j \in 2 .. Len(toIo)
        PROVE  ~Titles(toIo[j], c)
    <3>1. j - 1 \in 1 .. Len(toIo') /\ toIo'[j - 1] = toIo[j]
      BY <1>1
    <3>2. QED
      BY <1>3, <3>1
  <2>2. CASE Titles(Head(toIo), c)
    <3>1. 1 \in 1 .. Len(toIo) /\ \A j \in 1 + 1 .. Len(toIo) : ~Titles(toIo[j], c)
      BY <1>1, <2>1
    <3>2. QED
      BY <1>1, <2>2, <3>1 DEF LastAskIsRight
  <2>3. CASE ~Titles(Head(toIo), c)
    <3>1. \A j \in 1 .. Len(toIo) : ~Titles(toIo[j], c)
      BY <1>1, <2>1, <2>3
    <3>2. QED
      BY <2>3, <3>1 DEF LastAskIsRight
  <2>4. QED
    BY <2>2, <2>3
<1>4. QED
  BY <1>2, <1>3 DEF LastAskIsRight, Titles

AskTypes ==
  /\ asked \in [DOMAIN asked -> BOOLEAN]
  /\ DOMAIN asked \subseteq DOMAIN catalogue

LEMMA ForgetFacts ==
  ASSUME asked \in [DOMAIN asked -> BOOLEAN], NEW C, Forget(C)
  PROVE  /\ DOMAIN asked' = DOMAIN asked \ C /\ asked' \in [DOMAIN asked' -> BOOLEAN]
         /\ \A c \in DOMAIN asked' : asked'[c] = asked[c]
BY DEF Forget, Restrict

LEMMA AsksFacts ==
  ASSUME AskTypes, NEW c, NEW field, NEW value \in BOOLEAN, Asks(c, field, value)
  PROVE  /\ DOMAIN asked' \subseteq DOMAIN catalogue /\ asked' \in [DOMAIN asked' -> BOOLEAN]
         /\ \A x \in DOMAIN asked' : x # c \/ field # "titled" => x \in DOMAIN asked /\ asked'[x] = asked[x]
         /\ field = "titled" /\ c \in DOMAIN asked' => asked'[c] = value
<1>1. CASE field = "titled" /\ c \in DOMAIN catalogue
  BY <1>1 DEF Asks, AskTypes
<1>2. CASE ~(field = "titled" /\ c \in DOMAIN catalogue)
  <2>1. asked' = asked
    BY <1>2 DEF Asks
  <2>2. QED
    BY <1>2, <2>1 DEF AskTypes
<1>3. QED
  BY <1>1, <1>2

LEMMA AskStep == Typed /\ ListWillBeAsAsked /\ [Next]_vars => AskTypes' /\ ListWillBeAsAsked'
<1> SUFFICES ASSUME Typed, ListWillBeAsAsked, [Next]_vars
             PROVE  AskTypes' /\ ListWillBeAsAsked'
  OBVIOUS
<1>0. /\ catalogue \in Lists /\ toIo \in Seq(IoMessages) /\ AskTypes
      /\ DOMAIN catalogue \subseteq Checksums
      /\ \A c \in DOMAIN asked : LastAskIsRight(c) /\ c \in DOMAIN catalogue
  BY ListFacts DEF Typed, TypeOK, AskTypes, ListWillBeAsAsked
<1>1. CASE Publish
  <2>1. PICK kept \in SUBSET DOMAIN catalogue :
          catalogue' = Restrict(catalogue, kept) /\ Forget(Checksums \ kept)
    BY <1>1 DEF Publish
  <2>2. DOMAIN catalogue' = kept /\ \A c \in kept : catalogue'[c] = catalogue[c]
    BY <2>1 DEF Restrict
  <2>3. /\ DOMAIN asked' = DOMAIN asked \ (Checksums \ kept)
        /\ asked' \in [DOMAIN asked' -> BOOLEAN]
        /\ \A c \in DOMAIN asked' : asked'[c] = asked[c]
    BY <1>0, <2>1, ForgetFacts DEF AskTypes
  <2>4. UNCHANGED toIo
    BY <1>1 DEF Publish
  <2>5. \A c \in DOMAIN asked' : c \in kept /\ c \in DOMAIN asked
    BY <1>0, <2>3
  <2>6. \A c \in DOMAIN asked' : LastAskIsRight(c)'
    BY <1>0, <2>2, <2>3, <2>4, <2>5, SameQueueKeepsAsk
  <2>7. QED
    BY <2>2, <2>3, <2>5, <2>6 DEF AskTypes, ListWillBeAsAsked
<1>2. ASSUME NEW x \in Checksums, NEW stored \in BOOLEAN, Gather(x, stored)
      PROVE  AskTypes' /\ ListWillBeAsAsked'
  <2>1. UNCHANGED <<toIo, asked>>
    BY <1>2 DEF Gather
  <2>2. /\ DOMAIN catalogue \subseteq DOMAIN catalogue'
        /\ \A c \in DOMAIN catalogue : catalogue'[c].titled = catalogue[c].titled
    BY <1>0, <1>2, GatherChanges DEF Changes
  <2>3. \A c \in DOMAIN asked : LastAskIsRight(c)'
    BY <1>0, <2>1, <2>2, SameQueueKeepsAsk
  <2>4. QED
    BY <1>0, <2>1, <2>2, <2>3 DEF AskTypes, ListWillBeAsAsked
<1>3. CASE Io
  <2>1. toIo # <<>> /\ toIo' = Tail(toIo) /\ UNCHANGED asked
    BY <1>3 DEF Io, HandleEdit, HandleExport, Analyze
  <2>2. /\ DOMAIN catalogue \subseteq DOMAIN catalogue'
        /\ \A c \in DOMAIN asked :
             catalogue'[c].titled = IF Titles(Head(toIo), c) THEN Head(toIo).value
                                    ELSE catalogue[c].titled
    <3>1. CASE HandleEdit /\ Head(toIo).checksum \in DOMAIN catalogue
      <4>1. /\ Changes(Head(toIo).checksum)
            /\ catalogue'[Head(toIo).checksum].titled =
                 IF Head(toIo).kind = "titled" THEN Head(toIo).value
                 ELSE catalogue[Head(toIo).checksum].titled
        BY <1>0, <3>1, EditChanges
      <4>2. \A c \in DOMAIN catalogue : c # Head(toIo).checksum => catalogue'[c] = catalogue[c]
        BY <4>1 DEF Changes
      <4>3. QED
        BY <1>0, <4>1, <4>2 DEF Titles, Changes
    <3>2. CASE HandleEdit /\ Head(toIo).checksum \notin DOMAIN catalogue
      BY <1>0, <3>2 DEF HandleEdit, Titles
    <3>3. CASE HandleExport \/ Analyze
      BY <3>3 DEF HandleExport, Analyze, Titles
    <3>4. QED
      BY <1>3, <3>1, <3>2, <3>3 DEF Io
  <2>3. \A c \in DOMAIN asked : LastAskIsRight(c)'
    BY <1>0, <2>1, <2>2, HandledCommandKeepsAsk
  <2>4. QED
    BY <1>0, <2>1, <2>2, <2>3 DEF AskTypes, ListWillBeAsAsked
<1>4. CASE EditFails
  <2>1. /\ toIo # <<>> /\ toIo' = Tail(toIo) /\ UNCHANGED catalogue
        /\ Forget({Head(toIo).checksum})
    BY <1>4 DEF EditFails
  <2>2. /\ DOMAIN asked' = DOMAIN asked \ {Head(toIo).checksum}
        /\ asked' \in [DOMAIN asked' -> BOOLEAN]
        /\ \A c \in DOMAIN asked' : asked'[c] = asked[c]
    BY <1>0, <2>1, ForgetFacts DEF AskTypes
  <2>3. \A c \in DOMAIN asked' : c \in DOMAIN asked /\ ~Titles(Head(toIo), c)
    BY <2>2 DEF Titles
  <2>4. \A c \in DOMAIN asked' : LastAskIsRight(c)'
    BY <1>0, <2>1, <2>2, <2>3, HandledCommandKeepsAsk
  <2>5. QED
    BY <1>0, <2>1, <2>2, <2>4 DEF AskTypes, ListWillBeAsAsked
<1>5. ASSUME NEW x \in Checksums, NEW field \in {"exposed", "titled"}, NEW value \in BOOLEAN,
             Edit(x, field, value)
      PROVE  AskTypes' /\ ListWillBeAsAsked'
  <2> DEFINE m == [kind |-> field, checksum |-> x, value |-> value]
  <2>1. m \in IoMessages /\ m.kind = field /\ m.checksum = x /\ m.value = value
    BY MessageFacts
  <2>2. Send(<<m>>) /\ Asks(x, field, value) /\ UNCHANGED catalogue
    BY <1>5 DEF Edit
  <2> HIDE DEF m
  <2>3. /\ DOMAIN asked' \subseteq DOMAIN catalogue /\ asked' \in [DOMAIN asked' -> BOOLEAN]
        /\ \A c \in DOMAIN asked' : c # x \/ field # "titled" => c \in DOMAIN asked /\ asked'[c] = asked[c]
        /\ field = "titled" /\ x \in DOMAIN asked' => asked'[x] = value
    BY <1>0, <2>2, AsksFacts
  <2>4. ASSUME NEW c \in DOMAIN asked', Titles(m, c)
        PROVE  LastAskIsRight(c)'
    <3>1. m.value = asked'[c]
      BY <2>1, <2>3, <2>4 DEF Titles
    <3>2. QED
      BY <1>0, <2>2, <2>4, <3>1, CommandIsLastAsk
  <2>5. ASSUME NEW c \in DOMAIN asked', ~Titles(m, c)
        PROVE  LastAskIsRight(c)'
    <3>1. c \in DOMAIN asked /\ asked'[c] = asked[c]
      BY <2>1, <2>3, <2>5 DEF Titles
    <3>2. <<m>> \in Seq(IoMessages) /\ \A k \in 1 .. Len(<<m>>) : ~Titles(<<m>>[k], c)
      BY <2>1, <2>5
    <3>3. LastAskIsRight(c) /\ catalogue'[c] = catalogue[c]
      BY <1>0, <2>2, <3>1
    <3>4. QED
      BY <1>0, <2>2, <3>1, <3>2, <3>3, OtherCommandsKeepAsk
  <2>6. QED
    BY <2>2, <2>3, <2>4, <2>5 DEF AskTypes, ListWillBeAsAsked
<1>6. ASSUME NEW s \in Seq(IoMessages), Send(s), UNCHANGED <<asked, catalogue>>,
             \A k \in 1 .. Len(s) : s[k].kind # "titled"
      PROVE  AskTypes' /\ ListWillBeAsAsked'
  <2>1. \A c \in DOMAIN asked : \A k \in 1 .. Len(s) : ~Titles(s[k], c)
    BY <1>6 DEF Titles
  <2>2. \A c \in DOMAIN asked : LastAskIsRight(c)'
    BY <1>0, <1>6, <2>1, OtherCommandsKeepAsk
  <2>3. QED
    BY <1>0, <1>6, <2>2 DEF AskTypes, ListWillBeAsAsked
<1>7. ASSUME NEW c \in Checksums, RequestAnalysis(c)
      PROVE  AskTypes' /\ ListWillBeAsAsked'
  <2> DEFINE m == [kind |-> "analyze", checksum |-> c]
  <2>1. m \in IoMessages /\ m.kind = "analyze"
    BY MessageFacts
  <2>2. Send(<<m>>) /\ UNCHANGED <<asked, catalogue>>
    BY <1>7 DEF RequestAnalysis
  <2> HIDE DEF m
  <2>3. <<m>> \in Seq(IoMessages) /\ \A k \in 1 .. Len(<<m>>) : <<m>>[k].kind # "titled"
    BY <2>1
  <2>4. QED
    BY <1>6, <2>2, <2>3
<1>8. CASE AcceptExport
  <2> DEFINE m == [kind |-> "export", checksums |-> selections]
  <2>1. m \in IoMessages /\ m.kind = "export"
    BY MessageFacts, RestrictedFacts DEF Typed, TypeOK
  <2>2. Send(<<m>>) /\ UNCHANGED <<asked, catalogue>>
    BY <1>8 DEF AcceptExport
  <2> HIDE DEF m
  <2>3. <<m>> \in Seq(IoMessages) /\ \A k \in 1 .. Len(<<m>>) : <<m>>[k].kind # "titled"
    BY <2>1
  <2>4. QED
    BY <1>6, <2>2, <2>3
<1>9. ASSUME NEW value \in BOOLEAN, EditSelected(value)
      PROVE  AskTypes' /\ ListWillBeAsAsked'
  <2>1. PICK order \in [1 .. Cardinality(Restricted) -> Restricted] :
            Send([i \in DOMAIN order |->
                    [kind |-> "exposed", checksum |-> order[i], value |-> value]])
    BY <1>9 DEF EditSelected
  <2> DEFINE msgs == [i \in DOMAIN order |->
                        [kind |-> "exposed", checksum |-> order[i], value |-> value]]
  <2>2. msgs \in Seq(IoMessages)
    BY EditsAreMessages
  <2>3. \A k \in DOMAIN msgs : msgs[k].kind # "titled"
    OBVIOUS
  <2>4. Send(msgs) /\ UNCHANGED <<asked, catalogue>>
    BY <1>9, <2>1 DEF EditSelected
  <2> HIDE DEF msgs
  <2>5. DOMAIN msgs = 1 .. Len(msgs)
    BY <2>2
  <2>6. QED
    BY <1>6, <2>2, <2>3, <2>4, <2>5
<1>10. CASE UNCHANGED <<catalogue, toIo, asked>>
  <2>1. \A c \in DOMAIN asked : LastAskIsRight(c)'
    BY <1>0, <1>10, SameQueueKeepsAsk
  <2>2. QED
    BY <1>0, <1>10, <2>1 DEF AskTypes, ListWillBeAsAsked
<1>11. QED
  BY <1>1, <1>2, <1>3, <1>4, <1>5, <1>7, <1>8, <1>9, <1>10
  DEF Next, Gui, User, ReplaysLoaded, ReplaysChanged, ReceiveAnswer, SelectAll, InvertSelection,
      Select, OpenExport, DebounceFires, ToggleSelected, Click, DismissAnalysis, vars, ioVars

-----------------------------------------------------------------------------

IInv == Typed /\ SeenIsNow /\ CountIsCurrent /\ ListCatchesUp /\ ListWillBeAsAsked

LEMMA InitIsGood == Init => IInv
<1> SUFFICES ASSUME Init
             PROVE  IInv
  OBVIOUS
<1>1. PICK C \in SUBSET Checksums : catalogue = [c \in C |-> [exposed |-> TRUE, titled |-> FALSE]]
  BY DEF Init
<1>2. catalogue \in [C -> Replay] /\ catalogue \in Lists
  BY <1>1 DEF Replay, Lists
<1>3. /\ toGui = <<[kind |-> "loaded", replays |-> catalogue]>> /\ toIo = <<>> /\ events = 0
      /\ rows = <<>> /\ selections = {} /\ entries = <<>> /\ seen = <<>> /\ seenCount = 0
      /\ filter = "all" /\ dialog = FALSE /\ asked = <<>>
  BY DEF Init
<1>4. toGui \in Seq(GuiMessages) /\ toIo \in Seq(IoMessages) /\ Len(toGui) = 1 /\ Len(toIo) = 0
  BY <1>2, <1>3, MessageFacts
<1>5. rows \in Lists /\ DOMAIN rows = {} /\ DOMAIN entries = {} /\ DOMAIN seen = {}
      /\ DOMAIN asked = {} /\ asked \in [DOMAIN asked -> BOOLEAN]
  BY <1>3, ListFacts
<1>6. Range(rows) \subseteq Replay /\ Range(entries) \subseteq {"pending", "complete", "failed"}
      /\ Range(catalogue) \subseteq Replay /\ DOMAIN catalogue \subseteq Checksums
      /\ Range(asked) \subseteq BOOLEAN
  BY <1>2, <1>5 DEF Range
<1>7. Cardinality(Checksums) \in Nat /\ Cardinality({}) = 0
  BY ScreenAssumption, FS_CardinalityType, FS_EmptySet
<1>8. Typed
  <2>1. seenCount \in 0 .. Cardinality(Checksums) /\ events \in 0 .. MaxEvents
        /\ Len(toGui) <= MaxQueue /\ Len(toIo) <= MaxQueue
    BY <1>3, <1>4, <1>7, ScreenAssumption
  <2>2. selections \subseteq DOMAIN rows /\ DOMAIN entries \subseteq DOMAIN rows
        /\ DOMAIN rows \subseteq Checksums /\ DOMAIN seen = DOMAIN rows
        /\ filter \in {"all", "titled"} /\ dialog \in BOOLEAN
    BY <1>3, <1>5
  <2>3. TypeOK
    BY <1>5, <1>6, <2>1, <2>2 DEF TypeOK
  <2>4. \A c \in DOMAIN entries : entries[c] \in {"pending", "complete", "failed"}
    BY <1>5
  <2>5. QED
    BY <1>2, <1>4, <1>5, <2>3, <2>4 DEF Typed
<1>9. SeenIsNow /\ CountIsCurrent
  BY <1>3, <1>5 DEF SeenIsNow, CountIsCurrent
<1>10. ListCatchesUp
  BY <1>3, <1>4 DEF ListCatchesUp, LastWordIsRight, Touches, Says, Agrees
<1>11. ListWillBeAsAsked
  BY <1>5 DEF ListWillBeAsAsked
<1>12. QED
  BY <1>8, <1>9, <1>10, <1>11 DEF IInv

LEMMA TypedStep == IInv /\ [Next]_vars => Typed'
<1> SUFFICES ASSUME IInv, [Next]_vars
             PROVE  Typed'
  OBVIOUS
<1>1. QueueTypes' /\ ModelTypes' /\ CountTypes' /\ AskTypes'
  BY QueueTypesStep, ModelTypesStep, CountStep, AskStep DEF IInv
<1>2. /\ DOMAIN catalogue' \subseteq Checksums /\ catalogue' \in [DOMAIN catalogue' -> Replay]
      /\ DOMAIN rows' \subseteq Checksums /\ rows' \in [DOMAIN rows' -> Replay]
  BY <1>1, ListFacts DEF QueueTypes, ModelTypes
<1>3. /\ Range(catalogue') \subseteq Replay /\ Range(rows') \subseteq Replay
      /\ Range(entries') \subseteq {"pending", "complete", "failed"}
      /\ Range(asked') \subseteq BOOLEAN
  BY <1>1, <1>2 DEF Range, ModelTypes, AskTypes
<1>4. QED
  BY <1>1, <1>2, <1>3 DEF Typed, TypeOK, QueueTypes, ModelTypes, CountTypes, AskTypes

(* The handlers of ReplayStoreModel and the slots of the io thread keep    *)
(* the invariant, in whatever order their events are delivered.            *)
THEOREM ScreenInvariant == Spec => []IInv
<1>1. Init => IInv
  BY InitIsGood
<1>2. IInv /\ [Next]_vars => IInv'
  BY TypedStep, CountStep, SeenStep, ListStep, AskStep DEF IInv
<1>3. QED
  BY <1>1, <1>2, PTL DEF Spec

(* ReplayStoreModel keeps no selection and no analysis of a row that is    *)
(* gone, however many resets, changes and answers arrive (m_selections and *)
(* m_analysisEntries are cleared with the rows).                           *)
THEOREM ScreenTypes == Spec => []TypeOK
<1>1. IInv => TypeOK
  BY DEF IInv, Typed
<1>2. QED
  BY <1>1, ScreenInvariant, PTL

(* The list becomes the catalogue once the queued replaysLoaded and        *)
(* replaysChanged are handled, and dataChanged names every role a handler  *)
(* of ReplayStoreModel touches, so that QML never shows an outdated row.   *)
THEOREM ViewFollowsCatalogue == Spec => []ViewIsCurrent
<1>1. ASSUME IInv
      PROVE  ViewIsCurrent
  <2>1. ASSUME toGui = <<>>
        PROVE  rows = catalogue
    <3>1. Len(toGui) = 0
      BY <2>1
    <3>2. \A c \in Checksums : Agrees(rows, catalogue, c)
      BY <1>1, <3>1 DEF IInv, ListCatchesUp, LastWordIsRight
    <3>3. /\ DOMAIN rows \subseteq Checksums /\ rows \in [DOMAIN rows -> Replay]
          /\ DOMAIN catalogue \subseteq Checksums /\ catalogue \in [DOMAIN catalogue -> Replay]
      BY <1>1, ListFacts DEF IInv, Typed
    <3>4. DOMAIN rows = DOMAIN catalogue /\ \A c \in DOMAIN rows : rows[c] = catalogue[c]
      BY <3>2, <3>3 DEF Agrees
    <3>5. QED
      BY <3>3, <3>4
  <2>2. ASSUME NEW c \in DOMAIN rows
        PROVE  /\ \A r \in Roles \ AnalysisRoles : seen[c][r] = Now(c)[r]
               /\ c \in DOMAIN entries => seen[c].state = entries[c]
               /\ Now(c).plot => seen[c].plot
    <3>1. RowIsSeen(c)
      BY <1>1, <2>2 DEF IInv, SeenIsNow
    <3>2. /\ Now(c)["exposed"] = rows[c].exposed /\ Now(c)["titled"] = rows[c].titled
          /\ Now(c)["selected"] = (c \in selections) /\ Now(c)["expanded"] = (c \in DOMAIN entries)
          /\ Now(c)["plot"] = (c \in DOMAIN entries /\ entries[c] = "complete")
      BY DataFacts DEF Now
    <3>3. \A r \in Roles \ AnalysisRoles : r \in {"exposed", "titled", "selected", "expanded"}
      BY DEF Roles, AnalysisRoles
    <3>4. /\ seen[c]["exposed"] = Now(c)["exposed"] /\ seen[c]["titled"] = Now(c)["titled"]
          /\ seen[c]["selected"] = Now(c)["selected"] /\ seen[c]["expanded"] = Now(c)["expanded"]
      BY <3>1, <3>2 DEF RowIsSeen
    <3>5. Now(c).plot => seen[c].plot
      BY <3>1, <3>2 DEF RowIsSeen
    <3>6. QED
      BY <3>1, <3>3, <3>4, <3>5 DEF RowIsSeen
  <2>3. QED
    BY <2>1, <2>2 DEF ViewIsCurrent
<1>2. QED
  BY <1>1, ScreenInvariant, PTL

(* The selectionCount QML has read is right while something is selected,   *)
(* although most handlers emit the signal only when the size has changed   *)
(* (replaysLoaded empties the selection without one).                      *)
THEOREM CountFollowsSelection == Spec => []CountIsCurrent
<1>1. IInv => CountIsCurrent
  BY DEF IInv
<1>2. QED
  BY <1>1, ScreenInvariant, PTL

(* Once nothing is in flight, the list shows the title the user asked for  *)
(* last (setOverrideTitle, clearOverrideTitle), whatever snapshots and     *)
(* changes were queued when the user acted and however many commands were. *)
THEOREM TitlesBecomeAsAsked == Spec => []TitlesAsAsked
<1>1. ASSUME IInv
      PROVE  TitlesAsAsked
  <2> SUFFICES ASSUME toIo = <<>>, toGui = <<>>, NEW c \in DOMAIN asked
               PROVE  c \in DOMAIN rows /\ rows[c].titled = asked[c]
    BY DEF TitlesAsAsked
  <2>1. c \in DOMAIN catalogue /\ c \in Checksums
    BY <1>1 DEF IInv, Typed, TypeOK
  <2>2. catalogue[c].titled = asked[c]
    BY <1>1 DEF IInv, ListWillBeAsAsked, LastAskIsRight
  <2>3. Agrees(rows, catalogue, c)
    BY <1>1, <2>1 DEF IInv, ListCatchesUp, LastWordIsRight
  <2>4. QED
    BY <2>1, <2>2, <2>3 DEF Agrees
<1>2. QED
  BY <1>1, ScreenInvariant, PTL

=============================================================================
