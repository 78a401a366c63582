--------------------------- MODULE SynopsisParser ---------------------------
(***************************************************************************)
(* The replay file format, and SynopsisParser reading a file that the game *)
(* may still be writing: the header field by field, the chunks of the body *)
(* up to the end marker, then all that is left, which must be the footer.  *)
(* A read that meets the end of the file is torn data, to be tried again;  *)
(* a field with an impossible value is corrupt data, given up.             *)
(*                                                                         *)
(* A field is one unit, whatever its width, so that a file is a sequence   *)
(* of units, and a file cut inside a field ends before it. The sizes the   *)
(* format records, of the header and the footer, are counted in units too. *)
(***************************************************************************)
EXTENDS Integers, Sequences, SequencesExt


CONSTANTS Matches,       \* the replay files the game may write, see Header and Payload
          Window,        \* FOOTER_TAIL_WINDOW
          MaxChunk,      \* MAX_CHUNK_SIZE
          MaxBody        \* MAX_BODY_SIZE

ASSUME ParserAssumption == Window \in Nat /\ MaxChunk \in Nat /\ MaxBody \in Nat

VARIABLES match,         \* what the game is writing
          written,       \* how many units of it are on disk
          reader,        \* the parse under way: [at, time, outcome], and what it found
          synopsis

parserVars == <<match, written, reader, synopsis>>

EndTimeCode == 99        \* 0x7FFFFFFF
FooterMagic == -7        \* "C&C3 REPLAY FOOTER"; no other unit has this value
FooterMin == 4           \* magic, final time code, the shortest data, the length
MaxPlayers == 8
UnalliedTeamBase == 100
NoTeam == 999            \* Player::teamNumber before a slot is read

----------------------------------------------------------------------------
(* The format *)

BeforePlayers ==
    <<"magic", "gameType", "versionMajor", "versionMinor", "buildMajor", "buildMinor", "commentary",
      "reserved", "matchTitle", "matchDescription", "mapName", "mapId", "playerCount">>
PlayerFields(game) == <<"id", "name">> \o (IF game = "multiplayer" THEN <<"teamByte">> ELSE <<>>)
BeforeMark == <<"offset", "magicLength">>
AfterMark ==
    <<"rplMagic", "timestamp", "unknown1", "gameInfo", "replaySaver", "zero", "zero", "filename",
      "datetime", "vermagic", "hash", "zero", "unknown2">>

Players(m) ==
    LET fields == PlayerFields(m.game)
    IN [i \in 1 .. Len(fields) * Len(m.players) |-> fields[((i - 1) % Len(fields)) + 1]]
Header(m) == BeforePlayers \o Players(m) \o BeforeMark \o AfterMark

\* A chunk is a time code, a type, a size, the data and a zero; the end marker is a bare time code.
ChunkUnits == 5
Chunk(c) == <<c.time, c.type, c.size, 0, IF c.sound THEN 0 ELSE 1>>

Chunks(m) ==
    [i \in 1 .. ChunkUnits * Len(m.chunks) |->
        Chunk(m.chunks[((i - 1) \div ChunkUnits) + 1])[((i - 1) % ChunkUnits) + 1]]

Footer(f) == <<FooterMagic, f.time>> \o f.data \o <<f.length>>
Payload(m) == Chunks(m) \o <<EndTimeCode>> \o Footer(m.footer)

File(m) == [i \in DOMAIN Header(m) |-> 0] \o Payload(m)
OnDisk == SubSeq(File(match), 1, written)

----------------------------------------------------------------------------
(* The header *)

\* What Team may not do: a number all players without a team share.
SharedPlaceholder(slot, i) == IF slot.team >= 0 THEN slot.team + 1 ELSE UnalliedTeamBase

\* A player's team, from its slot of the S= list: the number of the lobby, or one of its own for a
\* player without a team.
Team(slot, i) == IF slot.team >= 0 THEN slot.team + 1 ELSE UnalliedTeamBase + i - 1

\* parsePlayerSlots: a slot list that is closed needs one for each player but the commentator, the last,
\* who has none when the lobby is full. Where the text itself ends, the players left over are taken
\* without a slot.
SlotIsRead(m, i) == m.slots[i].kind \in {"H", "C"} /\ m.slots[i].whole
SlotsAreRead(m) ==
    \A i \in DOMAIN m.players :
        IF i \in DOMAIN m.slots THEN SlotIsRead(m, i) ELSE m.textEnds \/ i = Len(m.players)
Teams(m) == [i \in DOMAIN m.players |-> IF i \in DOMAIN m.slots THEN Team(m.slots[i], i) ELSE NoTeam]

\* What the reader of each field thinks of it. A file has at most one spoilt field, m.flaw, and most
\* fields are taken as they come.
Checked == {"magic", "reserved", "magicLength", "rplMagic", "gameInfo", "zero"}
Limited == {"matchTitle", "matchDescription", "mapName", "mapId", "name", "filename", "vermagic"}
Verdict(m, field) ==
    CASE field = "playerCount" /\ Len(m.players) - 1 \notin 1 .. MaxPlayers -> "corrupt"
      [] field = "gameInfo" /\ ~SlotsAreRead(m)                             -> "corrupt"
      [] field = m.flaw /\ field \in Checked                                -> "corrupt"
      [] field = m.flaw /\ field \in Limited                                -> "limit"
      [] OTHER                                                              -> "ok"

\* The fields up to the first that is not accepted, as far as n units of the file go.
HeaderOutcome(m, n) ==
    LET header == Header(m)
        bad == {i \in DOMAIN header : Verdict(m, header[i]) # "ok"}
        first == CHOOSE i \in bad : \A j \in bad : i <= j
    IN IF bad # {} /\ first <= n THEN Verdict(m, header[first])
       ELSE IF n < Len(header) THEN "torn"
       ELSE IF m.offset # Len(AfterMark) THEN "corrupt" ELSE "ok"

----------------------------------------------------------------------------
(* The footer *)

\* What FooterAt may not do: believe the length without the magic.
FooterWithoutMagic(tail) ==
    IF tail # <<>> /\ Last(tail) \in FooterMin .. Len(tail) THEN Last(tail) ELSE 0

\* footerFromTail: how long the footer at the end of tail is by its own account, 0 when none is there.
FooterAt(tail) ==
    IF tail = <<>> THEN 0
    ELSE LET length == Last(tail) IN
         IF length \in FooterMin .. Len(tail) /\ tail[Len(tail) - length + 1] = FooterMagic
         THEN length ELSE 0

\* The data of a footer: a 2, or 1, 2, a count and as many bytes.
DataIsRecognized(data) ==
    CASE data[1] = 2 -> Len(data) = 1
      [] data[1] = 1 -> Len(data) >= 3 /\ data[2] = 2 /\ Len(data) = 3 + data[3]
      [] OTHER       -> FALSE

\* What FooterOutcome may not do: let something other than the footer come before it.
FooterMayFollow(payload, maxTime) == IF FooterAt(payload) = 0 THEN "torn" ELSE "ok"

\* verifyFooter
FooterOutcome(payload, maxTime) ==
    IF FooterAt(payload) = 0 THEN "torn"
    ELSE IF /\ FooterAt(payload) = Len(payload)
            /\ payload[2] = maxTime
            /\ DataIsRecognized(SubSeq(payload, 3, Len(payload) - 1))
         THEN "ok" ELSE "corrupt"

\* looksComplete
LooksComplete(file) ==
    /\ Len(file) >= FooterMin
    /\ FooterAt(SubSeq(file, IF Len(file) > Window THEN Len(file) - Window + 1 ELSE 1, Len(file))) > 0

----------------------------------------------------------------------------
Idle == [at |-> 0, time |-> 0, outcome |-> "none"]
NoSynopsis == [payload |-> <<>>, teams |-> <<>>, ticks |-> 0]

ParserInit ==
    /\ match \in Matches /\ written = 0
    /\ reader = Idle /\ synopsis = NoSynopsis

Reading == reader.at > 0 /\ reader.outcome = "none"
BodyStart == Len(Header(match))
End(outcome) == reader' = [reader EXCEPT !.outcome = outcome]

\* The game writes the file from the front; how much at a time is up to it and the cache.
Write ==
    /\ written < Len(File(match)) /\ written' = written + 1
    /\ UNCHANGED <<match, reader, synopsis>>

\* synopsizeReplayFile, on a path that is announced or was deferred: the tail first, then the parser.
\* A tail that cannot be read, for which looksComplete answers true, leaves it to the parser.
Open ==
    /\ reader.outcome # "ok" /\ ~Reading
    /\ \E unreadable \in BOOLEAN :
          reader' = IF unreadable \/ LooksComplete(OnDisk) THEN [Idle EXCEPT !.at = 1]
                    ELSE [Idle EXCEPT !.outcome = "torn"]
    /\ UNCHANGED <<match, written, synopsis>>

ParseHeader ==
    /\ Reading /\ reader.at = 1
    /\ LET outcome == HeaderOutcome(match, written) IN
          reader' = IF outcome = "ok" THEN [reader EXCEPT !.at = BodyStart + 1]
                    ELSE [reader EXCEPT !.outcome = outcome]
    /\ UNCHANGED <<match, written, synopsis>>

\* readBodyChunk, on what is left from place at on: torn unless all of it is there, but a bad type or
\* size is seen before the rest.
ChunkOutcome(left, at) ==
    IF left = <<>> THEN "torn"
    ELSE IF Len(left) >= 2 /\ left[2] \notin 1 .. 4 THEN "corrupt"
    ELSE IF Len(left) >= 3 /\ left[3] > MaxChunk THEN "limit"
    ELSE IF Len(left) < ChunkUnits \/ left[3] < 0 THEN "torn"
    ELSE IF left[5] # 0 THEN "corrupt"
    ELSE IF at + ChunkUnits - 1 > MaxBody THEN "limit" ELSE "ok"

ReadBodyChunk ==
    /\ Reading /\ reader.at > BodyStart
    /\ LET left == SubSeq(OnDisk, reader.at, written)
           outcome == ChunkOutcome(left, reader.at)
       IN /\ left # <<>> => Head(left) # EndTimeCode
          /\ IF outcome = "ok" THEN reader' = [reader EXCEPT !.at = @ + ChunkUnits, !.time = Head(left)]
             ELSE End(outcome)
    /\ UNCHANGED <<match, written, synopsis>>

\* The end marker, then readRemaining and verifyFooter. What the sink of the tee saw since the
\* header is the checksum.
ReadFooter ==
    /\ Reading /\ reader.at > BodyStart /\ reader.at <= written
    /\ OnDisk[reader.at] = EndTimeCode
    /\ LET rest == SubSeq(OnDisk, reader.at + 1, written)
           outcome == IF written > MaxBody THEN "limit" ELSE FooterOutcome(rest, reader.time)
       IN /\ End(outcome)
          /\ synopsis' = IF outcome = "ok"
                         THEN [payload |-> SubSeq(OnDisk, BodyStart + 1, written),
                               teams |-> Teams(match), ticks |-> reader.time]
                         ELSE synopsis
    /\ UNCHANGED <<match, written>>

ParserNext == Write \/ Open \/ ParseHeader \/ ReadBodyChunk \/ ReadFooter

----------------------------------------------------------------------------
(* Properties *)

\* A file as the game writes it. The data of a footer is not made up by this program, so nothing is
\* assumed of its bytes but their number.
WellFormed(m) ==
    /\ HeaderOutcome(m, Len(Header(m))) = "ok"
    /\ \A i \in DOMAIN m.chunks : /\ m.chunks[i].type \in 1 .. 4 /\ m.chunks[i].size \in 0 .. MaxChunk
                                  /\ m.chunks[i].sound
    /\ m.footer.length = Len(Footer(m.footer)) /\ DataIsRecognized(m.footer.data)
    /\ m.footer.time = IF m.chunks = <<>> THEN 0 ELSE Last(m.chunks).time
    /\ Len(File(m)) <= MaxBody

\* A synopsis is that of a whole, well-formed file, its checksum covers the payload to the last
\* byte, and it seats players in one team when, and only when, the lobby did (those, that is, whose
\* slots the text has).
SynopsisIsWhole ==
    reader.outcome = "ok" =>
        /\ WellFormed(match) /\ written = Len(File(match))
        /\ synopsis.payload = Payload(match)
        /\ synopsis.ticks = match.footer.time
        /\ \A i, j \in DOMAIN match.slots \cap DOMAIN match.players :
              (i # j /\ synopsis.teams[i] = synopsis.teams[j])
                  <=> (i # j /\ match.slots[i].team = match.slots[j].team /\ match.slots[i].team >= 0)

\* A byte count in a footer's data may happen to be the length of the footer up to there, so that the
\* footer cut behind it looks like a whole one with strange data.
EchoesFooter(m) == \E k \in FooterMin .. Len(Footer(m.footer)) - 1 : Footer(m.footer)[k] = k

\* How an attempt on a sound file goes on. One that overtakes the game ends in torn data, which is
\* tried again, and is given up only where the cut footer echoes its own length. Once the game is
\* done, a parse that runs succeeds, and no attempt ends but at the quick look, which fails exactly
\* those whose footer is longer than its window.
GrowingFileIsTorn ==
    [][WellFormed(match) =>
          LET whole == written = Len(File(match))
          IN /\ whole => (LooksComplete(OnDisk) <=> Len(Footer(match.footer)) <= Window)
             /\ \/ reader'.outcome \in {"none", "ok"}
                \/ reader'.outcome = "torn" /\ (whole => ~Reading /\ ~LooksComplete(OnDisk))
                \/ reader'.outcome = "corrupt" /\ ~whole /\ EchoesFooter(match)]_reader

\* legionparser_tests.cpp:68-70: looksComplete "must never reject a file a full parse would have
\* accepted". A footer longer than the window is accepted by the parser, and rejected by the quick look
\* at every attempt.
QuickLookAgrees == reader.outcome = "ok" => LooksComplete(OnDisk)

\* synopsisparser.cpp:302-303: "Each slot starts with a type letter: H (human), C (computer), or X
\* (empty/unused, skipped)." A file whose only oddity is an empty slot before that of a player is not
\* given up.
EmptySlotsAreSkipped ==
    WellFormed([match EXCEPT !.slots = SelectSeq(@, LAMBDA slot : slot.kind # "X")])
        => reader.outcome # "corrupt"

=============================================================================
