--------------------------- MODULE ReplayAnalysis ---------------------------
(***************************************************************************)
(* The analysis of a replay whose synopsis is known: analyzeReplay walks   *)
(* the chunks again, CommandFrameAnalyzer takes the command chunks apart,  *)
(* ApmAnalyzer counts the commands of each player per window of time. It   *)
(* reads the copy the store made once the synopsis had been accepted.      *)
(*                                                                         *)
(* A chunk of the match has its subheader (lead, announced) and the names  *)
(* of its commands. Encoding gives the bytes of a command by its name, and *)
(* is how the properties know what a chunk holds without framing it.       *)
(***************************************************************************)
EXTENDS SynopsisParser, CommandFrames, FiniteSets


CONSTANT TicksPerWindow      \* 15 ticks a second, 5 seconds

ASSUME AnalysisAssumption == TicksPerWindow \in Nat \ {0}

VARIABLE analysis            \* what analyzeReplay and the ApmAnalyzer hold

vars == <<parserVars, analysis>>

NoAnalysis == [state |-> "none", next |-> 0, leading |-> <<>>, trailing |-> <<>>, plot |-> <<>>]

----------------------------------------------------------------------------
(* Commands as the game writes them, by players 0, 1, 2 and by nobody *)

Encoding ==
    [short    |-> <<1, 24, 255>>,                                    \* standard, nothing in it
     words    |-> [i \in 1 .. 17 |->                                 \* two words and one: they look like ends
                     CASE i = 1 -> 18 [] i = 2 -> 32 [] i = 3 -> 16 [] i = 12 -> 0 [] OTHER -> Terminator],
     late     |-> <<245, 24, 255, 255, 255>>,                        \* standard, from byte 4
     fixed    |-> <<119, 32, 255>>,
     records  |-> [i \in 1 .. 40 |-> CASE i = 1 -> 40 [] i = 2 -> 24 [] i = 18 -> 1 [] OTHER -> 255],
     brief    |-> <<45, 32, 0, 0, 0, 0, 0, 255>>,
     long     |-> [i \in 1 .. 26 |-> CASE i = 1 -> 45 [] i = 2 -> 24 [] OTHER -> 0],
     strings  |-> <<139, 32, 0, 2, 65, 66, 0, 1, 255, 255, 0, 0, 0, 0, 0, 255>>,
     watcher  |-> <<1, 40, 255>>,
     nobody   |-> <<1, 16, 255>>,
     unknown  |-> <<0, 24>>,
     cut      |-> <<18, 24, 16, 255, 255>>]
Owner == [short |-> 0, words |-> 1, late |-> 0, fixed |-> 1, records |-> 0, brief |-> 1, long |-> 0,
          strings |-> 1, watcher |-> 2, nobody |-> None, unknown |-> 0, cut |-> 0]
Unreadable == {"unknown", "cut"}

\* The files a game writes, sound and spoilt. A chunk does not have the time code that says there is
\* none, and the number of a team is that of a lobby of MaxPlayers.
SlotRecords == [kind : STRING, whole : BOOLEAN, team : {n \in Int : n < MaxPlayers}]
ChunkRecords == [time : Nat \ {EndTimeCode}, type : Int, size : Int, sound : BOOLEAN,
                 lead : Byte, announced : {n \in Nat : n < 256 * 256}, commands : Seq(DOMAIN Encoding)]
FooterRecords == [time : Nat, data : Seq(Nat) \ {<<>>}, length : Int]
MatchRecords == [game : STRING, players : Seq(STRING), slots : Seq(SlotRecords), textEnds : BOOLEAN,
                 flaw : STRING, offset : Int, chunks : Seq(ChunkRecords), footer : FooterRecords]

\* A footer that is spoilt is not a whole one with something behind it.
NotWholeBefore(data) == \A n \in 1 .. Len(data) - 1 : ~DataIsRecognized(SubSeq(data, 1, n))

\* Only the last player, the commentator, can be without a name, and only the last command of a chunk cut.
OthersAreNamed(players) == \A p \in 1 .. Len(players) - 1 : players[p] # ""
CutIsLast(commands) == \A i \in 1 .. Len(commands) - 1 : commands[i] # "cut"

ASSUME MatchAssumption ==
    \A m \in Matches : /\ m \in MatchRecords /\ NotWholeBefore(m.footer.data) /\ OthersAreNamed(m.players)
                       /\ \A i \in DOMAIN m.chunks : CutIsLast(m.chunks[i].commands)

\* The bytes of the commands from each on, one command behind the other.
Bytes(commands) ==
    LET from[i \in 1 .. Len(commands) + 1] ==
            IF i > Len(commands) THEN <<>> ELSE Encoding[commands[i]] \o from[i + 1]
    IN from
Buffer(c) == <<c.lead, c.announced % 256, c.announced \div 256, 0, 0>> \o Bytes(c.commands)[1]

----------------------------------------------------------------------------
(* ApmAnalyzer *)

\* The synopsis without the commentator, whose name is empty.
Analysed(players) == IF players # <<>> /\ Last(players) = "" THEN Front(players) ELSE players

WindowOf(time) == time \div TicksPerWindow

\* Closes windows until that of time is open: one point per player and window, what was counted
\* since the window before was closed.
Advance(a, time) ==
    LET closed == IF a.plot = <<>> THEN 0 ELSE Len(a.plot[1])
        missing == WindowOf(time) - closed
        points(p) == [w \in 1 .. missing |-> IF w = 1 THEN a.leading[p] - a.trailing[p] ELSE 0]
    IN IF missing <= 0 THEN a
       ELSE [a EXCEPT !.plot = [p \in DOMAIN @ |-> @[p] \o points(p)], !.trailing = a.leading]

\* One action for each command of a player the plot has a line for.
Count(a, commands) ==
    LET of(p) == Cardinality({i \in DOMAIN commands : UnmanglePlayerIdx(At(commands[i], 1)) = p - 1})
    IN [a EXCEPT !.leading = [p \in DOMAIN @ |-> @[p] + of(p)]]

\* What Ingest may not do: count into the window that is about to be closed.
CountedBeforeAdvance(a, time, commands) == Advance(Count(a, commands), time)

Ingest(a, time, commands) == Count(Advance(a, time), commands)

----------------------------------------------------------------------------
Init == ParserInit /\ analysis = NoAnalysis

Parse == ParserNext /\ UNCHANGED analysis

\* ReplayAnalyzer::analyze up to the call of analyzeReplay.
Begin ==
    /\ reader.outcome = "ok" /\ analysis.state = "none"
    /\ LET zeroes == [p \in DOMAIN Analysed(match.players) |-> 0]
       IN analysis' = [state |-> "running", next |-> 1, leading |-> zeroes, trailing |-> zeroes,
                       plot |-> [p \in DOMAIN zeroes |-> <<>>]]
    /\ UNCHANGED parserVars

\* One turn of analyzeReplay's loop. A command chunk with a strange subheader ends the loop, not the
\* analysis; one that loses its framing counts as far as it was framed.
AnalyzeChunk ==
    /\ analysis.state = "running" /\ analysis.next \in DOMAIN match.chunks
    /\ LET chunk == match.chunks[analysis.next]
           buf == Buffer(chunk)
           seen == IF chunk.type = 1
                   THEN Ingest(analysis, chunk.time, FramesFrom(buf).commands) ELSE analysis
       IN analysis' = IF chunk.type = 1 /\ (At(buf, 0) # 1 \/ Announced(buf) > MaxCommands)
                      THEN [analysis EXCEPT !.state = "done"]
                      ELSE [seen EXCEPT !.next = @ + 1]
    /\ UNCHANGED parserVars

\* The end marker: finalize, and the plot is handed over.
Finish ==
    /\ analysis.state = "running" /\ analysis.next \notin DOMAIN match.chunks
    /\ analysis' = [analysis EXCEPT !.state = "done"]
    /\ UNCHANGED parserVars

Next == Parse \/ Begin \/ AnalyzeChunk \/ Finish
Spec == Init /\ [][Next]_vars

----------------------------------------------------------------------------
(* Properties *)

\* The commands of a chunk before the first that has no known end.
Readable(c) ==
    LET bad == {i \in DOMAIN c.commands : c.commands[i] \in Unreadable}
    IN {i \in DOMAIN c.commands : \A j \in bad : i < j}

\* The command chunks the analysis gets to.
Counted(m) ==
    {i \in DOMAIN m.chunks :
        /\ m.chunks[i].type = 1
        /\ \A j \in 1 .. i : m.chunks[j].type = 1 => m.chunks[j].lead = 1 /\ m.chunks[j].announced <= MaxCommands}

\* A chunk's actions belong to the window of its time, or of the latest time before it.
LatestWindow(m, i) ==
    LET windows == {WindowOf(m.chunks[j].time) : j \in Counted(m) \cap 1 .. i}
    IN CHOOSE w \in windows : \A v \in windows : v <= w

\* The plot has one line for each player but the commentator, and a point for every window but the
\* last: the number of commands that player gave in that window, whichever commands came before them
\* in the same chunk, and whatever their bytes look like.
ActionsAreCounted ==
    analysis.state = "done" =>
        LET counted == Counted(match)
            last == IF counted = {} THEN 0 ELSE LatestWindow(match, Len(match.chunks))
            actions(p, w) ==
                {at \in counted \X UNION {Readable(match.chunks[i]) : i \in counted} :
                    LET chunk == match.chunks[at[1]] IN
                       /\ at[2] \in Readable(chunk) /\ LatestWindow(match, at[1]) = w
                       /\ Owner[chunk.commands[at[2]]] = p - 1}
        IN /\ DOMAIN analysis.plot = {p \in DOMAIN match.players : match.players[p] # ""}
           /\ \A p \in DOMAIN analysis.plot :
                 analysis.plot[p] = [w \in 1 .. last |-> Cardinality(actions(p, w - 1))]

=============================================================================
