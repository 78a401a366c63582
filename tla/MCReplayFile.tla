----------------------------- MODULE MCReplayFile -----------------------------
EXTENDS ReplayAnalysis


\* Small files: every field of the header spoilt in turn, every defect of a chunk and of a footer,
\* and every way the commands below follow each other.
H(team) == [kind |-> "H", whole |-> TRUE, team |-> team]
C(team) == [kind |-> "C", whole |-> TRUE, team |-> team]
Plain == [time |-> 1, type |-> 2, size |-> 1, sound |-> TRUE, lead |-> 1, announced |-> 0, commands |-> <<>>]
Commands(time, names) == [Plain EXCEPT !.time = time, !.type = 1, !.commands = names]
Ended(m) ==        \* with the footer that the chunks call for
    [m EXCEPT !.footer.time = IF m.chunks = <<>> THEN 0 ELSE Last(m.chunks).time,
              !.footer.length = Len(m.footer.data) + 3]

Base == Ended([game |-> "skirmish", players |-> <<"a", "b", "">>, slots |-> <<H(0), C(0), H(-1)>>,
               textEnds |-> FALSE, flaw |-> "none", offset |-> Len(AfterMark), chunks |-> <<Plain>>,
               footer |-> [time |-> 0, data |-> <<2>>, length |-> 0]])

Fields == {BeforePlayers[i] : i \in DOMAIN BeforePlayers} \cup {"name"}
              \cup {BeforeMark[i] : i \in DOMAIN BeforeMark} \cup {AfterMark[i] : i \in DOMAIN AfterMark}
Headers ==
    {[Base EXCEPT !.flaw = field, !.game = game] : field \in Fields, game \in {"skirmish", "multiplayer"}}
        \cup {[Base EXCEPT !.offset = @ - 1]}
        \cup {[Base EXCEPT !.players = Append([i \in 1 .. n |-> "a"], ""), !.slots = [i \in 1 .. k |-> H(-1)],
                          !.textEnds = ends] :
                  n \in {0, 1, 2, 8, 9}, k \in {0, 1, 2, 3, 8, 9}, ends \in BOOLEAN}
        \cup {[Base EXCEPT !.slots[2] = [kind |-> kind, whole |-> whole, team |-> team]] :
                  kind \in {"H", "C", "X"}, whole \in BOOLEAN, team \in {-1, 0, 1}}
Bodies ==
    {[Base EXCEPT !.chunks = <<Plain, [Plain EXCEPT !.type = type, !.size = size, !.sound = sound]>>] :
        type \in {0, 1, 4, 5}, size \in {-1, 0, MaxChunk + 1}, sound \in BOOLEAN}
        \cup {Ended([Base EXCEPT !.chunks = [i \in 1 .. n |-> [Plain EXCEPT !.time = i]]]) : n \in {0, 3, 4, 5, 7}}
DataBytes == {0, 1, 2, 4, 5}
Footers ==
    {[Base EXCEPT !.footer.time = 2], [Base EXCEPT !.footer.length = 5], [Base EXCEPT !.footer.length = 2]}
        \cup {Ended([Base EXCEPT !.footer.data = data]) :
                  data \in {<<x>> : x \in DataBytes} \cup {<<1, x, y>> : x, y \in DataBytes}
                      \cup {<<1, 2, 2, x, y>> : x, y \in DataBytes} \cup {<<1, 2, 4, x, 0, 0, 5>> : x \in DataBytes}
                      \cup {<<1, 2, 2, 6, 0>>, <<1, 2, 5, 0, 0, 0, 0, 0>>}}

Names == {"short", "words", "late", "fixed", "records", "brief", "long", "strings", "watcher", "nobody",
          "unknown", "cut"}
Plays ==
    {Ended([Base EXCEPT !.chunks = <<Commands(0, <<a, b>>), Plain, Commands(3, <<b>>)>>]) :
                  a \in Names \ {"cut"}, b \in Names}
        \cup {Ended([Base EXCEPT !.chunks = <<Commands(t, <<"short">>), Commands(u, <<"fixed", "short">>),
                                              Commands(v, <<"words">>)>>, !.players = players]) :
                  t \in 0 .. 2, u \in 0 .. 6, v \in {1, 5}, players \in {<<"a", "b", "">>, <<"a", "b", "c">>}}
        \cup {Ended([Base EXCEPT !.chunks = <<Commands(0, <<"short">>), [Commands(2, <<"short">>) EXCEPT !.lead = lead,
                                              !.announced = n], Commands(4, <<"fixed">>)>>]) :
                  lead \in {0, 1}, n \in {0, 1, 9999, 10000, 10001, 65535}}
MCMatches == Headers \cup Bodies \cup Footers \cup Plays

=============================================================================
