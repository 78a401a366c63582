---------------------------- MODULE CommandFrames ----------------------------
(***************************************************************************)
(* Command framing (legionparser/chunkanalyzer.cpp): a command chunk is a  *)
(* subheader and commands one after the other, without lengths. What a     *)
(* command's length is follows from its id and, for most ids, from its own *)
(* bytes, so one wrong length loses every command behind it.               *)
(*                                                                         *)
(* Bytes are numbers, positions count from 0 as in the code (At).          *)
(***************************************************************************)
EXTENDS Integers, Sequences

None == -1
Byte == {n \in Nat : n < 256}
Terminator == 255

At(buf, i) == buf[i + 1]
From(buf, i) == SubSeq(buf, i + 1, Len(buf))

----------------------------------------------------------------------------
(* COMMAND_TABLE *)

StandardAt2 == {1, 2, 3, 4, 5, 6, 7, 8, 9, 11, 12, 13, 15, 16, 17, 18, 23, 114, 115, 76, 77, 146, 147,
                249, 250, 251, 252, 253, 254, 255}
StandardAt ==
    [id \in StandardAt2 \cup {38, 39, 43, 245, 246, 248} |->
        CASE id \in StandardAt2 -> 2 [] id \in {245, 246, 248} -> 4
          [] id = 43 -> 11           [] id = 38 -> 15           [] id = 39 -> 34]

FixedIds == {41, 44, 46, 47, 48, 52, 53, 54, 60, 61, 62, 67, 68, 69, 70, 71, 72, 91, 97, 119, 122, 126, 127,
             135, 137, 140, 141, 142, 143, 144, 145}
FixedLength ==
    [id \in FixedIds |->
        CASE id \in {52, 68, 135, 137}               -> 8  [] id \in {53, 67, 126, 127} -> 12
          [] id \in {62, 70, 71, 72, 91, 142, 144}   -> 16 [] id \in {44, 47, 48}       -> 17
          [] id \in {60, 61, 69}                     -> 21
          [] id = 119 -> 3  [] id = 145 -> 10 [] id = 54  -> 13 [] id = 97  -> 20 [] id = 46 -> 22
          [] id = 41  -> 28 [] id = 122 -> 29 [] id = 143 -> 40 [] id = 140 -> 45 [] id = 141 -> 1049]

\* Where the count is, the size of a record, what is added to the count, and the bytes around the records.
ArrayLayout ==
    [id \in {40, 49} |-> IF id = 40 THEN [count |-> 17, record |-> 4, extra |-> 32, bias |-> 1]
                         ELSE [count |-> 12, record |-> 18, extra |-> 17, bias |-> 0]]

----------------------------------------------------------------------------
(* The scanners: how many bytes the command at the start of buf has, None when it does not end in buf *)

Within(buf, len) == IF len <= Len(buf) THEN len ELSE None

FixedScan(buf, len) == Within(buf, len)

\* Hops over groups of words, each with its number in the upper half of a byte, to the terminator.
StandardScan(buf, first) ==
    LET end[pos \in first .. first + 65 * Len(buf)] ==
            IF pos >= Len(buf) THEN None
            ELSE IF At(buf, pos) = Terminator THEN pos + 1
            ELSE end[pos + 4 * ((At(buf, pos) \div 16) + 1) + 1]
    IN IF Len(buf) < 2 THEN None ELSE end[first]

ArrayScan(buf, layout) ==
    IF Len(buf) <= layout.count THEN None
    ELSE Within(buf, (At(buf, layout.count) + layout.bias) * layout.record + layout.extra)

Scan0x2D(buf) ==
    IF Len(buf) < 8 THEN None ELSE Within(buf, IF At(buf, 7) = Terminator THEN 8 ELSE 26)

\* Two strings with their lengths in front, of one and of two bytes a character, a number, the terminator.
Scan0x8B(buf) ==
    IF Len(buf) < 4 THEN None
    ELSE LET second == At(buf, 3) + 5 IN
         IF Len(buf) <= second THEN None ELSE Within(buf, second + 2 * At(buf, second) + 2 + 5)

\* scanCommand. None stands for every DesyncTrigger; an id without a scanner is one.
ScanCommand(buf) ==
    LET id == At(buf, 0) IN
    CASE id \in DOMAIN StandardAt  -> StandardScan(buf, StandardAt[id])
      [] id \in DOMAIN FixedLength -> FixedScan(buf, FixedLength[id])
      [] id \in DOMAIN ArrayLayout -> ArrayScan(buf, ArrayLayout[id])
      [] id = 45                   -> Scan0x2D(buf)
      [] id = 139                  -> Scan0x8B(buf)
      [] OTHER                     -> None

----------------------------------------------------------------------------
(* CommandFrameAnalyzer::chunk, after the subheader *)

MaxCommands == 10000
SubheaderSize == 5

\* The loop over the buffer: the commands framed, and whether it ended in a desync.
FramesFrom(buf) ==
    LET frames[pos \in SubheaderSize .. Len(buf)] ==
            IF pos = Len(buf) THEN [commands |-> <<>>, desync |-> FALSE]
            ELSE LET len == ScanCommand(From(buf, pos)) IN
                 IF len = None THEN [commands |-> <<>>, desync |-> TRUE]
                 ELSE LET rest == frames[pos + len] IN
                      [rest EXCEPT !.commands = <<SubSeq(buf, pos + 1, pos + len)>> \o @]
    IN frames[SubheaderSize]

\* The number of commands the subheader announces, which only reserves memory; its low half, the
\* upper one being zero in the chunks modelled.
Announced(buf) == At(buf, 1) + 256 * At(buf, 2)

\* The player's index in the synopsis, from the byte the game mangles it into.
UnmanglePlayerIdx(mangled) == IF mangled \div 8 < 3 THEN None ELSE (mangled \div 8) - 3

=============================================================================
