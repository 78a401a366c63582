----------------------------- MODULE QueryFilter -----------------------------
(***************************************************************************)
(* The filter of the replay list: ReplayFilterQueryParser, which reads     *)
(* what the user types, and the queries it makes, which accept rows. A     *)
(* text that cannot be read, half a clause most of the time, leaves the    *)
(* query before it in force.                                               *)
(*                                                                         *)
(* A text is a sequence of symbols: words, and the characters the parser   *)
(* tells apart, " " for any space, ":" and "'" for the quotation mark. Two *)
(* words never touch. Dates and times are read by the locale (external):   *)
(* a date is what is written like DatePattern, a time is like Time.        *)
(***************************************************************************)
EXTENDS Integers, Sequences, FiniteSets, TLC

CONSTANTS Pieces,        \* what can be typed before the text is read again: one symbol, or several at once
          DatePattern,   \* how the locale writes the day Day in short; several words in some locales
          Rows,          \* what the list may hold, see Contains and Accepts
          MaxText        \* bound: symbols in a text

Punctuation == {" ", ":", "'"}
Time == <<"2", ":", "30">>

ASSUME FilterAssumption ==
    /\ MaxText \in Nat /\ <<>> \notin Pieces
    /\ DatePattern # <<>> /\ DatePattern[1] # " "

VARIABLES text,          \* m_text
          query          \* m_current: a conjunction of terms; the empty one is the tautology

vars == <<text, query>>

Rest(s, n) == SubSeq(s, n + 1, Len(s))

\* How many symbols of s come before the first that is in stops.
Before(s, stops) ==
    CHOOSE n \in 0 .. Len(s) : /\ \A i \in 1 .. n : s[i] \notin stops
                               /\ n < Len(s) => s[n + 1] \in stops

EatWhitespace(s) == Rest(s, CHOOSE n \in 0 .. Len(s) : /\ \A i \in 1 .. n : s[i] = " "
                                                       /\ n < Len(s) => s[n + 1] # " ")

----------------------------------------------------------------------------
(* The queries *)

Day == 1                 \* what DatePattern means; row.time counts half days
StartOfDay(day) == 2 * day
TheTime == 2             \* what Time means, as row.duration has it

\* The predicates over the roles of a row; two for the bracket of on:.
Contains(s, needle) == \E i \in 1 .. Len(s) - Len(needle) + 1 : SubSeq(s, i, i + Len(needle) - 1) = needle
TextTerm(role, needle) == [op |-> "text", role |-> role, value |-> needle]
AnyText(needle) == [op |-> "any", role |-> "text", value |-> needle]
TimeTerm(op, time) == [op |-> op, role |-> "time", value |-> time]
DurationTerm(op, time) == [op |-> op, role |-> "duration", value |-> time]

TextRoles == {"title", "map", "patch"}
TextAccepts(row, role, needle) ==
    IF role = "player" THEN \E i \in DOMAIN row.players : Contains(row.players[i], needle)
    ELSE Contains(row[role], needle)

\* A duration may be missing, which nothing accepts; after takes in the moment itself.
TermAccepts(term, row) ==
    CASE term.op = "text" -> TextAccepts(row, term.role, term.value)
      [] term.op = "any"  -> \E role \in TextRoles \cup {"player"} : TextAccepts(row, role, term.value)
      [] OTHER            -> /\ row[term.role] >= 0
                             /\ IF term.op = "before" THEN row[term.role] < term.value
                                ELSE row[term.role] >= term.value

Accepts(q, row) == \A i \in DOMAIN q : TermAccepts(q[i], row)

----------------------------------------------------------------------------
(* The parser: what is read and what is left of the text; Nothing when it cannot be read *)

Nothing == [found |-> FALSE]
Found(what, rest) == [found |-> TRUE, what |-> what, rest |-> rest]

\* nextWord, up to a space, a colon or a quote, or from quote to quote. Every caller requires a word.
NextWord(s) ==
    IF s # <<>> /\ Head(s) = "'"
    THEN LET n == Before(Tail(s), {"'"}) IN
         IF n = 0 \/ n = Len(Tail(s)) THEN Nothing ELSE Found(SubSeq(s, 2, n + 1), Rest(s, n + 2))
    ELSE LET n == Before(s, Punctuation) IN
         IF n = 0 THEN Nothing ELSE Found(SubSeq(s, 1, n), Rest(s, n))

\* nextLongWord: up to a space, whatever is in it.
NextLongWord(s) ==
    LET n == Before(s, {" "}) IN IF n = 0 THEN Nothing ELSE Found(SubSeq(s, 1, n), Rest(s, n))

\* countWords of the locale's pattern
WordCount(s) ==
    Cardinality({i \in DOMAIN s : s[i] # " " /\ (i = 1 \/ s[i - 1] = " ")})

\* consumeWords: the span of so many long words, the spaces between them included.
ConsumeWords(s, count) ==
    LET from == EatWhitespace(s)
        left[i \in 0 .. count] ==
            IF i = 0 THEN Found(<<>>, from)
            ELSE IF left[i - 1].found THEN NextLongWord(EatWhitespace(left[i - 1].rest)) ELSE Nothing
    IN IF left[count].found
       THEN Found(SubSeq(from, 1, Len(from) - Len(left[count].rest)), left[count].rest)
       ELSE Nothing

\* What NextDate may not do: take a date for one word, as it is in most locales.
DateIsOneWord(s) ==
    LET written == IF s # <<>> /\ Head(s) = "'" THEN NextWord(s) ELSE ConsumeWords(s, 1)
    IN IF written.found /\ written.what = DatePattern THEN Found(Day, written.rest) ELSE Nothing

NextDate(s) ==
    LET written == IF s # <<>> /\ Head(s) = "'" THEN NextWord(s) ELSE ConsumeWords(s, WordCount(DatePattern))
    IN IF written.found /\ written.what = DatePattern THEN Found(Day, written.rest) ELSE Nothing

NextTime(s) ==
    LET written == IF s # <<>> /\ Head(s) = "'" THEN NextWord(s) ELSE NextLongWord(s)
    IN IF written.found /\ written.what = Time THEN Found(TheTime, written.rest) ELSE Nothing

\* The dispatch table: what a field makes of its value.
Comparisons == ("before" :> "before") @@ ("after" :> "after") @@ ("longer" :> "after") @@ ("shorter" :> "before")
Fields == TextRoles \cup {"player", "on"} \cup DOMAIN Comparisons

ParseValue(field, s) ==
    LET value == CASE field \in TextRoles \cup {"player"} -> NextWord(s)
                   [] field \in {"longer", "shorter"}     -> NextTime(s)
                   [] OTHER                               -> NextDate(s)
    IN IF ~value.found THEN Nothing
       ELSE Found(CASE field \in TextRoles \cup {"player"} -> <<TextTerm(field, value.what)>>
                    [] field = "on" -> <<TimeTerm("after", StartOfDay(value.what)),
                                         TimeTerm("before", StartOfDay(value.what + 1))>>
                    [] field \in {"before", "after"} -> <<TimeTerm(field, StartOfDay(value.what))>>
                    [] OTHER -> <<DurationTerm(Comparisons[field], value.what)>>,
                  value.rest)

\* parseField
ParseField(s) ==
    LET label == NextWord(s) IN
    IF ~label.found THEN Nothing
    ELSE IF label.rest # <<>> /\ Head(label.rest) = ":"
    THEN IF Len(label.what) = 1 /\ label.what[1] \in Fields
         THEN ParseValue(label.what[1], EatWhitespace(Tail(label.rest))) ELSE Nothing
    ELSE Found(<<AnyText(label.what)>>, label.rest)

\* parse: fields until nothing is left. What is left gets shorter with every one.
Parse(s) ==
    LET from[n \in 0 .. Len(s)] ==        \* the last n symbols of s
            LET rest == EatWhitespace(Rest(s, Len(s) - n)) IN
            IF rest = <<>> THEN Found(<<>>, <<>>)
            ELSE LET field == ParseField(rest) IN
                 IF ~field.found THEN Nothing
                 ELSE LET others == from[Len(field.rest)] IN
                      IF others.found THEN Found(field.what \o others.what, <<>>) ELSE Nothing
    IN from[Len(s)]

----------------------------------------------------------------------------
Init == text = <<>> /\ query = <<>>

\* setQueryText, once the user has paused long enough or pressed Enter.
SetQueryText(value) ==
    /\ text' = value
    /\ query' = IF Parse(value).found THEN Parse(value).what ELSE query

Type ==
    \E piece \in Pieces :
       /\ Len(text) + Len(piece) <= MaxText
       /\ text # <<>> => text[Len(text)] \in Punctuation \/ piece[1] \in Punctuation
       /\ SetQueryText(text \o piece)
Clear == text # <<>> /\ SetQueryText(<<>>)

Next == Type \/ Clear
Spec == Init /\ [][Next]_vars

----------------------------------------------------------------------------
(* What a text means, without a parser: it is a list of clauses when it can be cut into them, and a *)
(* clause says of each row whether it is wanted. *)

IsPlain(s) == Len(s) = 1 /\ s[1] \notin Punctuation
IsQuoted(s, s0) == s0 # <<>> /\ "'" \notin {s0[i] : i \in DOMAIN s0} /\ s = <<"'">> \o s0 \o <<"'">>
Inner(s) == SubSeq(s, 2, Len(s) - 1)

\* A word as the user means it, bare or quoted.
Means(s, word) == (IsPlain(s) /\ word = s) \/ IsQuoted(s, word)
WordsOf(s) == {word \in {s, Inner(s)} : Means(s, word)}

\* The rows that the value v of field f asks for, if it is one.
Wanted(f, v) ==
    CASE f \in TextRoles -> {{row \in Rows : Contains(row[f], word)} : word \in WordsOf(v)}
      [] f = "player" -> {{row \in Rows : \E i \in DOMAIN row.players : Contains(row.players[i], word)} : word \in WordsOf(v)}
      [] f \in {"on", "before", "after"} ->
             IF v = DatePattern \/ IsQuoted(v, DatePattern)
             THEN {{row \in Rows : CASE f = "on"     -> row.time \div 2 = Day
                                     [] f = "before" -> row.time \div 2 < Day
                                     [] f = "after"  -> row.time \div 2 >= Day}} ELSE {}
      [] f \in {"longer", "shorter"} ->
             IF v = Time \/ IsQuoted(v, Time)
             THEN {{row \in Rows : row.duration >= 0 /\ (f = "longer" <=> row.duration >= TheTime)}} ELSE {}
      [] OTHER -> {}

\* A clause is a bare or quoted word, or a field, a colon, spaces if one likes, and a value.
Clause(s) ==
    LET label(k) == {f \in Fields : Means(SubSeq(s, 1, k - 1), <<f>>)}
        value(k) == {i \in k + 1 .. Len(s) : s[i] # " " /\ \A j \in k + 1 .. i - 1 : s[j] = " "}
    IN {{row \in Rows : Contains(row.title \o <<"|">> \o row.map \o <<"|">> \o row.patch, word)
                           \/ \E i \in DOMAIN row.players : Contains(row.players[i], word)} : word \in WordsOf(s)}
         \cup UNION {UNION {Wanted(f, SubSeq(s, i, Len(s))) : f \in label(k), i \in value(k)} :
                        k \in {i \in DOMAIN s : s[i] = ":"}}

\* Clauses are set apart by spaces; a quote does as well, but not after a bare date or time.
MayEnd(s, i, j) ==
    \/ j = Len(s) \/ s[j + 1] = " " \/ s[j] = "'"
    \/ s[j + 1] = "'" /\ \A k \in i .. j :
           s[k] = ":" => (IF s[i] = "'" THEN s[i + 1] ELSE s[i]) \in TextRoles \cup {"player"}

Meaning(s) ==
    LET from[i \in 1 .. Len(s) + 1] ==
            IF i > Len(s) THEN {Rows}
            ELSE IF s[i] = " " THEN from[i + 1]
            ELSE UNION {{first \cap others : first \in Clause(SubSeq(s, i, j)), others \in from[j + 1]} :
                           j \in {k \in i .. Len(s) : MayEnd(s, i, k)}}
    IN from[1]

\* The list shows the rows that the text asks for, each of its clauses by its own rules; a text that
\* says nothing changes nothing. The parser and the queries together, symbol by symbol.
FilterMeansWhatItSays ==
    [][ IF Meaning(text') # {}
        THEN Meaning(text') = {{row \in Rows : Accepts(query', row)}}
        ELSE query' = query ]_vars

=============================================================================
