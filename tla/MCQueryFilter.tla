---------------------------- MODULE MCQueryFilter ----------------------------
EXTENDS QueryFilter

\* A locale whose short date has two words, as Korean and Hungarian have more than one.
MCDatePattern == <<"5.", " ", "2">>
MCPieces ==
    {<<symbol>> : symbol \in Punctuation \cup {"x", "title", "5."}} \cup {<<field, ":">> : field \in Fields}
        \cup {MCDatePattern, Time}

\* Each role has the word in one row, the times are about the day, the durations about the time.
Row(title, map, patch, player, time, duration) ==
    [title |-> title, map |-> <<map>>, patch |-> <<patch>>, players |-> <<<<"b">>, <<player>>>>,
     time |-> time, duration |-> duration]
MCRows ==
    {Row(<<"x", " ", "x">>, "a", "a", "title", 1, 1), Row(MCDatePattern, "x", "a", "a", 2, 2),
     Row(<<"title">>, "a", "x", "a", 3, 3), Row(<<"a">>, "a", "a", "x", 4, -1)}

=============================================================================
