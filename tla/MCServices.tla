----------------------------- MODULE MCServices -----------------------------
(* A small EEPROM of two keys, and log services of one and of two blocks.    *)
EXTENDS Services

\* Items of 5 and 7 bytes in 18: two of them and a hole, or less.
Keys == {<<97>>, <<98>>}
SomeValues == {<<0>>, <<4, 0, 1>>}

ListCommands(what, ids, lists) == [doing : {what}, id : ids, list : lists]
Plain(whats, ids) == [doing : whats, id : ids]

OneBlockCommands ==
    ListCommands("create", {1}, {<<"y", "x">>, <<"x", "?">>})
        \cup ListCommands("append", {1}, {<<"y", "x">>, <<"x", "?">>, <<"x">>})
        \cup Plain({"delete", "start", "single", "stop"}, {1}) \cup {ResetAll}
TwoBlocksCommands ==
    ListCommands("create", {1, 2}, {<<"x">>}) \cup ListCommands("append", {1, 2}, {<<"x">>})
        \cup Plain({"delete"}, {1, 2}) \cup {ResetAll}
Commands == OneBlockCommands \cup TwoBlocksCommands

\* The constants of the log service.
Slots == 0..1
Operations == 0..2
Length(v) == IF v = "y" THEN 2 ELSE 1
=============================================================================
