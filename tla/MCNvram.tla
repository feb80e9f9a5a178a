------------------------------- MODULE MCNvram -------------------------------
EXTENDS Nvram

\* Items with bytes that need escapes, with line ends and the end of a text file, with zeros at the end, all zeros, and missing ones.
Full == [data |-> <<125, 1, 126, 0, 0, 0, 0, 0, 0, 0, 0, 7>>, attr |-> <<0, 0>>]
Part == [data |-> <<9, 0, 0, 0, 0, 94, 0, 0, 0, 0, 0, 0>>, attr |-> <<5, 126>>]
Lines == [data |-> <<10, 13, 10, 0, 13, 0, 0, 8, 0, 0, 0, 0>>, attr |-> <<13, 10>>]
Ctrl == [data |-> <<26, 0, 0, 0, 0, 0, 0, 0, 0, 0, 0, 4>>, attr |-> <<0, 1>>]
Empty == [data |-> Zeros(12), attr |-> <<0, 0>>]
Hold(a, b) == [i \in 549 .. 550 |-> IF i = 549 THEN a ELSE b]
MCStores == {Hold(Full, Part), Hold(Absent, Full), Hold(Lines, Empty)}
MCBackups == {Hold(Absent, Absent), Hold(Part, Ctrl)}

Cmd(mode, i, z) == [mode |-> mode, item |-> i, z |-> z, imei |-> <<>>, yes |-> FALSE]
Imei(d, yes) == [mode |-> "j", item |-> 550, z |-> FALSE, imei |-> d, yes |-> yes]
Digits(a, b, c) == <<3, 5, a, 0, 0, 9, b, 0, 1, 2, 4, 8, 5, 3, c>>
MCCommands ==
    {Cmd("ri", -1, FALSE), Cmd("ri", -1, TRUE), Cmd("rd", 550, FALSE), Cmd("wi", 549, FALSE), Cmd("wa", -1, FALSE)}
    \cup {Imei(Digits(a, b, 7), TRUE) : a \in {0, 5, 9}, b \in {0, 3}} \cup {Imei(Digits(1, 2, c), FALSE) : c \in {0, 5}}
    \cup {Imei(Digits(1, 2, 10), TRUE), Imei(<<1, 2>>, TRUE)}
=============================================================================
