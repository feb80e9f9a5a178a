-------------------------------- MODULE MCEfs --------------------------------
EXTENDS Efs

\* /d/e/z, /d/x and /y, in the order of their directories.
MCNodes == {"/", "d", "e", "z", "x", "y"}
MCOrder == <<"d", "e", "z", "x", "y">>
MCParent == [n_ \in MCNodes |->
               CASE n_ \in {"/", "d", "y"} -> "/" [] n_ \in {"e", "x"} -> "d" [] OTHER -> "e"]
MCNewFile == [n_ \in MCNodes |->
                CASE n_ = "/" -> "y" [] n_ = "d" -> "x" [] n_ = "e" -> "z" [] OTHER -> n_]

MCTree(present) ==
    [n_ \in MCNodes |-> IF n_ \notin present \cup {"/"} THEN "none"
                        ELSE IF n_ \in {"/", "d", "e"} THEN "dir" ELSE "file"]
MCTrees == {MCTree({"d", "e", "z", "x", "y"}), MCTree({"d", "e", "x"}), MCTree({"d"})}

MCCommand(c, n_, r, s) == [cmd |-> c, node |-> n_, r |-> r, slash |-> s]
MCCommands ==
    {MCCommand(c, n_, r, TRUE) : c \in {"ll", "lf"}, n_ \in {"/", "d"}, r \in BOOLEAN}
    \cup {MCCommand(c, "/", FALSE, TRUE) : c \in {"ld", "lt", "lm", "be"}}
    \cup {MCCommand(c, "d", FALSE, FALSE) : c \in {"lt", "lm", "wf", "ed"}}
    \cup {MCCommand(c, "x", FALSE, FALSE) : c \in {"gf", "wf", "ef", "lt"}}
    \cup {MCCommand(c, "e", FALSE, FALSE) : c \in {"md", "ed"}}
=============================================================================
