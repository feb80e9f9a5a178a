------------------------------ MODULE MCQrFlash ------------------------------
EXTENDS QrFlash

MCTable == <<[start |-> 0, len |-> 1], [start |-> 1, len |-> 31]>>
MCWidth == 32

Option(u, map, parts) ==
    [u |-> u, e |-> FALSE, x |-> FALSE, t |-> FALSE, list |-> FALSE,
     map |-> map, parts |-> parts, start |-> 0, len |-> 0]

UModes == {"undef", "fill", "skip", "ignore", "disable"}

\* Raw reading of a part and of the whole flash, with and without -x.
RawOptions ==
    {[Option(u, "none", {}) EXCEPT !.start = 1, !.len = l] : u \in UModes, l \in {0, 2}}
    \cup {[Option("undef", "none", {}) EXCEPT !.x = x, !.t = t] : x, t \in BOOLEAN}

\* Partitions: all of them, the second, one the table does not have; trimmed or
\* not; listed only.
PartOptions ==
    {[Option(u, map, p) EXCEPT !.t = t] :
        u \in {"undef", "fill", "disable"}, map \in {"flash", "file"},
        p \in {{}, {1}, {5}}, t \in BOOLEAN}
    \cup {[Option("undef", map, {}) EXCEPT !.list = TRUE] : map \in {"flash", "file"}}

\* With -e, and in the modes that touch the marker control.
MCEccOptions ==
    {[Option(u, "none", {}) EXCEPT !.start = 1, !.len = 1, !.e = TRUE] :
        u \in {"fill", "skip", "disable"}}
    \cup {[Option("disable", "flash", {1}) EXCEPT !.e = TRUE]}
MCReadOptions == RawOptions \cup PartOptions \cup MCEccOptions

\* Which pages hold data: all, none, the very last, the second half of the first
\* two blocks.
MCContents ==
    {[b \in Blocks |-> [p \in Pages |-> IF <<b, p>> \in data THEN "data" ELSE "ff"]] :
        data \in {Blocks \X Pages, {}, {<<MaxBlock - 1, Ppb - 1>>},
                  {0, 1} \X {Ppb - 1}}}
=============================================================================
