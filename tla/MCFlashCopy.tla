----------------------------- MODULE MCFlashCopy -----------------------------
EXTENDS FlashCopy

MCFiles == {<<"ff">>}
\* Page 0 of every block may be empty, so that an empty block occurs too.
MCContents == {[b \in Blocks |-> [p \in Pages |-> IF p < e[b] THEN "ff" ELSE "data"]] :
                  e \in [Blocks -> {0, Ppb}]}

ReadOption(u, start) ==
    [u |-> u, e |-> FALSE, x |-> TRUE, t |-> FALSE, list |-> FALSE, map |-> "none",
     parts |-> {}, start |-> start, len |-> 0]
MCReadOptions == {ReadOption(u, s) : u \in {"fill", "skip", "disable"}, s \in {0, 1}}

WriteOption(u, s, wmode, start) ==
    [u |-> u, s |-> s, wmode |-> wmode, start |-> start, stop |-> ToEnd, len |-> 0,
     off |-> 0, erase |-> 0]
MCOptions ==
    {WriteOption(u, s, "standart", st) :
        u \in {{}, {"us"}, {"uc"}, {"um"}}, s \in BOOLEAN, st \in {0, 1}}
    \cup {WriteOption({"ux"}, FALSE, "image", st) : st \in {0, 1}}

\* The registers the loader sets up, and what a -linout run leaves that was killed
\* in an erase.
MCStartRegs == {ResetRegs, [ResetRegs EXCEPT !.cw = 0, !.ud = "516", !.ecc = FALSE]}

\* The file goes back to where it came from; a raw image goes with -ux.
MCPairs == {rw \in MCReadOptions \X MCOptions :
              /\ rw[1].start = rw[2].start
              /\ (rw[1].u = "disable") <=> ("ux" \in rw[2].u)}
=============================================================================
