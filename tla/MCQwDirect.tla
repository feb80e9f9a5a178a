------------------------------ MODULE MCQwDirect ------------------------------
(* Instances of QwDirect for model checking.                               *)
EXTENDS QwDirect

Cmd(u, s, wmode, area, len, off, erase) ==
    [u |-> u, s |-> s, wmode |-> wmode, start |-> area[1], stop |-> area[2],
     len |-> len, off |-> off, erase |-> erase]

Areas == {<<0, ToEnd>>, <<1, ToEnd>>, <<0, 2>>, <<1, 3>>}

\* Whole, short and mixed images of up to three blocks of two pages.
PlainFiles == {<<"data">>, <<"data", "data", "ff">>, <<"data", "ff", "data", "data">>,
               <<"bb", "bb", "data", "data">>, <<"data", "bb", "ff", "data">>,
               <<"data", "data", "bb", "bb", "data">>, <<"ff", "ff", "data", "data", "data", "data">>,
               <<"data", "data", "data", "data", "data", "data">>}
PlainOptions == {Cmd(u, s, "standart", a, l, o, 0) :
                 u \in {{}, {"us"}}, s \in BOOLEAN, a \in Areas, l \in {0, 1, 2}, o \in {0, 1}}

\* Images with defects, and raw pages that carry a marker.
DefectFiles == {<<"mk", "data", "bb", "bb">>, <<"data", "bb", "bb", "bb", "data">>,
                <<"bb", "bb", "ff", "data">>, <<"ff", "ff", "bb", "bb", "data", "ff">>}
\* The modes that deal with defects, raw images, the erase mode, formats that leave different
\* registers behind, and command lines that are refused.
ModeOptions ==
    {Cmd(u, s, "standart", <<0, ToEnd>>, 0, 0, 0) : u \in {{}, {"um"}, {"uc"}}, s \in BOOLEAN}
    \cup {Cmd(u, FALSE, "linout", a, 0, 0, 0) :
            u \in {{"um"}, {"uc", "ub"}, {"us", "ub"}}, a \in {<<0, ToEnd>>, <<1, 3>>}}
    \cup {Cmd(u, FALSE, "image", a, 0, 0, 0) :
            u \in {{"ux"}, {"uc"}}, a \in {<<0, ToEnd>>, <<1, 3>>}}
    \cup {Cmd(u, FALSE, "standart", <<0, ToEnd>>, 1, o, 0) :
            u \in {{"um"}, {"uc"}, {"us", "uc"}, {"ub", "um"}, {"ub", "ux"}, {"ux"}}, o \in {0, 1}}
    \cup {Cmd(u, FALSE, "standart", a, 0, 0, e) :
            u \in {{}, {"ub"}}, a \in {<<0, ToEnd>>, <<1, 3>>}, e \in {1, 3}}
    \cup {Cmd({}, FALSE, "standart", a, 0, 0, 1) : a \in {<<3, 2>>, <<5, ToEnd>>, <<0, 5>>}}
=============================================================================
