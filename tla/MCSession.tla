------------------------------ MODULE MCSession ------------------------------
EXTENDS Session

CONSTANTS pA, pB

MCParts == {pA, pB}

\* Files of one packet and a part, of whole packets, and empty ones.
Short == <<1>>
Long == <<1, 2, 3>>
Whole == <<4, 5>>
Q(table, writes) == [prog |-> "qwflash", hello |-> FALSE, table |-> table, writes |-> writes]
W1(p, d) == [part |-> p, data |-> d]
MCOptions ==
    {[prog |-> "qdload", hello |-> h, table |-> "none", writes |-> <<>>] : h \in BOOLEAN}
    \cup {[prog |-> "sahara", hello |-> FALSE, table |-> "none", writes |-> <<>>]}
    \cup {Q("none", <<W1(pA, Long), W1(pB, Whole)>>), Q("update", <<W1(pB, <<>>)>>),
          Q("full", <<W1(pA, Whole), W1(pA, Short)>>)}
=============================================================================
