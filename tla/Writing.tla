------------------------------- MODULE Writing -------------------------------
(***************************************************************************)
(* qwflash.c: partitions are written through the user partition mode of    *)
(* the loader. Secure mode, the partition table if one is given, and for   *)
(* each file a header, packets of wbsize bytes and the closing of the      *)
(* stream. Each of the small procedures has a reply buffer of its own      *)
(* which nothing initializes.                                              *)
(***************************************************************************)
EXTENDS Line

CONSTANT wbsize   \* 1024: bytes of a data packet

ASSUME WritingAssumption == wbsize \in Nat \ {0}

VARIABLES
    k,            \* the partition, i of the main loop
    adr,          \* the place of the packet in the file
    reported      \* history: what is written, as the program has said

local == <<opts, k, adr, reported>>

\* A buffer on the stack that nothing has been written into.
Uninit(code) == {Nothing, Answer(code, 0)}
\* An accepted answer nobody has given.
Unanswered(ok) == blind' = (blind \/ (ok /\ iolen' = 0))

Write == opts.writes[k]

-----------------------------------------------------------------------------
SendSecure == Send("secure", [cmd |-> "secure"], Uninit("18")) /\ UNCHANGED local
SecureAnswer ==
    /\ Await("secure")
    /\ pc' = IF iobuf'.code = "18" THEN "close0" ELSE "end"
    /\ Unanswered(iobuf'.code = "18")
    /\ UNCHANGED local

\* qclose(0): a stream left open is closed; the answer is not looked at.
SendClose0 == Send("close0", [cmd |-> "close"], {Nothing}) /\ UNCHANGED local
Close0Answer ==
    /\ Await("close0")
    /\ pc' = IF opts.table = "none" THEN "head" ELSE "table"
    /\ UNCHANGED <<local, blind>>

SendTable ==
    /\ Send("table", [cmd |-> "table", full |-> opts.table = "full"], Uninit("1a"))
    /\ UNCHANGED local
TableAnswer ==
    /\ Await("table")
    /\ LET ok == iobuf'.code = "1a" /\ iobuf'.w8 = 0
       IN pc' = (IF ok THEN "head" ELSE "end") /\ Unanswered(ok)
    /\ UNCHANGED local

-----------------------------------------------------------------------------
SendHead ==
    /\ Send("head", [cmd |-> "head", part |-> Write.part], Uninit("1c"))
    /\ reported' = [reported EXCEPT ![Write.part] = <<>>]
    /\ UNCHANGED <<opts, k, adr>>

HeadAnswer ==
    /\ Await("head")
    /\ pc' = IF iobuf'.code = "1c" THEN "data" ELSE "end"
    /\ adr' = 0
    /\ Unanswered(iobuf'.code = "1c")
    /\ UNCHANGED <<opts, k, reported>>

\* The bytes fread() returns: fewer than wbsize at the end of the file, none at all when the
\* length is a multiple.
Packet == SubSeq(Write.data, adr + 1, IF adr + wbsize < Len(Write.data) THEN adr + wbsize ELSE Len(Write.data))
AtEof == Len(Packet) < wbsize

\* The progress line divides by the length of the file; what a division by zero does is undefined.
DivideByZero ==
    /\ pc = "data" /\ ~waiting /\ Write.data = <<>>
    /\ pc' = "end"
    /\ UNCHANGED <<local, modem, air, faults, late, blind, port>>

SendData == Send("data", [cmd |-> "data", adr |-> adr, data |-> Packet], {iobuf}) /\ UNCHANGED local

\* Mutant: the loop does not advance.
AdvanceNot == adr

Advance == adr + wbsize

\* Mutant: a packet without an answer is not an error.
AcceptedLate == iolen' = 0 \/ iobuf'.code = "08"

Accepted == iolen' # 0 /\ iobuf'.code = "08"
DataAnswer ==
    /\ Await("data")
    /\ IF ~Accepted THEN pc' = "end" /\ UNCHANGED adr
       ELSE IF AtEof THEN pc' = "close1" /\ UNCHANGED adr
       ELSE adr' = Advance /\ UNCHANGED pc
    /\ UNCHANGED <<opts, k, reported, blind>>

SendClose1 == Send("close1", [cmd |-> "close"], Uninit("16")) /\ UNCHANGED local
Close1Answer ==
    /\ Await("close1")
    /\ LET ok == iobuf'.code = "16"
       IN /\ Unanswered(ok)
          /\ IF ok THEN reported' = [reported EXCEPT ![Write.part] = Write.data]
             ELSE UNCHANGED reported
          /\ IF ok /\ k < Len(opts.writes) THEN pc' = "head" /\ k' = k + 1
             ELSE pc' = "end" /\ UNCHANGED k
    /\ UNCHANGED <<opts, adr>>

WritingStep ==
    \/ SendSecure \/ SecureAnswer \/ SendClose0 \/ Close0Answer \/ SendTable \/ TableAnswer
    \/ SendHead \/ HeadAnswer \/ DivideByZero \/ SendData \/ DataAnswer
    \/ SendClose1 \/ Close1Answer
=============================================================================
