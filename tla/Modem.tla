-------------------------------- MODULE Modem --------------------------------
(***************************************************************************)
(* The other end of the cable, as qdload, sahara.c and qwflash use it. One *)
(* modem goes through three lives: the boot ROM with the old download      *)
(* protocol ("pbl") or with Sahara ("sahara"), and the loader it has       *)
(* started ("loader"). A loader with a hole in it answers nothing          *)
(* ("hung"). None of this code is in the repository: React() gives, for a  *)
(* state of the modem and a request, every state and answer the programs   *)
(* have to reckon with.                                                    *)
(***************************************************************************)
EXTENDS Integers, Sequences

CONSTANTS
    Blocks,       \* blocks of the loader file
    Parts,        \* partitions of the flash
    NoPart        \* no data stream is open

ASSUME ModemAssumption == Blocks \in Nat \ {0} /\ NoPart \notin Parts

\* Bytes 1 and 12..15 of an answer and its length. Answers of Sahara carry an
\* offset or a status in word 12 and an image in word 8.
Answer(code, len) == [code |-> code, len |-> len, w8 |-> 0, w12 |-> 0]
Nothing == Answer("none", 0)
Ack == Answer("02", 5)
Nak == Answer("03", 7)
Version == Answer("08", 20)
Error == Answer("0e", 12)
Table(stat) == [Answer("1a", 7) EXCEPT !.w8 = stat]
Hello == [Answer("s1", 48) EXCEPT !.w8 = 2]
ReadData(img, piece) == [Answer("s3", 20) EXCEPT !.w8 = img, !.w12 = piece]
EndOfImage(img, stat) == [Answer("s4", 16) EXCEPT !.w8 = img, !.w12 = stat]
DoneResponse == Answer("s6", 12)

Missing == -1
Stale == -2
Image == [b \in 0 .. Blocks - 1 |-> b]
\* A request may reach behind the end of the file.
Off(flash, mode, img) ==
    [mode |-> mode, img |-> img, ram |-> [b \in 0 .. Blocks |-> Missing], want |-> 0 .. Blocks,
     asked |-> Missing, stat |-> 0, secure |-> FALSE, stream |-> NoPart, flash |-> flash]

Complete(ram) == \A b \in DOMAIN Image : ram[b] = Image[b]
Started(m) == [m EXCEPT !.mode = IF Complete(m.ram) THEN "loader" ELSE "hung"]

BootRom(m, r) ==
    CASE r.cmd = "nop" -> {<<m, <<Ack>>>>}
      [] r.cmd = "version" -> {<<m, <<Version>>>>}
      [] r.cmd = "block" -> {<<[m EXCEPT !.ram[r.adr] = r.data], <<Ack>>>>, <<m, <<Nak>>>>}
      [] r.cmd = "go" -> {<<Started(m), <<Ack>>>>}
      [] OTHER -> {<<m, <<Nak>>>>}

\* The pieces are asked for in an order of the modem's own, one behind the file perhaps. What it
\* says of the image at the end does not depend on what it has been sent.
NextPiece(m) ==
    {<<[m EXCEPT !.asked = p, !.want = @ \ {p}], <<ReadData(m.img, p)>>>> : p \in m.want}
    \cup (IF \E p \in m.want : p < Blocks THEN {}
          ELSE {<<[m EXCEPT !.want = {}, !.stat = s], <<EndOfImage(m.img, s)>>>> : s \in {0, 1}})
Fresh(m) == m.asked = Missing /\ m.want = 0 .. Blocks
\* Anything out of turn ends the transfer with an error.
Broken(m) == [m EXCEPT !.asked = Missing, !.want = {}, !.stat = 1]
Sahara(m, r) ==
    CASE r.cmd = "nudge" /\ Fresh(m) -> {<<m, <<Hello>>>>}
      [] r.cmd = "hellorsp" /\ Fresh(m) -> NextPiece(m)
      [] r.cmd = "piece" /\ m.asked # Missing ->
            NextPiece([m EXCEPT !.ram[m.asked] = r.data, !.asked = Missing])
      [] r.cmd = "done" /\ m.want = {} /\ m.asked = Missing ->
            {<<IF m.stat = 0 THEN Started(m) ELSE m, <<DoneResponse>>>>}
      [] OTHER -> {<<Broken(m), <<EndOfImage(m.img, 1)>>>>}

\* A header while a stream is open closes it or is rejected. A packet must follow on the one before.
Opened(m, p) == [m EXCEPT !.stream = p, !.flash[p] = <<>>]
Loader(m, r) ==
    CASE r.cmd = "hello" -> {<<m, <<Ack>>>>}
      [] r.cmd = "secure" -> {<<[m EXCEPT !.secure = TRUE], <<Answer("18", 5)>>>>, <<m, <<Error>>>>}
      [] r.cmd = "close" ->
            IF m.stream = NoPart THEN {<<m, <<Error>>>>, <<m, <<Answer("16", 5)>>>>}
            ELSE {<<[m EXCEPT !.stream = NoPart], <<Answer("16", 5)>>>>}
      [] r.cmd = "table" /\ m.secure -> {<<m, <<Table(0)>>>>} \cup (IF r.full THEN {} ELSE {<<m, <<Table(1)>>>>})
      [] r.cmd = "head" /\ m.secure ->
            {<<Opened(m, r.part), <<Answer("1c", 5)>>>>}
            \cup (IF m.stream = NoPart THEN {} ELSE {<<m, <<Error>>>>})
      [] r.cmd = "data" /\ m.stream # NoPart /\ r.adr <= Len(m.flash[m.stream]) ->
            {<<[m EXCEPT !.flash[m.stream] = SubSeq(@, 1, r.adr) \o r.data], <<Answer("08", 9)>>>>,
             <<m, <<Error>>>>}
      [] OTHER -> {<<m, <<Error>>>>}

React(m, r) ==
    CASE m.mode = "pbl" -> BootRom(m, r)
      [] m.mode = "sahara" -> Sahara(m, r)
      [] m.mode = "loader" -> Loader(m, r)
      [] OTHER -> {<<m, <<>>>>}
=============================================================================
