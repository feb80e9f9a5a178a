-------------------------------- MODULE Nvram --------------------------------
(***************************************************************************)
(* qnvram: the NVRAM items of a modem are saved to files (-ri), shown      *)
(* (-rd), written back (-wi, -wa), and item 226 is made from an IMEI (-j), *)
(* one frame with a command and one with an answer for each item. The line *)
(* loses and delays frames and loses bytes; a program can be killed; the   *)
(* files and the items pass from one run to the next.                      *)
(***************************************************************************)
EXTENDS Frames

CONSTANTS
    Items,        \* the item numbers looked at, an interval of 0 .. 65535
    ImeiItem,     \* 16#226
    DataLen,      \* 128: bytes of data in an item, at least 9
    Word,         \* 4: bytes of the unit in which zeros are trimmed
    Stores,       \* what the NVRAM of the modem may hold at first
    Backups,      \* the items that may have been saved before
    Absent,       \* no item, no file
    Commands,     \* the command lines
    MaxFaults,    \* bound: frames lost or late, bytes lost
    MaxRuns       \* bound: programs started

ASSUME NvramAssumption ==
    /\ Items \subseteq 0 .. 65535 /\ ImeiItem \in Items
    /\ Word \in Nat \ {0} /\ DataLen \in Nat /\ DataLen >= 9 /\ DataLen % Word = 0
    /\ MaxFaults \in Nat /\ MaxRuns \in Nat

VARIABLES
    nv,           \* the items of the modem, bytes of data and two of attribute
    air,          \* frames on their way to the program or unread, oldest first
    sent, wire,   \* the last command, and the frame it was sent in
    files,        \* the directory nv/
    cmd, pc, item,        \* the command line, the place in the program, the loop variable
    iobuf,                \* the item just read
    imei,                 \* the digits of -j, the last one corrected
    text,                 \* the build for Windows, where the files are opened in text mode
    source, confirmed,    \* history: what each file was taken from, the items this run reported as written
    faults, stale, noEsc, runs   \* history: a wait ran out too early; an escape byte was lost

line == <<nv, air, sent, wire, faults, stale, noEsc>>
vars == <<line, files, text, cmd, pc, item, iobuf, imei, source, confirmed, runs>>

First == CHOOSE i \in Items : \A j \in Items : i <= j
Final == CHOOSE i \in Items : \A j \in Items : i >= j
Zeros(n) == [i \in 1 .. n |-> 0]
\* A file that has been opened for writing, and nothing written into it.
Truncated == <<>>

\* fopen() with "w" and "r". In text mode a line feed is written with a carriage return before it, which
\* is taken away again when it is read, and 1A ends a file.
TextOut(s) ==
    IF text THEN FlattenSeq([i \in DOMAIN s |-> IF s[i] = 10 THEN <<13, 10>> ELSE <<s[i]>>]) ELSE s
TextIn(s) ==
    LET end == SelectInSeq(s, LAMBDA b : b = 26)
        t == IF end = 0 THEN s ELSE SubSeq(s, 1, end - 1)
        kept == SelectSeq([i \in DOMAIN t |-> i], LAMBDA i : ~(t[i] = 13 /\ i < Len(t) /\ t[i + 1] = 10))
    IN IF text THEN [j \in DOMAIN kept |-> t[kept[j]]] ELSE s

Init ==
    /\ nv \in Stores /\ text \in BOOLEAN
    /\ air = <<>> /\ sent = <<0>> /\ wire = Frame(sent)
    /\ source \in Backups
    /\ files = [i \in Items |-> IF source[i] = Absent THEN Absent ELSE TextOut(source[i].data \o source[i].attr)]
    /\ cmd = (CHOOSE c \in Commands : TRUE) /\ pc = "end" /\ item = First
    /\ iobuf = <<>> /\ imei = <<>>
    /\ confirmed = {} /\ faults = 0 /\ stale = FALSE /\ noEsc = FALSE /\ runs = 0

-----------------------------------------------------------------------------
(* The modem, as far as the program relies on it.                          *)

Number(i) == <<i % 256, i \div 256>>
Pad(data) == data \o Zeros(DataLen - Len(data))
Refused == RefFrame(<<20>>)

\* The state of the modem and its answer after a frame with body c. A command cut short stands for zeros.
Written(i, data) ==
    [nv EXCEPT ![i] = [data |-> Pad(data), attr |-> IF @ = Absent THEN <<0, 0>> ELSE @.attr]]
ItemAnswer(c, entry) == RefFrame(SubSeq(c, 1, 3) \o entry.data \o entry.attr)
React(c) ==
    LET i == c[2] + 256 * c[3]
        understood == Len(c) >= 3
    IN CASE understood /\ c[1] = 38 /\ nv[i] # Absent -> <<nv, ItemAnswer(c, nv[i])>>
         [] understood /\ c[1] = 39 -> <<Written(i, SubSeq(c, 4, Len(c))), ItemAnswer(c, Written(i, SubSeq(c, 4, Len(c)))[i])>>
         [] OTHER -> <<nv, Refused>>

Fault == faults < MaxFaults /\ faults' = faults + 1

\* send_unframed_buf(): what has arrived is dropped, the frame is written. It may be lost, or damaged
\* so that the modem refuses it; the answer may be lost, or a byte of it.
Ask(c) ==
    /\ sent' = c /\ wire' = Frame(c)
    /\ \E n \in 0 .. Len(air), body \in {RefBody(wire')} : \E x \in {React(body)} :
         LET kept == SubSeq(air, n + 1, Len(air)) IN
         /\ stale' = (stale \/ n < Len(air))
         /\ \/ nv' = x[1] /\ air' = Append(kept, x[2]) /\ UNCHANGED <<faults, noEsc>>
            \/ Fault /\ air' \in {kept, Append(kept, Refused)} /\ UNCHANGED <<nv, noEsc>>
            \/ Fault /\ nv' = x[1] /\ air' = kept /\ UNCHANGED noEsc
            \/ /\ Fault /\ nv' = x[1]
               /\ \E i \in DOMAIN x[2] :
                    /\ air' = Append(kept, RemoveAt(x[2], i))
                    /\ noEsc' = (noEsc \/ x[2][i] = Esc)

\* receive_reply(): bytes up to an end of frame, or until no more come; none at all if the answer is
\* late.
Raw == IF Last(Head(air)) = End \/ Len(air) = 1 THEN Head(air) ELSE Head(air) \o air[2]
Answers == {<<>>} \cup (IF air = <<>> THEN {} ELSE Replies(Raw))
Received(answer) ==
    \/ /\ answer # <<>>
       /\ air' = IF Raw = Head(air) THEN Tail(air) ELSE Tail(Tail(air))
       /\ UNCHANGED faults
    \/ /\ answer = <<>>
       /\ IF air = <<>> THEN UNCHANGED faults ELSE Fault
       /\ UNCHANGED air

-----------------------------------------------------------------------------
(* Reading.                                                                *)

\* The command line: one item or all of them; -b and a missing operand do nothing.
Start ==
    /\ pc = "end" /\ runs < MaxRuns
    /\ \E c \in Commands :
         /\ cmd' = c
         /\ item' = IF c.item = -1 THEN First ELSE c.item
         /\ pc' = CASE c.mode \in {"ri", "rd"} -> "read" [] c.mode \in {"wi", "wa"} -> "write" [] c.mode = "j" -> "imei"
         /\ imei' = IF c.mode = "j" THEN c.imei ELSE <<>>
    /\ runs' = runs + 1
    /\ confirmed' = {}
    /\ UNCHANGED <<line, files, iobuf, source>>

Kill ==
    /\ pc # "end" /\ pc' = "end"
    /\ UNCHANGED <<line, files, cmd, item, iobuf, imei, source, confirmed, runs>>

\* The next turn of a loop over the items.
Again(at) ==
    IF cmd.item = -1 /\ item < Final THEN item' = item + 1 /\ pc' = at
    ELSE pc' = "end" /\ UNCHANGED item

\* get_nvitem()
AskItem ==
    /\ pc = "read" /\ pc' = "readanswer"
    /\ Ask(<<38>> \o Number(item))
    /\ UNCHANGED <<files, cmd, item, iobuf, imei, source, confirmed, runs>>

\* Mutant: an answer one byte short is taken.
IsItemShort(answer) == Len(answer) >= DataLen + 7
\* Code, number, data, attribute, CRC and end of frame. Nothing but the length is looked at.
IsItem(answer) == Len(answer) = DataLen + 8
Blank(data) == data = Zeros(DataLen)

\* An item that cannot be read, or is empty with z, is passed over: an older file of it stays.
TakeItem ==
    /\ pc = "readanswer"
    /\ \E a \in Answers :
         /\ Received(a)
         /\ IF IsItem(a) THEN iobuf' = SubSeq(a, 4, 5 + DataLen) ELSE UNCHANGED iobuf
         /\ IF cmd.mode = "rd" THEN pc' = "end" /\ UNCHANGED item
            ELSE IF ~IsItem(a) \/ (cmd.z /\ Blank(SubSeq(a, 4, 3 + DataLen))) THEN Again("read")
            ELSE pc' = "open" /\ UNCHANGED item
    /\ UNCHANGED <<nv, sent, wire, stale, noEsc, files, cmd, imei, source, confirmed, runs>>

\* fopen() and fwrite()
OpenFile ==
    /\ pc = "open" /\ pc' = "save"
    /\ files' = [files EXCEPT ![item] = Truncated]
    /\ source' = [source EXCEPT ![item] = nv[item]]
    /\ UNCHANGED <<line, cmd, item, iobuf, imei, confirmed, runs>>
\* Mutant: the attribute is not saved.
SaveFileData ==
    /\ pc = "save"
    /\ files' = [files EXCEPT ![item] = TextOut(SubSeq(iobuf, 1, DataLen))]
    /\ Again("read")
    /\ UNCHANGED <<line, cmd, iobuf, imei, source, confirmed, runs>>
SaveFile ==
    /\ pc = "save"
    /\ files' = [files EXCEPT ![item] = TextOut(iobuf)]
    /\ Again("read")
    /\ UNCHANGED <<line, cmd, iobuf, imei, source, confirmed, runs>>

-----------------------------------------------------------------------------
(* Writing.                                                                *)

\* Words of zeros at the end are not sent, but the first word always is.
Trimmed(data) ==
    LET used == {w \in 1 .. DataLen \div Word - 1 : SubSeq(data, w * Word + 1, (w + 1) * Word) # Zeros(Word)}
        n == IF used = {} THEN 0 ELSE CHOOSE w \in used : \A x \in used : x <= w
    IN SubSeq(data, 1, (n + 1) * Word)

\* write_item(): the item as its buffer says.
WriteItem(i, data) == Ask(<<39>> \o Number(i) \o Trimmed(data))

\* A file is sent, unless it is missing or too small: -wi ends then, -wa goes on.
Usable(f) == f # Absent /\ Len(TextIn(f)) >= DataLen + 2
SendFile ==
    /\ pc = "write" /\ Usable(files[item])
    /\ WriteItem(item, SubSeq(TextIn(files[item]), 1, DataLen))
    /\ confirmed' = confirmed \ {item}
    /\ pc' = "writeanswer"
    /\ UNCHANGED <<files, cmd, item, iobuf, imei, source, runs>>
SkipFile ==
    /\ pc = "write" /\ ~Usable(files[item])
    /\ Again("write")
    /\ UNCHANGED <<line, files, cmd, iobuf, imei, source, confirmed, runs>>

\* Mutant: an answer of any length will do.
IsConfirmedAny(answer) == answer # <<>>
IsConfirmed(answer) == Len(answer) = DataLen + 8 /\ answer[1] = 39
WriteAnswer ==
    /\ pc = "writeanswer"
    /\ \E a \in Answers :
         /\ Received(a)
         /\ confirmed' = IF IsConfirmed(a) THEN confirmed \cup {item} ELSE confirmed
    /\ Again("write")
    /\ UNCHANGED <<nv, sent, wire, stale, noEsc, files, cmd, iobuf, imei, source, runs>>

-----------------------------------------------------------------------------
(* The IMEI.                                                               *)

\* Mutant: a sum that is a multiple of ten gives 10.
CheckDigitTen(d) ==
    LET digits(x) == x \div 10 + (x * 10 - (x \div 10) * 100) \div 10
        csum == FoldSet(LAMBDA i, s : s + digits(2 * d[i]), 0, {2, 4, 6, 8, 10, 12, 14})
                + FoldSet(LAMBDA i, s : s + d[i], 0, {1, 3, 5, 7, 9, 11, 13})
    IN (csum \div 10 + 1) * 10 - csum

\* The digits at odd places doubled, their two digits added, the sum filled up to a multiple of ten.
CheckDigit(d) ==
    LET digits(x) == x \div 10 + (x * 10 - (x \div 10) * 100) \div 10
        csum == FoldSet(LAMBDA i, s : s + digits(2 * d[i]), 0, {2, 4, 6, 8, 10, 12, 14})
                + FoldSet(LAMBDA i, s : s + d[i], 0, {1, 3, 5, 7, 9, 11, 13})
    IN IF (csum \div 10) * 10 = csum THEN 0 ELSE (csum \div 10 + 1) * 10 - csum

\* Length 8, then two digits in a byte, the first one with the filler A.
Packed(d) == <<8, d[1] * 16 + 10>> \o [j \in 1 .. 7 |-> d[2 * j] + d[2 * j + 1] * 16]

\* write_imei(): 15 digits, the last one corrected if the user says y, and written in any case.
WriteImei ==
    /\ pc = "imei"
    /\ IF Len(imei) = 15 /\ ToSet(imei) \subseteq 0 .. 9
       THEN LET csum == CheckDigit(imei)
                fixed == IF imei[15] # csum /\ cmd.yes THEN [imei EXCEPT ![15] = csum] ELSE imei
            IN /\ imei' = fixed
               /\ WriteItem(ImeiItem, Pad(Packed(fixed)))
               /\ item' = ImeiItem /\ pc' = "imeianswer"
               /\ confirmed' = confirmed \ {ImeiItem}
       ELSE pc' = "end" /\ UNCHANGED <<line, imei, item, confirmed>>
    /\ UNCHANGED <<files, cmd, iobuf, source, runs>>
ImeiAnswer ==
    /\ pc = "imeianswer" /\ pc' = "end"
    /\ \E a \in Answers : Received(a)
    /\ UNCHANGED <<nv, sent, wire, stale, noEsc, files, cmd, item, iobuf, imei, source, confirmed, runs>>

Step ==
    \/ AskItem \/ TakeItem \/ OpenFile \/ SaveFile \/ SendFile \/ SkipFile \/ WriteAnswer
    \/ WriteImei \/ ImeiAnswer
Next == (Start \/ Kill \/ Step) /\ UNCHANGED text
Spec == Init /\ [][Next]_vars

-----------------------------------------------------------------------------
\* Items, files and frames have their types; a file is empty or has all its bytes, line feeds twice in text
\* mode.
Bytes(n) == [1 .. n -> 0 .. 255]
TypeOK ==
    /\ \A i \in Items : nv[i] = Absent \/ (nv[i].data \in Bytes(DataLen) /\ nv[i].attr \in Bytes(2))
    /\ \A i \in Items : 
          \/ files[i] \in {Absent, Truncated}
          \/ \E n \in DataLen + 2 .. (IF text THEN 2 ELSE 1) * (DataLen + 2) : files[i] \in Bytes(n)
    /\ \A i \in DOMAIN air : air[i] \in Bytes(Len(air[i]))
    /\ pc \in {"end", "read", "readanswer", "open", "save", "write", "writeanswer", "imei", "imeianswer"}
    /\ item \in Items /\ confirmed \subseteq Items
    /\ faults \in 0 .. MaxFaults /\ runs \in 0 .. MaxRuns /\ {stale, noEsc, text} \subseteq BOOLEAN

\* Every command reaches the modem as it was meant: its escapes and its CRC, from the table of
\* hdlc.c:21, are those of the standard (hdlc.c:173).
FrameStandard == pc \in {"readanswer", "writeanswer", "imeianswer"} => RefBody(wire) = sent

\* A saved file holds the item with its number, data and attribute (qnvram.c:33, 103), whatever has been
\* lost, also in the runs before. Two ways out: since the number in the answer is not compared, a
\* late answer counts as that of the next item; and since the CRC of an answer is not checked, the
\* loss of an escape byte changes the byte behind it. No other lost byte gets through.
BackupTrue ==
    ~stale /\ ~noEsc =>
      \A i \in Items : (files[i] \notin {Absent, Truncated} /\ ~(pc = "save" /\ item = i)) =>
         source[i] # Absent /\ files[i] = TextOut(source[i].data \o source[i].attr)

\* "OK" after -wa (qnvram.c:175): the item holds the data of its file, with the zeros that were not
\* sent, and these are the data that were saved, through the text mode of Windows too. The ways out
\* are again an answer that came late and, for what was saved, a lost escape byte. Nothing is said
\* of a file that is passed over: with 1A in it that is every file of the build for Windows.
RestoreTrue ==
    ~stale => \A i \in confirmed :
                 /\ nv[i] # Absent /\ nv[i].data = SubSeq(TextIn(files[i]), 1, DataLen)
                 /\ ~noEsc => nv[i].data = source[i].data

\* The sum of Luhn's formula, from the right: every second digit doubled and reduced.
Luhn(d) ==
    LET n(i) == IF i % 2 = 0 THEN (IF 2 * d[i] > 9 THEN 2 * d[i] - 9 ELSE 2 * d[i]) ELSE d[i]
    IN FoldSet(LAMBDA i, s : s + n(i), 0, 1 .. 15) % 10
Unpacked(data) ==
    [i \in 1 .. 15 |-> IF i % 2 = 1 THEN data[i \div 2 + 2] \div 16 ELSE data[i \div 2 + 2] % 16]
\* The IMEI that goes to the modem is the one given, and if the user has asked for it a valid one
\* (qnvram.c:183): the check digit completes Luhn's sum and is the only digit changed.
ImeiValid ==
    pc = "imeianswer" =>
      LET d == Unpacked(Pad(SubSeq(sent, 4, Len(sent))))
      IN /\ SubSeq(d, 1, 14) = SubSeq(cmd.imei, 1, 14) /\ d[15] \in 0 .. 9
         /\ cmd.yes => Luhn(d) = 0
         /\ Luhn(cmd.imei) = 0 \/ ~cmd.yes => d[15] = cmd.imei[15]
=============================================================================
