-------------------------------- MODULE MemIo --------------------------------
(***************************************************************************)
(* The link every utility works through: memread(), memwrite() and their   *)
(* word forms (memio.c), the frames of hdlc.c, and on top of them a sector *)
(* read as flash_read() of qcio.c and load_block() of qrflash.c perform    *)
(* it: address and command are poked, the status is polled (nandwait()),   *)
(* the sector buffer is read.                                              *)
(*                                                                         *)
(* The build for Linux is modelled: VMIN is 1, so a read of the port takes *)
(* what has arrived, waits for a first byte for ever, and returns without  *)
(* one only when the device has gone. A byte that is escaped on            *)
(* the line is one element of a sequence here, so that positions are those *)
(* behind the removal of the escapes in receive_reply().                   *)
(***************************************************************************)
EXTENDS Integers, SequencesExt

CONSTANTS
    Chunk,        \* 1000: bytes per read command
    Hdr,          \* 5: bytes of a reply in front of the data
    Trl,          \* 3: bytes behind them
    Slack,        \* 4: what memread() asks for beyond the data
    Word,         \* 4: bytes of a register
    ErrorLen,     \* bytes of the answer to a command that is not carried out
    MaxTries,     \* 20: attempts of memread()
    SectorLen,    \* bytes to be read from the sector buffer
    Sectors,      \* bound: sectors to be read
    MaxFaults     \* bound: replies that are not what was asked for

ASSUME ConstantsAssumption ==
    /\ {Chunk, Hdr, Trl, Word, MaxTries, SectorLen} \subseteq Nat \ {0}
    \* All of a reply but its last bytes is asked for, the last byte of the data among them.
    /\ Slack \in Nat /\ Hdr <= Slack + 1 /\ Slack < Hdr + Trl
    \* memread() tells answers by their length alone.
    /\ ErrorLen \in 3 .. Slack /\ Word <= Chunk
    \* The status is not among the last bytes of the answer that carries it.
    /\ Word > 2
    /\ Sectors \in Nat /\ MaxFaults \in Nat

\* Unset: whatever the stack holds. Bytes on the line: the frame marker, other framing, the
\* status register, the filler of a failed read, 7D without the byte that belongs to it,
\* byte i of sector s.
Mark == 1
Frame == 2
Busy == 3
Ready == 4
EB == 5
Esc == 6
Unset == 0
DataByte(s, i) == 10 * s + i + 10
Byte == {Unset, Mark, Frame, Busy, Ready, EB, Esc}
        \cup {DataByte(s, i) : s \in 0 .. Sectors, i \in 0 .. SectorLen - 1}

BufSize == Hdr + Chunk + Trl
Const(c, n) == [i \in 1 .. n |-> c]
Fresh == Const(Unset, BufSize)
Overlay(buf, o, s) ==
    [i \in DOMAIN buf |-> IF i > o /\ i <= o + Len(s) THEN s[i - o] ELSE buf[i]]

VARIABLES
    pc,
    sector,       \* the sector that is asked for
    off,          \* i of memread(), -1 while the status is read
    tries,
    raw,          \* replybuf of receive_reply()
    iobuf,        \* iobuf of memread()
    membuf,       \* what memread() has delivered
    ok,           \* memread() has reported no error
    air,          \* bytes on their way to the host
    inbuf,        \* bytes waiting at the host
    gone,         \* the device has disappeared
    held,         \* the sector the controller works on or has in its buffer
    busy,         \* it is not ready
    refused,      \* history: the loader has not carried out a command of the last poke
    faults

vars == <<pc, sector, off, tries, raw, iobuf, membuf, ok, air, inbuf, gone, held, busy,
          refused, faults>>
program == <<sector, off, tries, raw, iobuf, membuf, ok>>
modem == <<held, busy, refused>>

-----------------------------------------------------------------------------
Init ==
    /\ pc = "poke" /\ sector = 1 /\ off = -1 /\ tries = MaxTries
    /\ raw = <<>> /\ iobuf = Fresh /\ membuf = Const(Unset, SectorLen)
    /\ ok = TRUE
    /\ air = <<>> /\ inbuf = <<>> /\ gone = FALSE
    /\ held = 0 /\ busy = FALSE /\ refused = FALSE /\ faults = 0

(* The modem (the patched loader and the controller).                      *)

Memory(i, n) ==
    IF i = -1 THEN Const(IF busy THEN Busy ELSE Ready, n)
    ELSE [k \in 1 .. n |-> IF busy THEN DataByte(0, 0) ELSE DataByte(held, i + k - 1)]
\* A frame of n bytes.
Framed(n) == [k \in 1 .. n |-> IF k \in {1, n} THEN Mark ELSE Frame]
ReadReply(i, n) == Overlay(Framed(Hdr + n + Trl), Hdr, Memory(i, n))
\* The answer to a command the loader could not carry out.
ErrorReply == Framed(ErrorLen)
Ack == Framed(3)

GetReady ==
    /\ busy
    /\ busy' = FALSE
    /\ UNCHANGED <<pc, program, air, inbuf, gone, held, refused, faults>>

\* Bytes arrive in pieces of any size.
Deliver ==
    /\ air # <<>>
    /\ \E n \in 1 .. Len(air) :
         /\ inbuf' = inbuf \o SubSeq(air, 1, n)
         /\ air' = SubSeq(air, n + 1, Len(air))
    /\ UNCHANGED <<pc, program, gone, modem, faults>>

\* The device disappears; what has arrived can still be read. Of a byte that was
\* escaped the first half may be there.
Unplug ==
    /\ ~gone /\ faults < MaxFaults
    /\ gone' = TRUE /\ air' = <<>> /\ faults' = faults + 1
    /\ \/ inbuf' = inbuf
       \/ air # <<>> /\ Head(air) # Mark /\ inbuf' = Append(inbuf, Esc)
    /\ UNCHANGED <<pc, program, modem>>

-----------------------------------------------------------------------------
(* memwrite(): one command, whose reply is not looked at. The address, the *)
(* command code and nand_exec are poked in turn; the last one starts the   *)
(* controller. What becomes of it if one of them is not carried out        *)
(* depends on which it was: the controller stays as it is, or works on     *)
(* another place.                                                          *)

Poke ==
    /\ pc = "poke" /\ sector <= Sectors
    /\ inbuf' = <<>>
    /\ IF gone THEN refused' = FALSE /\ UNCHANGED <<air, held, busy, faults>>
       ELSE \/ /\ held' = sector /\ busy' = TRUE /\ air' = Ack
               /\ refused' = FALSE /\ UNCHANGED faults
            \/ /\ faults < MaxFaults /\ faults' = faults + 1
               /\ refused' = TRUE /\ air' \in {Ack, ErrorReply}
               /\ \/ UNCHANGED <<held, busy>>
                  \/ held' \in 0 .. Sectors /\ busy' = TRUE
    /\ pc' = "ack" /\ raw' = <<>>
    /\ UNCHANGED <<sector, off, tries, iobuf, membuf, ok, gone>>

\* receive_reply() byte by byte, up to the closing marker.
AckByte ==
    /\ pc = "ack"
    /\ \/ /\ inbuf # <<>>
          /\ raw' = Append(raw, Head(inbuf)) /\ inbuf' = Tail(inbuf)
          /\ pc' = IF raw # <<>> /\ Head(inbuf) = Mark THEN "polled" ELSE "ack"
       \/ /\ gone /\ inbuf = <<>> /\ UNCHANGED <<raw, inbuf>>
          /\ pc' = "polled"
    /\ UNCHANGED <<sector, off, tries, iobuf, membuf, ok, air, gone, modem, faults>>

\* The status is polled, whatever the reply was.
Poll ==
    /\ pc = "polled"
    /\ pc' = "read" /\ off' = -1 /\ tries' = MaxTries /\ iobuf' = Fresh
    /\ UNCHANGED <<sector, raw, membuf, ok, air, inbuf, gone, modem, faults>>

-----------------------------------------------------------------------------
(* memread(), of one word while the status is polled, then of the buffer.   *)

BlkLen == IF off = -1 THEN Word ELSE IF off + Chunk > SectorLen THEN SectorLen - off ELSE Chunk
MassLen == BlkLen + Slack

SendRead ==
    /\ pc = "read"
    /\ inbuf' = <<>>
    /\ IF gone THEN UNCHANGED <<air, faults>>
       ELSE \E reply \in {ReadReply(off, BlkLen), ErrorReply} :
              /\ air' = reply
              /\ reply = ErrorReply => faults < MaxFaults
              /\ faults' = IF reply = ErrorReply THEN faults + 1 ELSE faults
    /\ pc' = "mass" /\ raw' = <<>>
    /\ UNCHANGED <<sector, off, tries, iobuf, membuf, ok, gone, modem>>

\* The first read of receive_reply() takes up to MassLen bytes of what is there,
\* counted with their escapes.
ReadMass ==
    /\ pc = "mass"
    /\ \/ /\ \E n \in 1 .. Len(inbuf) :
               /\ n <= MassLen
               /\ raw' = SubSeq(inbuf, 1, n) /\ inbuf' = SubSeq(inbuf, n + 1, Len(inbuf))
          /\ pc' = "tail"
       \/ /\ gone /\ inbuf = <<>> /\ UNCHANGED <<raw, inbuf>>
          /\ pc' = "got"
    /\ UNCHANGED <<sector, off, tries, iobuf, membuf, ok, air, gone, modem, faults>>

\* The rest comes byte by byte up to a marker.
\* Mutant: a frame is expected to end with two markers.
EndsFrameTwice(b) == b = Mark /\ raw[Len(raw)] = Mark
EndsFrame(b) == b = Mark
ReadTail ==
    /\ pc = "tail"
    /\ \/ /\ inbuf # <<>>
          /\ raw' = Append(raw, Head(inbuf)) /\ inbuf' = Tail(inbuf)
          /\ pc' = IF EndsFrame(Head(inbuf)) THEN "got" ELSE "tail"
       \/ /\ gone /\ inbuf = <<>> /\ UNCHANGED <<raw, inbuf>>
          /\ pc' = "got"
    /\ UNCHANGED <<sector, off, tries, iobuf, membuf, ok, air, gone, modem, faults>>

\* What receive_reply() hands on: up to the first marker behind the first byte, with the
\* escapes removed. Behind a 7D at the end it takes whatever follows in replybuf.
Unescaped(s) == [i \in DOMAIN s |-> IF s[i] = Esc THEN Unset ELSE s[i]]
Frames(s) ==
    LET ends == {n \in DOMAIN s : n > 1 /\ s[n] = Mark}
    IN  Unescaped(IF ends = {} THEN s ELSE SubSeq(s, 1, Min(ends)))
Normal(n) == n >= MassLen

\* Mutant: whatever is not busy is ready.
ReadyAny(b) == b # Busy
\* Whatever the stack holds may say so.
IsReady(b) == b \in {Ready, Unset}

\* A short answer is asked for again; after the last attempt a filler takes the
\* place of the data.
Answered(delivered, good) ==
    /\ IF off = -1
       THEN /\ iobuf' = Fresh
            /\ pc' = IF IsReady(delivered[1]) THEN "buffer" ELSE "read"
            /\ tries' = MaxTries
            /\ UNCHANGED <<off, membuf, ok>>
       ELSE /\ iobuf' = Overlay(iobuf, 0, Frames(raw))
            /\ membuf' = Overlay(membuf, off, delivered)
            /\ ok' = (ok /\ good)
            /\ tries' = MaxTries
            /\ IF off + Chunk >= SectorLen THEN pc' = "done" /\ UNCHANGED off
                                           ELSE pc' = "read" /\ off' = off + Chunk
    /\ UNCHANGED <<sector, raw, air, inbuf, gone, modem, faults>>

TakeReply ==
    /\ pc = "got" /\ Normal(Len(Frames(raw)))
    /\ Answered(SubSeq(Overlay(iobuf, 0, Frames(raw)), Hdr + 1, Hdr + BlkLen), TRUE)
Retry ==
    /\ pc = "got" /\ ~Normal(Len(Frames(raw))) /\ tries > 1
    /\ tries' = tries - 1 /\ pc' = "read"
    /\ iobuf' = Overlay(iobuf, 0, Frames(raw))
    /\ UNCHANGED <<sector, off, raw, membuf, ok, air, inbuf, gone, modem, faults>>
GiveUp ==
    /\ pc = "got" /\ ~Normal(Len(Frames(raw))) /\ tries = 1
    /\ Answered(Const(EB, BlkLen), FALSE)

\* The controller has finished: the buffer is read.
StartBuffer ==
    /\ pc = "buffer"
    /\ pc' = "read" /\ off' = 0 /\ ok' = TRUE /\ iobuf' = Fresh
    /\ UNCHANGED <<sector, tries, raw, membuf, air, inbuf, gone, modem, faults>>

NextSector ==
    /\ pc = "done" /\ sector < Sectors
    /\ sector' = sector + 1 /\ pc' = "poke" /\ off' = -1
    /\ membuf' = Const(Unset, SectorLen)
    /\ UNCHANGED <<tries, raw, iobuf, ok, air, inbuf, gone, modem, faults>>

Finished == pc = "done" /\ sector = Sectors /\ UNCHANGED vars

Step ==
    \/ Poke \/ AckByte \/ Poll \/ SendRead \/ ReadMass \/ ReadTail
    \/ TakeReply \/ Retry \/ GiveUp \/ StartBuffer \/ NextSector
Next == Step \/ Deliver \/ GetReady \/ Unplug \/ Finished
Spec == Init /\ [][Next]_vars /\ WF_vars(Step) /\ WF_vars(Deliver) /\ WF_vars(GetReady)

-----------------------------------------------------------------------------
(* Properties.                                                              *)

\* The last two bytes of a chunk: the one behind the length memread() insists on,
\* and the one before it, which may be cut in half.
EndOfChunk(k) == \E e \in {k, k + 1} : e = SectorLen \/ e % Chunk = 0

\* A sector that has been read holds one sector of the flash or, in whole chunks, the
\* filler, and it is the sector asked for unless the loader has refused a poke, which
\* memwrite() does not notice. A device that disappears within the last bytes of a reply
\* can spoil the last two bytes of a chunk and no other. In particular neither the pieces
\* in which a reply arrives nor the attempts before it leave anything in the data.
SectorTruthful ==
    pc = "done" =>
        /\ \A k \in 1 .. SectorLen :
              \/ membuf[k] = DataByte(held, k - 1)
              \/ membuf[k] = EB /\ ~ok
              \/ gone /\ EndOfChunk(k)
        /\ ~refused => held = sector

\* The sector buffer is read only when the controller is no longer working on it, also
\* when the polling of the status goes wrong or is cut off.
ReadsWhenReady == pc \in {"read", "mass", "tail", "got"} /\ off >= 0 => ~busy

\* What memread() hands on is the sector as it was read (memio.c:36-88, qcio.c:33).
SectorRight == SectorTruthful /\ ReadsWhenReady

\* Unless something goes wrong on the way all sectors are read.
SectorsRead == <>(faults > 0 \/ (pc = "done" /\ sector = Sectors))
=============================================================================
