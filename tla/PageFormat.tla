----------------------------- MODULE PageFormat -----------------------------
(***************************************************************************)
(* The layouts of a page: how qrflash puts the sectors of a page into a    *)
(* file (load_block, read_block, read_block_ext) and how qwdirect takes    *)
(* them out of it again and gives them to the controller (the sector loop  *)
(* and the verification loop of main()). Bytes are followed one by one, in *)
(* buffers that keep what earlier pages and sectors left in them.          *)
(***************************************************************************)
EXTENDS Integers, Sequences

CONSTANTS
    SectorSize,   \* sectorsize, 512
    Extra,        \* 4: what a sector of the Linux format holds more
    TagSize,      \* 16: bytes of a YAFFS2 tag
    Spp,          \* spp: sectors per page
    Oob,          \* OOB bytes per sector, as qwdirect divides them
    SourcePages,  \* pages to be read: sequences of Spp sectors
    Pairs,        \* <<-r or -x of qrflash, -f of qwdirect>>, as they belong together
    NumPages,     \* bound: pages per behaviour
    MaxFaults     \* bound: sectors that do not take what is programmed

FF == 0
Unset == -1                       \* a byte nobody has written yet
Byte == Nat \cup {Unset}
CwSize == SectorSize + Oob        \* a whole sector in the sector buffer
PageSize == SectorSize * Spp
LastPart == SectorSize - Extra * (Spp - 1)     \* data in the last Linux sector

ASSUME ConstantsAssumption ==
    /\ SectorSize \in Nat \ {0} /\ Extra \in Nat /\ TagSize \in Nat /\ Spp \in Nat \ {0}
    /\ Oob \in Nat /\ Extra <= Oob
    /\ LastPart > 0 /\ TagSize <= Extra * Spp /\ TagSize <= Oob * Spp
    /\ SourcePages \subseteq [1 .. Spp -> [1 .. CwSize -> Nat]]
    /\ Pairs \subseteq {<<"rs", "fs">>, <<"rl", "fo">>, <<"rl", "fl">>, <<"ry", "fy">>, <<"x", "fi">>}
    /\ NumPages \in Nat /\ MaxFaults \in Nat

VARIABLES
    pc, pair,
    sflag, vflag,     \* -s and -v of qwdirect
    page,             \* pages dealt with
    source,           \* the pages to be read
    infile,           \* the page as it stands in the file
    earlier,          \* the page before it in the file, which went through srcbuf
    srcbuf, databuf, oobuf, membuf,
    sector,
    sbuf,             \* the sector buffer of the controller
    target,           \* the page that is written: its sectors
    faulty,           \* a sector of this page did not take its data
    faults,           \* such sectors so far
    reported,         \* a mismatch has been reported for this page
    skipped           \* -s has passed over this page

vars == <<pc, pair, sflag, vflag, page, source, infile, earlier, srcbuf, databuf, oobuf, membuf,
          sector, sbuf, target, faulty, faults, reported, skipped>>

Rmode == pair[1]
Wmode == pair[2]

\* oobsize after "oobsize /= spp": modes without OOB in the file have none.
OobSize == IF Wmode \in {"fs", "fl"} THEN 0 ELSE Oob
\* How many bytes of the sector buffer the controller programs and reads.
UserSize == CASE Wmode = "fs" -> SectorSize
              [] Wmode \in {"fl", "fy", "fo"} -> SectorSize + Extra
              [] Wmode = "fi" -> CwSize

Const(c, n) == [i \in 1 .. n |-> c]
\* memcpy(to + at, from + off, n), the offsets counted from 0.
Memcpy(to, at, from, off, n) ==
    [i \in DOMAIN to |-> IF at < i /\ i <= at + n THEN from[off + i - at] ELSE to[i]]

-----------------------------------------------------------------------------
(* qrflash: what a page becomes in the file.                               *)

\* n bytes of the sectors, size bytes of each.
Joined(pg, size, n) == [i \in 1 .. n |-> pg[((i - 1) \div size) + 1][((i - 1) % size) + 1]]
\* read_block_ext(): whole sectors but for the last, whose tail is not data.
Resequenced(pg) == Joined(pg, SectorSize + Extra, (Spp - 1) * (SectorSize + Extra) + LastPart)
TagOf(pg) == Memcpy(Const(FF, Oob * Spp), 0, pg[Spp], LastPart, TagSize)
DumpedPage(pg) ==
    CASE Rmode = "rs" -> Joined(pg, SectorSize, Spp * SectorSize)
      [] Rmode = "x"  -> Joined(pg, CwSize, Spp * CwSize)
      [] Rmode = "rl" -> Resequenced(pg)
      [] Rmode = "ry" -> Resequenced(pg) \o TagOf(pg)

-----------------------------------------------------------------------------
Init ==
    /\ pc = "dump" /\ pair \in Pairs /\ sflag \in BOOLEAN /\ vflag \in BOOLEAN
    /\ page = 0 /\ source \in SourcePages /\ infile = <<>>
    /\ earlier = Const(Unset, PageSize + Spp * Oob)
    /\ srcbuf = Const(Unset, PageSize + Spp * Oob)
    /\ databuf = Const(Unset, PageSize + Spp * Oob)
    /\ oobuf = Const(Unset, PageSize + Spp * Oob)
    /\ membuf = Const(Unset, CwSize) /\ sbuf = Const(Unset, CwSize)
    /\ sector = 1
    /\ target = [s \in 1 .. Spp |-> Const(FF, UserSize)]
    /\ faulty = FALSE /\ faults = 0 /\ reported = FALSE /\ skipped = FALSE

\* The file may end within its last page: -t cuts off what is erased at its end
\* byte by byte, and nobody makes sure that an image is a number of whole pages.
DumpPage ==
    /\ pc = "dump"
    /\ \E n \in 1 .. Len(DumpedPage(source)) :
         /\ n < Len(DumpedPage(source)) => page + 1 = NumPages
         /\ infile' = SubSeq(DumpedPage(source), 1, n)
    /\ pc' = "fread"
    /\ UNCHANGED <<pair, sflag, vflag, page, source, earlier, srcbuf, databuf, oobuf, membuf,
                   sector, sbuf, target, faulty, faults, reported, skipped>>

ReadLen == IF Wmode = "fo" THEN PageSize ELSE PageSize + Spp * OobSize
TestEmpty(buf) == \A i \in 1 .. PageSize : buf[i] = FF

\* fread() of a page, and -s. Only pagesize bytes are filled with FF before: what
\* the page before left behind them stays where the file ends.
ReadFile ==
    /\ pc = "fread"
    /\ srcbuf' = Memcpy(Memcpy(srcbuf, 0, Const(FF, PageSize), 0, PageSize), 0, infile, 0,
                        IF Len(infile) < ReadLen THEN Len(infile) ELSE ReadLen)
    /\ oobuf' = [i \in DOMAIN oobuf |-> FF]
    /\ skipped' = (sflag /\ TestEmpty(srcbuf'))
    /\ pc' = IF skipped' THEN "next" ELSE "split"
    /\ UNCHANGED <<pair, sflag, vflag, page, source, infile, earlier, databuf, membuf, sector,
                   sbuf, target, faulty, faults, reported>>

\* The dump is taken apart into data and OOB:
\* the pieces of n bytes at offset off of each size bytes go to buf, one behind the other.
Gathered(buf, size, off, n) ==
    [i \in DOMAIN buf |-> IF i <= Spp * n
                          THEN srcbuf[((i - 1) \div n) * size + off + ((i - 1) % n) + 1]
                          ELSE buf[i]]
SplitPage ==
    /\ pc = "split"
    /\ IF Wmode \in {"fs", "fl", "fi"}
       THEN /\ databuf' = Gathered(databuf, SectorSize + OobSize, 0, SectorSize)
            /\ oobuf' = Gathered(oobuf, SectorSize + OobSize, SectorSize, OobSize)
       ELSE /\ databuf' = Memcpy(databuf, 0, srcbuf, 0, PageSize)
            /\ oobuf' = IF Wmode = "fy" THEN Memcpy(oobuf, 0, srcbuf, PageSize, OobSize * Spp)
                                        ELSE oobuf
    /\ sector' = 1 /\ pc' = "write"
    /\ UNCHANGED <<pair, sflag, vflag, page, source, infile, earlier, srcbuf, membuf, sbuf, target,
                   faulty, faults, reported, skipped>>

-----------------------------------------------------------------------------
(* The sector loop.                                                        *)

MoreSectors == sector <= Spp

LastSector == sector = Spp
\* The data of the sector in the formats with larger sectors, and how many.
LinuxFrom == (sector - 1) * (SectorSize + Extra)
LinuxLen == IF LastSector THEN LastPart ELSE SectorSize + Extra

\* Mutant: the sector before this one shows through.
ComposedOver == Memcpy(sbuf, 0, databuf, (sector - 1) * SectorSize, SectorSize)
\* datacmd, erased where nothing is put.
Composed ==
    LET empty == Const(FF, CwSize)
        data  == Memcpy(empty, 0, databuf, (sector - 1) * SectorSize, SectorSize)
        linux == Memcpy(empty, 0, databuf, LinuxFrom, LinuxLen)
    IN  CASE Wmode = "fs" -> data
          [] Wmode = "fi" -> Memcpy(data, SectorSize, oobuf, (sector - 1) * OobSize, OobSize)
          [] Wmode = "fy" -> IF LastSector THEN Memcpy(linux, LastPart, oobuf, 0, TagSize)
                                           ELSE linux
          [] Wmode \in {"fl", "fo"} -> linux

\* memwrite() of sectorsize + oobsize bytes, then the program command. A sector
\* that does not take its data stays empty.
WriteSector ==
    /\ pc = "write" /\ MoreSectors
    /\ sbuf' = Memcpy(sbuf, 0, Composed, 0, SectorSize + OobSize)
    /\ \E fault \in BOOLEAN :
         /\ fault => faults < MaxFaults
         /\ faults' = IF fault THEN faults + 1 ELSE faults
         /\ faulty' = (faulty \/ fault)
         /\ target' = IF fault THEN target
                      ELSE [target EXCEPT ![sector] = [i \in 1 .. UserSize |-> sbuf'[i]]]
    /\ sector' = sector + 1
    /\ UNCHANGED <<pc, pair, sflag, vflag, page, source, infile, earlier, srcbuf, databuf, oobuf,
                   membuf, reported, skipped>>

EndSectors ==
    /\ pc = "write" /\ ~MoreSectors
    /\ sector' = 1
    /\ pc' = IF vflag THEN "verify" ELSE "next"
    /\ UNCHANGED <<pair, sflag, vflag, page, source, infile, earlier, srcbuf, databuf, oobuf,
                   membuf, sbuf, target, faulty, faults, reported, skipped>>

\* What the verification loop compares in a sector.
ComparedIn(buf) ==
    IF Wmode = "fl"
    THEN \A i \in 1 .. LinuxLen : buf[i] = databuf[LinuxFrom + i]
    ELSE \A i \in 1 .. SectorSize : buf[i] = databuf[(sector - 1) * SectorSize + i]
\* Mutant: the sector read before this one is compared.
ComparedStale == ComparedIn(membuf)
Compared == ComparedIn(membuf')

VerifySector ==
    /\ pc = "verify" /\ MoreSectors
    /\ sbuf' = Memcpy(sbuf, 0, target[sector], 0, UserSize)
    /\ membuf' = Memcpy(membuf, 0, sbuf', 0, SectorSize + OobSize)
    /\ reported' = (reported \/ ~Compared)
    /\ sector' = sector + 1
    /\ UNCHANGED <<pc, pair, sflag, vflag, page, source, infile, earlier, srcbuf, databuf, oobuf,
                   target, faulty, faults, skipped>>

EndVerify ==
    /\ pc = "verify" /\ ~MoreSectors
    /\ pc' = "next"
    /\ UNCHANGED <<pair, sflag, vflag, page, source, infile, earlier, srcbuf, databuf, oobuf, membuf,
                   sector, sbuf, target, faulty, faults, reported, skipped>>

\* The next page goes through the same buffers. It may be in another block, whose
\* marker has been read into the sector buffer in between.
NextPage ==
    /\ pc = "next" /\ page + 1 < NumPages
    /\ page' = page + 1 /\ pc' = "dump" /\ sector' = 1
    /\ source' \in SourcePages /\ earlier' = infile
    /\ target' = [s \in 1 .. Spp |-> Const(FF, UserSize)]
    /\ faulty' = FALSE /\ reported' = FALSE /\ skipped' = FALSE
    /\ sbuf' \in {sbuf, Const(Unset, CwSize)}
    /\ UNCHANGED <<pair, sflag, vflag, infile, srcbuf, databuf, oobuf, membuf, faults>>

Finished == pc = "next" /\ page + 1 = NumPages /\ UNCHANGED vars

Next ==
    \/ DumpPage \/ ReadFile \/ SplitPage \/ WriteSector \/ EndSectors
    \/ VerifySector \/ EndVerify \/ NextPage \/ Finished
Spec == Init /\ [][Next]_vars

-----------------------------------------------------------------------------
(* Properties.                                                              *)

\* The offsets of a sector that the pair of modes carries over: -fo and -rl
\* know no tag, and what follows the tag in the last sector is nobody's. -fl
\* transfers no more than SectorSize bytes of a sector (qwdirect.c:273, 551).
Carried(s) ==
    CASE Wmode = "fs" -> SectorSize
      [] Wmode = "fi" -> CwSize
      [] Wmode = "fl" -> IF s = Spp THEN LastPart ELSE SectorSize
      [] Wmode = "fo" -> IF s = Spp THEN LastPart ELSE SectorSize + Extra
      [] Wmode = "fy" -> IF s = Spp THEN LastPart + TagSize ELSE SectorSize + Extra

\* Where byte i of sector s stands in the page of the file.
Place(s, i) ==
    CASE Wmode = "fs" -> (s - 1) * SectorSize + i
      [] Wmode = "fi" -> (s - 1) * CwSize + i
      [] Wmode = "fy" /\ s = Spp /\ i > LastPart -> PageSize + i - LastPart
      [] OTHER -> (s - 1) * (SectorSize + Extra) + i

\* What is to be written there: the byte that was read, and where the file has
\* ended FF within the first pagesize bytes, behind them the page before.
Given(s, i) ==
    IF Place(s, i) <= Len(infile) THEN source[s][i]
    ELSE IF Place(s, i) <= PageSize THEN FF
    ELSE earlier[Place(s, i)]

\* A page that is read and written back in formats that belong together holds
\* the same bytes at the same places of the same sectors. The buffers get into it
\* only where the file ends within it, and then with the page before it.
RoundTrip ==
    pc = "next" /\ ~faulty /\ ~skipped =>
        \A s \in 1 .. Spp : \A i \in 1 .. Carried(s) : target[s][i] = Given(s, i)

\* -s passes over a page only if its first pagesize bytes in the file are erased:
\* what it loses is a tag or the end of a raw page.
SkipsEmpty ==
    pc = "next" /\ skipped =>
        \A s \in 1 .. Spp : \A i \in 1 .. Carried(s) : Given(s, i) = FF \/ Place(s, i) > PageSize

\* Where nothing was put the page stays erased. Only -fl has the controller program
\* more than it gives it: behind SectorSize it gets what the sector buffer held, but
\* never a byte of this or another page of the file.
NoLeak ==
    pc = "next" =>
        \A s \in 1 .. Spp : \A i \in Carried(s) + 1 .. UserSize :
            target[s][i] = FF \/ (Wmode = "fl" /\ i > SectorSize /\ target[s][i] = Unset)

\* What is written is what was read and nothing else (qwdirect.c:390-403, 460-551).
PageExact == RoundTrip /\ SkipsEmpty /\ NoLeak

\* -v reports a page written with -fs or -fi exactly if its data differ from what was
\* to be written. With -fl it misses no difference; it also reports the bytes behind
\* SectorSize, which it has not read (qwdirect.c:578-594). For -fy and -fo it compares
\* other bytes, as its own comment says ("Currently not working!", qwdirect.c:600).
VerifyExact ==
    pc = "next" /\ vflag /\ ~skipped =>
        LET differs == \E s \in 1 .. Spp : \E i \in 1 .. Carried(s) :
                           i <= SectorSize /\ target[s][i] # Given(s, i)
        IN  /\ Wmode \in {"fs", "fi"} => (reported <=> differs)
            /\ Wmode = "fl" => (differs => reported)
=============================================================================
