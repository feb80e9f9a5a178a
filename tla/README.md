# Formal models of qtools

qtools is a set of host programs that read and write the NAND flash of modems
with Qualcomm chipsets. All of them are sequential C programs that talk over a
serial port to something that remembers: a boot ROM, a patched loader in the
modem's memory, the NAND controller whose registers the loader pokes, the flash
behind it, or the diagnostic port of the running modem. What goes wrong in such
programs is not a race between threads but a long conversation: a reply that is
lost, late or stale, a run that stops half way and leaves state behind for the
next one, a bad block that shifts everything after it.

## The system

| Part | Source | State | Operations | Talks to |
|---|---|---|---|---|
| Link layer | hdlc.c | the port, unread input | send_cmd, send_cmd_massdata, receive_reply, escape and CRC of frames | serial port |
| Memory access | memio.c | none | memread (20 tries per 1000 bytes), mempeek, memwrite, mempoke | link layer, loader command 11 |
| NAND controller layer | qcio.c | badposition, bch_mode, spp, ppb, maxblock, oobsize; registers in the modem | hello, get_flash_config, nand_reset, setaddr, flash_read, block_erase, check_block, mark_bad, unmark_bad, hardware_bad_on/off, set_udsize and its kin, bch_reset | memory access |
| Direct writer | qwdirect.c | locals of main | erase mode; write loop with bad-block modes -us -uc -um -ub -ux, skipping of empty pages, verification | NAND controller layer, image file |
| Flash reader | qrflash.c | block buffer, error list | raw blocks or partitions, standard, 516-byte and YAFFS formats, bad-block modes | NAND controller layer, ptable.c |
| Bad-block tool, flash parameters | qbadblock.c, qflashparm.c | defect list | list, mark, unmark, ECC scan; sizes and marker position in the registers | NAND controller layer |
| Partition table | ptable.c, mibibsplit.c | fptable | load from flash or file, lookups, listing | NAND controller layer |
| Loader session | qwflash.c | - | security mode, table, partition header, data packets, close | loader commands 03, 07, 0b, 15, 17, 19, 1b |
| Loader download | qdload.c, sahara.c | - | PBL download protocol 06/07/0f/05, Sahara, hello | boot ROM |
| EFS access | efsio.c, qefs.c | efs_errno, altflag | stat, opendir, readdir, open, read, write, close, mkdir, rmdir, unlink, factory image; trees, lists, backup | diagnostic port |
| NVRAM access | qnvram.c | - | read, dump, write, write all, IMEI | diagnostic port |
| Chipset table | chipconfig.c, chipset.cfg | chipset list, chip_type | load, define, set, queries | - |
| Terminals and viewers | qcommand.c, qterminal.c, qrmem.c, qident.c, qblinfo.c | - | interactive commands, memory and flash dumps | link layer, NAND controller layer |

The programs share state only through the modem: the loader stays in memory
from one program to the next, and with it the controller registers and the
state of its commands.

### What is hard in each part, and what makes it correct

* **Direct writer.** The write loop advances two positions, the block on the
  flash and the page in the file, that bad blocks, simulated bad blocks, empty
  pages and the end of the file move apart; it moves its own end while it
  runs. Correct: the file blocks stand in the good blocks in order, nothing
  outside the area is touched, a marker is never erased nor a page programmed
  twice unless the user asks, and the registers a run changes it gives back.
* **Controller layer.** Operations temporarily change shared registers
  (CW_PER_PAGE for an erase, ECC and marker position for a marker) and must
  put back what the caller had. A run may stop in between.
* **Memory access and link.** A reply may be missing, short, or the rest of an
  older one. Correct: what is returned as data came from the reply to this
  command; a failure is reported to the caller.
* **Loader download and session.** A request is lost or its answer is; the
  counters of the two sides must not drift apart, and "loaded" or "written"
  must mean what it says.
* **NVRAM access.** An answer is accepted by its length alone. Correct: a file
  holds the item it is named for, "OK" means that the modem has it.
* **EFS access.** Directory and file handles live in the modem; a tree is
  walked with them while calls fail. Correct: handles are released, walks end, a
  listing shows what was asked for, once and in order, a copy is whole.
* **Flash reader.** The file it writes must be what the writer expects: bad
  blocks filled or skipped, 516-byte sectors regrouped.

## The modules

| Module | Models | Uses |
|---|---|---|
| `QwDirect` | qwdirect.c: a run from its options to its end, several runs in a row | - |
| `ImagePlacement` | what a plain run promises (abstract) | - |
| `QwDirectProofs` | theorems about `QwDirect`; it implements `ImagePlacement` | QwDirect, CountingLemmas |
| `QrFlashProofs`, `PageFormatProofs`, `MemIoProofs`, `EfsProofs`, `SessionProofs` | theorems about these modules | the module named |
| `CountingLemmas` | numbers, sets of numbers, sequences | - |
| `QrFlash` | qrflash.c with the partition table as it uses it | - |
| `FlashCopy` | qrflash, then qwdirect with its file | QwDirect, QrFlash |
| `FlashCopyProofs` | theorems about the two programs together | FlashCopy, QwDirectProofs |
| `PageFormat` | the bytes of a page through both programs | - |
| `MemIo` | memio.c over hdlc.c, nandwait, sector reads | - |
| `Efs` | efsio.c and qefs.c | - |
| `Modem`, `Line` | boot ROM and loader in the modem (external); commands and answers that are lost or late | - |
| `Loading` | qdload.c, sahara.c | Line |
| `Writing` | qwflash.c, qclose() | Line |
| `Session` | programs of both kinds one after the other, kills, power cycles | Loading, Writing |
| `NandRegs` | the fields of CFG0, CFG1 and ECC_CFG, bit by bit | - |
| `Chipsets` | chipconfig.c: the table and the choice of a chipset | - |
| `Tools` | qbadblock.c, qflashparm.c, with hello() and what it calls | NandRegs, Chipsets |
| `Frames` | crc16, escaping, framing of hdlc.c | - |
| `Nvram` | qnvram.c over a line that loses bytes | Frames |
| `MC...` | instances for TLC: command lines, images, trees, tables | the module named |

### State and actions against the code

**QwDirect.** `pc` names the place in main(): option checks (`args`), the checks
after hello (`hello`), the ECC switch, opening of the file, the head of the block
loop (`block`), the page loop (`page`), and the steps of an erase (`erase1..3`),
of a marker (`mark1..3`) and of a page (`prog1`, `prog2`). `block`, `page`,
`flen` and `badflag` are the locals, `fpos` is the position in the file counted
in pages. `regs` abstracts CFG0, CFG1 and ECC_CFG to what the
operations tell apart: the field CW_PER_PAGE as a number (`cw`, all four bits, since the mask of
block_erase covers only three of them and hello repairs the field only when it reads 0), the data size of a
sector (`ud`: the device's own, 516, or half of each, as it stands in two registers), ECC, marker
control; `oldregs` is what block_erase and write_badmark keep, `saved` what main keeps. A page of the image is data, empty (`ff`), bad-block
filler (`bb`) or a raw page with a marker (`mk`); a page of the flash is old,
erased, half programmed, or holds page n of the file. `CheckBlock` answers either
way if the marker position is not programmed in the register. Where an action stands
for several register writes or sectors (set_linux_format, write_badmark, the marker control around each sector
of -ux, the three registers at endpage), what lies between them matters to nobody but a later run, and
`Kill` leaves those states behind: `CutRegs` and `CutFlash` name them for each place, so that a run may be killed
between any two of the writes. Within the sectors of a page `Partial` stands for any number of them.
`StartRun` begins the next run with the registers and the flash as they are.

**QrFlash.** The same style: `LoadTable`, `NextPart` and the block loop, with
load_block split into the check, the register changes and the pages. The output
files are sequences of items that remember where they were read. A page whose
memread fails is a page of fillers (`eb`). 32-bit sums are taken modulo `Width`.

**FlashCopy.** Steps of `QrFlash` (INSTANCE, with its variables renamed where
the programs have the same names), a handover that turns the file into the input
of qwdirect and lets the defects of the second flash be anything, then steps of
`QwDirect`. The registers pass from one program to the other, and `StartRegs` are those the first
one finds: what the loader sets up, or what runs that were killed have left, as long as the marker position is in CFG1.
Neither program is killed within the copy; its properties are about copies that are complete. `LogicalCopy` counts: with g good
blocks before a block of the first flash, it is found in the good block of the second area that has g good
blocks before it.

**PageFormat.** Every byte of a page is followed through the buffers of both
programs, which keep what earlier pages left in them; the sizes are scaled
(6 bytes per sector for 512, one extra for 4, 3 sectors for 4). The file may end anywhere within its last page, as
-t of qrflash leaves it: fread then returns fewer bytes, and behind the first pagesize bytes, which are
cleared, srcbuf keeps the page before (`earlier`). `Place` says where a byte of a sector stands in the file, `Given` what is to be
written there.

**MemIo.** A reply travels byte by byte in pieces of any size; the device may answer with an
error, or go away at any byte. A byte that is escaped on the line is one element, and a device that goes away may leave the
first half of one (`Esc`), behind which receive_reply takes a byte from past the end of what it has received
(`Unescaped`). The loader may refuse any of the pokes that begin a sector read, which memwrite does not notice: the controller then
stays as it is or works on another place (`Poke`, `refused`). `raw` is the buffer of receive_reply, `iobuf` that
of memread, which keeps the bytes of earlier chunks. A sector read is the poke of
the command, the poll and the read of the buffer in chunks.

**Efs.** The modem's tree, its directory handles and descriptors survive the run.
`stack` holds the activations of show_tree or show_files. A request is answered
or not; without an answer it may still have been carried out. Names are nodes of
a tree, file contents are numbered blocks, a dump is a sequence of pages. The
path of an entry is only kept as far as it is right or wrong: show_tree and the
short list put name and directory together without a slash between them.

**Session.** `Line` is send_cmd_base() taken apart: a command is written after the
unread input is flushed (`Send`), then its answer is read or the wait runs out
(`Take`, `RunOut`). `air` holds the answers that are on their way; the flush drops
what has arrived, so an answer can also come after it and be taken for that of the
next command. `late` records that a flush has left an answer or that a wait ran out with its answer on the way;
an answer left behind by a program that was stopped counts, too. `iobuf` and `iolen` are the reply buffer and its length; where the code
declares a new buffer its contents are arbitrary, and `blind` records that such a
value was taken for an answer. `pc` names the command at hand, `blk`, `adr` and `k` are
the loop variables. The modem's own counters are in `modem`. `Loading` and `Writing` extend `Line` and share its variables,
the command line `opts` among them. The histories
`claimed` and `reported` remember the messages that the loader is loaded and that a
partition is written.

**Tools.** A run is a sequence `todo` of operations: one write of a register with
the read it depends on, one exchange, or reads of the flash that change nothing. A
procedure of qcio.c is the sequence of its operations in the order of the code, so that a kill
or a lost write can come between any two of them. `reg` holds the three registers
as numbers, `bak` what the code keeps in locals, `prog` the globals of qcio.c, `at`
the block in the address registers. What check_block() reports follows from the
marker position in CFG1, the number of codewords in CFG0 and the contents of the first page.

**Nvram.** Frames are sequences of bytes, sent and taken apart by the operators of
`Frames`; `Replies` is a set, since a 7D at the end of a frame takes whatever byte the buffer holds behind it. `text` is the build for Windows,
which opens the files in text mode: `TextOut` and `TextIn` are what fwrite and fread then do to line ends and to 1A; the modem uses a standard of its own (`RefFrame`, `RefBody`), computed from the
polynomial. `air` are frames on the line, `files` the directory nv/, `source` what each file
was taken from.

## The runs

| Run | Properties | Shows |
|---|---|---|
| `qwdirect_plain` | TypeOK, InsideArea, InOrder, LossAccounted, PlacementSpec, RunEnds | all defect sets on 4 blocks of 2 pages, eight images, areas, -b, -o, -l, -s, -us: blocks stand in order in the good blocks, nothing outside the area changes, every block that finds no place was warned about or is one of those the file is longer than the area by (`CutSilently`), ImagePlacement is implemented, the run ends |
| `qwdirect_runs` | MarksJustified, DefectsMatched, NoProgramIntoBad, MarksSurvive, RegsRestored, ProgramErased, ProgramFormat | two runs in a row of -uc, -um, -ub, -ux, the erase mode and the Linux format, each killed or left anywhere, between the writes of one action too: where markers appear and vanish, what a complete -uc or -um run has established, format of the controller while sectors go out, registers at the end |
| `qwdirect_exit` | RegsRestoredAtExit (violated) | the first finding below |
| `qwdirect_marks` | MarksProtected (violated) | the second finding below |
| `qrflash` | FilesExact, NothingLost, MarkerControlBack | two runs, all bad-block modes, raw and partitions, a failing sector read: every page of a file is the right one in its place |
| `flash_copy` | CopyExact, NothingMissing | which pairs of modes of the two programs carry over the contents, the places or the markers |
| `page_format` | PageExact, VerifyExact | three pages one after the other through the same buffers, the last of which may be short, every pair of formats that belongs together, and -fl, which carries 512 bytes per sector and programs 516 |
| `mem_io` | SectorRight, SectorsRead | two sectors of four bytes in chunks of three, three faults out of refused pokes, error replies and a device that goes away at any byte, between the halves of an escaped one too |
| `efs` | ListingExact, HandlesKept, CopiesExact, RunEnds | two runs of every command but -tt and -td, one lost answer, kills and an unplugged modem |
| `session` | TypeOK, LoaderReported, WrittenIsThere, SessionEnds | two programs and power cycles, two losses or delays: what "loaded" and "write completed" are worth, with the ways out that the code leaves named in the property; every program ends |
| `tools` | TypeOK, ReportTrue, ListExact, RegistersRight, NamedBlockOnly | two runs of the tools on four kinds of modem, killed anywhere, two lost writes or answers: lists and messages are true, registers come back bit by bit, no other block changes |
| `nvram` | TypeOK, FrameStandard, BackupTrue, RestoreTrue, ImeiValid | two runs, one frame lost or late or one byte lost: commands are standard frames, files and "OK" are true with two ways out, also where the files are in text mode, the check digit completes Luhn's sum |

Several properties are conjunctions of named parts, each commented at its place:
`DefectsMatched` of `DefectsSimulated` (-uc) and `ConsistencyChecked` (-um), `FilesExact`
of `FilesTruthful` and `PagesInPlace`, `CopyExact` of `LogicalCopy`, `PositionalCopy` and
`RawClone`, `PageExact` of `RoundTrip`, `SkipsEmpty` and `NoLeak`, `SectorRight` of `SectorTruthful` and
`ReadsWhenReady`, `HandlesKept` of `HandlesReturned` and `LeaksBounded`, `CopiesExact` of
`CopyExact` and `PutExact`, `RegistersRight` of `RegsKept` and `ChipsetRight`.

### Bounds and why they are enough

* Flash: 3 or 4 blocks of 1 or 2 pages. With 4 blocks there are defects before,
  inside and behind the image, at both ends of the area, and an image that does not
  fit; with 2 pages a block can be entered in the middle and left in the middle.
* Images: the lists in `MCQwDirect` have whole, short, empty and filler blocks and
  files that end within a block.
* Sectors per page: 8, the largest size that the mask of block_erase covers. The theorems are about 2, 4, 8
  and 16; with 16 the field keeps a bit, which `ProgramFormat` names.
* Runs: two for registers (one that changes them and is killed, one that saves and works with
  what it finds), two for the reader and for EFS.
* Link: a sector of four bytes in chunks of three has a full and a short chunk; a register has three bytes, so that
  its status is not among the last two of its answer;
  two tries instead of twenty have a retry and a last failure; three faults can
  use up the tries of one chunk and begin another. `Hdr`, `Trl`, `Slack` are scaled
  so that a reply can be short by fewer bytes than memread tolerates
  (`Slack < Hdr + Trl`); an error reply is not longer than `Slack`, since memread
  tells replies apart by their length.
* EFS: a tree three levels deep with two directory handles, so that a recursive
  short list runs out of them and a tree does not; three descriptors, so that a
  leaked one is seen; the handles that are closed at the start are more than there are.
* Session: a loader of two blocks, packets of two bytes; files of one packet and a part,
  of whole packets, and empty ones, two partitions. Two faults allow a lost answer and a
  late one in the same run, or one in each of two runs.
* Tools: chips of two and four blocks with 4, 8 and 16 sectors per page, Reed-Solomon and BCH,
  a marker in the data and in the spare area, registers as an old loader leaves them. Two
  runs: one that is killed and one that works with what it left. Two faults: hello() gives
  up only after two. The registers are cut at 30 bits, since the checker's integers have 32;
  no field of the code lies above.
* Nvram: items of 12 bytes instead of 128, the smallest that hold an IMEI and have two words
  to trim; two neighbouring items, 549 and 550 (hexadecimal 225 and 226), with bytes that need escapes in data and attribute.
* `nfile` is cut at `LastNumber` (`Cardinality(Nodes) + MaxFails`), behind every entry there can be.

### Fairness

Each program is one thread and each request has an answer or an error return, so
`WF_vars(Step)` says that it goes on while nobody stops it; `Kill` and `Unplug` are
never forced. In `MemIo` the line delivers what the device has sent and the
controller becomes ready (`WF` of `Deliver` and `GetReady`). No liveness is claimed where
the code waits without a limit: `SectorsRead` is about links without a fault, and
`RunEnds` of `Efs` excuses a modem that is gone.
In `Session`, `WF_vars(Step)` includes that a wait for an answer runs out, which is so in
the build for Windows and with VMIN = 0 (see the assumptions).
`mem_io`, `tools` and `nvram` run without the deadlock check: in `mem_io` an error reply that
the first read takes whole leaves the Linux build waiting for ever; in the other two the
operator has no further command after the last run.

## What is proved

A run shows a property on a small instance; a theorem shows it for every value of the
constants: every size of the flash, of a page and its sectors, image, command line, packet size, number of runs and
faults that the assumptions of the module allow. Every property of the runs of `QwDirect`, `QrFlash`, `FlashCopy`, `PageFormat`,
`MemIo`, `Efs` and `Session` but the liveness is a theorem.

| Module | Theorem | States |
|---|---|---|
| `QwDirectProofs` | `TypeCorrect` | `TypeOK`, and the loops stay within area and block (`Bounds`) |
| | `Safety` | the inductive invariant `Safe` |
| | `StaysInsideArea` | `InsideArea` |
| | `ProgramsErasedPages` | `ProgramErased` |
| | `RestoresRegisters` | `RegsRestored` |
| | `ProtectsMarks` | `MarksSurvive`, of every step |
| | `PlainRunInOrder` | `InOrder` |
| | `LossIsAccounted` | `LossAccounted` |
| | `ModesInvariant` | the inductive invariant `Modes` |
| | `KeepsProgramFormat` | `ProgramFormat`, whatever runs came before and wherever they were killed; with 16 sectors per page a page may have nine |
| | `JustifiesMarks` | `MarksJustified` |
| | `MatchesDefects` | `DefectsMatched` |
| | `SparesBadBlocks` | `NoProgramIntoBad` |
| | `ImplementsPlacement` | `PlacementSpec`: every step places the next block of what the cap of line 364 has left, announces a loss or stutters |
| `QrFlashProofs` | `ReaderInvariant` | the inductive invariant `Inv` |
| | `FilesAreExact` | `FilesExact` |
| | `TrimLosesNothing` | `NothingLost` |
| | `MarkerControlReturns` | `MarkerControlBack` |
| `FlashCopyProofs` | `CopiesExactly` | `CopyExact`: the three pairs of modes that carry a flash over do so, from every state of the registers in `StartRegs` |
| | `LosesNothing` | `NothingMissing`, whatever the modes |
| `PageFormatProofs` | `PagesAreExact` | `PageExact`, short last pages included: what of the page before gets into them is named |
| | `VerificationIsExact` | `VerifyExact`: -fs and -fi, and of -fl that no difference is missed |
| `MemIoProofs` | `LinkInvariant` | the inductive invariant `Inv` |
| | `SectorsAreRight` | `SectorRight`, of the build for Linux, up to the last two bytes of a chunk cut off by a device that goes away, and to refused pokes |
| `EfsProofs` | `HandlesAreKept` | `HandlesKept` |
| | `CopiesAreExact` | `CopiesExact` |
| | `ListingIsExact` | `ListingExact` |
| `SessionProofs` | `SessionTypes` | `TypeOK` |
| | `LoadedIsLoaded` | `LoaderReported` |
| | `WrittenIsWritten` | `WrittenIsThere`, where the line never holds two answers |
| | `WrittenUnlessLate` | `WrittenIsThere`, where nothing has come late, on any line |

`CountingLemmas` holds what several of them need of numbers and sequences: an induction over
subsets of Nat (`NatSetInduction`; the induction theorems of the library take an operator, which
the provers cannot instantiate), greatest and least elements of a bounded set, quotient and
remainder, and what Append does.

### What the theorems assume

* `ConstantsAssumption` of QwDirect: at least one block, page and run; 2, 4, 8 or 16 sectors per page; images are sequences of page
  kinds; command lines have the form of `Options`.
* `ConstantsAssumption` of QrFlash: no partition reaches past the flash, and only the last one grows
  (its start is then not 0). The word in which the code adds is more than twice the flash. What a read past
  the flash delivers is not modelled.
* `CopyAssumption` of FlashCopy: the pages of the first flash hold data or are empty; qrflash reads blocks (no partitions) within the flash; the marker position is in CFG1 at the start (`StartRegs`);
  qwdirect is given the whole file, writes from the block where reading began, not in the erase mode, and may go at
  least as far as the reading went, so that the cap of qwdirect.c:364 does not cut the file. The first program finds the marker position in
  CFG1; CW_PER_PAGE may be what a killed erase leaves, the data size and the ECC switch anything. Anything else about the two command lines, the modes that do not belong together included, is open.
* `ConstantsAssumption` of PageFormat: the last sector of a Linux page holds something (`LastPart > 0`, 500 bytes
  in the code where a page has four sectors), and the tag fits into what the 4 extra bytes of the sectors give up and into the spare
  area. The formats of the two programs are those that belong together: others are read and written, too, but they
  cut a page where the next one begins, and no property of the run is about them.
* `ConstantsAssumption` of MemIo: `Hdr <= Slack + 1` says that memread() asks for all of the data (5 and 4 in
  the code); `Slack < Hdr + Trl`, that not all of the reply is asked for; an error reply is not
  longer than `Slack`, since memread() tells replies apart by their length; `Word > 2`, that the status is not among the last two bytes
  of the answer that carries it, which are those a device that goes away can spoil.
* `ConstantsAssumption` of Efs: the tree has a root, and what exists stands in a directory; the handles
  that main() closes at its start are not fewer than those of the modem.
* `OrderAssumption` of Efs: `Order` lists the finite tree from the top, each directory with all that is in it before
  its next neighbour. The order of neighbours is open, so that every order in which a modem may number the entries of its
  directories can be written in this way.
* `SessionAssumption`: command lines have the form of `Options`, and qwflash has a file to write.
  `ModemAssumption`, `LineAssumption`, `WritingAssumption`: a loader of at least one block, a
  packet of at least one byte.
* `ImplementsPlacement` is about plain runs: `PlainOnly` says that one run is made, with no -u but -us and
  not in the erase mode. The abstract specification knows nothing of markers that a run makes or passes
  over, and nothing of a run after another.
* `WrittenIsWritten` is about behaviours in which the line never holds more than one answer (`Narrow`),
  `WrittenUnlessLate` about those in which no answer has come after its wait or past a flush (`~late`): losses,
  stopped programs and what Sahara leaves on the line are all allowed there. Without either `WrittenIsThere` is false,
  if only after a long row of programs that are stopped after their command: what they have left, answers to a secure mode,
  a close, a header, a packet and a close, in this order and all of them past every flush, confirms to a last program
  what it has not done. A search with TLC that follows this order finds it with five programs, four of them stopped, and
  seventeen losses and delays; the bounds of the run `session` are far below. One stray answer does no harm:
  the next command is awaited with another code, and where it is accepted for the same command it leaves
  an empty line behind.

### The inductive invariants and why they are needed

**QwDirect, safety.** `InsideArea` does not follow from itself: that the erased block lies
in the area needs `opt.start + flen <= StopBlock`, which line 364 establishes and
line 375 keeps (`Bounds`). That an erase removes no marker needs that the check
before it can be trusted, hence that no marker operation leaves the marker
position out of the register (`ChecksReliable`, `EraseAllowed`). `ProgramErased` needs
that the pages ahead of the loop are erased (`PagesClean`), through the three
steps of an erase and of a marker. The field CW_PER_PAGE takes two values only, all sectors or what the mask
of the erase leaves of them, and hello() turns the second into the first unless a bit is left (`CwKept`). These make up `Safe`.

**QwDirect, order.** The position in the file must be tied to the block:
`InStep` says `fpos + 1 = FilePage(Rank(block), page)`, where `Rank(b)` counts the
good blocks of the area before b; `Counted` says that the loop's end has moved by
one for every bad block passed, except for those it has warned about:
`flen + warned + Rank(block) = CappedLen(WantedLen) + (block - start)`, and that a warning means the end of the area; what
`CappedLen` takes away is `CutSilently`, the part of the loss of which the user hears nothing. `Copied` says that
what lies behind is complete and the block in hand is complete up to the page.
The lemmas `RankStart`, `RankStep` and `RankFrame` are the facts about counting,
`LastFileBlock` the one about the division of the file into blocks.

**QwDirect, modes.** A sector goes out in the right format because the operations that change the
registers on the way remember the format (`FormatKept`, of `regs` and `oldregs` by the place in erase and marker
operations). -uc and -um pass over no block, so the two positions move together (`InPlace`); only then
is the page in hand that of the block in hand, and the markers follow the file as far as the run has
come (`MarksFollow`). That no page goes into a bad block takes the block in hand's marker back to its first page
(`MarksExplained`): what -uc marks is filled with filler to its end in a dump, and filler is passed over.

**Refinement.** The abstract copy is a function of the good blocks reached (`Reached`) and their order. It takes that
a block is given up only when the area is used up and that a block is entered at its first page
(`Settled`), that the set of reached blocks grows by one block greater than all before it
(`OrderedAppend`, `RanksExtend`), and that a file block is complete in the step in which the writer
leaves it, or is placed empty in the step that passes over it.

**QrFlash.** A page of a file is right because the page of the block buffer was (`Buffered`), and it stands in its place
because the file has as many pages as the blocks passed (`Filled`), with a block check in between that
can be trusted while the marker control is on (`MarksRead`, `Checked`). `Kept` carries a page that holds data from its block
into the file and through -t, which cuts the trailing pages only. The sums of partition start and length do not wrap
(`WordRemainder`).

**FlashCopy.** While qrflash is at work, `Reading` says that the file has the pages of the blocks passed, each where `Place` counts
it (the number of good blocks before it with -us, the distance from the start otherwise), that the block buffer holds the pages
read of the block in hand, and that the marker control is off only while -ux reads pages: the next program finds it on;
and that CW_PER_PAGE is still one of its two values (`ReaderCw`).
While qwdirect is at work, `Writing` says that its input is what the dump looks like, and adds three facts to
the invariants of `QwDirect`: where no block is passed over, what lies behind is laid where the file has it (`Laid`); with -ux
the markers behind are those of the raw pages (`Cloned`); the end is not before the start (`PastStart`). At the end
`Laid` or `Copied` takes a page of the second flash to a page of the file, and `Dumped` this one to the first flash. The facts
about the reader are proved again for the renamed variables: the provers do not take over theorems of a
module through INSTANCE.

**PageFormat.** The page in hand is, one after the other, in the file, in the buffer it was read into, in the two buffers it
is taken apart into (`Carries`, with the place of every byte of every sector in each format), and in the sectors that are
written. `Placed` says that each sector is right, or still blank with a reason: it is not its turn, it did not take its
data, or -s has passed over the page (`Passed`). `Leftover` is what srcbuf holds behind the first pagesize bytes: the page before,
which is a whole one, since only the last page of the file is short. `Residue` says that the part of the sector buffer that -fl programs without having
filled it has never held a byte of a page. `Found` ties what -v has reported to the sectors it has compared. The facts about
places are those of pieces of equal length one behind the other (`Position`).

**MemIo.** The reply in its three places, received, waiting and under way, is one answer cut in
three (`Carries`), complete unless the device is gone, and with its marker as the last byte only. If the device is gone, the last byte that has come may
be the first half of an escaped one (`Comes`). With that a reply which is long
enough is the data asked for but for its last two bytes. `Silent` and `Awaited` tie the status to the controller: a status byte that
says ready, and is not one of the last two, was sent by a controller that held the sector asked for or had been refused a poke.

**Efs, handles.** As long as all requests were answered, the directory handles that are open are those of the place in
the program (`HandlesHeld`): those not yet closed at the start, that of the directory in hand, and in the short list
one for each activation below it (`Held`, `Below`). The other listings hold one at most, since show_tree closes its directory
before it enters the next one. For the descriptors it takes one more fact: a program that has got past
the close of descriptor 1 with that descriptor open has lost an answer on the way (`Crowded`), which pays for
the descriptor that is then opened above it (`FdsCounted`).

**Efs, contents.** `Shapes` says which of the buffers hold blocks and how many; `Got`, that the buffer is the beginning of the file as long
as the block number goes; `Dumped`, the same of the pages; `Stored`, that the file of the modem has the blocks of the local one
up to the one in hand if all requests were answered, and behind it only blocks it had before.

**Efs, listings.** That nothing is shown twice needs the place of the walk in the tree (`Walk`, which holds whatever requests fail).
The activations are those of a directory and the directories above it, up to that of the command line
(`Chain`), and an open handle stands for the directory of its activation (`Opened`). What has been printed of a directory in
hand has a number already read (`Passed`), and of what still waits to be entered nothing was printed (`Ahead`,
`Queued`). So an entry that is read is new. In the trees and the short list all that was printed stands before all
that is still to be read (`Ordered`). That nothing is left out takes a second invariant, `Complete`, for the runs that promise it:
the directories in hand were printed as far as they were read (`Thorough`), and a directory that was printed and no longer waits was printed
with all it holds (`Settled`). At the end nothing waits, so that all is printed of the directory of the command line and of
every directory that is printed (`Whole`). If an object asked for were missing, the first one in `Order` would
stand in such a directory. `HandleFree` says that the modem has a handle for the next directory: show_tree holds none then,
and the short list holds one for each level above. The proofs have one lemma for each move of a walk (`Stays`, `Opens`, `Skips`, `Reads`,
`GoesInto`, `GoesDown`, `GoesOn`, `GoesBack`) and part of the invariant, instead of one for each action and command. The numbers of
the entries are counted by place (`Number`), and the nodes above one are the least set that holds its directory and with each node
its own (`Above`); both are defined without recursion, so that the provers can expand them.

**Session, loading.** With the download protocol `Confirmed` says that the blocks counted are in the memory, and that the line holds
at most the answer to the block in hand; this needs that no answer comes late, which is the way out of
the property. With Sahara no answer matches a command by its code, and the invariant is about the order of the messages: a
hello comes before all others, the first part of a split message before everything (`InTurn`), the modem's last
message is the last on the line (`WhenUnderway`), and a modem that has been given a wrong piece can no longer be
brought to say that the image is good to a program that goes on (`Given`, `WhenFailed`).

**Session, writing.** No answer to an earlier header is left when a header is written (`Opening`), the partition
holds the file up to the packet in hand, and a confirmation on the line means the packet too (`Filling`);
the close is confirmed by a modem that has no stream open (`Closing`). What is written stays, since only a header or a packet of
an open stream changes a partition (`Standing`). Two conditions on the line carry these through: `Narrow`, which `WrittenIsWritten` assumes,
or the invariant `Alone`: as long as nothing is late, every flush has emptied the line, and it holds at most
the answer to the command that waits.

### Only model-checked

All liveness (`RunEnds` of QwDirect and Efs, `SectorsRead`, `SessionEnds`): fairness is out of the prover's
reach. The properties of Tools and Nvram: the registers of NandRegs are built with bitwise operators, and the frames of
Frames with those, recursive functions and folds over the bytes of a message, whose results need an
induction over data that the provers cannot make. Their type invariants rest on the same operators.

## What the checks found

`qwdirect_exit`: the returns at 321, 331, 430 and 450 of qwdirect.c skip the
restoration of the registers.

`qwdirect_marks`: get_flash_config() finds no marker position in CFG1 and says that it "has been auto-configured"
(qcio.c:404-407), but it sets its own variables only; CFG1 is written for one family of chips alone (425). check_block()
reads no markers then. A -ux run that is killed while the marker control is lifted (qwdirect.c:556-561)
leaves CFG1 so, and the next run, which asks for nothing of the kind, erases a marked block. The
properties about markers are therefore stated for runs that found the marker position programmed (`Trusted`).

### Observed while modelling, without a run

* A file longer than the area is cut at the end of the area without a word (qwdirect.c:364), while a block that bad
  blocks push out of it is warned about (376). `LossAccounted` counts both, `CutSilently` names the first.
* -s passes over a page of FF bytes before -um can notice that the flash has a
  defect there (qwdirect.c:399 before 448); test_empty looks at the first pagesize bytes only, so a
  page with nothing but a tag, and with -fi one with something behind them, is passed over, too (3-9; `SkipsEmpty`).
* "Fill the buffer with FF for reading incomplete pages" (qwdirect.c:393) fills pagesize bytes of a page that is longer
  with -fi and -fy: where the file ends within its last page, the spare bytes written are those of the page before. `RoundTrip`
  says so through `Given`.
* After -fy and -fo, -v compares sectors of 516 bytes in steps of 512 (602); a
  comment at 600 says of -fo "Currently not working!". `VerifyExact` is stated for -fs and -fi, and for -fl as far as
  no difference is missed: there -v compares 516 bytes of which 512 were read (578-594), and may report a page that is right.
* After a -fo or -fy run that was killed, a run that uses -fs finds sectors of 516 bytes, keeps them, and writes so (`ProgramFormat`:
  the other modes keep the size the run found).
* A raw-mode run of qrflash with -e leaves ECC disabled (513); -t gives an empty
  file one byte (634).
* memwrite always returns 1, so that the checks at qwdirect.c:551 and
  qcommand.c:270 never fail (memio.c:107). A poke that the loader refuses goes unnoticed, and the sector that is then read may be another
  one; `SectorTruthful` says so through `refused`.
* memread accepts a reply that is one byte short (78), and receive_reply takes, behind a 7D at the end of what it has
  received, a byte from past it (hdlc.c:161-165): a device that goes away in the last bytes of an answer spoils the last two bytes of a
  chunk, and the sector counts as read. `SectorTruthful` allows these two and no other.
* Under Linux VMIN = 1 makes VTIME an interval between bytes (hdlc.c:280): a
  reply that is lost altogether is waited for without a limit. nandwait has
  no limit either, and never ends when the device is gone.
* The mask 0x1c0 of block_erase clears three bits of CW_PER_PAGE in CFG0; the field that get_flash_config
  repairs has four (qcio.c:485, against 380-382, where it must read 0). With 16 sectors per page one bit stays, an erase that is killed is never repaired, and
  the runs after it write nine sectors to a page. `ProgramFormat` and `RegsRestored` name this case.
* The help of qrflash says "-f n - read only the partition with number n" (278); the
  option stores 1 in partnumber whatever n is (367), and line 538 compares that 1 with the
  number of partitions: a table of one partition is refused, a number the table does not have reads nothing.
* load_ptable_file leaves the length FFFFFFFF of a growing partition (ptable.c:63), the
  sum at qrflash.c:576 wraps and the file stays empty; from the flash the length is resolved.
* -fl composes 516 bytes per sector (qwdirect.c:505) and transfers 512 (551).
* hello() returns after two failures like after a success (qcio.c:157): the tools go on with
  no sectors per page, and a mark that has written nothing is reported as set.
* A run killed while it marks a block leaves marker position 0 in CFG1 (qcio.c:607);
  the next one calculates the position for itself (406) but does not program it, so check_block()
  reads anything: -u may erase a good block.
* ecc_scan uses its file before it checks that it could be opened (qbadblock.c:71), and leaves the
  ECC engine on for the programs after it (78).
* set_udsize and its kin do not mask the size: one too large for its field changes the next
  field (qcio.c:668). The command lines of `MCTools` give sizes that fit, as `RegsKept` needs.
* get_nvitem does not compare the item number of the answer (qnvram.c:33), and receive_reply does
  not check the CRC (hdlc.c:154): a late answer shifts all items after it by one, and the loss of an
  escape byte changes the byte behind it unnoticed. The build for Windows opens the files of the items in text mode (102, 142, 166): a saved line feed becomes
  two bytes, and a file with a 1A in it ends there, is too short, and is passed over by -wi and -wa. write_imei writes a wrong check digit if the user
  declines the correction (222). -z leaves an older file of an empty item in place (100).
* dload_sahara takes an end of image that arrives in two parts for one with status 0 or not, as the buffer
  has it; a packet nobody asked for is answered as a request (sahara.c:71).
* The answer buffers of secure_mode, send_ptable, send_head and qclose are not initialized
  (qwflash.c:32): without an answer the test looks at what the stack held.
* show_tree and the short list join a directory given without a final slash and
  the names in it without one (qefs.c:229, 303), so that its subdirectories cannot be
  opened; `ListingExact` is stated with the slash. A recursive short
  list holds a handle per level, and a tree deeper than the modem has handles is
  cut short with a message only.
* write_file looks for an existing file only under the path it was given, not in
  a directory given instead, and opens without truncation (qefs.c:413-437); it
  ignores what efs_write returns (448) and reports success.
* readfile does not look at an error of efs_stat and uses the size as it is (363-373).
* efs_write puts up to 520 bytes into a command buffer of 200 (efsio.c:41, 47);
  in the model the program may stop there.
* qdload: the check at 267 looks at a buffer that still holds the answer before.
  qwflash: the progress line divides by the size of the file (270), an empty file ends the program there. qrmem: the
  last piece gets the length of the whole area (92). qbadblock: block 0 cannot
  be named (244, 255).

## Assumptions of the models

* In MemIo and Efs the loader answers a request once and in order, and no bytes of an older answer arrive
  after the flush (hdlc.c:98); late answers are the subject of Session and Nvram. In the build for Linux, which MemIo models,
  nothing is asked again while its answer is still on the way: reads of the port have no timeout there, so every answer has been read to its
  end, or the device has gone, when the next command is sent.
* In Session and Nvram a wait for an answer runs out, as in the build for Windows and with VMIN = 0. With
  VMIN = 1 (Linux) a program whose answer is lost waits instead, which reaches a subset of the states.
  The flush may drop any number of the oldest answers, so that it also covers the second receive of show_errpacket().
* The boot ROM acknowledges a block it has stored, the loader a packet it has put into the stream of the open
  partition; a loader with a hole does not answer. An offset that Sahara asks for is not mistaken for a message code.
* In QwDirect and QrFlash the loader answers: hello() succeeds, and a register write or a read of a register is carried out
  (a read of a flash sector by qrflash may fail). Lost writes and a hello that fails are the subject of Tools and MemIo.
* In Tools the chipset named with -k is that of the modem or unknown; a modem that has not been greeted does not answer
  the applets, and what the buffer of identify_chipset() holds then is no signature; a read of a register succeeds
  within its 20 tries (memio.c:75); nandwait ends. The two bytes of a 16-bit marker are one. One page stands for the 64 of a block in
  the ECC scan.
* In Nvram a modem that confirms a write with a full answer has written, and fills a shorter command with zeros; the bytes of a
  frame come without a gap longer than the timeout, unless one is lost.
* Factory markers and markers of the tools look alike; the fill byte bb never
  fills 512 bytes of real data (test_badpattern cannot tell it from filler).
* The options of qrflash stay within the flash (`ConstantsAssumption`).
* In Efs the modem gives the lowest free handle, reads and writes whole blocks, accepts
  writes on a file opened with O_CREAT alone, and answers a request on a handle that is not
  open as at the end of a directory.

## Not modelled

The port settings, the display of
tables and maps, the terminals, the memory dump, the identification tools, mibibsplit, the loaders and the
assembler stubs, the scripts: they keep no state that another step could find changed. hello() with its configuration
after a download (that of Tools is the same code), find_chipset() and -t of qdload. The wait of nandwait() for a
device that has gone: MemIo has the state, there is no promise to check. A growing partition from a file and the option -f n
of qrflash: QrFlash models them, its properties leave them out (see above). The list of read errors of qrflash is only printed; it
overruns when a block has more than 1000 failing sectors (qrflash.c:32, 79).

## The plan from here

The parts with state are modelled, and every safety property of a run is a theorem except for those of Tools and Nvram.
What could still be added:

1. In Tools, the parts of `ReportTrue` and `ListExact` that are about the order of the operations and not about the fields of a
   register, over a module in which the registers are records of fields, with `NandRegs` shown to implement it by TLC.
2. In Nvram, `BackupTrue` and `RestoreTrue` over frames taken as they are, with `FrameStandard` left to TLC.
3. The tables of the chipset and the partitions read from files, for the options that the properties leave out.
