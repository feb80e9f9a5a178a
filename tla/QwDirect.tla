------------------------------- MODULE QwDirect -------------------------------
(***************************************************************************)
(* qwdirect: writing a flash image through the registers of the NAND       *)
(* controller (qwdirect.c with check_block, block_erase, mark_bad and      *)
(* set_linux_format of qcio.c).                                            *)
(*                                                                         *)
(* One behaviour is a sequence of runs of the program against one modem.   *)
(* The flash, its bad-block markers and the controller registers persist   *)
(* from run to run, as they do while the loader stays in memory. A run may *)
(* be killed anywhere: between two actions, and inside an action that      *)
(* stands for several register writes or sectors, between those (Kill).    *)
(***************************************************************************)
EXTENDS Integers, SequencesExt

CONSTANTS
    MaxBlock,     \* maxblock: number of erase blocks of the flash
    Ppb,          \* ppb: pages per block
    Spp,          \* spp: sectors per page
    Files,        \* the input files, each a sequence of page kinds
    OptionSets,   \* the command lines
    MaxRuns       \* bound: runs of the program in one behaviour

\* What test_empty, test_badpattern and the marker byte tell apart in a page:
\* "mk" is a page of a raw dump that holds a bad-block marker.
PageKinds == {"data", "ff", "bb", "mk"}
UFlags    == {"ux", "us", "uc", "um", "ub"}
WModes    == {"standart", "linux", "yaffs", "image", "linout"}
LinuxModes == {"yaffs", "linout"} \* those that call set_linux_format()
ToEnd     == -1                   \* stopblock when -a is not given

\* start, stop, len, off, erase: the arguments of -b, -a, -l, -o and -c.
Options == [u: SUBSET UFlags, s: BOOLEAN, wmode: WModes, start: Nat,
            stop: Nat \cup {ToEnd}, len: Nat, off: Nat, erase: Nat]

ASSUME ConstantsAssumption ==
    /\ MaxBlock \in Nat \ {0} /\ Ppb \in Nat \ {0} /\ MaxRuns \in Nat \ {0}
    /\ Spp \in {2, 4, 8, 16}
    /\ Files \subseteq Seq(PageKinds) \ {<<>>}
    /\ OptionSets \subseteq Options

Blocks == 0 .. MaxBlock - 1
Pages  == 0 .. Ppb - 1

\* What a page of the flash holds: a positive value is the file page with
\* that number.
Old == -1
Partial == -2                     \* some sectors programmed
BadMark == -3                     \* the filler of write_badmark
Erased == 0
Cells == {Old, Partial, BadMark, Erased} \cup (Nat \ {0})

\* cw: CFG0.CW_PER_PAGE, one less than the sectors of a page that are programmed;
\* ud: the data size (CFG0.UD_SIZE_BYTES and, with BCH, ECC_CFG) is the device's
\* own, the Linux 516, or half of each after an interruption;
\* ecc: the engine is on (ECC_CFG and CFG1);
\* bad: CFG1 holds the marker position, so that reads report markers.
Regs == [cw: 0 .. 15, ud: {"dev", "516", "part"}, ecc: BOOLEAN, bad: BOOLEAN]
ResetRegs == [cw |-> Spp - 1, ud |-> "dev", ecc |-> TRUE, bad |-> TRUE]

Labels == {"args", "hello", "ecc", "open", "block", "page", "erase1",
           "erase2", "erase3", "mark1", "mark2", "mark3", "prog1", "prog2",
           "endpage", "done", "exit", "killed"}
Ended  == {"done", "exit", "killed"}

VARIABLES
    run,          \* number of runs started
    pc,           \* place in main()
    opt, file,    \* command line and input file of the run
    block, page, fpos, flen, badflag,   \* the locals of main(); fpos = pages read
    oldregs,      \* oldcfg of block_erase; cfg1bak, cfgeccbak of write_badmark
    saved,        \* cfg0bak, cfg1bak, cfgeccbak of main()
    regs,         \* the registers of the controller
    marked,       \* blocks whose bad-block marker is set
    cell,         \* contents of every page of the flash
    warned,       \* "the last block of the file will not be written", counted
    base          \* history: marked and cell when the run began

locals == <<opt, file, block, page, fpos, flen, badflag, oldregs, saved, warned>>
flash  == <<marked, cell>>
vars   == <<run, pc, locals, regs, flash, base>>

-----------------------------------------------------------------------------
(* Derived values of the code.                                             *)

Has(f) == f \in opt.u
AtMostOne(S) == Cardinality(opt.u \cap S) <= 1
Compatible ==
    /\ AtMostOne({"ux", "us", "uc", "um"})
    /\ AtMostOne({"ux", "ub", "um"})
    /\ AtMostOne({"ux", "ub"})
    /\ Has("ux") => opt.wmode = "image"

StopBlock == IF opt.stop = ToEnd THEN MaxBlock ELSE opt.stop
FileBlocks == (Len(file) - opt.off * Ppb + Ppb - 1) \div Ppb
WantedLen == IF opt.len = 0 THEN FileBlocks ELSE opt.len
CappedLen(n) == IF opt.start + n > StopBlock THEN StopBlock - opt.start ELSE n
\* With -c the count of blocks, otherwise flen, bounds the block loop.
EraseLen == CappedLen(opt.erase)

\* check_block(): the controller reports the marker only while the marker
\* position is programmed; otherwise the bits may read either way.
CheckBlock(b) == IF regs.bad THEN {b \in marked} ELSE BOOLEAN

Kind == file[fpos + 1]            \* the page the next fread() returns

-----------------------------------------------------------------------------
Init ==
    /\ run = 1 /\ pc = "args"
    /\ opt \in OptionSets /\ file \in Files
    /\ block = 0 /\ page = 0 /\ fpos = 0 /\ flen = 0 /\ badflag = FALSE
    /\ regs = ResetRegs /\ oldregs = ResetRegs /\ saved = ResetRegs
    /\ marked \in SUBSET Blocks
    /\ cell = [b \in Blocks |-> [p \in Pages |-> Old]]
    /\ warned = 0
    /\ base = [marked |-> marked, cell |-> cell]

\* The user starts the program again. The locals get their initial values.
StartRun ==
    /\ pc \in Ended /\ run < MaxRuns
    /\ run' = run + 1 /\ pc' = "args"
    /\ opt' \in OptionSets /\ file' \in Files
    /\ block' = 0 /\ page' = 0 /\ fpos' = 0 /\ flen' = 0 /\ badflag' = FALSE
    /\ oldregs' = ResetRegs /\ saved' = regs /\ warned' = 0
    /\ base' = [marked |-> marked, cell |-> cell]
    /\ UNCHANGED <<regs, flash>>

\* The option checks that precede any contact with the modem.
CheckArgs ==
    /\ pc = "args"
    /\ pc' = IF Compatible /\ (opt.stop = ToEnd \/ opt.start < opt.stop)
             THEN "hello" ELSE "exit"
    /\ UNCHANGED <<run, locals, regs, flash, base>>

\* get_flash_config() sets CW_PER_PAGE again if all its bits read as 0.
RepairedCw(c) == IF c = 0 THEN Spp - 1 ELSE c
\* hello(0), which repairs CFG0. Then the area is checked against the flash and
\* the registers are saved.
Hello ==
    /\ pc = "hello"
    /\ regs' = [regs EXCEPT !.cw = RepairedCw(@)]
    /\ IF opt.start > MaxBlock \/ StopBlock > MaxBlock
       THEN pc' = "exit" /\ UNCHANGED <<saved, block, flen>>
       ELSE /\ saved' = regs'
            /\ IF opt.erase > 0
               THEN pc' = "block" /\ block' = opt.start /\ flen' = EraseLen
               ELSE pc' = "ecc" /\ UNCHANGED <<block, flen>>
    /\ UNCHANGED <<run, opt, file, page, fpos, badflag, oldregs, warned, flash, base>>

\* ECC on-off.
SetEcc ==
    /\ pc = "ecc"
    /\ regs' = [regs EXCEPT !.ecc = (opt.wmode # "image")]
    /\ pc' = "open"
    /\ UNCHANGED <<run, locals, flash, base>>

\* The offset and the length are checked, the format is chosen
\* (set_linux_format) and the length is capped at the end of the area.
FileRefused == Len(file) <= opt.off * Ppb \/ opt.len > FileBlocks
OpenFile ==
    /\ pc = "open"
    /\ IF FileRefused
       THEN pc' = "exit" /\ UNCHANGED <<regs, fpos, flen, block>>
       ELSE /\ pc' = "block"
            /\ fpos' = opt.off * Ppb
            /\ flen' = CappedLen(WantedLen)
            /\ block' = opt.start
            /\ regs' = IF opt.wmode \in LinuxModes
                       THEN [regs EXCEPT !.ud = "516"] ELSE regs
    /\ UNCHANGED <<run, opt, file, page, badflag, oldregs, saved, warned, flash, base>>

-----------------------------------------------------------------------------
(* The block loop.                                                         *)

InArea == block < opt.start + flen

\* -c: erase a block unless it is bad.
EraseModeBlock ==
    /\ pc = "block" /\ opt.erase > 0
    /\ \/ ~InArea /\ pc' = "done" /\ UNCHANGED block
       \/ /\ InArea
          /\ \E bad \in IF Has("ub") THEN {FALSE} ELSE CheckBlock(block) :
               IF bad THEN block' = block + 1 /\ UNCHANGED pc
                      ELSE pc' = "erase1" /\ UNCHANGED block
    /\ UNCHANGED <<run, opt, file, page, fpos, flen, badflag, oldregs, saved,
                   regs, flash, warned, base>>

EndOfArea ==
    /\ pc = "block" /\ opt.erase = 0 /\ ~InArea
    /\ pc' = "endpage"
    /\ UNCHANGED <<run, locals, regs, flash, base>>

\* The block is checked for a defect unless -ux or -ub says otherwise.
SkipsBad(bad) == bad /\ ~Has("um") /\ ~Has("uc")
\* Mutants: the boundary is compared one block late, one block early.
LastBlockLate == opt.start + flen > StopBlock
LastBlockEarly == opt.start + flen = StopBlock - 1
LastBlockLost == opt.start + flen = StopBlock

\* Mutant: the end of the area is not moved when a block is skipped.
SkipBadBlockNoShift ==
    /\ pc = "block" /\ opt.erase = 0 /\ InArea
    /\ ~Has("ux") /\ ~Has("ub")
    /\ \E bad \in CheckBlock(block) : SkipsBad(bad)
    /\ badflag' = TRUE
    /\ block' = block + 1
    /\ UNCHANGED <<run, pc, opt, file, page, fpos, flen, oldregs, saved, regs, flash,
                   warned, base>>

SkipBadBlock ==
    /\ pc = "block" /\ opt.erase = 0 /\ InArea
    /\ ~Has("ux") /\ ~Has("ub")
    /\ \E bad \in CheckBlock(block) : SkipsBad(bad)
    /\ badflag' = TRUE
    /\ IF LastBlockLost THEN warned' = warned + 1 /\ UNCHANGED flen
                        ELSE flen' = flen + 1 /\ UNCHANGED warned
    /\ block' = block + 1
    /\ UNCHANGED <<run, pc, opt, file, page, fpos, oldregs, saved, regs, flash, base>>

\* erasesGood, erasesBad: whether a good, a bad block is erased.
EnterBlockIf(erasesGood, erasesBad) ==
    /\ pc = "block" /\ opt.erase = 0 /\ InArea
    /\ \E bad \in IF Has("ux") \/ Has("ub") THEN {FALSE} ELSE CheckBlock(block) :
         /\ ~SkipsBad(bad)
         /\ badflag' = bad
         /\ pc' = IF (bad /\ erasesBad) \/ (~bad /\ erasesGood) THEN "erase1" ELSE "page"
    /\ page' = 0
    /\ UNCHANGED <<run, opt, file, block, fpos, flen, oldregs, saved, regs, flash,
                   warned, base>>
\* Mutants: the block is erased whatever the check said; only if it is bad.
EnterBlockEraseAll == EnterBlockIf(TRUE, TRUE)
EnterBlockEraseBad == EnterBlockIf(FALSE, TRUE)
EnterBlock == EnterBlockIf(TRUE, Has("ub"))

-----------------------------------------------------------------------------
(* block_erase().                                                          *)

\* Mutant: the mask covers two bits.
EraseCwNarrow(c) == (c \div 4) * 4
\* The mask 0x1c0 covers the lower three of the four bits of the field.
EraseCw(c) == (c \div 8) * 8
EraseSetCfg ==
    /\ pc = "erase1"
    /\ oldregs' = regs
    /\ regs' = [regs EXCEPT !.cw = EraseCw(@)]
    /\ pc' = "erase2"
    /\ UNCHANGED <<run, opt, file, block, page, fpos, flen, badflag, saved, flash,
                   warned, base>>

\* Mutant: the erase runs one page past the block.
ErasedBlockLong == [p \in 0 .. Ppb |-> Erased]
ErasedBlock == [p \in Pages |-> Erased]
\* An erase takes the marker with it: unmark_bad() is nothing else.
EraseExec ==
    /\ pc = "erase2"
    /\ cell' = [cell EXCEPT ![block] = ErasedBlock]
    /\ marked' = marked \ {block}
    /\ pc' = "erase3"
    /\ UNCHANGED <<run, locals, regs, base>>

RestoreCfg0(old) == [regs EXCEPT !.cw = old.cw, !.ud = old.ud]
\* Mutant: after the erase the block loop starts over.
EraseRestoreLoops ==
    /\ pc = "erase3"
    /\ regs' = RestoreCfg0(oldregs)
    /\ pc' = "block"
    /\ UNCHANGED <<run, opt, file, block, page, fpos, flen, badflag, oldregs, saved,
                   flash, warned, base>>

EraseRestore ==
    /\ pc = "erase3"
    /\ regs' = RestoreCfg0(oldregs)
    /\ IF opt.erase > 0 THEN pc' = "block" /\ block' = block + 1
                        ELSE pc' = "page" /\ UNCHANGED block
    /\ UNCHANGED <<run, opt, file, page, fpos, flen, badflag, oldregs, saved, flash,
                   warned, base>>

-----------------------------------------------------------------------------
(* The page loop. Each branch of the code after fread() is an action.      *)

MorePages == pc = "page" /\ page < Ppb
\* Mutant: -us is not looked at.
BadPageAlways == Kind = "bb"
BadPage   == Kind = "bb" /\ ~Has("us")
EmptyPage == opt.s /\ Kind = "ff"

EndOfBlock ==
    /\ pc = "page" /\ page = Ppb
    /\ pc' = "block" /\ block' = block + 1
    /\ UNCHANGED <<run, opt, file, page, fpos, flen, badflag, oldregs, saved, regs,
                   flash, warned, base>>

EndOfFile ==
    /\ MorePages /\ fpos >= Len(file)
    /\ pc' = "endpage"
    /\ UNCHANGED <<run, locals, regs, flash, base>>

\* -s and an empty page, or a page of the bad-block filler that asks for
\* nothing on the flash.
SkipPageIf(noaction) ==
    /\ MorePages /\ fpos < Len(file)
    /\ \/ EmptyPage
       \/ BadPage /\ badflag
       \/ BadPage /\ noaction
       \/ BadPage /\ Has("uc") /\ page > 0
    /\ fpos' = fpos + 1 /\ page' = page + 1
    /\ UNCHANGED <<run, pc, opt, file, block, flen, badflag, oldregs, saved, regs,
                   flash, warned, base>>
\* Mutant: a defect of the file is skipped under -um.
SkipPageUm == SkipPageIf(~Has("uc"))
SkipPage == SkipPageIf(~Has("um") /\ ~Has("uc"))

\* -uc: the first page of the block asks for a bad block.
SimulateBadIf(asked) ==
    /\ MorePages /\ fpos < Len(file)
    /\ BadPage /\ ~badflag /\ asked /\ page = 0
    /\ fpos' = fpos + 1
    /\ \E bad \in CheckBlock(block) :      \* mark_bad() checks again
         IF bad THEN pc' = "page" /\ page' = page + 1
                ELSE pc' = "mark1" /\ UNCHANGED page
    /\ UNCHANGED <<run, opt, file, block, flen, badflag, oldregs, saved, regs, flash,
                   warned, base>>
\* Mutant: a defect of the file is reproduced without -uc.
SimulateBadUnasked == SimulateBadIf(TRUE)
SimulateBad == SimulateBadIf(Has("uc"))

\* The defects of the file and of the flash disagree: return.
Mismatch ==
    /\ MorePages /\ fpos < Len(file) /\ ~EmptyPage
    /\ \/ BadPage /\ ~badflag /\ Has("um")
       \/ ~BadPage /\ badflag
    /\ fpos' = fpos + 1
    /\ pc' = "exit"
    /\ UNCHANGED <<run, opt, file, block, page, flen, badflag, oldregs, saved, regs,
                   flash, warned, base>>

TakePageIf(usable) ==
    /\ MorePages /\ fpos < Len(file) /\ ~EmptyPage
    /\ ~BadPage /\ usable
    /\ fpos' = fpos + 1
    /\ pc' = "prog1"
    /\ UNCHANGED <<run, opt, file, block, page, flen, badflag, oldregs, saved, regs,
                   flash, warned, base>>
\* Mutant: an unexpected defect of the flash does not stop the page.
TakePageBad == TakePageIf(TRUE)
TakePage == TakePageIf(~badflag)

-----------------------------------------------------------------------------
(* write_badmark() and the sector loop.                                    *)

MarkSetCfg ==
    /\ pc = "mark1"
    /\ oldregs' = regs
    /\ regs' = [regs EXCEPT !.ecc = FALSE, !.bad = FALSE]
    /\ pc' = "mark2"
    /\ UNCHANGED <<run, opt, file, block, page, fpos, flen, badflag, saved, flash,
                   warned, base>>

MarkWrite ==
    /\ pc = "mark2"
    /\ cell' = [cell EXCEPT ![block][0] = BadMark]
    /\ marked' = marked \cup {block}
    /\ pc' = "mark3"
    /\ UNCHANGED <<run, locals, regs, base>>

RestoreCfg1(old) == [regs EXCEPT !.ecc = old.ecc, !.bad = old.bad]
MarkRestore ==
    /\ pc = "mark3"
    /\ regs' = RestoreCfg1(oldregs)
    /\ pc' = "page" /\ page' = page + 1
    /\ UNCHANGED <<run, opt, file, block, fpos, flen, badflag, oldregs, saved, flash,
                   warned, base>>

\* The sectors go out one by one; -ux lifts the marker control around each.
ProgramSectors ==
    /\ pc = "prog1"
    /\ cell' = [cell EXCEPT ![block][page] = Partial]
    /\ regs' = IF Has("ux") THEN [regs EXCEPT !.bad = FALSE] ELSE regs
    /\ pc' = "prog2"
    /\ UNCHANGED <<run, locals, marked, base>>

\* Without marker control a raw page may carry a marker of its own.
MarkedAfterPage == IF Has("ux") /\ page = 0 /\ file[fpos] = "mk"
                   THEN marked \cup {block} ELSE marked
\* The last sector is programmed.
ProgramDone ==
    /\ pc = "prog2"
    /\ cell' = [cell EXCEPT ![block][page] = fpos]
    /\ marked' = MarkedAfterPage
    /\ regs' = IF Has("ux") THEN [regs EXCEPT !.bad = TRUE] ELSE regs
    /\ pc' = "page" /\ page' = page + 1
    /\ UNCHANGED <<run, opt, file, block, fpos, flen, badflag, oldregs, saved, warned, base>>

-----------------------------------------------------------------------------
\* endpage: the registers get back what the run found.
\* Mutant: the ECC switch is not among the registers restored.
RestoreRegsNoEcc ==
    /\ pc = "endpage"
    /\ regs' = [saved EXCEPT !.ecc = regs.ecc]
    /\ pc' = "done"
    /\ UNCHANGED <<run, locals, flash, base>>

RestoreRegs ==
    /\ pc = "endpage"
    /\ regs' = saved
    /\ pc' = "done"
    /\ UNCHANGED <<run, locals, flash, base>>

\* What the registers hold between the writes that one action stands for: the two
\* of set_linux_format(), those around the marker sectors, those around a sector
\* under -ux, the three at endpage (CFG0, CFG1, ECC_CFG).
HalfWay(ud) == IF regs.ud = ud THEN ud ELSE "part"
CutRegs ==
    CASE pc = "open" /\ opt.wmode \in LinuxModes /\ ~FileRefused ->
            {[regs EXCEPT !.ud = HalfWay("516")]}
      [] pc = "mark1" -> {[regs EXCEPT !.ecc = FALSE]}
      [] pc = "mark3" -> {[regs EXCEPT !.bad = b] : b \in {TRUE, oldregs.bad}}
      [] pc \in {"prog1", "prog2"} /\ Has("ux") -> {[regs EXCEPT !.bad = b] : b \in BOOLEAN}
      [] pc = "endpage" ->
            {[regs EXCEPT !.cw = saved.cw, !.ud = HalfWay(saved.ud)]}
            \cup {[saved EXCEPT !.ud = HalfWay(saved.ud), !.ecc = e] :
                    e \in {regs.ecc, regs.ecc /\ saved.ecc}}
      [] OTHER -> {}

\* What the flash holds between the sectors of a marker, and when the last sector
\* of a page is through but the marker control is still lifted.
CutFlash ==
    CASE pc = "mark2" ->
            {[marked |-> marked, cell |-> [cell EXCEPT ![block][0] = Partial]]}
      [] pc = "prog2" ->
            {[marked |-> MarkedAfterPage, cell |-> [cell EXCEPT ![block][page] = fpos]]}
      [] OTHER -> {}

\* The user, or a link that stopped answering, ends the run.
Kill ==
    /\ pc \notin Ended
    /\ pc' = "killed"
    /\ regs' \in {regs} \cup CutRegs
    /\ \E f \in {[marked |-> marked, cell |-> cell]} \cup CutFlash :
         marked' = f.marked /\ cell' = f.cell
    /\ UNCHANGED <<run, locals, base>>

Finished == pc \in Ended /\ run = MaxRuns /\ UNCHANGED vars

Step ==
    \/ CheckArgs \/ Hello \/ SetEcc \/ OpenFile
    \/ EraseModeBlock \/ EndOfArea \/ SkipBadBlock \/ EnterBlock
    \/ EraseSetCfg \/ EraseExec \/ EraseRestore
    \/ EndOfBlock \/ EndOfFile \/ SkipPage \/ SimulateBad \/ Mismatch \/ TakePage
    \/ MarkSetCfg \/ MarkWrite \/ MarkRestore \/ ProgramSectors \/ ProgramDone
    \/ RestoreRegs

Next == StartRun \/ Step \/ Kill \/ Finished

\* The program takes its next step as long as the modem answers; nothing
\* forces a start or a kill.
Spec == Init /\ [][Next]_vars /\ WF_vars(Step)

-----------------------------------------------------------------------------
(* Properties.                                                              *)

TypeOK ==
    /\ run \in 1 .. MaxRuns /\ pc \in Labels
    /\ opt \in Options /\ file \in Seq(PageKinds)
    /\ block \in Nat /\ page \in 0 .. Ppb /\ fpos \in Nat
    /\ flen \in Int /\ badflag \in BOOLEAN /\ warned \in Nat
    /\ oldregs \in Regs /\ saved \in Regs /\ regs \in Regs
    /\ marked \in SUBSET Blocks
    /\ cell \in [Blocks -> [Pages -> Cells]]
    /\ base \in [marked: SUBSET Blocks, cell: [Blocks -> [Pages -> Cells]]]

Area == opt.start .. StopBlock - 1
PlainMode == opt.u \subseteq {"us"} /\ opt.erase = 0
\* The run found the marker position programmed, so its checks can be trusted.
Trusted == saved.bad

\* The file page that lands on page p of block b when r file blocks precede it.
FilePage(r, p) == (opt.off + r) * Ppb + p + 1
Wanted(k) == IF k > Len(file) \/ (file[k] = "bb" /\ ~Has("us"))
                              \/ (opt.s /\ file[k] = "ff")
             THEN Erased ELSE k
GoodBelow(b) == {g \in opt.start .. b - 1 : g \notin base.marked}
Rank(b) == Cardinality(GoodBelow(b))

\* The run never touches a block outside [startblock, stopblock), neither its
\* pages nor its marker, whatever flen grows to and whatever the mode.
InsideArea ==
    \A b \in Blocks \ Area :
        cell[b] = base.cell[b] /\ (b \in marked <=> b \in base.marked)

\* A marker found on the flash is not erased unless -ub or -ux asks for it:
\* the block that is erased is the one check_block() just found good.
MarksSurvive ==
    [][~Has("ub") /\ ~Has("ux") /\ Trusted => marked \subseteq marked']_vars

\* A new marker comes from -uc and a bad-block page at the head of the file
\* block that belongs there, or from a raw page written under -ux.
MarksJustified ==
    \A b \in marked \ base.marked :
        \/ Has("ux")
        \/ Has("uc") /\ file[FilePage(b - opt.start, 0)] = "bb"

\* NAND pages are programmed only after an erase and only once.
ProgramErased ==
    /\ pc = "prog1" => cell[block][page] = Erased
    /\ pc = "mark2" => cell[block][0] = Erased

\* While sectors go out the controller has the format of the write mode: ECC as
\* the mode wants it, the data size of the mode (the Linux modes set theirs, the
\* others keep what the run found), and whole pages. Neither an erase nor a
\* simulated defect before them leaves its settings behind, and a killed erase of
\* an earlier run is repaired. The one exception are flashes with 16 sectors per
\* page: there the mask of block_erase() leaves the top bit of the field, hello()
\* does not see a 0, and from then on nine sectors make a page.
WholePage(c) == c = Spp - 1 \/ (Spp = 16 /\ c = EraseCw(Spp - 1))
ProgramFormat ==
    pc = "prog1" =>
        /\ WholePage(regs.cw) /\ regs.cw = saved.cw
        /\ regs.ecc = (opt.wmode # "image")
        /\ regs.ud = IF opt.wmode \in LinuxModes THEN "516" ELSE saved.ud

\* A run that reaches its end gives the registers back as it found them, with
\* what a killed erase had left in CFG0 repaired.
RegsRestored == pc = "done" => regs = saved /\ WholePage(regs.cw)

\* Without -ux, -uc, -um and -ub the file blocks stand in the good blocks of
\* the area in their order, and defective blocks are left alone.
InOrder ==
    PlainMode /\ Trusted /\ pc \notin {"args", "hello", "ecc", "open", "exit", "killed"} =>
        /\ \A b \in opt.start .. block - 1 :
             IF b \in base.marked
             THEN cell[b] = base.cell[b]
             ELSE \A p \in Pages : cell[b][p] = Wanted(FilePage(Rank(b), p))
        /\ pc \in {"page", "prog1", "prog2", "endpage", "done"} /\ InArea =>
             \A p \in Pages :
                 cell[block][p] = IF p < page THEN Wanted(FilePage(Rank(block), p))
                                  ELSE IF p = page /\ pc = "prog2" THEN Partial
                                  ELSE Erased

\* Every block of the file is accounted for at the end: it stands in a good block,
\* or a warning was given for it, or it is one of those that a file longer than
\* the area loses at once and without a word (the cap of the length before the
\* loop). Nothing is lost while a block of the area has not been visited.
CutSilently == LET over == opt.start + WantedLen - StopBlock IN IF over > 0 THEN over ELSE 0
LossAccounted ==
    PlainMode /\ Trusted /\ pc = "done" =>
        LET lost == WantedLen - Rank(opt.start + flen)
        IN  /\ lost = warned + CutSilently
            /\ lost > 0 => opt.start + flen = StopBlock

\* -uc: after a complete run exactly the blocks whose file block begins with
\* the bad-block filler are marked.
DefectsSimulated ==
    pc = "done" /\ Trusted /\ Has("uc") /\ ~opt.s /\ opt.erase = 0 =>
        \A b \in opt.start .. opt.start + flen - 1 :
            b \in marked <=> file[FilePage(b - opt.start, 0)] = "bb"

\* -um: a run that ends normally has found bad blocks in the same places of
\* the file and of the flash, and has written nothing to them.
DefectsAgree(b) == b \in base.marked <=> file[FilePage(b - opt.start, 0)] = "bb"
ConsistencyChecked ==
    pc = "done" /\ Trusted /\ Has("um") /\ ~opt.s /\ opt.erase = 0 =>
        \A b \in opt.start .. opt.start + flen - 1 :
            DefectsAgree(b) /\ (b \in base.marked => cell[b] = base.cell[b])

\* Defects of the file and of the flash come out the way -uc and -um promise (qwdirect.c:406-450).
DefectsMatched == DefectsSimulated /\ ConsistencyChecked

\* A dump made by qrflash fills the whole of a bad block.
FilledBlocks ==
    \A k, l \in 1 .. Len(file) :
        (k - 1) \div Ppb = (l - 1) \div Ppb => (file[k] = "bb" <=> file[l] = "bb")

\* No page is programmed into a block whose marker is set, be it an old one
\* or one this run has just made, except where -ub or -ux asks for it.
NoProgramIntoBad ==
    pc = "prog1" /\ Trusted /\ FilledBlocks /\ ~Has("ux") => block \notin marked

\* Every run ends, although the end of the block loop moves while it runs.
RunEnds == pc = "args" ~> pc \in Ended

(* The promise of a plain run, as ImagePlacement states it. A block is     *)
(* placed when it has all the file has for it. The promise speaks of the   *)
(* image that is left when the length has been capped at the end of the    *)
(* area (qwdirect.c:364), which happens without a word: LossAccounted.     *)
FirstGood(b) == {g \in opt.start .. b - 1 : g \notin marked}
Reached == IF InArea /\ page < Ppb /\ FilePage(Rank(block), page) > Len(file)
           THEN block + 1 ELSE block
\* The elements of S by size: the i-th is the one with i - 1 below it.
Ordered(S) ==
    [i \in 1 .. Cardinality(S) |->
        CHOOSE b \in {c \in S : Cardinality({d \in S : d < c}) = i - 1} : TRUE]
P == INSTANCE ImagePlacement WITH
        area   <- Area,
        bad    <- marked,
        size   <- CappedLen(WantedLen),
        placed <- Ordered(FirstGood(Reached)),
        state  <- IF pc \notin Ended THEN "copying"
                  ELSE IF pc = "done" THEN "complete" ELSE "aborted"
PlacementSpec == P!Spec

(* What the code does not keep.                                            *)

\* No run removes a marker, whatever runs came before it, unless -ub or -ux asks
\* for it: hello() says of a controller without a marker position that it has been
\* configured (qcio.c:407), but the position goes into the program's own variables
\* and not into CFG1, so the checks of the run read nothing.
MarksProtected == [][~Has("ub") /\ ~Has("ux") => marked \subseteq marked']_vars

\* The registers that were saved are given back however the run ends by itself.
RegsRestoredAtExit == pc \in {"done", "exit"} => regs = saved
=============================================================================
