------------------------------ MODULE FlashCopy ------------------------------
(***************************************************************************)
(* A backup and its restoration: qrflash reads a range of blocks into a    *)
(* file, then qwdirect writes that file to a flash, the same one after it  *)
(* has grown new defects or another one. The two programs meet only in the *)
(* file, whose pages qwdirect classifies by their look (test_badpattern),  *)
(* and in the registers of the controller.                                 *)
(***************************************************************************)
EXTENDS QwDirect

CONSTANTS
    Contents,     \* what the flash that is read may hold
    ReadOptions,  \* command lines of qrflash, in raw mode
    Pairs,        \* which command lines of the two programs go together
    StartRegs     \* what earlier runs may have left in the registers

VARIABLES
    rpc, ropt, rpart, rblock, rpage, rbuf, rout, roldcfg0, content, rtrusted,
    phase,        \* "read", then "write"
    source        \* history: the markers of the flash that was read

R == INSTANCE QrFlash WITH
        Table <- <<>>, Width <- 2 * MaxBlock + 1, OptionSets <- ReadOptions,
        MaxRuns <- 1, MaxFaults <- 0, faults <- 0, run <- 1,
        pc <- rpc, opt <- ropt, part <- rpart, block <- rblock, page <- rpage,
        buf <- rbuf, out <- rout, oldcfg0 <- roldcfg0, trusted <- rtrusted

\* The copy may follow on runs that were killed, as long as they left the marker
\* position in CFG1: CW_PER_PAGE may be what an erase leaves, the data size and the
\* ECC switch anything.
\* qrflash reads a range of the flash, and the file goes back to where it came
\* from: whole, and into an area that does not end before the range.
ASSUME CopyAssumption ==
    /\ Contents \subseteq [Blocks -> [Pages -> {"data", "ff"}]]
    /\ ReadOptions \subseteq R!Options
    /\ \A o \in ReadOptions : o.map = "none" /\ o.start + o.len <= MaxBlock
    /\ StartRegs \subseteq {r \in Regs : r.bad /\ r.cw \in {Spp - 1, EraseCw(Spp - 1)}}
    /\ Pairs \subseteq ReadOptions \X OptionSets
    /\ \A rw \in Pairs :
         /\ rw[2].start = rw[1].start
         /\ rw[2].off = 0 /\ rw[2].len = 0 /\ rw[2].erase = 0
         /\ \/ rw[2].stop = ToEnd
            \/ rw[2].stop >= IF rw[1].len = 0 THEN MaxBlock ELSE rw[1].start + rw[1].len

rvars == <<rpc, ropt, rpart, rblock, rpage, rbuf, rout, roldcfg0, content, rtrusted>>
cvars == <<vars, rvars, phase, source>>

Dump == rout[0]
\* What a page of the file looks like to qwdirect.
Look(item) == IF item.kind = "nul" THEN "data" ELSE item.kind

InitCopy ==
    /\ phase = "read"
    /\ regs \in StartRegs /\ roldcfg0 = ResetRegs
    /\ content \in Contents /\ marked \in SUBSET Blocks /\ source = marked
    /\ R!InitRun
    /\ run = 1 /\ pc = "args" /\ opt \in OptionSets /\ file \in Files
    /\ block = 0 /\ page = 0 /\ fpos = 0 /\ flen = 0 /\ badflag = FALSE
    /\ oldregs = ResetRegs /\ saved = ResetRegs /\ warned = 0
    /\ cell = [b \in Blocks |-> [p \in Pages |-> Old]]
    /\ base = [marked |-> marked, cell |-> cell]
    /\ <<ropt, opt>> \in Pairs

Read ==
    /\ phase = "read" /\ R!Step
    /\ UNCHANGED <<run, pc, locals, cell, base, phase, source>>

\* The dump is complete and becomes the input file. The flash it is written
\* to has its own defects.
Handover ==
    /\ phase = "read" /\ rpc = "done" /\ Dump # <<>>
    /\ phase' = "write"
    /\ file' = [n \in DOMAIN Dump |-> Look(Dump[n])]
    /\ marked' \in SUBSET Blocks
    /\ base' = [marked |-> marked', cell |-> cell]
    /\ saved' = regs
    /\ UNCHANGED <<run, pc, opt, block, page, fpos, flen, badflag, oldregs, warned,
                   regs, cell, rvars, source>>

Write == phase = "write" /\ Step /\ UNCHANGED <<rvars, phase, source>>

CopyEnds ==
    /\ \/ phase = "read" /\ rpc \in R!Ended /\ (rpc = "done" => Dump = <<>>)
       \/ phase = "write" /\ pc \in Ended
    /\ UNCHANGED cvars

NextCopy == Read \/ Handover \/ Write \/ CopyEnds
CopySpec == InitCopy /\ [][NextCopy]_cvars /\ WF_cvars(Read \/ Handover \/ Write)

-----------------------------------------------------------------------------
(* Properties. All of them are about a copy whose both halves ended.       *)

Complete == phase = "write" /\ pc = "done"
Range0 == ropt.start .. R!End - 1
\* The number of good blocks of the range below b0.
GoodPlace(b0) == Cardinality({g \in ropt.start .. b0 - 1 : g \notin source})

\* Page p of block b of the second flash holds what block b0 of the first
\* held there; an empty page may stand for itself when -s was given.
Holds(b, p, b0) ==
    \/ cell[b][p] > 0 /\ Dump[cell[b][p]].b = b0 /\ Dump[cell[b][p]].p = p
    \/ cell[b][p] = Erased /\ opt.s /\ content[b0][p] = "ff"

\* Defects left out at reading and stepped over at writing (qrflash -us, then
\* qwdirect without a mode): the good blocks of the second flash hold the good
\* blocks of the first one, in their order and without a gap, all but as many of
\* the last ones as were reported lost.
LogicalCopy ==
    Complete /\ R!Mode = "skip" /\ PlainMode =>
        \A b0 \in Range0 \ source :
            GoodPlace(b0) + warned < Cardinality(Range0 \ source) =>
                \E b \in Area \ base.marked :
                    /\ Rank(b) = GoodPlace(b0)
                    /\ \A p \in Pages : Holds(b, p, b0)

\* Defects kept in the file and reproduced (qrflash -uf, then qwdirect -uc), or
\* compared (-um): every good block stands where it stood, and the two flashes
\* have their markers in the same places.
PositionalCopy ==
    Complete /\ R!Mode = "fill" /\ (Has("uc") \/ Has("um")) /\ ~opt.s =>
        \A b \in Range0 :
            /\ b \in marked <=> b \in source
            /\ b \notin source => \A p \in Pages : Holds(b, p, b)

\* Raw pages with the markers in them (qrflash -ux, then qwdirect -ux): the
\* second flash becomes a clone of the first one, markers included.
RawClone ==
    Complete /\ R!Mode = "disable" /\ Has("ux") =>
        \A b \in Range0 :
            /\ b \in marked <=> b \in source
            /\ \A p \in Pages : Holds(b, p, b)

\* The three pairs of modes that carry a flash over do so (qrflash.c:43-93, qwdirect.c:364-513).
CopyExact == LogicalCopy /\ PositionalCopy /\ RawClone

\* Whatever the modes, a page of a good block is somewhere on the second flash
\* unless the user was warned of a loss. (-s makes -uc and -um blind to a defect
\* opposite an empty block, which then is not erased.)
NothingMissing ==
    Complete /\ warned = 0 /\ (opt.s => PlainMode) =>
        \A b0 \in Range0 \ source, p \in Pages :
            \E b \in Area : Holds(b, p, b0)
=============================================================================
