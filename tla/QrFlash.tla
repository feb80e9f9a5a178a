------------------------------- MODULE QrFlash -------------------------------
(***************************************************************************)
(* qrflash: reading a range of blocks, or partitions, of the flash into    *)
(* files (qrflash.c with check_block and hardware_bad_on/off of qcio.c and *)
(* the table of ptable.c).                                                 *)
(*                                                                         *)
(* One behaviour is a sequence of runs against one modem. The registers of *)
(* the controller persist from run to run; a run may be killed anywhere.   *)
(***************************************************************************)
EXTENDS Integers, SequencesExt

CONSTANTS
    MaxBlock,     \* maxblock: number of erase blocks of the flash
    Ppb,          \* ppb: pages per block
    Spp,          \* spp: sectors per page
    Contents,     \* what the flash may hold: functions Blocks -> Pages -> kind
    Table,        \* fptable.part: a sequence of [start, len]
    Width,        \* the size of a machine word; Width - 1 is FFFFFFFF
    OptionSets,   \* the command lines
    MaxRuns,      \* bound: runs of the program in one behaviour
    MaxFaults     \* bound: sectors the link fails to deliver

Blocks == 0 .. MaxBlock - 1
Pages  == 0 .. Ppb - 1
Grow   == Width - 1               \* the partition extends to the end of the flash

\* u: -u; e: -e; x: -x; t: -t; map: -s, the source of the partition table, or
\* "none" for raw reading of [start, start + len); list: -m; parts: -f, where
\* the empty set stands for *.
Options == [u: {"undef", "fill", "skip", "ignore", "disable"},
            e: BOOLEAN, x: BOOLEAN, t: BOOLEAN, list: BOOLEAN,
            map: {"none", "flash", "file"}, parts: SUBSET Nat,
            start: Nat, len: Nat]

\* Only the last partition grows, and no partition reaches past the flash: what
\* a read delivers there is not modelled.
ASSUME ConstantsAssumption ==
    /\ MaxBlock \in Nat \ {0} /\ Ppb \in Nat \ {0} /\ Spp \in {2, 4, 8, 16}
    /\ MaxRuns \in Nat \ {0} /\ MaxFaults \in Nat
    /\ Width \in Nat /\ Width > 2 * MaxBlock
    /\ Contents \subseteq [Blocks -> [Pages -> {"data", "ff"}]]
    /\ Table \in Seq([start: Blocks, len: 0 .. Width - 1])
    /\ \A i \in 1 .. Len(Table) :
         \/ Table[i].start + Table[i].len <= MaxBlock
         \/ i = Len(Table) /\ Table[i].len = Grow /\ Table[i].start > 0
    /\ OptionSets \subseteq Options
    /\ \A o \in OptionSets : o.start + o.len <= MaxBlock

\* A page of an output file is a record: kind, what it looks like, and b, p, where it was read.
\*   bb: the filler of a bad block     eb: the filler of a failed memread()
\*   mk: raw data with the marker      nul: bytes that come from no page

\* cw, ud, ecc, bad: as in QwDirect.
Regs == [cw: 0 .. 15, ud: {"dev", "516", "part"}, ecc: BOOLEAN, bad: BOOLEAN]
ResetRegs == [cw |-> Spp - 1, ud |-> "dev", ecc |-> TRUE, bad |-> TRUE]

Ended  == {"done", "refused", "exit", "killed"}

VARIABLES
    run, pc, opt,
    part,         \* i of the partition loop, counted from 1; 0 in raw mode
    block, page,
    buf,          \* blockbuf: the pages of the block read so far
    out,          \* the output files, by partition
    oldcfg0,      \* cfg0 of load_block
    regs,         \* the registers of the controller
    content,      \* what the pages of the flash hold
    marked,       \* the blocks with a bad-block marker
    faults,       \* failed reads so far
    trusted       \* history: the run found the marker position programmed

flash == <<content, marked>>
vars  == <<run, pc, opt, part, block, page, buf, out, oldcfg0, regs, content,
           marked, faults, trusted>>

-----------------------------------------------------------------------------
PartFlag == opt.map # "none"
Mode == IF opt.u # "undef" THEN opt.u ELSE IF PartFlag THEN "skip" ELSE "fill"

\* load_ptable_flash() replaces the length of a growing last partition;
\* load_ptable_file() takes the table as it is.
PartLen(i) == IF opt.map = "flash" /\ i = Len(Table) /\ Table[i].len = Grow
              THEN MaxBlock - Table[i].start ELSE Table[i].len
\* -f n fills partlist[], and sets partnumber to 1 whatever n is.
PartNumber == IF opt.parts = {} THEN -1 ELSE 1
Selected(i) == PartNumber = -1 \/ i - 1 \in opt.parts

Start == IF part = 0 THEN opt.start ELSE Table[part].start
End == IF part = 0
       THEN IF opt.len = 0 THEN MaxBlock ELSE opt.start + opt.len
       ELSE (Table[part].start + PartLen(part)) % Width

CheckBlock(b) == IF regs.bad THEN {b \in marked} ELSE BOOLEAN
\* What the sector reads deliver. The controller takes the marker byte out of
\* the data as long as its position is programmed.
ReadKind(b, p) == IF ~regs.bad /\ p = 0 /\ b \in marked THEN "mk" ELSE content[b][p]
Filler(b) == [n \in 1 .. Ppb |-> [kind |-> "bb", b |-> b, p |-> n - 1]]

OutFiles == 0 .. Len(Table)
NoFiles == [f \in OutFiles |-> <<>>]

-----------------------------------------------------------------------------
InitRun ==
    /\ pc = "args" /\ opt \in OptionSets
    /\ part = 0 /\ block = 0 /\ page = 0 /\ buf = <<>> /\ out = NoFiles
    /\ trusted = regs.bad

Init ==
    /\ run = 1 /\ faults = 0
    /\ regs = ResetRegs /\ oldcfg0 = ResetRegs
    /\ content \in Contents /\ marked \in SUBSET Blocks
    /\ InitRun

StartRun ==
    /\ pc \in Ended /\ run < MaxRuns
    /\ run' = run + 1
    /\ pc' = "args" /\ opt' \in OptionSets
    /\ part' = 0 /\ block' = 0 /\ page' = 0 /\ buf' = <<>> /\ out' = NoFiles
    /\ trusted' = regs.bad
    /\ UNCHANGED <<oldcfg0, regs, flash, faults>>

\* The option checks, and the port, which may not open. A table that is only
\* listed from a file needs no modem.
CheckArgs ==
    /\ pc = "args"
    /\ pc' \in IF \/ opt.start = 0 /\ opt.len = 0 /\ ~opt.x /\ ~PartFlag
                  \/ opt.t /\ opt.x
               THEN {"exit"}
               ELSE IF opt.list /\ opt.map = "file" THEN {"table"} ELSE {"hello", "exit"}
    /\ UNCHANGED <<run, opt, part, block, page, buf, out, oldcfg0, regs, flash,
                   faults, trusted>>

\* get_flash_config() sets CW_PER_PAGE again if all its bits read as 0.
Hello ==
    /\ pc = "hello"
    /\ regs' = [regs EXCEPT !.cw = IF @ = 0 THEN Spp - 1 ELSE @]
    /\ pc' = "ecc"
    /\ UNCHANGED <<run, opt, part, block, page, buf, out, oldcfg0, flash, faults, trusted>>

SetEcc ==
    /\ pc = "ecc"
    /\ regs' = [regs EXCEPT !.ecc = ~opt.e]
    /\ pc' = IF PartFlag THEN "table" ELSE "raw"
    /\ UNCHANGED <<run, opt, part, block, page, buf, out, oldcfg0, flash, faults, trusted>>

\* The output file of raw mode, which may not open.
OpenRaw ==
    /\ pc = "raw"
    /\ pc' \in {"block", "exit"} /\ block' = opt.start
    /\ UNCHANGED <<run, opt, part, page, buf, out, oldcfg0, regs, flash, faults, trusted>>

\* The table is missing or damaged, or it is only listed.
NoTable ==
    /\ pc = "table"
    /\ pc' = "exit"
    /\ UNCHANGED <<run, opt, part, block, page, buf, out, oldcfg0, regs, flash, faults,
                   trusted>>

LoadTable ==
    /\ pc = "table" /\ ~opt.list
    /\ IF PartNumber >= Len(Table) THEN pc' = "refused" /\ UNCHANGED part
                                   ELSE pc' = "part" /\ part' = 1
    /\ UNCHANGED <<run, opt, block, page, buf, out, oldcfg0, regs, flash, faults, trusted>>

\* The output file of a wanted partition may not open.
NextPart ==
    /\ pc = "part"
    /\ \/ /\ part > Len(Table)
          /\ pc' = "restore" /\ UNCHANGED <<part, block>>
       \/ /\ part <= Len(Table) /\ ~Selected(part)
          /\ part' = part + 1 /\ UNCHANGED <<pc, block>>
       \/ /\ part <= Len(Table) /\ Selected(part)
          /\ pc' \in {"block", "exit"} /\ block' = Table[part].start /\ UNCHANGED part
    /\ UNCHANGED <<run, opt, page, buf, out, oldcfg0, regs, flash, faults, trusted>>

\* A bad block is passed over, or its place in the file is filled. writes:
\* whether the file gets the filler.
DefectIf(writes) ==
    /\ pc = "block" /\ block < End
    /\ Mode \in {"fill", "skip"}
    /\ TRUE \in CheckBlock(block)
    /\ out' = IF writes THEN [out EXCEPT ![part] = @ \o Filler(block)] ELSE out
    /\ block' = block + 1
    /\ UNCHANGED <<run, pc, opt, part, page, buf, oldcfg0, regs, flash, faults, trusted>>
\* Mutant: the filler goes out in both modes.
DefectFills == DefectIf(TRUE)
Defect == DefectIf(Mode # "skip")

\* load_block() up to the page loop. lifts: whether the marker control is
\* switched off.
BeginBlockIf(lifts) ==
    /\ pc = "block" /\ block < End
    /\ regs' = [regs EXCEPT !.bad = @ /\ ~lifts]
    /\ Mode \in {"fill", "skip"} => FALSE \in CheckBlock(block)
    /\ oldcfg0' = regs'
    /\ pc' = "page" /\ page' = 0 /\ buf' = <<>>
    /\ UNCHANGED <<run, opt, part, block, out, flash, faults, trusted>>
\* Mutant: -ux lifts nothing.
BeginBlockUnlifted == BeginBlockIf(FALSE)
BeginBlock == BeginBlockIf(Mode = "disable")

\* The sectors of a page. The result of memread() is not looked at.
ReadPage ==
    /\ pc = "page" /\ page < Ppb
    /\ \E lost \in BOOLEAN :
         /\ lost => faults < MaxFaults
         /\ faults' = IF lost THEN faults + 1 ELSE faults
         /\ buf' = Append(buf, [kind |-> IF lost THEN "eb" ELSE ReadKind(block, page),
                                b |-> block, p |-> page])
    /\ page' = page + 1
    /\ UNCHANGED <<run, pc, opt, part, block, out, oldcfg0, regs, flash, trusted>>
\* Mutant: the marker position is not programmed again.
RegsAfterBlockOff == [regs EXCEPT !.cw = oldcfg0.cw, !.ud = oldcfg0.ud]
RegsAfterBlock ==
    [regs EXCEPT !.bad = (@ \/ Mode = "disable"), !.cw = oldcfg0.cw, !.ud = oldcfg0.ud]
EndBlock ==
    /\ pc = "page" /\ page = Ppb
    /\ regs' = RegsAfterBlock
    /\ out' = [out EXCEPT ![part] = @ \o buf]
    /\ block' = block + 1 /\ pc' = "block"
    /\ UNCHANGED <<run, opt, part, page, buf, oldcfg0, flash, faults, trusted>>

\* The file is closed. Raw mode returns here.
CloseFile ==
    /\ pc = "block" /\ ~(block < End)
    /\ \/ part = 0 /\ pc' = "done" /\ UNCHANGED part
       \/ part > 0 /\ opt.t /\ pc' = "trim" /\ UNCHANGED part
       \/ part > 0 /\ ~opt.t /\ pc' = "part" /\ part' = part + 1
    /\ UNCHANGED <<run, opt, block, page, buf, out, oldcfg0, regs, flash, faults, trusted>>

\* lastpos is the last byte that is not FF, or 0: the first byte stays even
\* if there is none, and a file without a byte gets one.
LastFull(s) == Max({0} \cup {n \in DOMAIN s : s[n].kind # "ff"})
\* Mutant: the last page that is not empty is lost as well.
TrimmedShort(s) == SubSeq(s, 1, LastFull(s) - 1)
Trimmed(s) == IF s = <<>> THEN <<[kind |-> "nul"]>>
              ELSE SubSeq(s, 1, Max({1, LastFull(s)}))

TrimFile ==
    /\ pc = "trim"
    /\ out' = [out EXCEPT ![part] = Trimmed(@)]
    /\ pc' = "part" /\ part' = part + 1
    /\ UNCHANGED <<run, opt, block, page, buf, oldcfg0, regs, flash, faults, trusted>>

\* Restore ECC settings.
RestoreEcc ==
    /\ pc = "restore"
    /\ regs' = [regs EXCEPT !.ecc = TRUE]
    /\ pc' = "done"
    /\ UNCHANGED <<run, opt, part, block, page, buf, out, oldcfg0, flash, faults, trusted>>

Kill ==
    /\ pc \notin Ended
    /\ pc' = "killed"
    /\ UNCHANGED <<run, opt, part, block, page, buf, out, oldcfg0, regs, flash, faults,
                   trusted>>

Finished == pc \in Ended /\ run = MaxRuns /\ UNCHANGED vars

Step ==
    \/ CheckArgs \/ Hello \/ SetEcc \/ OpenRaw \/ NoTable \/ LoadTable \/ NextPart
    \/ Defect \/ BeginBlock \/ ReadPage \/ EndBlock \/ CloseFile \/ TrimFile
    \/ RestoreEcc

Next == StartRun \/ Step \/ Kill \/ Finished
Spec == Init /\ [][Next]_vars /\ WF_vars(Step)

-----------------------------------------------------------------------------
(* Properties.                                                              *)

\* The first block a file is read from.
FirstOf(f) == IF f = 0 THEN opt.start ELSE Table[f].start
Truthful(item) ==
    \/ item.kind = "eb"
    \/ /\ item.kind = content[item.b][item.p]
       /\ Mode \in {"fill", "skip"} => item.b \notin marked
    \/ item.kind = "bb" /\ item.b \in marked /\ Mode = "fill"
    \/ item.kind = "mk" /\ item.b \in marked /\ item.p = 0 /\ Mode = "disable"

\* Every page in a file is what the flash holds there: a page of a bad block is
\* never taken for data, nor a page of a good block replaced by the filler,
\* however the runs before this one ended, as long as this run found the
\* marker position programmed.
FilesTruthful ==
    trusted => \A f \in OutFiles : \A n \in DOMAIN out[f] :
        out[f][n].kind # "nul" => Truthful(out[f][n])

\* With -us the good blocks follow one another without a gap; in every other
\* mode page n of the file is page n of the range, so that a defect keeps its
\* place. This holds of a file half written, too.
PlaceOf(f, b) ==
    IF Mode = "skip" THEN Cardinality({g \in FirstOf(f) .. b - 1 : g \notin marked})
                     ELSE b - FirstOf(f)
PagesInPlace ==
    trusted => \A f \in OutFiles : \A n \in DOMAIN out[f] :
        out[f][n].kind # "nul" =>
            /\ out[f][n].b >= FirstOf(f)
            /\ Mode = "skip" => out[f][n].b \notin marked
            /\ PlaceOf(f, out[f][n].b) = (n - 1) \div Ppb
            /\ out[f][n].p = (n - 1) % Ppb

\* The files hold the right pages in the right places (qrflash.c:43-93, 187-242).
FilesExact == FilesTruthful /\ PagesInPlace

\* -t cuts nothing but empty pages: a file of a finished partition reaches at
\* least to the last page of its good blocks that is not empty.
NothingLost ==
    pc = "done" /\ trusted /\ opt.map = "flash" /\ faults = 0 =>
        \A f \in OutFiles \ {0} : Selected(f) =>
            \A b \in FirstOf(f) .. FirstOf(f) + PartLen(f) - 1, p \in Pages :
                content[b][p] # "ff" /\ b \notin marked =>
                    \E n \in DOMAIN out[f] :
                        out[f][n].kind # "nul" /\ out[f][n].b = b /\ out[f][n].p = p

\* -ux lifts the marker control for the length of one block: a run that ends
\* by itself leaves it on, whatever it found.
MarkerControlBack == pc \in {"done", "exit"} /\ Mode = "disable" /\ trusted => regs.bad
=============================================================================
