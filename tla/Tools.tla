-------------------------------- MODULE Tools --------------------------------
(***************************************************************************)
(* qbadblock and qflashparm: lists of bad blocks and of ECC errors, marks  *)
(* set and removed, fields of the controller registers changed. The        *)
(* registers and the flash outlive a run, as they do while the loader      *)
(* stays in memory, and a run may be killed before any register operation. *)
(*                                                                         *)
(* A write of the modem's memory reports success whatever the loader       *)
(* answers, so each may be lost without notice (refused). A run is the     *)
(* sequence todo of the operations still before it; each is one write of a *)
(* register with the read it depends on, one exchange with the loader, or  *)
(* reads of the flash that change nothing.                                 *)
(***************************************************************************)
EXTENDS NandRegs, Chipsets

CONSTANTS
    Devices,      \* the modems
    Files,        \* contents of chipset.cfg
    Commands,     \* the command lines
    Partitions,   \* the partition table in the flash: name, start and len
    UnknownSize,  \* 0x800: blocks of a flash chip the program does not know
    MaxFaults,    \* bound: lost writes and answers
    MaxRuns       \* bound: programs started

ASSUME ToolsAssumption ==
    /\ \A d \in Devices : d.blocks \in Nat \ {0} /\ d.marks \subseteq 0 .. d.blocks - 1
    /\ UnknownSize \in Nat /\ MaxFaults \in Nat /\ MaxRuns \in Nat

VARIABLES
    dev,          \* the modem
    file,         \* chipset.cfg
    reg,          \* the registers of the controller
    flash,        \* what the first page of each block holds
    greeted,      \* the loader has had its hello
    cmd,          \* the command line
    todo,         \* the operations still to do
    table, prog,  \* chipsets; the globals of qcio.c
    bak,          \* registers kept in locals
    at,           \* the block the address registers point at
    ptable,       \* validpart
    list, said,   \* the list written, the last message
    faults, refused, killed, runs,
    base          \* history: registers and flash when the run began

world == <<dev, file, cmd, table, runs, killed, base>>
vars == <<world, reg, flash, greeted, todo, prog, bak, at, ptable, list, said, faults, refused>>

Contents == {"data", "factory", "zero", "partial", "erased"}
RealSpp == Spp(dev.devcfg)
InFlash == 0 .. dev.blocks - 1

\* The globals before get_flash_config().
Blank(chip) ==
    [chip |-> chip, spp |-> 0, bch |-> FALSE, eccbit |-> 0, eccsize |-> 0, pos |-> 0, place |-> 0,
     maxblock |-> 0]

Init ==
    /\ dev \in Devices /\ file \in Files
    /\ reg = dev.regs
    /\ flash = [b \in InFlash |-> IF b \in dev.marks THEN "factory" ELSE "data"]
    /\ greeted = FALSE
    /\ cmd = (CHOOSE c \in Commands : TRUE)
    /\ todo = <<>> /\ table = <<>> /\ prog = Blank(NoChip) /\ bak = reg /\ at = 0
    /\ ptable = FALSE /\ list = <<>> /\ said = ""
    /\ faults = 0 /\ refused = FALSE /\ killed = FALSE /\ runs = 0
    /\ base = [reg |-> reg, flash |-> flash]

Fault == faults < MaxFaults /\ faults' = faults + 1
Refuse == Fault /\ refused' = TRUE
Works == UNCHANGED <<faults, refused>>

-----------------------------------------------------------------------------
(* The operations of a run.                                                *)

Op(name) == <<[op |-> name]>>
Arg(name, a) == <<[op |-> name, a |-> a]>>
\* check_block() and what follows.
Check(b, bad, good) == <<[op |-> "check", a |-> b, bad |-> bad, good |-> good]>>
Say(text) == Arg("say", text)

\* write_badmark(): the page is all zeros but for its first byte, so that the mark shows at every
\* position. One write for each of spp sectors; the last one programs the page.
WriteBadmark(b, p) ==
    Op("keep") \o Arg("ecccfg", 1) \o Arg("cfg1", 1) \o Op("badoff")
    \o (IF p.spp = 0 THEN <<>> ELSE Arg("sectors", b) \o Arg("lastsector", b))
    \o Op("badon") \o Op("back1") \o Op("backecc")
MarkBad(b, p) == Check(b, Say("already"), WriteBadmark(b, p) \o Say("marked"))

\* Mutant: CFG0 is not restored.
BlockEraseOnce(b) == Arg("eraseaddr", b) \o Op("keep") \o Op("onecw") \o Op("erase")
BlockErase(b) == Arg("eraseaddr", b) \o Op("keep") \o Op("onecw") \o Op("erase") \o Op("back0")
\* Mutant: the block is not checked before.
UnmarkBadBlind(b) == BlockErase(b) \o Say("removed")
UnmarkBad(b) == Check(b, BlockErase(b) \o Say("removed"), Say("good"))

\* -l 0 stands for the rest of the flash.
Length(c, p) == IF c.len = 0 THEN p.maxblock - c.start ELSE c.len
Range0(c, p) == [i \in 1 .. Length(c, p) |-> c.start + i - 1]

DefectList(c, p) ==
    Op("ptable")
    \o FlattenSeq([i \in DOMAIN Range0(c, p) |-> Check(Range0(c, p)[i], Arg("enter", Range0(c, p)[i]), <<>>)])
    \o Say("total")

\* Switches the engine on, for good. bch_reset() only acts in BCH mode.
EccScan(c, p) ==
    Arg("ecccfg", 0) \o Arg("cfg1", 0)
    \o FlattenSeq([i \in DOMAIN Range0(c, p) |->
          Check(Range0(c, p)[i], <<>>,
                (IF p.bch THEN Op("keep") \o Op("bchreset") \o Op("backecc") ELSE <<>>)
                \o Arg("sectorstats", Range0(c, p)[i]))])
    \o Say("total")

\* main() of the two tools after hello(). Block 0 and position 0 stand for options not given.
MainOps(c, p) ==
    IF c.tool = "qflashparm"
    THEN (IF c.spare # -1 THEN Arg("spare", c.spare) ELSE <<>>)
         \o (IF c.ud # -1 THEN Arg("ud", c.ud) \o Arg("udecc", c.ud) ELSE <<>>)
         \o (IF c.ecc # -1 THEN Arg("eccsize", c.ecc) ELSE <<>>)
         \o (IF c.pos # -1 THEN Op("setpos") ELSE <<>>)
    ELSE (IF c.pos # 0 THEN Op("setpos") ELSE <<>>)
         \o (CASE c.mode = "d" -> DefectList(c, p)
               [] c.mode = "e" -> EccScan(c, p)
               [] c.mode = "mu" /\ c.mark # 0 -> MarkBad(c.mark, p)
               [] c.mode = "mu" /\ c.mark = 0 /\ c.unmark # 0 -> UnmarkBad(c.unmark)
               [] OTHER -> <<>>)

-----------------------------------------------------------------------------
(* Starting: the command line and hello().                                 *)

\* hello(1) for qflashparm without options, hello(0) otherwise.
Forced(c) == c.tool = "qflashparm" /\ {c.spare, c.ud, c.ecc, c.pos} = {-1}

\* -k reads the table at once; an unknown code ends the program. A known one is that of the modem.
StartRun ==
    /\ todo = <<>> /\ runs < MaxRuns
    /\ \E c \in Commands :
         LET t == LoadConfig(file).table
             chip == IF c.k = 0 THEN NoChip ELSE SetChipset(t, NoChip, c.k)
         IN /\ c.k = 0 \/ c.k = dev.chip \/ chip = NoChip
            /\ cmd' = c
            /\ table' = IF c.k = 0 THEN <<>> ELSE t
            /\ prog' = Blank(chip)
            /\ todo' = IF c.k # 0 /\ (~Loads(file) \/ chip = NoChip) THEN <<>>
                       ELSE IF Forced(c) THEN Op("hello") ELSE Op("detect")
    /\ runs' = runs + 1 /\ killed' = FALSE
    /\ bak' = reg /\ ptable' = FALSE /\ list' = <<>> /\ said' = ""
    /\ base' = [reg |-> reg, flash |-> flash]
    /\ UNCHANGED <<dev, file, reg, flash, greeted, at, faults, refused>>

Kill ==
    /\ todo # <<>>
    /\ todo' = <<>> /\ killed' = TRUE
    /\ UNCHANGED <<dev, file, cmd, table, runs, base, reg, flash, greeted, prog, bak, at, ptable, list,
                   said, faults, refused>>

Top == Head(todo)
At(name) == todo # <<>> /\ Top.op = name
Then(ops) == todo' = ops \o Tail(todo)

\* The applet is answered once the loader has had its hello; without an answer the buffer may hold
\* anything.
Detect ==
    /\ At("detect")
    /\ \/ greeted /\ Then(Arg("identify", FALSE)) /\ UNCHANGED faults
       \/ ~greeted /\ Then(Op("hello")) /\ UNCHANGED faults
       \/ Fault /\ (Then(Op("hello")) \/ Then(Arg("identify", FALSE)))
    /\ UNCHANGED <<world, reg, flash, greeted, prog, bak, at, ptable, list, said, refused>>

\* Without -k no register has an address: what the rest of the run reads and writes is not the
\* controller, and what it says is arbitrary.
Astray ==
    /\ todo' = <<>>
    /\ said' \in {"", "total", "already", "marked", "good", "removed"}

\* The hello, sent again if it is not answered. A modem silent twice is left unconfigured, and main()
\* goes on.
Hello ==
    /\ At("hello")
    /\ \/ Then(Arg("identify", TRUE)) /\ greeted' = TRUE /\ UNCHANGED <<faults, said>>
       \/ /\ faults + 2 <= MaxFaults /\ faults' = faults + 2
          /\ greeted' \in {greeted, TRUE}
          /\ IF prog.chip = NoChip THEN Astray
             ELSE UNCHANGED said /\ todo' = IF Forced(cmd) THEN <<>> ELSE MainOps(cmd, prog)
    /\ UNCHANGED <<world, reg, flash, prog, bak, at, ptable, list, refused>>

\* test_loader(): no answer, or none of a patched loader, ends the program. Its chipset counts unless
\* one has been named with -k. The reset of BAM follows a hello only.
Identify ==
    /\ At("identify")
    /\ \/ ~greeted /\ todo' = <<>> /\ UNCHANGED <<table, prog, faults>>
       \/ Fault /\ todo' = <<>> /\ UNCHANGED <<table, prog>>
       \/ greeted /\
          LET t == LoadConfig(file).table
              chip == IF prog.chip # NoChip THEN prog.chip ELSE SetChipset(t, NoChip, dev.chip)
          IN /\ table' = t
             /\ prog' = [prog EXCEPT !.chip = chip]
             /\ IF ~Loads(file) \/ chip = NoChip THEN todo' = <<>>
                ELSE Then((IF Top.a /\ t[chip].sahara = 1
                           THEN Op("keep") \o Op("bamreset") \o Op("back0") \o Op("back1") \o Op("backecc")
                           ELSE <<>>) \o Op("configure"))
             /\ UNCHANGED faults
    /\ UNCHANGED <<dev, file, cmd, runs, killed, base, reg, flash, greeted, bak, at, ptable, list, said,
                   refused>>

\* disable_bam(): a reset of the whole controller, whose registers have been read before.
ResetRegs == [cfg0 |-> 0, cfg1 |-> 0, ecccfg |-> 0]
BamReset ==
    /\ At("bamreset") /\ Then(<<>>)
    /\ \/ reg' = ResetRegs /\ Works
       \/ reg' \in {reg, ResetRegs} /\ Refuse
    /\ UNCHANGED <<world, flash, greeted, prog, bak, at, ptable, list, said>>

\* get_flash_config(). If the command that fetches the ID is lost, the register holds no ID.
Configure ==
    /\ At("configure")
    /\ \/ /\ prog' = Configuration(reg, dev.devcfg, dev.chipsize, UnknownSize) @@ [chip |-> prog.chip]
          /\ Works
          /\ reg' = Repaired(reg, prog'.spp)
       \/ /\ prog' = Configuration(reg, dev.devcfg, dev.chipsize, UnknownSize) @@ [chip |-> prog.chip]
          /\ reg # Repaired(reg, prog'.spp) /\ Refuse
          /\ UNCHANGED reg
       \/ /\ prog' = Configuration(reg, 0, 0, UnknownSize) @@ [chip |-> prog.chip]
          /\ Refuse
          /\ reg' = Repaired(reg, prog'.spp)
    /\ todo' = IF Forced(cmd) THEN <<>> ELSE MainOps(cmd, prog')
    /\ UNCHANGED <<world, flash, greeted, bak, at, ptable, list, said>>

-----------------------------------------------------------------------------
(* Register operations.                                                    *)

Keep ==
    /\ At("keep") /\ Then(<<>>)
    /\ bak' = reg
    /\ UNCHANGED <<world, reg, flash, greeted, prog, at, ptable, list, said, faults, refused>>

\* The registers after the write at the head of todo.
Poked(o) ==
    CASE o.op = "spare" -> SetSpare(reg, o.a)
      [] o.op = "ud" -> SetUd(reg, o.a)
      [] o.op = "udecc" -> SetUdEcc(reg, o.a)
      [] o.op = "eccsize" -> SetEcc(reg, o.a)
      [] o.op \in {"cfg1", "ecccfg"} -> EccBit(reg, o.op, o.a)
      [] o.op = "badoff" -> BadOff(reg)
      [] o.op = "badon" -> BadOn(reg, prog.pos, prog.place)
      [] o.op = "onecw" -> OneCodeword(reg)
      [] o.op = "bchreset" -> [reg EXCEPT !.ecccfg = @ | 2]
      [] o.op = "back0" -> [reg EXCEPT !.cfg0 = bak.cfg0]
      [] o.op = "back1" -> [reg EXCEPT !.cfg1 = bak.cfg1]
      [] o.op = "backecc" -> [reg EXCEPT !.ecccfg = bak.ecccfg]
      [] OTHER -> reg
PokeOps == {"spare", "ud", "udecc", "eccsize", "cfg1", "ecccfg", "badoff", "badon", "onecw", "bchreset",
            "back0", "back1", "backecc"}
Poke ==
    /\ todo # <<>> /\ Top.op \in PokeOps /\ Then(<<>>)
    /\ (reg' = Poked(Top) /\ Works) \/ (UNCHANGED reg /\ Refuse)
    /\ UNCHANGED <<world, flash, greeted, prog, bak, at, ptable, list, said>>

\* set_badmark_pos()
SetBadmarkPos ==
    /\ At("setpos") /\ Then(<<>>)
    /\ prog' = [prog EXCEPT !.pos = cmd.pos, !.place = cmd.place]
    /\ (reg' = BadOn(reg, cmd.pos, cmd.place) /\ Works) \/ (UNCHANGED reg /\ Refuse)
    /\ UNCHANGED <<world, flash, greeted, bak, at, ptable, list, said>>

-----------------------------------------------------------------------------
(* Operations of the flash.                                                *)

\* What the controller reports of a block. The marker is the byte at the position in CFG1, in the
\* last codeword of the page; any other byte may look like a mark or not.
RightPlace(r) == MarkerPos(r) = dev.pos /\ MarkerPlace(r) = dev.place
Reported(b) ==
    IF b \notin InFlash \/ Cw(reg) # RealSpp - 1 \/ MarkerPos(reg) = 0 THEN BOOLEAN
    ELSE CASE flash[b] = "zero" -> {TRUE}
           [] flash[b] = "erased" -> {FALSE}
           [] flash[b] \in {"data", "factory"} /\ RightPlace(reg) -> {flash[b] = "factory"}
           [] OTHER -> BOOLEAN
CheckBlock ==
    /\ At("check")
    /\ \/ /\ \E bad \in Reported(Top.a) : Then(IF bad THEN Top.bad ELSE Top.good)
          /\ Works
       \/ (Then(Top.bad) \/ Then(Top.good)) /\ Refuse
    /\ UNCHANGED <<world, reg, flash, greeted, prog, bak, at, ptable, list, said>>

\* The page is programmed when as many codewords have been sent as CFG0 says.
Sectors ==
    /\ At("sectors") /\ Then(<<>>)
    /\ flash' = IF prog.spp > 1 /\ Top.a \in InFlash THEN [flash EXCEPT ![Top.a] = "partial"] ELSE flash
    /\ Works
    /\ UNCHANGED <<world, reg, greeted, prog, bak, at, ptable, list, said>>
LastSector ==
    /\ At("lastsector") /\ Then(<<>>)
    /\ LET b == Top.a IN
       \/ /\ flash' = IF b \in InFlash /\ prog.spp = Cw(reg) + 1 /\ prog.spp = RealSpp
                      THEN [flash EXCEPT ![b] = "zero"] ELSE flash
          /\ Works
       \/ UNCHANGED flash /\ Refuse
    /\ UNCHANGED <<world, reg, greeted, prog, bak, at, ptable, list, said>>

\* An address that has been lost leaves that of the check, which stands for another block here.
EraseAddress ==
    /\ At("eraseaddr") /\ Then(<<>>)
    /\ (at' = Top.a /\ Works) \/ (at' \in InFlash /\ Refuse)
    /\ UNCHANGED <<world, reg, flash, greeted, prog, bak, ptable, list, said>>
\* The datasheet asks for one codeword per page.
Erase ==
    /\ At("erase") /\ Then(<<>>)
    /\ \/ /\ at \in InFlash /\ flash' = [flash EXCEPT ![at] = "erased"]
          /\ Works
       \/ (Cw(reg) # 0 \/ at \notin InFlash) /\ UNCHANGED flash /\ Works
       \/ UNCHANGED flash /\ Refuse
    /\ UNCHANGED <<world, reg, greeted, prog, bak, at, ptable, list, said>>

-----------------------------------------------------------------------------
(* The lists.                                                              *)

\* load_ptable("@") finds the table or not.
LoadPtable ==
    /\ At("ptable") /\ Then(<<>>)
    /\ ptable' \in BOOLEAN
    /\ UNCHANGED <<world, reg, flash, greeted, prog, bak, at, list, said, faults, refused>>

\* Mutant: the block behind a partition counts as its own.
BlockToPartEnd(b) == {i \in DOMAIN Partitions : Partitions[i].start <= b /\ b <= Partitions[i].start + Partitions[i].len}
\* block_to_part(): the first partition that holds the block.
BlockToPart(b) == {i \in DOMAIN Partitions : Partitions[i].start <= b /\ b < Partitions[i].start + Partitions[i].len}
Enter ==
    /\ At("enter") /\ Then(<<>>)
    /\ LET b == Top.a
           hits == BlockToPart(b)
           i == CHOOSE i \in hits : \A j \in hits : i <= j
       IN list' = Append(list, IF ptable /\ hits # {} THEN <<b, Partitions[i].name, b - Partitions[i].start>>
                               ELSE <<b>>)
    /\ UNCHANGED <<world, reg, flash, greeted, prog, bak, at, ptable, said, faults, refused>>

\* The bits of the buffer status after a sector: uncorrectable, the codeword is erased, bits corrected.
Status(b, sec) ==
    IF ~EccOn(reg) THEN [err |-> FALSE, blank |-> FALSE, n |-> 0]
    ELSE IF b \in InFlash /\ flash[b] = "erased" THEN [err |-> TRUE, blank |-> TRUE, n |-> 0]
    ELSE LET n == IF b \in InFlash THEN dev.errors[b][sec] ELSE 0
         IN [err |-> n = -1, blank |-> FALSE, n |-> IF n = -1 THEN 0 ELSE n]
\* check_ecc_status()
EccStatus(s) == IF s.err /\ ~s.blank THEN -1 ELSE s.n

\* One page stands for the 64 of a block.
SectorStats ==
    /\ At("sectorstats") /\ Then(<<>>)
    /\ LET b == Top.a
           st == [sec \in 1 .. prog.spp |-> EccStatus(Status(b, IF sec <= RealSpp THEN sec ELSE RealSpp))]
           line(sec) == IF st[sec] = 0 \/ (st[sec] = -1 /\ cmd.flag = 1) THEN <<>>
                        ELSE <<<<b, sec, st[sec]>>>>
       IN list' = list \o FlattenSeq([sec \in 1 .. prog.spp |-> line(sec)])
    /\ Works
    /\ UNCHANGED <<world, reg, flash, greeted, prog, bak, at, ptable, said>>

Message ==
    /\ At("say") /\ Then(<<>>)
    /\ said' = Top.a
    /\ UNCHANGED <<world, reg, flash, greeted, prog, bak, at, ptable, list, faults, refused>>

Next ==
    \/ StartRun \/ Kill \/ Detect \/ Hello \/ Identify \/ BamReset \/ Configure \/ Keep \/ Poke
    \/ SetBadmarkPos \/ CheckBlock \/ Sectors \/ LastSector \/ EraseAddress \/ Erase
    \/ LoadPtable \/ Enter \/ SectorStats \/ Message
Spec == Init /\ [][Next]_vars

-----------------------------------------------------------------------------
OpNames == PokeOps \cup {"detect", "hello", "identify", "bamreset", "configure", "keep", "setpos", "check",
                         "sectors", "lastsector", "eraseaddr", "erase", "ptable", "enter", "sectorstats", "say"}
\* Registers, flash and operations have their types.
TypeOK ==
    /\ reg.cfg0 \in 0 .. 2^30 /\ reg.cfg1 \in 0 .. 2^30 /\ reg.ecccfg \in 0 .. 2^30
    /\ flash \in [InFlash -> Contents]
    /\ \A i \in DOMAIN todo : todo[i].op \in OpNames
    /\ prog.chip \in 0 .. Len(table) /\ prog.pos \in 0 .. 2^16 /\ at \in Nat
    /\ faults \in 0 .. MaxFaults /\ runs \in 0 .. MaxRuns /\ {refused, killed, greeted, ptable} \subseteq BOOLEAN

\* What the properties take for granted: no write has been lost, hello() has not failed, and
\* CW_PER_PAGE fits into the three bits that block_erase() knows.
Sound == ~refused /\ prog.spp > 0 /\ RealSpp <= 8

\* "marked as defective", "Marker removed" (qbadblock.c:246, 257): the mark is in the flash, and shows
\* wherever the position of the marker is; the block is erased. This also holds in a run after one
\* that was killed between two register writes, since get_flash_config() repairs CW_PER_PAGE
\* (qcio.c:380) before the page is written.
ReportTrue ==
    Sound =>
      /\ said = "marked" /\ cmd.mark \in InFlash => flash[cmd.mark] = "zero"
      /\ said = "removed" /\ cmd.unmark \in InFlash => flash[cmd.unmark] = "erased"

Wanted == {b \in InFlash : b >= cmd.start /\ (cmd.len = 0 \/ b < cmd.start + cmd.len)}
Marked(b) == flash[b] \in {"factory", "zero"}
Ascending(s) == \A i, j \in DOMAIN s : i < j => s[i][1] < s[j][1] \/ (s[i][1] = s[j][1] /\ s[i][2] < s[j][2])
PartOf(b) == {p \in ToSet(Partitions) : b \in p.start .. p.start + p.len - 1}

\* The lists of -d and -e (qbadblock.c:30, 81) name each bad block of the range with its place in its
\* partition, and each sector of the good ones that the engine had to correct or could not, in order,
\* provided CFG1 says where the marker is and no half-written page is among them. A range that goes
\* to the end of the flash needs a chip whose size is known.
ListExact ==
    /\ Sound /\ said = "total" /\ RightPlace(reg)
    /\ \A b \in Wanted : flash[b] # "partial"
    /\ IF cmd.len = 0 THEN dev.chipsize > 0 ELSE cmd.start + cmd.len <= dev.blocks
    => /\ Ascending(list)
       /\ cmd.mode = "d" => ToSet(list) = {IF ptable /\ PartOf(b) # {}
                                           THEN LET p == CHOOSE p \in PartOf(b) : TRUE
                                                IN <<b, p.name, b - p.start>>
                                           ELSE <<b>> : b \in {b \in Wanted : Marked(b)}}
       /\ cmd.mode = "e" => ToSet(list) = {<<b, sec, dev.errors[b][sec]>> : b \in {b \in Wanted : flash[b] = "data"},
                                                                           sec \in 1 .. RealSpp}
                                          \cap {e \in Wanted \X (1 .. RealSpp) \X (-1 .. 31) :
                                                    e[3] # 0 /\ (cmd.flag = 1 => e[3] # -1)}

\* Every field of the registers, and the bits that belong to none.
View(r) ==
    [cw |-> Cw(r), ud |-> UdSize(r), udecc |-> Bits(r.ecccfg, 16, 10), spare |-> SpareSize(r),
     ecc |-> EccSize(r), pos |-> MarkerPos(r), place |-> MarkerPlace(r), on |-> EccOn(r),
     rest |-> <<Bits(r.cfg0, 0, 5), Bits(r.cfg0, 27, 3), Bits(r.cfg1, 1, 5), Bits(r.cfg1, 17, 13),
                Bits(r.ecccfg, 1, 7), Bits(r.ecccfg, 13, 3), Bits(r.ecccfg, 26, 4)>>]
Given(x, old) == IF x = -1 THEN old ELSE x
\* The registers that the command line asks for, from those before the run.
Asked(r, c) ==
    LET v == View(Repaired(r, RealSpp))
        param == c.tool = "qflashparm"
        moved == c.pos # (IF param THEN -1 ELSE 0)
    IN [v EXCEPT
          !.ud = IF param THEN Given(c.ud, @) ELSE @,
          !.udecc = IF param /\ Bch(r) THEN Given(c.ud, @) ELSE @,
          !.spare = IF param THEN Given(c.spare, @) ELSE @,
          !.ecc = IF param THEN Given(c.ecc, @) ELSE @,
          !.pos = IF moved THEN c.pos ELSE @,
          !.place = IF moved THEN c.place ELSE @,
          !.on = @ \/ (~param /\ c.mode = "e")]

\* A run that comes to its end leaves each field of the registers as the command line says, and every
\* other bit as it was: marking switches the engine and the marker off and erasing sets CW_PER_PAGE
\* (qcio.c:598, 479), disable_bam() resets the whole controller (qcio.c:495), and all of it is put
\* back. Only the scan for ECC errors leaves the engine on.
RegsKept == (todo = <<>> /\ runs > 0 /\ ~killed /\ Sound) => View(reg) = Asked(base.reg, cmd)

\* Only the block named with -m or -u is written or erased, and -u erases a block without a mark only
\* if CFG1 does not say where the mark is: after a run that was killed while marking (qcio.c:607), or
\* when hello() gave up and the run went on (qcio.c:160).
NamedBlockOnly ==
    \A b \in InFlash :
      (flash[b] # base.flash[b] /\ ~refused) =>
        /\ cmd.tool = "qbadblock" /\ cmd.mode = "mu"
        /\ \/ b = cmd.mark
           \/ cmd.mark = 0 /\ b = cmd.unmark /\ (Sound /\ RightPlace(reg) => base.flash[b] # "data")

\* The registers in use belong to the chipset that was named or that the loader told: its addresses
\* are those that the last lines of its section in chipset.cfg say (chipconfig.c:83, 278).
ChipsetRight ==
    prog.chip # NoChip =>
      LET chip == table[prog.chip]
      IN /\ chip.id = IF cmd.k # 0 THEN cmd.k ELSE dev.chip
         /\ \E body \in SectionOf(file, chip.id) : \A n \in body :
              (file[n].t = "setting" /\ file[n].field \in {"addr", "ctrl", "sahara"}
               /\ \A m \in body : m > n => ~(file[m].t = "setting" /\ file[m].field = file[n].field))
              => chip[file[n].field] = file[n].val

\* The registers are those of the right chipset, and right in the end.
RegistersRight == RegsKept /\ ChipsetRight
=============================================================================
