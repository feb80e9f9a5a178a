---------------------------- MODULE QwDirectProofs ----------------------------
(* Proofs about QwDirect: types, the bounds of the write area, the        *)
(* protection of bad blocks and the programming of erased pages; the order *)
(* of a plain run; the modes that deal with defects.                       *)
EXTENDS QwDirect, CountingLemmas

\* Labels inside the block loop, and those at which block is being worked on.
BlockLabels == {"page", "erase1", "erase2", "erase3", "mark1", "mark2", "mark3",
                "prog1", "prog2"}
MarkLabels  == {"mark1", "mark2", "mark3"}
ProgLabels  == {"prog1", "prog2"}
AreaLabels  == {"ecc", "open", "block", "endpage"} \cup BlockLabels

\* The block loop stays inside the area and the page loop inside the block.
Bounds ==
    /\ pc = "hello" => opt.stop = ToEnd \/ opt.start < opt.stop
    /\ pc \in AreaLabels => opt.start <= StopBlock /\ StopBlock <= MaxBlock
    /\ pc \in BlockLabels \cup {"block"} =>
         opt.start <= block /\ opt.start + flen <= StopBlock
    /\ pc \in BlockLabels => InArea
    /\ pc \in MarkLabels \cup ProgLabels => page < Ppb
    /\ pc \in {"ecc", "open", "page"} \cup MarkLabels \cup ProgLabels => opt.erase = 0
    /\ pc \in MarkLabels => page = 0
    /\ pc \in ProgLabels => fpos > 0

LEMMA ConstantTypes ==
    /\ MaxBlock \in Nat \ {0} /\ Ppb \in Nat \ {0} /\ MaxRuns \in Nat \ {0}
    /\ Files \subseteq Seq(PageKinds) /\ OptionSets \subseteq Options
  BY ConstantsAssumption

\* The values CFG0.CW_PER_PAGE takes: what the chip needs, or what an erase leaves.
CwKnown(c) == c = Spp - 1 \/ c = EraseCw(Spp - 1)

LEMMA CwValues ==
  /\ Spp - 1 \in 1 .. 15 /\ EraseCw(Spp - 1) \in 0 .. 15 /\ CwKnown(Spp - 1)
  /\ \A c \in 0 .. 15 : CwKnown(c) =>
       /\ EraseCw(c) \in 0 .. 15 /\ CwKnown(EraseCw(c))
       /\ RepairedCw(c) \in 0 .. 15 /\ CwKnown(RepairedCw(c)) /\ WholePage(RepairedCw(c))
       /\ WholePage(c) => RepairedCw(c) = c
  <1>1. Spp \in {2, 4, 8, 16}
    BY ConstantsAssumption
  <1>2. EraseCw(1) = 0 /\ EraseCw(3) = 0 /\ EraseCw(7) = 0 /\ EraseCw(15) = 8 /\ EraseCw(0) = 0 /\ EraseCw(8) = 8
    BY DEF EraseCw
  <1>3. CASE Spp = 16
    BY <1>2, <1>3 DEF CwKnown, RepairedCw, WholePage
  <1>4. CASE Spp \in {2, 4, 8}
    BY <1>2, <1>4 DEF CwKnown, RepairedCw, WholePage
  <1>5. QED
    BY <1>1, <1>3, <1>4

LEMMA InitBounds == Init => TypeOK /\ Bounds
  <1> SUFFICES ASSUME Init PROVE TypeOK /\ Bounds
    OBVIOUS
  <1>1. cell \in [Blocks -> [Pages -> Cells]]
    BY DEF Init, Cells
  <1>2. regs \in Regs /\ oldregs \in Regs /\ saved \in Regs
    BY CwValues DEF Init, ResetRegs, Regs
  <1>3. base \in [marked: SUBSET Blocks, cell: [Blocks -> [Pages -> Cells]]]
    BY <1>1 DEF Init
  <1>4. opt \in Options /\ file \in Seq(PageKinds)
    BY ConstantTypes DEF Init
  <1>4a. 1 \in 1 .. MaxRuns /\ 0 \in 0 .. Ppb
    BY ConstantTypes
  <1>4b. TypeOK
    <2>1. badflag \in BOOLEAN
      BY DEF Init
    <2>2. QED
      BY <1>1, <1>2, <1>3, <1>4, <1>4a, <2>1 DEF Init, TypeOK, Labels
  <1>5. Bounds
    BY DEF Init, Bounds, AreaLabels, BlockLabels, MarkLabels, ProgLabels
  <1>6. QED
    BY <1>4b, <1>5

\* How much of an action may be done when a run is cut off inside it.
LEMMA CutRegsTypes == ASSUME TypeOK PROVE CutRegs \subseteq Regs
  <1>0. regs \in Regs /\ saved \in Regs /\ oldregs \in Regs
    BY DEF TypeOK
  <1>1. \A ud \in {"dev", "516", "part"} : HalfWay(ud) \in {"dev", "516", "part"}
    BY DEF HalfWay
  <1>2. \A u \in {"dev", "516", "part"} : [regs EXCEPT !.ud = u] \in Regs
    BY <1>0 DEF Regs
  <1>3. [regs EXCEPT !.ecc = FALSE] \in Regs
    BY <1>0 DEF Regs
  <1>4. \A b \in BOOLEAN : [regs EXCEPT !.bad = b] \in Regs
    BY <1>0, Zenon DEF Regs
  <1>5. oldregs.bad \in BOOLEAN /\ regs.ecc \in BOOLEAN /\ saved.ecc \in BOOLEAN
    BY <1>0 DEF Regs
  <1>6. [regs EXCEPT !.cw = saved.cw, !.ud = HalfWay(saved.ud)] \in Regs
    BY <1>0, <1>1 DEF Regs
  <1>7. \A e \in BOOLEAN : [saved EXCEPT !.ud = HalfWay(saved.ud), !.ecc = e] \in Regs
    BY <1>0, <1>1 DEF Regs
  <1>8. ASSUME NEW r \in CutRegs PROVE r \in Regs
    <2>1. CASE pc = "open"
      BY <1>1, <1>2, <1>8, <2>1 DEF CutRegs
    <2>2. CASE pc = "mark1"
      BY <1>3, <1>8, <2>2 DEF CutRegs
    <2>3. CASE pc = "mark3"
      BY <1>4, <1>5, <1>8, <2>3 DEF CutRegs
    <2>4. CASE pc \in {"prog1", "prog2"}
      BY <1>4, <1>8, <2>4 DEF CutRegs
    <2>5. CASE pc = "endpage"
      BY <1>5, <1>6, <1>7, <1>8, <2>5 DEF CutRegs
    <2>6. QED
      BY <1>8, <2>1, <2>2, <2>3, <2>4, <2>5 DEF CutRegs
  <1>9. QED
    BY <1>8

\* The block being worked on is a block of the flash.
LEMMA BlockInFlash ==
  ASSUME TypeOK, Bounds, pc \in BlockLabels
  PROVE  block \in Blocks /\ block \in Area
  <1>1. opt.start \in Nat /\ flen \in Int /\ block \in Nat /\ StopBlock \in Int
    BY ConstantTypes DEF TypeOK, Options, StopBlock, ToEnd
  <1>2. block < opt.start + flen /\ opt.start + flen <= StopBlock /\ opt.start <= block
    BY DEF Bounds, InArea
  <1>3. StopBlock <= MaxBlock
    BY DEF Bounds, AreaLabels
  <1>4. QED
    BY <1>1, <1>2, <1>3, ConstantTypes DEF Blocks, Area

\* A kill leaves all but the registers and the block in hand as they are, and the
\* marker of that block, too, except under -ux.
LEMMA KillFlash ==
  ASSUME TypeOK, Bounds, Kill
  PROVE  /\ regs' \in Regs /\ marked' \in SUBSET Blocks
         /\ cell' \in [Blocks -> [Pages -> Cells]]
         /\ marked \subseteq marked' /\ (~Has("ux") => marked' = marked)
         /\ \/ UNCHANGED <<cell, marked>>
            \/ /\ pc \in {"mark2", "prog2"}
               /\ \A b \in Blocks : b # block =>
                    cell'[b] = cell[b] /\ (b \in marked' <=> b \in marked)
  <1> USE ConstantTypes DEF TypeOK
  <1>1. regs' \in Regs
    BY CutRegsTypes DEF Kill
  <1>2. PICK f \in {[marked |-> marked, cell |-> cell]} \cup CutFlash :
          marked' = f.marked /\ cell' = f.cell
    BY DEF Kill
  <1>3. CASE f = [marked |-> marked, cell |-> cell]
    BY <1>1, <1>2, <1>3
  <1>4. CASE f \in CutFlash
    <2>1. pc \in {"mark2", "prog2"}
      BY <1>4 DEF CutFlash
    <2>2. block \in Blocks /\ page \in Pages /\ 0 \in Pages /\ fpos \in Cells /\ Partial \in Cells
      <3>1. block \in Blocks
        BY <2>1, BlockInFlash DEF BlockLabels
      <3>2. page \in Pages /\ 0 \in Pages
        BY <2>1 DEF Bounds, MarkLabels, ProgLabels, Pages
      <3>3. fpos \in Cells /\ Partial \in Cells
        BY DEF Cells, Erased
      <3>4. QED
        BY <3>1, <3>2, <3>3
    <2>3. CASE pc = "mark2"
      <3>1. marked' = marked /\ cell' = [cell EXCEPT ![block][0] = Partial]
        BY <1>2, <1>4, <2>3 DEF CutFlash
      <3>2. QED
        BY <1>1, <2>1, <2>2, <3>1
    <2>4. CASE pc = "prog2"
      <3>1. marked' = MarkedAfterPage /\ cell' = [cell EXCEPT ![block][page] = fpos]
        BY <1>2, <1>4, <2>4 DEF CutFlash
      <3>2. QED
        BY <1>1, <2>1, <2>2, <3>1 DEF MarkedAfterPage
    <2>5. QED
      BY <2>1, <2>3, <2>4
  <1>5. QED
    BY <1>2, <1>3, <1>4

LEMMA NextType == TypeOK /\ Bounds /\ [Next]_vars => TypeOK'
  <1> SUFFICES ASSUME TypeOK, Bounds, [Next]_vars PROVE TypeOK'
    OBVIOUS
  <1> USE ConstantTypes DEF TypeOK, Labels, locals, flash
  <1>1. CASE StartRun
    <2>1. base' \in [marked: SUBSET Blocks, cell: [Blocks -> [Pages -> Cells]]]
      BY <1>1 DEF StartRun
    <2>2. oldregs' \in Regs
      BY <1>1, CwValues DEF StartRun, ResetRegs, Regs
    <2>3. opt' \in Options /\ file' \in Seq(PageKinds)
      BY <1>1 DEF StartRun
    <2>4. run' \in 1 .. MaxRuns /\ page' \in 0 .. Ppb
      BY <1>1 DEF StartRun
    <2>5. badflag' \in BOOLEAN
      BY <1>1 DEF StartRun
    <2>6. QED
      BY <1>1, <2>1, <2>2, <2>3, <2>4, <2>5 DEF StartRun
  <1>2. CASE CheckArgs
    BY <1>2 DEF CheckArgs
  <1>3. CASE Hello
    <2>1. regs' \in Regs
      <3>1. RepairedCw(regs.cw) \in 0 .. 15
        BY CwValues DEF Regs, RepairedCw
      <3>2. regs' = [regs EXCEPT !.cw = RepairedCw(regs.cw)]
        BY <1>3 DEF Hello
      <3>3. QED
        BY <3>1, <3>2 DEF Regs
    <2>2. EraseLen \in Int /\ opt.start \in Nat
      BY DEF EraseLen, CappedLen, StopBlock, Options, ToEnd
    <2>3. QED
      BY <1>3, <2>1, <2>2 DEF Hello
  <1>4. CASE SetEcc
    BY ZenonT(60), <1>4 DEF SetEcc, Regs
  <1>5. CASE OpenFile
    <2>1. /\ opt.start \in Nat /\ opt.off \in Nat /\ opt.len \in Nat
          /\ StopBlock \in Int
      BY DEF Options, StopBlock, ToEnd
    <2>2. opt.off * Ppb \in Nat
      BY <2>1
    <2>3. FileBlocks \in Int
      BY <2>2 DEF FileBlocks
    <2>4. CappedLen(WantedLen) \in Int
      BY <2>1, <2>3 DEF CappedLen, WantedLen
    <2>5. regs' \in Regs
      BY <1>5 DEF OpenFile, Regs
    <2>6. QED
      BY <1>5, <2>1, <2>2, <2>4, <2>5 DEF OpenFile
  <1>5a. CASE EraseModeBlock
    <2>1. pc' \in Labels /\ block' \in Nat
      <3>1. CASE ~InArea
        BY <1>5a, <3>1 DEF EraseModeBlock
      <3>2. CASE InArea
        <4>1. PICK bad \in IF Has("ub") THEN {FALSE} ELSE CheckBlock(block) :
                IF bad THEN block' = block + 1 /\ UNCHANGED pc
                       ELSE pc' = "erase1" /\ UNCHANGED block
          BY <1>5a, <3>2 DEF EraseModeBlock
        <4>2. CASE bad
          BY <4>1, <4>2
        <4>3. CASE ~bad
          BY <4>1, <4>3
        <4>4. QED
          BY <4>2, <4>3
      <3>3. QED
        BY <3>1, <3>2
    <2>2. QED
      BY <1>5a, <2>1 DEF EraseModeBlock
  <1>6. CASE EndOfArea
    BY <1>6 DEF EndOfArea
  <1>7. CASE SkipBadBlock
    BY <1>7 DEF SkipBadBlock
  <1>8. CASE EnterBlock
    <2>1. PICK bad \in IF Has("ux") \/ Has("ub") THEN {FALSE} ELSE CheckBlock(block) :
            badflag' = bad
      BY <1>8 DEF EnterBlock, EnterBlockIf
    <2>2. badflag' \in BOOLEAN
      BY <2>1 DEF CheckBlock
    <2>3. pc' \in Labels /\ page' \in 0 .. Ppb
      BY <1>8 DEF EnterBlock, EnterBlockIf
    <2>4. QED
      BY <1>8, <2>2, <2>3 DEF EnterBlock, EnterBlockIf
  <1>9. CASE EraseSetCfg
    <2>1. regs.cw \in 0 .. 15 => EraseCw(regs.cw) \in 0 .. 15
      BY DEF EraseCw
    <2>2. regs' \in Regs
      BY <1>9, <2>1 DEF EraseSetCfg, Regs
    <2>3. QED
      BY <1>9, <2>2 DEF EraseSetCfg
  <1>10. CASE EraseExec
    BY <1>10 DEF EraseExec, ErasedBlock, Cells
  <1>11. CASE EraseRestore
    <2>1. regs' \in Regs
      BY <1>11 DEF EraseRestore, RestoreCfg0, Regs
    <2>2. QED
      BY <1>11, <2>1 DEF EraseRestore
  <1>12. CASE EndOfBlock
    BY <1>12 DEF EndOfBlock
  <1>13. CASE EndOfFile
    BY <1>13 DEF EndOfFile
  <1>14. CASE SkipPage
    BY <1>14 DEF SkipPage, SkipPageIf, MorePages
  <1>15. CASE SimulateBad
    BY <1>15 DEF SimulateBad, SimulateBadIf, MorePages
  <1>16. CASE Mismatch
    BY <1>16 DEF Mismatch
  <1>17. CASE TakePage
    BY <1>17 DEF TakePage, TakePageIf
  <1>18. CASE MarkSetCfg
    BY ZenonT(60), <1>18 DEF MarkSetCfg, Regs
  <1>19. CASE MarkWrite
    <2>1. block \in Blocks /\ BadMark \in Cells
      BY <1>19, BlockInFlash DEF MarkWrite, BlockLabels, Cells
    <2>2. marked' \in SUBSET Blocks
      BY <1>19, <2>1 DEF MarkWrite
    <2>3. cell' \in [Blocks -> [Pages -> Cells]]
      BY <1>19, <2>1 DEF MarkWrite
    <2>4. QED
      BY <1>19, <2>2, <2>3 DEF MarkWrite
  <1>20. CASE MarkRestore
    <2>1. regs' \in Regs
      BY <1>20 DEF MarkRestore, RestoreCfg1, Regs
    <2>2. page' \in 0 .. Ppb
      BY <1>20 DEF MarkRestore, Bounds, MarkLabels
    <2>3. QED
      BY <1>20, <2>1, <2>2 DEF MarkRestore
  <1>21. CASE ProgramSectors
    <2>1. cell' \in [Blocks -> [Pages -> Cells]]
      BY <1>21 DEF ProgramSectors, Cells
    <2>2. regs' \in Regs
      BY <1>21 DEF ProgramSectors, Regs
    <2>3. QED
      BY <1>21, <2>1, <2>2 DEF ProgramSectors
  <1>22. CASE ProgramDone
    <2>1. block \in Blocks /\ fpos \in Cells /\ page < Ppb
      BY <1>22, BlockInFlash DEF ProgramDone, Bounds, ProgLabels, MarkLabels, BlockLabels, Cells
    <2>2. marked' \in SUBSET Blocks
      BY <1>22, <2>1 DEF ProgramDone, MarkedAfterPage
    <2>3. cell' \in [Blocks -> [Pages -> Cells]]
      BY <1>22, <2>1 DEF ProgramDone
    <2>4. regs' \in Regs
      BY <1>22 DEF ProgramDone, Regs
    <2>5. QED
      BY <1>22, <2>1, <2>2, <2>3, <2>4 DEF ProgramDone
  <1>23. CASE RestoreRegs
    BY <1>23 DEF RestoreRegs
  <1>24. CASE Kill
    BY <1>24, KillFlash DEF Kill
  <1>25. CASE UNCHANGED vars
    BY <1>25 DEF vars
  <1>26. QED
    BY <1>1, <1>2, <1>3, <1>4, <1>5, <1>5a, <1>6, <1>7, <1>8, <1>9, <1>10, <1>11, <1>12,
       <1>13, <1>14, <1>15, <1>16, <1>17, <1>18, <1>19, <1>20, <1>21, <1>22, <1>23,
       <1>24, <1>25 DEF Next, Step, Finished

LEMMA NextBounds == TypeOK /\ Bounds /\ [Next]_vars => Bounds'
  <1> SUFFICES ASSUME TypeOK, Bounds, [Next]_vars PROVE Bounds'
    OBVIOUS
  <1>0. /\ opt.start \in Nat /\ flen \in Int /\ block \in Nat /\ StopBlock \in Int
        /\ opt.off \in Nat /\ opt.len \in Nat /\ opt.erase \in Nat
        /\ page \in 0 .. Ppb /\ fpos \in Nat /\ Ppb \in Nat \ {0} /\ MaxBlock \in Nat \ {0}
    BY ConstantTypes DEF TypeOK, Options, StopBlock, ToEnd
  <1>00. \A n \in Int : CappedLen(n) \in Int /\ opt.start + CappedLen(n) <= StopBlock
    BY <1>0 DEF CappedLen
  <1> USE DEF Bounds, AreaLabels, BlockLabels, MarkLabels, ProgLabels, locals, flash
  <1> HIDE DEF CappedLen
  <1>1. CASE StartRun
    BY <1>1 DEF StartRun, Ended
  <1>2. CASE CheckArgs
    BY <1>2 DEF CheckArgs
  <1>3. CASE Hello
    <2>1. CASE opt.start > MaxBlock \/ StopBlock > MaxBlock
      BY <1>3, <2>1 DEF Hello
    <2>2. CASE ~(opt.start > MaxBlock \/ StopBlock > MaxBlock)
      <3>1. opt' = opt /\ StopBlock' = StopBlock
        BY <1>3 DEF Hello, StopBlock
      <3>2. opt.start <= StopBlock /\ StopBlock <= MaxBlock
        BY <1>0, <1>3, <2>2 DEF Hello, StopBlock
      <3>3. opt.start + EraseLen <= StopBlock
        BY <1>0, <1>00 DEF EraseLen
      <3>4. CASE opt.erase > 0
        BY <1>3, <2>2, <3>1, <3>2, <3>3, <3>4, <1>0 DEF Hello
      <3>5. CASE ~(opt.erase > 0)
        BY <1>3, <2>2, <3>1, <3>2, <3>5, <1>0 DEF Hello
      <3>6. QED
        BY <3>4, <3>5
    <2>3. QED
      BY <2>1, <2>2
  <1>4. CASE SetEcc
    BY <1>4 DEF SetEcc, StopBlock
  <1>5. CASE OpenFile
    <2>1. CASE FileRefused
      BY <1>5, <2>1 DEF OpenFile
    <2>2. CASE ~FileRefused
      <3>1. Len(file) \in Nat /\ opt.off * Ppb \in Nat
        BY <1>0 DEF TypeOK
      <3>2. WantedLen \in Int
        BY SMTT(60), <1>0, <3>1 DEF WantedLen, FileBlocks
      <3>3. opt.start + CappedLen(WantedLen) <= StopBlock
        BY <3>2, <1>00
      <3>4. QED
        BY <1>5, <2>2, <3>3, <1>0 DEF OpenFile, StopBlock
    <2>3. QED
      BY <2>1, <2>2
  <1>6. CASE EraseModeBlock
    <2>1. opt' = opt /\ StopBlock' = StopBlock /\ flen' = flen
      BY <1>6 DEF EraseModeBlock, StopBlock
    <2>2. CASE ~InArea
      BY <1>6, <2>1, <2>2 DEF EraseModeBlock
    <2>3. CASE InArea
      <3>1. PICK bad \in IF Has("ub") THEN {FALSE} ELSE CheckBlock(block) :
              IF bad THEN block' = block + 1 /\ UNCHANGED pc
                     ELSE pc' = "erase1" /\ UNCHANGED block
        BY <1>6, <2>3 DEF EraseModeBlock
      <3>2. CASE bad
        BY <1>0, <1>6, <2>1, <2>3, <3>1, <3>2 DEF EraseModeBlock
      <3>3. CASE ~bad
        BY <1>0, <1>6, <2>1, <2>3, <3>1, <3>3 DEF EraseModeBlock, InArea
      <3>4. QED
        BY <3>2, <3>3
    <2>4. QED
      BY <2>2, <2>3
  <1>7. CASE EndOfArea
    BY <1>7 DEF EndOfArea, StopBlock
  <1>8. CASE SkipBadBlock
    BY <1>0, <1>8 DEF SkipBadBlock, InArea, LastBlockLost, StopBlock
  <1>9. CASE EnterBlock
    <2>1. /\ pc = "block" /\ pc' \in {"page", "erase1"} /\ page' = 0 /\ InArea
          /\ opt.erase = 0
          /\ UNCHANGED <<opt, block, flen>>
      BY <1>9 DEF EnterBlock, EnterBlockIf
    <2>2. QED
      BY <2>1, <1>0 DEF InArea, StopBlock
  <1>10. CASE EraseSetCfg
    BY <1>0, <1>10 DEF EraseSetCfg, InArea, StopBlock
  <1>11. CASE EraseExec
    BY <1>0, <1>11 DEF EraseExec, InArea, StopBlock
  <1>12. CASE EraseRestore
    BY <1>0, <1>12 DEF EraseRestore, InArea, StopBlock
  <1>13. CASE EndOfBlock
    BY <1>0, <1>13 DEF EndOfBlock, InArea, StopBlock
  <1>14. CASE EndOfFile
    BY <1>0, <1>14 DEF EndOfFile, MorePages, InArea, StopBlock
  <1>15. CASE SkipPage
    BY <1>0, <1>15 DEF SkipPage, SkipPageIf, MorePages, InArea, StopBlock
  <1>16. CASE SimulateBad
    <2>1. /\ pc = "page" /\ pc' \in {"page", "mark1"} /\ page < Ppb /\ page = 0
          /\ pc' = "mark1" => page' = page
          /\ UNCHANGED <<opt, block, flen>>
      BY <1>16 DEF SimulateBad, SimulateBadIf, MorePages
    <2>2. QED
      BY <2>1, <1>0 DEF InArea, StopBlock
  <1>17. CASE Mismatch
    BY <1>17 DEF Mismatch
  <1>18. CASE TakePage
    BY <1>0, <1>18 DEF TakePage, TakePageIf, MorePages, InArea, StopBlock
  <1>19. CASE MarkSetCfg
    BY <1>0, <1>19 DEF MarkSetCfg, InArea, StopBlock
  <1>20. CASE MarkWrite
    BY <1>0, <1>20 DEF MarkWrite, InArea, StopBlock
  <1>21. CASE MarkRestore
    BY <1>0, <1>21 DEF MarkRestore, InArea, StopBlock
  <1>22. CASE ProgramSectors
    BY <1>0, <1>22 DEF ProgramSectors, InArea, StopBlock
  <1>23. CASE ProgramDone
    BY <1>0, <1>23 DEF ProgramDone, InArea, StopBlock
  <1>24. CASE RestoreRegs
    BY <1>24 DEF RestoreRegs
  <1>25. CASE Kill
    BY <1>25 DEF Kill
  <1>26. CASE UNCHANGED vars
    BY <1>26 DEF vars, InArea, StopBlock
  <1>27. QED
    BY <1>1, <1>2, <1>3, <1>4, <1>5, <1>6, <1>7, <1>8, <1>9, <1>10, <1>11, <1>12,
       <1>13, <1>14, <1>15, <1>16, <1>17, <1>18, <1>19, <1>20, <1>21, <1>22, <1>23,
       <1>24, <1>25, <1>26 DEF Next, Step, Finished

\* Every variable keeps its type, and the block and page loops stay within
\* the write area and the block, for every flash, image and command line.
THEOREM TypeCorrect == Spec => [](TypeOK /\ Bounds)
  <1>1. Init => TypeOK /\ Bounds
    BY InitBounds
  <1>2. TypeOK /\ Bounds /\ [Next]_vars => (TypeOK /\ Bounds)'
    BY NextType, NextBounds
  <1>3. QED
    BY <1>1, <1>2, PTL DEF Spec

-----------------------------------------------------------------------------
(* Bad blocks, erased pages, the area and the registers.                   *)

CleanFrom(q) == \A p \in Pages : p >= q => cell[block][p] = Erased

\* Marker reports can be trusted whenever a check may be made.
ChecksReliable ==
    Trusted /\ ~Has("ux") /\ pc \notin Ended =>
        IF pc \in {"mark2", "mark3"} THEN oldregs.bad ELSE regs.bad

\* What is about to be erased is not marked.
EraseAllowed ==
    pc \in {"erase1", "erase2"} /\ Trusted /\ ~Has("ub") /\ ~Has("ux") => block \notin marked

\* Pages still to be visited are erased, in a block that will be written.
PagesClean ==
    /\ pc = "page" /\ ~badflag => CleanFrom(page)
    /\ pc \in {"prog1", "mark1", "mark2"} => CleanFrom(page)
    /\ pc \in {"prog2", "mark3"} => CleanFrom(page + 1)
    /\ pc = "erase3" => CleanFrom(0)
    /\ pc \in {"erase1", "erase2", "erase3"} /\ opt.erase = 0 => page = 0

\* The erase mode changes one register, and only around an erase.
RegsTracked ==
    /\ pc = "done" => regs = saved
    /\ pc \in {"block", "erase1"} /\ opt.erase > 0 => regs = saved
    /\ pc \in {"erase2", "erase3"} /\ opt.erase > 0 =>
         oldregs = saved /\ regs = [saved EXCEPT !.cw = EraseCw(@)]

\* CFG0.CW_PER_PAGE is that of the chip or that of an erase, and hello() lets no run
\* go on with a field that is 0.
CwKept ==
    /\ CwKnown(regs.cw) /\ CwKnown(oldregs.cw) /\ CwKnown(saved.cw)
    /\ pc \notin {"args", "hello"} \cup Ended => WholePage(saved.cw)
    /\ pc = "done" => WholePage(saved.cw)

Safe == ChecksReliable /\ EraseAllowed /\ PagesClean /\ RegsTracked /\ InsideArea /\ CwKept

LEMMA InitSafe == Init => Safe
  <1> SUFFICES ASSUME Init PROVE Safe
    OBVIOUS
  <1>1. pc = "args" /\ saved = regs
    BY DEF Init
  <1>2. ChecksReliable
    BY <1>1 DEF ChecksReliable, Trusted
  <1>3. EraseAllowed /\ PagesClean /\ RegsTracked
    BY <1>1 DEF EraseAllowed, PagesClean, RegsTracked
  <1>4. InsideArea
    BY DEF Init, InsideArea
  <1>4a. CwKept
    BY CwValues DEF Init, CwKept, ResetRegs
  <1>5. QED
    BY <1>2, <1>3, <1>4, <1>4a DEF Safe

LEMMA NextCwKept == TypeOK /\ Bounds /\ CwKept /\ [Next]_vars => CwKept'
  <1> SUFFICES ASSUME TypeOK, Bounds, CwKept, [Next]_vars PROVE CwKept'
    OBVIOUS
  <1>0. /\ regs \in Regs /\ oldregs \in Regs /\ saved \in Regs
        /\ regs.cw \in 0 .. 15 /\ oldregs.cw \in 0 .. 15 /\ saved.cw \in 0 .. 15
    BY DEF TypeOK, Regs
  <1>00. ResetRegs.cw = Spp - 1
    BY DEF ResetRegs
  <1> USE DEF CwKept, Ended, locals, flash
  <1>1. CASE StartRun
    BY <1>00, <1>1, CwValues DEF StartRun
  <1>2. CASE Hello
    <2>1. regs'.cw = RepairedCw(regs.cw)
      BY <1>0, <1>2 DEF Hello, Regs
    <2>2. CwKnown(regs'.cw) /\ WholePage(regs'.cw)
      BY <1>0, <2>1, CwValues
    <2>3. (saved' = saved /\ pc' = "exit") \/ saved' = regs'
      BY <1>2 DEF Hello
    <2>4. oldregs' = oldregs
      BY <1>2 DEF Hello
    <2>5. QED
      BY <2>2, <2>3, <2>4
  <1>3. CASE EraseSetCfg
    <2>1. regs'.cw = EraseCw(regs.cw)
      BY <1>0, <1>3 DEF EraseSetCfg, Regs
    <2>2. QED
      BY <1>0, <1>3, <2>1, CwValues DEF EraseSetCfg
  <1>4. CASE EraseRestore
    <2>1. regs'.cw = oldregs.cw
      BY <1>0, <1>4 DEF EraseRestore, RestoreCfg0, Regs
    <2>2. QED
      BY <1>4, <2>1 DEF EraseRestore
  <1>5. CASE RestoreRegs
    BY <1>5 DEF RestoreRegs
  <1>6. CASE Kill
    <2>1. \A r \in CutRegs : r.cw \in {regs.cw, saved.cw}
      <3>1. CASE pc = "endpage"
        BY <1>0, <3>1 DEF CutRegs, Regs
      <3>2. CASE pc # "endpage"
        BY <1>0, <3>2 DEF CutRegs, Regs
      <3>3. QED
        BY <3>1, <3>2
    <2>2. regs'.cw \in {regs.cw, saved.cw}
      BY <1>6, <2>1 DEF Kill
    <2>3. QED
      BY <1>6, <2>2 DEF Kill
  <1>7. ASSUME regs'.cw = regs.cw, UNCHANGED saved, oldregs' = oldregs \/ oldregs' = regs,
               pc \notin {"args", "hello"} \cup Ended \/ pc' \in {"args", "hello", "exit", "killed"}
        PROVE  CwKept'
    BY <1>7
  <1>8. CASE SetEcc \/ OpenFile
    BY <1>0, <1>7, <1>8 DEF SetEcc, OpenFile, Regs
  <1>9. CASE MarkSetCfg \/ MarkRestore
    BY <1>0, <1>7, <1>9 DEF MarkSetCfg, MarkRestore, RestoreCfg1, Regs
  <1>10. CASE ProgramSectors \/ ProgramDone
    BY <1>0, <1>7, <1>10 DEF ProgramSectors, ProgramDone, Regs
  <1>11. CASE CheckArgs \/ EraseModeBlock \/ EndOfArea \/ SkipBadBlock
    BY <1>7, <1>11 DEF CheckArgs, EraseModeBlock, EndOfArea, SkipBadBlock
  <1>12. CASE EnterBlock \/ EraseExec \/ EndOfBlock \/ EndOfFile \/ Mismatch
    BY <1>7, <1>12 DEF EnterBlock, EnterBlockIf, EraseExec, EndOfBlock, EndOfFile, Mismatch, MorePages
  <1>13. CASE SkipPage \/ SimulateBad \/ TakePage \/ MarkWrite
    BY <1>7, <1>13 DEF SkipPage, SkipPageIf, SimulateBad, SimulateBadIf, TakePage, TakePageIf,
       MorePages, MarkWrite
  <1>14. CASE UNCHANGED vars
    BY <1>14 DEF vars
  <1>15. QED
    BY <1>1, <1>2, <1>3, <1>4, <1>5, <1>6, <1>8, <1>9, <1>10, <1>11, <1>12, <1>13, <1>14
       DEF Next, Step, Finished

LEMMA NextChecksReliable == TypeOK /\ Safe /\ [Next]_vars => ChecksReliable'
  <1> SUFFICES ASSUME TypeOK, ChecksReliable, [Next]_vars PROVE ChecksReliable'
    BY DEF Safe
  <1> USE DEF ChecksReliable, Trusted, Has, Ended, locals, flash, TypeOK, Regs
  <1>1. CASE StartRun
    BY <1>1 DEF StartRun
  <1>2. CASE Hello
    BY <1>2 DEF Hello
  <1>3. CASE SetEcc
    BY <1>3 DEF SetEcc
  <1>4. CASE OpenFile
    BY <1>4 DEF OpenFile
  <1>5. CASE EraseSetCfg \/ EraseRestore
    BY <1>5 DEF EraseSetCfg, EraseRestore, RestoreCfg0
  <1>6. CASE MarkSetCfg \/ MarkWrite
    BY <1>6 DEF MarkSetCfg, MarkWrite
  <1>7. CASE MarkRestore
    BY <1>7 DEF MarkRestore, RestoreCfg1
  <1>8. CASE ProgramSectors \/ ProgramDone
    BY <1>8 DEF ProgramSectors, ProgramDone
  <1>9. CASE RestoreRegs \/ Kill
    BY <1>9 DEF RestoreRegs, Kill
  <1>10. CASE CheckArgs \/ EraseModeBlock \/ EndOfArea \/ SkipBadBlock
    BY <1>10 DEF CheckArgs, EraseModeBlock, EndOfArea, SkipBadBlock
  <1>11. CASE EnterBlock
    BY <1>11 DEF EnterBlock, EnterBlockIf
  <1>12. CASE EraseExec \/ EndOfBlock \/ EndOfFile \/ Mismatch
    BY <1>12 DEF EraseExec, EndOfBlock, EndOfFile, Mismatch, MorePages
  <1>13. CASE SkipPage \/ SimulateBad \/ TakePage
    BY <1>13 DEF SkipPage, SkipPageIf, SimulateBad, SimulateBadIf, TakePage, TakePageIf, MorePages
  <1>14. CASE UNCHANGED vars
    BY <1>14 DEF vars
  <1>15. QED
    BY <1>1, <1>2, <1>3, <1>4, <1>5, <1>6, <1>7, <1>8, <1>9, <1>10, <1>11, <1>12, <1>13,
       <1>14 DEF Next, Step, Finished

LEMMA NextEraseAllowed == TypeOK /\ Safe /\ [Next]_vars => EraseAllowed'
  <1> SUFFICES ASSUME TypeOK, ChecksReliable, EraseAllowed, [Next]_vars,
                      pc' \in {"erase1", "erase2"}, Trusted', ~Has("ub")', ~Has("ux")'
               PROVE  block' \notin marked'
    BY DEF Safe, EraseAllowed
  <1> USE DEF Trusted, Has, locals, flash
  <1>1. CASE EnterBlock
    <2>1. regs.bad /\ pc = "block"
      BY <1>1 DEF ChecksReliable, EnterBlock, EnterBlockIf, Ended
    <2>2. CheckBlock(block) = {block \in marked}
      BY <2>1 DEF CheckBlock
    <2>3. PICK bad \in CheckBlock(block) :
            pc' = IF (bad /\ Has("ub")) \/ (~bad /\ TRUE) THEN "erase1" ELSE "page"
      BY <1>1 DEF EnterBlock, EnterBlockIf
    <2>4. ~bad
      BY <1>1, <2>3 DEF EnterBlock, EnterBlockIf
    <2>5. block \notin marked
      BY <2>2, <2>3, <2>4
    <2>6. QED
      BY <1>1, <2>5 DEF EnterBlock, EnterBlockIf
  <1>2. CASE EraseModeBlock
    <2>1. regs.bad /\ pc = "block" /\ InArea
      BY <1>2 DEF ChecksReliable, EraseModeBlock, Ended
    <2>2. CheckBlock(block) = {block \in marked}
      BY <2>1 DEF CheckBlock
    <2>3. PICK bad \in CheckBlock(block) :
            IF bad THEN block' = block + 1 /\ UNCHANGED pc
                   ELSE pc' = "erase1" /\ UNCHANGED block
      BY <1>2, <2>1 DEF EraseModeBlock
    <2>4. ~bad
      BY <2>1, <2>3
    <2>5. block \notin marked /\ block' = block
      BY <2>2, <2>3, <2>4
    <2>6. QED
      BY <1>2, <2>5 DEF EraseModeBlock
  <1>3. CASE EraseSetCfg
    BY <1>3 DEF EraseSetCfg, EraseAllowed
  <1>4. CASE UNCHANGED vars
    BY <1>4 DEF vars, EraseAllowed
  <1>5. CASE StartRun \/ CheckArgs \/ Hello \/ SetEcc \/ OpenFile
    BY <1>5 DEF StartRun, CheckArgs, Hello, SetEcc, OpenFile
  <1>6. CASE EndOfArea \/ SkipBadBlock \/ EraseExec \/ EraseRestore \/ RestoreRegs \/ Kill
    BY <1>6 DEF EndOfArea, SkipBadBlock, EraseExec, EraseRestore, RestoreRegs, Kill
  <1>7. CASE EndOfBlock \/ EndOfFile \/ SkipPage \/ SimulateBad \/ Mismatch \/ TakePage
    BY <1>7 DEF EndOfBlock, EndOfFile, SkipPage, SkipPageIf, SimulateBad, SimulateBadIf,
       Mismatch, TakePage, TakePageIf, MorePages
  <1>8. CASE MarkSetCfg \/ MarkWrite \/ MarkRestore \/ ProgramSectors \/ ProgramDone
    BY <1>8 DEF MarkSetCfg, MarkWrite, MarkRestore, ProgramSectors, ProgramDone
  <1>9. QED
    BY <1>1, <1>2, <1>3, <1>4, <1>5, <1>6, <1>7, <1>8 DEF Next, Step, Finished

LEMMA NextPagesClean == TypeOK /\ Bounds /\ Safe /\ [Next]_vars => PagesClean'
  <1> SUFFICES ASSUME TypeOK, Bounds, PagesClean, [Next]_vars PROVE PagesClean'
    BY DEF Safe
  <1>0. /\ page \in 0 .. Ppb /\ page \in Int /\ \A p \in Pages : p \in Int /\ p >= 0
        /\ cell \in [Blocks -> [Pages -> Cells]] /\ Ppb \in Nat \ {0} /\ 0 \in Pages
    BY ConstantTypes DEF TypeOK, Pages
  <1> USE DEF PagesClean, CleanFrom, locals, flash
  <1>1. CASE EraseExec
    <2>1. block \in Blocks
      BY <1>1, BlockInFlash DEF EraseExec, BlockLabels
    <2>2. cell'[block] = ErasedBlock
      BY <1>0, <1>1, <2>1 DEF EraseExec
    <2>3. \A p \in Pages : cell'[block][p] = Erased
      BY <2>2 DEF ErasedBlock
    <2>4. QED
      BY <1>0, <1>1, <2>3 DEF EraseExec
  <1>2. CASE EraseRestore
    BY <1>0, <1>2 DEF EraseRestore
  <1>3. CASE EraseSetCfg
    BY <1>0, <1>3 DEF EraseSetCfg
  <1>4. CASE EnterBlock
    <2>1. /\ pc' \in {"page", "erase1"} /\ page' = 0 /\ opt.erase = 0
          /\ pc' = "page" => badflag'
      BY <1>4 DEF EnterBlock, EnterBlockIf
    <2>2. QED
      BY <2>1
  <1>5. CASE EraseModeBlock
    <2>1. opt.erase > 0 /\ opt' = opt /\ pc' \in {"block", "done", "erase1"}
      BY <1>5 DEF EraseModeBlock
    <2>2. opt.erase # 0
      BY <2>1
    <2>3. QED
      BY <2>1, <2>2
  <1>6. CASE SkipPage
    BY <1>0, <1>6 DEF SkipPage, SkipPageIf, MorePages
  <1>7. CASE SimulateBad
    <2>1. /\ pc = "page" /\ ~badflag /\ UNCHANGED <<block, badflag, cell, opt>>
          /\ \/ pc' = "page" /\ page' = page + 1
             \/ pc' = "mark1" /\ page' = page
      BY <1>7 DEF SimulateBad, SimulateBadIf, MorePages
    <2>2. QED
      BY <1>0, <2>1
  <1>8. CASE TakePage
    BY <1>0, <1>8 DEF TakePage, TakePageIf, MorePages
  <1>9. CASE MarkSetCfg
    BY <1>0, <1>9 DEF MarkSetCfg
  <1>10. CASE MarkWrite
    <2>1. block \in Blocks /\ page = 0
      BY <1>10, BlockInFlash DEF MarkWrite, BlockLabels, Bounds, MarkLabels
    <2>2. \A p \in Pages : p # 0 => cell'[block][p] = cell[block][p]
      BY <1>0, <1>10, <2>1 DEF MarkWrite
    <2>3. QED
      BY <1>0, <1>10, <2>1, <2>2 DEF MarkWrite
  <1>11. CASE MarkRestore
    BY <1>0, <1>11 DEF MarkRestore
  <1>12. CASE ProgramSectors
    <2>1. block \in Blocks /\ page \in Pages
      BY <1>0, <1>12, BlockInFlash DEF ProgramSectors, BlockLabels, Bounds, ProgLabels, MarkLabels, Pages
    <2>2. \A p \in Pages : p # page => cell'[block][p] = cell[block][p]
      BY <1>0, <1>12, <2>1 DEF ProgramSectors
    <2>3. QED
      BY <1>0, <1>12, <2>2 DEF ProgramSectors
  <1>13. CASE ProgramDone
    <2>1. block \in Blocks /\ page \in Pages
      BY <1>0, <1>13, BlockInFlash DEF ProgramDone, BlockLabels, Bounds, ProgLabels, MarkLabels, Pages
    <2>2. \A p \in Pages : p # page => cell'[block][p] = cell[block][p]
      BY <1>0, <1>13, <2>1 DEF ProgramDone
    <2>3. QED
      BY <1>0, <1>13, <2>2 DEF ProgramDone
  <1>14. CASE StartRun \/ CheckArgs \/ Hello \/ SetEcc \/ OpenFile
    BY <1>14 DEF StartRun, CheckArgs, Hello, SetEcc, OpenFile
  <1>15. CASE EndOfArea \/ SkipBadBlock \/ EndOfBlock \/ EndOfFile \/ Mismatch
    BY <1>15 DEF EndOfArea, SkipBadBlock, EndOfBlock, EndOfFile, Mismatch, MorePages
  <1>16. CASE RestoreRegs \/ Kill
    BY <1>16 DEF RestoreRegs, Kill
  <1>17. CASE UNCHANGED vars
    BY <1>17 DEF vars
  <1>18. QED
    BY <1>1, <1>2, <1>3, <1>4, <1>5, <1>6, <1>7, <1>8, <1>9, <1>10, <1>11, <1>12, <1>13,
       <1>14, <1>15, <1>16, <1>17 DEF Next, Step, Finished

LEMMA NextRegsTracked == TypeOK /\ Bounds /\ Safe /\ [Next]_vars => RegsTracked'
  <1> SUFFICES ASSUME TypeOK, Bounds, RegsTracked, [Next]_vars PROVE RegsTracked'
    BY DEF Safe
  <1>0. opt.erase \in Nat /\ regs \in Regs /\ saved \in Regs
    BY DEF TypeOK, Options
  <1> USE DEF RegsTracked, locals, flash
  <1>1. CASE Hello
    BY <1>0, <1>1 DEF Hello
  <1>2. CASE EraseModeBlock
    <2>1. /\ opt.erase > 0 /\ pc = "block" /\ pc' \in {"block", "done", "erase1"}
          /\ UNCHANGED <<opt, saved, regs>>
      BY <1>2 DEF EraseModeBlock
    <2>2. QED
      BY <2>1
  <1>3. CASE EraseSetCfg
    BY <1>0, <1>3 DEF EraseSetCfg
  <1>4. CASE EraseExec
    BY <1>4 DEF EraseExec
  <1>5. CASE EraseRestore
    <2>1. CASE opt.erase > 0
      <3>1. regs' = saved
        BY <1>0, <1>5, <2>1 DEF EraseRestore, RestoreCfg0, Regs
      <3>2. QED
        BY <1>5, <2>1, <3>1 DEF EraseRestore
    <2>2. CASE ~(opt.erase > 0)
      BY <1>5, <2>2 DEF EraseRestore
    <2>3. QED
      BY <2>1, <2>2
  <1>6. CASE OpenFile
    <2>1. pc = "open" /\ pc' \in {"block", "exit"} /\ opt' = opt
      BY <1>6 DEF OpenFile
    <2>2. opt.erase = 0
      BY <2>1 DEF Bounds
    <2>3. QED
      BY <2>1, <2>2
  <1>7. CASE EndOfBlock
    BY <1>7 DEF EndOfBlock, Bounds
  <1>8. CASE RestoreRegs
    BY <1>8 DEF RestoreRegs
  <1>9. CASE SkipBadBlock \/ EndOfArea
    BY <1>9 DEF SkipBadBlock, EndOfArea
  <1>10. CASE EnterBlock
    <2>1. /\ pc' \in {"page", "erase1"} /\ opt.erase = 0 /\ opt' = opt
      BY <1>10 DEF EnterBlock, EnterBlockIf
    <2>2. QED
      BY <2>1
  <1>11. CASE StartRun \/ CheckArgs \/ SetEcc \/ Kill
    BY <1>11 DEF StartRun, CheckArgs, SetEcc, Kill
  <1>12. CASE EndOfFile \/ SkipPage \/ SimulateBad \/ Mismatch \/ TakePage
    BY <1>12 DEF EndOfFile, SkipPage, SkipPageIf, SimulateBad, SimulateBadIf, Mismatch,
       TakePage, TakePageIf, MorePages
  <1>13. CASE MarkSetCfg \/ MarkWrite \/ MarkRestore \/ ProgramSectors \/ ProgramDone
    BY <1>13 DEF MarkSetCfg, MarkWrite, MarkRestore, ProgramSectors, ProgramDone
  <1>14. CASE UNCHANGED vars
    BY <1>14 DEF vars
  <1>15. QED
    BY <1>1, <1>2, <1>3, <1>4, <1>5, <1>6, <1>7, <1>8, <1>9, <1>10, <1>11, <1>12, <1>13,
       <1>14 DEF Next, Step, Finished

LEMMA NextInsideArea == TypeOK /\ Bounds /\ Safe /\ [Next]_vars => InsideArea'
  <1> SUFFICES ASSUME TypeOK, Bounds, InsideArea, [Next]_vars PROVE InsideArea'
    BY DEF Safe
  <1>0. cell \in [Blocks -> [Pages -> Cells]]
    BY DEF TypeOK
  <1>1. CASE StartRun
    BY <1>1 DEF StartRun, InsideArea, flash
  <1>2. CASE pc \in {"erase2", "mark2", "prog1", "prog2"} /\ UNCHANGED <<opt, base, block>>
             /\ (\A b \in Blocks : b # block => cell'[b] = cell[b])
             /\ (\A b \in Blocks : b # block => (b \in marked' <=> b \in marked))
    <2>1. block \in Area /\ Area' = Area
      BY <1>2, BlockInFlash DEF BlockLabels, Area, StopBlock
    <2>2. QED
      BY <1>2, <2>1 DEF InsideArea
  <1>3. CASE UNCHANGED <<opt, base, cell, marked>>
    BY <1>3 DEF InsideArea, Area, StopBlock
  <1>4. CASE EraseExec
    BY <1>0, <1>2, <1>4 DEF EraseExec, locals
  <1>5. CASE MarkWrite
    BY <1>0, <1>2, <1>5 DEF MarkWrite, locals
  <1>6. CASE ProgramSectors
    BY <1>0, <1>2, <1>6 DEF ProgramSectors, locals
  <1>7. CASE ProgramDone
    BY <1>0, <1>2, <1>7 DEF ProgramDone, MarkedAfterPage, locals
  <1>8. CASE CheckArgs \/ Hello \/ SetEcc \/ OpenFile \/ EraseModeBlock \/ EndOfArea
             \/ SkipBadBlock
    BY <1>3, <1>8 DEF CheckArgs, Hello, SetEcc, OpenFile, EraseModeBlock, EndOfArea,
       SkipBadBlock, locals, flash
  <1>9. CASE EnterBlock \/ EraseSetCfg \/ EraseRestore \/ EndOfBlock \/ EndOfFile
    BY <1>3, <1>9 DEF EnterBlock, EnterBlockIf, EraseSetCfg, EraseRestore, EndOfBlock,
       EndOfFile, locals, flash
  <1>10. CASE SkipPage \/ SimulateBad \/ Mismatch \/ TakePage
    BY <1>3, <1>10 DEF SkipPage, SkipPageIf, SimulateBad, SimulateBadIf, Mismatch, TakePage,
       TakePageIf, locals, flash
  <1>10a. CASE Kill
    <2>1. UNCHANGED <<opt, base, block>>
      BY <1>10a DEF Kill, locals
    <2>2. CASE UNCHANGED <<cell, marked>>
      BY <1>3, <2>1, <2>2
    <2>3. CASE ~UNCHANGED <<cell, marked>>
      BY <1>2, <1>10a, <2>1, <2>3, KillFlash
    <2>4. QED
      BY <2>2, <2>3
  <1>11. CASE MarkSetCfg \/ MarkRestore \/ RestoreRegs
    BY <1>3, <1>11 DEF MarkSetCfg, MarkRestore, RestoreRegs, locals, flash
  <1>12. CASE UNCHANGED vars
    BY <1>3, <1>12 DEF vars, locals, flash
  <1>13. QED
    BY <1>1, <1>4, <1>5, <1>6, <1>7, <1>8, <1>9, <1>10, <1>10a, <1>11, <1>12
       DEF Next, Step, Finished

\* The inductive invariant behind the theorems below.
THEOREM Safety == Spec => [](TypeOK /\ Bounds /\ Safe)
  <1>1. Init => TypeOK /\ Bounds /\ Safe
    BY InitBounds, InitSafe
  <1>2. TypeOK /\ Bounds /\ Safe /\ [Next]_vars => (TypeOK /\ Bounds /\ Safe)'
    BY NextType, NextBounds, NextChecksReliable, NextEraseAllowed, NextPagesClean,
       NextRegsTracked, NextInsideArea, NextCwKept DEF Safe
  <1>3. QED
    BY <1>1, <1>2, PTL DEF Spec

\* No run touches a block outside [startblock, stopblock), whatever the number
\* of bad blocks that push the end of the loop forward.
THEOREM StaysInsideArea == Spec => []InsideArea
  <1>1. TypeOK /\ Bounds /\ Safe => InsideArea
    BY DEF Safe
  <1>2. QED
    BY <1>1, Safety, PTL

\* Only erased pages are programmed, by the sector loop or by write_badmark().
THEOREM ProgramsErasedPages == Spec => []ProgramErased
  <1>1. TypeOK /\ Bounds /\ Safe => ProgramErased
    BY ConstantTypes DEF Safe, PagesClean, CleanFrom, ProgramErased, Bounds, MarkLabels,
       ProgLabels, Pages, TypeOK
  <1>2. QED
    BY <1>1, Safety, PTL

\* A run that reaches its end leaves the controller registers as it found them,
\* and a whole page in CFG0 whatever it found there.
THEOREM RestoresRegisters == Spec => []RegsRestored
  <1>1. TypeOK /\ Bounds /\ Safe => RegsRestored
    BY DEF Safe, RegsTracked, RegsRestored, CwKept
  <1>2. QED
    BY <1>1, Safety, PTL

\* No step takes a marker off the flash unless -ub or -ux was given.
THEOREM ProtectsMarks == Spec => MarksSurvive
  <1>1. TypeOK /\ Bounds /\ Safe /\ [Next]_vars =>
          [~Has("ub") /\ ~Has("ux") /\ Trusted => marked \subseteq marked']_vars
    <2> SUFFICES ASSUME TypeOK, Bounds, EraseAllowed, Next, ~Has("ub"), ~Has("ux"), Trusted
                 PROVE  marked \subseteq marked'
      BY DEF Safe
    <2>1. CASE EraseExec
      BY <2>1 DEF EraseExec, EraseAllowed
    <2>2. CASE MarkWrite \/ ProgramDone \/ Kill
      BY <2>2, KillFlash DEF MarkWrite, ProgramDone, MarkedAfterPage
    <2>3. CASE StartRun \/ CheckArgs \/ Hello \/ SetEcc \/ OpenFile \/ Finished
      BY <2>3 DEF StartRun, CheckArgs, Hello, SetEcc, OpenFile, Finished, vars, flash
    <2>4. CASE EraseModeBlock \/ EndOfArea \/ SkipBadBlock \/ EnterBlock \/ EraseSetCfg
               \/ EraseRestore
      BY <2>4 DEF EraseModeBlock, EndOfArea, SkipBadBlock, EnterBlock, EnterBlockIf,
         EraseSetCfg, EraseRestore, flash
    <2>5. CASE EndOfBlock \/ EndOfFile \/ SkipPage \/ SimulateBad \/ Mismatch \/ TakePage
      BY <2>5 DEF EndOfBlock, EndOfFile, SkipPage, SkipPageIf, SimulateBad, SimulateBadIf,
         Mismatch, TakePage, TakePageIf, flash
    <2>6. CASE MarkSetCfg \/ MarkRestore \/ ProgramSectors \/ RestoreRegs
      BY <2>6 DEF MarkSetCfg, MarkRestore, ProgramSectors, RestoreRegs, flash
    <2>7. QED
      BY <2>1, <2>2, <2>3, <2>4, <2>5, <2>6 DEF Next, Step
  <1>2. QED
    BY <1>1, Safety, PTL DEF Spec, MarksSurvive

-----------------------------------------------------------------------------
(* A plain run lays the file blocks in order in the good blocks of the area *)
(* and accounts for every block that finds no place.                        *)

PlainRun == PlainMode /\ Trusted
LoopLabels == {"block", "page", "erase1", "erase2", "erase3", "prog1", "prog2"}

BlockDone(b) ==
    IF b \in base.marked THEN cell[b] = base.cell[b]
    ELSE \A p \in Pages : cell[b][p] = Wanted(FilePage(Rank(b), p))

CurrentDone ==
    \A p \in Pages :
        cell[block][p] = IF p < page THEN Wanted(FilePage(Rank(block), p))
                         ELSE IF p = page /\ pc = "prog2" THEN Partial
                         ELSE Erased

\* Up to the block loop nothing has happened to the flash.
Untouched ==
    pc \in {"args", "hello", "ecc", "open"} =>
        marked = base.marked /\ cell = base.cell /\ warned = 0

\* A plain run sets and removes no marker, and leaves marked blocks alone.
MarksFixed ==
    PlainRun =>
        /\ marked = base.marked /\ pc \notin MarkLabels
        /\ \A b \in Blocks : b \in base.marked => cell[b] = base.cell[b]
        /\ pc \in LoopLabels \ {"block"} => block \notin base.marked /\ ~badflag

\* The position in the file follows from the good blocks behind and the page.
InStep ==
    PlainRun =>
        /\ pc \in {"block", "erase1", "erase2", "erase3"} =>
             fpos + 1 = FilePage(Rank(block), 0)
        /\ pc = "page" => fpos + 1 = FilePage(Rank(block), page)
        /\ pc \in {"prog1", "prog2"} =>
             fpos = FilePage(Rank(block), page) /\ Wanted(fpos) = fpos

\* What has been passed is complete, and the block in hand up to the page.
Copied ==
    PlainRun =>
        /\ pc \in LoopLabels \cup {"endpage", "done"} =>
             \A b \in opt.start .. block - 1 : BlockDone(b)
        /\ pc \in {"page", "prog1", "prog2"} => CurrentDone
        /\ pc \in {"endpage", "done"} /\ InArea =>
             /\ CurrentDone /\ page < Ppb /\ block \notin base.marked
             /\ FilePage(Rank(block), page) > Len(file)

\* The end of the loop has moved once for every defective block, unless a
\* warning was given instead. Where a block is lost the loop ends with the area.
Counted ==
    PlainRun /\ pc \in LoopLabels \cup {"endpage", "done"} =>
        /\ opt.start <= block /\ block <= opt.start + flen
        /\ opt.start + flen <= StopBlock
        /\ flen + warned + Rank(block) = CappedLen(WantedLen) + (block - opt.start)
        /\ CappedLen(WantedLen) <= FileBlocks
        /\ warned > 0 \/ CutSilently > 0 => opt.start + flen = StopBlock

Order == Untouched /\ MarksFixed /\ InStep /\ Copied /\ Counted

-----------------------------------------------------------------------------
(* Counting good blocks.                                                   *)

LEMMA GoodBelowFinite ==
  ASSUME opt.start \in Int, NEW b \in Int
  PROVE  IsFiniteSet(GoodBelow(b)) /\ Rank(b) \in Nat
  <1>1. IsFiniteSet(opt.start .. b - 1)
    BY FS_Interval
  <1>2. GoodBelow(b) \subseteq opt.start .. b - 1
    BY DEF GoodBelow
  <1>3. IsFiniteSet(GoodBelow(b))
    BY <1>1, <1>2, FS_Subset
  <1>4. QED
    BY <1>3, FS_CardinalityType DEF Rank

LEMMA RankStart == ASSUME opt.start \in Int PROVE Rank(opt.start) = 0
  <1>1. GoodBelow(opt.start) = {}
    BY DEF GoodBelow
  <1>2. QED
    BY <1>1, FS_EmptySet DEF Rank

LEMMA RankStep ==
  ASSUME opt.start \in Int, NEW b \in Int, opt.start <= b
  PROVE  Rank(b + 1) = IF b \in base.marked THEN Rank(b) ELSE Rank(b) + 1
  <1>1. CASE b \in base.marked
    <2>1. GoodBelow(b + 1) = GoodBelow(b)
      BY <1>1 DEF GoodBelow
    <2>2. QED
      BY <1>1, <2>1 DEF Rank
  <1>2. CASE b \notin base.marked
    <2>1. GoodBelow(b + 1) = GoodBelow(b) \cup {b} /\ b \notin GoodBelow(b)
      BY <1>2 DEF GoodBelow
    <2>2. QED
      BY <1>2, <2>1, GoodBelowFinite, FS_AddElement DEF Rank
  <1>3. QED
    BY <1>1, <1>2

\* A quotient is below any bound that times the divisor exceeds the dividend.
LEMMA DivBound ==
  ASSUME NEW n \in Int, NEW k \in Int, NEW d \in Nat \ {0}, n < (k + 1) * d
  PROVE  n \div d <= k
  <1>1. n \div d \in Int
    OBVIOUS
  <1>2. (n \div d) * d <= n
    OBVIOUS
  <1>3. ASSUME NEW q \in Int, q >= k + 1 PROVE q * d >= (k + 1) * d
    BY <1>3
  <1>4. ASSUME n \div d >= k + 1 PROVE FALSE
    <2>1. (n \div d) * d >= (k + 1) * d
      BY <1>1, <1>3, <1>4
    <2>2. (n \div d) * d \in Int /\ (k + 1) * d \in Int
      BY <1>1
    <2>3. QED
      BY <1>2, <2>1, <2>2
  <1>5. QED
    BY <1>1, <1>4

\* When the file ends inside the block in hand, no file block follows it.
LEMMA LastFileBlock ==
  ASSUME TypeOK, NEW r \in Nat, NEW p \in Nat, p < Ppb, FilePage(r, p) > Len(file)
  PROVE  FileBlocks <= r + 1
  <1> DEFINE n == Len(file) - opt.off * Ppb + Ppb - 1
  <1>1. /\ Ppb \in Nat \ {0} /\ opt.off \in Nat /\ Len(file) \in Nat
        /\ opt.off * Ppb \in Nat /\ r * Ppb \in Nat
    BY ConstantTypes DEF TypeOK, Options
  <1>2. (opt.off + r) * Ppb = opt.off * Ppb + r * Ppb /\ (r + 2) * Ppb = r * Ppb + Ppb + Ppb
    BY <1>1
  <1>3. Len(file) < opt.off * Ppb + r * Ppb + p + 1
    BY <1>1, <1>2 DEF FilePage
  <1>4. n \in Int /\ n < r * Ppb + Ppb + Ppb
    <2>1. \A l, x, y \in Int : l < x + y + p + 1 =>
             l - x + Ppb - 1 \in Int /\ l - x + Ppb - 1 < y + Ppb + Ppb
      BY <1>1
    <2>2. \A x, y \in Int : Len(file) < x + y + p + 1 =>
             Len(file) - x + Ppb - 1 \in Int /\ Len(file) - x + Ppb - 1 < y + Ppb + Ppb
      BY <1>1, <2>1
    <2>3. opt.off * Ppb \in Int /\ r * Ppb \in Int
      BY <1>1
    <2>4. QED
      BY <1>3, <2>2, <2>3
  <1>4a. (r + 1) + 1 = r + 2 /\ r + 1 \in Int
    OBVIOUS
  <1>4b. n < ((r + 1) + 1) * Ppb
    BY <1>2, <1>4, <1>4a
  <1>4c. n \div Ppb <= r + 1
    <2> HIDE DEF n
    <2> QED
      BY <1>1, <1>4, <1>4a, <1>4b, DivBound
  <1>5. QED
    BY <1>4c DEF FileBlocks

-----------------------------------------------------------------------------
(* Every step keeps the parts of Order.                                    *)

OrderLabels == LoopLabels \cup {"endpage", "done"}

\* Inside the loop a step keeps the command line, the file and the history.
LEMMA LoopFrame ==
  ASSUME TypeOK, [Next]_vars, PlainRun', pc' \in OrderLabels
  PROVE  PlainRun /\ opt' = opt /\ file' = file /\ base' = base
  <1> USE DEF PlainRun, PlainMode, Trusted, OrderLabels, LoopLabels, locals, flash
  <1>1. CASE StartRun
    BY <1>1 DEF StartRun
  <1>2. CASE Hello
    <2>1. opt' = opt /\ opt.erase = 0 /\ opt.erase \in Nat
      BY <1>2 DEF Hello, TypeOK, Options
    <2>2. pc' \in {"exit", "ecc"}
      BY <1>2, <2>1 DEF Hello
    <2>3. QED
      BY <2>2
  <1>3. CASE CheckArgs \/ SetEcc \/ OpenFile
    BY <1>3 DEF CheckArgs, SetEcc, OpenFile
  <1>4. CASE EraseModeBlock \/ EndOfArea \/ SkipBadBlock \/ EnterBlock
    BY <1>4 DEF EraseModeBlock, EndOfArea, SkipBadBlock, EnterBlock, EnterBlockIf
  <1>5. CASE EraseSetCfg \/ EraseExec \/ EraseRestore \/ EndOfBlock \/ EndOfFile
    BY <1>5 DEF EraseSetCfg, EraseExec, EraseRestore, EndOfBlock, EndOfFile
  <1>6. CASE SkipPage \/ SimulateBad \/ Mismatch \/ TakePage
    BY <1>6 DEF SkipPage, SkipPageIf, SimulateBad, SimulateBadIf, Mismatch, TakePage, TakePageIf
  <1>7. CASE MarkSetCfg \/ MarkWrite \/ MarkRestore \/ ProgramSectors \/ ProgramDone
    BY <1>7 DEF MarkSetCfg, MarkWrite, MarkRestore, ProgramSectors, ProgramDone
  <1>8. CASE RestoreRegs \/ Kill
    BY <1>8 DEF RestoreRegs, Kill
  <1>9. CASE UNCHANGED vars
    BY <1>9 DEF vars
  <1>10. QED
    BY <1>1, <1>2, <1>3, <1>4, <1>5, <1>6, <1>7, <1>8, <1>9 DEF Next, Step, Finished

\* The actions a plain run does not take, and the ones it can take at a label
\* of the loop.
LEMMA PlainSteps ==
  ASSUME TypeOK, PlainRun, MarksFixed
  PROVE  /\ ~EraseModeBlock /\ ~SimulateBad
         /\ ~MarkSetCfg /\ ~MarkWrite /\ ~MarkRestore
         /\ ~Has("um") /\ ~Has("uc") /\ ~Has("ux") /\ ~Has("ub")
  <1>1. ~Has("um") /\ ~Has("uc") /\ ~Has("ux") /\ ~Has("ub") /\ opt.erase = 0
    BY DEF PlainRun, PlainMode, Has
  <1>2. pc \notin MarkLabels
    BY DEF MarksFixed
  <1>3. QED
    BY <1>1, <1>2 DEF EraseModeBlock, SimulateBad, SimulateBadIf, MarkSetCfg, MarkWrite,
       MarkRestore, MarkLabels

\* In a plain run the marker check tells the truth.
LEMMA PlainCheck ==
  ASSUME PlainRun, Safe, MarksFixed, pc = "block", ~Has("ux")
  PROVE  CheckBlock(block) = {block \in base.marked}
  <1>1. regs.bad
    BY DEF PlainRun, Safe, ChecksReliable, Ended
  <1>2. marked = base.marked
    BY DEF MarksFixed
  <1>3. QED
    BY <1>1, <1>2 DEF CheckBlock

\* The actions that write to the flash, and where.
Writes == EraseExec \/ MarkWrite \/ ProgramSectors \/ ProgramDone \/ Kill

LEMMA OnlyWritesWrite ==
  ASSUME [Next]_vars, ~Writes
  PROVE  marked' = marked /\ cell' = cell
  <1> USE DEF locals, flash
  <1>1. CASE StartRun \/ CheckArgs \/ Hello \/ SetEcc \/ OpenFile
    BY <1>1 DEF StartRun, CheckArgs, Hello, SetEcc, OpenFile
  <1>2. CASE EraseModeBlock \/ EndOfArea \/ SkipBadBlock \/ EnterBlock
    BY <1>2 DEF EraseModeBlock, EndOfArea, SkipBadBlock, EnterBlock, EnterBlockIf
  <1>3. CASE EraseSetCfg \/ EraseRestore \/ EndOfBlock \/ EndOfFile
    BY <1>3 DEF EraseSetCfg, EraseRestore, EndOfBlock, EndOfFile
  <1>4. CASE SkipPage \/ SimulateBad \/ Mismatch \/ TakePage
    BY <1>4 DEF SkipPage, SkipPageIf, SimulateBad, SimulateBadIf, Mismatch, TakePage, TakePageIf
  <1>5. CASE MarkSetCfg \/ MarkRestore \/ RestoreRegs
    BY <1>5 DEF MarkSetCfg, MarkRestore, RestoreRegs
  <1>6. CASE UNCHANGED vars
    BY <1>6 DEF vars
  <1>7. QED
    BY <1>1, <1>2, <1>3, <1>4, <1>5, <1>6 DEF Next, Step, Finished, Writes

LEMMA NextUntouched == TypeOK /\ Untouched /\ [Next]_vars => Untouched'
  <1> SUFFICES ASSUME Untouched, [Next]_vars, pc' \in {"args", "hello", "ecc", "open"}
               PROVE  marked' = base'.marked /\ cell' = base'.cell /\ warned' = 0
    BY DEF Untouched
  <1> USE DEF Untouched, locals, flash
  <1>1. CASE StartRun
    BY <1>1 DEF StartRun
  <1>2. CASE CheckArgs \/ Hello \/ SetEcc \/ OpenFile
    BY <1>2 DEF CheckArgs, Hello, SetEcc, OpenFile
  <1>3. CASE EraseModeBlock \/ EndOfArea \/ SkipBadBlock \/ EnterBlock
    BY <1>3 DEF EraseModeBlock, EndOfArea, SkipBadBlock, EnterBlock, EnterBlockIf
  <1>4. CASE EraseSetCfg \/ EraseExec \/ EraseRestore \/ EndOfBlock \/ EndOfFile
    BY <1>4 DEF EraseSetCfg, EraseExec, EraseRestore, EndOfBlock, EndOfFile, MorePages
  <1>5. CASE SkipPage \/ SimulateBad \/ Mismatch \/ TakePage
    BY <1>5 DEF SkipPage, SkipPageIf, SimulateBad, SimulateBadIf, Mismatch, TakePage,
       TakePageIf, MorePages
  <1>6. CASE MarkSetCfg \/ MarkWrite \/ MarkRestore \/ ProgramSectors \/ ProgramDone
    BY <1>6 DEF MarkSetCfg, MarkWrite, MarkRestore, ProgramSectors, ProgramDone
  <1>7. CASE RestoreRegs \/ Kill
    BY <1>7 DEF RestoreRegs, Kill
  <1>8. CASE UNCHANGED vars
    BY <1>8 DEF vars
  <1>9. QED
    BY <1>1, <1>2, <1>3, <1>4, <1>5, <1>6, <1>7, <1>8 DEF Next, Step, Finished

LEMMA NextMarksFixed ==
    TypeOK /\ Bounds /\ Safe /\ Untouched /\ MarksFixed /\ [Next]_vars => MarksFixed'
  <1> SUFFICES ASSUME TypeOK, Bounds, Safe, Untouched, MarksFixed, [Next]_vars, PlainRun'
               PROVE  /\ marked' = base'.marked /\ pc' \notin MarkLabels
                      /\ \A b \in Blocks : b \in base'.marked => cell'[b] = base'.cell[b]
                      /\ pc' \in LoopLabels \ {"block"} => block' \notin base'.marked /\ ~badflag'
    BY DEF MarksFixed
  <1> USE DEF LoopLabels, MarkLabels, locals, flash
  <1>1. CASE StartRun
    BY <1>1 DEF StartRun
  <1>2. CASE Hello
    <2>1. opt' = opt /\ base' = base /\ marked' = marked /\ cell' = cell
      BY <1>2 DEF Hello
    <2>2. opt.erase = 0
      BY <2>1 DEF PlainRun, PlainMode
    <2>3. pc' \in {"exit", "ecc"}
      BY <1>2, <2>2 DEF Hello
    <2>4. marked = base.marked /\ cell = base.cell
      BY <1>2 DEF Untouched, Hello
    <2>5. QED
      BY <2>1, <2>3, <2>4
  <1>3. ASSUME ~StartRun, ~Hello PROVE PlainRun /\ base' = base /\ opt' = opt
    <2>0. PlainMode = PlainMode' /\ Trusted = Trusted' /\ base' = base /\ opt' = opt
      <3> USE DEF PlainMode, Trusted
      <3>1. CASE CheckArgs \/ SetEcc \/ OpenFile \/ UNCHANGED vars \/ Kill
        BY <3>1 DEF CheckArgs, SetEcc, OpenFile, vars, Kill
      <3>2. CASE EraseModeBlock \/ EndOfArea \/ SkipBadBlock \/ EnterBlock
        BY <3>2 DEF EraseModeBlock, EndOfArea, SkipBadBlock, EnterBlock, EnterBlockIf
      <3>3. CASE EraseSetCfg \/ EraseExec \/ EraseRestore \/ EndOfBlock \/ EndOfFile
        BY <3>3 DEF EraseSetCfg, EraseExec, EraseRestore, EndOfBlock, EndOfFile
      <3>4. CASE SkipPage \/ SimulateBad \/ Mismatch \/ TakePage
        BY <3>4 DEF SkipPage, SkipPageIf, SimulateBad, SimulateBadIf, Mismatch, TakePage,
           TakePageIf
      <3>5. CASE MarkSetCfg \/ MarkWrite \/ MarkRestore \/ ProgramSectors \/ ProgramDone
        BY <3>5 DEF MarkSetCfg, MarkWrite, MarkRestore, ProgramSectors, ProgramDone
      <3>6. CASE RestoreRegs
        BY <3>6 DEF RestoreRegs
      <3>7. QED
        BY <1>3, <3>1, <3>2, <3>3, <3>4, <3>5, <3>6 DEF Next, Step, Finished
    <2>1. QED
      BY <2>0 DEF PlainRun
  <1>4. ASSUME ~StartRun, ~Hello
        PROVE  /\ marked' = base'.marked /\ pc' \notin MarkLabels
               /\ \A b \in Blocks : b \in base'.marked => cell'[b] = base'.cell[b]
               /\ pc' \in LoopLabels \ {"block"} => block' \notin base'.marked /\ ~badflag'
    <2>1. PlainRun /\ base' = base /\ opt' = opt
      BY <1>3, <1>4
    <2>2. /\ marked = base.marked /\ pc \notin MarkLabels
          /\ \A b \in Blocks : b \in base.marked => cell[b] = base.cell[b]
          /\ pc \in LoopLabels \ {"block"} => block \notin base.marked /\ ~badflag
      BY <2>1 DEF MarksFixed
    <2>3. /\ ~EraseModeBlock /\ ~SimulateBad /\ ~MarkSetCfg /\ ~MarkWrite /\ ~MarkRestore
          /\ ~Has("um") /\ ~Has("uc") /\ ~Has("ux") /\ ~Has("ub")
      BY <2>1, PlainSteps
    <2>4. CASE EraseExec
      <3>1. block \notin base.marked /\ ~badflag
        BY <2>2, <2>4 DEF EraseExec
      <3>2. \A b \in Blocks : b # block => cell'[b] = cell[b]
        BY <2>4 DEF EraseExec, TypeOK
      <3>3. QED
        BY <2>1, <2>2, <2>4, <3>1, <3>2 DEF EraseExec
    <2>5. CASE ProgramSectors \/ ProgramDone
      <3>1. block \notin base.marked /\ ~badflag /\ marked' = marked /\ block' = block
        BY <2>2, <2>3, <2>5 DEF ProgramSectors, ProgramDone, MarkedAfterPage
      <3>2. \A b \in Blocks : b # block => cell'[b] = cell[b]
        BY <2>5 DEF ProgramSectors, ProgramDone, TypeOK
      <3>3. QED
        BY <2>1, <2>2, <2>5, <3>1, <3>2 DEF ProgramSectors, ProgramDone
    <2>6. CASE EnterBlock
      <3>1. CheckBlock(block) = {block \in base.marked}
        BY <2>1, <2>3, <2>6, PlainCheck DEF EnterBlock, EnterBlockIf
      <3>2. PICK bad \in CheckBlock(block) : ~SkipsBad(bad) /\ badflag' = bad
        BY <2>3, <2>6 DEF EnterBlock, EnterBlockIf
      <3>3. ~bad
        BY <2>3, <3>2 DEF SkipsBad
      <3>4. block \notin base.marked /\ ~badflag'
        BY <3>1, <3>2, <3>3
      <3>5. /\ block' = block /\ marked' = marked /\ cell' = cell
            /\ pc' \in {"erase1", "page"}
        BY <2>6 DEF EnterBlock, EnterBlockIf
      <3>6. QED
        BY <2>1, <2>2, <3>4, <3>5
    <2>6a. CASE Kill
      <3>1. marked' = marked /\ pc' = "killed"
        BY <2>3, <2>6a, KillFlash DEF Kill
      <3>2. \A b \in Blocks : b \in base.marked => cell'[b] = cell[b]
        <4>1. CASE cell' = cell
          BY <4>1
        <4>2. CASE cell' # cell
          <5>1. pc = "prog2" /\ \A b \in Blocks : b # block => cell'[b] = cell[b]
            BY <2>2, <2>6a, <4>2, KillFlash
          <5>2. block \notin base.marked
            BY <2>2, <5>1
          <5>3. QED
            BY <5>1, <5>2
        <4>3. QED
          BY <4>1, <4>2
      <3>3. QED
        BY <2>1, <2>2, <3>1, <3>2
    <2>7. CASE ~Writes /\ ~EnterBlock
      <3>1. marked' = marked /\ cell' = cell
        BY <2>7, OnlyWritesWrite
      <3>2. /\ pc' \notin MarkLabels
            /\ pc' \in LoopLabels \ {"block"} =>
                 pc \in LoopLabels \ {"block"} /\ block' = block /\ (badflag' <=> badflag)
        <4>1. CASE CheckArgs \/ SetEcc \/ OpenFile \/ RestoreRegs
          BY <4>1 DEF CheckArgs, SetEcc, OpenFile, RestoreRegs
        <4>2. CASE EndOfArea \/ SkipBadBlock \/ EraseSetCfg \/ EraseRestore
          BY <4>2 DEF EndOfArea, SkipBadBlock, EraseSetCfg, EraseRestore
        <4>3. CASE EndOfBlock \/ EndOfFile \/ SkipPage \/ Mismatch \/ TakePage
          BY <4>3 DEF EndOfBlock, EndOfFile, SkipPage, SkipPageIf, Mismatch, TakePage,
             TakePageIf, MorePages
        <4>4. CASE UNCHANGED vars
          BY <2>2, <4>4 DEF vars
        <4>5. QED
          BY <1>4, <2>3, <2>7, <4>1, <4>2, <4>3, <4>4 DEF Next, Step, Finished, Writes
      <3>3. QED
        BY <2>1, <2>2, <3>1, <3>2
    <2>8. QED
      BY <2>3, <2>4, <2>5, <2>6, <2>6a, <2>7 DEF Writes
  <1>5. QED
    BY <1>1, <1>2, <1>4

\* Counting depends on the command line and the history alone.
LEMMA RankFrame ==
  ASSUME opt' = opt, base' = base
  PROVE  /\ block' = block => Rank(block)' = Rank(block)
         /\ block' = block + 1 => Rank(block)' = Rank(block + 1)
         /\ block' = opt.start => Rank(block)' = Rank(opt.start)
  BY DEF Rank, GoodBelow

LEMMA NextInStep ==
    TypeOK /\ Bounds /\ Safe /\ Order /\ MarksFixed' /\ [Next]_vars => InStep'
  <1> SUFFICES ASSUME TypeOK, Bounds, Safe, Order, MarksFixed', [Next]_vars, PlainRun',
                      pc' \in LoopLabels
               PROVE  /\ pc' \in {"block", "erase1", "erase2", "erase3"} =>
                           fpos' + 1 = FilePage(Rank(block), 0)'
                      /\ pc' = "page" => fpos' + 1 = FilePage(Rank(block), page)'
                      /\ pc' \in {"prog1", "prog2"} =>
                           fpos' = FilePage(Rank(block), page)' /\ Wanted(fpos)' = fpos'
    BY DEF InStep, LoopLabels
  <1> DEFINE r == Rank(block)
  <1>0. PlainRun /\ opt' = opt /\ file' = file /\ base' = base
    BY LoopFrame DEF OrderLabels
  <1>1. /\ ~EraseModeBlock /\ ~SimulateBad /\ ~MarkSetCfg /\ ~MarkWrite /\ ~MarkRestore
        /\ ~Has("um") /\ ~Has("uc") /\ ~Has("ux") /\ ~Has("ub")
    BY <1>0, PlainSteps DEF Order
  <1>2. /\ pc \in {"block", "erase1", "erase2", "erase3"} => fpos + 1 = FilePage(r, 0)
        /\ pc = "page" => fpos + 1 = FilePage(r, page)
        /\ pc \in {"prog1", "prog2"} => fpos = FilePage(r, page) /\ Wanted(fpos) = fpos
    BY <1>0 DEF Order, InStep
  <1>3. /\ block \in Int /\ page \in Int /\ fpos \in Int /\ opt.start \in Int
        /\ opt.off \in Int /\ opt.erase = 0 /\ Ppb \in Int
    BY <1>0, ConstantTypes DEF TypeOK, Options, PlainRun, PlainMode
  <1>4. r \in Nat
    BY <1>3, GoodBelowFinite
  <1>5. block' = block => /\ r' = r
                          /\ FilePage(r, 0)' = FilePage(r, 0)
                          /\ page' = page => FilePage(r, page)' = FilePage(r, page)
    BY <1>0, RankFrame DEF FilePage
  <1>6. fpos' = fpos => Wanted(fpos)' = Wanted(fpos)
    BY <1>0 DEF Wanted, Has
  <1> HIDE DEF r
  <1>7. CASE OpenFile
    <2>1. block' = opt.start /\ fpos' = opt.off * Ppb /\ pc' = "block"
      BY <1>7 DEF OpenFile, LoopLabels
    <2>2. r' = 0
      BY <1>0, <1>3, <2>1, RankFrame, RankStart DEF r
    <2>3. FilePage(r, 0)' = (opt.off + 0) * Ppb + 0 + 1
      BY <1>0, <2>2 DEF FilePage
    <2>4. QED
      BY <1>3, <2>1, <2>3 DEF r
  <1>8. CASE SkipBadBlock
    <2>1. block' = block + 1 /\ fpos' = fpos /\ pc' = "block" /\ pc = "block"
      BY <1>8 DEF SkipBadBlock
    <2>2. PICK bad \in CheckBlock(block) : SkipsBad(bad)
      BY <1>8 DEF SkipBadBlock
    <2>3. block \in base.marked
      BY <1>0, <1>1, <2>1, <2>2, PlainCheck DEF SkipsBad, Order
    <2>4. opt.start <= block
      BY <2>1 DEF Bounds
    <2>5. r' = r
      BY <1>0, <1>3, <2>1, <2>3, <2>4, RankFrame, RankStep DEF r
    <2>6. QED
      BY <1>0, <1>2, <2>1, <2>5 DEF FilePage, r
  <1>9. CASE EnterBlock
    <2>1. pc = "block" /\ page' = 0 /\ UNCHANGED <<block, fpos>> /\ pc' \in {"erase1", "page"}
      BY <1>9 DEF EnterBlock, EnterBlockIf
    <2>2. FilePage(r, page)' = FilePage(r, 0)
      BY <1>0, <1>5, <2>1 DEF FilePage
    <2>3. QED
      BY <1>2, <1>5, <2>1, <2>2 DEF r
  <1>10. CASE EraseSetCfg \/ EraseExec
    BY <1>2, <1>5, <1>10 DEF EraseSetCfg, EraseExec, locals, r
  <1>11. CASE EraseRestore
    <2>1. /\ pc = "erase3" /\ page = 0 /\ pc' = "page" /\ UNCHANGED <<block, fpos, page>>
      BY <1>3, <1>11 DEF EraseRestore, Safe, PagesClean
    <2>2. QED
      BY <1>2, <1>5, <2>1 DEF r
  <1>12. CASE EndOfBlock
    <2>1. /\ pc = "page" /\ page = Ppb /\ pc' = "block" /\ block' = block + 1 /\ fpos' = fpos
      BY <1>12 DEF EndOfBlock
    <2>2. block \notin base.marked
      BY <1>0, <2>1 DEF Order, MarksFixed, LoopLabels
    <2>3. opt.start <= block
      BY <2>1 DEF Bounds, BlockLabels
    <2>4. r' = r + 1
      BY <1>0, <1>3, <2>1, <2>2, <2>3, RankFrame, RankStep DEF r
    <2>5. FilePage(r, 0)' = (opt.off + (r + 1)) * Ppb + 0 + 1
      BY <1>0, <2>4 DEF FilePage
    <2>6. fpos + 1 = (opt.off + r) * Ppb + Ppb + 1
      BY <1>2, <2>1 DEF FilePage
    <2>7. (opt.off + (r + 1)) * Ppb = (opt.off + r) * Ppb + Ppb
      BY <1>3, <1>4
    <2>8. (opt.off + r) * Ppb \in Int
      BY <1>3, <1>4
    <2>9. QED
      BY <2>1, <2>5, <2>6, <2>7, <2>8, <1>3 DEF r
  <1>13. CASE SkipPage
    <2>1. /\ pc = "page" /\ pc' = "page" /\ block' = block
          /\ fpos' = fpos + 1 /\ page' = page + 1
      BY <1>13 DEF SkipPage, SkipPageIf, MorePages
    <2>2. r' = r
      BY <1>5, <2>1
    <2>3. FilePage(r, page)' = (opt.off + r) * Ppb + (page + 1) + 1
      BY <1>0, <2>1, <2>2 DEF FilePage
    <2>4. fpos + 1 = (opt.off + r) * Ppb + page + 1
      BY <1>2, <2>1 DEF FilePage
    <2>5. (opt.off + r) * Ppb \in Int
      BY <1>3, <1>4
    <2>6. QED
      BY <2>1, <2>3, <2>4, <2>5, <1>3 DEF r
  <1>14. CASE TakePage
    <2>1. /\ pc = "page" /\ pc' = "prog1" /\ UNCHANGED <<block, page>> /\ fpos' = fpos + 1
          /\ ~EmptyPage /\ ~BadPage /\ fpos < Len(file)
      BY <1>14 DEF TakePage, TakePageIf, MorePages
    <2>2. Wanted(fpos + 1) = fpos + 1
      BY <1>3, <2>1 DEF Wanted, EmptyPage, BadPage, Kind, TypeOK
    <2>3. Wanted(fpos)' = Wanted(fpos + 1)
      BY <1>0, <2>1 DEF Wanted, Has
    <2>4. QED
      BY <1>2, <1>5, <2>1, <2>2, <2>3 DEF r
  <1>15. CASE ProgramSectors
    <2>1. /\ pc = "prog1" /\ pc' = "prog2" /\ UNCHANGED <<block, page, fpos>>
      BY <1>15 DEF ProgramSectors, locals
    <2>2. QED
      BY <1>2, <1>5, <1>6, <2>1 DEF r
  <1>16. CASE ProgramDone
    <2>1. /\ pc = "prog2" /\ pc' = "page" /\ block' = block
          /\ fpos' = fpos /\ page' = page + 1
      BY <1>16 DEF ProgramDone
    <2>2. r' = r
      BY <1>5, <2>1
    <2>3. FilePage(r, page)' = (opt.off + r) * Ppb + (page + 1) + 1
      BY <1>0, <2>1, <2>2 DEF FilePage
    <2>4. fpos = (opt.off + r) * Ppb + page + 1
      BY <1>2, <2>1 DEF FilePage
    <2>5. (opt.off + r) * Ppb \in Int
      BY <1>3, <1>4
    <2>6. QED
      BY <2>1, <2>3, <2>4, <2>5, <1>3 DEF r
  <1>17. CASE UNCHANGED vars
    BY <1>2, <1>5, <1>6, <1>17 DEF vars, locals, r
  <1>18. CASE StartRun \/ CheckArgs \/ SetEcc \/ EndOfArea
    BY <1>18 DEF StartRun, CheckArgs, SetEcc, EndOfArea, LoopLabels
  <1>18a. CASE Hello
    BY <1>0, <1>3, <1>18a DEF Hello, LoopLabels
  <1>19. CASE EndOfFile \/ Mismatch \/ RestoreRegs \/ Kill
    BY <1>19 DEF EndOfFile, Mismatch, RestoreRegs, Kill, LoopLabels
  <1>20. QED
    BY <1>1, <1>7, <1>8, <1>9, <1>10, <1>11, <1>12, <1>13, <1>14, <1>15, <1>16, <1>17,
       <1>18, <1>18a, <1>19 DEF Next, Step, Finished

LEMMA NextCounted ==
    TypeOK /\ Bounds /\ Safe /\ Order /\ [Next]_vars => Counted'
  <1> DEFINE r == Rank(block)
             c == CappedLen(WantedLen)
             f == FileBlocks
             t == StopBlock
             k == CutSilently
  <1> SUFFICES ASSUME TypeOK, Bounds, Safe, Order, [Next]_vars, PlainRun', pc' \in OrderLabels
               PROVE  /\ opt'.start <= block' /\ block' <= opt'.start + flen'
                      /\ opt'.start + flen' <= t'
                      /\ flen' + warned' + r' = c' + (block' - opt'.start)
                      /\ c' <= f'
                      /\ warned' > 0 \/ k' > 0 => opt'.start + flen' = t'
    BY DEF Counted, OrderLabels
  <1>0. PlainRun /\ opt' = opt /\ file' = file /\ base' = base
    BY LoopFrame
  <1>1. /\ ~EraseModeBlock /\ ~SimulateBad /\ ~MarkSetCfg /\ ~MarkWrite /\ ~MarkRestore
        /\ ~Has("um") /\ ~Has("uc") /\ ~Has("ux") /\ ~Has("ub")
    BY <1>0, PlainSteps DEF Order
  <1>2. pc \in OrderLabels =>
          /\ opt.start <= block /\ block <= opt.start + flen
          /\ opt.start + flen <= t
          /\ flen + warned + r = c + (block - opt.start)
          /\ c <= f
          /\ warned > 0 \/ k > 0 => opt.start + flen = t
    BY <1>0 DEF Order, Counted, OrderLabels
  <1>3. /\ block \in Int /\ opt.start \in Int /\ flen \in Int /\ warned \in Int
        /\ opt.len \in Nat /\ opt.erase = 0 /\ t \in Int /\ opt.off * Ppb \in Int
    BY <1>0, ConstantTypes DEF TypeOK, Options, PlainRun, PlainMode, StopBlock, ToEnd
  <1>4. r \in Nat
    BY <1>3, GoodBelowFinite
  <1>5. f \in Int
    BY <1>3, ConstantTypes DEF FileBlocks, TypeOK
  <1>5a. c \in Int
    BY <1>3, <1>5 DEF CappedLen, WantedLen
  <1>6. c' = c /\ f' = f /\ t' = t /\ k' = k
    BY <1>0 DEF CappedLen, WantedLen, FileBlocks, StopBlock, CutSilently
  <1>6a. k > 0 => opt.start + c = t
    BY <1>3, <1>5 DEF CappedLen, WantedLen, CutSilently
  <1>7. block' = block => r' = r
    BY <1>0, RankFrame
  <1> HIDE DEF r, c, f, t, k
  <1>8. CASE OpenFile
    <2>1. /\ pc = "open" /\ block' = opt.start /\ flen' = c /\ warned' = warned
          /\ opt.len <= f /\ opt.off * Ppb < Len(file)
      <3>1. ~(Len(file) <= opt.off * Ppb \/ opt.len > f)
        BY <1>8 DEF OpenFile, FileRefused, OrderLabels, LoopLabels, f
      <3>2. Len(file) \in Int
        BY DEF TypeOK
      <3>3. opt.len <= f /\ opt.off * Ppb < Len(file)
        BY <1>3, <1>5, <3>1, <3>2
      <3>4. pc = "open" /\ block' = opt.start /\ flen' = c /\ warned' = warned
        BY <1>8, <3>1 DEF OpenFile, FileRefused, f, c
      <3>5. QED
        BY <3>3, <3>4
    <2>2. warned = 0 /\ opt.start <= t
      BY <2>1 DEF Order, Untouched, Bounds, AreaLabels, t
    <2>3. r' = 0
      BY <1>0, <1>3, <2>1, RankFrame, RankStart DEF r
    <2>4. f >= 1
      <3>1. Len(file) - opt.off * Ppb + Ppb - 1 >= Ppb
        BY <1>3, <2>1, ConstantTypes DEF TypeOK
      <3>2. \A n \in Int, d \in Nat \ {0} : n >= d => n \div d >= 1
        OBVIOUS
      <3>3. Len(file) - opt.off * Ppb + Ppb - 1 \in Int
        BY <1>3, ConstantTypes DEF TypeOK
      <3>4. QED
        BY <3>1, <3>2, <3>3, ConstantTypes DEF f, FileBlocks
    <2>5. WantedLen \in Int /\ 0 <= WantedLen /\ WantedLen <= f
      BY <1>3, <1>5, <2>1, <2>4 DEF WantedLen, f
    <2>6. 0 <= c /\ c <= f /\ opt.start + c <= t
      BY <1>3, <1>5, <2>2, <2>5 DEF c, CappedLen, t
    <2>7. QED
      BY <1>0, <1>3, <1>5, <1>5a, <1>6, <1>6a, <2>1, <2>2, <2>3, <2>6
  <1>9. CASE SkipBadBlock
    <2>1. /\ block' = block + 1 /\ pc = "block" /\ block < opt.start + flen
          /\ IF opt.start + flen = t THEN warned' = warned + 1 /\ flen' = flen
                                     ELSE flen' = flen + 1 /\ warned' = warned
      BY <1>9 DEF SkipBadBlock, InArea, LastBlockLost, t
    <2>2. PICK bad \in CheckBlock(block) : SkipsBad(bad)
      BY <1>9 DEF SkipBadBlock
    <2>3. block \in base.marked
      BY <1>0, <1>1, <2>1, <2>2, PlainCheck DEF SkipsBad, Order
    <2>4. r' = r
      BY <1>0, <1>2, <1>3, <2>1, <2>3, RankFrame, RankStep DEF r, OrderLabels, LoopLabels
    <2>5. pc \in OrderLabels
      BY <2>1 DEF OrderLabels, LoopLabels
    <2>6. QED
      BY <1>0, <1>2, <1>3, <1>4, <1>5, <1>5a, <1>6, <2>1, <2>4, <2>5
  <1>10. CASE EndOfBlock
    <2>1. /\ pc = "page" /\ block' = block + 1 /\ UNCHANGED <<flen, warned>>
          /\ block < opt.start + flen /\ pc \in OrderLabels
      BY <1>10 DEF EndOfBlock, Bounds, BlockLabels, InArea, OrderLabels, LoopLabels
    <2>2. block \notin base.marked
      BY <1>0, <2>1 DEF Order, MarksFixed, LoopLabels
    <2>3. r' = r + 1
      BY <1>0, <1>2, <1>3, <2>1, <2>2, RankFrame, RankStep DEF r
    <2>4. QED
      BY <1>0, <1>2, <1>3, <1>4, <1>5, <1>5a, <1>6, <2>1, <2>3
  <1>11. ASSUME pc \in OrderLabels, UNCHANGED <<block, flen, warned>>
         PROVE  /\ opt'.start <= block' /\ block' <= opt'.start + flen'
                /\ opt'.start + flen' <= t'
                /\ flen' + warned' + r' = c' + (block' - opt'.start)
                /\ c' <= f'
                /\ warned' > 0 \/ k' > 0 => opt'.start + flen' = t'
    BY <1>0, <1>2, <1>6, <1>7, <1>11
  <1> USE DEF OrderLabels, LoopLabels, locals
  <1>12. CASE EnterBlock \/ EraseSetCfg \/ EraseExec \/ EndOfArea
    BY <1>11, <1>12 DEF EnterBlock, EnterBlockIf, EraseSetCfg, EraseExec, EndOfArea
  <1>13. CASE EraseRestore
    BY <1>3, <1>11, <1>13 DEF EraseRestore
  <1>14. CASE EndOfFile \/ SkipPage \/ TakePage \/ ProgramSectors \/ ProgramDone
    BY <1>11, <1>14 DEF EndOfFile, SkipPage, SkipPageIf, TakePage, TakePageIf, MorePages,
       ProgramSectors, ProgramDone
  <1>15. CASE RestoreRegs
    BY <1>11, <1>15 DEF RestoreRegs
  <1>16. CASE UNCHANGED vars
    BY <1>11, <1>16 DEF vars
  <1>17. CASE StartRun \/ CheckArgs \/ SetEcc \/ Mismatch \/ Kill
    BY <1>17 DEF StartRun, CheckArgs, SetEcc, Mismatch, Kill
  <1>18. CASE Hello
    BY <1>0, <1>3, <1>18 DEF Hello
  <1>19. QED
    BY <1>1, <1>8, <1>9, <1>10, <1>12, <1>13, <1>14, <1>15, <1>16, <1>17, <1>18
       DEF Next, Step, Finished

\* A block that is not written stays as complete as it was.
LEMMA DoneFrame ==
  ASSUME opt' = opt, file' = file, base' = base, NEW b, cell'[b] = cell[b]
  PROVE  BlockDone(b) => BlockDone(b)'
  <1>1. Rank(b)' = Rank(b)
    BY DEF Rank, GoodBelow
  <1>2. \A k : Wanted(k)' = Wanted(k)
    BY DEF Wanted, Has
  <1>3. \A p \in Pages : FilePage(Rank(b), p)' = FilePage(Rank(b), p)
    BY <1>1 DEF FilePage
  <1>4. SUFFICES ASSUME BlockDone(b) PROVE BlockDone(b)'
    OBVIOUS
  <1>5. ASSUME b \in base.marked PROVE BlockDone(b)'
    BY <1>4, <1>5 DEF BlockDone
  <1>6. ASSUME b \notin base.marked PROVE BlockDone(b)'
    <2>1. ASSUME NEW p \in Pages PROVE cell'[b][p] = Wanted(FilePage(Rank(b), p))'
      <3>1. cell[b][p] = Wanted(FilePage(Rank(b), p))
        BY <1>4, <1>6 DEF BlockDone
      <3>2. Wanted(FilePage(Rank(b), p))' = Wanted(FilePage(Rank(b), p))
        BY <1>1 DEF Wanted, Has, FilePage
      <3>3. QED
        BY <3>1, <3>2
    <2>2. QED
      BY <1>6, <2>1 DEF BlockDone
  <1>7. QED
    BY <1>5, <1>6

LEMMA NextCopied ==
    TypeOK /\ Bounds /\ Safe /\ Order /\ [Next]_vars => Copied'
  <1> SUFFICES ASSUME TypeOK, Bounds, Safe, Order, [Next]_vars, PlainRun', pc' \in OrderLabels
               PROVE  /\ \A b \in opt'.start .. block' - 1 : BlockDone(b)'
                      /\ pc' \in {"page", "prog1", "prog2"} => CurrentDone'
                      /\ pc' \in {"endpage", "done"} /\ InArea' =>
                           /\ CurrentDone' /\ page' < Ppb /\ block' \notin base'.marked
                           /\ FilePage(Rank(block), page)' > Len(file')
    BY DEF Copied, OrderLabels, LoopLabels
  <1> DEFINE want(p) == Wanted(FilePage(Rank(block), p))
             Closing == /\ CurrentDone /\ page < Ppb /\ block \notin base.marked
                        /\ FilePage(Rank(block), page) > Len(file)
             Here(q, mid) == \A p \in Pages :
                               cell[block][p] = IF p < q THEN want(p)
                                                ELSE IF p = q /\ mid THEN Partial ELSE Erased
  <1>0. PlainRun /\ opt' = opt /\ file' = file /\ base' = base
    BY LoopFrame
  <1>1. /\ ~EraseModeBlock /\ ~SimulateBad /\ ~MarkSetCfg /\ ~MarkWrite /\ ~MarkRestore
        /\ ~Has("um") /\ ~Has("uc") /\ ~Has("ux") /\ ~Has("ub")
    BY <1>0, PlainSteps DEF Order
  <1>2. /\ pc \in OrderLabels => \A b \in opt.start .. block - 1 : BlockDone(b)
        /\ pc \in {"page", "prog1", "prog2"} => CurrentDone
        /\ pc \in {"endpage", "done"} /\ InArea => Closing
    BY <1>0 DEF Order, Copied, OrderLabels
  <1>3. /\ block \in Int /\ page \in Int /\ fpos \in Int /\ opt.start \in Int
        /\ opt.erase = 0 /\ Ppb \in Int /\ Len(file) \in Int
        /\ \A p \in Pages : p \in Int /\ 0 <= p /\ p < Ppb
    BY <1>0, ConstantTypes DEF TypeOK, Options, PlainRun, PlainMode, Pages
  <1>4. block' = block => \A p \in Pages : want(p)' = want(p)
    BY <1>0, RankFrame DEF FilePage, Wanted, Has
  <1>5. \A b : cell' = cell /\ BlockDone(b) => BlockDone(b)'
    <2>1. ASSUME NEW b, cell' = cell PROVE BlockDone(b) => BlockDone(b)'
      BY <1>0, <2>1, DoneFrame
    <2>2. QED
      BY <2>1
  <1>6. pc \in {"page", "prog1", "prog2", "erase3"} => block \in Blocks
    BY BlockInFlash DEF BlockLabels
  <1>7. pc \in {"page", "prog1", "prog2"} => Here(page, pc = "prog2")
    BY <1>2 DEF CurrentDone
  <1>8. CurrentDone' <=> \A p \in Pages :
          cell'[block'][p] = IF p < page' THEN want(p)'
                             ELSE IF p = page' /\ pc' = "prog2" THEN Partial ELSE Erased
    BY DEF CurrentDone
  <1>9. FilePage(Rank(block), page)' =
          IF block' = block /\ page' = page THEN FilePage(Rank(block), page)
          ELSE FilePage(Rank(block), page)'
    BY <1>0, RankFrame DEF FilePage
  <1>10. /\ pc = "page" => fpos + 1 = FilePage(Rank(block), page)
         /\ pc \in {"prog1", "prog2"} =>
              fpos = FilePage(Rank(block), page) /\ Wanted(fpos) = fpos
    BY <1>0 DEF Order, InStep
  <1>11. /\ pc \in LoopLabels \ {"block"} => block \notin base.marked
         /\ \A b \in Blocks : b \in base.marked => cell[b] = base.cell[b]
    BY <1>0 DEF Order, MarksFixed
  <1>12. InArea' = (block' < opt.start + flen')
    BY <1>0 DEF InArea
  <1> HIDE DEF want, Closing, Here
  <1> USE DEF OrderLabels, LoopLabels, locals, flash
  <1>13. CASE OpenFile
    <2>1. block' = opt.start /\ pc' = "block"
      BY <1>13 DEF OpenFile
    <2>2. QED
      BY <1>0, <1>3, <2>1
  <1>14. CASE SkipBadBlock
    <2>1. /\ block' = block + 1 /\ pc' = "block" /\ pc = "block" /\ cell' = cell /\ InArea
      BY <1>14 DEF SkipBadBlock
    <2>2. PICK bad \in CheckBlock(block) : SkipsBad(bad)
      BY <1>14 DEF SkipBadBlock
    <2>3. block \in base.marked
      BY <1>0, <1>1, <2>1, <2>2, PlainCheck DEF SkipsBad, Order
    <2>4. BlockDone(block)
      <3>1. block \in Blocks
        BY <2>3, <1>0 DEF TypeOK
      <3>2. QED
        BY <1>11, <2>3, <3>1 DEF BlockDone
    <2>5. ASSUME NEW b \in opt.start .. block PROVE BlockDone(b)'
      <3>1. BlockDone(b)
        BY <1>2, <1>3, <2>1, <2>4
      <3>2. QED
        BY <1>5, <2>1, <3>1
    <2>6. block' - 1 = block
      BY <1>3, <2>1
    <2>7. QED
      BY <1>0, <2>1, <2>5, <2>6
  <1>15. ASSUME cell' = cell, block' = block, pc \in OrderLabels
         PROVE  \A b \in opt'.start .. block' - 1 : BlockDone(b)'
    <2>1. ASSUME NEW b \in opt.start .. block - 1 PROVE BlockDone(b)'
      BY <1>2, <1>5, <1>15
    <2>2. QED
      BY <1>0, <1>15, <2>1
  <1>16. ASSUME block' = block, pc \in OrderLabels, block \in Blocks,
                \A b \in Blocks : b # block => cell'[b] = cell[b]
         PROVE  \A b \in opt'.start .. block' - 1 : BlockDone(b)'
    <2>1. ASSUME NEW b \in opt.start .. block - 1 PROVE BlockDone(b)'
      <3>0. opt.start >= 0 /\ 0 <= block /\ block <= MaxBlock - 1
        BY <1>16 DEF Blocks, TypeOK, Options
      <3>0a. b \in Int /\ opt.start <= b /\ b <= block - 1
        BY <1>3
      <3>1. b \in Blocks /\ b # block /\ BlockDone(b)
        BY <1>2, <1>3, <1>16, <3>0, <3>0a, ConstantTypes DEF Blocks
      <3>2. cell'[b] = cell[b]
        BY <1>16, <3>1
      <3>3. QED
        BY <1>0, <3>1, <3>2, DoneFrame
    <2>2. QED
      BY <1>0, <1>16, <2>1
  <1>17. CASE EnterBlock
    <2>1. /\ pc = "block" /\ page' = 0 /\ block' = block /\ cell' = cell
          /\ pc' = "erase1"
      <3>1. PICK bad \in CheckBlock(block) :
              /\ ~SkipsBad(bad)
              /\ pc' = IF (bad /\ Has("ub")) \/ (~bad /\ TRUE) THEN "erase1" ELSE "page"
        BY <1>1, <1>17 DEF EnterBlock, EnterBlockIf
      <3>2. ~bad
        BY <1>1, <3>1 DEF SkipsBad
      <3>3. QED
        BY <1>17, <3>1, <3>2 DEF EnterBlock, EnterBlockIf
    <2>2. QED
      BY <1>15, <2>1
  <1>18. CASE EraseSetCfg
    BY <1>15, <1>18 DEF EraseSetCfg
  <1>19. CASE EraseExec
    <2>1. pc = "erase2" /\ pc' = "erase3" /\ block' = block
      BY <1>19 DEF EraseExec
    <2>2. block \in Blocks
      BY <2>1, BlockInFlash DEF BlockLabels
    <2>3. \A b \in Blocks : b # block => cell'[b] = cell[b]
      BY <1>19 DEF EraseExec, TypeOK
    <2>4. QED
      BY <1>16, <2>1, <2>2, <2>3
  <1>20. CASE EraseRestore
    <2>1. /\ pc = "erase3" /\ pc' = "page" /\ UNCHANGED <<block, page, cell>> /\ page = 0
          /\ \A p \in Pages : p >= 0 => cell[block][p] = Erased
      BY <1>3, <1>20 DEF EraseRestore, Safe, PagesClean, CleanFrom
    <2>2. CurrentDone'
      BY <1>3, <1>8, <2>1
    <2>3. QED
      BY <1>15, <2>1, <2>2
  <1>21. CASE EndOfBlock
    <2>1. pc = "page" /\ page = Ppb /\ pc' = "block" /\ block' = block + 1 /\ cell' = cell
      BY <1>21 DEF EndOfBlock
    <2>2. BlockDone(block)
      <3>1. Here(Ppb, FALSE)
        BY <1>7, <2>1 DEF Here
      <3>2. \A p \in Pages : cell[block][p] = want(p)
        BY <1>3, <3>1 DEF Here
      <3>3. QED
        BY <1>11, <2>1, <3>2 DEF BlockDone, want
    <2>3. ASSUME NEW b \in opt.start .. block PROVE BlockDone(b)'
      <3>1. BlockDone(b)
        BY <1>2, <1>3, <2>1, <2>2
      <3>2. QED
        BY <1>5, <2>1, <3>1
    <2>4. block' - 1 = block
      BY <1>3, <2>1
    <2>5. QED
      BY <1>0, <2>1, <2>3, <2>4
  <1>22. CASE EndOfFile
    <2>1. /\ pc = "page" /\ page < Ppb /\ Len(file) <= fpos /\ pc' = "endpage"
          /\ UNCHANGED <<block, page, cell>>
      BY <1>3, <1>22 DEF EndOfFile, MorePages
    <2>2. Here(page, FALSE)
      BY <1>7, <2>1 DEF Here
    <2>3. CurrentDone'
      BY <1>4, <1>8, <2>1, <2>2 DEF Here
    <2>4. FilePage(Rank(block), page)' > Len(file)
      BY <1>3, <1>9, <1>10, <2>1
    <2>5. block' \notin base'.marked
      BY <1>0, <1>11, <2>1
    <2>6. QED
      BY <1>0, <1>15, <2>1, <2>3, <2>4, <2>5
  <1>23. CASE SkipPage
    <2>1. /\ pc = "page" /\ page < Ppb /\ pc' = "page" /\ page' = page + 1
          /\ UNCHANGED <<block, cell>> /\ fpos < Len(file) /\ (EmptyPage \/ BadPage)
      BY <1>23 DEF SkipPage, SkipPageIf, MorePages
    <2>2. want(page) = Erased
      <3>1. Wanted(fpos + 1) = Erased
        BY <2>1 DEF Wanted, EmptyPage, BadPage, Kind
      <3>2. QED
        BY <1>10, <2>1, <3>1 DEF want
    <2>3. Here(page, FALSE)
      BY <1>7, <2>1 DEF Here
    <2>4. CurrentDone'
      BY <1>3, <1>4, <1>8, <2>1, <2>2, <2>3 DEF Here
    <2>5. QED
      BY <1>15, <2>1, <2>4
  <1>24. CASE TakePage
    <2>1. pc = "page" /\ pc' = "prog1" /\ UNCHANGED <<block, page, cell>>
      BY <1>24 DEF TakePage, TakePageIf, MorePages
    <2>2. Here(page, FALSE)
      BY <1>7, <2>1 DEF Here
    <2>3. CurrentDone'
      BY <1>4, <1>8, <2>1, <2>2 DEF Here
    <2>4. QED
      BY <1>15, <2>1, <2>3
  <1>25. CASE ProgramSectors
    <2>1. /\ pc = "prog1" /\ pc' = "prog2" /\ UNCHANGED <<block, page>>
          /\ cell' = [cell EXCEPT ![block][page] = Partial]
      BY <1>25 DEF ProgramSectors
    <2>2. block \in Blocks /\ page \in Pages
      BY <1>3, <1>6, <2>1 DEF Bounds, ProgLabels, MarkLabels, TypeOK, Pages
    <2>3. /\ \A b \in Blocks : b # block => cell'[b] = cell[b]
          /\ \A p \in Pages : cell'[block][p] = IF p = page THEN Partial ELSE cell[block][p]
      BY <2>1, <2>2 DEF TypeOK
    <2>4. Here(page, FALSE)
      BY <1>7, <2>1 DEF Here
    <2>5. CurrentDone'
      BY <1>3, <1>4, <1>8, <2>1, <2>2, <2>3, <2>4 DEF Here
    <2>6. QED
      BY <1>16, <2>1, <2>2, <2>3, <2>5
  <1>26. CASE ProgramDone
    <2>1. /\ pc = "prog2" /\ pc' = "page" /\ block' = block /\ page' = page + 1
          /\ cell' = [cell EXCEPT ![block][page] = fpos]
      BY <1>26 DEF ProgramDone
    <2>2. block \in Blocks /\ page \in Pages
      BY <1>3, <1>6, <2>1 DEF Bounds, ProgLabels, MarkLabels, TypeOK, Pages
    <2>3. /\ \A b \in Blocks : b # block => cell'[b] = cell[b]
          /\ \A p \in Pages : cell'[block][p] = IF p = page THEN fpos ELSE cell[block][p]
      BY <2>1, <2>2 DEF TypeOK
    <2>4. Here(page, TRUE) /\ want(page) = fpos
      BY <1>7, <1>10, <2>1 DEF Here, want
    <2>5. CurrentDone'
      BY <1>3, <1>4, <1>8, <2>1, <2>2, <2>3, <2>4 DEF Here
    <2>6. QED
      BY <1>16, <2>1, <2>2, <2>3, <2>5
  <1>27. CASE RestoreRegs
    <2>1. pc = "endpage" /\ pc' = "done" /\ UNCHANGED <<block, page, cell, flen>>
      BY <1>27 DEF RestoreRegs
    <2>2. InArea' = InArea
      BY <1>0, <2>1 DEF InArea
    <2>3. Closing => CurrentDone' /\ FilePage(Rank(block), page)' > Len(file)
      <3>1. SUFFICES ASSUME Closing PROVE CurrentDone' /\ FilePage(Rank(block), page)' > Len(file)
        OBVIOUS
      <3>2. Here(page, FALSE)
        BY <2>1, <3>1 DEF Closing, CurrentDone, Here, want
      <3>3. CurrentDone'
        BY <1>4, <1>8, <2>1, <3>2 DEF Here
      <3>4. QED
        BY <1>9, <2>1, <3>1, <3>3 DEF Closing
    <2>4. QED
      BY <1>0, <1>2, <1>15, <2>1, <2>2, <2>3 DEF Closing
  <1>28. CASE EndOfArea
    <2>1. pc = "block" /\ ~InArea /\ pc' = "endpage" /\ UNCHANGED <<block, flen, cell>>
      BY <1>28 DEF EndOfArea
    <2>2. ~InArea'
      BY <1>0, <2>1 DEF InArea
    <2>3. QED
      BY <1>15, <2>1, <2>2
  <1>29. CASE UNCHANGED vars
    <2>1. UNCHANGED <<pc, block, page, cell, flen>>
      BY <1>29 DEF vars
    <2>2. /\ CurrentDone => CurrentDone'
          /\ InArea' = InArea
          /\ Closing => CurrentDone' /\ page' < Ppb /\ block' \notin base'.marked
                        /\ FilePage(Rank(block), page)' > Len(file')
      BY <1>0, <1>4, <1>8, <1>9, <2>1 DEF CurrentDone, InArea, Closing, want
    <2>3. QED
      BY <1>2, <1>15, <2>1, <2>2
  <1>30. CASE StartRun \/ CheckArgs \/ SetEcc \/ Mismatch \/ Kill
    BY <1>30 DEF StartRun, CheckArgs, SetEcc, Mismatch, Kill
  <1>31. CASE Hello
    BY <1>0, <1>3, <1>31 DEF Hello
  <1>32. QED
    BY <1>1, <1>13, <1>14, <1>17, <1>18, <1>19, <1>20, <1>21, <1>22, <1>23, <1>24, <1>25,
       <1>26, <1>27, <1>28, <1>29, <1>30, <1>31 DEF Next, Step, Finished

-----------------------------------------------------------------------------
LEMMA InitOrder == Init => Order
  <1> SUFFICES ASSUME Init PROVE Order
    OBVIOUS
  <1>1. pc = "args" /\ marked = base.marked /\ cell = base.cell /\ warned = 0
    BY DEF Init
  <1>2. QED
    BY <1>1 DEF Order, Untouched, MarksFixed, InStep, Copied, Counted, LoopLabels, MarkLabels

LEMMA OrderInvariant == Spec => [](TypeOK /\ Bounds /\ Safe /\ Order)
  <1>1. Init => Order
    BY InitOrder
  <1>2. TypeOK /\ Bounds /\ Safe /\ Order /\ [Next]_vars => Order'
    BY NextUntouched, NextMarksFixed, NextInStep, NextCopied, NextCounted DEF Order
  <1>3. Spec => [](TypeOK /\ Bounds)
    BY TypeCorrect
  <1>4. Spec => []Safe
    BY Safety
  <1>5. QED
    BY <1>1, <1>2, <1>3, <1>4, PTL DEF Spec

\* Whatever the flash, the file and the options, a plain run lays the file
\* blocks in their order in the good blocks of the area (the block loop of
\* main() in qwdirect.c) and leaves the defective ones as they were.
THEOREM PlainRunInOrder == Spec => []InOrder
  <1>1. ASSUME TypeOK, Order PROVE InOrder
    <2> SUFFICES ASSUME PlainRun, pc \notin {"args", "hello", "ecc", "open", "exit", "killed"}
                 PROVE  /\ \A b \in opt.start .. block - 1 :
                             IF b \in base.marked
                             THEN cell[b] = base.cell[b]
                             ELSE \A p \in Pages : cell[b][p] = Wanted(FilePage(Rank(b), p))
                        /\ pc \in {"page", "prog1", "prog2", "endpage", "done"} /\ InArea =>
                             CurrentDone
      BY DEF InOrder, PlainRun, CurrentDone
    <2>1. pc \in LoopLabels \cup {"endpage", "done"}
      BY <1>1 DEF Order, MarksFixed, TypeOK, Labels, LoopLabels, MarkLabels
    <2>2. \A b \in opt.start .. block - 1 : BlockDone(b)
      BY <1>1, <2>1 DEF Order, Copied
    <2>3. pc \in {"page", "prog1", "prog2", "endpage", "done"} /\ InArea => CurrentDone
      BY <1>1 DEF Order, Copied
    <2>4. QED
      BY <2>2, <2>3 DEF BlockDone
  <1>2. QED
    BY <1>1, OrderInvariant, PTL

\* A plain run that ends normally accounts for every block of the file (or of the
\* length asked for): it stands in a good block of the area, it was warned about,
\* or it is one of those by which the file is longer than the area, which are
\* dropped before the loop without a word (qwdirect.c:364). And no block is lost
\* unless the loop has gone through the whole area.
THEOREM LossIsAccounted == Spec => []LossAccounted
  <1>1. ASSUME TypeOK, Order PROVE LossAccounted
    <2> DEFINE r == Rank(block)
               c == CappedLen(WantedLen)
               end == Rank(opt.start + flen)
    <2> SUFFICES ASSUME PlainRun, pc = "done"
                 PROVE  /\ WantedLen - end = warned + CutSilently
                        /\ WantedLen - end > 0 => opt.start + flen = StopBlock
      BY DEF LossAccounted, PlainRun
    <2>1. /\ block \in Int /\ opt.start \in Int /\ flen \in Int /\ warned \in Nat
          /\ page \in Nat
      BY <1>1 DEF TypeOK, Options
    <2>2. /\ opt.start <= block /\ block <= opt.start + flen
          /\ flen + warned + r = c + (block - opt.start)
          /\ c <= FileBlocks
          /\ warned > 0 \/ CutSilently > 0 => opt.start + flen = StopBlock
      BY <1>1 DEF Order, Counted
    <2>3. r \in Nat
      BY <2>1, GoodBelowFinite
    <2>3a. FileBlocks \in Int /\ c \in Int
      <3>1. opt.len \in Int /\ opt.off * Ppb \in Int /\ StopBlock \in Int /\ Len(file) \in Int
        BY <1>1, ConstantTypes DEF TypeOK, Options, StopBlock, ToEnd
      <3>2. FileBlocks \in Int
        BY <3>1, ConstantTypes DEF FileBlocks
      <3>3. QED
        BY <2>1, <3>1, <3>2 DEF CappedLen, WantedLen
    <2>3b. /\ WantedLen \in Int /\ CutSilently \in Nat /\ c = WantedLen - CutSilently
      <3>1. opt.len \in Int /\ StopBlock \in Int
        BY <1>1, ConstantTypes DEF TypeOK, Options, StopBlock, ToEnd
      <3>2. WantedLen \in Int
        BY <2>3a, <3>1 DEF WantedLen
      <3>3. QED
        BY <2>1, <3>1, <3>2 DEF CappedLen, CutSilently
    <2> HIDE DEF c
    <2>4. end + warned = c
      <3>1. CASE block = opt.start + flen
        <4>1. end = r
          BY <3>1
        <4>2. QED
          BY <2>1, <2>2, <2>3, <2>3a, <3>1, <4>1
      <3>2. CASE block # opt.start + flen
        <4>1. InArea
          BY <2>1, <2>2, <3>2 DEF InArea
        <4>2. page < Ppb /\ block \notin base.marked /\ FilePage(r, page) > Len(file)
          BY <1>1, <4>1 DEF Order, Copied
        <4>3. FileBlocks <= r + 1
          BY <1>1, <2>1, <2>3, <4>2, LastFileBlock
        <4>4. Rank(block + 1) = r + 1
          BY <2>1, <2>2, <4>2, RankStep
        <4>5. block + 1 = opt.start + flen /\ warned = 0 /\ c = r + 1
          <5>1. \A fb \in Int : /\ c <= fb /\ fb <= r + 1 /\ block < opt.start + flen
                                /\ flen + warned + r = c + (block - opt.start)
                                => block + 1 = opt.start + flen /\ warned = 0 /\ c = r + 1
            <6> HIDE DEF r
            <6>1. QED
              BY <2>1, <2>3, <2>3a
          <5>2. block < opt.start + flen
            BY <2>1, <2>2, <3>2
          <5>3. QED
            BY <2>2, <2>3a, <4>3, <5>1, <5>2
        <4>6. QED
          BY <2>1, <4>4, <4>5
      <3>3. QED
        BY <3>1, <3>2
    <2>5. end \in Int
      BY <2>1, GoodBelowFinite
    <2> HIDE DEF end
    <2>6. QED
      BY <2>1, <2>2, <2>3b, <2>4, <2>5
  <1>2. QED
    BY <1>1, OrderInvariant, PTL

-----------------------------------------------------------------------------
(* The modes that deal with defects: the format pages are written in, the  *)
(* markers -uc makes and those -um compares, and what is never programmed. *)

EraseLabels == {"erase1", "erase2", "erase3"}
WorkLabels == {"block", "page"} \cup EraseLabels \cup MarkLabels \cup ProgLabels
StableLabels == WorkLabels \cup {"endpage", "done"}

\* Past the option checks the flags of -u go together.
ArgsChecked == pc \notin {"args", "exit", "killed"} => Compatible

WriteFormat(r) ==
    /\ r.cw = saved.cw /\ r.ecc = (opt.wmode # "image")
    /\ r.ud = IF opt.wmode \in LinuxModes THEN "516" ELSE saved.ud

\* The registers have the format of the write mode, or the program remembers
\* it while it erases a block or makes a marker.
FormatKept ==
    /\ pc \in {"ecc", "open"} => regs.cw = saved.cw /\ regs.ud = saved.ud
    /\ pc = "open" => regs.ecc = (opt.wmode # "image")
    /\ opt.erase = 0 =>
         /\ pc \in {"block", "page", "erase1", "mark1"} \cup ProgLabels => WriteFormat(regs)
         /\ pc \in {"erase2", "erase3"} => WriteFormat(oldregs) /\ regs.ecc = oldregs.ecc
         /\ pc \in {"mark2", "mark3"} =>
              WriteFormat(oldregs) /\ regs.cw = oldregs.cw /\ regs.ud = oldregs.ud

\* -uc, -um, -ux and -ub pass over no block, so the place in the file and the
\* place in the flash go forward together.
KeepsPlace == (Has("uc") \/ Has("um") \/ Has("ux") \/ Has("ub")) /\ opt.erase = 0
InPlace ==
    KeepsPlace =>
        /\ pc \in {"block"} \cup EraseLabels => fpos + 1 = FilePage(block - opt.start, 0)
        /\ pc = "page" => fpos + 1 = FilePage(block - opt.start, page)
        /\ pc \in MarkLabels \cup ProgLabels =>
             fpos = FilePage(block - opt.start, page) /\ fpos <= Len(file)
        /\ pc \in WorkLabels => flen <= FileBlocks

\* The file block that belongs in block b begins with the bad-block filler.
AskedBad(b) == file[FilePage(b - opt.start, 0)] = "bb"

\* A marker is made where the file asks for it; the block in hand carries one
\* only if it was made for its own first page.
MarksExplained ==
    /\ MarksJustified
    /\ pc \in MarkLabels => Has("uc") /\ file[fpos] = "bb"
    /\ pc \in ProgLabels => ~badflag /\ (file[fpos] = "bb" => Has("us"))
    /\ pc = "erase3" /\ opt.erase = 0 => block \notin marked
    /\ pc \in {"page"} \cup ProgLabels /\ ~badflag /\ ~Has("ux") /\ block \in marked =>
         Has("uc") /\ page > 0 /\ AskedBad(block)

\* The blocks whose first page has been dealt with.
MatchedBlocks ==
    IF pc \in {"endpage", "done"} THEN opt.start .. opt.start + flen - 1
    ELSE IF pc \in {"page"} \cup ProgLabels /\ page > 0 THEN opt.start .. block
    ELSE opt.start .. block - 1

\* The markers of the flash follow the file as far as the run has come.
DefectMode == (Has("uc") \/ Has("um")) /\ opt.erase = 0
MatchMode == DefectMode /\ Trusted /\ ~opt.s
MarksFollow ==
    MatchMode /\ pc \in StableLabels =>
        /\ \A b \in MatchedBlocks : b \in marked <=> AskedBad(b)
        /\ pc = "page" /\ page = 0 => (badflag <=> block \in marked)
        /\ pc \in EraseLabels => ~badflag
        /\ pc \in ProgLabels /\ page = 0 => block \notin marked
        /\ pc = "mark3" => block \in marked

\* -um changes no marker and writes nothing to a bad block.
BadUntouched ==
    Has("um") /\ opt.erase = 0 /\ Trusted /\ pc \in StableLabels =>
        /\ marked = base.marked
        /\ \A b \in Blocks : b \in base.marked => cell[b] = base.cell[b]
        /\ pc \in {"page"} \cup ProgLabels => (badflag <=> block \in marked)
        /\ pc \in EraseLabels => block \notin marked /\ ~badflag

Modes == ArgsChecked /\ FormatKept /\ InPlace /\ MarksExplained /\ MarksFollow /\ BadUntouched

-----------------------------------------------------------------------------
(* The flags of -u.                                                        *)

LEMMA OnlyMember ==
  ASSUME NEW S, IsFiniteSet(S), AtMostOne(S), NEW a \in S, NEW b \in S, Has(a), Has(b)
  PROVE  a = b
  <1> DEFINE T == opt.u \cap S
  <1>1. IsFiniteSet(T) /\ Cardinality(T) \in Nat /\ Cardinality(T) <= 1
    BY FS_Intersection, FS_CardinalityType DEF AtMostOne
  <1>2. a \in T /\ b \in T
    BY DEF Has
  <1>3. CASE Cardinality(T) = 1
    BY <1>1, <1>2, <1>3, FS_Singleton
  <1>4. CASE Cardinality(T) = 0
    BY <1>1, <1>2, <1>4, FS_EmptySet
  <1>5. QED
    BY <1>1, <1>3, <1>4

\* -uc and -um exclude each other, -us and -ux; -um excludes -ub, too.
LEMMA FlagsExclude ==
  ASSUME Compatible
  PROVE  /\ Has("uc") => ~Has("um") /\ ~Has("us") /\ ~Has("ux")
         /\ Has("um") => ~Has("uc") /\ ~Has("us") /\ ~Has("ux") /\ ~Has("ub")
  <1>1. /\ IsFiniteSet({"ux", "us", "uc", "um"})
        /\ IsFiniteSet({"ux", "ub", "um"})
    <2>1. \A a : IsFiniteSet({a})
      BY FS_Singleton
    <2>2. \A a, b : IsFiniteSet({a, b})
      <3> TAKE a, b
      <3>1. {a, b} = {a} \cup {b}
        OBVIOUS
      <3>2. IsFiniteSet({a} \cup {b})
        BY <2>1, FS_AddElement
      <3>3. QED
        BY <3>1, <3>2
    <2>3. {"ux", "us", "uc", "um"} = ({"ux", "us"} \cup {"uc"}) \cup {"um"}
      OBVIOUS
    <2>4. {"ux", "ub", "um"} = {"ux", "ub"} \cup {"um"}
      OBVIOUS
    <2>5. IsFiniteSet({"ux", "us"} \cup {"uc"}) /\ IsFiniteSet({"ux", "ub"} \cup {"um"})
      BY <2>2, FS_AddElement
    <2>6. IsFiniteSet(({"ux", "us"} \cup {"uc"}) \cup {"um"})
      BY <2>5, FS_AddElement
    <2>7. QED
      BY <2>3, <2>4, <2>5, <2>6
  <1>2. AtMostOne({"ux", "us", "uc", "um"}) /\ AtMostOne({"ux", "ub", "um"})
    BY DEF Compatible
  <1>3. \A a, b \in {"ux", "us", "uc", "um"} : Has(a) /\ Has(b) => a = b
    BY <1>1, <1>2, OnlyMember
  <1>4. \A a, b \in {"ux", "ub", "um"} : Has(a) /\ Has(b) => a = b
    BY <1>1, <1>2, OnlyMember
  <1>5. QED
    BY <1>3, <1>4

-----------------------------------------------------------------------------
(* What the steps of a run leave alone.                                    *)

\* A run keeps its command line and its file; only hello() saves registers.
LEMMA RunFrame ==
  ASSUME [Next]_vars, ~StartRun
  PROVE  /\ opt' = opt /\ file' = file /\ base' = base
         /\ ~Hello => saved' = saved
  <1> USE DEF locals, flash
  <1>1. CASE CheckArgs \/ Hello \/ SetEcc \/ OpenFile
    BY <1>1 DEF CheckArgs, Hello, SetEcc, OpenFile
  <1>2. CASE EraseModeBlock \/ EndOfArea \/ SkipBadBlock \/ EnterBlock
    BY <1>2 DEF EraseModeBlock, EndOfArea, SkipBadBlock, EnterBlock, EnterBlockIf
  <1>3. CASE EraseSetCfg \/ EraseExec \/ EraseRestore \/ EndOfBlock \/ EndOfFile
    BY <1>3 DEF EraseSetCfg, EraseExec, EraseRestore, EndOfBlock, EndOfFile
  <1>4. CASE SkipPage \/ SimulateBad \/ Mismatch \/ TakePage
    BY <1>4 DEF SkipPage, SkipPageIf, SimulateBad, SimulateBadIf, Mismatch, TakePage, TakePageIf
  <1>5. CASE MarkSetCfg \/ MarkWrite \/ MarkRestore \/ ProgramSectors \/ ProgramDone
    BY <1>5 DEF MarkSetCfg, MarkWrite, MarkRestore, ProgramSectors, ProgramDone
  <1>6. CASE RestoreRegs \/ Kill \/ UNCHANGED vars
    BY <1>6 DEF RestoreRegs, Kill, vars
  <1>7. QED
    BY <1>1, <1>2, <1>3, <1>4, <1>5, <1>6 DEF Next, Step, Finished

\* What leads into the block loop comes from a place that -u has been checked at.
LEMMA WorkFrame ==
  ASSUME TypeOK, [Next]_vars, opt.erase = 0 \/ opt'.erase = 0, pc' \in StableLabels
  PROVE  /\ pc \in StableLabels \cup {"open"} /\ ~StartRun /\ ~Hello
         /\ opt' = opt /\ file' = file /\ base' = base /\ saved' = saved
  <1> USE DEF StableLabels, WorkLabels, EraseLabels, MarkLabels, ProgLabels
  <1>0. pc \in StableLabels \cup {"open"} /\ ~StartRun /\ ~Hello
    <2>1. CASE StartRun \/ CheckArgs \/ SetEcc \/ Kill
      BY <2>1 DEF StartRun, CheckArgs, SetEcc, Kill
    <2>2. CASE Hello
      <3>1. opt' = opt /\ opt.erase \in Nat
        BY <2>2 DEF Hello, TypeOK, Options
      <3>2. pc' \in {"exit", "ecc"}
        BY <2>2, <3>1 DEF Hello
      <3>3. QED
        BY <3>2
    <2>3. CASE pc \in StableLabels \cup {"open"} /\ pc' # "args" /\ pc # "hello"
      BY <2>3 DEF StartRun, Hello
    <2>4. CASE OpenFile \/ EraseModeBlock \/ EndOfArea \/ SkipBadBlock
      BY <2>3, <2>4 DEF OpenFile, EraseModeBlock, EndOfArea, SkipBadBlock
    <2>5. CASE EnterBlock \/ EraseSetCfg \/ EraseExec \/ EraseRestore \/ EndOfBlock
      BY <2>3, <2>5 DEF EnterBlock, EnterBlockIf, EraseSetCfg, EraseExec, EraseRestore, EndOfBlock
    <2>6. CASE EndOfFile \/ SkipPage \/ SimulateBad \/ Mismatch \/ TakePage
      BY <2>3, <2>6 DEF EndOfFile, SkipPage, SkipPageIf, SimulateBad, SimulateBadIf, Mismatch,
         TakePage, TakePageIf, MorePages
    <2>7. CASE MarkSetCfg \/ MarkWrite \/ MarkRestore \/ ProgramSectors \/ ProgramDone
      BY <2>3, <2>7 DEF MarkSetCfg, MarkWrite, MarkRestore, ProgramSectors, ProgramDone
    <2>8. CASE RestoreRegs \/ UNCHANGED vars
      BY <2>3, <2>8 DEF RestoreRegs, vars, StartRun, Hello, Ended
    <2>9. QED
      BY <2>1, <2>2, <2>4, <2>5, <2>6, <2>7, <2>8 DEF Next, Step, Finished
  <1>1. QED
    BY <1>0, RunFrame

LEMMA NextArgsChecked == ArgsChecked /\ [Next]_vars => ArgsChecked'
  <1> SUFFICES ASSUME ArgsChecked, [Next]_vars, pc' \notin {"args", "exit", "killed"}
               PROVE  Compatible'
    BY DEF ArgsChecked
  <1>1. CASE CheckArgs
    BY <1>1 DEF CheckArgs, Compatible, AtMostOne, Has, locals
  <1>2. CASE StartRun
    BY <1>2 DEF StartRun
  <1>3. CASE ~StartRun /\ pc \notin {"args", "exit", "killed"}
    BY <1>3, RunFrame DEF ArgsChecked, Compatible, AtMostOne, Has
  <1>4. CASE pc \in {"args", "exit", "killed"} /\ Step
    BY <1>1, <1>4 DEF Step, Hello, SetEcc, OpenFile, EraseModeBlock, EndOfArea, SkipBadBlock,
       EnterBlock, EnterBlockIf, EraseSetCfg, EraseExec, EraseRestore, EndOfBlock, EndOfFile,
       SkipPage, SkipPageIf, SimulateBad, SimulateBadIf, Mismatch, TakePage, TakePageIf,
       MorePages, MarkSetCfg, MarkWrite, MarkRestore, ProgramSectors, ProgramDone, RestoreRegs
  <1>5. CASE UNCHANGED vars
    BY <1>5 DEF vars, locals, ArgsChecked, Compatible, AtMostOne, Has
  <1>6. QED
    BY <1>2, <1>3, <1>4, <1>5 DEF Next, Kill, Finished

-----------------------------------------------------------------------------
(* The format of the pages.                                                *)

LEMMA NextFormatKept == TypeOK /\ Bounds /\ FormatKept /\ [Next]_vars => FormatKept'
  <1> SUFFICES ASSUME TypeOK, Bounds, FormatKept, [Next]_vars PROVE FormatKept'
    OBVIOUS
  <1>0. regs \in Regs /\ oldregs \in Regs /\ saved \in Regs /\ opt.erase \in Nat
    BY DEF TypeOK, Options
  <1> USE DEF FormatKept, WriteFormat, MarkLabels, ProgLabels, locals, flash, Regs
  <1>1. CASE Hello
    <2>1. opt' = opt /\ pc' \in {"exit", "block", "ecc"}
      BY <1>1 DEF Hello
    <2>2. pc' = "block" => opt.erase > 0
      BY <1>1 DEF Hello
    <2>3. pc' = "ecc" => saved' = regs'
      BY <1>0, <1>1 DEF Hello
    <2>4. QED
      BY <1>0, <2>1, <2>2, <2>3
  <1>2. CASE SetEcc
    BY <1>0, <1>2 DEF SetEcc
  <1>3. CASE OpenFile
    BY <1>0, <1>3 DEF OpenFile
  <1>4. CASE EraseModeBlock
    <2>1. opt.erase > 0 /\ opt' = opt /\ pc' \in {"block", "done", "erase1"}
      BY <1>4 DEF EraseModeBlock
    <2>2. QED
      BY <2>1
  <1>5. CASE EnterBlock
    <2>1. pc = "block" /\ opt.erase = 0 /\ pc' \in {"page", "erase1"}
          /\ UNCHANGED <<opt, regs, oldregs, saved>>
      BY <1>5 DEF EnterBlock, EnterBlockIf
    <2>2. QED
      BY <2>1
  <1>6. CASE EraseSetCfg \/ EraseExec
    BY <1>0, <1>6 DEF EraseSetCfg, EraseExec
  <1>7. CASE EraseRestore
    BY <1>0, <1>7 DEF EraseRestore, RestoreCfg0
  <1>8. CASE MarkSetCfg \/ MarkWrite
    BY <1>0, <1>8 DEF MarkSetCfg, MarkWrite
  <1>9. CASE MarkRestore
    BY <1>0, <1>9 DEF MarkRestore, RestoreCfg1
  <1>10. CASE ProgramSectors \/ ProgramDone
    BY <1>0, <1>10 DEF ProgramSectors, ProgramDone
  <1>11. CASE EndOfArea \/ SkipBadBlock \/ EndOfBlock \/ EndOfFile
    BY <1>11 DEF EndOfArea, SkipBadBlock, EndOfBlock, EndOfFile, MorePages
  <1>12. CASE SkipPage \/ SimulateBad \/ Mismatch \/ TakePage
    BY <1>12 DEF SkipPage, SkipPageIf, SimulateBad, SimulateBadIf, Mismatch, TakePage,
       TakePageIf, MorePages
  <1>13. CASE StartRun \/ CheckArgs \/ RestoreRegs \/ Kill
    BY <1>13 DEF StartRun, CheckArgs, RestoreRegs, Kill
  <1>14. CASE UNCHANGED vars
    BY <1>14 DEF vars
  <1>15. QED
    BY <1>1, <1>2, <1>3, <1>4, <1>5, <1>6, <1>7, <1>8, <1>9, <1>10, <1>11, <1>12, <1>13,
       <1>14 DEF Next, Step, Finished

-----------------------------------------------------------------------------
(* The place in the file.                                                  *)

LEMMA FilePageSteps ==
  ASSUME opt.off \in Nat, NEW r \in Int
  PROVE  /\ \A p \in Int : FilePage(r, p) \in Int /\ FilePage(r, p + 1) = FilePage(r, p) + 1
         /\ FilePage(r + 1, 0) = FilePage(r, Ppb)
         /\ FilePage(0, 0) = opt.off * Ppb + 1
  <1>1. Ppb \in Nat \ {0} /\ opt.off + r \in Int
    BY ConstantTypes
  <1>2. (opt.off + r) * Ppb \in Int
    BY <1>1
  <1>3. (opt.off + (r + 1)) * Ppb = (opt.off + r) * Ppb + Ppb
    <2>1. \A x \in Int : (x + 1) * Ppb = x * Ppb + Ppb
      BY <1>1
    <2>2. opt.off + (r + 1) = (opt.off + r) + 1
      BY <1>1
    <2>3. QED
      BY <1>1, <2>1, <2>2
  <1>4. opt.off + 0 = opt.off
    OBVIOUS
  <1>5. QED
    BY <1>1, <1>2, <1>3, <1>4 DEF FilePage

\* The first page of a file block that exists is in the file.
LEMMA FileBlockStarts ==
  ASSUME TypeOK, NEW r \in Int, r < FileBlocks
  PROVE  FilePage(r, 0) <= Len(file)
  <1> DEFINE n == Len(file) - opt.off * Ppb + Ppb - 1
  <1>1. /\ Ppb \in Nat \ {0} /\ opt.off \in Nat /\ Len(file) \in Nat
        /\ opt.off * Ppb \in Int /\ r * Ppb \in Int
    BY ConstantTypes DEF TypeOK, Options
  <1>2. (opt.off + r) * Ppb = opt.off * Ppb + r * Ppb /\ (r + 1) * Ppb = r * Ppb + Ppb
    BY <1>1
  <1>3. ASSUME Len(file) < FilePage(r, 0) PROVE FALSE
    <2>1. \A x, y \in Int : Len(file) < x + y + 0 + 1 =>
             Len(file) - x + Ppb - 1 \in Int /\ Len(file) - x + Ppb - 1 < y + Ppb
      BY <1>1
    <2>2. n \in Int /\ n < (r + 1) * Ppb
      BY <1>1, <1>2, <1>3, <2>1 DEF FilePage
    <2>3. n \div Ppb <= r
      <3> HIDE DEF n
      <3> QED
        BY <1>1, <2>2, DivBound
    <2>4. n \div Ppb \in Int
      <3> HIDE DEF n
      <3> QED
        BY <1>1, <2>2
    <2>5. QED
      BY <2>3, <2>4 DEF FileBlocks
  <1>4. FilePage(r, 0) \in Int
    BY <1>1, FilePageSteps
  <1>5. QED
    BY <1>1, <1>3, <1>4

LEMMA NextInPlace ==
    TypeOK /\ Bounds /\ PagesClean /\ ArgsChecked /\ InPlace /\ [Next]_vars => InPlace'
  <1> DEFINE r == block - opt.start
  <1> SUFFICES ASSUME TypeOK, Bounds, PagesClean, InPlace, [Next]_vars, KeepsPlace',
                      pc' \in WorkLabels
               PROVE  /\ pc' \in {"block"} \cup EraseLabels => fpos' + 1 = FilePage(r, 0)'
                      /\ pc' = "page" => fpos' + 1 = FilePage(r, page)'
                      /\ pc' \in MarkLabels \cup ProgLabels =>
                           fpos' = FilePage(r, page)' /\ fpos' <= Len(file')
                      /\ flen' <= FileBlocks'
    BY DEF InPlace, WorkLabels
  <1>0. /\ pc \in WorkLabels \cup {"open"} /\ opt' = opt /\ file' = file
        /\ ~StartRun /\ ~Hello
    <2>1. pc \in StableLabels \cup {"open"} /\ opt' = opt /\ file' = file /\ ~StartRun /\ ~Hello
      BY WorkFrame DEF KeepsPlace, StableLabels
    <2>2. pc \notin {"endpage", "done"}
      <3>1. ~RestoreRegs /\ (pc' = pc => pc \in WorkLabels)
        BY DEF RestoreRegs, WorkLabels, EraseLabels, MarkLabels, ProgLabels
      <3>2. pc \in {"endpage", "done"} => ~Step
        BY <3>1 DEF Step, CheckArgs, Hello, SetEcc, OpenFile, EraseModeBlock, EndOfArea,
           SkipBadBlock, EnterBlock, EnterBlockIf, EraseSetCfg, EraseExec, EraseRestore,
           EndOfBlock, EndOfFile, SkipPage, SkipPageIf, SimulateBad, SimulateBadIf, Mismatch,
           TakePage, TakePageIf, MorePages, MarkSetCfg, MarkWrite, MarkRestore,
           ProgramSectors, ProgramDone
      <3>3. ~Kill
        BY DEF Kill, WorkLabels, EraseLabels, MarkLabels, ProgLabels
      <3>4. UNCHANGED vars => pc \notin {"endpage", "done"}
        BY DEF vars, WorkLabels, EraseLabels, MarkLabels, ProgLabels
      <3>5. QED
        BY <2>1, <3>2, <3>3, <3>4 DEF Next, Finished
    <2>3. QED
      BY <2>1, <2>2 DEF StableLabels
  <1>1. KeepsPlace /\ opt.erase = 0 /\ (Has("uc") \/ Has("um") \/ Has("ux") \/ Has("ub"))
    BY <1>0 DEF KeepsPlace, Has
  <1>2. /\ pc \in {"block"} \cup EraseLabels => fpos + 1 = FilePage(r, 0)
        /\ pc = "page" => fpos + 1 = FilePage(r, page)
        /\ pc \in MarkLabels \cup ProgLabels =>
             fpos = FilePage(r, page) /\ fpos <= Len(file)
        /\ pc \in WorkLabels => flen <= FileBlocks
    BY <1>1 DEF InPlace
  <1>3. /\ block \in Int /\ page \in Int /\ fpos \in Int /\ opt.start \in Int /\ Ppb \in Int
        /\ opt.off \in Nat /\ opt.len \in Nat /\ Len(file) \in Int /\ flen \in Int /\ r \in Int
    BY ConstantTypes DEF TypeOK, Options
  <1>4. /\ FileBlocks' = FileBlocks
        /\ block' = block => r' = r /\ FilePage(r, 0)' = FilePage(r, 0)
        /\ block' = block + 1 => FilePage(r, 0)' = FilePage(r + 1, 0)
        /\ block' = block /\ page' = page => FilePage(r, page)' = FilePage(r, page)
        /\ block' = block /\ page' = page + 1 => FilePage(r, page)' = FilePage(r, page + 1)
        /\ block' = block /\ page' = 0 => FilePage(r, page)' = FilePage(r, 0)
    <2>1. block' = block + 1 => r' = r + 1
      BY <1>0, <1>3
    <2>2. QED
      BY <1>0, <2>1 DEF FileBlocks, FilePage
  <1>5. /\ FilePage(r, page) \in Int /\ FilePage(r, page + 1) = FilePage(r, page) + 1
        /\ FilePage(r + 1, 0) = FilePage(r, Ppb)
    BY <1>3, FilePageSteps
  <1> HIDE DEF r
  <1> USE DEF WorkLabels, EraseLabels, MarkLabels, ProgLabels, locals
  <1>6. CASE OpenFile
    <2>1. ~FileRefused
      BY <1>6 DEF OpenFile
    <2>2. /\ pc' = "block" /\ fpos' = opt.off * Ppb /\ block' = opt.start
          /\ flen' = CappedLen(WantedLen)
      BY <1>6, <2>1 DEF OpenFile
    <2>3. FilePage(r, 0)' = opt.off * Ppb + 1
      <3>1. r' = 0
        BY <1>0, <1>3, <2>2 DEF r
      <3>2. FilePage(r, 0)' = FilePage(0, 0)
        BY <1>0, <3>1 DEF FilePage
      <3>3. QED
        BY <1>3, <3>2, FilePageSteps
    <2>4. flen' <= FileBlocks
      <3>1. FileBlocks \in Int
        BY <1>3, ConstantTypes DEF FileBlocks
      <3>2. WantedLen <= FileBlocks /\ WantedLen \in Int
        BY <1>3, <2>1, <3>1 DEF WantedLen, FileRefused
      <3>3. StopBlock \in Int
        BY ConstantTypes DEF StopBlock, ToEnd, TypeOK, Options
      <3>4. CappedLen(WantedLen) <= WantedLen /\ CappedLen(WantedLen) \in Int
        BY <1>3, <3>2, <3>3 DEF CappedLen
      <3>5. QED
        BY <2>2, <3>1, <3>2, <3>4
    <2>5. QED
      BY <1>4, <2>2, <2>3, <2>4
  <1>7. CASE EraseModeBlock \/ EndOfArea \/ EndOfFile \/ Mismatch \/ RestoreRegs \/ Kill
    <2>1. ~EraseModeBlock
      BY <1>1 DEF EraseModeBlock
    <2>2. QED
      BY <1>7, <2>1 DEF EndOfArea, EndOfFile, Mismatch, RestoreRegs, Kill
  <1>8. CASE SkipBadBlock
    <2>1. \E bad \in CheckBlock(block) : SkipsBad(bad)
      BY <1>8 DEF SkipBadBlock
    <2>2. ~Has("um") /\ ~Has("uc") /\ ~Has("ux") /\ ~Has("ub")
      BY <1>8, <2>1 DEF SkipsBad, SkipBadBlock
    <2>3. QED
      BY <1>1, <2>2
  <1>9. CASE EnterBlock
    <2>1. /\ pc = "block" /\ pc' \in {"page", "erase1"} /\ page' = 0
          /\ UNCHANGED <<block, fpos, flen>>
      BY <1>9 DEF EnterBlock, EnterBlockIf
    <2>2. QED
      BY <1>2, <1>4, <2>1
  <1>10. CASE EraseSetCfg \/ EraseExec
    BY <1>2, <1>4, <1>10 DEF EraseSetCfg, EraseExec
  <1>11. CASE EraseRestore
    <2>1. pc = "erase3" /\ pc' = "page" /\ page = 0 /\ UNCHANGED <<block, page, fpos, flen>>
      BY <1>1, <1>11 DEF EraseRestore, PagesClean
    <2>2. QED
      BY <1>2, <1>4, <2>1
  <1>12. CASE EndOfBlock
    <2>1. /\ pc = "page" /\ page = Ppb /\ pc' = "block" /\ block' = block + 1
          /\ UNCHANGED <<fpos, flen>>
      BY <1>12 DEF EndOfBlock
    <2>2. QED
      BY <1>2, <1>4, <1>5, <2>1
  <1>13. CASE SkipPage
    <2>1. /\ pc = "page" /\ pc' = "page" /\ fpos' = fpos + 1 /\ page' = page + 1
          /\ UNCHANGED <<block, flen>>
      BY <1>13 DEF SkipPage, SkipPageIf, MorePages
    <2>2. QED
      BY <1>2, <1>3, <1>4, <1>5, <2>1
  <1>14. CASE SimulateBad
    <2>1. /\ pc = "page" /\ fpos' = fpos + 1 /\ fpos < Len(file)
          /\ \/ pc' = "page" /\ page' = page + 1
             \/ pc' = "mark1" /\ page' = page
          /\ UNCHANGED <<block, flen>>
      BY <1>14 DEF SimulateBad, SimulateBadIf, MorePages
    <2>2. QED
      BY <1>0, <1>2, <1>3, <1>4, <1>5, <2>1
  <1>15. CASE TakePage
    <2>1. /\ pc = "page" /\ pc' = "prog1" /\ fpos' = fpos + 1 /\ fpos < Len(file)
          /\ UNCHANGED <<block, page, flen>>
      BY <1>15 DEF TakePage, TakePageIf, MorePages
    <2>2. QED
      BY <1>0, <1>2, <1>3, <1>4, <1>5, <2>1
  <1>16. CASE MarkSetCfg \/ MarkWrite \/ ProgramSectors
    <2>1. /\ pc \in {"mark1", "mark2", "prog1"} /\ pc' \in {"mark2", "mark3", "prog2"}
          /\ UNCHANGED <<block, page, fpos, flen>>
      BY <1>16 DEF MarkSetCfg, MarkWrite, ProgramSectors
    <2>2. QED
      BY <1>0, <1>2, <1>4, <2>1
  <1>17. CASE MarkRestore \/ ProgramDone
    <2>1. /\ pc \in {"mark3", "prog2"} /\ pc' = "page" /\ page' = page + 1
          /\ UNCHANGED <<block, fpos, flen>>
      BY <1>17 DEF MarkRestore, ProgramDone
    <2>2. QED
      BY <1>2, <1>3, <1>4, <1>5, <2>1
  <1>18. CASE UNCHANGED vars
    <2>1. UNCHANGED <<pc, block, page, fpos, flen, file>>
      BY <1>18 DEF vars
    <2>2. QED
      BY <1>2, <1>4, <2>1
  <1>19. CASE CheckArgs \/ SetEcc
    BY <1>0, <1>19 DEF CheckArgs, SetEcc
  <1>20. QED
    BY <1>0, <1>6, <1>7, <1>8, <1>9, <1>10, <1>11, <1>12, <1>13, <1>14, <1>15, <1>16, <1>17,
       <1>18, <1>19 DEF Next, Step, Finished

-----------------------------------------------------------------------------
(* The markers.                                                            *)

LEMMA NextMarksExplained ==
    TypeOK /\ Bounds /\ InPlace /\ MarksExplained /\ [Next]_vars => MarksExplained'
  <1> SUFFICES ASSUME TypeOK, Bounds, InPlace, MarksExplained, [Next]_vars
               PROVE  MarksExplained'
    OBVIOUS
  <1>0. /\ page \in Int /\ block \in Int /\ fpos \in Int /\ badflag \in BOOLEAN
        /\ opt.erase \in Nat
    BY DEF TypeOK, Options
  <1>1. /\ MarksJustified
        /\ pc \in MarkLabels => Has("uc") /\ file[fpos] = "bb"
        /\ pc \in ProgLabels => ~badflag /\ (file[fpos] = "bb" => Has("us"))
        /\ pc = "erase3" /\ opt.erase = 0 => block \notin marked
        /\ pc \in {"page"} \cup ProgLabels /\ ~badflag /\ ~Has("ux") /\ block \in marked =>
             Has("uc") /\ page > 0 /\ AskedBad(block)
    BY DEF MarksExplained
  <1>2. CASE StartRun
    <2>1. pc' = "args" /\ base'.marked = marked' 
      BY <1>2 DEF StartRun, flash
    <2>2. QED
      BY <2>1 DEF MarksExplained, MarksJustified, MarkLabels, ProgLabels
  <1>3. ASSUME ~StartRun
        PROVE  /\ opt' = opt /\ file' = file /\ base' = base
               /\ \A f : Has(f)' = Has(f)
               /\ \A b : AskedBad(b)' = AskedBad(b)
               /\ block' = block => AskedBad(block)' = AskedBad(block)
    BY <1>3, RunFrame DEF Has, AskedBad, FilePage
  <1>4. ASSUME ~StartRun,
               \A b \in marked' : b \in marked \/ Has("ux") \/ (Has("uc") /\ AskedBad(b))
        PROVE  MarksJustified'
    BY <1>1, <1>3, <1>4 DEF MarksJustified, AskedBad, Has
  <1> USE DEF MarkLabels, ProgLabels, locals, flash
  <1>5. CASE MarkWrite
    <2>1. Has("uc") /\ file[fpos] = "bb" /\ page = 0 /\ opt.erase = 0
      BY <1>1, <1>5 DEF MarkWrite, Bounds
    <2>2. AskedBad(block)
      BY <1>5, <2>1 DEF MarkWrite, InPlace, KeepsPlace, AskedBad
    <2>3. ~StartRun
      BY <1>5 DEF MarkWrite, StartRun, Ended
    <2>4. MarksJustified'
      BY <1>4, <1>5, <2>1, <2>2, <2>3 DEF MarkWrite
    <2>5. QED
      BY <1>1, <1>3, <1>5, <2>3, <2>4 DEF MarkWrite, MarksExplained
  <1>6. CASE MarkRestore
    <2>1. Has("uc") /\ file[fpos] = "bb" /\ page = 0 /\ opt.erase = 0
      BY <1>1, <1>6 DEF MarkRestore, Bounds
    <2>2. AskedBad(block)
      BY <1>6, <2>1 DEF MarkRestore, InPlace, KeepsPlace, AskedBad
    <2>3. ~StartRun
      BY <1>6 DEF MarkRestore, StartRun, Ended
    <2>4. MarksJustified' /\ page' > 0 /\ block' = block
      BY <1>4, <1>6, <2>1, <2>3 DEF MarkRestore
    <2>5. QED
      BY <1>3, <1>6, <2>1, <2>2, <2>3, <2>4 DEF MarkRestore, MarksExplained
  <1>7. CASE EraseExec
    <2>1. ~StartRun
      BY <1>7 DEF EraseExec, StartRun, Ended
    <2>2. MarksJustified' /\ pc' = "erase3" /\ block' \notin marked'
      BY <1>4, <1>7, <2>1 DEF EraseExec
    <2>3. QED
      BY <2>2 DEF MarksExplained
  <1>8. CASE ProgramDone
    <2>1. ~StartRun
      BY <1>8 DEF ProgramDone, StartRun, Ended
    <2>2. \A b \in marked' : b \in marked \/ Has("ux")
      BY <1>8 DEF ProgramDone, MarkedAfterPage
    <2>3. MarksJustified'
      BY <1>4, <2>1, <2>2
    <2>4. pc = "prog2" /\ pc' = "page" /\ page' = page + 1 /\ block' = block /\ badflag' = badflag
      BY <1>8 DEF ProgramDone
    <2>5. ~Has("ux") /\ ~badflag /\ block \in marked' => Has("uc") /\ page > 0 /\ AskedBad(block)
      BY <1>1, <2>2, <2>4
    <2>6. QED
      BY <1>0, <1>3, <2>1, <2>3, <2>4, <2>5 DEF MarksExplained
  <1>9. ASSUME ~StartRun, ~MarkWrite, ~EraseExec, ~ProgramDone, ~Kill
        PROVE  marked' = marked /\ MarksJustified'
    <2>1. marked' = marked
      BY <1>9, OnlyWritesWrite DEF Writes, ProgramSectors
    <2>2. QED
      BY <1>4, <1>9, <2>1
  <1>10. CASE SkipPage
    <2>1. /\ pc = "page" /\ pc' = "page" /\ page' = page + 1
          /\ UNCHANGED <<block, badflag, marked>>
      BY <1>10 DEF SkipPage, SkipPageIf, MorePages
    <2>2. ~StartRun /\ ~MarkWrite /\ ~EraseExec /\ ~ProgramDone /\ ~Kill
      BY <2>1 DEF StartRun, MarkWrite, EraseExec, ProgramDone, Kill, Ended
    <2>3. QED
      BY <1>0, <1>1, <1>3, <1>9, <2>1, <2>2 DEF MarksExplained
  <1>11. CASE SimulateBad
    <2>1. /\ pc = "page" /\ BadPage /\ ~badflag /\ Has("uc") /\ page = 0 /\ fpos' = fpos + 1
          /\ pc' \in {"page", "mark1"}
          /\ UNCHANGED <<block, badflag, marked>>
      BY <1>11 DEF SimulateBad, SimulateBadIf, MorePages
    <2>2. ~StartRun /\ ~MarkWrite /\ ~EraseExec /\ ~ProgramDone /\ ~Kill
      BY <2>1 DEF StartRun, MarkWrite, EraseExec, ProgramDone, Kill, Ended
    <2>3. file[fpos'] = "bb"
      BY <2>1 DEF BadPage, Kind
    <2>4. Has("ux") \/ block \notin marked
      BY <1>0, <1>1, <2>1
    <2>5. QED
      BY <1>3, <1>9, <2>1, <2>2, <2>3, <2>4 DEF MarksExplained
  <1>12. CASE TakePage
    <2>1. /\ pc = "page" /\ ~BadPage /\ ~badflag /\ fpos' = fpos + 1 /\ pc' = "prog1"
          /\ UNCHANGED <<block, page, badflag, marked>>
      BY <1>12 DEF TakePage, TakePageIf, MorePages
    <2>2. ~StartRun /\ ~MarkWrite /\ ~EraseExec /\ ~ProgramDone /\ ~Kill
      BY <2>1 DEF StartRun, MarkWrite, EraseExec, ProgramDone, Kill, Ended
    <2>3. file[fpos'] = "bb" => Has("us")
      BY <2>1 DEF BadPage, Kind
    <2>4. QED
      BY <1>1, <1>3, <1>9, <2>1, <2>2, <2>3 DEF MarksExplained
  <1>13. CASE EnterBlock
    <2>1. PICK bad \in IF Has("ux") \/ Has("ub") THEN {FALSE} ELSE CheckBlock(block) :
            /\ badflag' = bad
            /\ pc' = IF (bad /\ Has("ub")) \/ (~bad /\ TRUE) THEN "erase1" ELSE "page"
      BY <1>13 DEF EnterBlock, EnterBlockIf
    <2>2. pc = "block" /\ pc' \in {"page", "erase1"} /\ (pc' = "page" => badflag')
      BY <1>13, <2>1 DEF EnterBlock, EnterBlockIf
    <2>3. ~StartRun /\ ~MarkWrite /\ ~EraseExec /\ ~ProgramDone /\ ~Kill
      BY <2>2 DEF StartRun, MarkWrite, EraseExec, ProgramDone, Kill, Ended
    <2>4. QED
      BY <1>9, <2>2, <2>3 DEF MarksExplained
  <1>14. CASE EraseRestore
    <2>1. /\ pc = "erase3" /\ pc' \in {"block", "page"} /\ marked' = marked
          /\ pc' = "page" => opt.erase = 0 /\ block' = block
      BY <1>0, <1>14 DEF EraseRestore
    <2>2. ~StartRun /\ ~MarkWrite /\ ~EraseExec /\ ~ProgramDone /\ ~Kill
      BY <2>1 DEF StartRun, MarkWrite, EraseExec, ProgramDone, Kill, Ended
    <2>3. QED
      BY <1>1, <1>9, <2>1, <2>2 DEF MarksExplained
  <1>15. CASE MarkSetCfg \/ ProgramSectors
    <2>1. /\ \/ pc = "mark1" /\ pc' = "mark2"
             \/ pc = "prog1" /\ pc' = "prog2"
          /\ UNCHANGED <<block, page, fpos, badflag, marked>>
      BY <1>15 DEF MarkSetCfg, ProgramSectors
    <2>2. ~StartRun /\ ~MarkWrite /\ ~EraseExec /\ ~ProgramDone /\ ~Kill
      BY <2>1 DEF StartRun, MarkWrite, EraseExec, ProgramDone, Kill, Ended
    <2>3. QED
      BY <1>1, <1>3, <1>9, <2>1, <2>2 DEF MarksExplained
  <1>16. CASE UNCHANGED vars
    BY <1>1, <1>16 DEF vars, MarksExplained, MarksJustified, AskedBad, FilePage, Has
  <1>17. ASSUME pc' \notin MarkLabels \cup ProgLabels \cup {"page", "erase3"},
                ~StartRun, ~MarkWrite, ~EraseExec, ~ProgramDone, ~Kill
         PROVE  MarksExplained'
    BY <1>9, <1>17 DEF MarksExplained
  <1>18. CASE CheckArgs \/ Hello \/ SetEcc \/ OpenFile
    <2>1. /\ pc \in {"args", "hello", "ecc", "open"}
          /\ pc' \in {"hello", "exit", "block", "ecc", "open"}
      BY <1>18 DEF CheckArgs, Hello, SetEcc, OpenFile
    <2>2. QED
      BY <1>17, <2>1 DEF StartRun, MarkWrite, EraseExec, ProgramDone, Kill, Ended
  <1>19. CASE EraseModeBlock \/ EndOfArea \/ SkipBadBlock
    <2>1. pc = "block" /\ pc' \in {"done", "block", "erase1", "endpage"}
      BY <1>19 DEF EraseModeBlock, EndOfArea, SkipBadBlock
    <2>2. QED
      BY <1>17, <2>1 DEF StartRun, MarkWrite, EraseExec, ProgramDone, Kill, Ended
  <1>20. CASE EraseSetCfg \/ EndOfBlock \/ EndOfFile \/ Mismatch \/ RestoreRegs
    <2>1. pc \in {"erase1", "page", "endpage"} /\ pc' \in {"erase2", "block", "endpage", "exit", "done"}
      BY <1>20 DEF EraseSetCfg, EndOfBlock, EndOfFile, Mismatch, RestoreRegs, MorePages
    <2>2. QED
      BY <1>17, <2>1 DEF StartRun, MarkWrite, EraseExec, ProgramDone, Kill, Ended
  <1>21. CASE Kill
    <2>1. ~StartRun /\ pc' = "killed"
      BY <1>21 DEF Kill, StartRun
    <2>2. \A b \in marked' : b \in marked \/ Has("ux")
      BY <1>21, KillFlash
    <2>3. MarksJustified'
      BY <1>4, <2>1, <2>2
    <2>4. QED
      BY <2>1, <2>3 DEF MarksExplained
  <1>22. QED
    BY <1>2, <1>5, <1>6, <1>7, <1>8, <1>10, <1>11, <1>12, <1>13, <1>14, <1>15, <1>16,
       <1>18, <1>19, <1>20, <1>21 DEF Next, Step, Finished

\* In the modes that deal with defects the marker check tells the truth.
LEMMA ModeCheck ==
  ASSUME Safe, Trusted, DefectMode, Compatible, pc \in {"block", "page"}
  PROVE  CheckBlock(block) = {block \in marked}
  <1>1. ~Has("ux")
    BY FlagsExclude DEF DefectMode
  <1>2. regs.bad
    BY <1>1 DEF Safe, ChecksReliable, Ended
  <1>3. QED
    BY <1>2 DEF CheckBlock

LEMMA NextMarksFollow ==
    /\ TypeOK /\ Bounds /\ Safe /\ Untouched
    /\ ArgsChecked /\ InPlace /\ MarksExplained /\ MarksFollow
    /\ [Next]_vars
    => MarksFollow'
  <1> SUFFICES ASSUME TypeOK, Bounds, Safe, Untouched, ArgsChecked, InPlace, MarksExplained,
                      MarksFollow, [Next]_vars, MatchMode', pc' \in StableLabels
               PROVE  /\ \A b \in MatchedBlocks' : b \in marked' <=> AskedBad(b)'
                      /\ pc' = "page" /\ page' = 0 => (badflag' <=> block' \in marked')
                      /\ pc' \in EraseLabels => ~badflag'
                      /\ pc' \in ProgLabels /\ page' = 0 => block' \notin marked'
                      /\ pc' = "mark3" => block' \in marked'
    BY DEF MarksFollow
  <1> DEFINE r == block - opt.start
             upto == opt.start .. block
             below == opt.start .. block - 1
  <1>0. /\ pc \in StableLabels \cup {"open"} /\ ~StartRun /\ ~Hello
        /\ opt' = opt /\ file' = file /\ base' = base /\ saved' = saved
    BY WorkFrame DEF MatchMode, DefectMode
  <1>1. /\ MatchMode /\ KeepsPlace /\ DefectMode /\ Trusted /\ ~opt.s /\ opt.erase = 0
        /\ Has("uc") \/ Has("um")
    BY <1>0 DEF MatchMode, DefectMode, KeepsPlace, Trusted, Has
  <1>2. Compatible /\ ~Has("us") /\ ~Has("ux") /\ (Has("um") => ~Has("ub"))
    <2>1. Compatible
      BY <1>0 DEF ArgsChecked, StableLabels, WorkLabels, EraseLabels, MarkLabels, ProgLabels
    <2>2. QED
      BY <1>1, <2>1, FlagsExclude
  <1>3. pc \in StableLabels =>
        /\ \A b \in MatchedBlocks : b \in marked <=> AskedBad(b)
        /\ pc = "page" /\ page = 0 => (badflag <=> block \in marked)
        /\ pc \in EraseLabels => ~badflag
        /\ pc \in ProgLabels /\ page = 0 => block \notin marked
        /\ pc = "mark3" => block \in marked
    BY <1>1 DEF MarksFollow
  <1>4. \A b : AskedBad(b)' = AskedBad(b)
    BY <1>0 DEF AskedBad, FilePage
  <1>5. /\ block \in Int /\ page \in Nat /\ fpos \in Int /\ opt.start \in Int /\ flen \in Int
        /\ badflag \in BOOLEAN /\ Ppb \in Nat \ {0} /\ Len(file) \in Int /\ r \in Int
    BY ConstantTypes DEF TypeOK, Options
  <1>6. pc \in {"page"} \cup MarkLabels \cup ProgLabels /\ page = 0 =>
          AskedBad(block) = (file[IF pc = "page" THEN fpos + 1 ELSE fpos] = "bb")
    BY <1>1 DEF InPlace, AskedBad, MarkLabels, ProgLabels
  <1> USE DEF StableLabels, WorkLabels, EraseLabels, MarkLabels, ProgLabels, locals, flash
  <1>7. /\ pc \in {"block", "erase1", "erase2", "erase3", "mark1", "mark2", "mark3"} =>
             MatchedBlocks = below
        /\ pc \in {"page", "prog1", "prog2"} => MatchedBlocks = IF page > 0 THEN upto ELSE below
    BY DEF MatchedBlocks
  <1>8. /\ block' = block /\ pc' \in {"block", "erase1", "erase2", "erase3", "mark1", "mark2", "mark3"} =>
             MatchedBlocks' = below
        /\ block' = block /\ pc' \in {"page", "prog1", "prog2"} =>
             MatchedBlocks' = IF page' > 0 THEN upto ELSE below
        /\ pc' = "block" => MatchedBlocks' = opt.start .. block' - 1
        /\ pc' \in {"endpage", "done"} => MatchedBlocks' = opt.start .. opt.start + flen' - 1
    BY <1>0 DEF MatchedBlocks
  <1>9. upto = below \cup {block} \/ block < opt.start
    BY <1>5
  <1>10. \A b \in below : b # block
    BY <1>5
  <1> HIDE DEF r, upto, below
  <1>11. CASE OpenFile
    <2>1. pc' = "block" /\ block' = opt.start
      BY <1>11 DEF OpenFile
    <2>2. MatchedBlocks' = {}
      BY <1>5, <1>8, <2>1
    <2>3. QED
      BY <2>1, <2>2
  <1>12. CASE EnterBlock
    <2>1. PICK bad \in IF Has("ux") \/ Has("ub") THEN {FALSE} ELSE CheckBlock(block) :
            /\ badflag' = bad
            /\ pc' = IF (bad /\ Has("ub")) \/ (~bad /\ TRUE) THEN "erase1" ELSE "page"
      BY <1>12 DEF EnterBlock, EnterBlockIf
    <2>2. /\ pc = "block" /\ pc' \in {"page", "erase1"} /\ page' = 0
          /\ UNCHANGED <<block, marked>>
      BY <1>12 DEF EnterBlock, EnterBlockIf
    <2>3. CheckBlock(block) = {block \in marked}
      BY <1>1, <1>2, <2>2, ModeCheck
    <2>4. pc' = "page" => badflag' /\ block \in marked
      <3>1. pc' = "page" => bad /\ ~Has("ub")
        BY <2>1
      <3>2. QED
        BY <1>2, <2>1, <2>3, <3>1
    <2>5. pc' = "erase1" => ~badflag'
      <3>1. pc' = "erase1" => ~bad \/ Has("ub")
        BY <2>1
      <3>2. QED
        BY <2>1, <3>1
    <2>6. MatchedBlocks' = below /\ MatchedBlocks = below
      BY <1>7, <1>8, <2>2
    <2>7. QED
      BY <1>3, <1>4, <2>2, <2>4, <2>5, <2>6
  <1>13. CASE EraseSetCfg
    <2>1. pc = "erase1" /\ pc' = "erase2" /\ UNCHANGED <<block, badflag, marked>>
      BY <1>13 DEF EraseSetCfg
    <2>2. QED
      BY <1>3, <1>4, <1>7, <1>8, <2>1
  <1>14. CASE EraseExec
    <2>1. /\ pc = "erase2" /\ pc' = "erase3" /\ UNCHANGED <<block, badflag>>
          /\ marked' = marked \ {block}
      BY <1>14 DEF EraseExec
    <2>2. QED
      BY <1>3, <1>4, <1>7, <1>8, <1>10, <2>1
  <1>15. CASE EraseRestore
    <2>1. /\ pc = "erase3" /\ pc' = "page" /\ page = 0 /\ UNCHANGED <<block, page, badflag, marked>>
      BY <1>1, <1>15 DEF EraseRestore, Safe, PagesClean
    <2>2. block \notin marked
      BY <1>1, <2>1 DEF MarksExplained
    <2>3. MatchedBlocks' = below /\ MatchedBlocks = below
      BY <1>7, <1>8, <2>1
    <2>4. QED
      BY <1>3, <1>4, <2>1, <2>2, <2>3
  <1>16. CASE EndOfBlock
    <2>1. /\ pc = "page" /\ pc' = "block" /\ block' = block + 1 /\ page = Ppb
          /\ marked' = marked
      BY <1>16 DEF EndOfBlock
    <2>2. MatchedBlocks' = upto /\ MatchedBlocks = upto
      BY <1>5, <1>7, <1>8, <2>1 DEF upto
    <2>3. QED
      BY <1>3, <1>4, <2>1, <2>2
  <1>17. CASE SkipPage
    <2>1. /\ pc = "page" /\ pc' = "page" /\ page' = page + 1
          /\ UNCHANGED <<block, badflag, marked>>
          /\ BadPage /\ (badflag \/ page > 0)
      BY <1>1, <1>17 DEF SkipPage, SkipPageIf, MorePages, EmptyPage
    <2>2. page > 0 \/ (block \in marked /\ AskedBad(block))
      BY <1>3, <1>5, <1>6, <2>1 DEF BadPage, Kind
    <2>3. MatchedBlocks' = upto /\ MatchedBlocks = IF page > 0 THEN upto ELSE below
      BY <1>5, <1>7, <1>8, <2>1
    <2>4. \A b \in upto : b \in marked <=> AskedBad(b)
      <3>1. opt.start <= block
        BY <2>1 DEF Bounds, BlockLabels
      <3>2. upto = below \cup {block}
        BY <1>5, <1>9, <3>1
      <3>3. QED
        BY <1>3, <2>1, <2>2, <2>3, <3>2
    <2>5. QED
      BY <1>4, <1>5, <2>1, <2>3, <2>4
  <1>18. CASE SimulateBad
    <2>1. /\ pc = "page" /\ BadPage /\ ~badflag /\ page = 0
          /\ UNCHANGED <<block, marked>>
          /\ \E bad \in CheckBlock(block) :
               IF bad THEN pc' = "page" /\ page' = page + 1
                      ELSE pc' = "mark1" /\ UNCHANGED page
      BY <1>18 DEF SimulateBad, SimulateBadIf, MorePages
    <2>2. CheckBlock(block) = {FALSE}
      BY <1>1, <1>2, <1>3, <2>1, ModeCheck
    <2>3. pc' = "mark1"
      BY <2>1, <2>2
    <2>4. QED
      BY <1>3, <1>4, <1>7, <1>8, <2>1, <2>3
  <1>19. CASE TakePage
    <2>1. /\ pc = "page" /\ pc' = "prog1" /\ ~badflag
          /\ UNCHANGED <<block, page, marked>>
      BY <1>19 DEF TakePage, TakePageIf, MorePages
    <2>2. QED
      BY <1>3, <1>4, <1>7, <1>8, <2>1
  <1>20. CASE MarkSetCfg
    <2>1. pc = "mark1" /\ pc' = "mark2" /\ UNCHANGED <<block, marked>>
      BY <1>20 DEF MarkSetCfg
    <2>2. QED
      BY <1>3, <1>4, <1>7, <1>8, <2>1
  <1>21. CASE MarkWrite
    <2>1. /\ pc = "mark2" /\ pc' = "mark3" /\ UNCHANGED <<block>>
          /\ marked' = marked \cup {block}
      BY <1>21 DEF MarkWrite
    <2>2. QED
      BY <1>3, <1>4, <1>7, <1>8, <1>10, <2>1
  <1>22. CASE MarkRestore \/ ProgramDone
    <2>1. /\ pc \in {"mark3", "prog2"} /\ pc' = "page" /\ page' = page + 1
          /\ UNCHANGED <<block, marked>>
          /\ pc = "mark3" => page = 0
      BY <1>2, <1>22 DEF MarkRestore, ProgramDone, MarkedAfterPage, Bounds
    <2>2. page = 0 => (block \in marked <=> AskedBad(block))
      <3>1. CASE pc = "mark3"
        BY <1>3, <1>6, <3>1 DEF MarksExplained
      <3>2. CASE pc = "prog2"
        BY <1>2, <1>3, <1>6, <3>2 DEF MarksExplained
      <3>3. QED
        BY <2>1, <3>1, <3>2
    <2>3. MatchedBlocks' = upto /\ MatchedBlocks = IF page > 0 THEN upto ELSE below
      BY <1>5, <1>7, <1>8, <2>1
    <2>4. \A b \in upto : b \in marked <=> AskedBad(b)
      <3>1. opt.start <= block
        BY <2>1 DEF Bounds, BlockLabels
      <3>2. upto = below \cup {block}
        BY <1>5, <1>9, <3>1
      <3>3. page > 0 \/ page = 0
        BY <1>5
      <3>4. QED
        BY <1>3, <2>1, <2>2, <2>3, <3>2, <3>3
    <2>5. QED
      BY <1>4, <1>5, <2>1, <2>3, <2>4
  <1>23. CASE ProgramSectors
    <2>1. pc = "prog1" /\ pc' = "prog2" /\ UNCHANGED <<block, page, marked>>
      BY <1>23 DEF ProgramSectors
    <2>2. QED
      BY <1>3, <1>4, <1>7, <1>8, <2>1
  <1>24. CASE EndOfArea
    <2>1. /\ pc = "block" /\ pc' = "endpage" /\ block >= opt.start + flen
          /\ UNCHANGED <<block, flen, marked>>
      BY <1>5, <1>24 DEF EndOfArea, InArea
    <2>2. MatchedBlocks' \subseteq below /\ MatchedBlocks = below
      BY <1>5, <1>7, <1>8, <2>1 DEF below
    <2>3. QED
      BY <1>3, <1>4, <2>1, <2>2
  <1>25. CASE EndOfFile
    <2>1. /\ pc = "page" /\ pc' = "endpage" /\ fpos >= Len(file) /\ page < Ppb
          /\ UNCHANGED <<block, flen, marked>>
      BY <1>25 DEF EndOfFile, MorePages
    <2>2. fpos + 1 = FilePage(r, page) /\ flen <= FileBlocks
      BY <1>1, <2>1 DEF InPlace, r
    <2>3. /\ FilePage(r, page) > Len(file) /\ r < flen /\ r >= 0 /\ r \in Int
          /\ FileBlocks \in Int
      <3>1. opt.start <= block /\ block < opt.start + flen
        BY <2>1 DEF Bounds, BlockLabels, InArea
      <3>2. FileBlocks \in Int
        BY <1>5, ConstantTypes DEF FileBlocks, TypeOK, Options
      <3>3. QED
        BY <1>5, <2>1, <2>2, <3>1, <3>2 DEF r
    <2>4. page > 0
      <3>1. r < FileBlocks
        BY <1>5, <2>2, <2>3
      <3>2. FilePage(r, 0) <= Len(file)
        BY <2>3, <3>1, FileBlockStarts
      <3>3. ~(FilePage(r, page) <= Len(file))
        BY <1>5, <2>1, <2>2
      <3>4. QED
        BY <1>5, <3>2, <3>3
    <2>5. FileBlocks <= r + 1
      BY <1>5, <2>1, <2>3, LastFileBlock
    <2>6. MatchedBlocks' \subseteq upto /\ MatchedBlocks = upto
      BY <1>5, <1>7, <1>8, <2>1, <2>2, <2>3, <2>4, <2>5 DEF upto, r
    <2>7. QED
      BY <1>3, <1>4, <2>1, <2>6
  <1>26. CASE RestoreRegs
    <2>1. pc = "endpage" /\ pc' = "done" /\ UNCHANGED <<flen, marked>>
      BY <1>26 DEF RestoreRegs
    <2>2. MatchedBlocks' = MatchedBlocks
      BY <1>0, <2>1 DEF MatchedBlocks
    <2>3. QED
      BY <1>3, <1>4, <2>1, <2>2
  <1>27. CASE UNCHANGED vars
    <2>1. UNCHANGED <<pc, opt, block, page, flen, badflag, marked>>
      BY <1>27 DEF vars
    <2>2. MatchedBlocks' = MatchedBlocks /\ pc \in StableLabels
      BY <2>1 DEF MatchedBlocks
    <2>3. QED
      BY <1>3, <1>4, <2>1, <2>2
  <1>28. CASE EraseModeBlock \/ SkipBadBlock \/ CheckArgs \/ SetEcc \/ Mismatch \/ Kill
    <2>1. ~SkipBadBlock
      BY <1>1 DEF SkipBadBlock, SkipsBad
    <2>2. ~EraseModeBlock
      BY <1>1 DEF EraseModeBlock
    <2>3. QED
      BY <1>28, <2>1, <2>2 DEF CheckArgs, SetEcc, Mismatch, Kill
  <1>29. QED
    BY <1>0, <1>11, <1>12, <1>13, <1>14, <1>15, <1>16, <1>17, <1>18, <1>19, <1>20, <1>21,
       <1>22, <1>23, <1>24, <1>25, <1>26, <1>27, <1>28 DEF Next, Step, Finished

LEMMA NextBadUntouched ==
    /\ TypeOK /\ Bounds /\ Safe /\ Untouched
    /\ ArgsChecked /\ MarksExplained /\ BadUntouched
    /\ [Next]_vars
    => BadUntouched'
  <1> SUFFICES ASSUME TypeOK, Bounds, Safe, Untouched, ArgsChecked, MarksExplained,
                      BadUntouched, [Next]_vars,
                      Has("um")', opt'.erase = 0, Trusted', pc' \in StableLabels
               PROVE  /\ marked' = base'.marked
                      /\ \A b \in Blocks : b \in base'.marked => cell'[b] = base'.cell[b]
                      /\ pc' \in {"page"} \cup ProgLabels => (badflag' <=> block' \in marked')
                      /\ pc' \in EraseLabels => block' \notin marked' /\ ~badflag'
    BY DEF BadUntouched
  <1>0. /\ pc \in StableLabels \cup {"open"} /\ ~StartRun /\ ~Hello
        /\ opt' = opt /\ file' = file /\ base' = base /\ saved' = saved
    BY WorkFrame
  <1>1. DefectMode /\ Trusted /\ opt.erase = 0 /\ Has("um")
    BY <1>0 DEF DefectMode, Trusted, Has
  <1>2. Compatible /\ ~Has("uc") /\ ~Has("ux") /\ ~Has("ub")
    <2>1. Compatible
      BY <1>0 DEF ArgsChecked, StableLabels, WorkLabels, EraseLabels, MarkLabels, ProgLabels
    <2>2. QED
      BY <1>1, <2>1, FlagsExclude
  <1> USE DEF StableLabels, WorkLabels, EraseLabels, MarkLabels, ProgLabels, locals, flash
  <1>3. /\ marked = base.marked
        /\ \A b \in Blocks : b \in base.marked => cell[b] = base.cell[b]
        /\ pc \in {"page"} \cup ProgLabels => (badflag <=> block \in marked)
        /\ pc \in EraseLabels => block \notin marked /\ ~badflag
    BY <1>0, <1>1 DEF BadUntouched, Untouched
  <1>4. badflag \in BOOLEAN /\ cell \in [Blocks -> [Pages -> Cells]]
    BY DEF TypeOK
  <1>5. pc \notin MarkLabels
    BY <1>2 DEF MarksExplained
  <1>6. pc \in ProgLabels => block \notin marked
    BY <1>3 DEF MarksExplained
  <1>7. CASE EraseExec
    <2>1. pc = "erase2" /\ pc' = "erase3" /\ block \notin marked /\ ~badflag
      BY <1>3, <1>7 DEF EraseExec
    <2>2. \A b \in Blocks : b # block => cell'[b] = cell[b]
      BY <1>4, <1>7 DEF EraseExec
    <2>3. marked' = marked /\ UNCHANGED <<block, badflag>>
      BY <1>7, <2>1 DEF EraseExec
    <2>4. QED
      BY <1>0, <1>3, <2>1, <2>2, <2>3
  <1>8. CASE ProgramSectors \/ ProgramDone
    <2>1. pc \in ProgLabels /\ marked' = marked /\ UNCHANGED <<block, badflag>>
          /\ pc' \in {"prog2", "page"}
      BY <1>2, <1>8 DEF ProgramSectors, ProgramDone, MarkedAfterPage
    <2>2. \A b \in Blocks : b # block => cell'[b] = cell[b]
      BY <1>4, <1>8 DEF ProgramSectors, ProgramDone
    <2>3. QED
      BY <1>0, <1>3, <1>6, <2>1, <2>2
  <1>9. CASE EnterBlock
    <2>1. PICK bad \in CheckBlock(block) :
            /\ badflag' = bad
            /\ pc' = IF (bad /\ Has("ub")) \/ (~bad /\ TRUE) THEN "erase1" ELSE "page"
      BY <1>2, <1>9 DEF EnterBlock, EnterBlockIf
    <2>2. pc = "block" /\ UNCHANGED <<block, marked, cell>>
      BY <1>9 DEF EnterBlock, EnterBlockIf
    <2>3. CheckBlock(block) = {block \in marked}
      BY <1>1, <1>2, <2>2, ModeCheck
    <2>4. pc' = IF badflag' THEN "page" ELSE "erase1"
      BY <1>2, <2>1
    <2>5. badflag' <=> block \in marked
      BY <2>1, <2>3
    <2>6. QED
      BY <1>0, <1>3, <2>2, <2>4, <2>5
  <1>10. ASSUME UNCHANGED <<marked, cell, block, badflag>>,
                pc' \in {"page"} \cup ProgLabels => pc \in {"page"} \cup ProgLabels \cup EraseLabels,
                pc' \in EraseLabels => pc \in EraseLabels
         PROVE  /\ marked' = base'.marked
                /\ \A b \in Blocks : b \in base'.marked => cell'[b] = base'.cell[b]
                /\ pc' \in {"page"} \cup ProgLabels => (badflag' <=> block' \in marked')
                /\ pc' \in EraseLabels => block' \notin marked' /\ ~badflag'
    BY <1>0, <1>3, <1>4, <1>10
  <1>11. ASSUME UNCHANGED <<marked, cell>>, pc' \in {"block", "endpage", "done"}
         PROVE  /\ marked' = base'.marked
                /\ \A b \in Blocks : b \in base'.marked => cell'[b] = base'.cell[b]
                /\ pc' \in {"page"} \cup ProgLabels => (badflag' <=> block' \in marked')
                /\ pc' \in EraseLabels => block' \notin marked' /\ ~badflag'
    BY <1>0, <1>3, <1>11
  <1>12. CASE OpenFile \/ EndOfArea \/ EndOfBlock \/ EndOfFile \/ RestoreRegs
    BY <1>11, <1>12 DEF OpenFile, EndOfArea, EndOfBlock, EndOfFile, RestoreRegs, MorePages
  <1>13. CASE EraseSetCfg
    BY <1>10, <1>13 DEF EraseSetCfg
  <1>14. CASE EraseRestore
    BY <1>1, <1>10, <1>14 DEF EraseRestore
  <1>15. CASE SkipPage \/ TakePage
    BY <1>10, <1>15 DEF SkipPage, SkipPageIf, TakePage, TakePageIf, MorePages
  <1>16. CASE UNCHANGED vars
    BY <1>10, <1>16 DEF vars
  <1>17. ~EraseModeBlock /\ ~SkipBadBlock /\ ~SimulateBad
    BY <1>1, <1>2 DEF EraseModeBlock, SkipBadBlock, SkipsBad, SimulateBad, SimulateBadIf
  <1>18. ~MarkSetCfg /\ ~MarkWrite /\ ~MarkRestore
    BY <1>5 DEF MarkSetCfg, MarkWrite, MarkRestore
  <1>19. CASE CheckArgs \/ SetEcc \/ Mismatch \/ Kill
    BY <1>19 DEF CheckArgs, SetEcc, Mismatch, Kill
  <1>20. QED
    BY <1>0, <1>7, <1>8, <1>9, <1>12, <1>13, <1>14, <1>15, <1>16, <1>17, <1>18, <1>19
       DEF Next, Step, Finished

-----------------------------------------------------------------------------
(* The theorems.                                                           *)

LEMMA InitModes == Init => Modes
  <1> SUFFICES ASSUME Init PROVE Modes
    OBVIOUS
  <1>1. pc = "args" /\ base.marked = marked
    BY DEF Init
  <1>2. ArgsChecked /\ FormatKept /\ InPlace /\ MarksFollow /\ BadUntouched
    BY <1>1 DEF ArgsChecked, FormatKept, InPlace, MarksFollow, BadUntouched, StableLabels,
       WorkLabels, EraseLabels, MarkLabels, ProgLabels
  <1>3. MarksExplained
    BY <1>1 DEF MarksExplained, MarksJustified, MarkLabels, ProgLabels
  <1>4. QED
    BY <1>2, <1>3 DEF Modes

\* The inductive invariant of the modes: -uc and -um keep the place in the
\* file and the place in the flash together, the registers keep the format of
\* the pages, and the markers follow the file as far as the run has come.
THEOREM ModesInvariant == Spec => [](TypeOK /\ Bounds /\ Safe /\ Order /\ Modes)
  <1>1. Init => Modes
    BY InitModes
  <1>2. TypeOK /\ Bounds /\ Safe /\ Order /\ Modes /\ [Next]_vars => Modes'
    <2> SUFFICES ASSUME TypeOK, Bounds, Safe, Order, Modes, [Next]_vars PROVE Modes'
      OBVIOUS
    <2>1. Untouched /\ PagesClean
      BY DEF Order, Safe
    <2>2. ArgsChecked /\ FormatKept /\ InPlace /\ MarksExplained /\ MarksFollow /\ BadUntouched
      BY DEF Modes
    <2>3. ArgsChecked' /\ FormatKept' /\ InPlace' /\ MarksExplained'
      BY <2>1, <2>2, NextArgsChecked, NextFormatKept, NextInPlace, NextMarksExplained
    <2>4. MarksFollow' /\ BadUntouched'
      BY <2>1, <2>2, NextMarksFollow, NextBadUntouched
    <2>5. QED
      BY <2>3, <2>4 DEF Modes
  <1>3. QED
    BY <1>1, <1>2, OrderInvariant, PTL DEF Spec

\* Whatever was erased or marked before, and wherever earlier runs were killed, the
\* sectors of a page go out with the registers in the format of the write mode
\* (set_linux_format(), the ECC switch and the restoring halves of block_erase() and
\* write_badmark()) and with CFG0 set to whole pages. With 16 sectors per page the
\* latter may fail in one way, which ProgramFormat names: a killed erase leaves nine.
THEOREM KeepsProgramFormat == Spec => []ProgramFormat
  <1>1. TypeOK /\ Bounds /\ Safe /\ Modes => ProgramFormat
    BY DEF Modes, FormatKept, WriteFormat, ProgramFormat, Bounds, ProgLabels, MarkLabels, Safe,
       CwKept, Ended
  <1>2. QED
    BY <1>1, ModesInvariant, Safety, PTL

\* A new marker comes from -uc where the file asks for it, or from -ux.
THEOREM JustifiesMarks == Spec => []MarksJustified
  <1>1. Modes => MarksJustified
    BY DEF Modes, MarksExplained
  <1>2. QED
    BY <1>1, ModesInvariant, PTL

\* After a complete run with -uc the marked blocks of the area are those the
\* file asks for; after one with -um they were so from the start, and nothing
\* was written to them.
THEOREM MatchesDefects == Spec => []DefectsMatched
  <1>1. ASSUME TypeOK, Modes PROVE DefectsMatched
    <2>1. pc = "done" /\ MatchMode =>
            \A b \in opt.start .. opt.start + flen - 1 : b \in marked <=> AskedBad(b)
      BY <1>1 DEF Modes, MarksFollow, MatchedBlocks, StableLabels
    <2>2. DefectsSimulated
      BY <2>1 DEF DefectsSimulated, MatchMode, DefectMode, AskedBad
    <2>3. ConsistencyChecked
      <3> SUFFICES ASSUME pc = "done", Trusted, Has("um"), ~opt.s, opt.erase = 0,
                          NEW b \in opt.start .. opt.start + flen - 1
                   PROVE  DefectsAgree(b) /\ (b \in base.marked => cell[b] = base.cell[b])
        BY DEF ConsistencyChecked
      <3>1. marked = base.marked /\ \A c \in Blocks : c \in base.marked => cell[c] = base.cell[c]
        BY <1>1 DEF Modes, BadUntouched, StableLabels
      <3>2. b \in marked <=> AskedBad(b)
        BY <2>1 DEF MatchMode, DefectMode
      <3>3. base.marked \subseteq Blocks
        BY <1>1 DEF TypeOK
      <3>4. QED
        BY <3>1, <3>2, <3>3 DEF DefectsAgree, AskedBad
    <2>4. QED
      BY <2>2, <2>3 DEF DefectsMatched
  <1>2. QED
    BY <1>1, ModesInvariant, PTL

LEMMA DivExact ==
  ASSUME NEW q \in Int, NEW p \in Nat, NEW d \in Nat \ {0}, p < d
  PROVE  (q * d + p) \div d = q
  <1> DEFINE n == q * d + p
  <1>1. q * d \in Int /\ n \in Int /\ n \div d \in Int
    OBVIOUS
  <1>2. (q + 1) * d = q * d + d
    OBVIOUS
  <1>3. n < (q + 1) * d
    BY <1>1, <1>2
  <1>4. n \div d <= q
    <2> HIDE DEF n
    <2> QED
      BY <1>1, <1>3, DivBound
  <1>5. n < (n \div d + 1) * d
    <2> HIDE DEF n
    <2> QED
      BY <1>1
  <1>6. ASSUME n \div d + 1 <= q PROVE FALSE
    <2>1. \A x \in Int : x <= q => x * d <= q * d
      OBVIOUS
    <2>2. (n \div d + 1) * d <= q * d
      BY <1>1, <1>6, <2>1
    <2>3. (n \div d + 1) * d \in Int
      BY <1>1
    <2>4. QED
      BY <1>1, <1>5, <2>2, <2>3
  <1>7. QED
    BY <1>1, <1>4, <1>6

\* With a dump made by qrflash no page is programmed into a marked block
\* unless -ux was given: what this run has marked itself is filled with the
\* bad-block filler to its end, so that its other pages are passed over.
THEOREM SparesBadBlocks == Spec => []NoProgramIntoBad
  <1>1. ASSUME TypeOK, Bounds, Modes PROVE NoProgramIntoBad
    <2> SUFFICES ASSUME pc = "prog1", FilledBlocks, ~Has("ux"), block \in marked
                 PROVE  FALSE
      BY DEF NoProgramIntoBad
    <2> DEFINE r == block - opt.start
    <2>1. /\ Has("uc") /\ AskedBad(block)
          /\ file[fpos] = "bb" => Has("us")
      BY <1>1 DEF Modes, MarksExplained, ProgLabels
    <2>2. ~Has("us")
      BY <1>1, <2>1, FlagsExclude DEF Modes, ArgsChecked
    <2>3. KeepsPlace /\ page < Ppb
      BY <1>1, <2>1 DEF Bounds, KeepsPlace, ProgLabels
    <2>4. fpos = FilePage(r, page) /\ fpos <= Len(file)
      BY <1>1, <2>3 DEF Modes, InPlace, ProgLabels
    <2>5. /\ page \in Nat /\ Ppb \in Nat \ {0} /\ opt.off \in Nat /\ r \in Nat
          /\ Len(file) \in Nat
      <3>1. opt.start <= block
        BY <1>1 DEF Bounds, BlockLabels
      <3>2. QED
        BY <1>1, <3>1, ConstantTypes DEF TypeOK, Options
    <2> HIDE DEF r
    <2>6. (opt.off + r) * Ppb \in Nat
      BY <2>5
    <2> DEFINE q == opt.off + r
               x == q * Ppb
    <2>7. q \in Nat /\ x \in Nat /\ FilePage(r, 0) = x + 0 + 1 /\ fpos = x + page + 1
      BY <2>4, <2>5, <2>6 DEF FilePage
    <2>8. FilePage(r, 0) \in 1 .. Len(file) /\ fpos \in 1 .. Len(file)
      <3> HIDE DEF x
      <3> QED
        BY <2>4, <2>5, <2>7
    <2>8a. (x + 0) \div Ppb = q /\ (x + page) \div Ppb = q
      <3> HIDE DEF q
      <3>0. q \in Int /\ Ppb \in Nat \ {0}
        BY <2>5, <2>7
      <3>1. ASSUME NEW p \in Nat, p < Ppb PROVE (q * Ppb + p) \div Ppb = q
        BY <3>0, <3>1, DivExact, Zenon
      <3>2. 0 < Ppb /\ page < Ppb
        BY <2>3, <2>5
      <3>3. \A p \in Nat : p < Ppb => (x + p) \div Ppb = q
        BY <3>1
      <3> HIDE DEF x
      <3>4. QED
        BY <2>5, <3>2, <3>3
    <2>8b. (FilePage(r, 0) - 1) \div Ppb = (fpos - 1) \div Ppb
      <3>1. FilePage(r, 0) - 1 = x + 0 /\ fpos - 1 = x + page
        <4> HIDE DEF x
        <4> QED
          BY <2>5, <2>7
      <3>2. QED
        BY <2>8a, <3>1
    <2>9. file[FilePage(r, 0)] = "bb" <=> file[fpos] = "bb"
      BY <2>8, <2>8b DEF FilledBlocks
    <2>10. QED
      BY <2>1, <2>2, <2>9 DEF AskedBad, r
  <1>2. QED
    BY <1>1, ModesInvariant, PTL

-----------------------------------------------------------------------------
(* A plain run implements ImagePlacement: the good blocks passed, in their *)
(* order, are the blocks that promise calls placed.                        *)

-----------------------------------------------------------------------------
(* Sets of blocks in their order.                                           *)

\* With one element added above all others, the ranks stay, and only the new
\* element has the new rank.
LEMMA RanksExtend ==
  ASSUME NEW S, NEW x, x \notin S, NEW n \in Nat, NEW rS, NEW rT,
         \A c \in S : rT[c] = rS[c] /\ rS[c] \in Nat /\ rS[c] < n, rT[x] = n
  PROVE  /\ \A i \in 1 .. n, c \in S \cup {x} : rT[c] = i - 1 <=> c \in S /\ rS[c] = i - 1
         /\ \A c \in S \cup {x} : rT[c] = n <=> c = x
  OBVIOUS

\* A greater element comes last.
LEMMA OrderedAppend ==
  ASSUME NEW S, S \subseteq Int, IsFiniteSet(S), NEW x \in Int, \A s \in S : s < x
  PROVE  /\ Ordered(S \cup {x}) = Append(Ordered(S), x)
         /\ Len(Ordered(S)) = Cardinality(S)
<1> DEFINE T == S \cup {x}
           n == Cardinality(S)
           rS == [c \in S |-> Cardinality({d \in S : d < c})]
           rT == [c \in T |-> Cardinality({d \in T : d < c})]
<1>0. x \notin S
  OBVIOUS
<1>1. n \in Nat /\ Cardinality(T) = n + 1
  BY <1>0, FS_CardinalityType, FS_AddElement
<1>2. ASSUME NEW c \in S
      PROVE  rT[c] = rS[c] /\ rS[c] \in Nat /\ rS[c] < n
  <2> DEFINE B == {d \in S : d < c}
  <2>1. {d \in T : d < c} = B
    <3>1. ~(x < c) /\ c \in Int
      OBVIOUS
    <3>2. QED
      BY <3>1
  <2>2. B \in SUBSET S /\ B # S
    OBVIOUS
  <2>3. rS[c] = Cardinality(B) /\ rT[c] = Cardinality(B)
    BY <2>1
  <2> HIDE DEF B, rS, rT
  <2>4. /\ IsFiniteSet(B) /\ Cardinality(B) <= n
        /\ Cardinality(S) = Cardinality(B) => S = B
    BY <2>2, FS_Subset
  <2>5. QED
    BY <1>1, <2>2, <2>3, <2>4, FS_CardinalityType
<1>3. rT[x] = n
  <2>1. {d \in T : d < x} = S
    <3>1. \A d \in T : d < x <=> d \in S
      BY <1>0
    <3>2. QED
      BY <3>1
  <2>2. QED
    BY <2>1
<1> DEFINE ithS(i) == {c \in S : Cardinality({d \in S : d < c}) = i - 1}
           ithT(i) == {c \in T : Cardinality({d \in T : d < c}) = i - 1}
<1>4. (\A i \in 1 .. n : ithT(i) = ithS(i)) /\ ithT(n + 1) = {x}
  <2>1. \A i \in Int : /\ \A c : c \in ithT(i) <=> c \in T /\ rT[c] = i - 1
                       /\ \A c : c \in ithS(i) <=> c \in S /\ rS[c] = i - 1
    OBVIOUS
  <2>2. n + 1 \in Int /\ (n + 1) - 1 = n /\ \A i \in 1 .. n : i \in Int
    BY <1>1
  <2>3. n \in Nat /\ rT[x] = n /\ x \notin S
    BY <1>0, <1>1, <1>3
  <2>4. T = S \cup {x}
    OBVIOUS
  <2>5. \A i \in Int : ithT(i) \subseteq T /\ ithS(i) \subseteq S
    OBVIOUS
  <2> HIDE DEF rS, rT, n, ithS, ithT, T
  <2>6. /\ \A i \in 1 .. n, c \in S \cup {x} : rT[c] = i - 1 <=> c \in S /\ rS[c] = i - 1
        /\ \A c \in S \cup {x} : rT[c] = n <=> c = x
    BY <1>2, <2>3, RanksExtend
  <2>7. ASSUME NEW i \in 1 .. n PROVE ithT(i) = ithS(i)
    <3>1. \A c : c \in ithT(i) <=> c \in ithS(i)
      BY <2>1, <2>2, <2>4, <2>6
    <3>2. QED
      BY <3>1
  <2>8. ithT(n + 1) = {x}
    <3>1. \A c : c \in ithT(n + 1) <=> c = x
      BY <2>1, <2>2, <2>4, <2>6
    <3>2. QED
      BY <3>1
  <2>9. QED
    BY <2>7, <2>8
<1>5. /\ Ordered(T) = [i \in 1 .. n + 1 |-> CHOOSE b \in ithT(i) : TRUE]
      /\ Ordered(S) = [i \in 1 .. n |-> CHOOSE b \in ithS(i) : TRUE]
  BY <1>1 DEF Ordered
<1> HIDE DEF ithS, ithT, n, T
<1>6. \A i \in 1 .. n : Ordered(T)[i] = Ordered(S)[i]
  BY <1>1, <1>4, <1>5
<1>7. Ordered(T)[n + 1] = x
  BY <1>1, <1>4, <1>5
<1> DEFINE R == {Ordered(T)[i] : i \in 1 .. n + 1}
<1>8. Ordered(S) \in [1 .. n -> R] /\ Ordered(T) \in [1 .. n + 1 -> R]
  <2>1. \A i \in 1 .. n : Ordered(S)[i] \in R
    BY <1>1, <1>6
  <2>2. \A i \in 1 .. n + 1 : Ordered(T)[i] \in R
    OBVIOUS
  <2> HIDE DEF R
  <2>3. QED
    BY <1>5, <2>1, <2>2
<1>9. Ordered(T) = Append(Ordered(S), x) /\ Len(Ordered(S)) = n
  <2> HIDE DEF R
  <2>1. QED
    BY <1>1, <1>6, <1>7, <1>8, AppendIs
<1>10. QED
  BY <1>9 DEF T, n

LEMMA OrderedEmpty == Ordered({}) = <<>>
<1>1. Cardinality({}) = 0
  BY FS_EmptySet
<1>2. Ordered({}) \in [1 .. 0 -> {}]
  BY <1>1 DEF Ordered
<1>3. QED
  BY <1>2

LEMMA OrderedType ==
  ASSUME NEW S, NEW V, \A i \in 1 .. Cardinality(S) : Ordered(S)[i] \in V
  PROVE  Ordered(S) \in [1 .. Cardinality(S) -> V]
<1> DEFINE ith(i) == {c \in S : Cardinality({d \in S : d < c}) = i - 1}
<1>1. Ordered(S) = [i \in 1 .. Cardinality(S) |-> CHOOSE b \in ith(i) : TRUE]
  BY DEF Ordered
<1> HIDE DEF ith
<1>2. QED
  BY <1>1

\* The last element is the greatest.
LEMMA OrderedLast ==
  ASSUME NEW S, S \subseteq Int, IsFiniteSet(S), S # {}, NEW k \in Int, \A s \in S : s <= k
  PROVE  /\ Len(Ordered(S)) = Cardinality(S) /\ Cardinality(S) \in Nat \ {0}
         /\ Ordered(S) # <<>>
         /\ Ordered(S)[Len(Ordered(S))] \in S
         /\ \A s \in S : s <= Ordered(S)[Len(Ordered(S))]
<1> DEFINE m == Max(S)
           R == S \ {m}
<1>1. m \in S /\ \A s \in S : s <= m
  BY BoundedMax, Zenon
<1>2. m \in Int
  BY <1>1
<1> HIDE DEF m
<1>3. R \subseteq Int /\ (\A s \in R : s < m) /\ S = R \cup {m} /\ m \notin R
  BY <1>1, <1>2
<1>4. IsFiniteSet(R) /\ Cardinality(R) = Cardinality(S) - 1
  BY <1>1, FS_RemoveElement
<1> HIDE DEF R
<1>5. Cardinality(R) \in Nat
  BY <1>4, FS_CardinalityType
<1>6. Ordered(S) = Append(Ordered(R), m) /\ Len(Ordered(R)) = Cardinality(R)
  BY <1>2, <1>3, <1>4, OrderedAppend
<1> DEFINE V == {Ordered(R)[i] : i \in 1 .. Cardinality(R)} \cup {m}
<1>7. Ordered(R) \in Seq(V) /\ m \in V
  <2>2. \A i \in 1 .. Cardinality(R) : Ordered(R)[i] \in V
    OBVIOUS
  <2>3. m \in V
    OBVIOUS
  <2> HIDE DEF V
  <2>4. Ordered(R) \in [1 .. Cardinality(R) -> V]
    BY <2>2, OrderedType
  <2>5. QED
    BY <1>5, <2>3, <2>4
<1> HIDE DEF V
<1>8. Len(Ordered(S)) = Cardinality(R) + 1 /\ Ordered(S)[Cardinality(R) + 1] = m
  BY <1>5, <1>6, <1>7
<1>9. Len(Ordered(S)) = Cardinality(S) /\ Cardinality(S) \in Nat \ {0}
      /\ Ordered(S)[Len(Ordered(S))] = m
  <2>1. Cardinality(S) \in Nat
    BY FS_CardinalityType
  <2>2. QED
    BY <1>4, <1>5, <1>8, <2>1
<1>10. QED
  BY <1>1, <1>9

-----------------------------------------------------------------------------
(* One run of plain commands.                                               *)

\* The instance of the promise: one run, and only commands without -ux, -uc,
\* -um, -ub and -c.
PlainOnly == MaxRuns = 1 /\ \A o \in OptionSets : o.u \subseteq {"us"} /\ o.erase = 0

\* A block is entered at its first page or was left behind its last, and a
\* file block is given up only once the area is used to its end.
Settled ==
    /\ run = 1 /\ opt \in OptionSets
    /\ saved.bad /\ (pc \in {"args", "hello"} => regs.bad)
    /\ pc \in {"args", "hello", "ecc", "open"} => page = 0 /\ block = 0 /\ flen = 0
    /\ pc = "block" => page \in {0, Ppb}
    /\ warned > 0 => opt.start + flen = StopBlock

LEMMA SettledPlain == PlainOnly /\ Settled => PlainRun /\ opt.erase = 0
  BY DEF PlainOnly, Settled, PlainRun, PlainMode, Trusted

LEMMA NextSettled ==
  ASSUME PlainOnly, TypeOK, Order, Settled, Safe, [Next]_vars
  PROVE  Settled'
<1>0. PlainRun /\ opt.erase = 0
  BY SettledPlain
<1>1. ~StartRun /\ ~EraseModeBlock /\ ~SimulateBad /\ ~MarkSetCfg /\ ~MarkWrite /\ ~MarkRestore
  BY <1>0, PlainSteps DEF StartRun, PlainOnly, Settled, Order
<1>2. CASE Hello
  <2>1. regs' = [regs EXCEPT !.cw = RepairedCw(@)] /\ pc = "hello"
    BY <1>2 DEF Hello
  <2>2. regs'.bad
    BY <2>1 DEF Settled, TypeOK, Regs
  <2>3. pc' \in {"exit", "ecc"} /\ (saved' = saved \/ saved' = regs')
        /\ UNCHANGED <<run, opt, page, block, flen, warned>>
    BY <1>0, <1>2 DEF Hello
  <2>4. QED
    BY <2>1, <2>2, <2>3 DEF Settled, StopBlock
<1>3. CASE OpenFile
  <2>1. warned = 0 /\ warned' = 0 /\ pc = "open" /\ pc' \in {"exit", "block"}
    BY <1>3 DEF OpenFile, Order, Untouched
  <2>2. page' = 0 /\ UNCHANGED <<run, opt, saved>>
    BY <1>3, <2>1 DEF OpenFile, Settled
  <2>3. QED
    BY <2>1, <2>2 DEF Settled
<1>4. CASE SkipBadBlock
  <2>1. \/ LastBlockLost /\ warned' = warned + 1 /\ UNCHANGED flen
        \/ ~LastBlockLost /\ flen' = flen + 1 /\ UNCHANGED warned
    BY <1>4 DEF SkipBadBlock
  <2>2. pc = "block" /\ pc' = "block" /\ UNCHANGED <<run, opt, saved, page>>
    BY <1>4 DEF SkipBadBlock
  <2>3. warned' > 0 => opt.start + flen' = StopBlock
    BY <2>1 DEF Settled, LastBlockLost, TypeOK
  <2>4. QED
    BY <2>2, <2>3 DEF Settled, StopBlock
<1>5. CASE EndOfBlock
  BY <1>5 DEF EndOfBlock, Settled, StopBlock
<1>6. CASE SetEcc
  BY <1>6 DEF SetEcc, Settled, StopBlock, locals
<1>7. CASE CheckArgs
  BY <1>7 DEF CheckArgs, Settled, StopBlock, locals
<1>8. CASE EnterBlock \/ EraseSetCfg \/ EraseExec \/ EraseRestore
  <2>1. UNCHANGED <<run, opt, saved, flen, warned>>
    BY <1>8 DEF EnterBlock, EnterBlockIf, EraseSetCfg, EraseExec, EraseRestore, locals
  <2>1a. pc' \in {"erase1", "erase2", "erase3", "page"}
    <3>1. CASE EnterBlock
      BY <3>1 DEF EnterBlock, EnterBlockIf
    <3>2. CASE EraseRestore
      BY <1>0, <3>2 DEF EraseRestore
    <3>3. CASE EraseSetCfg \/ EraseExec
      BY <3>3 DEF EraseSetCfg, EraseExec
    <3>4. QED
      BY <1>8, <3>1, <3>2, <3>3
  <2>2. QED
    BY <2>1, <2>1a DEF Settled, StopBlock
<1>9. CASE EndOfArea \/ EndOfFile \/ SkipPage \/ Mismatch \/ TakePage \/ ProgramSectors
           \/ ProgramDone \/ RestoreRegs \/ Kill
  <2>1. pc' \notin {"block", "args", "hello", "ecc", "open"}
        /\ UNCHANGED <<run, opt, saved, flen, warned>>
    BY <1>9 DEF EndOfArea, EndOfFile, SkipPage, SkipPageIf, Mismatch, TakePage, TakePageIf,
                ProgramSectors, ProgramDone, RestoreRegs, Kill, locals, MorePages
  <2>2. QED
    BY <2>1 DEF Settled, StopBlock
<1>10. CASE UNCHANGED vars
  BY <1>10 DEF vars, locals, Settled, StopBlock
<1>11. QED
  BY <1>1, <1>2, <1>3, <1>4, <1>5, <1>6, <1>7, <1>8, <1>9, <1>10 DEF Next, Step, Finished

-----------------------------------------------------------------------------
(* How far a run has got.                                                   *)

\* A block whose first page is past the end of the file is none of the file.
LEMMA FileEndsBefore ==
  ASSUME TypeOK, NEW r \in Nat, FilePage(r, 0) > Len(file)
  PROVE  FileBlocks <= r
<1> DEFINE n == Len(file) - opt.off * Ppb + Ppb - 1
<1>1. /\ Ppb \in Nat \ {0} /\ opt.off \in Nat /\ Len(file) \in Nat
      /\ opt.off * Ppb \in Nat /\ r * Ppb \in Nat
  BY ConstantTypes DEF TypeOK, Options
<1>2. (opt.off + r) * Ppb = opt.off * Ppb + r * Ppb /\ (r + 1) * Ppb = r * Ppb + Ppb
  BY <1>1
<1>3. Len(file) < opt.off * Ppb + r * Ppb + 1
  BY <1>1, <1>2 DEF FilePage
<1>4. n \in Int /\ n < r * Ppb + Ppb
  <2>1. \A x, y \in Int : Len(file) < x + y + 1 =>
           Len(file) - x + Ppb - 1 \in Int /\ Len(file) - x + Ppb - 1 < y + Ppb
    BY <1>1
  <2>2. opt.off * Ppb \in Int /\ r * Ppb \in Int
    BY <1>1
  <2>3. QED
    BY <1>3, <2>1, <2>2
<1>5. n < (r + 1) * Ppb
  BY <1>2, <1>4
<1>6. n \div Ppb <= r
  <2>1. n \in Int /\ r \in Int /\ Ppb \in Nat \ {0} /\ n < (r + 1) * Ppb
    BY <1>1, <1>4, <1>5
  <2> HIDE DEF n
  <2>2. QED
    BY <2>1, DivBound
<1>7. QED
  BY <1>6 DEF FileBlocks

LEMMA PlainTypes ==
  ASSUME TypeOK
  PROVE  /\ opt.start \in Nat /\ StopBlock \in Int /\ flen \in Int /\ block \in Nat
         /\ page \in Nat /\ warned \in Nat /\ Rank(block) \in Nat
         /\ FileBlocks \in Int /\ CappedLen(WantedLen) \in Int
         /\ Ppb \in Nat \ {0} /\ Len(file) \in Nat /\ opt.off \in Nat
<1>1. /\ opt.len \in Int /\ opt.off * Ppb \in Int /\ StopBlock \in Int /\ Len(file) \in Int
      /\ opt.start \in Int /\ block \in Int
  BY ConstantTypes DEF TypeOK, Options, StopBlock, ToEnd
<1>1a. Len(file) \in Nat /\ opt.start \in Nat /\ opt.off \in Nat
  BY DEF TypeOK, Options
<1>2. FileBlocks \in Int
  BY <1>1, ConstantTypes DEF FileBlocks
<1>3. CappedLen(WantedLen) \in Int
  BY <1>1, <1>2 DEF CappedLen, WantedLen
<1>4. Rank(block) \in Nat
  BY <1>1, GoodBelowFinite
<1>5. QED
  BY <1>1, <1>1a, <1>2, <1>3, <1>4, ConstantTypes DEF TypeOK

LEMMA FilePageType == ASSUME TypeOK PROVE FilePage(Rank(block), page) \in Int
<1>1. Rank(block) \in Int /\ opt.off \in Int /\ page \in Int /\ Ppb \in Int
  BY PlainTypes
<1>2. \A x \in Int : (opt.off + x) * Ppb + page + 1 \in Int
  BY <1>1
<1>3. QED
  BY <1>1, <1>2 DEF FilePage

\* A block of the area that is entered has a file block to take.
LEMMA BlockHasFilePage ==
  ASSUME TypeOK, Counted, PlainRun, pc \in LoopLabels, InArea
  PROVE  /\ Rank(block) < CappedLen(WantedLen)
         /\ ~(FilePage(Rank(block), 0) > Len(file))
<1> DEFINE c == CappedLen(WantedLen)
           r == Rank(block)
           fb == FileBlocks
<1>0. /\ opt.start \in Int /\ flen \in Int /\ block \in Int /\ warned \in Nat /\ r \in Nat
      /\ c \in Int /\ fb \in Int
  <2>1. /\ opt.start \in Nat /\ flen \in Int /\ block \in Nat /\ warned \in Nat
        /\ r \in Nat /\ c \in Int /\ fb \in Int
    BY PlainTypes, Zenon
  <2> HIDE DEF c, r, fb
  <2>2. QED
    BY <2>1
<1>0a. /\ flen + warned + r = c + (block - opt.start) /\ c <= fb /\ block < opt.start + flen
  BY DEF Counted, InArea
<1>1. r < c /\ r < fb
  <2> HIDE DEF c, r, fb
  <2>1. QED
    BY <1>0, <1>0a
<1>2. QED
  <2>1. ASSUME FilePage(r, 0) > Len(file) PROVE FALSE
    <3>1. fb <= r
      BY <1>0, <2>1, FileEndsBefore
    <3> HIDE DEF c, r, fb
    <3>2. QED
      BY <1>0, <1>1, <3>1
  <2>2. QED
    BY <1>1, <2>1

\* At the labels at which no page is in hand, Reached is the block itself.
LEMMA ReachedBlock ==
  ASSUME TypeOK, Safe, Order, Settled, PlainRun, opt.erase = 0,
         pc \in {"block", "erase1", "erase2", "erase3"}
  PROVE  Reached = block
<1>1. page \in {0, Ppb}
  BY DEF Settled, Safe, PagesClean
<1>2. CASE page = Ppb
  BY <1>2, PlainTypes DEF Reached
<1>3. CASE page = 0
  BY <1>3, BlockHasFilePage DEF Reached, Order, LoopLabels
<1>4. QED
  BY <1>1, <1>2, <1>3

\* While a page of the file is in hand, too.
LEMMA ReachedPage ==
  ASSUME TypeOK, Order, PlainRun,
         pc \in {"page", "prog1", "prog2"}, pc = "page" => page = Ppb \/ fpos < Len(file),
         pc \in {"prog1", "prog2"} => fpos <= Len(file)
  PROVE  Reached = block
<1>1. CASE pc = "page"
  <2>1. CASE page = Ppb
    BY <2>1, PlainTypes DEF Reached
  <2>2. CASE fpos < Len(file)
    <3>1. FilePage(Rank(block), page) <= Len(file)
      BY <1>1, <2>2, PlainTypes DEF Order, InStep, TypeOK
    <3>2. FilePage(Rank(block), page) \in Int
      BY FilePageType
    <3>3. QED
      BY <3>1, <3>2, PlainTypes DEF Reached
  <2>3. QED
    BY <1>1, <2>1, <2>2
<1>2. CASE pc \in {"prog1", "prog2"}
  <2>1. FilePage(Rank(block), page) <= Len(file)
    BY <1>2 DEF Order, InStep
  <2>2. FilePage(Rank(block), page) \in Int
    BY FilePageType
  <2>3. QED
    BY <2>1, <2>2, PlainTypes DEF Reached
<1>3. QED
  BY <1>1, <1>2

Plain == TypeOK /\ Bounds /\ Safe /\ Order /\ Settled

\* Where Reached is the block in hand.
Behind ==
    \/ pc \in {"block", "erase1", "erase2", "erase3", "prog1", "prog2"}
    \/ pc = "page" /\ (page = Ppb \/ fpos < Len(file))

LEMMA PlainBehind == ASSUME PlainOnly, Plain, Behind PROVE Reached = block
<1>1. PlainRun /\ opt.erase = 0
  BY SettledPlain DEF Plain
<1>2. CASE pc \in {"block", "erase1", "erase2", "erase3"}
  BY <1>1, <1>2, ReachedBlock DEF Plain
<1>3. CASE pc = "page" /\ (page = Ppb \/ fpos < Len(file))
  BY <1>1, <1>3, ReachedPage DEF Plain
<1>4. CASE pc \in {"prog1", "prog2"}
  <2>1. fpos > 0 /\ Wanted(fpos) = fpos
    BY <1>1, <1>4 DEF Plain, Bounds, ProgLabels, Order, InStep
  <2>2. fpos <= Len(file)
    BY <2>1, PlainTypes DEF Plain, Wanted, Erased, TypeOK
  <2>3. QED
    BY <1>1, <1>4, <2>2, ReachedPage DEF Plain
<1>5. QED
  BY <1>2, <1>3, <1>4 DEF Behind

\* The promise takes a step when a good block of the area is reached.
LEMMA PlaceStep ==
  ASSUME TypeOK, Reached = block, Reached' = block + 1, UNCHANGED <<opt, file, marked>>,
         pc \notin Ended, pc' \notin Ended, block \in Area \ marked,
         marked = base.marked, Rank(block) < CappedLen(WantedLen)
  PROVE  P!Place
<1> DEFINE S == FirstGood(block)
           placed == Ordered(S)
           c == CappedLen(WantedLen)
<1>1. opt.start \in Int /\ block \in Int
  <2>1. opt.start \in Nat /\ block \in Nat /\ StopBlock \in Int
    BY PlainTypes, Zenon
  <2>2. QED
    BY <2>1
<1>2. S \subseteq Int /\ IsFiniteSet(S) /\ (\A s \in S : s < block) /\ Cardinality(S) = Rank(block)
  BY <1>1, GoodBelowFinite DEF FirstGood, GoodBelow, Rank
<1>3. FirstGood(Reached)' = S \cup {block}
  <2>1. FirstGood(Reached)' = {g \in opt.start .. (block + 1) - 1 : g \notin marked}
    BY DEF FirstGood
  <2>2. block >= opt.start /\ block \notin marked
    BY <1>1 DEF Area
  <2>3. \A g : g \in FirstGood(Reached)' <=> g \in S \/ g = block
    BY <1>1, <2>1, <2>2 DEF FirstGood
  <2>4. QED
    BY <2>3
<1>4. Ordered(FirstGood(Reached))' = Append(placed, block) /\ Len(placed) = Cardinality(S)
  <2> HIDE DEF S
  <2>1. Ordered(S \cup {block}) = Append(Ordered(S), block) /\ Len(Ordered(S)) = Cardinality(S)
    BY <1>1, <1>2, OrderedAppend
  <2>2. Ordered(FirstGood(Reached))' = Ordered(FirstGood(Reached)')
    BY DEF Ordered
  <2>3. QED
    BY <1>3, <2>1, <2>2
<1>5. Len(placed) < c
  BY <1>2, <1>4
<1>6. P!Last < block /\ P!Last \in S \cup {-1} /\ \A s \in S : s <= P!Last
  <2>0. P!Last = IF placed = <<>> THEN -1 ELSE placed[Len(placed)]
    BY DEF P!Last
  <2>1. CASE S = {}
    <3>1. placed = <<>>
      BY <2>1, OrderedEmpty
    <3>2. P!Last = -1 /\ block \in Nat
      BY <2>0, <3>1, PlainTypes, Zenon
    <3> QED
      BY <2>1, <3>2
  <2>2. CASE S # {}
    <3>0. \A s \in S : s <= block
      BY <1>1, <1>2
    <3> HIDE DEF S
    <3>1. /\ Ordered(S) # <<>> /\ Ordered(S)[Len(Ordered(S))] \in S
          /\ \A s \in S : s <= Ordered(S)[Len(Ordered(S))]
      BY <1>1, <1>2, <2>2, <3>0, OrderedLast
    <3>2. P!Last \in S /\ \A s \in S : s <= P!Last
      BY <2>0, <3>1
    <3> QED
      BY <1>2, <3>2
  <2>3. QED
    BY <2>1, <2>2
<1>7. P!Free # {} /\ P!Min(P!Free) = block
  <2>1. Area \subseteq Int
    BY DEF Area
  <2>2. P!Last \in Int /\ P!Free \subseteq Int
    <3>1. P!Last \in Int
      BY <1>2, <1>6
    <3>2. P!Free \subseteq Int
      BY <2>1 DEF P!Free
    <3>3. QED
      BY <3>1, <3>2
  <2>3. block \in P!Free
    BY <1>6 DEF P!Free
  <2>4. \A f \in P!Free : block <= f
    BY <1>1, <1>6, <2>1, <2>2 DEF P!Free, FirstGood, Area
  <2>5. P!Min(P!Free) \in P!Free /\ \A f \in P!Free : P!Min(P!Free) <= f
    BY <1>1, <2>2, <2>3, <2>4, BoundedMin DEF P!Min, Min
  <2> DEFINE free == P!Free
             m == P!Min(P!Free)
  <2>6. /\ m \in free /\ block \in free /\ free \subseteq Int
        /\ (\A f \in free : block <= f) /\ \A f \in free : m <= f
    BY <2>2, <2>3, <2>4, <2>5
  <2> HIDE DEF free, m
  <2>7. free # {} /\ m = block
    BY <2>6
  <2>8. QED
    BY <2>7 DEF free, m
<1>8. /\ Ordered(FirstGood(Reached)) = placed
      /\ UNCHANGED <<Area, CappedLen(WantedLen)>>
  BY DEF Area, CappedLen, WantedLen, StopBlock, FileBlocks
<1>9. QED
  BY <1>4, <1>5, <1>7, <1>8 DEF P!Place

\* The promise does not see a step that reaches no other good block.
LEMMA SameReached ==
  ASSUME UNCHANGED <<opt, file, marked>>, FirstGood(Reached)' = FirstGood(Reached)
  PROVE  UNCHANGED <<Area, marked, CappedLen(WantedLen), Ordered(FirstGood(Reached))>>
<1>1. UNCHANGED <<Area, CappedLen(WantedLen)>>
  BY DEF Area, CappedLen, WantedLen, StopBlock, FileBlocks
<1>2. Ordered(FirstGood(Reached))' = Ordered(FirstGood(Reached)')
  BY DEF Ordered
<1>3. QED
  BY <1>1, <1>2

LEMMA SamePlace ==
  ASSUME UNCHANGED <<opt, file, block, page, flen, marked, base>>
  PROVE  UNCHANGED <<Area, marked, CappedLen(WantedLen), Ordered(FirstGood(Reached))>>
<1>1. Reached' = Reached
  BY DEF Reached, InArea, FilePage, Rank, GoodBelow
<1>2. FirstGood(Reached)' = FirstGood(Reached)
  BY <1>1 DEF FirstGood
<1>3. QED
  BY <1>2, SameReached

\* The loop ends when the image is placed or the area is used up.
LEMMA CompleteStep ==
  ASSUME PlainOnly, Plain, RestoreRegs
  PROVE  P!Complete
<1> DEFINE c == CappedLen(WantedLen)
           r == Rank(block)
           fb == FileBlocks
           T == FirstGood(Reached)
<1>1. PlainRun /\ TypeOK /\ pc = "endpage"
  BY SettledPlain DEF Plain, RestoreRegs
<1>2. /\ opt.start \in Nat /\ flen \in Int /\ block \in Nat /\ warned \in Nat /\ page \in Nat
      /\ r \in Nat /\ c \in Int /\ fb \in Int /\ StopBlock \in Int
  BY <1>1, PlainTypes, Zenon
<1>2a. opt.start \in Int /\ block \in Int
  BY <1>2
<1>3. /\ opt.start <= block /\ block <= opt.start + flen
      /\ flen + warned + r = c + (block - opt.start) /\ c <= fb
  BY <1>1 DEF Plain, Order, Counted
<1>4. marked = base.marked
  BY <1>1 DEF Plain, Order, MarksFixed
<1>5. \A b \in Int : FirstGood(b) = GoodBelow(b) /\ IsFiniteSet(FirstGood(b))
  BY <1>2a, <1>4, GoodBelowFinite DEF FirstGood, GoodBelow
<1>6. Len(Ordered(T)) = c \/ P!Free = {}
  <2>1. CASE ~InArea
    <3>1. Reached = block
      BY <2>1 DEF Reached
    <3>2. block = opt.start + flen
      <4> HIDE DEF r, c, fb
      <4>1. QED
        BY <1>2, <1>3, <2>1 DEF InArea
    <3>3. T = GoodBelow(block) /\ IsFiniteSet(T)
      BY <1>2a, <1>5, <3>1
    <3>4. T \subseteq Int /\ (\A s \in T : s < block)
      BY <1>2a, <3>3 DEF GoodBelow
    <3>5. Len(Ordered(T)) = r
      <4>1. Cardinality(T) = r
        BY <3>3 DEF Rank
      <4> HIDE DEF T, r
      <4>2. QED
        BY <1>2a, <3>3, <3>4, <4>1, OrderedAppend
    <3>6. CASE warned = 0
      <4>1. r = c
        <5> HIDE DEF r, c, fb
        <5>1. QED
          BY <1>2, <1>3, <3>2, <3>6
      <4>2. QED
        BY <3>5, <4>1
    <3>7. CASE warned > 0
      <4>1. block = StopBlock
        BY <3>2, <3>7 DEF Plain, Settled
      <4>2. \A b \in Area \ marked : b \in T
        BY <1>2a, <1>4, <3>3, <4>1 DEF GoodBelow, Area
      <4>3. P!Last = IF Ordered(T) = <<>> THEN -1 ELSE Ordered(T)[Len(Ordered(T))]
        BY DEF P!Last
      <4>4. ASSUME NEW b \in P!Free PROVE FALSE
        <5>1. b \in T /\ b > P!Last
          BY <4>2, <4>4 DEF P!Free
        <5>2. \A s \in T : s <= block
          BY <1>2a, <3>4
        <5> HIDE DEF T
        <5>3. /\ Ordered(T) # <<>> /\ Ordered(T)[Len(Ordered(T))] \in T
              /\ \A s \in T : s <= Ordered(T)[Len(Ordered(T))]
          BY <1>2a, <3>3, <3>4, <5>1, <5>2, OrderedLast
        <5>4. b <= P!Last /\ P!Last \in Int /\ b \in Int
          BY <3>4, <4>3, <5>1, <5>3
        <5>5. QED
          BY <5>1, <5>4
      <4>5. QED
        BY <4>4
    <3>8. QED
      BY <1>2, <3>6, <3>7
  <2>2. CASE InArea
    <3>1. page < Ppb /\ block \notin base.marked /\ FilePage(r, page) > Len(file)
      BY <1>1, <2>2 DEF Plain, Order, Copied
    <3>2. fb <= r + 1
      BY <1>1, <1>2, <3>1, LastFileBlock
    <3>3. block < opt.start + flen
      BY <2>2 DEF InArea
    <3>4. c = r + 1
      <4> HIDE DEF c, r, fb
      <4>1. QED
        BY <1>2, <1>3, <3>2, <3>3
    <3>5. Reached = block + 1
      BY <2>2, <3>1 DEF Reached
    <3>6. T = GoodBelow(block + 1) /\ IsFiniteSet(T)
      BY <1>2a, <1>5, <3>5
    <3>7. T \subseteq Int /\ (\A s \in T : s < block + 1)
      BY <1>2a, <3>6 DEF GoodBelow
    <3>8. Cardinality(T) = c
      <4>1. Rank(block + 1) = r + 1
        BY <1>2a, <1>3, <3>1, RankStep
      <4>2. QED
        BY <3>4, <3>6, <4>1 DEF Rank
    <3>9. QED
      <4> HIDE DEF T, c
      <4>1. block + 1 \in Int
        BY <1>2a
      <4>2. QED
        BY <3>6, <3>7, <3>8, <4>1, OrderedAppend
  <2>3. QED
    BY <2>1, <2>2
<1>7. pc \notin Ended /\ pc' = "done" /\ UNCHANGED <<opt, file, block, page, flen, marked, base>>
  BY DEF RestoreRegs, Ended, locals, flash
<1>8. UNCHANGED <<Area, marked, c, Ordered(T)>>
  BY <1>7, SamePlace
<1>9. QED
  <2> HIDE DEF c, T
  <2>1. QED
    BY <1>6, <1>7, <1>8 DEF P!Complete, c, T, Ended

-----------------------------------------------------------------------------
(* Every step is a step of the promise or changes nothing it speaks of.     *)

LEMMA NextPlacement ==
  ASSUME PlainOnly, Plain, Plain', Behind => Reached = block, (Behind => Reached = block)',
         [Next]_vars
  PROVE  [P!Next]_P!pvars
<1> DEFINE Same == UNCHANGED <<Area, marked, CappedLen(WantedLen), Ordered(FirstGood(Reached))>>
<1>0. /\ PlainRun /\ opt.erase = 0 /\ TypeOK /\ run = 1 /\ MaxRuns = 1
      /\ MarksFixed /\ Safe /\ Bounds /\ Settled
  BY SettledPlain DEF Plain, PlainOnly, Settled, Order
<1>1. /\ ~StartRun /\ ~EraseModeBlock /\ ~SimulateBad /\ ~MarkSetCfg /\ ~MarkWrite /\ ~MarkRestore
      /\ ~Has("um") /\ ~Has("uc") /\ ~Has("ux") /\ ~Has("ub")
  BY <1>0, PlainSteps DEF StartRun
<1>2. /\ marked = base.marked
      /\ pc \in LoopLabels \ {"block"} => block \notin base.marked
  BY <1>0 DEF MarksFixed
<1>3. /\ opt.start \in Nat /\ flen \in Int /\ block \in Nat /\ page \in Nat
      /\ Rank(block) \in Nat /\ CappedLen(WantedLen) \in Int /\ StopBlock \in Int /\ Ppb \in Nat \ {0}
  BY <1>0, PlainTypes, Zenon
<1>4. ASSUME Same, pc' \notin Ended, pc \notin Ended PROVE UNCHANGED P!pvars
  BY <1>4 DEF P!pvars
<1>5. ASSUME Same, pc' \in {"exit", "killed"}, pc \notin Ended PROVE P!Abort
  BY <1>5 DEF P!Abort, Ended
\* Taking the block in hand, which is good, as reached.
<1>6. ASSUME pc \in {"page", "prog2"}, pc' \notin Ended, Reached = block, Reached' = block + 1,
             UNCHANGED <<opt, file, marked>>
      PROVE  P!Place
  <2>1. InArea /\ block \in Area
    BY <1>0, <1>6, BlockInFlash DEF Bounds, BlockLabels
  <2>2. block \notin marked
    BY <1>2, <1>6 DEF LoopLabels
  <2>3. Rank(block) < CappedLen(WantedLen)
    BY <1>0, <1>6, <2>1, BlockHasFilePage DEF Plain, Order, LoopLabels
  <2>4. pc \notin Ended
    BY <1>6 DEF Ended
  <2>5. QED
    BY <1>0, <1>2, <1>6, <2>1, <2>2, <2>3, <2>4, PlaceStep
<1> HIDE DEF Same
<1> DEFINE Frame == UNCHANGED <<opt, file, block, page, flen, marked, base>>
<1>7. Frame => Same
  BY SamePlace DEF Same
<1>8. UNCHANGED <<opt, file, marked>> /\ FirstGood(Reached)' = FirstGood(Reached) => Same
  BY SameReached DEF Same
<1> HIDE DEF Frame
<1>9. ASSUME Frame, pc \notin Ended,
             pc' \notin Ended \/ pc' \in {"exit", "killed"}
      PROVE  [P!Next]_P!pvars
  BY <1>4, <1>5, <1>7, <1>9 DEF P!Next
<1>10. CASE CheckArgs \/ SetEcc \/ EndOfArea \/ EndOfFile \/ Mismatch \/ TakePage
  <2>1. Frame /\ pc \notin Ended /\ (pc' \notin Ended \/ pc' = "exit")
    BY <1>10 DEF Frame, CheckArgs, SetEcc, EndOfArea, EndOfFile, Mismatch, TakePage, TakePageIf,
                 MorePages, locals, flash, Ended
  <2>2. QED
    BY <1>9, <2>1
<1>11. CASE EraseSetCfg \/ EraseRestore \/ ProgramSectors \/ Kill
  <2>1. Frame /\ pc \notin Ended /\ (pc' \notin Ended \/ pc' = "killed")
    <3>1. CASE EraseSetCfg \/ EraseRestore \/ ProgramSectors
      BY <1>0, <3>1 DEF Frame, EraseSetCfg, EraseRestore, ProgramSectors, locals, flash, Ended
    <3>2. CASE Kill
      <4>1. marked' = marked
        BY <1>0, <1>1, <3>2, KillFlash
      <4>2. QED
        BY <3>2, <4>1 DEF Frame, Kill, locals, Ended
    <3>3. QED
      BY <1>11, <3>1, <3>2
  <2>2. QED
    BY <1>9, <2>1
<1>12. CASE Hello
  <2>1. Frame /\ pc \notin Ended /\ (pc' \notin Ended \/ pc' = "exit")
    BY <1>0, <1>12 DEF Frame, Hello, flash, Ended
  <2>2. QED
    BY <1>9, <2>1
<1>13. CASE EraseExec
  <2>1. block \notin marked
    BY <1>2, <1>13 DEF EraseExec, LoopLabels
  <2>2. Frame /\ pc \notin Ended /\ pc' \notin Ended
    BY <1>13, <2>1 DEF Frame, EraseExec, locals, Ended
  <2>3. QED
    BY <1>9, <2>2
<1>14. CASE OpenFile
  <2>1. CASE pc' = "exit"
    <3>1. Frame /\ pc \notin Ended
      BY <1>14, <2>1 DEF Frame, OpenFile, flash, Ended
    <3>2. QED
      BY <1>9, <2>1, <3>1
  <2>2. CASE pc' # "exit"
    <3>1. /\ pc = "open" /\ pc' = "block" /\ block' = opt.start
          /\ UNCHANGED <<opt, file, marked>>
      BY <1>14, <2>2 DEF OpenFile, flash
    <3>2. page = 0 /\ block = 0 /\ flen = 0
      BY <1>0, <3>1 DEF Settled
    <3>3. FirstGood(Reached) = {}
      <4>1. Reached \in Int /\ Reached <= opt.start
        BY <1>3, <3>2 DEF Reached, InArea
      <4>2. QED
        BY <1>3, <4>1 DEF FirstGood
    <3>4. FirstGood(Reached)' = {}
      <4>1. Reached' = opt.start
        BY <3>1 DEF Behind
      <4>2. FirstGood(Reached)' = {g \in opt.start .. opt.start - 1 : g \notin marked}
        BY <3>1, <4>1 DEF FirstGood
      <4>3. QED
        BY <1>3, <4>2
    <3>5. QED
      BY <1>4, <1>8, <3>1, <3>3, <3>4 DEF Ended
  <2>3. QED
    BY <2>1, <2>2
<1>15. CASE SkipBadBlock
  <2>1. /\ pc = "block" /\ pc' = "block" /\ block' = block + 1
        /\ UNCHANGED <<opt, file, marked>>
    BY <1>15 DEF SkipBadBlock, flash
  <2>2. Reached = block /\ Reached' = block + 1
    BY <2>1 DEF Behind
  <2>3. block \in marked
    <3>1. CheckBlock(block) = {block \in base.marked}
      BY <1>0, <1>1, <2>1, PlainCheck
    <3>2. PICK bad \in CheckBlock(block) : SkipsBad(bad)
      BY <1>15 DEF SkipBadBlock
    <3>3. QED
      BY <1>2, <3>1, <3>2 DEF SkipsBad
  <2>4. FirstGood(Reached)' = FirstGood(Reached)
    <3>1. /\ FirstGood(Reached)' = {g \in opt.start .. (block + 1) - 1 : g \notin marked}
          /\ FirstGood(Reached) = {g \in opt.start .. block - 1 : g \notin marked}
      BY <2>1, <2>2 DEF FirstGood
    <3>2. QED
      BY <1>3, <2>3, <3>1
  <2>5. QED
    BY <1>4, <1>8, <2>1, <2>4 DEF Ended
<1>16. CASE EnterBlock
  <2>1. /\ pc = "block" /\ pc' = "erase1" /\ block' = block
        /\ UNCHANGED <<opt, file, marked>>
    <3>1. PICK bad \in CheckBlock(block) :
            /\ ~SkipsBad(bad)
            /\ pc' = IF (bad /\ Has("ub")) \/ (~bad /\ TRUE) THEN "erase1" ELSE "page"
      BY <1>1, <1>16 DEF EnterBlock, EnterBlockIf
    <3>2. ~bad
      BY <1>1, <3>1 DEF SkipsBad
    <3>3. QED
      BY <1>16, <3>1, <3>2 DEF EnterBlock, EnterBlockIf, flash
  <2>2. Reached = block /\ Reached' = block
    BY <2>1 DEF Behind
  <2>3. FirstGood(Reached)' = FirstGood(Reached)
    BY <2>1, <2>2 DEF FirstGood
  <2>4. QED
    BY <1>4, <1>8, <2>1, <2>3 DEF Ended
<1>17. CASE EndOfBlock
  <2>1. /\ pc = "page" /\ page = Ppb /\ pc' = "block" /\ block' = block + 1
        /\ UNCHANGED <<opt, file, marked>>
    BY <1>17 DEF EndOfBlock, flash
  <2>2. Reached = block /\ Reached' = block + 1
    BY <2>1 DEF Behind
  <2>3. QED
    BY <1>6, <2>1, <2>2 DEF Ended, P!Next
\* A page of the file, the last one perhaps.
<1>18. ASSUME pc \in {"page", "prog2"}, pc' = "page", Reached = block, block' = block,
              UNCHANGED <<opt, file, marked>>
       PROVE  [P!Next]_P!pvars
  <2>1. Reached' = block \/ Reached' = block + 1
    BY <1>18 DEF Reached
  <2>2. CASE Reached' = block
    <3>1. FirstGood(Reached)' = FirstGood(Reached)
      BY <1>18, <2>2 DEF FirstGood
    <3>2. QED
      BY <1>4, <1>8, <1>18, <3>1 DEF Ended
  <2>3. CASE Reached' = block + 1
    BY <1>6, <1>18, <2>3 DEF Ended, P!Next
  <2>4. QED
    BY <2>1, <2>2, <2>3
<1>19. CASE SkipPage
  <2>1. /\ pc = "page" /\ pc' = "page" /\ block' = block /\ fpos < Len(file)
        /\ UNCHANGED <<opt, file, marked>>
    BY <1>19 DEF SkipPage, SkipPageIf, MorePages, flash
  <2>2. QED
    BY <1>18, <2>1 DEF Behind
<1>20. CASE ProgramDone
  <2>1. /\ pc = "prog2" /\ pc' = "page" /\ block' = block
        /\ UNCHANGED <<opt, file, marked>>
    BY <1>1, <1>20 DEF ProgramDone, MarkedAfterPage
  <2>2. QED
    BY <1>18, <2>1 DEF Behind
<1>21. CASE RestoreRegs
  BY <1>21, CompleteStep DEF P!Next
<1>22. CASE UNCHANGED vars
  <2>1. Frame /\ pc' = pc
    BY <1>22 DEF Frame, vars, locals, flash
  <2>2. QED
    BY <1>7, <2>1 DEF Same, P!pvars
<1>23. QED
  BY <1>1, <1>10, <1>11, <1>12, <1>13, <1>14, <1>15, <1>16, <1>17, <1>19, <1>20, <1>21, <1>22
     DEF Next, Step, Finished

LEMMA InitPlacement == PlainOnly /\ Init => Settled /\ P!Init
<1> SUFFICES ASSUME PlainOnly, Init PROVE Settled /\ P!Init
  OBVIOUS
<1>1. /\ run = 1 /\ pc = "args" /\ opt \in OptionSets /\ block = 0 /\ page = 0 /\ flen = 0
      /\ saved = ResetRegs /\ regs = ResetRegs /\ warned = 0
  BY DEF Init
<1>2. Settled
  BY <1>1 DEF Settled, ResetRegs
<1>3. opt.start \in Nat
  BY <1>1, ConstantTypes DEF Options
<1>4. Reached \in Int /\ Reached <= opt.start
  BY <1>1, <1>3 DEF Reached, InArea
<1>5. FirstGood(Reached) = {}
  BY <1>3, <1>4 DEF FirstGood
<1>6. P!Init
  BY <1>1, <1>5, OrderedEmpty DEF P!Init, Ended
<1>7. QED
  BY <1>2, <1>6

\* A run of plain commands keeps the promise of ImagePlacement (the block and
\* page loops of main() in qwdirect.c): whatever the flash, its defects, the
\* file, the area and the offset, each file block goes to the first free good
\* block, and the run ends normally only with the whole image placed or no
\* good block left.
THEOREM ImplementsPlacement == PlainOnly => (Spec => PlacementSpec)
<1> SUFFICES ASSUME PlainOnly PROVE Spec => PlacementSpec
  OBVIOUS
<1>1. Init => Settled /\ P!Init
  BY InitPlacement
<1>2. Spec => [](TypeOK /\ Bounds /\ Safe /\ Order)
  BY OrderInvariant
<1>3. TypeOK /\ Bounds /\ Safe /\ Order /\ Settled /\ [Next]_vars => Settled'
  BY NextSettled
<1> DEFINE Caught == Behind => Reached = block
<1>4. TypeOK /\ Bounds /\ Safe /\ Order /\ Settled => Plain /\ Caught
  BY PlainBehind DEF Plain
<1>5. Plain /\ Caught /\ Plain' /\ Caught' /\ [Next]_vars => [P!Next]_P!pvars
  BY NextPlacement
<1> HIDE DEF Caught
<1>6. QED
  BY <1>1, <1>2, <1>3, <1>4, <1>5, PTL DEF Spec, PlacementSpec, P!Spec
=============================================================================
