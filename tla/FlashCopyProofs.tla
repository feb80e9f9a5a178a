--------------------------- MODULE FlashCopyProofs ---------------------------
(***************************************************************************)
(* Proofs about FlashCopy: what the first flash held is on the second one, *)
(* in the order, in the places or with the markers that the modes promise. *)
(***************************************************************************)
EXTENDS FlashCopy, QwDirectProofs

-----------------------------------------------------------------------------
(* The writer, where it passes over no block.                               *)

HereLabels == {"page", "endpage", "done"} \cup ProgLabels \cup MarkLabels

\* Page p of block b has what the file has for it.
LaidPage(b, p) ==
    LET k == FilePage(b - opt.start, p)
    IN  k <= Len(file) /\ file[k] # "bb" =>
          IF opt.s /\ file[k] = "ff" THEN Has("ux") => cell[b][p] = Erased
                                     ELSE cell[b][p] = k

\* The pages behind the place in the flash are laid, and where the file ended
\* none is left.
Laid ==
    KeepsPlace =>
        /\ pc \in StableLabels =>
             /\ flen = CappedLen(WantedLen)
             /\ \A b \in opt.start .. block - 1 : \A p \in Pages : LaidPage(b, p)
        /\ pc \in HereLabels /\ InArea =>
             \A p \in Pages : p < page => LaidPage(block, p)
        /\ pc \in {"endpage", "done"} /\ InArea =>
             page < Ppb /\ FilePage(block - opt.start, page) > Len(file)
        /\ pc \in ProgLabels => ~(opt.s /\ file[fpos] = "ff")
        /\ Has("ux") /\ pc \in {"page"} \cup ProgLabels \cup EraseLabels => ~badflag

\* With -ux the markers are those of the raw pages.
MarkRight(b) ==
    LET k == FilePage(b - opt.start, 0)
    IN  k <= Len(file) => (b \in marked <=> file[k] = "mk")
Cloned ==
    Has("ux") /\ opt.erase = 0 =>
        /\ pc \in StableLabels => \A b \in opt.start .. block - 1 : MarkRight(b)
        /\ pc \in HereLabels /\ InArea /\ page > 0 => MarkRight(block)
        /\ pc \in {"page", "erase3"} \cup ProgLabels /\ page = 0 => block \notin marked

\* A page that does not change stays laid.
LEMMA LaidFrame ==
  ASSUME opt' = opt, file' = file
  PROVE  \A b, p : cell'[b][p] = cell[b][p] /\ LaidPage(b, p) => LaidPage(b, p)'
<1> SUFFICES ASSUME NEW b, NEW p, cell'[b][p] = cell[b][p], LaidPage(b, p)
             PROVE  LaidPage(b, p)'
  OBVIOUS
<1>1. FilePage(b - opt.start, p)' = FilePage(b - opt.start, p)
  BY DEF FilePage
<1>2. QED
  BY <1>1 DEF LaidPage, Has

\* What a step does to the pages of other blocks: nothing.
LEMMA OtherBlocks ==
  ASSUME TypeOK, Bounds, [Next]_vars
  PROVE  /\ \A b \in Blocks : b # block => cell'[b] = cell[b] /\ (b \in marked' <=> b \in marked)
         /\ block \in Blocks \/ (cell' = cell /\ marked' = marked)
<1>1. CASE ~Writes
  BY <1>1, OnlyWritesWrite
<1>1a. CASE Kill
  <2>1. pc \in {"mark2", "prog2"} => block \in Blocks
    BY BlockInFlash DEF BlockLabels
  <2>2. QED
    BY <1>1a, <2>1, KillFlash
<1>2. CASE Writes /\ ~Kill
  <2>1. block \in Blocks
    <3>1. pc \in BlockLabels
      BY <1>2 DEF Writes, EraseExec, MarkWrite, ProgramSectors, ProgramDone, BlockLabels
    <3>2. QED
      BY <3>1, BlockInFlash
  <2>2. cell \in [Blocks -> [Pages -> Cells]]
    BY DEF TypeOK
  <2>3. QED
    BY <1>2, <2>1, <2>2 DEF Writes, EraseExec, MarkWrite, ProgramSectors, ProgramDone,
                            MarkedAfterPage
<1>3. QED
  BY <1>1, <1>1a, <1>2

\* The blocks behind stay as they are; one more is behind when the last of
\* its pages is passed.
LEMMA BehindLaid ==
  ASSUME TypeOK, Bounds, [Next]_vars, KeepsPlace, Laid, pc \in StableLabels,
         opt' = opt, file' = file,
         \/ block' = block
         \/ block' = block + 1 /\ pc = "page" /\ page = Ppb /\ cell' = cell
  PROVE  \A b \in opt.start .. block' - 1 : \A p \in Pages : LaidPage(b, p)'
<1> SUFFICES ASSUME NEW b \in opt.start .. block' - 1, NEW p \in Pages
             PROVE  LaidPage(b, p)'
  OBVIOUS
<1>1. opt.start \in Nat /\ block \in Int /\ flen \in Int /\ Ppb \in Nat /\ MaxBlock \in Nat
      /\ StopBlock \in Int
  BY ConstantTypes DEF TypeOK, Options, StopBlock, ToEnd
<1>2. CASE b < block
  <2>1. LaidPage(b, p)
    BY <1>1, <1>2 DEF Laid
  <2>2. cell'[b] = cell[b]
    <3>1. b # block
      BY <1>1, <1>2
    <3>2. CASE block \in Blocks
      <4>1. b \in Blocks
        BY <1>1, <1>2, <3>2, ConstantTypes DEF Blocks
      <4>2. QED
        BY <3>1, <4>1, OtherBlocks
    <3>3. QED
      BY <3>2, OtherBlocks
  <2>3. QED
    BY <2>1, <2>2, LaidFrame
<1>3. CASE ~(b < block)
  <2>1. b = block /\ block' = block + 1 /\ pc = "page" /\ page = Ppb /\ cell' = cell
    BY <1>1, <1>3
  <2>2. pc \in HereLabels /\ InArea /\ p < page
    BY <1>1, <2>1 DEF HereLabels, Bounds, BlockLabels, Pages
  <2>3. LaidPage(b, p)
    BY <2>1, <2>2 DEF Laid
  <2>4. QED
    BY <2>1, <2>3, LaidFrame
<1>4. QED
  BY <1>2, <1>3

LEMMA LaidStep ==
  ASSUME TypeOK, Bounds, PagesClean, ArgsChecked, InPlace, MarksExplained, Laid,
         [Next]_vars, KeepsPlace', pc' \in StableLabels
  PROVE  /\ flen' = CappedLen(WantedLen)'
         /\ \A b \in opt.start .. block' - 1 : \A p \in Pages : LaidPage(b, p)'
         /\ pc' \in HereLabels /\ InArea' =>
              \A p \in Pages : p < page' => LaidPage(block, p)'
         /\ pc' \in {"endpage", "done"} /\ InArea' =>
              page' < Ppb /\ FilePage(block - opt.start, page)' > Len(file')
         /\ pc' \in ProgLabels => ~(opt.s /\ file[fpos'] = "ff")
         /\ Has("ux") /\ pc' \in {"page"} \cup ProgLabels \cup EraseLabels => ~badflag'
<1> DEFINE r == block - opt.start
<1>0. /\ pc \in StableLabels \cup {"open"} /\ ~StartRun /\ ~Hello
      /\ opt' = opt /\ file' = file
  BY WorkFrame DEF KeepsPlace
<1>1. KeepsPlace
  BY <1>0 DEF KeepsPlace, Has
<1>2. /\ block \in Int /\ page \in Int /\ fpos \in Int /\ opt.start \in Nat /\ Ppb \in Nat \ {0}
      /\ opt.off \in Nat /\ Len(file) \in Int /\ flen \in Int /\ r \in Int
      /\ cell \in [Blocks -> [Pages -> Cells]]
  BY ConstantTypes DEF TypeOK, Options
<1>3. CappedLen(WantedLen)' = CappedLen(WantedLen)
  BY <1>0 DEF CappedLen, WantedLen, FileBlocks, StopBlock
<1>4. /\ pc \in StableLabels => flen = CappedLen(WantedLen)
      /\ pc \in HereLabels /\ InArea => \A p \in Pages : p < page => LaidPage(block, p)
      /\ pc \in {"endpage", "done"} /\ InArea => page < Ppb /\ FilePage(r, page) > Len(file)
      /\ pc \in ProgLabels => ~(opt.s /\ file[fpos] = "ff")
      /\ Has("ux") /\ pc \in {"page"} \cup ProgLabels \cup EraseLabels => ~badflag
  BY <1>1 DEF Laid
<1>5. /\ pc = "page" => fpos + 1 = FilePage(r, page)
      /\ pc \in MarkLabels \cup ProgLabels => fpos = FilePage(r, page)
  BY <1>1 DEF InPlace
<1>6. pc \in {"page"} \cup MarkLabels \cup ProgLabels => InArea /\ block \in Blocks
  BY BlockInFlash DEF Bounds, BlockLabels, MarkLabels, ProgLabels
<1>7. ASSUME pc \in StableLabels, block' = block
             \/ (block' = block + 1 /\ pc = "page" /\ page = Ppb /\ cell' = cell)
      PROVE  \A b \in opt.start .. block' - 1 : \A p \in Pages : LaidPage(b, p)'
  BY <1>0, <1>1, <1>7, BehindLaid
\* The pages behind in the block in hand.
<1>8. ASSUME pc \in HereLabels, InArea, block' = block,
             \A p \in Pages : p < page => cell'[block][p] = cell[block][p]
      PROVE  \A p \in Pages : p < page => LaidPage(block, p)'
  BY <1>0, <1>4, <1>8, LaidFrame
<1>9. ASSUME block' = block, page' = page + 1,
             \A p \in Pages : p = page => LaidPage(block, p)',
             \A p \in Pages : p < page => LaidPage(block, p)'
      PROVE  \A p \in Pages : p < page' => LaidPage(block, p)'
  <2>1. \A p \in Pages : p < page' => p < page \/ p = page
    BY <1>2, <1>9 DEF Pages
  <2>2. QED
    BY <1>9, <2>1
<1>10. block' = block => r' = r
  BY <1>0
<1> HIDE DEF r
<1> USE DEF StableLabels, WorkLabels, EraseLabels, MarkLabels, ProgLabels, HereLabels, locals, flash
<1>11. CASE OpenFile
  <2>1. pc' = "block" /\ block' = opt.start /\ flen' = CappedLen(WantedLen)
    BY <1>11 DEF OpenFile
  <2>2. opt.start .. block' - 1 = {}
    BY <1>2, <2>1
  <2> QED BY <1>3, <2>1, <2>2
<1>12. CASE EndOfArea
  <2>1. pc = "block" /\ ~InArea /\ UNCHANGED <<block, flen>>
    BY <1>12 DEF EndOfArea
  <2>2. ~InArea'
    BY <1>0, <2>1 DEF InArea
  <2> QED BY <1>3, <1>4, <1>7, <1>12, <2>1, <2>2 DEF EndOfArea
<1>13. CASE EnterBlock
  <2>1. pc = "block" /\ pc' \in {"page", "erase1"} /\ page' = 0 /\ UNCHANGED <<block, flen>>
    BY <1>13 DEF EnterBlock, EnterBlockIf
  <2>2. Has("ux") => badflag' = FALSE
    BY <1>13 DEF EnterBlock, EnterBlockIf
  <2>3. \A p \in Pages : ~(p < 0)
    BY DEF Pages
  <2> QED BY <1>3, <1>4, <1>7, <2>1, <2>2, <2>3
<1>14. CASE EraseSetCfg \/ EraseExec
  <2>1. /\ pc \in EraseLabels /\ pc' \in {"erase2", "erase3"}
        /\ UNCHANGED <<block, flen, badflag>>
    BY <1>14 DEF EraseSetCfg, EraseExec
  <2> QED BY <1>3, <1>4, <1>7, <2>1
<1>15. CASE EraseRestore
  <2>1. pc = "erase3" /\ pc' = "page" /\ page' = page /\ UNCHANGED <<block, flen, badflag>>
    BY <1>1, <1>15 DEF EraseRestore, KeepsPlace
  <2>2. page = 0
    BY <1>1, <2>1 DEF PagesClean, KeepsPlace
  <2>3. \A p \in Pages : ~(p < 0)
    BY DEF Pages
  <2> QED BY <1>3, <1>4, <1>7, <2>1, <2>2, <2>3
<1>16. CASE EndOfBlock
  <2>1. /\ pc = "page" /\ page = Ppb /\ pc' = "block" /\ block' = block + 1
        /\ UNCHANGED <<flen, cell>>
    BY <1>16 DEF EndOfBlock
  <2> QED BY <1>3, <1>4, <1>7, <2>1
<1>17. CASE EndOfFile
  <2>1. /\ pc = "page" /\ pc' = "endpage" /\ fpos >= Len(file) /\ page < Ppb
        /\ UNCHANGED <<block, page, flen, cell>>
    BY <1>17 DEF EndOfFile, MorePages
  <2>2. FilePage(r, page)' = FilePage(r, page)
    BY <1>0, <1>10, <2>1 DEF FilePage
  <2>3. FilePage(r, page) > Len(file)
    BY <1>2, <1>5, <2>1
  <2>4. \A p \in Pages : p < page => LaidPage(block, p)'
    BY <1>6, <1>8, <2>1
  <2> QED BY <1>0, <1>3, <1>4, <1>7, <2>1, <2>2, <2>3, <2>4 DEF r
<1>18. CASE SkipPage
  <2>1. /\ pc = "page" /\ pc' = "page" /\ page' = page + 1 /\ page < Ppb /\ fpos < Len(file)
        /\ UNCHANGED <<block, flen, badflag, cell>>
        /\ EmptyPage \/ BadPage
    BY <1>18 DEF SkipPage, SkipPageIf, MorePages
  <2>2. LaidPage(block, page)
    <3>1. FilePage(r, page) = fpos + 1
      BY <1>5, <2>1
    <3>2. CASE BadPage
      BY <3>1, <3>2 DEF LaidPage, BadPage, Kind, r
    <3>3. CASE EmptyPage
      <4>1. Has("ux") => cell[block][page] = Erased
        BY <1>2, <1>4, <2>1 DEF PagesClean, CleanFrom, Pages, TypeOK
      <4> QED BY <3>1, <3>3, <4>1 DEF LaidPage, EmptyPage, Kind, r
    <3> QED BY <2>1, <3>2, <3>3
  <2>3. \A p \in Pages : p = page => LaidPage(block, p)'
    BY <1>0, <2>1, <2>2, LaidFrame
  <2>4. \A p \in Pages : p < page => LaidPage(block, p)'
    BY <1>6, <1>8, <2>1
  <2> QED BY <1>3, <1>4, <1>7, <1>9, <2>1, <2>3, <2>4
<1>19. CASE SimulateBad
  <2>1. /\ pc = "page" /\ page = 0 /\ fpos < Len(file) /\ Kind = "bb"
        /\ \/ pc' = "page" /\ page' = page + 1
           \/ pc' = "mark1" /\ page' = page
        /\ UNCHANGED <<block, flen, badflag, cell>>
    BY <1>19 DEF SimulateBad, SimulateBadIf, MorePages, BadPage
  <2>2. LaidPage(block, page)
    BY <1>5, <2>1 DEF LaidPage, Kind, r
  <2>3. \A p \in Pages : p = page => LaidPage(block, p)'
    BY <1>0, <2>1, <2>2, LaidFrame
  <2>4. \A p \in Pages : p < page => LaidPage(block, p)'
    BY <1>6, <1>8, <2>1
  <2>5. \A p \in Pages : p < page' => LaidPage(block, p)'
    BY <1>9, <2>1, <2>3, <2>4
  <2> QED BY <1>3, <1>4, <1>7, <2>1, <2>5
<1>20. CASE TakePage
  <2>1. /\ pc = "page" /\ pc' = "prog1" /\ fpos' = fpos + 1 /\ ~EmptyPage
        /\ UNCHANGED <<block, page, flen, badflag, cell>>
    BY <1>20 DEF TakePage, TakePageIf, MorePages
  <2>2. ~(opt.s /\ file[fpos'] = "ff")
    BY <2>1 DEF EmptyPage, Kind
  <2>3. \A p \in Pages : p < page => LaidPage(block, p)'
    BY <1>6, <1>8, <2>1
  <2> QED BY <1>3, <1>4, <1>7, <2>1, <2>2, <2>3
<1>21. CASE MarkSetCfg \/ MarkWrite
  <2>1. /\ pc \in {"mark1", "mark2"} /\ pc' \in {"mark2", "mark3"} /\ page = 0
        /\ UNCHANGED <<block, page, flen>>
    BY <1>21 DEF MarkSetCfg, MarkWrite, Bounds
  <2>2. \A p \in Pages : ~(p < 0)
    BY DEF Pages
  <2> QED BY <1>3, <1>4, <1>7, <2>1, <2>2
<1>22. CASE MarkRestore
  <2>1. /\ pc = "mark3" /\ pc' = "page" /\ page = 0 /\ page' = page + 1
        /\ UNCHANGED <<block, flen, badflag, cell>>
    BY <1>22 DEF MarkRestore, Bounds
  <2>2. Has("uc") /\ file[fpos] = "bb"
    BY <2>1 DEF MarksExplained
  <2>3. LaidPage(block, page)
    BY <1>5, <2>1, <2>2 DEF LaidPage, r
  <2>4. \A p \in Pages : p = page => LaidPage(block, p)'
    BY <1>0, <2>1, <2>3, LaidFrame
  <2>5. \A p \in Pages : p < page => LaidPage(block, p)'
    BY <1>6, <1>8, <2>1
  <2>6. \A p \in Pages : p < page' => LaidPage(block, p)'
    BY <1>9, <2>1, <2>4, <2>5
  <2>7. ~Has("ux")
    BY <1>0, <2>1, <2>2, FlagsExclude DEF ArgsChecked
  <2> QED BY <1>3, <1>4, <1>7, <2>1, <2>6, <2>7
<1>23. CASE ProgramSectors
  <2>1. /\ pc = "prog1" /\ pc' = "prog2" /\ UNCHANGED <<block, page, fpos, flen, badflag>>
    BY <1>23 DEF ProgramSectors
  <2>2. \A p \in Pages : p # page => cell'[block][p] = cell[block][p]
    BY <1>2, <1>6, <1>23 DEF ProgramSectors
  <2>3. \A p \in Pages : p < page => LaidPage(block, p)'
    <3>1. \A p \in Pages : p < page => p # page
      BY <1>2
    <3> QED BY <1>6, <1>8, <2>1, <2>2, <3>1
  <2> QED BY <1>3, <1>4, <1>7, <2>1, <2>3
<1>24. CASE ProgramDone
  <2>1. /\ pc = "prog2" /\ pc' = "page" /\ page' = page + 1
        /\ UNCHANGED <<block, flen, badflag, fpos>>
    BY <1>24 DEF ProgramDone
  <2>2. page \in Pages
    BY <1>2, <2>1 DEF Bounds, Pages, TypeOK
  <2>3. /\ \A p \in Pages : p # page => cell'[block][p] = cell[block][p]
        /\ cell'[block][page] = fpos
    BY <1>2, <1>6, <1>24, <2>1, <2>2 DEF ProgramDone
  <2>4. \A p \in Pages : p = page => LaidPage(block, p)'
    <3> SUFFICES ASSUME NEW p \in Pages, p = page PROVE LaidPage(block, p)'
      OBVIOUS
    <3>1. FilePage(r, p) = fpos /\ ~(opt.s /\ file[fpos] = "ff")
      BY <1>4, <1>5, <2>1
    <3>2. FilePage(block - opt.start, p)' = fpos
      BY <1>0, <2>1, <3>1 DEF FilePage, r
    <3>3. cell'[block'][p] = fpos
      BY <2>1, <2>3
    <3> QED BY <1>0, <2>1, <3>1, <3>2, <3>3 DEF LaidPage, Has
  <2>5. \A p \in Pages : p < page => LaidPage(block, p)'
    <3>1. \A p \in Pages : p < page => p # page
      BY <1>2
    <3> QED BY <1>6, <1>8, <2>1, <2>3, <3>1
  <2>6. \A p \in Pages : p < page' => LaidPage(block, p)'
    BY <1>9, <2>1, <2>4, <2>5
  <2> QED BY <1>3, <1>4, <1>7, <2>1, <2>6
<1>25. CASE RestoreRegs
  <2>1. pc = "endpage" /\ pc' = "done" /\ UNCHANGED <<block, page, flen, cell>>
    BY <1>25 DEF RestoreRegs
  <2>2. InArea' = InArea /\ FilePage(r, page)' = FilePage(r, page)
    BY <1>0, <1>10, <2>1 DEF InArea, FilePage
  <2>3. InArea => \A p \in Pages : p < page => LaidPage(block, p)'
    BY <1>8, <2>1
  <2> QED BY <1>0, <1>3, <1>4, <1>7, <2>1, <2>2, <2>3 DEF r
<1>26. CASE UNCHANGED vars
  <2>1. UNCHANGED <<pc, block, page, fpos, flen, badflag, cell>>
    BY <1>26 DEF vars
  <2>2. InArea' = InArea /\ FilePage(r, page)' = FilePage(r, page) /\ pc \in StableLabels
    BY <1>0, <1>10, <2>1 DEF InArea, FilePage
  <2>3. pc \in HereLabels /\ InArea => \A p \in Pages : p < page => LaidPage(block, p)'
    BY <1>8, <2>1
  <2> QED BY <1>0, <1>3, <1>4, <1>7, <2>1, <2>2, <2>3 DEF r
<1>27. CASE EraseModeBlock \/ SkipBadBlock \/ CheckArgs \/ SetEcc \/ Mismatch \/ Kill
  <2>1. ~SkipBadBlock
    BY <1>1 DEF SkipBadBlock, SkipsBad, KeepsPlace
  <2>2. ~EraseModeBlock
    BY <1>1 DEF EraseModeBlock, KeepsPlace
  <2> QED BY <1>0, <1>27, <2>1, <2>2 DEF CheckArgs, SetEcc, Mismatch, Kill
<1>28. QED
  BY <1>0, <1>11, <1>12, <1>13, <1>14, <1>15, <1>16, <1>17, <1>18, <1>19, <1>20, <1>21,
     <1>22, <1>23, <1>24, <1>25, <1>26, <1>27 DEF Next, Step, Finished

LEMMA NextLaid ==
    /\ TypeOK /\ Bounds /\ PagesClean /\ ArgsChecked /\ InPlace /\ MarksExplained /\ Laid
    /\ [Next]_vars
    => Laid'
<1> SUFFICES ASSUME TypeOK, Bounds, PagesClean, ArgsChecked, InPlace, MarksExplained, Laid,
                    [Next]_vars
             PROVE  Laid'
  OBVIOUS
<1>1. CASE ~KeepsPlace'
  BY <1>1 DEF Laid
<1>2. CASE pc' \notin StableLabels
  BY <1>2 DEF Laid, StableLabels, WorkLabels, HereLabels
<1>3. CASE KeepsPlace' /\ pc' \in StableLabels
  <2>1. opt' = opt /\ file' = file
    BY <1>3, WorkFrame DEF KeepsPlace
  <2>2. Has("ux")' = Has("ux") /\ Pages' = Pages
    BY <2>1 DEF Has
  <2>3. /\ flen' = CappedLen(WantedLen)'
        /\ \A b \in opt.start .. block' - 1 : \A p \in Pages : LaidPage(b, p)'
        /\ pc' \in HereLabels /\ InArea' =>
             \A p \in Pages : p < page' => LaidPage(block, p)'
        /\ pc' \in {"endpage", "done"} /\ InArea' =>
             page' < Ppb /\ FilePage(block - opt.start, page)' > Len(file')
        /\ pc' \in ProgLabels => ~(opt.s /\ file[fpos'] = "ff")
        /\ Has("ux") /\ pc' \in {"page"} \cup ProgLabels \cup EraseLabels => ~badflag'
    BY <1>3, LaidStep
  <2>4. QED
    BY <2>1, <2>2, <2>3 DEF Laid
<1>4. QED
  BY <1>1, <1>2, <1>3

\* A marker that does not change stays right.
LEMMA MarkFrame ==
  ASSUME opt' = opt, file' = file
  PROVE  \A b : (b \in marked' <=> b \in marked) /\ MarkRight(b) => MarkRight(b)'
<1> SUFFICES ASSUME NEW b, b \in marked' <=> b \in marked, MarkRight(b) PROVE MarkRight(b)'
  OBVIOUS
<1>1. FilePage(b - opt.start, 0)' = FilePage(b - opt.start, 0)
  BY DEF FilePage
<1>2. QED
  BY <1>1 DEF MarkRight

LEMMA ClonedStep ==
  ASSUME TypeOK, Bounds, PagesClean, ArgsChecked, InPlace, MarksExplained, Cloned,
         [Next]_vars, Has("ux")', opt'.erase = 0, pc' \in StableLabels
  PROVE  /\ \A b \in opt.start .. block' - 1 : MarkRight(b)'
         /\ pc' \in HereLabels /\ InArea' /\ page' > 0 => MarkRight(block)'
         /\ pc' \in {"page", "erase3"} \cup ProgLabels /\ page' = 0 => block' \notin marked'
<1> DEFINE r == block - opt.start
<1>0. /\ pc \in StableLabels \cup {"open"} /\ ~StartRun /\ ~Hello
      /\ opt' = opt /\ file' = file
  BY WorkFrame
<1>1. Has("ux") /\ opt.erase = 0 /\ KeepsPlace /\ ~Has("uc") /\ ~Has("um")
  <2>1. Has("ux") /\ opt.erase = 0
    BY <1>0 DEF Has
  <2>2. Compatible
    BY <1>0 DEF ArgsChecked, StableLabels, WorkLabels, EraseLabels, MarkLabels, ProgLabels
  <2> QED BY <2>1, <2>2, FlagsExclude DEF KeepsPlace
<1>2. /\ block \in Int /\ page \in Nat /\ fpos \in Int /\ opt.start \in Nat /\ Ppb \in Nat \ {0}
      /\ opt.off \in Nat /\ Len(file) \in Int /\ flen \in Int /\ marked \subseteq Blocks
  BY ConstantTypes DEF TypeOK, Options
<1>3. /\ pc \in StableLabels => \A b \in opt.start .. block - 1 : MarkRight(b)
      /\ pc \in HereLabels /\ InArea /\ page > 0 => MarkRight(block)
      /\ pc \in {"page", "erase3"} \cup ProgLabels /\ page = 0 => block \notin marked
  BY <1>1 DEF Cloned
<1>4. /\ pc = "page" => fpos + 1 = FilePage(r, page)
      /\ pc \in ProgLabels => fpos = FilePage(r, page)
      /\ pc \notin MarkLabels
  BY <1>1 DEF InPlace, MarksExplained
<1>5. pc \in {"page"} \cup ProgLabels => InArea /\ block \in Blocks
  BY BlockInFlash DEF Bounds, BlockLabels, MarkLabels, ProgLabels
<1>6. \A b \in opt.start .. block - 1 : b # block /\ (b \in marked' <=> b \in marked)
  <2> SUFFICES ASSUME NEW b \in opt.start .. block - 1
               PROVE  b # block /\ (b \in marked' <=> b \in marked)
    OBVIOUS
  <2>1. b # block
    BY <1>2
  <2>2. CASE block \in Blocks
    <3>1. b \in Blocks
      BY <1>2, <2>2, ConstantTypes DEF Blocks
    <3> QED BY <2>1, <3>1, OtherBlocks
  <2> QED BY <2>1, <2>2, OtherBlocks
<1>7. ASSUME pc \in StableLabels, block' = block
      PROVE  \A b \in opt.start .. block' - 1 : MarkRight(b)'
  BY <1>0, <1>3, <1>6, <1>7, MarkFrame
<1>8. ASSUME marked' = marked, block' = block, MarkRight(block) PROVE MarkRight(block)'
  <2>1. \A b : b = block => MarkRight(b)'
    BY <1>0, <1>8, MarkFrame
  <2>2. PICK b : b = block
    OBVIOUS
  <2>3. MarkRight(b)' /\ b = block'
    BY <1>8, <2>1, <2>2
  <2> QED BY <2>3 DEF MarkRight
<1>9. block' = block => FilePage(r, 0)' = FilePage(r, 0)
  BY <1>0 DEF FilePage
<1> HIDE DEF r
<1> USE DEF StableLabels, WorkLabels, EraseLabels, MarkLabels, ProgLabels, HereLabels, locals, flash
<1>11. CASE OpenFile
  <2>1. pc' \in {"block", "exit"} /\ (pc' = "block" => block' = opt.start)
    BY <1>11 DEF OpenFile
  <2>2. opt.start .. block' - 1 = {}
    BY <1>2, <2>1
  <2> QED BY <2>1, <2>2
<1>12. CASE EndOfArea
  <2>1. pc = "block" /\ pc' = "endpage" /\ ~InArea /\ UNCHANGED <<block, flen>>
    BY <1>12 DEF EndOfArea
  <2>2. ~InArea'
    BY <1>0, <2>1 DEF InArea
  <2> QED BY <1>7, <2>1, <2>2
<1>13. CASE EnterBlock
  <2>1. pc = "block" /\ pc' = "erase1" /\ block' = block
    BY <1>1, <1>13 DEF EnterBlock, EnterBlockIf
  <2> QED BY <1>7, <2>1
<1>14. CASE EraseSetCfg
  <2>1. pc = "erase1" /\ pc' = "erase2" /\ block' = block
    BY <1>14 DEF EraseSetCfg
  <2> QED BY <1>7, <2>1
<1>15. CASE EraseExec
  <2>1. pc = "erase2" /\ pc' = "erase3" /\ block' = block /\ block \notin marked'
    BY <1>15 DEF EraseExec
  <2> QED BY <1>7, <2>1
<1>16. CASE EraseRestore
  <2>1. /\ pc = "erase3" /\ pc' = "page" /\ page' = page /\ UNCHANGED <<block, marked>>
    BY <1>1, <1>16 DEF EraseRestore
  <2>2. page = 0
    BY <1>1, <2>1 DEF PagesClean
  <2> QED BY <1>2, <1>3, <1>7, <2>1, <2>2
<1>17. CASE EndOfBlock
  <2>1. pc = "page" /\ page = Ppb /\ pc' = "block" /\ block' = block + 1 /\ marked' = marked
    BY <1>17 DEF EndOfBlock
  <2>2. \A b \in opt.start .. block' - 1 : MarkRight(b)
    <3>1. \A b \in opt.start .. block' - 1 : b \in opt.start .. block - 1 \/ b = block
      BY <1>2, <2>1
    <3>2. MarkRight(block)
      BY <1>2, <1>3, <1>5, <2>1
    <3> QED BY <1>3, <2>1, <3>1, <3>2
  <2>3. \A b \in opt.start .. block' - 1 : MarkRight(b)'
    BY <1>0, <2>1, <2>2, MarkFrame
  <2> QED BY <2>1, <2>3
<1>18. CASE EndOfFile
  <2>1. pc = "page" /\ pc' = "endpage" /\ UNCHANGED <<block, page, marked>>
    BY <1>18 DEF EndOfFile, MorePages
  <2> QED BY <1>3, <1>5, <1>7, <1>8, <2>1
<1>19. CASE SkipPage
  <2>1. /\ pc = "page" /\ pc' = "page" /\ page' = page + 1
        /\ UNCHANGED <<block, marked>>
        /\ file[fpos + 1] # "mk"
    BY <1>19 DEF SkipPage, SkipPageIf, MorePages, EmptyPage, BadPage, Kind
  <2>2. MarkRight(block)
    <3>1. CASE page = 0
      BY <1>3, <1>4, <2>1, <3>1 DEF MarkRight, r
    <3>2. CASE page > 0
      BY <1>3, <1>5, <2>1, <3>2
    <3> QED BY <1>2, <3>1, <3>2
  <2> QED BY <1>2, <1>7, <1>8, <2>1, <2>2
<1>20. CASE TakePage
  <2>1. pc = "page" /\ pc' = "prog1" /\ UNCHANGED <<block, page, marked>>
    BY <1>20 DEF TakePage, TakePageIf, MorePages
  <2> QED BY <1>3, <1>5, <1>7, <1>8, <2>1
<1>21. CASE ProgramSectors
  <2>1. pc = "prog1" /\ pc' = "prog2" /\ UNCHANGED <<block, page, marked>>
    BY <1>21 DEF ProgramSectors
  <2> QED BY <1>3, <1>5, <1>7, <1>8, <2>1
<1>22. CASE ProgramDone
  <2>1. /\ pc = "prog2" /\ pc' = "page" /\ page' = page + 1 /\ block' = block
        /\ marked' = IF page = 0 /\ file[fpos] = "mk" THEN marked \cup {block} ELSE marked
    BY <1>1, <1>22 DEF ProgramDone, MarkedAfterPage
  <2>2. MarkRight(block)'
    <3>1. CASE page = 0
      <4>1. fpos = FilePage(r, 0) /\ block \notin marked
        BY <1>3, <1>4, <2>1, <3>1
      <4>2. FilePage(block - opt.start, 0)' = fpos
        BY <1>9, <2>1, <4>1 DEF r
      <4>3. block \in marked' <=> file[fpos] = "mk"
        BY <2>1, <3>1, <4>1
      <4> QED BY <1>0, <2>1, <4>2, <4>3 DEF MarkRight
    <3>2. CASE page > 0
      BY <1>3, <1>5, <1>8, <2>1, <3>2
    <3> QED BY <1>2, <3>1, <3>2
  <2> QED BY <1>2, <1>7, <2>1, <2>2
<1>23. CASE RestoreRegs
  <2>1. pc = "endpage" /\ pc' = "done" /\ UNCHANGED <<block, page, flen, marked>>
    BY <1>23 DEF RestoreRegs
  <2>2. InArea' = InArea
    BY <1>0, <2>1 DEF InArea
  <2> QED BY <1>3, <1>7, <1>8, <2>1, <2>2
<1>24. CASE UNCHANGED vars
  <2>1. UNCHANGED <<pc, block, page, flen, marked>>
    BY <1>24 DEF vars
  <2>2. InArea' = InArea /\ pc \in StableLabels
    BY <1>0, <2>1 DEF InArea
  <2> QED BY <1>3, <1>7, <1>8, <2>1, <2>2
<1>25. CASE \/ EraseModeBlock \/ SkipBadBlock \/ CheckArgs \/ SetEcc \/ Mismatch \/ Kill
            \/ MarkSetCfg \/ MarkWrite \/ MarkRestore \/ SimulateBad
  <2>1. ~SkipBadBlock /\ ~EraseModeBlock
    BY <1>1 DEF SkipBadBlock, EraseModeBlock
  <2>2. ~MarkSetCfg /\ ~MarkWrite /\ ~MarkRestore
    BY <1>4 DEF MarkSetCfg, MarkWrite, MarkRestore
  <2>3. ~SimulateBad
    BY <1>1 DEF SimulateBad, SimulateBadIf
  <2> QED BY <1>25, <2>1, <2>2, <2>3 DEF CheckArgs, SetEcc, Mismatch, Kill
<1>26. QED
  BY <1>0, <1>11, <1>12, <1>13, <1>14, <1>15, <1>16, <1>17, <1>18, <1>19, <1>20, <1>21,
     <1>22, <1>23, <1>24, <1>25 DEF Next, Step, Finished

LEMMA NextCloned ==
    /\ TypeOK /\ Bounds /\ PagesClean /\ ArgsChecked /\ InPlace /\ MarksExplained /\ Cloned
    /\ [Next]_vars
    => Cloned'
<1> SUFFICES ASSUME TypeOK, Bounds, PagesClean, ArgsChecked, InPlace, MarksExplained, Cloned,
                    [Next]_vars, Has("ux")', opt'.erase = 0
             PROVE  Cloned'
  BY DEF Cloned
<1>1. CASE pc' \notin StableLabels
  BY <1>1 DEF Cloned, StableLabels, WorkLabels, EraseLabels, HereLabels
<1>2. CASE pc' \in StableLabels
  <2>1. opt' = opt
    BY <1>2, WorkFrame
  <2>2. /\ \A b \in opt.start .. block' - 1 : MarkRight(b)'
        /\ pc' \in HereLabels /\ InArea' /\ page' > 0 => MarkRight(block)'
        /\ pc' \in {"page", "erase3"} \cup ProgLabels /\ page' = 0 => block' \notin marked'
    BY <1>2, ClonedStep
  <2>3. QED
    BY <2>1, <2>2 DEF Cloned
<1>3. QED
  BY <1>1, <1>2

-----------------------------------------------------------------------------
(* What the file of the reader holds. The instance R of QrFlash runs in raw *)
(* mode: one file, no partition table, no failing link.                     *)

Items == [kind: {"bb", "mk", "data", "ff"}, b: Blocks, p: Pages]

\* The block of the file that block b goes to, whether it goes there at all,
\* and what the file has for its pages.
Place(b) == IF R!Mode = "skip" THEN GoodPlace(b) ELSE b - ropt.start
InFile(b) == R!Mode = "skip" => b \notin source
KindOf(b, p) == IF b \in source /\ R!Mode = "fill" THEN "bb"
                ELSE IF b \in source /\ R!Mode = "disable" /\ p = 0 THEN "mk"
                ELSE content[b][p]
Item(b, p) == [kind |-> KindOf(b, p), b |-> b, p |-> p]
ItemAt(b, p) == Place(b) * Ppb + p + 1

\* The sequence D has the blocks of the range below b.
Dumped(D, b) ==
    /\ Len(D) = Place(b) * Ppb
    /\ \A c \in ropt.start .. b - 1 : InFile(c) =>
         /\ Place(c) < Place(b)
         /\ \A p \in Pages : D[ItemAt(c, p)] = Item(c, p)

\* The command lines go together, and the first flash is what it was.
SourceTypes ==
    /\ ropt \in ReadOptions /\ <<ropt, opt>> \in Pairs
    /\ content \in [Blocks -> [Pages -> {"data", "ff"}]]
    /\ source \subseteq Blocks /\ rpart = 0
    /\ rout \in [{0} -> Seq(Items)]

\* What the file is to hold depends on the first flash and its command line.
LEMMA SourceFrame ==
  ASSUME rpart = 0, UNCHANGED <<ropt, content, rpart, source>>
  PROVE  /\ R!Mode' = R!Mode /\ R!End' = R!End
         /\ \A D, b : Dumped(D, b) => Dumped(D, b)'
         /\ \A b, p : Item(b, p)' = Item(b, p)
         /\ \A b : InFile(b)' <=> InFile(b)
<1>1. R!Mode' = R!Mode
  BY DEF R!Mode, R!PartFlag
<1>2. R!End' = R!End
  BY DEF R!End
<1>3. \A b : InFile(b)' <=> InFile(b)
  BY <1>1 DEF InFile
<1>4. \A b, p : Item(b, p)' = Item(b, p)
  BY <1>1 DEF Item, KindOf
<1>5. \A b : Place(b)' = Place(b)
  BY <1>1 DEF Place, GoodPlace
<1>6. \A b, p : ItemAt(b, p)' = ItemAt(b, p)
  BY <1>5 DEF ItemAt
<1>7. \A D, b : Dumped(D, b) => Dumped(D, b)'
  BY <1>3, <1>4, <1>5, <1>6 DEF Dumped
<1>8. QED
  BY <1>1, <1>2, <1>3, <1>4, <1>7

LEMMA SourceFacts ==
  ASSUME SourceTypes
  PROVE  /\ ropt.start \in Nat /\ R!End \in Nat /\ ropt.start <= R!End /\ R!End <= MaxBlock
         /\ ropt.map = "none" /\ R!Mode \in {"fill", "skip", "ignore", "disable"}
         /\ opt.start = ropt.start /\ opt.off = 0 /\ opt.len = 0 /\ opt.erase = 0
         /\ opt.stop = ToEnd \/ opt.stop >= R!End
         /\ Dump \in Seq(Items) /\ Ppb \in Nat \ {0} /\ MaxBlock \in Nat \ {0}
         /\ ropt.start .. R!End - 1 \subseteq Blocks
<1>1. MaxBlock \in Nat \ {0} /\ Ppb \in Nat \ {0}
  BY ConstantTypes
<1>2. ropt \in R!Options /\ ropt.map = "none" /\ ropt.start + ropt.len <= MaxBlock
  BY CopyAssumption DEF SourceTypes
<1>3. ropt.start \in Nat /\ ropt.len \in Nat
  BY <1>2 DEF R!Options
<1>4. R!Mode \in {"fill", "skip", "ignore", "disable"}
  BY <1>2 DEF R!Mode, R!PartFlag, R!Options
<1>5. R!End = IF ropt.len = 0 THEN MaxBlock ELSE ropt.start + ropt.len
  BY DEF R!End, SourceTypes
<1>6. R!End \in Nat /\ ropt.start <= R!End /\ R!End <= MaxBlock
  BY <1>1, <1>2, <1>3, <1>5
<1>7. /\ opt.start = ropt.start /\ opt.off = 0 /\ opt.len = 0 /\ opt.erase = 0
      /\ opt.stop = ToEnd \/ opt.stop >= R!End
  <2> DEFINE rw == <<ropt, opt>>
  <2>1. rw \in Pairs /\ rw[1] = ropt /\ rw[2] = opt
    BY DEF SourceTypes
  <2> HIDE DEF rw
  <2>2. /\ rw[2].start = rw[1].start
        /\ rw[2].off = 0 /\ rw[2].len = 0 /\ rw[2].erase = 0
        /\ \/ rw[2].stop = ToEnd
           \/ rw[2].stop >= IF rw[1].len = 0 THEN MaxBlock ELSE rw[1].start + rw[1].len
    BY <2>1, CopyAssumption
  <2> QED BY <1>5, <2>1, <2>2
<1>8. Dump \in Seq(Items)
  BY DEF SourceTypes, Dump
<1>9. ropt.start .. R!End - 1 \subseteq Blocks
  BY <1>1, <1>3, <1>6 DEF Blocks
<1>10. QED
  BY <1>1, <1>2, <1>3, <1>4, <1>6, <1>7, <1>8, <1>9

LEMMA GoodPlaceCounts ==
  ASSUME ropt.start \in Nat, NEW b \in Nat, ropt.start <= b
  PROVE  /\ GoodPlace(b) \in Nat /\ GoodPlace(b) <= b - ropt.start
         /\ GoodPlace(ropt.start) = 0
         /\ GoodPlace(b + 1) = IF b \in source THEN GoodPlace(b) ELSE GoodPlace(b) + 1
<1> DEFINE G(c) == {g \in ropt.start .. c - 1 : g \notin source}
<1>1. \A c \in Nat : GoodPlace(c) = Cardinality(G(c))
  BY DEF GoodPlace
<1>2. IsFiniteSet(ropt.start .. b - 1) /\ Cardinality(ropt.start .. b - 1) = b - ropt.start
  <2>1. /\ IsFiniteSet(ropt.start .. b - 1)
        /\ Cardinality(ropt.start .. b - 1) =
             IF ropt.start > b - 1 THEN 0 ELSE (b - 1) - ropt.start + 1
    <3>1. \A x, y \in Int : /\ IsFiniteSet(x .. y)
                            /\ Cardinality(x .. y) = IF x > y THEN 0 ELSE y - x + 1
      BY FS_Interval
    <3>2. ropt.start \in Int /\ b - 1 \in Int
      OBVIOUS
    <3> QED BY <3>1, <3>2
  <2>2. b - ropt.start = IF ropt.start > b - 1 THEN 0 ELSE (b - 1) - ropt.start + 1
    OBVIOUS
  <2> QED BY <2>1, <2>2
<1>3. G(b) \in SUBSET (ropt.start .. b - 1)
  OBVIOUS
<1>4. IsFiniteSet(G(b)) /\ Cardinality(G(b)) <= Cardinality(ropt.start .. b - 1)
  <2> HIDE DEF G
  <2> QED BY <1>2, <1>3, FS_Subset
<1>5. Cardinality(G(b)) \in Nat
  <2> HIDE DEF G
  <2> QED BY <1>4, FS_CardinalityType
<1>6. G(ropt.start) = {}
  OBVIOUS
<1>7. GoodPlace(ropt.start) = 0
  <2> HIDE DEF G
  <2> QED BY <1>1, <1>6, FS_EmptySet
<1>8. CASE b \in source
  <2>1. G(b + 1) = G(b)
    BY <1>8
  <2> HIDE DEF G
  <2>2. GoodPlace(b + 1) = GoodPlace(b)
    BY <1>1, <2>1
  <2> QED BY <1>1, <1>2, <1>4, <1>5, <1>7, <1>8, <2>2
<1>9. CASE b \notin source
  <2>1. G(b + 1) = G(b) \cup {b} /\ b \notin G(b)
    BY <1>9
  <2> HIDE DEF G
  <2>2. Cardinality(G(b + 1)) = Cardinality(G(b)) + 1
    BY <1>4, <2>1, FS_AddElement
  <2>3. GoodPlace(b + 1) = GoodPlace(b) + 1
    BY <1>1, <2>2
  <2> QED BY <1>1, <1>2, <1>4, <1>5, <1>7, <1>9, <2>3
<1>10. QED
  BY <1>8, <1>9

LEMMA PlaceCounts ==
  ASSUME ropt.start \in Nat, NEW b \in Nat, ropt.start <= b
  PROVE  /\ Place(b) \in Nat /\ Place(b) <= b - ropt.start
         /\ Place(ropt.start) = 0
         /\ Place(b + 1) = IF InFile(b) THEN Place(b) + 1 ELSE Place(b)
<1>1. CASE R!Mode = "skip"
  BY <1>1, GoodPlaceCounts DEF Place, InFile
<1>2. CASE R!Mode # "skip"
  BY <1>2 DEF Place, InFile
<1>3. QED
  BY <1>1, <1>2

\* The pages of an earlier block of the file come before those of a later one.
LEMMA PageBelow ==
  ASSUME NEW x \in Nat, NEW y \in Nat, x < y, NEW p \in Pages, Ppb \in Nat \ {0}
  PROVE  x * Ppb + p + 1 \in 1 .. y * Ppb
<1>1. (x + 1) * Ppb <= y * Ppb
  <2>1. \A z \in Int : x + 1 <= z => (x + 1) * Ppb <= z * Ppb
    OBVIOUS
  <2> QED BY <2>1
<1>2. (x + 1) * Ppb = x * Ppb + Ppb /\ x * Ppb \in Nat /\ y * Ppb \in Nat
  OBVIOUS
<1>3. p \in Nat /\ p < Ppb
  BY DEF Pages
<1>4. \A u, v \in Nat : u + Ppb <= v => u + p + 1 \in 1 .. v
  BY <1>3
<1>5. QED
  BY <1>1, <1>2, <1>4

\* One more block: its pages follow, or it is left out.
LEMMA DumpedGrows ==
  ASSUME ropt.start \in Nat, Ppb \in Nat \ {0}, NEW b \in Nat, ropt.start <= b,
         NEW D \in Seq(Items), NEW s \in Seq(Items), Dumped(D, b),
         InFile(b), Len(s) = Ppb, \A p \in Pages : s[p + 1] = Item(b, p)
  PROVE  Dumped(D \o s, b + 1)
<1> DEFINE E == D \o s
<1>1. /\ Place(b) \in Nat /\ Place(b + 1) = Place(b) + 1 /\ Len(D) = Place(b) * Ppb
      /\ Place(b) * Ppb \in Nat
  <2>1. Place(b) \in Nat /\ Place(b + 1) = Place(b) + 1
    BY PlaceCounts
  <2> QED BY <2>1 DEF Dumped
<1>2. /\ Len(E) = Len(D) + Ppb
      /\ \A n \in 1 .. Len(D) : E[n] = D[n]
      /\ \A n \in 1 .. Ppb : E[Len(D) + n] = s[n]
  OBVIOUS
<1>3. Len(E) = Place(b + 1) * Ppb
  <2>1. \A x \in Nat : (x + 1) * Ppb = x * Ppb + Ppb
    OBVIOUS
  <2> HIDE DEF E
  <2> QED BY <1>1, <1>2, <2>1
<1> HIDE DEF E
<1>4. ASSUME NEW c \in ropt.start .. (b + 1) - 1, InFile(c)
      PROVE  Place(c) < Place(b + 1) /\ \A p \in Pages : E[ItemAt(c, p)] = Item(c, p)
  <2>1. CASE c = b
    <3>1. \A p \in Pages : p + 1 \in 1 .. Ppb /\ ItemAt(c, p) = Len(D) + (p + 1)
      BY <1>1, <2>1 DEF Pages, ItemAt
    <3> QED BY <1>1, <1>2, <2>1, <3>1
  <2>2. CASE c # b
    <3>1. c \in ropt.start .. b - 1 /\ c \in Nat /\ ropt.start <= c
      BY <2>2
    <3>2. Place(c) < Place(b) /\ \A p \in Pages : D[ItemAt(c, p)] = Item(c, p)
      BY <1>4, <3>1 DEF Dumped
    <3>3. Place(c) \in Nat
      BY <3>1, PlaceCounts
    <3>4. \A p \in Pages : ItemAt(c, p) \in 1 .. Len(D)
      BY <1>1, <3>2, <3>3, PageBelow DEF ItemAt
    <3> QED BY <1>1, <1>2, <3>2, <3>3, <3>4
  <2> QED BY <2>1, <2>2
<1>5. QED
  BY <1>3, <1>4 DEF Dumped, E

LEMMA DumpedSkips ==
  ASSUME ropt.start \in Nat, Ppb \in Nat \ {0}, NEW b \in Nat, ropt.start <= b,
         NEW D \in Seq(Items), Dumped(D, b), ~InFile(b)
  PROVE  Dumped(D, b + 1)
<1>1. Place(b + 1) = Place(b)
  BY PlaceCounts
<1>2. \A c \in ropt.start .. (b + 1) - 1 : InFile(c) => c \in ropt.start .. b - 1
  <2>1. \A c \in ropt.start .. (b + 1) - 1 : c \in ropt.start .. b - 1 \/ c = b
    OBVIOUS
  <2> QED BY <2>1
<1>3. QED
  BY <1>1, <1>2 DEF Dumped

-----------------------------------------------------------------------------
(* The reader at work, the writer waiting.                                  *)

WriterWaits ==
    /\ run = 1 /\ pc = "args" /\ opt \in OptionSets /\ file \in Seq(PageKinds)
    /\ block = 0 /\ page = 0 /\ fpos = 0 /\ flen = 0 /\ badflag = FALSE /\ warned = 0
    /\ oldregs = ResetRegs /\ saved = ResetRegs
    /\ cell \in [Blocks -> [Pages -> Cells]]

ReaderBefore == {"args", "hello", "ecc", "raw"}
ReaderTypes ==
    /\ rpc \in ReaderBefore \cup {"block", "page", "done", "exit"}
    /\ regs \in Regs /\ roldcfg0 \in Regs /\ marked = source
    /\ rblock \in Nat /\ rpage \in 0 .. Ppb /\ rbuf \in Seq(Items)

\* The marker control is off for the length of a block, if -ux was given; the
\* file has the blocks behind, and blockbuf the pages behind of a block that
\* goes into the file as it is.
ReaderAt ==
    /\ regs.bad <=> ~(rpc = "page" /\ R!Mode = "disable")
    /\ rpc \in ReaderBefore => Dump = <<>>
    /\ rpc \in {"block", "page", "done"} =>
         ropt.start <= rblock /\ rblock <= R!End /\ Dumped(Dump, rblock)
    /\ rpc = "page" =>
         /\ rblock < R!End /\ InFile(rblock) /\ (R!Mode = "fill" => rblock \notin source)
         /\ Len(rbuf) = rpage
         /\ \A p \in Pages : p < rpage => rbuf[p + 1] = Item(rblock, p)
    /\ rpc = "done" => rblock = R!End

\* CW_PER_PAGE is what the chip needs, or what an erase leaves.
ReaderCw == CwKnown(regs.cw) /\ CwKnown(roldcfg0.cw)

Reading == SourceTypes /\ WriterWaits /\ ReaderTypes /\ ReaderAt /\ ReaderCw

LEMMA InitReading == InitCopy => Reading
<1> SUFFICES ASSUME InitCopy PROVE Reading
  OBVIOUS
<1> USE DEF InitCopy, R!InitRun
<1>1. Ppb \in Nat \ {0} /\ MaxBlock \in Nat \ {0}
  BY ConstantTypes
<1>2. R!OutFiles = {0}
  BY DEF R!OutFiles
<1>3. rout \in [{0} -> Seq(Items)] /\ Dump = <<>>
  BY <1>2 DEF R!NoFiles, Dump
<1>4. SourceTypes
  <2>1. source \subseteq Blocks
    BY DEF Blocks, R!Blocks
  <2> QED BY <1>3, <2>1, CopyAssumption DEF SourceTypes
<1>5. WriterWaits
  <2>1. cell \in [Blocks -> [Pages -> Cells]]
    BY DEF Cells
  <2>2. opt \in OptionSets /\ file \in Seq(PageKinds)
    BY ConstantTypes
  <2> QED BY <2>1, <2>2 DEF WriterWaits
<1>6. /\ regs \in Regs /\ regs.bad /\ roldcfg0 = ResetRegs /\ ResetRegs \in Regs
      /\ CwKnown(regs.cw) /\ CwKnown(roldcfg0.cw)
  BY CopyAssumption, CwValues DEF ResetRegs, R!ResetRegs, Regs, CwKnown
<1>7. ReaderTypes
  BY <1>1, <1>6 DEF ReaderTypes, ReaderBefore
<1>8. ReaderAt
  <2>1. regs.bad
    BY <1>6
  <2> QED BY <1>3, <2>1 DEF ReaderAt, ReaderBefore
<1>9. QED
  BY <1>4, <1>5, <1>6, <1>7, <1>8 DEF Reading, ReaderCw

\* What a sector read delivers is what the file is to have.
LEMMA ReadKindIs ==
  ASSUME SourceTypes, ReaderTypes, ReaderAt, rpc = "page", NEW p \in Pages
  PROVE  R!ReadKind(rblock, p) = KindOf(rblock, p)
<1>1. R!Mode \in {"fill", "skip", "ignore", "disable"}
  BY SourceFacts
<1>2. marked = source /\ (regs.bad <=> R!Mode # "disable")
  BY DEF ReaderTypes, ReaderAt
<1>3. /\ R!Mode = "fill" => rblock \notin source
      /\ R!Mode = "skip" => rblock \notin source
  BY DEF ReaderAt, InFile
<1>4. QED
  BY <1>1, <1>2, <1>3 DEF R!ReadKind, KindOf

\* The steps of the program before the block loop and after it.
LEMMA OtherReadSteps ==
  ASSUME Reading, phase = "read", Read
  PROVE  \/ R!CheckArgs \/ R!Hello \/ R!SetEcc \/ R!OpenRaw
         \/ R!Defect \/ R!BeginBlock \/ R!ReadPage \/ R!EndBlock \/ R!CloseFile
<1>1. rpc \notin {"table", "part", "trim", "restore"}
  BY DEF Reading, ReaderTypes, ReaderBefore
<1>2. QED
  BY <1>1 DEF Read, R!Step, R!NoTable, R!LoadTable, R!NextPart, R!TrimFile, R!RestoreEcc

LEMMA ReadKeepsCw == ASSUME Reading, Read PROVE ReaderCw'
<1>1. /\ regs \in Regs /\ roldcfg0 \in Regs /\ CwKnown(regs.cw) /\ CwKnown(roldcfg0.cw)
      /\ CwKnown(Spp - 1)
  BY CwValues DEF Reading, ReaderTypes, ReaderCw
<1>2. CASE R!CheckArgs \/ R!OpenRaw \/ R!Defect \/ R!ReadPage \/ R!CloseFile
  BY <1>1, <1>2 DEF R!CheckArgs, R!OpenRaw, R!Defect, R!DefectIf, R!ReadPage, R!CloseFile, ReaderCw
<1>3. CASE R!Hello
  <2>1. regs'.cw \in {regs.cw, Spp - 1} /\ roldcfg0' = roldcfg0
    BY <1>1, <1>3 DEF R!Hello, Regs
  <2> QED BY <1>1, <2>1 DEF ReaderCw
<1>4. CASE R!SetEcc
  BY <1>1, <1>4 DEF R!SetEcc, Regs, ReaderCw
<1>5. CASE R!BeginBlock
  <2>1. regs'.cw = regs.cw /\ roldcfg0' = regs'
    BY <1>1, <1>5 DEF R!BeginBlock, R!BeginBlockIf, Regs
  <2> QED BY <1>1, <2>1 DEF ReaderCw
<1>6. CASE R!EndBlock
  <2>1. regs'.cw = roldcfg0.cw /\ roldcfg0' = roldcfg0
    BY <1>1, <1>6 DEF R!EndBlock, R!RegsAfterBlock, Regs
  <2> QED BY <1>1, <2>1 DEF ReaderCw
<1>7. QED
  <2>1. phase = "read"
    BY DEF Read
  <2> QED BY <1>2, <1>3, <1>4, <1>5, <1>6, <2>1, OtherReadSteps

LEMMA ReadStep ==
  ASSUME Reading, Read
  PROVE  SourceTypes' /\ WriterWaits' /\ ReaderTypes' /\ ReaderAt'
<1>0. /\ SourceTypes /\ ReaderTypes /\ ReaderAt /\ phase = "read"
      /\ UNCHANGED <<run, pc, locals, cell, base, phase, source>>
  BY DEF Reading, Read
<1>1. /\ ropt.start \in Nat /\ R!End \in Nat /\ ropt.start <= R!End
      /\ ropt.map = "none" /\ R!Mode \in {"fill", "skip", "ignore", "disable"}
      /\ Dump \in Seq(Items) /\ Ppb \in Nat \ {0} /\ rpart = 0
      /\ ropt.start .. R!End - 1 \subseteq Blocks
  BY <1>0, SourceFacts DEF SourceTypes
<1>2. WriterWaits'
  BY <1>0 DEF Reading, WriterWaits, locals
<1>3. /\ regs \in Regs /\ roldcfg0 \in Regs /\ marked = source
      /\ rblock \in Nat /\ rpage \in 0 .. Ppb /\ rbuf \in Seq(Items)
      /\ rpc \in ReaderBefore \cup {"block", "page", "done", "exit"}
      /\ rout \in [{0} -> Seq(Items)]
  BY <1>0 DEF ReaderTypes, SourceTypes
<1>4. ASSUME UNCHANGED <<ropt, content, rpart>>, rout' \in [{0} -> Seq(Items)]
      PROVE  /\ SourceTypes'
             /\ R!Mode' = R!Mode /\ R!End' = R!End
             /\ \A D, b : Dumped(D, b) => Dumped(D, b)'
             /\ \A b, p : Item(b, p)' = Item(b, p)
             /\ \A b : InFile(b)' <=> InFile(b)
  <2>1. SourceTypes'
    BY <1>0, <1>4 DEF SourceTypes, locals
  <2> QED BY <1>0, <1>1, <1>4, <2>1, SourceFrame
<1>5. \A b : R!CheckBlock(b) = IF regs.bad THEN {b \in source} ELSE BOOLEAN
  BY <1>3 DEF R!CheckBlock
<1> USE DEF R!flash
<1>6. CASE R!CheckArgs \/ R!Hello \/ R!SetEcc
  <2>1. /\ rpc \in ReaderBefore /\ rpc' \in ReaderBefore \cup {"exit"}
        /\ UNCHANGED <<ropt, rpart, rblock, rpage, rbuf, rout, roldcfg0, content, marked>>
        /\ regs' \in Regs /\ regs'.bad = regs.bad
    <3>1. CASE R!CheckArgs \/ R!SetEcc
      BY <1>1, <1>3, <3>1 DEF R!CheckArgs, R!SetEcc, R!PartFlag, Regs, ReaderBefore
    <3>2. CASE R!Hello
      <4>1. Spp - 1 \in 0 .. 15
        BY ConstantsAssumption
      <4>2. regs' \in Regs /\ regs'.bad = regs.bad
        BY <1>3, <3>2, <4>1 DEF R!Hello, Regs
      <4> QED BY <3>2, <4>2 DEF R!Hello, ReaderBefore
    <3> QED BY <1>6, <3>1, <3>2
  <2>2. Dump' = Dump
    BY <2>1 DEF Dump
  <2>3. ReaderTypes'
    BY <1>0, <1>3, <2>1 DEF ReaderTypes
  <2>4. ReaderAt'
    BY <1>0, <2>1, <2>2 DEF ReaderAt, ReaderBefore
  <2> QED BY <1>2, <1>3, <1>4, <2>1, <2>3, <2>4
<1>7. CASE R!OpenRaw
  <2>1. /\ rpc = "raw" /\ rpc' \in {"block", "exit"} /\ rblock' = ropt.start
        /\ UNCHANGED <<ropt, rpart, rpage, rbuf, rout, roldcfg0, content, marked, regs>>
    BY <1>7 DEF R!OpenRaw
  <2>2. Dump' = <<>> /\ Dump = <<>> /\ regs.bad
    BY <1>0, <2>1 DEF Dump, ReaderAt, ReaderBefore
  <2>3. Dumped(<<>>, ropt.start)
    <3>1. Place(ropt.start) * Ppb = 0
      BY <1>1, PlaceCounts
    <3> QED BY <1>1, <3>1 DEF Dumped
  <2>4. ReaderTypes'
    BY <1>0, <1>1, <1>3, <2>1 DEF ReaderTypes
  <2>5. ReaderAt'
    <3>1. /\ SourceTypes' /\ R!End' = R!End /\ Dumped(<<>>, ropt.start)'
      BY <1>3, <1>4, <2>1, <2>3
    <3>2. rblock' = ropt'.start /\ Dumped(<<>>, rblock)'
      BY <2>1, <3>1 DEF Dumped
    <3> QED BY <1>1, <2>1, <2>2, <3>1, <3>2 DEF ReaderAt, ReaderBefore
  <2> QED BY <1>2, <1>3, <1>4, <2>1, <2>4, <2>5

<1>8. CASE R!Defect
  <2>1. /\ rpc = "block" /\ rpc' = "block" /\ rblock' = rblock + 1 /\ rblock < R!End
        /\ UNCHANGED <<ropt, rpart, rpage, rbuf, roldcfg0, content, marked, regs>>
        /\ R!Mode \in {"fill", "skip"} /\ TRUE \in R!CheckBlock(rblock)
        /\ rout' = IF R!Mode # "skip" THEN [rout EXCEPT ![rpart] = @ \o R!Filler(rblock)]
                                      ELSE rout
    BY <1>8 DEF R!Defect, R!DefectIf
  <2>2. regs.bad /\ ropt.start <= rblock /\ Dumped(Dump, rblock)
    BY <1>0, <2>1 DEF ReaderAt
  <2>3. rblock \in source /\ rblock \in Blocks
    <3>1. rblock \in ropt.start .. R!End - 1
      BY <1>1, <1>3, <2>1, <2>2
    <3> QED BY <1>1, <1>5, <2>1, <2>2, <3>1
  <2>4. ASSUME R!Mode = "skip"
        PROVE  rout' \in [{0} -> Seq(Items)] /\ Dumped(Dump', rblock + 1)
    <3>1. Dump' = Dump /\ ~InFile(rblock) /\ rout' = rout
      BY <2>1, <2>3, <2>4 DEF Dump, InFile
    <3>2. Dumped(Dump, rblock + 1)
      BY <1>1, <1>3, <2>2, <3>1, DumpedSkips
    <3> QED BY <1>3, <3>1, <3>2
  <2>5. ASSUME R!Mode = "fill"
        PROVE  rout' \in [{0} -> Seq(Items)] /\ Dumped(Dump', rblock + 1)
    <3> DEFINE s == R!Filler(rblock)
    <3>1. s \in Seq(Items) /\ Len(s) = Ppb /\ \A p \in Pages : s[p + 1] = Item(rblock, p)
      <4>1. s = [n \in 1 .. Ppb |-> [kind |-> "bb", b |-> rblock, p |-> n - 1]]
        BY DEF R!Filler
      <4>2. \A n \in 1 .. Ppb : n - 1 \in Pages /\ [kind |-> "bb", b |-> rblock, p |-> n - 1] \in Items
        BY <1>1, <2>3 DEF Pages, Items
      <4>3. \A p \in Pages : p + 1 \in 1 .. Ppb /\ (p + 1) - 1 = p
        BY <1>1 DEF Pages
      <4>4. s \in Seq(Items) /\ Len(s) = Ppb
        BY <1>1, <4>1, <4>2
      <4>5. \A p \in Pages : s[p + 1] = [kind |-> "bb", b |-> rblock, p |-> p]
        BY <4>1, <4>3
      <4>6. \A p \in Pages : Item(rblock, p) = [kind |-> "bb", b |-> rblock, p |-> p]
        BY <2>3, <2>5 DEF Item, KindOf
      <4> QED BY <4>4, <4>5, <4>6
    <3> HIDE DEF s
    <3>2. Dump' = Dump \o s /\ rout' \in [{0} -> Seq(Items)]
      <4>1. rout' = [rout EXCEPT ![0] = @ \o s]
        BY <1>1, <2>1, <2>5 DEF s
      <4>2. rout[0] \o s \in Seq(Items)
        BY <1>3, <3>1
      <4> QED BY <1>3, <4>1, <4>2 DEF Dump
    <3>3. InFile(rblock)
      BY <2>5 DEF InFile
    <3>4. Dumped(Dump \o s, rblock + 1)
      BY <1>1, <1>3, <2>2, <3>1, <3>3, DumpedGrows
    <3> QED BY <3>2, <3>4
  <2>6. rout' \in [{0} -> Seq(Items)] /\ Dumped(Dump', rblock + 1)
    BY <2>1, <2>4, <2>5
  <2>7. ReaderTypes'
    BY <1>0, <1>3, <2>1 DEF ReaderTypes
  <2>8. /\ SourceTypes' /\ R!End' = R!End /\ R!Mode' = R!Mode
        /\ \A D, b : Dumped(D, b) => Dumped(D, b)'
    BY <1>4, <2>1, <2>6
  <2>9. Dumped(Dump, rblock)'
    <3>1. \A D, b : D = Dump' /\ b = rblock' => Dumped(D, b)'
      BY <2>1, <2>6, <2>8
    <3> QED BY <3>1
  <2>10. ropt'.start <= rblock' /\ rblock' <= R!End'
    BY <1>1, <1>3, <2>1, <2>2, <2>8
  <2>11. ReaderAt'
    BY <2>1, <2>2, <2>9, <2>10 DEF ReaderAt, ReaderBefore
  <2> QED BY <1>2, <2>7, <2>8, <2>11
<1>9. CASE R!BeginBlock
  <2>1. /\ rpc = "block" /\ rpc' = "page" /\ rpage' = 0 /\ rbuf' = <<>> /\ rblock < R!End
        /\ UNCHANGED <<ropt, rpart, rblock, rout, content, marked>>
        /\ regs' = [regs EXCEPT !.bad = @ /\ R!Mode # "disable"] /\ roldcfg0' = regs'
        /\ R!Mode \in {"fill", "skip"} => FALSE \in R!CheckBlock(rblock)
    BY <1>9 DEF R!BeginBlock, R!BeginBlockIf
  <2>2. /\ regs.bad /\ ropt.start <= rblock /\ Dumped(Dump, rblock)
        /\ rblock <= R!End
    BY <1>0, <2>1 DEF ReaderAt
  <2>3. R!Mode \in {"fill", "skip"} => rblock \notin source
    BY <1>5, <2>1, <2>2
  <2>4. regs' \in Regs /\ (regs'.bad <=> R!Mode # "disable")
    BY <1>3, <2>1, <2>2 DEF Regs
  <2>5. ReaderTypes'
    BY <1>0, <1>1, <1>3, <2>1, <2>4 DEF ReaderTypes
  <2>6. /\ SourceTypes' /\ R!End' = R!End /\ R!Mode' = R!Mode
        /\ \A D, b : Dumped(D, b) => Dumped(D, b)'
        /\ \A b : InFile(b)' <=> InFile(b)
    BY <1>3, <1>4, <2>1
  <2>7. Dumped(Dump, rblock)'
    <3>1. \A D, b : D = Dump' /\ b = rblock' => Dumped(D, b)'
      BY <2>1, <2>2, <2>6 DEF Dump
    <3> QED BY <3>1
  <2>8. InFile(rblock)'
    BY <2>1, <2>3, <2>6, <1>0 DEF InFile
  <2>9. \A p \in Pages : ~(p < 0)
    BY DEF Pages
  <2>10. ReaderAt'
    BY <1>0, <1>1, <2>1, <2>2, <2>3, <2>4, <2>6, <2>7, <2>8, <2>9 DEF ReaderAt, ReaderBefore
  <2> QED BY <1>2, <2>5, <2>6, <2>10
<1>10. CASE R!ReadPage
  <2> DEFINE i == [kind |-> R!ReadKind(rblock, rpage), b |-> rblock, p |-> rpage]
  <2>1. /\ rpc = "page" /\ rpc' = "page" /\ rpage < Ppb /\ rpage' = rpage + 1
        /\ rbuf' = Append(rbuf, i)
        /\ UNCHANGED <<ropt, rpart, rblock, rout, content, marked, regs, roldcfg0>>
    BY <1>10 DEF R!ReadPage
  <2>2. /\ rblock < R!End /\ InFile(rblock) /\ (R!Mode = "fill" => rblock \notin source)
        /\ Len(rbuf) = rpage /\ ropt.start <= rblock /\ rblock <= R!End /\ Dumped(Dump, rblock)
        /\ \A p \in Pages : p < rpage => rbuf[p + 1] = Item(rblock, p)
        /\ (regs.bad <=> R!Mode # "disable")
    BY <1>0, <2>1 DEF ReaderAt
  <2>3. rpage \in Pages /\ rblock \in Blocks
    <3>1. rblock \in ropt.start .. R!End - 1
      BY <1>1, <1>3, <2>2
    <3> QED BY <1>1, <1>3, <2>1, <3>1 DEF Pages
  <2>4. i = Item(rblock, rpage) /\ i \in Items
    <3>1. R!ReadKind(rblock, rpage) = KindOf(rblock, rpage)
      BY <1>0, <2>1, <2>3, ReadKindIs
    <3>2. content[rblock][rpage] \in {"data", "ff"}
      BY <1>0, <2>3 DEF SourceTypes
    <3>3. KindOf(rblock, rpage) \in {"bb", "mk", "data", "ff"}
      BY <3>2 DEF KindOf
    <3> QED BY <2>3, <3>1, <3>3 DEF Item, Items
  <2> HIDE DEF i
  <2>5. /\ rbuf' \in Seq(Items) /\ Len(rbuf') = rpage'
        /\ \A n \in 1 .. rpage : rbuf'[n] = rbuf[n]
        /\ rbuf'[rpage + 1] = i
    BY <1>3, <2>1, <2>2, <2>4
  <2>6. \A p \in Pages : p < rpage' => rbuf'[p + 1] = Item(rblock, p)
    <3>1. \A p \in Pages : p < rpage' => p = rpage \/ (p < rpage /\ p + 1 \in 1 .. rpage)
      BY <1>3, <2>1 DEF Pages
    <3> QED BY <2>2, <2>4, <2>5, <3>1
  <2>7. ReaderTypes'
    <3>1. rpage' \in 0 .. Ppb
      BY <1>1, <1>3, <2>1
    <3> QED BY <1>0, <1>3, <2>1, <2>5, <3>1 DEF ReaderTypes
  <2>8. /\ SourceTypes' /\ R!End' = R!End /\ R!Mode' = R!Mode
        /\ \A D, b : Dumped(D, b) => Dumped(D, b)'
        /\ \A b : InFile(b)' <=> InFile(b)
        /\ \A b, p : Item(b, p)' = Item(b, p)
    BY <1>3, <1>4, <2>1
  <2>9. Dumped(Dump, rblock)'
    <3>1. \A D, b : D = Dump' /\ b = rblock' => Dumped(D, b)'
      BY <2>1, <2>2, <2>8 DEF Dump
    <3> QED BY <3>1
  <2>10. InFile(rblock)'
    BY <2>1, <2>2, <2>8, <1>0 DEF InFile
  <2>11. \A p \in Pages : p < rpage' => rbuf'[p + 1] = Item(rblock, p)'
    <3>1. \A p \in Pages : Item(rblock, p)' = Item(rblock, p)
      BY <1>0, <2>1, <2>8 DEF Item, KindOf
    <3> QED BY <2>6, <3>1
  <2>12. ReaderAt'
    BY <1>0, <2>1, <2>2, <2>5, <2>8, <2>9, <2>10, <2>11 DEF ReaderAt, ReaderBefore
  <2> QED BY <1>2, <2>7, <2>8, <2>12
<1>11. CASE R!EndBlock
  <2>1. /\ rpc = "page" /\ rpc' = "block" /\ rpage = Ppb /\ rblock' = rblock + 1
        /\ UNCHANGED <<ropt, rpart, rpage, rbuf, content, marked, roldcfg0>>
        /\ rout' = [rout EXCEPT ![0] = @ \o rbuf]
        /\ regs' = [regs EXCEPT !.bad = (@ \/ R!Mode = "disable"),
                                !.cw = roldcfg0.cw, !.ud = roldcfg0.ud]
    BY <1>1, <1>11 DEF R!EndBlock, R!RegsAfterBlock
  <2>2. /\ rblock < R!End /\ InFile(rblock)
        /\ Len(rbuf) = rpage /\ ropt.start <= rblock /\ Dumped(Dump, rblock)
        /\ \A p \in Pages : p < rpage => rbuf[p + 1] = Item(rblock, p)
        /\ (regs.bad <=> R!Mode # "disable")
    BY <1>0, <2>1 DEF ReaderAt
  <2>3. regs' \in Regs /\ regs'.bad
    BY <1>3, <2>1, <2>2 DEF Regs
  <2>4. Dump' = Dump \o rbuf /\ rout' \in [{0} -> Seq(Items)]
    <3>1. rout[0] \o rbuf \in Seq(Items)
      BY <1>3
    <3> QED BY <1>3, <2>1, <3>1 DEF Dump
  <2>5. \A p \in Pages : rbuf[p + 1] = Item(rblock, p)
    BY <1>1, <2>1, <2>2 DEF Pages
  <2>6. Dumped(Dump', rblock + 1)
    <3>1. Dumped(Dump \o rbuf, rblock + 1)
      BY <1>1, <1>3, <2>1, <2>2, <2>5, DumpedGrows
    <3> QED BY <2>4, <3>1
  <2>7. ReaderTypes'
    BY <1>0, <1>3, <2>1, <2>3 DEF ReaderTypes
  <2>8. /\ SourceTypes' /\ R!End' = R!End /\ R!Mode' = R!Mode
        /\ \A D, b : Dumped(D, b) => Dumped(D, b)'
    BY <1>4, <2>1, <2>4
  <2>9. Dumped(Dump, rblock)'
    <3>1. \A D, b : D = Dump' /\ b = rblock' => Dumped(D, b)'
      BY <2>1, <2>6, <2>8
    <3> QED BY <3>1
  <2>10. ropt'.start <= rblock' /\ rblock' <= R!End'
    BY <1>1, <1>3, <2>1, <2>2, <2>8
  <2>11. ReaderAt'
    BY <2>1, <2>3, <2>9, <2>10 DEF ReaderAt, ReaderBefore
  <2> QED BY <1>2, <2>7, <2>8, <2>11
<1>12. CASE R!CloseFile
  <2>1. /\ rpc = "block" /\ rpc' = "done" /\ ~(rblock < R!End)
        /\ UNCHANGED <<ropt, rpart, rblock, rpage, rbuf, rout, content, marked, regs, roldcfg0>>
    BY <1>1, <1>12 DEF R!CloseFile
  <2>2. ropt.start <= rblock /\ rblock <= R!End /\ Dumped(Dump, rblock) /\ regs.bad
    BY <1>0, <2>1 DEF ReaderAt
  <2>3. ReaderTypes'
    BY <1>0, <1>3, <2>1 DEF ReaderTypes
  <2>4. /\ SourceTypes' /\ R!End' = R!End
        /\ \A D, b : Dumped(D, b) => Dumped(D, b)'
    BY <1>3, <1>4, <2>1
  <2>5. Dumped(Dump, rblock)'
    <3>1. \A D, b : D = Dump' /\ b = rblock' => Dumped(D, b)'
      BY <2>1, <2>2, <2>4 DEF Dump
    <3> QED BY <3>1
  <2>6. rblock' = R!End'
    BY <1>1, <1>3, <2>1, <2>2, <2>4
  <2>7. ReaderAt'
    BY <1>1, <2>1, <2>2, <2>4, <2>5, <2>6 DEF ReaderAt, ReaderBefore
  <2> QED BY <1>2, <2>3, <2>4, <2>7
<1>13. QED
  BY OtherReadSteps, <1>0, <1>6, <1>7, <1>8, <1>9, <1>10, <1>11, <1>12

-----------------------------------------------------------------------------
(* The writer at work on the file of the reader.                            *)

\* The checks of the writer can be trusted: the reader gave the marker control
\* back before it ended.
FreshRegs == saved.bad /\ (pc \in {"args", "hello"} => regs.bad)

FromDump == file = [n \in DOMAIN Dump |-> Look(Dump[n])] /\ Dumped(Dump, R!End)

\* The end of a run is in the area it began at the start of.
PastStart == pc \in {"endpage", "done"} /\ opt.erase = 0 => opt.start <= block

Working == TypeOK /\ Bounds /\ Safe /\ Order /\ Modes /\ Laid /\ Cloned /\ PastStart
Writing == SourceTypes /\ FromDump /\ Working /\ FreshRegs

\* The inductive invariant of a copy.
CopyInv ==
    /\ phase \in {"read", "write"}
    /\ phase = "read" => Reading
    /\ phase = "write" => Writing

LEMMA DumpFrame ==
  ASSUME FromDump, rpart = 0, UNCHANGED <<ropt, content, rpart, source, rout, file>>
  PROVE  FromDump'
<1>1. /\ R!End' = R!End /\ Dump' = Dump
      /\ \A D, b : Dumped(D, b) => Dumped(D, b)'
  BY SourceFrame DEF Dump
<1>2. Dumped(Dump, R!End)'
  <2>1. \A D, b : D = Dump' /\ b = R!End' => Dumped(D, b)'
    BY <1>1 DEF FromDump
  <2> QED BY <2>1
<1>3. \A i : Look(i)' = Look(i)
  BY DEF Look
<1>4. QED
  BY <1>1, <1>2, <1>3 DEF FromDump

LEMMA HandoverStep == ASSUME Reading, Handover PROVE Writing'
<1>0. /\ SourceTypes /\ WriterWaits /\ ReaderTypes /\ ReaderAt /\ rpc = "done"
      /\ pc = "args" /\ pc' = "args" /\ cell' = cell /\ warned' = 0
      /\ UNCHANGED <<opt, regs, rout, ropt, content, rpart, source>>
      /\ file' = [n \in DOMAIN Dump |-> Look(Dump[n])]
      /\ marked' \in SUBSET Blocks /\ base' = [marked |-> marked', cell |-> cell]
      /\ saved' = regs
  BY DEF Reading, Handover, WriterWaits, rvars
<1>1. SourceTypes'
  BY <1>0 DEF SourceTypes
<1>2. /\ R!End' = R!End /\ Dump' = Dump
      /\ \A D, b : Dumped(D, b) => Dumped(D, b)'
  BY <1>0, SourceFrame DEF SourceTypes, Dump
<1>3. FromDump'
  <2>1. Dumped(Dump, R!End)
    BY <1>0 DEF ReaderAt
  <2>2. Dumped(Dump, R!End)'
    <3>1. \A D, b : D = Dump' /\ b = R!End' => Dumped(D, b)'
      BY <1>2, <2>1
    <3> QED BY <3>1
  <2>3. \A i : Look(i)' = Look(i)
    BY DEF Look
  <2> QED BY <1>0, <1>2, <2>2, <2>3 DEF FromDump
<1>4. TypeOK'
  <2>1. file' \in Seq(PageKinds)
    <3>1. Dump \in Seq(Items)
      BY <1>0, SourceFacts
    <3>2. \A n \in DOMAIN Dump : Look(Dump[n]) \in PageKinds
      <4>1. \A n \in DOMAIN Dump : Dump[n] \in Items
        BY <3>1
      <4>2. \A i \in Items : Look(i) \in PageKinds
        BY DEF Look, Items, PageKinds
      <4> QED BY <4>1, <4>2
    <3> QED BY <1>0, <3>1, <3>2
  <2>2. opt' \in Options /\ 1 \in 1 .. MaxRuns /\ 0 \in 0 .. Ppb
    BY <1>0, ConstantTypes DEF WriterWaits
  <2>3. /\ regs' \in Regs /\ saved' \in Regs /\ oldregs' \in Regs
        /\ block' = 0 /\ page' = 0 /\ fpos' = 0 /\ flen' = 0 /\ badflag' = FALSE /\ run' = 1
    BY <1>0, CwValues DEF WriterWaits, ReaderTypes, Handover, ResetRegs, Regs
  <2>4. /\ cell' \in [Blocks -> [Pages -> Cells]]
        /\ base' \in [marked: SUBSET Blocks, cell: [Blocks -> [Pages -> Cells]]]
    BY <1>0 DEF WriterWaits
  <2>5. badflag' \in BOOLEAN
    BY <2>3
  <2> QED BY <1>0, <2>1, <2>2, <2>3, <2>4, <2>5 DEF TypeOK, Labels
<1>5. regs.bad
  BY <1>0 DEF ReaderAt
<1>6. Bounds'
  BY <1>0 DEF Bounds, AreaLabels, BlockLabels, MarkLabels, ProgLabels
<1>7. Safe'
  <2>1. InsideArea'
    BY <1>0 DEF InsideArea
  <2>2. ChecksReliable' /\ EraseAllowed' /\ PagesClean' /\ RegsTracked'
    BY <1>0, <1>5 DEF ChecksReliable, EraseAllowed, PagesClean, RegsTracked
  <2>3. CwKept'
    <3>1. regs' = regs /\ saved' = regs /\ oldregs' = ResetRegs /\ pc' = "args"
      BY <1>0 DEF WriterWaits, Handover
    <3>2. CwKnown(regs.cw) /\ CwKnown(ResetRegs.cw)
      BY CwValues DEF Reading, ReaderCw, ResetRegs
    <3> QED BY <3>1, <3>2 DEF CwKept
  <2> QED BY <2>1, <2>2, <2>3 DEF Safe
<1>8. Order'
  BY <1>0 DEF Order, Untouched, MarksFixed, InStep, Copied, Counted, LoopLabels, MarkLabels
<1>9. Modes'
  <2>1. ArgsChecked' /\ FormatKept' /\ InPlace' /\ MarksFollow' /\ BadUntouched'
    BY <1>0 DEF ArgsChecked, FormatKept, InPlace, MarksFollow, BadUntouched, StableLabels,
       WorkLabels, EraseLabels, MarkLabels, ProgLabels
  <2>2. MarksExplained'
    BY <1>0 DEF MarksExplained, MarksJustified, MarkLabels, ProgLabels
  <2> QED BY <2>1, <2>2 DEF Modes
<1>10. Laid' /\ Cloned' /\ PastStart'
  BY <1>0 DEF PastStart, Laid, Cloned, HereLabels, StableLabels, WorkLabels, EraseLabels, MarkLabels, ProgLabels
<1>11. FreshRegs'
  BY <1>0, <1>5 DEF FreshRegs
<1>12. QED
  BY <1>1, <1>3, <1>4, <1>6, <1>7, <1>8, <1>9, <1>10, <1>11 DEF Writing, Working

\* Within a run the writer does not start again.
LEMMA StepFrame ==
  ASSUME Step
  PROVE  [Next]_vars /\ ~StartRun /\ pc' # "args" /\ (pc' = "hello" => CheckArgs)
<1>1. [Next]_vars
  BY DEF Next
<1>2. CASE CheckArgs \/ Hello \/ SetEcc \/ OpenFile
  BY <1>2 DEF CheckArgs, Hello, SetEcc, OpenFile, StartRun, Ended, Next
<1>3. CASE EraseModeBlock \/ EndOfArea \/ SkipBadBlock \/ EnterBlock
  BY <1>3 DEF EraseModeBlock, EndOfArea, SkipBadBlock, EnterBlock, EnterBlockIf, StartRun, Ended, Next
<1>4. CASE EraseSetCfg \/ EraseExec \/ EraseRestore \/ EndOfBlock \/ EndOfFile
  BY <1>4 DEF EraseSetCfg, EraseExec, EraseRestore, EndOfBlock, EndOfFile, MorePages, StartRun,
     Ended, Next
<1>5. CASE SkipPage \/ SimulateBad \/ Mismatch \/ TakePage
  BY <1>5 DEF SkipPage, SkipPageIf, SimulateBad, SimulateBadIf, Mismatch, TakePage, TakePageIf,
     MorePages, StartRun, Ended, Next
<1>6. CASE MarkSetCfg \/ MarkWrite \/ MarkRestore \/ ProgramSectors \/ ProgramDone \/ RestoreRegs
  BY <1>6 DEF MarkSetCfg, MarkWrite, MarkRestore, ProgramSectors, ProgramDone, RestoreRegs,
     StartRun, Ended, Next
<1>7. QED
  BY <1>2, <1>3, <1>4, <1>5, <1>6 DEF Step

LEMMA NextPastStart == TypeOK /\ Bounds /\ PastStart /\ [Next]_vars => PastStart'
<1> SUFFICES ASSUME TypeOK, Bounds, PastStart, [Next]_vars, pc' \in {"endpage", "done"},
                    opt'.erase = 0
             PROVE  opt'.start <= block'
  BY DEF PastStart
<1>1. pc \in StableLabels \cup {"open"} /\ ~StartRun /\ opt' = opt
  BY WorkFrame DEF StableLabels
<1>2. pc \in {"block", "page"} => opt.start <= block
  BY DEF Bounds, BlockLabels
<1> USE DEF locals
<1>3. CASE EndOfArea \/ EndOfFile \/ RestoreRegs \/ EraseModeBlock
  BY <1>1, <1>2, <1>3 DEF EndOfArea, EndOfFile, MorePages, RestoreRegs, EraseModeBlock, PastStart
<1>4. CASE UNCHANGED vars
  BY <1>4 DEF vars, PastStart
<1>5. CASE CheckArgs \/ Hello \/ SetEcc \/ OpenFile \/ SkipBadBlock \/ EnterBlock \/ Kill
  BY <1>1, <1>5 DEF CheckArgs, Hello, SetEcc, OpenFile, SkipBadBlock, EnterBlock, EnterBlockIf, Kill,
     StableLabels, WorkLabels, EraseLabels, MarkLabels, ProgLabels
<1>6. CASE EraseSetCfg \/ EraseExec \/ EraseRestore \/ EndOfBlock
  BY <1>6 DEF EraseSetCfg, EraseExec, EraseRestore, EndOfBlock
<1>7. CASE SkipPage \/ SimulateBad \/ Mismatch \/ TakePage
  BY <1>7 DEF SkipPage, SkipPageIf, SimulateBad, SimulateBadIf, Mismatch, TakePage, TakePageIf,
     MorePages
<1>8. CASE MarkSetCfg \/ MarkWrite \/ MarkRestore \/ ProgramSectors \/ ProgramDone
  BY <1>8 DEF MarkSetCfg, MarkWrite, MarkRestore, ProgramSectors, ProgramDone
<1>9. QED
  BY <1>1, <1>3, <1>4, <1>5, <1>6, <1>7, <1>8 DEF Next, Step, Finished

LEMMA WorkingStep == ASSUME Working, [Next]_vars PROVE Working'
<1>0. TypeOK /\ Bounds /\ Safe /\ Order /\ Modes /\ Laid /\ Cloned /\ PastStart
  BY DEF Working
<1>1. PagesClean /\ Untouched /\ MarksFixed
  BY <1>0 DEF Safe, Order
<1>2. ArgsChecked /\ FormatKept /\ InPlace /\ MarksExplained /\ MarksFollow /\ BadUntouched
  BY <1>0 DEF Modes
<1>3. TypeOK' /\ Bounds'
  BY <1>0, NextType, NextBounds
<1>4. Safe'
  BY <1>0, NextChecksReliable, NextEraseAllowed, NextPagesClean, NextRegsTracked,
     NextInsideArea, NextCwKept DEF Safe
<1>5. Order'
  BY <1>0, NextUntouched, NextMarksFixed, NextInStep, NextCopied, NextCounted DEF Order
<1>6. Modes'
  <2>1. ArgsChecked' /\ FormatKept' /\ InPlace' /\ MarksExplained'
    BY <1>0, <1>1, <1>2, NextArgsChecked, NextFormatKept, NextInPlace, NextMarksExplained
  <2>2. MarksFollow' /\ BadUntouched'
    BY <1>0, <1>1, <1>2, NextMarksFollow, NextBadUntouched
  <2> QED BY <2>1, <2>2 DEF Modes
<1>7. Laid' /\ Cloned' /\ PastStart'
  BY <1>0, <1>1, <1>2, NextLaid, NextCloned, NextPastStart
<1>8. QED
  BY <1>3, <1>4, <1>5, <1>6, <1>7 DEF Working

LEMMA WriteStep == ASSUME Writing, Write PROVE Writing'
<1>0. /\ SourceTypes /\ FromDump /\ Working /\ FreshRegs /\ Step
      /\ UNCHANGED <<rpart, rout, ropt, content, source>>
  BY DEF Writing, Write, rvars
<1>1. /\ [Next]_vars /\ ~StartRun /\ pc' # "args" /\ (pc' = "hello" => CheckArgs)
      /\ opt' = opt /\ file' = file /\ (~Hello => saved' = saved)
  BY <1>0, StepFrame, RunFrame
<1>2. SourceTypes'
  BY <1>0, <1>1 DEF SourceTypes
<1>3. FromDump'
  BY <1>0, <1>1, DumpFrame DEF SourceTypes
<1>4. Working'
  BY <1>0, <1>1, WorkingStep
<1>5. FreshRegs'
  <2>1. regs \in Regs
    BY <1>0 DEF Working, TypeOK
  <2>2. CASE Hello
    BY <1>0, <2>1, <2>2 DEF Hello, FreshRegs, Regs
  <2>3. CASE CheckArgs
    BY <1>0, <2>3 DEF CheckArgs, FreshRegs, locals
  <2>4. CASE ~Hello /\ ~CheckArgs
    BY <1>0, <1>1, <2>4 DEF FreshRegs
  <2> QED BY <2>2, <2>3, <2>4
<1>6. QED
  BY <1>2, <1>3, <1>4, <1>5 DEF Writing

LEMMA NextCopyInv == ASSUME CopyInv, [NextCopy]_cvars PROVE CopyInv'
<1>1. CASE Read
  <2>1. phase = "read" /\ phase' = "read" /\ Reading
    BY <1>1 DEF Read, CopyInv
  <2> QED BY <1>1, <2>1, ReadStep, ReadKeepsCw DEF CopyInv, Reading
<1>2. CASE Handover
  <2>1. phase = "read" /\ phase' = "write" /\ Reading
    BY <1>2 DEF Handover, CopyInv
  <2> QED BY <1>2, <2>1, HandoverStep DEF CopyInv
<1>3. CASE Write
  <2>1. phase = "write" /\ phase' = "write" /\ Writing
    BY <1>3 DEF Write, CopyInv
  <2> QED BY <1>3, <2>1, WriteStep DEF CopyInv
<1>4. CASE UNCHANGED cvars
  <2>1. UNCHANGED <<vars, rvars, phase, source>>
    BY <1>4 DEF cvars
  <2>2. ASSUME Writing PROVE Writing'
    <3>1. SourceTypes /\ FromDump /\ Working /\ FreshRegs
      BY <2>2 DEF Writing
    <3>2. Working'
      BY <2>1, <3>1, WorkingStep
    <3>3. SourceTypes' /\ FreshRegs'
      BY <2>1, <3>1 DEF SourceTypes, FreshRegs, vars, rvars, locals, flash
    <3>4. FromDump'
      BY <2>1, <3>1, DumpFrame DEF SourceTypes, vars, rvars, locals
    <3> QED BY <3>2, <3>3, <3>4 DEF Writing
  <2>3. ASSUME Reading PROVE Reading'
    <3>1. SourceTypes /\ WriterWaits /\ ReaderTypes /\ ReaderAt
      BY <2>3 DEF Reading
    <3>2. SourceTypes' /\ WriterWaits' /\ ReaderTypes'
      BY <2>1, <3>1 DEF SourceTypes, WriterWaits, ReaderTypes, vars, rvars, locals, flash
    <3>3. /\ R!Mode' = R!Mode /\ R!End' = R!End
          /\ \A D, b : Dumped(D, b) => Dumped(D, b)'
          /\ \A b, p : Item(b, p)' = Item(b, p)
          /\ \A b : InFile(b)' <=> InFile(b)
      BY <2>1, <3>1, SourceFrame DEF rvars, SourceTypes
    <3>4. UNCHANGED <<rpc, regs, rblock, rpage, rbuf, rout, ropt, source, content>> /\ Dump' = Dump
      BY <2>1 DEF vars, rvars, Dump
    <3>5. rpc \in {"block", "page", "done"} => Dumped(Dump, rblock)'
      <4>1. \A D, b : rpc \in {"block", "page", "done"} /\ D = Dump' /\ b = rblock' => Dumped(D, b)'
        BY <3>1, <3>3, <3>4 DEF ReaderAt
      <4> QED BY <4>1
    <3>6. /\ rpc = "page" => InFile(rblock)'
          /\ \A p \in Pages : Item(rblock, p)' = Item(rblock, p)
      <4>1. InFile(rblock)' <=> InFile(rblock)
        BY <3>3, <3>4 DEF InFile
      <4>2. \A p \in Pages : Item(rblock, p)' = Item(rblock, p)
        BY <3>3, <3>4 DEF Item, KindOf
      <4> QED BY <3>1, <4>1, <4>2 DEF ReaderAt
    <3>7. ReaderAt'
      BY <3>1, <3>3, <3>4, <3>5, <3>6 DEF ReaderAt
    <3>8. ReaderCw'
      BY <2>1, <2>3 DEF Reading, ReaderCw, vars, rvars
    <3> QED BY <3>2, <3>7, <3>8 DEF Reading
  <2> QED BY <2>1, <2>2, <2>3 DEF CopyInv
<1>5. QED
  BY <1>1, <1>2, <1>3, <1>4 DEF NextCopy, CopyEnds

LEMMA CopyInvariant == CopySpec => []CopyInv
<1>1. InitCopy => CopyInv
  BY InitReading DEF CopyInv, InitCopy
<1>2. CopyInv /\ [NextCopy]_cvars => CopyInv'
  BY NextCopyInv
<1>3. QED
  BY <1>1, <1>2, PTL DEF CopySpec

-----------------------------------------------------------------------------
(* What follows for a copy that is complete.                                *)

\* The file has the whole range, block by block, and all of it is wanted.
LEMMA FileIs ==
  ASSUME SourceTypes, FromDump, TypeOK
  PROVE  /\ Place(R!End) \in Nat /\ Len(file) = Place(R!End) * Ppb
         /\ Place(R!End) <= R!End - ropt.start
         /\ CappedLen(WantedLen) = Place(R!End)
         /\ \A b0 \in Range0 : InFile(b0) =>
              /\ Place(b0) \in Nat /\ Place(b0) < Place(R!End)
              /\ \A p \in Pages :
                   /\ FilePage(Place(b0), p) \in 1 .. Len(file)
                   /\ Dump[FilePage(Place(b0), p)] = Item(b0, p)
                   /\ file[FilePage(Place(b0), p)] = KindOf(b0, p)
<1> DEFINE n == Place(R!End)
<1>0. /\ ropt.start \in Nat /\ R!End \in Nat /\ ropt.start <= R!End /\ R!End <= MaxBlock
      /\ opt.start = ropt.start /\ opt.off = 0 /\ opt.len = 0
      /\ opt.stop = ToEnd \/ opt.stop >= R!End
      /\ Dump \in Seq(Items) /\ Ppb \in Nat \ {0} /\ MaxBlock \in Nat
      /\ ropt.start .. R!End - 1 \subseteq Blocks
  BY SourceFacts
<1>1. n \in Nat /\ n <= R!End - ropt.start
  BY <1>0, PlaceCounts
<1>2. Len(Dump) = n * Ppb /\ Len(file) = Len(Dump)
  BY <1>0 DEF FromDump, Dumped
<1>3. FileBlocks = n
  <2>1. opt.off * Ppb = 0
    BY <1>0
  <2>2. n * Ppb \in Nat
    BY <1>0, <1>1
  <2>3. Len(file) - opt.off * Ppb + Ppb - 1 = n * Ppb + (Ppb - 1)
    <3> HIDE DEF n
    <3> QED BY <1>0, <1>2, <2>1, <2>2
  <2>4. (n * Ppb + (Ppb - 1)) \div Ppb = n
    <3>1. n \in Int /\ Ppb - 1 \in 0 .. Ppb - 1 /\ Ppb \in Nat \ {0}
      BY <1>0, <1>1
    <3> HIDE DEF n
    <3> QED BY <3>1, DivMod
  <2> QED BY <2>3, <2>4 DEF FileBlocks
<1>4. CappedLen(WantedLen) = n
  <2>1. StopBlock >= R!End
    BY <1>0 DEF StopBlock
  <2>2. StopBlock \in Int
    BY <1>0 DEF StopBlock, ToEnd, TypeOK, Options
  <2>3. ~(opt.start + n > StopBlock)
    <3> HIDE DEF n
    <3> QED BY <1>0, <1>1, <2>1, <2>2
  <2>4. WantedLen = n
    BY <1>0, <1>3 DEF WantedLen
  <2> QED BY <2>3, <2>4 DEF CappedLen
<1>5. ASSUME NEW b0 \in Range0, InFile(b0)
      PROVE  /\ Place(b0) \in Nat /\ Place(b0) < n
             /\ \A p \in Pages :
                  /\ FilePage(Place(b0), p) \in 1 .. Len(file)
                  /\ Dump[FilePage(Place(b0), p)] = Item(b0, p)
                  /\ file[FilePage(Place(b0), p)] = KindOf(b0, p)
  <2>1. b0 \in ropt.start .. R!End - 1 /\ b0 \in Nat /\ ropt.start <= b0 /\ b0 \in Blocks
    BY <1>0, <1>5 DEF Range0
  <2>2. Place(b0) < n /\ \A p \in Pages : Dump[ItemAt(b0, p)] = Item(b0, p)
    BY <1>5, <2>1 DEF FromDump, Dumped
  <2>3. Place(b0) \in Nat
    BY <1>0, <2>1, PlaceCounts
  <2>4. ASSUME NEW p \in Pages
        PROVE  /\ FilePage(Place(b0), p) \in 1 .. Len(file)
               /\ Dump[FilePage(Place(b0), p)] = Item(b0, p)
               /\ file[FilePage(Place(b0), p)] = KindOf(b0, p)
    <3>1. FilePage(Place(b0), p) = ItemAt(b0, p)
      BY <1>0, <2>3 DEF FilePage, ItemAt
    <3>2. ItemAt(b0, p) \in 1 .. Len(file)
      <4>1. ItemAt(b0, p) \in 1 .. n * Ppb
        <5> HIDE DEF n
        <5> QED BY <1>0, <1>1, <2>2, <2>3, PageBelow DEF ItemAt
      <4> QED BY <1>2, <4>1
    <3>3. Dump[ItemAt(b0, p)] = Item(b0, p)
      BY <2>2
    <3>4. ItemAt(b0, p) \in DOMAIN Dump
      BY <1>0, <1>2, <3>2
    <3>5. file[ItemAt(b0, p)] = Look(Item(b0, p))
      BY <3>3, <3>4 DEF FromDump
    <3>6. KindOf(b0, p) # "nul"
      BY <2>1 DEF KindOf, SourceTypes
    <3>7. Look(Item(b0, p)) = KindOf(b0, p)
      BY <3>6 DEF Look, Item
    <3> QED BY <3>1, <3>2, <3>3, <3>5, <3>7
  <2> QED BY <2>2, <2>3, <2>4
<1>6. QED
  BY <1>1, <1>2, <1>4, <1>5

\* Every number below the count of the good blocks is the number of one.
LEMMA RankTaken ==
  ASSUME opt.start \in Int, NEW e \in Int, opt.start <= e
  PROVE  \A r \in Nat : r < Rank(e) => \E b \in GoodBelow(e) : Rank(b) = r
<1> SUFFICES ASSUME NEW r \in Nat PROVE r < Rank(e) => \E b \in GoodBelow(e) : Rank(b) = r
  OBVIOUS
<1> DEFINE F(x) == r < Rank(x) => \E b \in GoodBelow(x) : Rank(b) = r
           A == {n \in Nat : F(opt.start + n)}
<1>1. 0 \in A
  <2>1. opt.start + 0 = opt.start /\ Rank(opt.start) = 0
    BY RankStart
  <2> QED BY <2>1
<1>2. \A n \in Nat : n \in A => n + 1 \in A
  <2> SUFFICES ASSUME NEW n \in Nat, F(opt.start + n) PROVE F(opt.start + (n + 1))
    OBVIOUS
  <2> DEFINE x == opt.start + n
  <2>1. x \in Int /\ opt.start <= x /\ opt.start + (n + 1) = x + 1
    OBVIOUS
  <2>2. F(x)
    OBVIOUS
  <2> HIDE DEF x
  <2>3. /\ Rank(x + 1) = IF x \in base.marked THEN Rank(x) ELSE Rank(x) + 1
        /\ Rank(x) \in Nat
    BY <2>1, RankStep, GoodBelowFinite
  <2>4. GoodBelow(x) \subseteq GoodBelow(x + 1)
        /\ (x \notin base.marked => x \in GoodBelow(x + 1))
    BY <2>1 DEF GoodBelow
  <2>5. F(x + 1)
    <3> SUFFICES ASSUME r < Rank(x + 1) PROVE \E b \in GoodBelow(x + 1) : Rank(b) = r
      OBVIOUS
    <3>1. CASE r < Rank(x)
      BY <2>2, <2>4, <3>1
    <3>2. CASE ~(r < Rank(x))
      <4>1. x \notin base.marked /\ r = Rank(x)
        BY <2>3, <3>2
      <4> QED BY <2>4, <4>1
    <3> QED BY <3>1, <3>2
  <2> QED BY <2>1, <2>5
<1>3. Nat \subseteq A
  <2> HIDE DEF A
  <2> QED BY <1>1, <1>2, NatSetInduction
<1>4. e - opt.start \in Nat /\ opt.start + (e - opt.start) = e
  OBVIOUS
<1>5. QED
  BY <1>3, <1>4

\* A plain run: all that is not reported lost is placed.
LEMMA PlainDone ==
  ASSUME SourceTypes, FromDump, Working, saved.bad, pc = "done", PlainMode
  PROVE  /\ Rank(block) + warned = Place(R!End)
         /\ opt.start \in Nat /\ block \in Nat /\ opt.start <= block /\ block <= StopBlock
         /\ warned \in Nat /\ Rank(block) \in Nat /\ StopBlock \in Int
         /\ \A b \in opt.start .. block - 1 : BlockDone(b)
<1> DEFINE n == Place(R!End)
           r == Rank(block)
<1>0. TypeOK /\ Counted /\ Copied /\ PlainRun
  BY DEF Working, Order, PlainRun, Trusted
<1>1. /\ opt.start \in Nat /\ StopBlock \in Int /\ flen \in Int /\ block \in Nat
      /\ page \in Nat /\ warned \in Nat /\ r \in Nat /\ Ppb \in Nat \ {0} /\ opt.off = 0
  BY <1>0, PlainTypes, SourceFacts
<1>2. n \in Nat /\ Len(file) = n * Ppb /\ CappedLen(WantedLen) = n
  BY <1>0, FileIs
<1>3. /\ opt.start <= block /\ block <= opt.start + flen /\ opt.start + flen <= StopBlock
      /\ flen + warned + r = n + (block - opt.start)
  BY <1>0, <1>2 DEF Counted
<1>4. \A b \in opt.start .. block - 1 : BlockDone(b)
  BY <1>0 DEF Copied
<1>5. block = opt.start + flen
  <2> SUFFICES ASSUME block # opt.start + flen PROVE FALSE
    OBVIOUS
  <2>1. InArea
    <3> HIDE DEF n, r
    <3> QED BY <1>1, <1>3 DEF InArea
  <2>2. page < Ppb /\ FilePage(r, page) > n * Ppb
    BY <1>0, <1>2, <2>1 DEF Copied
  <2>3. ~(r < n)
    <3> SUFFICES ASSUME r < n PROVE FALSE
      OBVIOUS
    <3>1. page \in Pages
      BY <1>1, <2>2 DEF Pages
    <3>2. FilePage(r, page) = r * Ppb + page + 1
      BY <1>1 DEF FilePage
    <3>3. r * Ppb + page + 1 \in 1 .. n * Ppb
      <4> HIDE DEF n, r
      <4> QED BY <1>1, <1>2, <3>1, PageBelow
    <3>4. n * Ppb \in Int
      BY <1>1, <1>2
    <3> QED BY <2>2, <3>2, <3>3, <3>4
  <2> HIDE DEF n, r
  <2> QED BY <1>1, <1>2, <1>3, <2>3
<1>6. r + warned = n
  <2> HIDE DEF n, r
  <2> QED BY <1>1, <1>2, <1>3, <1>5
<1>7. QED
  BY <1>1, <1>3, <1>4, <1>6

\* A good block of the range whose place in the file was reached.
LEMMA PlainHolds ==
  ASSUME SourceTypes, FromDump, Working, saved.bad, pc = "done", PlainMode,
         NEW b0 \in Range0 \ source, Place(b0) < Rank(block)
  PROVE  \E b \in Area \ base.marked :
            Rank(b) = Place(b0) /\ \A p \in Pages : Holds(b, p, b0)
<1>0. TypeOK
  BY DEF Working
<1>1. /\ opt.start \in Nat /\ block \in Nat /\ opt.start <= block /\ block <= StopBlock
      /\ StopBlock \in Int
      /\ \A b \in opt.start .. block - 1 : BlockDone(b)
  BY PlainDone
<1>2. InFile(b0) /\ b0 \in Range0 /\ b0 \in Blocks
  BY SourceFacts DEF InFile, Range0
<1>3. Place(b0) \in Nat
  BY <1>0, <1>2, FileIs
<1>4. PICK b \in GoodBelow(block) : Rank(b) = Place(b0)
  BY <1>1, <1>3, RankTaken
<1>5. b \in opt.start .. block - 1 /\ b \notin base.marked /\ b \in Area
  BY <1>1, <1>4 DEF GoodBelow, Area
<1>6. ASSUME NEW p \in Pages PROVE Holds(b, p, b0)
  <2> DEFINE k == FilePage(Place(b0), p)
  <2>1. /\ k \in 1 .. Len(file) /\ Dump[k] = Item(b0, p) /\ file[k] = KindOf(b0, p)
    BY <1>0, <1>2, FileIs
  <2>2. cell[b][p] = Wanted(k)
    BY <1>1, <1>4, <1>5 DEF BlockDone
  <2>3. KindOf(b0, p) = content[b0][p] /\ content[b0][p] \in {"data", "ff"}
    BY <1>2 DEF KindOf, SourceTypes
  <2> HIDE DEF k
  <2>4. Len(file) \in Nat
    BY <1>0 DEF TypeOK
  <2>5. cell[b][p] = IF opt.s /\ content[b0][p] = "ff" THEN Erased ELSE k
    BY <2>1, <2>2, <2>3, <2>4 DEF Wanted
  <2> QED BY <2>1, <2>4, <2>5 DEF Holds, Item
<1>7. QED
  BY <1>4, <1>5, <1>6

\* A run that passes over no block: the whole file is laid.
LEMMA KeptDone ==
  ASSUME SourceTypes, FromDump, Working, pc = "done", KeepsPlace
  PROVE  /\ flen = Place(R!End) /\ opt.start = ropt.start /\ opt.start \in Nat
         /\ \A b \in opt.start .. opt.start + flen - 1 : b \in Area
         /\ \A b \in opt.start .. opt.start + flen - 1, p \in Pages : LaidPage(b, p)
         /\ Has("ux") => \A b \in opt.start .. opt.start + flen - 1 : MarkRight(b)
<1> DEFINE n == Place(R!End)
<1>0. TypeOK /\ Laid /\ Cloned /\ PastStart
  BY DEF Working
<1>1. /\ ropt.start \in Nat /\ R!End \in Nat /\ R!End <= MaxBlock /\ MaxBlock \in Nat
      /\ opt.start = ropt.start /\ opt.off = 0 /\ opt.erase = 0
      /\ opt.stop = ToEnd \/ opt.stop >= R!End
      /\ Ppb \in Nat \ {0}
  BY SourceFacts
<1>2. /\ n \in Nat /\ Len(file) = n * Ppb /\ CappedLen(WantedLen) = n
      /\ n <= R!End - ropt.start
  BY <1>0, FileIs
<1>3. block \in Nat /\ page \in Nat /\ flen \in Int
  BY <1>0 DEF TypeOK
<1>4. /\ flen = n /\ opt.start <= block
      /\ \A b \in opt.start .. block - 1 : \A p \in Pages : LaidPage(b, p)
      /\ InArea => page < Ppb /\ FilePage(block - opt.start, page) > Len(file)
      /\ Has("ux") => \A b \in opt.start .. block - 1 : MarkRight(b)
  BY <1>0, <1>1, <1>2 DEF Laid, Cloned, PastStart, StableLabels
<1>5. ~InArea
  <2> SUFFICES ASSUME InArea PROVE FALSE
    OBVIOUS
  <2> DEFINE r == block - opt.start
  <2>1. page < Ppb /\ FilePage(r, page) > n * Ppb
    BY <1>2, <1>4
  <2>2. r \in Nat /\ r < n
    <3> HIDE DEF n
    <3> QED BY <1>1, <1>2, <1>3, <1>4 DEF InArea
  <2>3. FilePage(r, page) = r * Ppb + page + 1
    BY <1>1, <2>2 DEF FilePage
  <2>4. page \in Pages
    BY <1>1, <1>3, <2>1 DEF Pages
  <2>5. r * Ppb + page + 1 \in 1 .. n * Ppb
    <3> HIDE DEF n, r
    <3> QED BY <1>1, <1>2, <2>2, <2>4, PageBelow
  <2>6. n * Ppb \in Int
    BY <1>1, <1>2
  <2> QED BY <2>1, <2>3, <2>5, <2>6
<1>6. \A b \in opt.start .. opt.start + flen - 1 : b \in opt.start .. block - 1
  <2> HIDE DEF n
  <2> QED BY <1>1, <1>3, <1>5 DEF InArea
<1>7. \A b \in opt.start .. opt.start + flen - 1 : b \in Area
  <2>1. StopBlock >= R!End /\ StopBlock \in Int
    BY <1>0, <1>1 DEF StopBlock, ToEnd, TypeOK, Options
  <2> HIDE DEF n
  <2> QED BY <1>1, <1>2, <1>3, <1>4, <2>1 DEF Area
<1>8. QED
  BY <1>1, <1>4, <1>6, <1>7

\* What stands in the place of a page of the file is a copy of what was read,
\* unless it is the filler of a bad block.
LEMMA LaidHolds ==
  ASSUME SourceTypes, FromDump, Working, pc = "done", KeepsPlace,
         NEW b0 \in Range0, InFile(b0), opt.s => Has("ux")
  PROVE  LET b == opt.start + Place(b0)
         IN  /\ b \in Area /\ b \in opt.start .. opt.start + flen - 1
             /\ \A p \in Pages : KindOf(b0, p) \notin {"bb"} => Holds(b, p, b0)
<1> DEFINE b == opt.start + Place(b0)
<1>0. TypeOK
  BY DEF Working
<1>1. /\ flen = Place(R!End) /\ opt.start = ropt.start /\ opt.start \in Nat
      /\ \A c \in opt.start .. opt.start + flen - 1 : c \in Area
      /\ \A c \in opt.start .. opt.start + flen - 1, p \in Pages : LaidPage(c, p)
  BY KeptDone
<1>2. Place(R!End) \in Nat /\ Place(b0) \in Nat /\ Place(b0) < Place(R!End)
  BY <1>0, FileIs
<1>3. b \in opt.start .. opt.start + flen - 1 /\ b - opt.start = Place(b0)
  BY <1>1, <1>2
<1>4. ASSUME NEW p \in Pages, KindOf(b0, p) # "bb" PROVE Holds(b, p, b0)
  <2> DEFINE k == FilePage(Place(b0), p)
  <2>1. /\ k \in 1 .. Len(file) /\ Dump[k] = Item(b0, p) /\ file[k] = KindOf(b0, p)
    BY <1>0, FileIs
  <2>2. LaidPage(b, p) /\ FilePage(b - opt.start, p) = k
    BY <1>1, <1>3
  <2> HIDE DEF k, b
  <2>3. Len(file) \in Nat /\ k \in Nat /\ k > 0 /\ k <= Len(file)
    BY <1>0, <2>1 DEF TypeOK
  <2>4. IF opt.s /\ file[k] = "ff" THEN Has("ux") => cell[b][p] = Erased ELSE cell[b][p] = k
    BY <1>4, <2>1, <2>2, <2>3 DEF LaidPage
  <2>5. CASE opt.s /\ file[k] = "ff"
    <3>1. cell[b][p] = Erased
      BY <2>4, <2>5
    <3>2. content[b0][p] = "ff"
      BY <2>1, <2>5 DEF KindOf
    <3> QED BY <2>5, <3>1, <3>2 DEF Holds
  <2>6. CASE ~(opt.s /\ file[k] = "ff")
    BY <2>1, <2>3, <2>4, <2>6 DEF Holds, Item
  <2> QED BY <2>5, <2>6
<1>5. QED
  BY <1>1, <1>3, <1>4

LEMMA InvLogical == ASSUME CopyInv PROVE LogicalCopy
<1> SUFFICES ASSUME Complete, R!Mode = "skip", PlainMode, NEW b0 \in Range0 \ source,
                    GoodPlace(b0) + warned < Cardinality(Range0 \ source)
             PROVE  \E b \in Area \ base.marked :
                      /\ Rank(b) = GoodPlace(b0)
                      /\ \A p \in Pages : Holds(b, p, b0)
  BY DEF LogicalCopy
<1>1. SourceTypes /\ FromDump /\ Working /\ saved.bad /\ pc = "done" /\ TypeOK
  BY DEF CopyInv, Writing, FreshRegs, Complete, Working
<1>2. Place(b0) = GoodPlace(b0) /\ Place(R!End) = Cardinality(Range0 \ source)
  <2>1. Range0 \ source = {g \in ropt.start .. R!End - 1 : g \notin source}
    BY DEF Range0
  <2> QED BY <2>1 DEF Place, GoodPlace
<1>3. Rank(block) + warned = Place(R!End) /\ warned \in Nat /\ Rank(block) \in Nat
  BY <1>1, PlainDone
<1>4. InFile(b0) /\ b0 \in Range0
  BY DEF InFile
<1>5. Place(b0) \in Nat
  BY <1>1, <1>4, FileIs
<1>6. Place(b0) < Rank(block)
  BY <1>2, <1>3, <1>5
<1>7. QED
  BY <1>1, <1>2, <1>6, PlainHolds

\* The blocks of the range, where the file has each of them in its place.
LEMMA RangeKept ==
  ASSUME SourceTypes, FromDump, Working, pc = "done", KeepsPlace, R!Mode # "skip",
         NEW b \in Range0
  PROVE  /\ InFile(b) /\ b = opt.start + Place(b) /\ b \in Blocks
         /\ b \in opt.start .. opt.start + flen - 1
         /\ FilePage(b - opt.start, 0) <= Len(file)
         /\ file[FilePage(b - opt.start, 0)] = KindOf(b, 0)
<1>0. TypeOK
  BY DEF Working
<1>1. /\ ropt.start \in Nat /\ R!End \in Nat /\ ropt.start <= R!End
      /\ ropt.start .. R!End - 1 \subseteq Blocks /\ opt.start = ropt.start /\ Ppb \in Nat \ {0}
  BY SourceFacts
<1>2. InFile(b) /\ b \in ropt.start .. R!End - 1 /\ b \in Blocks
  BY <1>1 DEF InFile, Range0
<1>3. Place(b) = b - ropt.start /\ Place(R!End) = R!End - ropt.start
  BY DEF Place
<1>4. flen = Place(R!End)
  BY KeptDone
<1>5. b = opt.start + Place(b) /\ b - opt.start = Place(b)
      /\ b \in opt.start .. opt.start + flen - 1
  BY <1>1, <1>2, <1>3, <1>4
<1>6. 0 \in Pages
  BY <1>1 DEF Pages
<1>7. /\ FilePage(Place(b), 0) \in 1 .. Len(file)
      /\ file[FilePage(Place(b), 0)] = KindOf(b, 0)
  BY <1>0, <1>2, <1>6, FileIs
<1>8. Len(file) \in Nat
  BY <1>0 DEF TypeOK
<1>9. QED
  BY <1>2, <1>5, <1>7, <1>8

LEMMA InvPositional == ASSUME CopyInv PROVE PositionalCopy
<1> SUFFICES ASSUME Complete, R!Mode = "fill", Has("uc") \/ Has("um"), ~opt.s,
                    NEW b \in Range0
             PROVE  /\ b \in marked <=> b \in source
                    /\ b \notin source => \A p \in Pages : Holds(b, p, b)
  BY DEF PositionalCopy
<1>1. SourceTypes /\ FromDump /\ Working /\ saved.bad /\ pc = "done" /\ TypeOK
  BY DEF CopyInv, Writing, FreshRegs, Complete, Working
<1>2. opt.erase = 0
  BY <1>1, SourceFacts
<1>3. KeepsPlace /\ MatchMode
  BY <1>1, <1>2 DEF KeepsPlace, MatchMode, DefectMode, Trusted
<1>4. /\ InFile(b) /\ b = opt.start + Place(b) /\ b \in Blocks
      /\ b \in opt.start .. opt.start + flen - 1
      /\ file[FilePage(b - opt.start, 0)] = KindOf(b, 0)
  BY <1>1, <1>3, RangeKept
<1>5. b \in marked <=> AskedBad(b)
  BY <1>1, <1>3, <1>4 DEF Working, Modes, MarksFollow, MatchedBlocks, StableLabels
<1>6. \A p \in Pages : KindOf(b, p) = "bb" <=> b \in source
  BY <1>1, <1>4 DEF KindOf, SourceTypes
<1>7. 0 \in Pages
  BY <1>1, SourceFacts DEF Pages
<1>8. b \in marked <=> b \in source
  BY <1>4, <1>5, <1>6, <1>7 DEF AskedBad
<1>9. b \notin source => \A p \in Pages : Holds(b, p, b)
  BY <1>1, <1>3, <1>4, <1>6, LaidHolds
<1>10. QED
  BY <1>8, <1>9

LEMMA InvRawClone == ASSUME CopyInv PROVE RawClone
<1> SUFFICES ASSUME Complete, R!Mode = "disable", Has("ux"), NEW b \in Range0
             PROVE  /\ b \in marked <=> b \in source
                    /\ \A p \in Pages : Holds(b, p, b)
  BY DEF RawClone
<1>1. SourceTypes /\ FromDump /\ Working /\ pc = "done" /\ TypeOK
  BY DEF CopyInv, Writing, Complete, Working
<1>2. opt.erase = 0
  BY <1>1, SourceFacts
<1>3. KeepsPlace
  BY <1>2 DEF KeepsPlace
<1>4. /\ InFile(b) /\ b = opt.start + Place(b) /\ b \in Blocks
      /\ b \in opt.start .. opt.start + flen - 1
      /\ FilePage(b - opt.start, 0) <= Len(file)
      /\ file[FilePage(b - opt.start, 0)] = KindOf(b, 0)
  BY <1>1, <1>3, RangeKept
<1>5. MarkRight(b)
  BY <1>1, <1>3, <1>4, KeptDone
<1>6. 0 \in Pages
  BY <1>1, SourceFacts DEF Pages
<1>7. KindOf(b, 0) = "mk" <=> b \in source
  BY <1>1, <1>4, <1>6 DEF KindOf, SourceTypes
<1>8. b \in marked <=> b \in source
  BY <1>4, <1>5, <1>7 DEF MarkRight
<1>9. \A p \in Pages : KindOf(b, p) # "bb"
  BY <1>1, <1>4 DEF KindOf, SourceTypes
<1>10. \A p \in Pages : Holds(b, p, b)
  BY <1>1, <1>3, <1>4, <1>9, LaidHolds
<1>11. QED
  BY <1>8, <1>10

LEMMA InvNothingMissing == ASSUME CopyInv PROVE NothingMissing
<1> SUFFICES ASSUME Complete, warned = 0, opt.s => PlainMode,
                    NEW b0 \in Range0 \ source, NEW p \in Pages
             PROVE  \E b \in Area : Holds(b, p, b0)
  BY DEF NothingMissing
<1>1. SourceTypes /\ FromDump /\ Working /\ saved.bad /\ pc = "done" /\ TypeOK
  BY DEF CopyInv, Writing, FreshRegs, Complete, Working
<1>2. InFile(b0) /\ b0 \in Range0 /\ b0 \in Blocks /\ opt.erase = 0
  BY <1>1, SourceFacts DEF InFile, Range0
<1>3. CASE PlainMode
  <2>1. Rank(block) + warned = Place(R!End) /\ Rank(block) \in Nat
    BY <1>1, <1>3, PlainDone
  <2>2. Place(b0) < Rank(block)
    BY <1>1, <1>2, <2>1, FileIs
  <2>3. \E b \in Area \ base.marked :
          Rank(b) = Place(b0) /\ \A q \in Pages : Holds(b, q, b0)
    BY <1>1, <1>3, <2>2, PlainHolds
  <2> QED BY <2>3
<1>4. CASE ~PlainMode
  <2>1. KeepsPlace
    <3>1. opt.u \in SUBSET UFlags
      BY <1>1 DEF TypeOK, Options
    <3> QED BY <1>2, <1>4, <3>1 DEF PlainMode, KeepsPlace, Has, UFlags
  <2>2. KindOf(b0, p) # "bb"
    BY <1>1, <1>2 DEF KindOf, SourceTypes
  <2> QED BY <1>1, <1>2, <1>4, <2>1, <2>2, LaidHolds
<1>5. QED
  BY <1>3, <1>4

\* Whatever the two flashes and their defects, a copy in one of the three pairs
\* of modes carries the first flash over: in order, in place or with its
\* markers (the block loops of qrflash.c and of qwdirect.c, one after the other).
\* Both programs run to their end; the registers are what earlier runs left, killed
\* ones included, as long as the marker position is still in CFG1.
THEOREM CopiesExactly == CopySpec => []CopyExact
<1>1. CopyInv => CopyExact
  BY InvLogical, InvPositional, InvRawClone DEF CopyExact
<1>2. QED
  BY <1>1, CopyInvariant, PTL

\* In every combination of modes a page of a good block is on the second flash
\* unless the writer warned of a loss.
THEOREM LosesNothing == CopySpec => []NothingMissing
<1>1. CopyInv => NothingMissing
  BY InvNothingMissing
<1>2. QED
  BY <1>1, CopyInvariant, PTL
=============================================================================
