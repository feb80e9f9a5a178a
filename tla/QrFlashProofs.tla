---------------------------- MODULE QrFlashProofs ----------------------------
(***************************************************************************)
(* Proofs about QrFlash: what is in the files, where it stands there, what *)
(* -t may cut, and the marker control after a run.                         *)
(***************************************************************************)
EXTENDS QrFlash, CountingLemmas

Labels == {"args", "hello", "ecc", "raw", "table", "part", "block", "page",
           "trim", "restore"} \cup Ended

\* A page of a file, and the byte fseek() leaves in a file without a page.
PageItems == [kind: {"data", "ff", "bb", "eb", "mk"}, b: Int, p: Int]
Items == PageItems \cup {[kind |-> "nul"]}

TypeOK ==
    /\ run \in Nat /\ pc \in Labels /\ opt \in OptionSets
    /\ part \in 0 .. Len(Table) + 1 /\ block \in Nat /\ page \in 0 .. Ppb
    /\ buf \in Seq(PageItems) /\ out \in [OutFiles -> Seq(Items)]
    /\ oldcfg0 \in Regs /\ regs \in Regs
    /\ content \in [Blocks -> [Pages -> {"data", "ff"}]] /\ marked \in SUBSET Blocks
    /\ faults \in Nat /\ trusted \in BOOLEAN

-----------------------------------------------------------------------------
\* A file is open, and it is the one the loops work on.
FileLabels == {"block", "page", "trim"}
Bounds ==
    /\ pc \in {"args", "hello", "ecc", "raw", "table"} => part = 0
    /\ pc = "raw" => ~PartFlag
    /\ pc = "table" => PartFlag
    /\ pc \in FileLabels => (part = 0 <=> ~PartFlag)
    /\ pc = "trim" => part > 0
    /\ pc \in {"part", "restore"} => PartFlag /\ part > 0
    /\ pc \in FileLabels /\ part > 0 => part <= Len(Table) /\ Selected(part)
    /\ pc \in FileLabels => FirstOf(part) <= block
    /\ pc = "page" => block < End
    /\ pc = "trim" => ~(block < End)
    /\ pc = "restore" => part > Len(Table)
    /\ pc = "done" => ~PartFlag \/ part > Len(Table)

\* What the run found programmed stays so, but for the length of a block
\* that -ux reads.
MarksRead ==
    /\ trusted /\ pc # "killed" /\ ~(pc = "page" /\ Mode = "disable") => regs.bad
    /\ pc = "page" /\ Mode = "disable" => ~regs.bad

\* A block whose pages are being read passed the check.
Checked == trusted /\ pc = "page" /\ Mode \in {"fill", "skip"} => block \notin marked

\* The files that are not begun are empty. In blockbuf are the pages of the
\* block so far.
NotBegun ==
    /\ pc \in {"args", "hello", "ecc", "raw", "table"} => out = NoFiles
    /\ pc = "part" => \A f \in OutFiles : f >= part => out[f] = <<>>
    /\ pc \in FileLabels => \A f \in OutFiles : f > part => out[f] = <<>>
Buffered ==
    pc = "page" =>
        /\ Len(buf) = page
        /\ \A n \in 1 .. Len(buf) : buf[n].b = block /\ buf[n].p = n - 1
        /\ trusted => \A n \in 1 .. Len(buf) : Truthful(buf[n])

\* The open file holds as many pages as the blocks passed have.
Filled ==
    trusted /\ pc \in {"block", "page"} => Len(out[part]) = PlaceOf(part, block) * Ppb

\* A read that fails is counted.
FaultsShow ==
    faults = 0 =>
        /\ \A f \in OutFiles : \A n \in 1 .. Len(out[f]) : out[f][n].kind # "eb"
        /\ \A n \in 1 .. Len(buf) : buf[n].kind # "eb"

\* The pages that hold data are in the file as soon as their block is passed.
Passed(f, b) == f < part \/ (f = part /\ pc \in FileLabels /\ b < block)
Holds(s, b, p) == \E n \in 1 .. Len(s) : s[n].kind # "nul" /\ s[n].b = b /\ s[n].p = p
Kept ==
    trusted /\ opt.map = "flash" /\ faults = 0 /\ pc \notin {"killed", "exit", "refused"} =>
        \A f \in OutFiles \ {0} : Selected(f) =>
            \A b \in FirstOf(f) .. FirstOf(f) + PartLen(f) - 1, p \in Pages :
                Passed(f, b) /\ content[b][p] # "ff" /\ b \notin marked => Holds(out[f], b, p)

Inv == TypeOK /\ Bounds /\ MarksRead /\ Checked /\ NotBegun /\ Buffered /\ Filled
       /\ FilesTruthful /\ PagesInPlace /\ FaultsShow /\ Kept

-----------------------------------------------------------------------------
LEMMA ConstantTypes ==
    /\ MaxBlock \in Nat \ {0} /\ Ppb \in Nat \ {0} /\ Width \in Nat /\ Width > 2 * MaxBlock
    /\ Len(Table) \in Nat
    /\ \A i \in 1 .. Len(Table) :
         /\ Table[i].start \in Blocks /\ Table[i].len \in 0 .. Width - 1
         /\ \/ Table[i].start + Table[i].len <= MaxBlock
            \/ i = Len(Table) /\ Table[i].len = Grow /\ Table[i].start > 0
    /\ \A o \in OptionSets : o \in Options /\ o.start + o.len <= MaxBlock
    /\ Contents \subseteq [Blocks -> [Pages -> {"data", "ff"}]]
<1>1. \A i \in 1 .. Len(Table) : Table[i] \in [start: Blocks, len: 0 .. Width - 1]
  <2> DEFINE R == [start: Blocks, len: 0 .. Width - 1]
  <2>1. Table \in Seq(R)
    BY ConstantsAssumption
  <2> HIDE DEF R
  <2>2. \A i \in 1 .. Len(Table) : Table[i] \in R
    BY <2>1
  <2> QED BY <2>2 DEF R
<1>2. QED
  BY <1>1, ConstantsAssumption

\* What the types say of the command line, and of the place of a file.
LEMMA OptionTypes ==
  ASSUME opt \in OptionSets
  PROVE  /\ opt.start \in Nat /\ opt.len \in Nat /\ opt.start + opt.len <= MaxBlock
         /\ opt.x \in BOOLEAN /\ opt.t \in BOOLEAN /\ opt.e \in BOOLEAN /\ opt.list \in BOOLEAN
         /\ \A f \in OutFiles : FirstOf(f) \in Nat
         /\ Mode \in {"fill", "skip", "ignore", "disable"}
<1>1. opt \in Options /\ opt.start + opt.len <= MaxBlock
  BY ConstantTypes
<1>2. \A f \in OutFiles : FirstOf(f) \in Nat
  BY <1>1, ConstantTypes DEF FirstOf, OutFiles, Options, Blocks
<1>3. QED
  BY <1>1, <1>2 DEF Options, Mode

\* A remainder by the machine word.
LEMMA WordRemainder ==
  ASSUME NEW n \in Nat
  PROVE  /\ n < Width => n % Width = n
         /\ Width <= n /\ n < 2 * Width => n % Width = n - Width
<1>1. Width \in Nat \ {0}
  BY ConstantTypes
<1>2. ASSUME NEW k \in Int, NEW i \in 0 .. Width - 1, n = k * Width + i
      PROVE  n % Width = i
  BY <1>1, <1>2, DivMod
<1>3. n < Width => n = 0 * Width + n /\ n \in 0 .. Width - 1 /\ 0 \in Int
  BY <1>1
<1>4. Width <= n /\ n < 2 * Width =>
        n = 1 * Width + (n - Width) /\ n - Width \in 0 .. Width - 1 /\ 1 \in Int
  BY <1>1
<1>5. n < Width => n % Width = n
  BY <1>2, <1>3, Zenon
<1>6. Width <= n /\ n < 2 * Width => n % Width = n - Width
  BY <1>2, <1>4, Zenon
<1>7. QED
  BY <1>5, <1>6

\* No file is read past the end of the flash; a partition that grows ends
\* before it starts unless its length was replaced.
LEMMA EndBound ==
  ASSUME opt \in OptionSets, part \in 0 .. Len(Table)
  PROVE  /\ End \in Int /\ End <= MaxBlock
         /\ Start = FirstOf(part)
         /\ part > 0 /\ opt.map = "flash" => End = FirstOf(part) + PartLen(part)
<1>1. Start = FirstOf(part)
  BY DEF Start, FirstOf
<1>2. CASE part = 0
  BY <1>1, <1>2, ConstantTypes, OptionTypes DEF End
<1>3. CASE part > 0
  <2> DEFINE s == Table[part].start
             l == Table[part].len
  <2>1. s \in Nat /\ s < MaxBlock /\ l \in Nat /\ l < Width
        /\ (s + l <= MaxBlock \/ (part = Len(Table) /\ l = Grow /\ s > 0))
    BY <1>3, ConstantTypes DEF Blocks
  <2>2. CASE PartLen(part) = MaxBlock - s /\ ~(PartLen(part) = l)
    <3>1. End = MaxBlock % Width
      BY <1>3, <2>1, <2>2, ConstantTypes DEF End
    <3>2. MaxBlock % Width = MaxBlock
      BY ConstantTypes, WordRemainder
    <3> QED BY <1>1, <1>3, <2>1, <2>2, <3>1, <3>2, ConstantTypes DEF FirstOf
  <2>3. CASE PartLen(part) = l
    <3>0. PICK e \in Nat : e = s + l
      BY <2>1
    <3>1. End = e % Width
      BY <1>3, <2>3, <3>0 DEF End
    <3>2. CASE s + l <= MaxBlock
      <4>1. e < Width
        BY <2>1, <3>0, <3>2, ConstantTypes
      <4>2. e % Width = e
        BY <4>1, WordRemainder
      <4> QED BY SMTT(60), <1>1, <1>3, <2>1, <2>3, <3>0, <3>1, <3>2, <4>2, ConstantTypes DEF FirstOf
    <3>3. CASE ~(s + l <= MaxBlock)
      <4>1. part = Len(Table) /\ l = Width - 1 /\ s > 0
        BY <2>1, <3>3 DEF Grow
      <4>2. Width <= e /\ e < 2 * Width /\ e - Width = s - 1
        BY SMTT(60), <2>1, <3>0, <4>1, ConstantTypes
      <4>3. End = s - 1
        BY <3>1, <4>2, WordRemainder
      <4>4. opt.map = "flash" => PartLen(part) = MaxBlock - s
        BY <4>1 DEF PartLen, Grow
      <4> QED BY <1>1, <1>3, <2>1, <2>3, <3>3, <4>1, <4>3, <4>4, ConstantTypes
    <3> QED BY <3>2, <3>3
  <2>4. QED
    BY <2>2, <2>3 DEF PartLen
<1>4. QED
  BY <1>2, <1>3

-----------------------------------------------------------------------------
\* -t keeps the pages up to some page, and every page that is not empty is
\* among them.
LEMMA TrimmedKeeps ==
  ASSUME NEW s \in Seq(Items)
  PROVE  /\ s = <<>> => Trimmed(s) = <<[kind |-> "nul"]>>
         /\ s # <<>> => \E m \in 1 .. Len(s) :
              /\ Trimmed(s) = SubSeq(s, 1, m)
              /\ \A n \in 1 .. Len(s) : s[n].kind # "ff" => n <= m
         /\ Trimmed(s) \in Seq(Items)
<1> DEFINE F == {0} \cup {n \in DOMAIN s : s[n].kind # "ff"}
           M == {1, LastFull(s)}
<1>1. Len(s) \in Nat /\ DOMAIN s = 1 .. Len(s)
  OBVIOUS
<1>2. LastFull(s) \in 0 .. Len(s) /\ \A n \in 1 .. Len(s) : s[n].kind # "ff" => n <= LastFull(s)
  <2>1. F \subseteq Int /\ F # {} /\ (\A n \in F : n <= Len(s)) /\ (\A n \in F : 0 <= n)
    BY <1>1
  <2>1a. Len(s) \in Int
    BY <1>1
  <2>2. LastFull(s) = Max(F)
    BY DEF LastFull
  <2>3. \A n \in 1 .. Len(s) : s[n].kind # "ff" => n \in F
    BY <1>1
  <2> HIDE DEF F
  <2>4. Max(F) \in F /\ \A n \in F : n <= Max(F)
    BY <2>1, <2>1a, BoundedMax, Zenon
  <2>5. Max(F) \in Int
    BY <2>1, <2>4, Zenon
  <2>6. 0 <= Max(F) /\ Max(F) <= Len(s)
    BY <2>1, <2>4, Zenon
  <2>7. \A n \in 1 .. Len(s) : s[n].kind # "ff" => n <= Max(F)
    BY <2>3, <2>4, Zenon
  <2> QED BY <1>1, <2>2, <2>5, <2>6, <2>7
<1>3. CASE s # <<>>
  <2>1. Len(s) \in Nat \ {0}
    BY <1>3
  <2>2. Max(M) \in 1 .. Len(s) /\ LastFull(s) <= Max(M)
    <3>1. M \subseteq Int /\ M # {} /\ Len(s) \in Int /\ \A n \in M : n <= Len(s)
      BY <1>2, <2>1
    <3>2. 1 \in M /\ LastFull(s) \in M
      BY <1>2, <2>1
    <3> HIDE DEF M
    <3>3. Max(M) \in M /\ \A n \in M : n <= Max(M)
      BY <3>1, BoundedMax, Zenon
    <3>4. Max(M) \in Int /\ Max(M) <= Len(s) /\ 1 <= Max(M) /\ LastFull(s) <= Max(M)
      BY <3>1, <3>2, <3>3, Zenon
    <3> QED BY <1>1, <3>4
  <2>3. Trimmed(s) = SubSeq(s, 1, Max(M))
    BY <1>3 DEF Trimmed
  <2>4. \A n \in 1 .. Len(s) : s[n].kind # "ff" => n <= Max(M)
    BY <1>1, <1>2, <2>2
  <2> HIDE DEF M
  <2>5. SubSeq(s, 1, Max(M)) \in Seq(Items)
    BY <1>1, <2>2
  <2> QED BY <1>3, <2>2, <2>3, <2>4, <2>5
<1>4. CASE s = <<>>
  BY <1>4 DEF Trimmed, Items
<1>5. QED
  BY <1>3, <1>4

\* The filler of a bad block: a page for each page of the block.
LEMMA FillerPages ==
  ASSUME NEW b \in Int
  PROVE  /\ Filler(b) \in Seq(PageItems) /\ Len(Filler(b)) = Ppb
         /\ \A n \in 1 .. Ppb : Filler(b)[n] = [kind |-> "bb", b |-> b, p |-> n - 1]
<1>1. \A n \in 1 .. Ppb : [kind |-> "bb", b |-> b, p |-> n - 1] \in PageItems
  BY ConstantTypes DEF PageItems
<1>2. QED
  BY <1>1, ConstantTypes DEF Filler

LEMMA InitTypes == Init => TypeOK /\ Bounds
<1> SUFFICES ASSUME Init PROVE TypeOK /\ Bounds
  OBVIOUS
<1>1. regs \in Regs /\ oldcfg0 \in Regs /\ trusted \in BOOLEAN
  BY ConstantsAssumption DEF Init, InitRun, ResetRegs, Regs
<1>2. out \in [OutFiles -> Seq(Items)] /\ buf \in Seq(PageItems)
  BY DEF Init, InitRun, NoFiles
<1>3. opt \in OptionSets /\ content \in [Blocks -> [Pages -> {"data", "ff"}]]
      /\ marked \in SUBSET Blocks
  BY ConstantTypes DEF Init, InitRun
<1>4. part \in 0 .. Len(Table) + 1 /\ block \in Nat /\ page \in 0 .. Ppb /\ run \in Nat
      /\ faults \in Nat /\ pc \in Labels
  BY ConstantTypes DEF Init, InitRun, Labels
<1>5. Bounds
  BY DEF Init, InitRun, Bounds, FileLabels
<1>6. QED
  BY <1>1, <1>2, <1>3, <1>4, <1>5 DEF TypeOK

-----------------------------------------------------------------------------
(* Types and bounds.                                                        *)

\* The block being read is one of the flash.
LEMMA BlockInFlash ==
  ASSUME TypeOK, Bounds, pc \in FileLabels
  PROVE  /\ part \in OutFiles /\ part \in 0 .. Len(Table)
         /\ block < End => block \in Blocks
<1>1. part \in 0 .. Len(Table)
  BY ConstantTypes DEF TypeOK, Bounds, OutFiles
<1>2. QED
  BY <1>1, EndBound, ConstantTypes DEF TypeOK, OutFiles, Blocks

LEMMA NextType == TypeOK /\ Bounds /\ [Next]_vars => TypeOK'
<1> SUFFICES ASSUME TypeOK, Bounds, [Next]_vars PROVE TypeOK'
  OBVIOUS
<1> USE DEF TypeOK
<1>1. CASE StartRun
  <2>1. NoFiles \in [OutFiles -> Seq(Items)] /\ 0 \in 0 .. Ppb
        /\ 0 \in 0 .. Len(Table) + 1 /\ <<>> \in Seq(PageItems)
    BY ConstantTypes DEF NoFiles
  <2>2. "args" \in Labels /\ regs.bad \in BOOLEAN
    BY DEF Labels, Regs
  <2>3. QED
    BY <1>1, <2>1, <2>2 DEF StartRun, flash
<1>2. CASE CheckArgs
  BY <1>2 DEF CheckArgs, Labels, Ended, flash
<1>3. CASE Hello
  <2>1. Spp - 1 \in 0 .. 15
    BY ConstantsAssumption
  <2>2. regs' \in Regs
    BY <1>3, <2>1 DEF Hello, Regs
  <2>3. QED
    BY <1>3, <2>2 DEF Hello, Labels, flash
<1>4. CASE SetEcc
  <2>1. [regs EXCEPT !.ecc = ~opt.e] \in Regs
    BY DEF Regs
  <2>2. QED
    BY <1>4, <2>1 DEF SetEcc, Labels, flash
<1>5. CASE OpenRaw
  BY <1>5, OptionTypes DEF OpenRaw, Labels, Ended, flash
<1>6. CASE NoTable
  BY <1>6 DEF NoTable, Labels, Ended, flash
<1>7. CASE LoadTable
  BY <1>7, ConstantTypes DEF LoadTable, Labels, Ended, flash
<1>8. CASE NextPart
  BY SMTT(60), <1>8, ConstantTypes DEF NextPart, Labels, Ended, flash, Blocks, Bounds
<1>9. CASE Defect
  <2>1. part \in OutFiles
    BY <1>9, BlockInFlash DEF Defect, DefectIf, FileLabels
  <2>2. out[part] \o Filler(block) \in Seq(Items)
    BY <2>1, FillerPages DEF Items
  <2>3. out' \in [OutFiles -> Seq(Items)]
    BY <1>9, <2>1, <2>2 DEF Defect, DefectIf
  <2>4. QED
    BY <1>9, <2>3 DEF Defect, DefectIf, flash
<1>10. CASE BeginBlock
  <2>1. [regs EXCEPT !.bad = @ /\ ~(Mode = "disable")] \in Regs
    BY DEF Regs
  <2>2. QED
    BY <1>10, <2>1, ConstantTypes DEF BeginBlock, BeginBlockIf, Labels, flash
<1>11. CASE ReadPage
  <2>1. block \in Blocks /\ page \in Pages
    BY <1>11, BlockInFlash, ConstantTypes DEF ReadPage, FileLabels, Bounds, Pages
  <2>2. ReadKind(block, page) \in {"data", "ff", "mk"}
    BY <2>1 DEF ReadKind
  <2>3. PICK lost \in BOOLEAN :
             /\ faults' = IF lost THEN faults + 1 ELSE faults
             /\ buf' = Append(buf, [kind |-> IF lost THEN "eb" ELSE ReadKind(block, page),
                                    b |-> block, p |-> page])
    BY <1>11 DEF ReadPage
  <2>4. [kind |-> IF lost THEN "eb" ELSE ReadKind(block, page), b |-> block, p |-> page]
        \in PageItems
    BY <2>1, <2>2, ConstantTypes DEF PageItems, Pages, Blocks
  <2>5. buf' \in Seq(PageItems) /\ faults' \in Nat
    BY <2>3, <2>4
  <2>6. page' \in 0 .. Ppb
    BY <1>11, ConstantTypes DEF ReadPage
  <2>7. QED
    BY <1>11, <2>5, <2>6 DEF ReadPage, flash
<1>12. CASE EndBlock
  <2>1. part \in OutFiles
    BY <1>12, BlockInFlash DEF EndBlock, FileLabels
  <2>2. out[part] \o buf \in Seq(Items)
    BY <2>1 DEF Items
  <2>3. out' \in [OutFiles -> Seq(Items)]
    BY <1>12, <2>1, <2>2 DEF EndBlock
  <2>4. RegsAfterBlock \in Regs
    BY DEF RegsAfterBlock, Regs
  <2>5. QED
    BY <1>12, <2>3, <2>4 DEF EndBlock, Labels, flash
<1>13. CASE CloseFile
  <2>1. part \in 0 .. Len(Table)
    BY <1>13, BlockInFlash DEF CloseFile, FileLabels
  <2>2. part' \in 0 .. Len(Table) + 1 /\ pc' \in Labels
    BY <1>13, <2>1, ConstantTypes DEF CloseFile, Labels, Ended
  <2>3. QED
    BY <1>13, <2>2 DEF CloseFile, flash
<1>14. CASE TrimFile
  <2>1. part \in 0 .. Len(Table) /\ part \in OutFiles
    BY <1>14, BlockInFlash DEF TrimFile, FileLabels
  <2>2. out' \in [OutFiles -> Seq(Items)]
    BY <1>14, <2>1, TrimmedKeeps DEF TrimFile
  <2>3. part' \in 0 .. Len(Table) + 1
    BY <1>14, <2>1, ConstantTypes DEF TrimFile
  <2>4. QED
    BY <1>14, <2>2, <2>3 DEF TrimFile, Labels, flash
<1>15. CASE RestoreEcc
  BY <1>15 DEF RestoreEcc, Labels, Ended, Regs, flash
<1>16. CASE Kill
  BY <1>16 DEF Kill, Labels, Ended, flash
<1>17. CASE UNCHANGED vars
  BY <1>17 DEF vars, flash
<1>18. QED
  BY <1>1, <1>2, <1>3, <1>4, <1>5, <1>6, <1>7, <1>8, <1>9, <1>10, <1>11, <1>12, <1>13,
     <1>14, <1>15, <1>16, <1>17 DEF Next, Step, Finished

LEMMA NextBounds == TypeOK /\ Bounds /\ [Next]_vars => Bounds'
<1> SUFFICES ASSUME TypeOK, Bounds, [Next]_vars PROVE Bounds'
  OBVIOUS
<1>1. CASE StartRun
  BY <1>1 DEF StartRun, Bounds, FileLabels
<1>2. CASE CheckArgs
  BY <1>2 DEF CheckArgs, Bounds, FileLabels, PartFlag
<1>3. CASE Hello \/ SetEcc \/ NoTable \/ RestoreEcc \/ Kill
  <2>1. UNCHANGED <<opt, part>> /\ pc' \notin FileLabels \cup {"part", "restore", "args"}
    BY <1>3 DEF Hello, SetEcc, NoTable, RestoreEcc, Kill, FileLabels
  <2>2. pc' \in {"hello", "ecc", "raw", "table"} => part = 0
    BY <1>3 DEF Hello, SetEcc, NoTable, RestoreEcc, Kill, Bounds
  <2>3. (pc' = "raw" => ~PartFlag) /\ (pc' = "table" => PartFlag)
        /\ (pc' = "done" => part > Len(Table))
    BY <1>3 DEF Hello, SetEcc, NoTable, RestoreEcc, Kill, Bounds
  <2>4. QED
    BY <2>1, <2>2, <2>3 DEF Bounds, FileLabels, PartFlag
<1>4. CASE OpenRaw
  <2>1. block' = FirstOf(part)' /\ part' = 0 /\ ~PartFlag' /\ block' <= block'
    BY <1>4, OptionTypes DEF OpenRaw, Bounds, FirstOf, PartFlag, TypeOK
  <2>2. QED
    BY <1>4, <2>1 DEF OpenRaw, Bounds, FileLabels
<1>5. CASE LoadTable
  BY <1>5 DEF LoadTable, Bounds, FileLabels, PartFlag
<1>6. CASE NextPart
  <2>1. UNCHANGED opt /\ part \in Nat \ {0} /\ PartFlag
    BY <1>6 DEF NextPart, Bounds, TypeOK
  <2>2. CASE pc' = "block"
    <3>1. part \in 1 .. Len(Table) /\ Selected(part) /\ UNCHANGED part
          /\ block' = FirstOf(part)
      BY <1>6, <2>1, <2>2, ConstantTypes DEF NextPart, FirstOf
    <3>2. FirstOf(part) <= FirstOf(part)
      BY <3>1, ConstantTypes DEF FirstOf, Blocks
    <3>3. QED
      BY <2>1, <2>2, <3>1, <3>2 DEF Bounds, FileLabels, FirstOf, Selected, PartNumber, PartFlag
  <2>3. CASE pc' # "block"
    <3>1. pc' \in {"restore", "part", "exit"} /\ part' \in {part, part + 1}
          /\ (pc' = "restore" => part' > Len(Table))
      BY <1>6, <2>1, <2>3 DEF NextPart
    <3>2. QED
      BY <2>1, <3>1, ConstantTypes DEF Bounds, FileLabels, PartFlag, TypeOK
  <2>4. QED
    BY <2>2, <2>3
<1>7. CASE Defect \/ BeginBlock \/ ReadPage \/ EndBlock
  <2>1. /\ UNCHANGED <<opt, part>> /\ pc \in {"block", "page"} /\ pc' \in {"block", "page"}
        /\ block' \in {block, block + 1} /\ (pc' = "page" => block < End /\ block' = block)
    BY <1>7 DEF Defect, DefectIf, BeginBlock, BeginBlockIf, ReadPage, EndBlock, Bounds
  <2>2. part \in OutFiles /\ FirstOf(part) \in Nat
    BY <2>1, BlockInFlash, OptionTypes DEF FileLabels, TypeOK
  <2>3. FirstOf(part)' = FirstOf(part) /\ PartFlag' = PartFlag
        /\ Selected(part)' = Selected(part) /\ End' = End
    BY <2>1 DEF FirstOf, PartFlag, Selected, PartNumber, End, PartLen
  <2>4. FirstOf(part) <= block /\ block <= block'
    BY <2>1, <2>2 DEF Bounds, FileLabels, TypeOK
  <2>5. QED
    BY <2>1, <2>2, <2>3, <2>4 DEF Bounds, FileLabels, TypeOK
<1>8. CASE CloseFile
  <2>1. UNCHANGED <<opt, block>> /\ part \in 0 .. Len(Table)
    BY <1>8, BlockInFlash DEF CloseFile, FileLabels
  <2>2. CASE part = 0
    BY <1>8, <2>1, <2>2 DEF CloseFile, Bounds, FileLabels, PartFlag
  <2>3. CASE part > 0 /\ opt.t
    BY <1>8, <2>1, <2>3 DEF CloseFile, Bounds, FileLabels, PartFlag, FirstOf, Selected,
                            PartNumber, End, PartLen
  <2>4. CASE part > 0 /\ ~opt.t
    BY <1>8, <2>1, <2>4 DEF CloseFile, Bounds, FileLabels, PartFlag
  <2>5. QED
    BY <1>8, <2>1, <2>2, <2>3, <2>4 DEF CloseFile
<1>9. CASE TrimFile
  BY <1>9 DEF TrimFile, Bounds, FileLabels, PartFlag, TypeOK
<1>10. CASE UNCHANGED vars
  BY <1>10 DEF vars, Bounds, FileLabels, PartFlag, FirstOf, Selected, PartNumber, End, PartLen
<1>11. QED
  BY <1>1, <1>2, <1>3, <1>4, <1>5, <1>6, <1>7, <1>8, <1>9, <1>10 DEF Next, Step, Finished

-----------------------------------------------------------------------------
(* What a run knows of the flash, and the block it works on.                *)

\* Nothing writes to the flash, and a run keeps its command line.
LEMMA RunFrame ==
  ASSUME [Next]_vars
  PROVE  /\ UNCHANGED <<content, marked>>
         /\ StartRun \/ UNCHANGED <<opt, trusted>>
  BY DEF Next, Step, Finished, vars, flash, StartRun, CheckArgs, Hello, SetEcc, OpenRaw,
         NoTable, LoadTable, NextPart, Defect, DefectIf, BeginBlock, BeginBlockIf, ReadPage,
         EndBlock, CloseFile, TrimFile, RestoreEcc, Kill

\* The steps of the page loop, and the others.
LEMMA PageFrame ==
  ASSUME TypeOK, [Next]_vars
  PROVE  \/ StartRun \/ BeginBlock \/ ReadPage \/ EndBlock
         \/ pc = "page" /\ pc' = "killed" /\ UNCHANGED buf
         \/ pc # "page" /\ pc' # "page" /\ regs'.bad = regs.bad /\ UNCHANGED buf
         \/ UNCHANGED vars
<1> SUFFICES ASSUME ~StartRun, ~BeginBlock, ~ReadPage, ~EndBlock, ~(UNCHANGED vars)
             PROVE  \/ pc = "page" /\ pc' = "killed" /\ UNCHANGED buf
                    \/ pc # "page" /\ pc' # "page" /\ regs'.bad = regs.bad /\ UNCHANGED buf
  OBVIOUS
<1>1. CASE Hello \/ SetEcc \/ RestoreEcc
  BY <1>1 DEF Hello, SetEcc, RestoreEcc, TypeOK, Regs
<1>2. CASE CheckArgs \/ OpenRaw \/ NoTable \/ LoadTable \/ NextPart
  BY <1>2 DEF CheckArgs, OpenRaw, NoTable, LoadTable, NextPart
<1>3. CASE Defect \/ CloseFile \/ TrimFile \/ Kill
  BY <1>3 DEF Defect, DefectIf, CloseFile, TrimFile, Kill
<1>4. QED
  BY <1>1, <1>2, <1>3 DEF Next, Step, Finished

LEMMA NextMarksRead == TypeOK /\ MarksRead /\ [Next]_vars => MarksRead'
<1> SUFFICES ASSUME TypeOK, MarksRead, [Next]_vars PROVE MarksRead'
  OBVIOUS
<1>1. CASE StartRun
  BY <1>1 DEF StartRun, MarksRead
<1>2. CASE ~StartRun
  <2>1. UNCHANGED <<opt, trusted>> /\ Mode' = Mode
    BY <1>2, RunFrame DEF Mode, PartFlag
  <2>2. regs \in [cw: 0 .. 15, ud: {"dev", "516", "part"}, ecc: BOOLEAN, bad: BOOLEAN]
    BY DEF TypeOK, Regs
  <2>3. CASE BeginBlock
    <3>1. /\ pc = "block" /\ pc' = "page"
          /\ regs'.bad = (regs.bad /\ ~(Mode = "disable"))
      BY <2>2, <2>3 DEF BeginBlock, BeginBlockIf
    <3>2. QED
      BY <2>1, <3>1 DEF MarksRead
  <2>4. CASE ReadPage
    BY <2>1, <2>4 DEF ReadPage, MarksRead
  <2>5. CASE EndBlock
    <3>1. /\ pc = "page" /\ pc' = "block"
          /\ regs'.bad = (regs.bad \/ Mode = "disable")
      BY <2>2, <2>5 DEF EndBlock, RegsAfterBlock
    <3>2. QED
      BY <2>1, <3>1 DEF MarksRead
  <2>6. CASE pc = "page" /\ pc' = "killed"
    BY <2>6 DEF MarksRead
  <2>7. CASE /\ pc # "page" /\ pc' # "page" /\ regs'.bad = regs.bad
             /\ pc = "killed" => pc' = "killed"
    BY <2>1, <2>7 DEF MarksRead
  <2>8. CASE UNCHANGED vars
    BY <2>1, <2>8 DEF vars, MarksRead
  <2>9. pc = "killed" => UNCHANGED vars
    BY <1>2 DEF Next, Step, Finished, CheckArgs, Hello, SetEcc, OpenRaw, NoTable, LoadTable,
                NextPart, Defect, DefectIf, BeginBlock, BeginBlockIf, ReadPage, EndBlock,
                CloseFile, TrimFile, RestoreEcc, Kill, Ended
  <2>10. QED
    BY <1>2, <2>3, <2>4, <2>5, <2>6, <2>7, <2>8, <2>9, PageFrame
<1>3. QED
  BY <1>1, <1>2

LEMMA NextChecked == TypeOK /\ MarksRead /\ Checked /\ [Next]_vars => Checked'
<1> SUFFICES ASSUME TypeOK, MarksRead, Checked, [Next]_vars PROVE Checked'
  OBVIOUS
<1>1. CASE StartRun
  BY <1>1 DEF StartRun, Checked
<1>2. CASE ~StartRun
  <2>1. UNCHANGED <<opt, trusted, marked>> /\ Mode' = Mode
    BY <1>2, RunFrame DEF Mode, PartFlag
  <2>2. CASE BeginBlock
    <3>1. trusted /\ Mode \in {"fill", "skip"} => block \notin marked
      BY <2>2 DEF BeginBlock, BeginBlockIf, MarksRead, CheckBlock
    <3>2. QED
      BY <2>1, <2>2, <3>1 DEF BeginBlock, BeginBlockIf, Checked
  <2>3. CASE ReadPage
    BY <2>1, <2>3 DEF ReadPage, Checked
  <2>4. CASE pc' # "page"
    BY <2>4 DEF Checked
  <2>5. CASE UNCHANGED vars
    BY <2>1, <2>5 DEF vars, Checked
  <2>6. QED
    BY <1>2, <2>2, <2>3, <2>4, <2>5, PageFrame DEF EndBlock
<1>3. QED
  BY <1>1, <1>2

LEMMA NextBuffered ==
  TypeOK /\ Bounds /\ MarksRead /\ Checked /\ Buffered /\ [Next]_vars => Buffered'
<1> SUFFICES ASSUME TypeOK, Bounds, MarksRead, Checked, Buffered, [Next]_vars PROVE Buffered'
  OBVIOUS
<1>1. CASE StartRun
  BY <1>1 DEF StartRun, Buffered
<1>2. CASE ~StartRun
  <2>1. UNCHANGED <<opt, trusted, marked, content>> /\ Mode' = Mode
    BY <1>2, RunFrame DEF Mode, PartFlag
  <2>2. CASE BeginBlock
    BY <2>2 DEF BeginBlock, BeginBlockIf, Buffered
  <2>3. CASE ReadPage
    <3>1. PICK lost \in BOOLEAN :
            buf' = Append(buf, [kind |-> IF lost THEN "eb" ELSE ReadKind(block, page),
                                b |-> block, p |-> page])
      BY <2>3 DEF ReadPage
    <3> DEFINE new == [kind |-> IF lost THEN "eb" ELSE ReadKind(block, page),
                       b |-> block, p |-> page]
    <3>2. pc = "page" /\ Len(buf) = page /\ page' = page + 1 /\ UNCHANGED <<pc, block>>
      BY <2>3 DEF ReadPage, Buffered
    <3>3. block \in Blocks /\ page \in Pages
      BY <2>3, BlockInFlash, ConstantTypes DEF ReadPage, FileLabels, Bounds, Pages, TypeOK
    <3>4. trusted => Truthful(new)
      <4>1. ASSUME trusted PROVE \/ ReadKind(block, page) = content[block][page]
                                 \/ /\ ReadKind(block, page) = "mk" /\ Mode = "disable"
                                    /\ block \in marked /\ page = 0
        BY <3>2, <4>1 DEF ReadKind, MarksRead
      <4>2. trusted /\ Mode \in {"fill", "skip"} => block \notin marked
        BY <3>2 DEF Checked
      <4>3. QED
        BY <4>1, <4>2 DEF Truthful
    <3> HIDE DEF new
    <3>5. /\ Len(buf') = page + 1 /\ buf'[page + 1] = new
          /\ \A n \in 1 .. page : buf'[n] = buf[n]
      BY <3>1, <3>2 DEF TypeOK, new
    <3>6. new.b = block /\ new.p = page
      BY DEF new
    <3>7. \A n \in 1 .. page + 1 : n = page + 1 \/ n \in 1 .. page
      BY <3>3 DEF Pages
    <3>8. \A n \in 1 .. page + 1 :
            buf'[n].b = block /\ buf'[n].p = n - 1 /\ (trusted => Truthful(buf'[n]))
      BY <3>2, <3>3, <3>4, <3>5, <3>6, <3>7 DEF Buffered, Pages
    <3>9. \A item : Truthful(item)' <=> Truthful(item)
      BY <2>1 DEF Truthful
    <3>10. QED
      BY <2>1, <3>2, <3>5, <3>8, <3>9 DEF Buffered
  <2>4. CASE pc' # "page"
    BY <2>4 DEF Buffered
  <2>5. CASE UNCHANGED vars
    BY <2>1, <2>5 DEF vars, Buffered, Truthful
  <2>6. QED
    BY <1>2, <2>2, <2>3, <2>4, <2>5, PageFrame DEF EndBlock
<1>3. QED
  BY <1>1, <1>2

-----------------------------------------------------------------------------
(* The files.                                                               *)

\* A file gets the pages of one more block behind the k it has.
LEMMA Extended ==
  ASSUME NEW s \in Seq(Items), NEW pages \in Seq(PageItems), Len(pages) = Ppb,
         NEW k \in Int, Len(s) = k * Ppb
  PROVE  /\ Len(s \o pages) = (k + 1) * Ppb
         /\ \A n \in 1 .. Len(s) : (s \o pages)[n] = s[n]
         /\ \A n \in 1 .. Len(s \o pages) :
              \/ n \in 1 .. Len(s)
              \/ \E i \in 1 .. Ppb : /\ (s \o pages)[n] = pages[i]
                                     /\ (n - 1) \div Ppb = k /\ (n - 1) % Ppb = i - 1
         /\ \A i \in 1 .. Ppb : /\ Len(s) + i \in 1 .. Len(s \o pages)
                                /\ (s \o pages)[Len(s) + i] = pages[i]
<1> DEFINE t == s \o pages
           l == Len(s)
<1>1. Ppb \in Nat \ {0} /\ l \in Nat
  BY ConstantTypes
<1>2. Len(t) = l + Ppb
  <2>1. pages \in Seq(Items)
    BY DEF Items
  <2>2. Len(t) = l + Len(pages)
    BY <2>1
  <2>3. QED
    BY <2>2
<1>3. \A n \in 1 .. l : t[n] = s[n]
  OBVIOUS
<1>4. \A i \in 1 .. Ppb : l + i \in 1 .. Len(t) /\ t[l + i] = pages[i]
  BY <1>1
<1>5. (k + 1) * Ppb = k * Ppb + Ppb
  BY <1>1
<1>6. ASSUME NEW n \in 1 .. Len(t), n \notin 1 .. l
      PROVE  \E i \in 1 .. Ppb : /\ t[n] = pages[i]
                                 /\ (n - 1) \div Ppb = k /\ (n - 1) % Ppb = i - 1
  <2> HIDE DEF t, l
  <2>1. PICK i \in 1 .. Ppb : n = l + i
    <3>1. n - l \in 1 .. Ppb /\ n = l + (n - l)
      BY <1>1, <1>2, <1>6
    <3>2. QED
      BY <3>1
  <2>2. i - 1 \in 0 .. Ppb - 1 /\ n - 1 = k * Ppb + (i - 1)
    <3>1. l = k * Ppb
      BY DEF l
    <3>2. QED
      BY <1>1, <2>1, <3>1
  <2>3. (k * Ppb + (i - 1)) \div Ppb = k /\ (k * Ppb + (i - 1)) % Ppb = i - 1
    BY <1>1, <2>2, DivMod, Zenon
  <2>4. t[n] = pages[i]
    BY <1>4, <2>1
  <2>5. QED
    BY <2>2, <2>3, <2>4, Zenon
<1>7. QED
  BY <1>1, <1>2, <1>3, <1>4, <1>5, <1>6

\* Counting the blocks a file has.
LEMMA PlaceSteps ==
  ASSUME NEW f, FirstOf(f) \in Nat, NEW b \in Nat, FirstOf(f) <= b
  PROVE  /\ PlaceOf(f, b) \in Nat
         /\ PlaceOf(f, FirstOf(f)) = 0
         /\ PlaceOf(f, b + 1) = IF Mode = "skip" /\ b \in marked THEN PlaceOf(f, b)
                                                                 ELSE PlaceOf(f, b) + 1
<1> DEFINE good(x) == {g \in FirstOf(f) .. x - 1 : g \notin marked}
<1>1. CASE Mode = "skip"
  <2>1. IsFiniteSet(good(b)) /\ Cardinality(good(b)) \in Nat
    <3>1. IsFiniteSet(FirstOf(f) .. b - 1)
      BY FS_Interval
    <3>2. good(b) \in SUBSET (FirstOf(f) .. b - 1)
      OBVIOUS
    <3> HIDE DEF good
    <3>3. IsFiniteSet(good(b))
      BY <3>1, <3>2, FS_Subset
    <3>4. QED
      BY <3>3, FS_CardinalityType
  <2>2. good(FirstOf(f)) = {} /\ Cardinality({}) = 0
    BY FS_EmptySet
  <2>3. good(b + 1) = IF b \in marked THEN good(b) ELSE good(b) \cup {b}
    OBVIOUS
  <2>4. b \notin good(b)
    OBVIOUS
  <2>5. PlaceOf(f, b) = Cardinality(good(b)) /\ PlaceOf(f, b + 1) = Cardinality(good(b + 1))
        /\ PlaceOf(f, FirstOf(f)) = Cardinality(good(FirstOf(f)))
    BY <1>1 DEF PlaceOf
  <2> HIDE DEF good
  <2>6. Cardinality(good(b) \cup {b}) = Cardinality(good(b)) + 1
    BY <2>1, <2>4, FS_AddElement
  <2>7. QED
    BY <1>1, <2>1, <2>2, <2>3, <2>5, <2>6
<1>2. CASE Mode # "skip"
  BY <1>2 DEF PlaceOf
<1>3. QED
  BY <1>1, <1>2

\* What happens to the files in a step.
LEMMA FileSteps ==
  ASSUME [Next]_vars, TypeOK, Bounds
  PROVE  \/ StartRun
         \/ UNCHANGED out
         \/ /\ Defect /\ Mode = "fill"
            /\ out' = [out EXCEPT ![part] = @ \o Filler(block)]
         \/ EndBlock \/ TrimFile
<1>1. CASE Defect
  BY <1>1 DEF Defect, DefectIf
<1>2. CASE ~Defect
  BY <1>2 DEF Next, Step, Finished, vars, CheckArgs, Hello, SetEcc, OpenRaw, NoTable,
              LoadTable, NextPart, BeginBlock, BeginBlockIf, ReadPage, CloseFile, RestoreEcc,
              Kill
<1>3. QED
  BY <1>1, <1>2

LEMMA NextNotBegun == TypeOK /\ Bounds /\ NotBegun /\ [Next]_vars => NotBegun'
<1> SUFFICES ASSUME TypeOK, Bounds, NotBegun, [Next]_vars PROVE NotBegun'
  OBVIOUS
<1>0. part \in Nat /\ Len(Table) \in Nat
  BY ConstantTypes DEF TypeOK
<1>1. CASE StartRun
  BY <1>1 DEF StartRun, NotBegun, FileLabels
<1>2. CASE CheckArgs \/ Hello \/ SetEcc \/ NoTable \/ RestoreEcc \/ Kill
  <2>1. /\ UNCHANGED out /\ pc' \notin {"part"} \cup FileLabels
        /\ pc' \in {"args", "hello", "ecc", "raw", "table"} =>
             pc \in {"args", "hello", "ecc", "raw", "table"}
    BY <1>2 DEF CheckArgs, Hello, SetEcc, NoTable, RestoreEcc, Kill, FileLabels
  <2>2. QED
    BY <2>1 DEF NotBegun
<1>3. CASE OpenRaw \/ LoadTable
  <2>1. UNCHANGED out /\ out = NoFiles /\ pc' \notin {"args", "hello", "ecc", "raw", "table"}
    BY <1>3 DEF OpenRaw, LoadTable, NotBegun
  <2>2. QED
    BY <2>1 DEF NotBegun, NoFiles
<1>4. CASE NextPart
  <2>1. /\ UNCHANGED out /\ pc' \notin {"args", "hello", "ecc", "raw", "table"}
        /\ pc' = "part" => part' = part + 1
        /\ pc' \in FileLabels => part' = part
        /\ pc = "part"
    BY <1>4 DEF NextPart, FileLabels
  <2>2. QED
    BY <1>0, <2>1 DEF NotBegun, OutFiles
<1>5. CASE Defect \/ EndBlock
  <2>1. /\ pc \in FileLabels /\ pc' = "block" /\ part' = part
        /\ \A f \in OutFiles : f # part => out'[f] = out[f]
    BY <1>5 DEF Defect, DefectIf, EndBlock, FileLabels, TypeOK
  <2>2. QED
    BY <1>0, <2>1 DEF NotBegun, OutFiles
<1>6. CASE BeginBlock \/ ReadPage
  <2>1. pc \in FileLabels /\ pc' = "page" /\ UNCHANGED <<part, out>>
    BY <1>6 DEF BeginBlock, BeginBlockIf, ReadPage, FileLabels
  <2>2. QED
    BY <2>1 DEF NotBegun
<1>7. CASE CloseFile
  <2>1. /\ pc \in FileLabels /\ UNCHANGED out
        /\ pc' = "part" => part' = part + 1
        /\ pc' \in FileLabels => part' = part
        /\ pc' \notin {"args", "hello", "ecc", "raw", "table"}
    BY <1>7 DEF CloseFile, FileLabels
  <2>2. QED
    BY <1>0, <2>1 DEF NotBegun, OutFiles
<1>8. CASE TrimFile
  <2>1. /\ pc \in FileLabels /\ pc' = "part" /\ part' = part + 1
        /\ \A f \in OutFiles : f # part => out'[f] = out[f]
    BY <1>8 DEF TrimFile, FileLabels, TypeOK
  <2>2. QED
    BY <1>0, <2>1 DEF NotBegun, OutFiles, FileLabels
<1>9. CASE UNCHANGED vars
  BY <1>9 DEF vars, NotBegun
<1>10. QED
  BY <1>1, <1>2, <1>3, <1>4, <1>5, <1>6, <1>7, <1>8, <1>9 DEF Next, Step, Finished

LEMMA NextFilled ==
  TypeOK /\ Bounds /\ MarksRead /\ Checked /\ NotBegun /\ Buffered /\ Filled /\ [Next]_vars
    => Filled'
<1> SUFFICES ASSUME TypeOK, Bounds, MarksRead, Checked, NotBegun, Buffered, Filled,
                    [Next]_vars
             PROVE  Filled'
  OBVIOUS
<1>1. CASE StartRun
  BY <1>1 DEF StartRun, Filled
<1>2. CASE ~StartRun
  <2>1. UNCHANGED <<opt, trusted, marked>> /\ Mode' = Mode
    BY <1>2, RunFrame DEF Mode, PartFlag
  <2>2. \A f, b : PlaceOf(f, b)' = PlaceOf(f, b)
    BY <2>1 DEF PlaceOf, FirstOf
  <2>2a. PlaceOf(part, block)' = PlaceOf(part', block')
    BY <2>1 DEF PlaceOf, FirstOf
  <2>2b. Filled' <=> (trusted /\ pc' \in {"block", "page"} =>
                        Len(out'[part']) = PlaceOf(part', block') * Ppb)
    BY <2>1, <2>2a DEF Filled
  <2>3. CASE OpenRaw \/ NextPart
    <3>1. CASE pc' = "block"
      <4>1. part' = part /\ part \in OutFiles /\ out' = out /\ out[part] = <<>>
            /\ block' = FirstOf(part)
        BY <2>3, <3>1, ConstantTypes
           DEF OpenRaw, NextPart, Bounds, NotBegun, NoFiles, OutFiles, FirstOf, TypeOK
      <4>2. PlaceOf(part, FirstOf(part)) = 0
        <5>1. FirstOf(part) \in Nat /\ FirstOf(part) <= FirstOf(part)
          BY <4>1, OptionTypes DEF TypeOK
        <5>2. QED
          BY <5>1, PlaceSteps
      <4>3. Len(<<>>) = 0 * Ppb
        BY ConstantTypes
      <4>4. QED
        BY <2>2b, <4>1, <4>2, <4>3
    <3>2. CASE pc' # "block"
      BY <2>3, <3>2 DEF OpenRaw, NextPart, Filled
    <3>3. QED
      BY <3>1, <3>2
  <2>4. CASE Defect \/ EndBlock
    <3> SUFFICES ASSUME trusted
                 PROVE  Len(out'[part']) = PlaceOf(part', block') * Ppb
      BY <2>2b
    <3>1. /\ part' = part /\ part \in OutFiles /\ block' = block + 1
          /\ pc \in {"block", "page"} /\ out[part] \in Seq(Items)
          /\ block \in Nat /\ FirstOf(part) \in Nat /\ FirstOf(part) <= block
      BY <2>4, BlockInFlash, OptionTypes
         DEF Defect, DefectIf, EndBlock, FileLabels, TypeOK, Bounds
    <3>2. Len(out[part]) = PlaceOf(part, block) * Ppb /\ PlaceOf(part, block) \in Int
      BY <3>1, PlaceSteps DEF Filled
    <3>3. ASSUME NEW pages \in Seq(PageItems), Len(pages) = Ppb,
                 out' = [out EXCEPT ![part] = @ \o pages],
                 ~(Mode = "skip" /\ block \in marked)
          PROVE  Len(out'[part']) = PlaceOf(part', block') * Ppb
      <4>1. Len(out[part] \o pages) = (PlaceOf(part, block) + 1) * Ppb
        BY <3>1, <3>2, <3>3, Extended
      <4>2. PlaceOf(part, block + 1) = PlaceOf(part, block) + 1
        BY <3>1, <3>3, PlaceSteps
      <4>3. out'[part] = out[part] \o pages
        BY <3>1, <3>3 DEF TypeOK
      <4>4. QED
        BY <3>1, <4>1, <4>2, <4>3
    <3>4. CASE Defect /\ Mode = "fill"
      <4>1. out' = [out EXCEPT ![part] = @ \o Filler(block)]
        BY <3>4 DEF Defect, DefectIf
      <4>2. Filler(block) \in Seq(PageItems) /\ Len(Filler(block)) = Ppb
        BY <3>1, FillerPages
      <4>3. QED
        BY <3>3, <3>4, <4>1, <4>2
    <3>5. CASE Defect /\ Mode = "skip"
      <4>1. block \in marked /\ out' = out
        BY <3>5 DEF Defect, DefectIf, MarksRead, CheckBlock
      <4>2. PlaceOf(part, block + 1) = PlaceOf(part, block)
        BY <3>1, <3>5, <4>1, PlaceSteps
      <4>3. QED
        BY <3>1, <3>2, <4>1, <4>2
    <3>6. CASE EndBlock
      <4>1. /\ out' = [out EXCEPT ![part] = @ \o buf] /\ Len(buf) = Ppb
            /\ ~(Mode = "skip" /\ block \in marked)
        BY <3>6 DEF EndBlock, Buffered, Checked
      <4>2. buf \in Seq(PageItems)
        BY DEF TypeOK
      <4>3. QED
        BY <3>3, <4>1, <4>2
    <3>7. QED
      BY <2>4, <3>4, <3>5, <3>6 DEF Defect, DefectIf
  <2>5. CASE BeginBlock \/ ReadPage
    <3>1. UNCHANGED <<part, block, out>> /\ pc \in {"block", "page"}
      BY <2>5 DEF BeginBlock, BeginBlockIf, ReadPage
    <3>2. QED
      BY <2>2b, <3>1 DEF Filled
  <2>6. CASE CheckArgs \/ Hello \/ SetEcc \/ NoTable \/ LoadTable \/ CloseFile \/ TrimFile
             \/ RestoreEcc \/ Kill
    <3>1. pc' \notin {"block", "page"}
      BY <2>6 DEF CheckArgs, Hello, SetEcc, NoTable, LoadTable, CloseFile, TrimFile,
                  RestoreEcc, Kill
    <3>2. QED
      BY <3>1 DEF Filled
  <2>7. CASE UNCHANGED vars
    BY <2>2b, <2>7 DEF vars, Filled
  <2>8. QED
    BY <1>2, <2>3, <2>4, <2>5, <2>6, <2>7 DEF Next, Step, Finished
<1>3. QED
  BY <1>1, <1>2

\* Where the pages of a file after a step come from.
LEMMA ItemOrigin ==
  ASSUME TypeOK, Bounds, Buffered, [Next]_vars, ~StartRun, NEW f \in OutFiles,
         NEW n \in 1 .. Len(out'[f]), out'[f][n].kind # "nul"
  PROVE  \/ n \in 1 .. Len(out[f]) /\ out'[f][n] = out[f][n]
         \/ /\ EndBlock /\ f = part
            /\ \E i \in 1 .. Len(buf) : out'[f][n] = buf[i]
         \/ /\ Defect /\ Mode = "fill" /\ f = part
            /\ out'[f][n].kind = "bb" /\ out'[f][n].b = block
<1>0. out[f] \in Seq(Items) /\ buf \in Seq(PageItems) /\ out \in [OutFiles -> Seq(Items)]
  BY DEF TypeOK
<1>1. CASE UNCHANGED out
  BY <1>1
<1>2. ASSUME NEW pages \in Seq(PageItems), part \in OutFiles,
             out' = [out EXCEPT ![part] = @ \o pages]
      PROVE  \/ n \in 1 .. Len(out[f]) /\ out'[f][n] = out[f][n]
             \/ f = part /\ \E i \in 1 .. Len(pages) : out'[f][n] = pages[i]
  <2>1. CASE f # part
    BY <1>0, <1>2, <2>1
  <2>2. CASE f = part
    <3>1. out'[f] = out[f] \o pages
      BY <1>0, <1>2, <2>2
    <3>2. pages \in Seq(Items)
      BY <1>2 DEF Items
    <3>3. Len(out'[f]) = Len(out[f]) + Len(pages)
      BY <1>0, <3>1, <3>2
    <3>4. CASE n \in 1 .. Len(out[f])
      BY <1>0, <3>1, <3>2, <3>4
    <3>5. CASE n \notin 1 .. Len(out[f])
      <4>1. n - Len(out[f]) \in 1 .. Len(pages)
        BY <1>0, <3>2, <3>3, <3>5
      <4>2. out'[f][n] = pages[n - Len(out[f])]
        BY <1>0, <3>1, <3>2, <3>3, <3>5
      <4>3. QED
        BY <2>2, <4>1, <4>2
    <3>6. QED
      BY <3>4, <3>5
  <2>3. QED
    BY <2>1, <2>2
<1>3. CASE Defect /\ Mode = "fill" /\ out' = [out EXCEPT ![part] = @ \o Filler(block)]
  <2>1. part \in OutFiles /\ block \in Int
    BY <1>3, BlockInFlash DEF Defect, DefectIf, FileLabels, TypeOK
  <2>2. /\ Filler(block) \in Seq(PageItems) /\ Len(Filler(block)) = Ppb
        /\ \A i \in 1 .. Ppb : Filler(block)[i] = [kind |-> "bb", b |-> block, p |-> i - 1]
    BY <2>1, FillerPages
  <2>3. QED
    BY <1>2, <1>3, <2>1, <2>2
<1>4. CASE EndBlock
  <2>1. part \in OutFiles /\ out' = [out EXCEPT ![part] = @ \o buf]
    BY <1>4, BlockInFlash DEF EndBlock, FileLabels
  <2>2. QED
    BY <1>0, <1>2, <1>4, <2>1
<1>5. CASE TrimFile
  <2>1. part \in OutFiles /\ out' = [out EXCEPT ![part] = Trimmed(@)]
    BY <1>5, BlockInFlash DEF TrimFile, FileLabels
  <2>2. CASE f # part
    BY <1>0, <2>1, <2>2
  <2>3. CASE f = part
    <3>1. out'[f] = Trimmed(out[f])
      BY <1>0, <2>1, <2>3
    <3>2. out[f] # <<>>
      <4> SUFFICES ASSUME out[f] = <<>> PROVE FALSE
        OBVIOUS
      <4>1. out'[f] = <<[kind |-> "nul"]>>
        BY <1>0, <3>1, TrimmedKeeps
      <4>2. QED
        BY <4>1
    <3>3. PICK m \in 1 .. Len(out[f]) : out'[f] = SubSeq(out[f], 1, m)
      BY <1>0, <3>1, <3>2, TrimmedKeeps
    <3>4. Len(out'[f]) = m /\ \A j \in 1 .. m : out'[f][j] = out[f][j]
      BY <1>0, <3>3
    <3>5. QED
      BY <1>0, <3>3, <3>4
  <2>4. QED
    BY <2>2, <2>3
<1>6. QED
  BY <1>1, <1>3, <1>4, <1>5, FileSteps

LEMMA NextFilesTruthful ==
  TypeOK /\ Bounds /\ MarksRead /\ Buffered /\ FilesTruthful /\ [Next]_vars => FilesTruthful'
<1> SUFFICES ASSUME TypeOK, Bounds, MarksRead, Buffered, FilesTruthful, [Next]_vars
             PROVE  FilesTruthful'
  OBVIOUS
<1>0. OutFiles' = OutFiles
  BY DEF OutFiles
<1>1. CASE StartRun
  BY <1>1 DEF StartRun, NoFiles, FilesTruthful
<1>2. CASE ~StartRun
  <2>1. UNCHANGED <<opt, trusted, marked, content>> /\ Mode' = Mode
    BY <1>2, RunFrame DEF Mode, PartFlag
  <2>2. \A item : Truthful(item)' <=> Truthful(item)
    BY <2>1 DEF Truthful
  <2>3. ASSUME trusted, NEW f \in OutFiles, NEW n \in 1 .. Len(out'[f]),
               out'[f][n].kind # "nul"
        PROVE  Truthful(out'[f][n])
    <3>1. CASE n \in 1 .. Len(out[f]) /\ out'[f][n] = out[f][n]
      <4>1. n \in DOMAIN out[f]
        BY <3>1 DEF TypeOK
      <4>2. QED
        BY <2>3, <3>1, <4>1 DEF FilesTruthful
    <3>2. CASE EndBlock /\ f = part /\ \E i \in 1 .. Len(buf) : out'[f][n] = buf[i]
      BY <2>3, <3>2 DEF EndBlock, Buffered
    <3>3. CASE /\ Defect /\ Mode = "fill" /\ f = part
               /\ out'[f][n].kind = "bb" /\ out'[f][n].b = block
      <4>1. block \in marked
        BY <2>3, <3>3 DEF Defect, DefectIf, CheckBlock, MarksRead
      <4>2. QED
        BY <3>3, <4>1 DEF Truthful
    <3>4. QED
      BY <1>2, <2>3, <3>1, <3>2, <3>3, ItemOrigin
  <2>4. \A f \in OutFiles : DOMAIN out'[f] = 1 .. Len(out'[f])
    <3>1. TypeOK'
      BY NextType
    <3>2. QED
      BY <1>0, <3>1 DEF TypeOK
  <2>5. FilesTruthful' <=> (trusted => \A f \in OutFiles : \A n \in DOMAIN out'[f] :
                              out'[f][n].kind # "nul" => Truthful(out'[f][n]))
    BY <1>0, <2>1, <2>2 DEF FilesTruthful
  <2>6. QED
    BY <2>3, <2>4, <2>5
<1>3. QED
  BY <1>1, <1>2

LEMMA NextFaultsShow ==
  TypeOK /\ Bounds /\ Buffered /\ FaultsShow /\ [Next]_vars => FaultsShow'
<1> SUFFICES ASSUME TypeOK, Bounds, Buffered, FaultsShow, [Next]_vars, faults' = 0
             PROVE  /\ \A f \in OutFiles : \A n \in 1 .. Len(out'[f]) : out'[f][n].kind # "eb"
                    /\ \A n \in 1 .. Len(buf') : buf'[n].kind # "eb"
  BY DEF FaultsShow, OutFiles
<1>1. CASE StartRun
  BY <1>1 DEF StartRun, NoFiles
<1>2. CASE ~StartRun
  <2>1. faults = 0
    <3>1. CASE ReadPage
      BY <3>1 DEF ReadPage, TypeOK
    <3>2. CASE ~ReadPage
      BY <1>2, <3>2 DEF Next, Step, Finished, vars, CheckArgs, Hello, SetEcc, OpenRaw, NoTable,
              LoadTable, NextPart, Defect, DefectIf, BeginBlock, BeginBlockIf, EndBlock,
              CloseFile, TrimFile, RestoreEcc, Kill
    <3>3. QED
      BY <3>1, <3>2
  <2>2. ASSUME NEW f \in OutFiles, NEW n \in 1 .. Len(out'[f])
        PROVE  out'[f][n].kind # "eb"
    <3>1. CASE out'[f][n].kind = "nul"
      BY <3>1
    <3>2. CASE out'[f][n].kind # "nul"
      <4>1. CASE EndBlock /\ f = part /\ \E i \in 1 .. Len(buf) : out'[f][n] = buf[i]
        BY <2>1, <4>1 DEF FaultsShow
      <4>2. CASE n \in 1 .. Len(out[f]) /\ out'[f][n] = out[f][n]
        BY <2>1, <4>2 DEF FaultsShow
      <4>3. CASE out'[f][n].kind = "bb"
        BY <4>3
      <4>4. QED
        BY <1>2, <3>2, <4>1, <4>2, <4>3, ItemOrigin
    <3>3. QED
      BY <3>1, <3>2
  <2>3. ASSUME NEW n \in 1 .. Len(buf') PROVE buf'[n].kind # "eb"
    <3>1. CASE ReadPage
      <4>1. block \in Blocks /\ page \in Pages
        BY <3>1, BlockInFlash, ConstantTypes DEF ReadPage, FileLabels, Bounds, Pages, TypeOK
      <4>2. ReadKind(block, page) \in {"data", "ff", "mk"}
        BY <4>1 DEF ReadKind, TypeOK
      <4>3. PICK lost \in BOOLEAN :
              /\ faults' = IF lost THEN faults + 1 ELSE faults
              /\ buf' = Append(buf, [kind |-> IF lost THEN "eb" ELSE ReadKind(block, page),
                                     b |-> block, p |-> page])
        BY <3>1 DEF ReadPage
      <4>4. ~lost
        BY <2>1, <4>3
      <4>5. buf' = Append(buf, [kind |-> ReadKind(block, page), b |-> block, p |-> page])
        BY <4>3, <4>4
      <4>6. CASE n \in 1 .. Len(buf)
        BY <2>1, <4>5, <4>6 DEF TypeOK, FaultsShow
      <4>7. CASE n = Len(buf) + 1
        <5>1. buf'[n] = [kind |-> ReadKind(block, page), b |-> block, p |-> page]
          BY <4>5, <4>7 DEF TypeOK
        <5>2. QED
          BY <4>2, <5>1
      <4>8. Len(buf') = Len(buf) + 1 /\ Len(buf) \in Nat
        BY <4>5 DEF TypeOK
      <4>9. QED
        BY <4>6, <4>7, <4>8
    <3>2. CASE BeginBlock
      BY <3>2 DEF BeginBlock, BeginBlockIf
    <3>3. CASE UNCHANGED buf
      BY <2>1, <3>3 DEF FaultsShow
    <3>4. QED
      BY <1>2, <3>1, <3>2, <3>3, PageFrame DEF EndBlock, vars
  <2>4. QED
    BY <2>2, <2>3
<1>3. QED
  BY <1>1, <1>2

LEMMA NextPagesInPlace ==
  TypeOK /\ Bounds /\ MarksRead /\ Checked /\ Buffered /\ Filled /\ PagesInPlace /\ [Next]_vars
    => PagesInPlace'
<1> SUFFICES ASSUME TypeOK, Bounds, MarksRead, Checked, Buffered, Filled, PagesInPlace,
                    [Next]_vars
             PROVE  PagesInPlace'
  OBVIOUS
<1> DEFINE InPlace(f, n, item) ==
             /\ item.b >= FirstOf(f)
             /\ Mode = "skip" => item.b \notin marked
             /\ PlaceOf(f, item.b) = (n - 1) \div Ppb
             /\ item.p = (n - 1) % Ppb
<1>1. CASE StartRun
  BY <1>1 DEF StartRun, NoFiles, PagesInPlace
<1>2. CASE ~StartRun
  <2>1. UNCHANGED <<opt, trusted, marked>> /\ Mode' = Mode
    BY <1>2, RunFrame DEF Mode, PartFlag
  <2>2. PagesInPlace <=> (trusted => \A f \in OutFiles : \A n \in DOMAIN out[f] :
                            out[f][n].kind # "nul" => InPlace(f, n, out[f][n]))
    BY DEF PagesInPlace
  <2>3. PagesInPlace' <=> (trusted => \A f \in OutFiles : \A n \in DOMAIN out'[f] :
                             out'[f][n].kind # "nul" => InPlace(f, n, out'[f][n]))
    BY <2>1 DEF PagesInPlace, PlaceOf, FirstOf, OutFiles
  <2>4. \A f \in OutFiles : /\ DOMAIN out[f] = 1 .. Len(out[f])
                            /\ DOMAIN out'[f] = 1 .. Len(out'[f])
    <3>1. TypeOK'
      BY NextType
    <3>2. QED
      BY SMTT(60), <3>1 DEF TypeOK, OutFiles
  <2>5. ASSUME trusted, NEW pages \in Seq(PageItems), Len(pages) = Ppb, pc \in {"block", "page"},
               out' = [out EXCEPT ![part] = @ \o pages],
               \A i \in 1 .. Ppb : pages[i].b = block /\ pages[i].p = i - 1,
               ~(Mode = "skip" /\ block \in marked),
               NEW f \in OutFiles, NEW n \in 1 .. Len(out'[f]), out'[f][n].kind # "nul"
        PROVE  InPlace(f, n, out'[f][n])
    <3>1. /\ part \in OutFiles /\ out[part] \in Seq(Items) /\ out[f] \in Seq(Items)
          /\ block \in Nat /\ FirstOf(part) \in Nat /\ FirstOf(part) <= block
      BY <2>5, BlockInFlash, OptionTypes DEF FileLabels, TypeOK, Bounds
    <3>2. Len(out[part]) = PlaceOf(part, block) * Ppb /\ PlaceOf(part, block) \in Int
      BY <2>5, <3>1, PlaceSteps DEF Filled
    <3>3. CASE n \in 1 .. Len(out[f]) /\ out'[f][n] = out[f][n]
      <4> HIDE DEF InPlace
      <4>1. QED
        BY <2>2, <2>4, <2>5, <3>3
    <3>4. CASE ~(n \in 1 .. Len(out[f]) /\ out'[f][n] = out[f][n])
      <4>1. f = part /\ out'[part] = out[part] \o pages
        <5>1. CASE f # part
          BY <2>5, <3>1, <3>4, <5>1 DEF TypeOK
        <5>2. CASE f = part
          BY <2>5, <3>1, <5>2 DEF TypeOK
        <5>3. QED
          BY <5>1, <5>2
      <4>2. \/ n \in 1 .. Len(out[part]) /\ (out[part] \o pages)[n] = out[part][n]
            \/ \E i \in 1 .. Ppb : /\ (out[part] \o pages)[n] = pages[i]
                                   /\ (n - 1) \div Ppb = PlaceOf(part, block)
                                   /\ (n - 1) % Ppb = i - 1
        <5> DEFINE t == out[part]
                   k == PlaceOf(part, block)
        <5>0. t \in Seq(Items) /\ k \in Int /\ Len(t) = k * Ppb /\ pages \in Seq(PageItems)
              /\ Len(pages) = Ppb
          BY <2>5, <3>1, <3>2
        <5>1. \A m \in 1 .. Len(out[part] \o pages) :
                \/ m \in 1 .. Len(out[part])
                \/ \E i \in 1 .. Ppb : /\ (out[part] \o pages)[m] = pages[i]
                                       /\ (m - 1) \div Ppb = PlaceOf(part, block)
                                       /\ (m - 1) % Ppb = i - 1
          <6> HIDE DEF t, k
          <6>1. \A m \in 1 .. Len(t \o pages) :
                  \/ m \in 1 .. Len(t)
                  \/ \E i \in 1 .. Ppb : /\ (t \o pages)[m] = pages[i]
                                         /\ (m - 1) \div Ppb = k /\ (m - 1) % Ppb = i - 1
            BY <5>0, Extended, Zenon
          <6>2. QED
            BY <6>1 DEF t, k
        <5>2. \A m \in 1 .. Len(out[part]) : (out[part] \o pages)[m] = out[part][m]
          BY <2>5, <3>1, <3>2, Extended
        <5>3. n \in 1 .. Len(out[part] \o pages)
          BY <2>5, <4>1
        <5>4. QED
          BY <5>1, <5>2, <5>3
      <4>3. PICK i \in 1 .. Ppb : /\ out'[f][n] = pages[i]
                                  /\ (n - 1) \div Ppb = PlaceOf(part, block)
                                  /\ (n - 1) % Ppb = i - 1
        BY <3>4, <4>1, <4>2
      <4>4. out'[f][n].b = block /\ out'[f][n].p = i - 1
        BY <2>5, <4>3
      <4>5. QED
        BY <2>5, <3>1, <4>1, <4>3, <4>4
    <3>5. QED
      BY <3>3, <3>4
  <2>6. ASSUME trusted, NEW f \in OutFiles, NEW n \in 1 .. Len(out'[f]),
               out'[f][n].kind # "nul"
        PROVE  InPlace(f, n, out'[f][n])
    <3>1. CASE n \in 1 .. Len(out[f]) /\ out'[f][n] = out[f][n]
      <4> HIDE DEF InPlace
      <4>1. QED
        BY <2>2, <2>4, <2>6, <3>1
    <3>2. CASE EndBlock
      <4>1. /\ out' = [out EXCEPT ![part] = @ \o buf] /\ Len(buf) = Ppb /\ pc = "page"
            /\ ~(Mode = "skip" /\ block \in marked) /\ buf \in Seq(PageItems)
            /\ \A i \in 1 .. Ppb : buf[i].b = block /\ buf[i].p = i - 1
        BY <2>6, <3>2 DEF EndBlock, Buffered, Checked, TypeOK
      <4> HIDE DEF InPlace
      <4>2. QED
        BY <2>5, <2>6, <4>1
    <3>3. CASE Defect /\ Mode = "fill" /\ f = part
      <4>1. /\ pc = "block" /\ out' = [out EXCEPT ![part] = @ \o Filler(block)]
            /\ block \in Int
        BY <3>3 DEF Defect, DefectIf, TypeOK
      <4>2. /\ Filler(block) \in Seq(PageItems) /\ Len(Filler(block)) = Ppb
            /\ \A i \in 1 .. Ppb : Filler(block)[i].b = block /\ Filler(block)[i].p = i - 1
        <5>1. /\ Filler(block) \in Seq(PageItems) /\ Len(Filler(block)) = Ppb
              /\ \A i \in 1 .. Ppb :
                   Filler(block)[i] = [kind |-> "bb", b |-> block, p |-> i - 1]
          BY <4>1, FillerPages
        <5>2. QED
          BY <5>1
      <4> HIDE DEF InPlace
      <4>3. QED
        BY <2>5, <2>6, <3>3, <4>1, <4>2
    <3>4. QED
      <4> HIDE DEF InPlace
      <4>1. QED
        BY <1>2, <2>6, <3>1, <3>2, <3>3, ItemOrigin
  <2>7. QED
    <3> HIDE DEF InPlace
    <3>1. QED
      BY <2>3, <2>4, <2>6
<1>3. QED
  BY <1>1, <1>2

-----------------------------------------------------------------------------
(* What -t leaves of a file.                                                *)

\* A step that passes a block of a wanted partition takes its pages along,
\* or the block is a bad one.
LEMMA PassedStep ==
  ASSUME TypeOK, Bounds, MarksRead, [Next]_vars, ~StartRun, trusted, opt.map = "flash",
         pc' \notin {"killed", "exit", "refused"},
         NEW f \in OutFiles \ {0}, Selected(f),
         NEW b \in FirstOf(f) .. FirstOf(f) + PartLen(f) - 1, Passed(f, b)', b \notin marked
  PROVE  Passed(f, b) \/ (EndBlock /\ f = part /\ b = block)
<1>0. /\ f \in 1 .. Len(Table) /\ Len(Table) \in Nat /\ part \in Nat /\ block \in Nat
      /\ FirstOf(f) \in Nat /\ b \in Int /\ FirstOf(f) <= b /\ b < FirstOf(f) + PartLen(f)
  <2>1. f \in 1 .. Len(Table) /\ part \in Nat /\ block \in Nat /\ FirstOf(f) \in Nat
    BY ConstantTypes, OptionTypes DEF OutFiles, TypeOK
  <2>2. PartLen(f) \in Int
    BY <2>1, ConstantTypes DEF PartLen, Blocks
  <2>3. QED
    BY <2>1, <2>2, ConstantTypes
<1>1. Passed(f, b)' <=> f < part' \/ (f = part' /\ pc' \in FileLabels /\ b < block')
  BY DEF Passed
<1>2. CASE CheckArgs \/ Hello \/ SetEcc \/ OpenRaw \/ NoTable \/ LoadTable \/ RestoreEcc
  <2>1. \/ part' = part /\ pc' \notin FileLabels
        \/ part' \in {0, 1} /\ pc' \notin FileLabels
        \/ part' = 0
    BY <1>2 DEF CheckArgs, Hello, SetEcc, OpenRaw, NoTable, LoadTable, RestoreEcc, FileLabels,
                Bounds
  <2>2. QED
    BY <1>0, <1>1, <2>1 DEF Passed
<1>3. CASE NextPart
  <2>1. CASE part' = part /\ pc' = "restore"
    BY <1>0, <1>1, <2>1 DEF Passed, FileLabels
  <2>2. CASE part' = part + 1 /\ ~Selected(part) /\ pc' = "part"
    BY <1>0, <1>1, <2>2 DEF Passed, FileLabels
  <2>3. CASE part' = part /\ pc' = "block" /\ block' = FirstOf(part)
    BY <1>0, <1>1, <2>3 DEF Passed, FileLabels
  <2>4. QED
    <3>1. part > 0
      BY <1>3 DEF NextPart, Bounds
    <3>2. QED
      BY <1>3, <3>1, <2>1, <2>2, <2>3 DEF NextPart, FirstOf
<1>4. CASE Defect
  <2>1. block \in marked /\ part' = part /\ block' = block + 1 /\ pc \in FileLabels
    BY <1>4 DEF Defect, DefectIf, CheckBlock, MarksRead, FileLabels
  <2>2. QED
    BY <1>0, <1>1, <2>1 DEF Passed
<1>5. CASE BeginBlock \/ ReadPage
  <2>1. UNCHANGED <<part, block>> /\ pc \in FileLabels
    BY <1>5 DEF BeginBlock, BeginBlockIf, ReadPage, FileLabels
  <2>2. QED
    BY <1>1, <2>1 DEF Passed
<1>6. CASE EndBlock
  <2>1. part' = part /\ block' = block + 1 /\ pc \in FileLabels
    BY <1>6 DEF EndBlock, FileLabels
  <2>2. QED
    BY <1>0, <1>1, <1>6, <2>1 DEF Passed
<1>7. CASE CloseFile \/ TrimFile
  <2>1. /\ pc \in FileLabels /\ ~(block < End) /\ part \in 0 .. Len(Table)
        /\ UNCHANGED block
        /\ part' = part \/ (part' = part + 1 /\ pc' \notin FileLabels)
    BY <1>7, BlockInFlash DEF CloseFile, TrimFile, Bounds, FileLabels
  <2>2. part > 0 => End = FirstOf(part) + PartLen(part) /\ End \in Int
    BY <2>1, EndBound DEF TypeOK
  <2>3. f = part => b < block
    BY <1>0, <2>1, <2>2
  <2>4. QED
    BY <1>0, <1>1, <2>1, <2>3 DEF Passed
<1>8. CASE Kill
  BY <1>8 DEF Kill
<1>9. CASE UNCHANGED vars
  BY <1>1, <1>9 DEF vars, Passed
<1>10. QED
  BY <1>2, <1>3, <1>4, <1>5, <1>6, <1>7, <1>8, <1>9 DEF Next, Step, Finished

\* A page that holds data stays in its file.
LEMMA PageStays ==
  ASSUME TypeOK, Bounds, FilesTruthful, FaultsShow, [Next]_vars, ~StartRun,
         trusted, faults = 0,
         NEW f \in OutFiles, NEW b, NEW p, Holds(out[f], b, p),
         content[b][p] # "ff", b \notin marked
  PROVE  Holds(out'[f], b, p)
<1>0. out[f] \in Seq(Items) /\ out \in [OutFiles -> Seq(Items)]
  BY DEF TypeOK
<1>1. PICK n \in 1 .. Len(out[f]) : out[f][n].kind # "nul" /\ out[f][n].b = b /\ out[f][n].p = p
  BY DEF Holds
<1>2. out[f][n].kind # "ff"
  <2>1. n \in DOMAIN out[f]
    BY <1>0, <1>1
  <2>2. Truthful(out[f][n]) /\ out[f][n].kind # "eb"
    BY <1>1, <2>1 DEF FilesTruthful, FaultsShow
  <2>3. QED
    BY <1>1, <2>2 DEF Truthful
<1>3. ASSUME NEW s, n \in 1 .. Len(s), s[n] = out[f][n], out'[f] = s
      PROVE  Holds(out'[f], b, p)
  BY <1>1, <1>3 DEF Holds
<1>4. CASE UNCHANGED out
  BY <1>1, <1>3, <1>4
<1>5. ASSUME NEW pages \in Seq(PageItems), out' = [out EXCEPT ![part] = @ \o pages]
      PROVE  Holds(out'[f], b, p)
  <2>1. CASE f # part
    BY <1>0, <1>1, <1>3, <1>5, <2>1
  <2>2. CASE f = part
    <3>1. out'[f] = out[f] \o pages /\ pages \in Seq(Items)
      BY <1>0, <1>5, <2>2 DEF Items
    <3>2. n \in 1 .. Len(out[f] \o pages) /\ (out[f] \o pages)[n] = out[f][n]
      BY <1>0, <1>1, <3>1
    <3>3. QED
      BY <1>3, <3>1, <3>2
  <2>3. QED
    BY <2>1, <2>2
<1>6. CASE Defect /\ out' = [out EXCEPT ![part] = @ \o Filler(block)]
  <2>1. Filler(block) \in Seq(PageItems)
    BY FillerPages DEF TypeOK
  <2>2. QED
    BY <1>5, <1>6, <2>1
<1>7. CASE EndBlock
  BY <1>5, <1>7 DEF EndBlock, TypeOK
<1>8. CASE TrimFile
  <2>1. out' = [out EXCEPT ![part] = Trimmed(@)]
    BY <1>8 DEF TrimFile
  <2>2. CASE f # part
    BY <1>0, <1>1, <1>3, <2>1, <2>2
  <2>3. CASE f = part
    <3>1. out'[f] = Trimmed(out[f]) /\ out[f] # <<>>
      BY <1>0, <1>1, <2>1, <2>3
    <3>2. PICK m \in 1 .. Len(out[f]) :
            /\ Trimmed(out[f]) = SubSeq(out[f], 1, m)
            /\ \A i \in 1 .. Len(out[f]) : out[f][i].kind # "ff" => i <= m
      BY <1>0, <3>1, TrimmedKeeps
    <3>3. n <= m
      BY <1>1, <1>2, <3>2
    <3>4. /\ n \in 1 .. Len(SubSeq(out[f], 1, m))
          /\ SubSeq(out[f], 1, m)[n] = out[f][n]
      BY <1>0, <1>1, <3>2, <3>3
    <3>5. QED
      BY <1>3, <3>1, <3>2, <3>4
  <2>4. QED
    BY <2>2, <2>3
<1>9. QED
  BY <1>4, <1>6, <1>7, <1>8, FileSteps

LEMMA NextKept ==
  TypeOK /\ Bounds /\ MarksRead /\ Buffered /\ FilesTruthful /\ FaultsShow /\ Kept
  /\ [Next]_vars => Kept'
<1> SUFFICES ASSUME TypeOK, Bounds, MarksRead, Buffered, FilesTruthful, FaultsShow, Kept,
                    [Next]_vars
             PROVE  Kept'
  OBVIOUS
<1>0. OutFiles' = OutFiles /\ Pages' = Pages
  BY DEF OutFiles, Pages
<1>1. CASE StartRun
  <2>1. \A b : \A f \in OutFiles \ {0} : ~Passed(f, b)'
    BY <1>1, ConstantTypes DEF StartRun, Passed, OutFiles
  <2>2. QED
    BY <1>0, <2>1 DEF Kept
<1>2. CASE ~StartRun
  <2>1. UNCHANGED <<opt, trusted, marked, content>>
    BY <1>2, RunFrame
  <2>2. Kept' <=> (trusted /\ opt.map = "flash" /\ faults' = 0
                     /\ pc' \notin {"killed", "exit", "refused"} =>
             \A f \in OutFiles \ {0} : Selected(f) =>
               \A b \in FirstOf(f) .. FirstOf(f) + PartLen(f) - 1, p \in Pages :
                 Passed(f, b)' /\ content[b][p] # "ff" /\ b \notin marked =>
                   Holds(out'[f], b, p))
    BY <1>0, <2>1 DEF Kept, Selected, PartNumber, FirstOf, PartLen, Holds
  <2> SUFFICES ASSUME trusted, opt.map = "flash", faults' = 0,
                      pc' \notin {"killed", "exit", "refused"},
                      NEW f \in OutFiles \ {0}, Selected(f),
                      NEW b \in FirstOf(f) .. FirstOf(f) + PartLen(f) - 1, NEW p \in Pages,
                      Passed(f, b)', content[b][p] # "ff", b \notin marked
               PROVE  Holds(out'[f], b, p)
    BY <2>2
  <2>3. faults = 0 /\ pc \notin {"killed", "exit", "refused"}
    <3>1. faults = 0
      <4>1. CASE ReadPage
        BY <4>1 DEF ReadPage, TypeOK
      <4>2. CASE ~ReadPage
        BY <1>2, <4>2 DEF Next, Step, Finished, vars, CheckArgs, Hello, SetEcc, OpenRaw,
             NoTable, LoadTable, NextPart, Defect, DefectIf, BeginBlock, BeginBlockIf, EndBlock,
             CloseFile, TrimFile, RestoreEcc, Kill
      <4>3. QED
        BY <4>1, <4>2
    <3>2. pc \notin {"killed", "exit", "refused"}
      BY <1>2 DEF Next, Step, Finished, vars, CheckArgs, Hello, SetEcc, OpenRaw, NoTable,
             LoadTable, NextPart, Defect, DefectIf, BeginBlock, BeginBlockIf, ReadPage,
             EndBlock, CloseFile, TrimFile, RestoreEcc, Kill, Ended
    <3>3. QED
      BY <3>1, <3>2
  <2>4. CASE Passed(f, b)
    <3>1. Holds(out[f], b, p)
      BY <2>3, <2>4 DEF Kept
    <3>2. QED
      BY <1>2, <2>3, <3>1, PageStays
  <2>5. CASE EndBlock /\ f = part /\ b = block
    <3>1. /\ Len(buf) = Ppb /\ out' = [out EXCEPT ![part] = @ \o buf]
          /\ \A n \in 1 .. Len(buf) : buf[n].b = block /\ buf[n].p = n - 1
      BY <2>5 DEF EndBlock, Buffered
    <3>2. p + 1 \in 1 .. Ppb /\ (p + 1) - 1 = p
      BY ConstantTypes DEF Pages
    <3>3. /\ out[f] \in Seq(Items) /\ buf \in Seq(PageItems) /\ buf \in Seq(Items)
          /\ out'[f] = out[f] \o buf
      BY <2>5, <3>1 DEF TypeOK, Items
    <3>4. buf[p + 1].kind # "nul" /\ buf[p + 1].b = b /\ buf[p + 1].p = p
      <4>1. buf[p + 1] \in PageItems
        BY <3>1, <3>2, <3>3
      <4>2. QED
        BY <2>5, <3>1, <3>2, <4>1 DEF PageItems
    <3>5. /\ Len(out[f]) + (p + 1) \in 1 .. Len(out'[f])
          /\ out'[f][Len(out[f]) + (p + 1)] = buf[p + 1]
      BY SMTT(60), <3>1, <3>2, <3>3
    <3>6. QED
      BY <3>4, <3>5 DEF Holds
  <2>6. QED
    BY <1>2, <2>4, <2>5, PassedStep
<1>3. QED
  BY <1>1, <1>2

-----------------------------------------------------------------------------
LEMMA InitInv == Init => Inv
<1> SUFFICES ASSUME Init PROVE Inv
  OBVIOUS
<1>1. TypeOK /\ Bounds
  BY InitTypes
<1>2. MarksRead /\ Checked /\ NotBegun /\ Buffered /\ Filled
  BY DEF Init, InitRun, MarksRead, Checked, NotBegun, Buffered, Filled, FileLabels
<1>3. FilesTruthful /\ PagesInPlace /\ FaultsShow
  BY DEF Init, InitRun, NoFiles, FilesTruthful, PagesInPlace, FaultsShow
<1>4. \A b : \A f \in OutFiles \ {0} : ~Passed(f, b)
  BY ConstantTypes DEF Init, InitRun, Passed, OutFiles, FileLabels
<1>5. Kept
  BY <1>4 DEF Kept
<1>6. QED
  BY <1>1, <1>2, <1>3, <1>5 DEF Inv

\* The state of qrflash and of its files in every reachable state: the block
\* being read passed its check (qrflash.c:49-58), the file holds the pages of
\* the blocks passed, and the marker control is lifted only in a block.
THEOREM ReaderInvariant == Spec => []Inv
<1>1. Inv /\ [Next]_vars => Inv'
  <2> SUFFICES ASSUME Inv, [Next]_vars PROVE Inv'
    OBVIOUS
  <2>1. TypeOK' /\ Bounds'
    BY NextType, NextBounds DEF Inv
  <2>2. MarksRead' /\ Checked' /\ NotBegun' /\ Buffered'
    BY NextMarksRead, NextChecked, NextNotBegun, NextBuffered DEF Inv
  <2>3. Filled' /\ FilesTruthful' /\ PagesInPlace'
    BY NextFilled, NextFilesTruthful, NextPagesInPlace DEF Inv
  <2>4. FaultsShow' /\ Kept'
    BY NextFaultsShow, NextKept DEF Inv
  <2>5. QED
    BY <2>1, <2>2, <2>3, <2>4 DEF Inv
<1>2. QED
  BY InitInv, <1>1, PTL DEF Spec

\* Every page in a file is what the flash holds there, in its place, with no
\* bad block taken for data (qrflash.c:43-93, 187-242).
THEOREM FilesAreExact == Spec => []FilesExact
<1>1. Inv => FilesExact
  BY DEF Inv, FilesExact
<1>2. QED
  BY <1>1, ReaderInvariant, PTL

\* -t cuts nothing but empty pages: a run over the table of the flash that
\* finished has every page of the good blocks that is not empty
\* (qrflash.c:231-242).
THEOREM TrimLosesNothing == Spec => []NothingLost
<1>1. Inv => NothingLost
  <2> SUFFICES ASSUME Inv, pc = "done", trusted, opt.map = "flash", faults = 0,
                      NEW f \in OutFiles \ {0}, Selected(f),
                      NEW b \in FirstOf(f) .. FirstOf(f) + PartLen(f) - 1, NEW p \in Pages,
                      content[b][p] # "ff", b \notin marked
               PROVE  \E n \in DOMAIN out[f] :
                        out[f][n].kind # "nul" /\ out[f][n].b = b /\ out[f][n].p = p
    BY DEF NothingLost
  <2>1. part > Len(Table)
    BY DEF Inv, Bounds, PartFlag
  <2>2. Passed(f, b)
    BY <2>1, ConstantTypes DEF Passed, OutFiles, Inv, TypeOK
  <2>3. Holds(out[f], b, p)
    BY <2>2 DEF Inv, Kept
  <2>4. QED
    BY <2>3 DEF Holds, Inv, TypeOK
<1>2. QED
  BY <1>1, ReaderInvariant, PTL

\* -ux lifts the marker control for the length of one block, and a run that
\* ends by itself leaves it on (qrflash.c:50, 89; qcio.c:433-450).
THEOREM MarkerControlReturns == Spec => []MarkerControlBack
<1>1. Inv => MarkerControlBack
  BY DEF Inv, MarksRead, MarkerControlBack
<1>2. QED
  BY <1>1, ReaderInvariant, PTL
===============================================================================
