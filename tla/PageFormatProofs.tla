--------------------------- MODULE PageFormatProofs ---------------------------
(***************************************************************************)
(* Proofs about the page formats: a page that is read and written back in  *)
(* formats that belong together holds the same bytes in the same places,   *)
(* for every size of sectors, tags and pages, every number of pages that   *)
(* go through the same buffers, and every sector that takes no data.       *)
(***************************************************************************)
EXTENDS PageFormat, CountingLemmas

\* The formats with more than SectorSize bytes of data in a sector.
Linux == {"fl", "fo", "fy"}
LinuxOf(s) == IF s = Spp THEN LastPart ELSE SectorSize + Extra
BufLen == PageSize + Spp * Oob
\* Where byte i of piece s lies among pieces of m bytes.
At(m, s, i) == (s - 1) * m + i

\* f holds the page as qrflash puts it into the file.
InDump(f) ==
    /\ \A s \in 1 .. Spp :
          /\ Wmode = "fs" => \A i \in 1 .. SectorSize : f[At(SectorSize, s, i)] = source[s][i]
          /\ Wmode = "fi" => \A i \in 1 .. CwSize : f[At(CwSize, s, i)] = source[s][i]
          /\ Wmode \in Linux =>
                \A i \in 1 .. LinuxOf(s) : f[At(SectorSize + Extra, s, i)] = source[s][i]
    /\ Wmode = "fy" => \A i \in 1 .. TagSize : f[PageSize + i] = source[Spp][LastPart + i]

\* f holds what the file gives of it.
InFile(f) ==
    /\ \A s \in 1 .. Spp :
          /\ Wmode = "fs" => \A i \in 1 .. SectorSize : f[At(SectorSize, s, i)] = Given(s, i)
          /\ Wmode = "fi" => \A i \in 1 .. CwSize : f[At(CwSize, s, i)] = Given(s, i)
          /\ Wmode \in Linux =>
                \A i \in 1 .. LinuxOf(s) : f[At(SectorSize + Extra, s, i)] = Given(s, i)
    /\ Wmode = "fy" => \A i \in 1 .. TagSize : f[PageSize + i] = Given(Spp, LastPart + i)

\* The buffers hold it taken apart.
InBuffers ==
    /\ \A s \in 1 .. Spp :
          /\ Wmode \in {"fs", "fi"} =>
                \A i \in 1 .. SectorSize : databuf[At(SectorSize, s, i)] = Given(s, i)
          /\ Wmode = "fi" =>
                \A i \in 1 .. Oob : oobuf[At(Oob, s, i)] = Given(s, SectorSize + i)
          /\ Wmode \in Linux =>
                \A i \in 1 .. LinuxOf(s) :
                   databuf[At(SectorSize + Extra, s, i)] = Given(s, i)
    /\ Wmode = "fy" => \A i \in 1 .. TagSize : oobuf[i] = Given(Spp, LastPart + i)

\* The modes, and the lengths of the buffers.
Shapes ==
    /\ pc \in {"dump", "fread", "split", "write", "verify", "next"}
    /\ pair \in Pairs /\ vflag \in BOOLEAN /\ skipped \in BOOLEAN /\ reported \in BOOLEAN
    /\ sector \in 1 .. Spp + 1 /\ page \in Nat
    /\ DOMAIN srcbuf = 1 .. BufLen /\ DOMAIN databuf = 1 .. BufLen /\ DOMAIN oobuf = 1 .. BufLen
    /\ DOMAIN membuf = 1 .. CwSize /\ DOMAIN sbuf = 1 .. CwSize
    /\ DOMAIN target = 1 .. Spp /\ target = [s \in 1 .. Spp |-> target[s]]

\* The file holds the page as far as it goes.
Prefix ==
    /\ Len(infile) \in Nat /\ Len(infile) <= ReadLen
    /\ \A k \in 1 .. Len(infile) : infile[k] = DumpedPage(source)[k]

\* Where the page in hand is.
Carries ==
    /\ pc = "fread" => Prefix
    /\ pc = "split" => InFile(srcbuf)
    /\ pc \in {"write", "verify"} => InBuffers

\* What srcbuf holds before a page is read, and after.
Leftover ==
    /\ pc # "dump" => Len(infile) = ReadLen \/ page + 1 = NumPages
    /\ pc \in {"dump", "fread"} => \A k \in PageSize + 1 .. ReadLen : srcbuf[k] = earlier[k]
    /\ pc \notin {"dump", "fread"} /\ Len(infile) = ReadLen =>
          \A k \in 1 .. ReadLen : srcbuf[k] = infile[k]

\* What -s has passed over.
Passed ==
    /\ pc # "next" => ~skipped
    /\ SkipsEmpty

\* What follows the data of a sector in the sector buffer with -fl.
Residue == Wmode = "fl" => \A i \in SectorSize + 1 .. CwSize : sbuf[i] \in {FF, Unset}

\* A sector that is written is right; one that is not is empty.
Erased(s, i) == target[s][i] = FF \/ (Wmode = "fl" /\ i > SectorSize /\ target[s][i] = Unset)
Right(s) ==
    /\ \A i \in 1 .. Carried(s) : target[s][i] = Given(s, i)
    /\ \A i \in Carried(s) + 1 .. UserSize : Erased(s, i)
Blank(s) == \A i \in 1 .. UserSize : target[s][i] = FF
Fresh == pc = "dump" => \A s \in 1 .. Spp : Blank(s)
Behind(s) ==
    pc \in {"dump", "fread", "split"} \/ (pc = "write" /\ s >= sector) \/ faulty \/ skipped
Placed == \A s \in 1 .. Spp : Right(s) \/ (Blank(s) /\ Behind(s))

\* What -v has found so far.
Differs(s) == \E i \in 1 .. Carried(s) : i <= SectorSize /\ target[s][i] # Given(s, i)
Found ==
    /\ pc \in {"dump", "fread", "split", "write"} => ~reported
    /\ pc = "next" /\ vflag /\ ~skipped => sector = Spp + 1
    /\ pc = "verify" => vflag
    /\ pc \in {"verify", "next"} /\ vflag /\ ~skipped /\ Wmode \in {"fs", "fi"} =>
          (reported <=> \E s \in 1 .. sector - 1 : Differs(s))
    /\ pc \in {"verify", "next"} /\ vflag /\ ~skipped /\ Wmode = "fl" =>
          ((\E s \in 1 .. sector - 1 : Differs(s)) => reported)

-----------------------------------------------------------------------------
(* Numbers.                                                                 *)

\* Byte i of piece s, of pieces of m bytes one behind the other.
LEMMA Position ==
  ASSUME NEW m \in Nat \ {0}, NEW k \in Nat \ {0}
  PROVE  \A s \in 1 .. k : \A i \in 1 .. m :
           /\ At(m, s, i) \in 1 .. k * m
           /\ (At(m, s, i) - 1) \div m = s - 1
           /\ (At(m, s, i) - 1) % m = i - 1
<1> TAKE s \in 1 .. k
<1> TAKE i \in 1 .. m
<1> DEFINE p == (s - 1) * m
<1>1. s - 1 \in 0 .. k - 1 /\ i - 1 \in 0 .. m - 1
  OBVIOUS
<1>2. (p + (i - 1)) \div m = s - 1 /\ (p + (i - 1)) % m = i - 1
  <2>1. \A q \in Int : \A r \in 0 .. m - 1 : (q * m + r) \div m = q /\ (q * m + r) % m = r
    BY DivMod
  <2>2. s - 1 \in Int
    OBVIOUS
  <2>3. QED
    BY <1>1, <2>1, <2>2
<1>3. p \in Nat /\ p <= k * m - m /\ k * m \in Nat
  <2>1. (k - s) * m >= 0 /\ (s - 1) * m >= 0 /\ (s - 1) * m \in Int /\ k * m \in Int
    BY <1>1
  <2>2. (k - s) * m = k * m - m - (s - 1) * m
    OBVIOUS
  <2>3. k * m >= 0
    OBVIOUS
  <2> HIDE DEF p
  <2>4. QED
    BY <2>1, <2>2, <2>3 DEF p
<1>4. p + (i - 1) = p + i - 1 /\ p + i \in 1 .. k * m
  <2> HIDE DEF p
  <2> QED BY <1>3
<1>5. At(m, s, i) = p + i
  BY DEF At
<1>6. QED
  BY <1>2, <1>4, <1>5

\* A page in the formats with larger sectors is as long as in the others.
LEMMA Lengths ==
  /\ SectorSize \in Nat \ {0} /\ Extra \in Nat /\ TagSize \in Nat /\ Spp \in Nat \ {0} /\ Oob \in Nat
  /\ CwSize \in Nat \ {0} /\ CwSize = SectorSize + Oob /\ Extra <= Oob
  /\ SectorSize + Extra \in Nat \ {0} /\ SectorSize + Extra <= CwSize
  /\ LastPart \in Nat \ {0} /\ LastPart <= SectorSize
  /\ LastPart + TagSize <= SectorSize + Extra /\ TagSize <= Spp * Oob
  /\ PageSize \in Nat \ {0} /\ PageSize = Spp * SectorSize
  /\ Spp * Oob \in Nat /\ Oob * Spp = Spp * Oob /\ Spp * CwSize = PageSize + Spp * Oob
  /\ (Spp - 1) * (SectorSize + Extra) + LastPart = PageSize
<1> USE ConstantsAssumption
<1>1. SectorSize \in Nat \ {0} /\ Extra \in Nat /\ TagSize \in Nat /\ Spp \in Nat \ {0} /\ Oob \in Nat
      /\ Extra <= Oob
  OBVIOUS
<1>2. CwSize \in Nat \ {0} /\ CwSize = SectorSize + Oob
      /\ SectorSize + Extra \in Nat \ {0} /\ SectorSize + Extra <= CwSize
  BY <1>1 DEF CwSize
<1>3. Extra * (Spp - 1) \in Nat /\ Extra * Spp = Extra * (Spp - 1) + Extra /\ Extra * Spp \in Nat
  <2>1. Spp - 1 \in Nat
    BY <1>1
  <2>2. Extra * Spp = Extra * (Spp - 1) + Extra
    BY <1>1
  <2>3. Extra * (Spp - 1) >= 0
    BY <1>1, <2>1
  <2>4. QED
    BY <1>1, <2>1, <2>2, <2>3
<1>4. LastPart \in Nat \ {0} /\ LastPart <= SectorSize /\ LastPart + TagSize <= SectorSize + Extra
  <2> DEFINE e == Extra * (Spp - 1)
             f == Extra * Spp
  <2>1. e \in Nat /\ f = e + Extra /\ LastPart = SectorSize - e /\ LastPart > 0 /\ TagSize <= f
    BY <1>3 DEF LastPart
  <2> HIDE DEF e, f
  <2>2. QED
    BY <1>1, <2>1
<1>5. Spp * SectorSize \in Nat \ {0} /\ PageSize = Spp * SectorSize
  <2>1. Spp * SectorSize = SectorSize * Spp /\ Spp * SectorSize > 0
    BY <1>1
  <2>2. QED
    BY <1>1, <2>1 DEF PageSize
<1>6. Spp * Oob \in Nat /\ Oob * Spp = Spp * Oob
  <2>1. Spp * Oob >= 0
    BY <1>1
  <2>2. QED
    BY <1>1, <2>1
<1>7. Spp * CwSize = PageSize + Spp * Oob
  <2>1. Spp * (SectorSize + Oob) = Spp * SectorSize + Spp * Oob
    BY <1>1
  <2>2. QED
    BY <1>2, <1>5, <2>1
<1>8. (Spp - 1) * (SectorSize + Extra) + LastPart = PageSize
  <2>1. (Spp - 1) * (SectorSize + Extra) = Spp * SectorSize - SectorSize + Extra * (Spp - 1)
    BY <1>1
  <2> DEFINE e == Extra * (Spp - 1)
             w == Spp * SectorSize
             q == (Spp - 1) * (SectorSize + Extra)
  <2>2. q = w - SectorSize + e /\ LastPart = SectorSize - e /\ PageSize = w /\ e \in Int /\ w \in Int
    BY <1>3, <1>5, <2>1 DEF LastPart
  <2> HIDE DEF e, w, q
  <2>3. q + LastPart = PageSize
    BY <1>1, <2>2
  <2>4. QED
    BY <2>3 DEF q
<1>9. TagSize <= Spp * Oob
  BY <1>6
<1>10. QED
  BY <1>1, <1>2, <1>4, <1>5, <1>6, <1>7, <1>8, <1>9

-----------------------------------------------------------------------------
(* Copies of bytes.                                                         *)

LEMMA MemcpyAt ==
  ASSUME NEW to, NEW at \in Int, NEW from, NEW off \in Int, NEW n \in Int
  PROVE  /\ DOMAIN Memcpy(to, at, from, off, n) = DOMAIN to
         /\ \A i \in DOMAIN to :
               /\ at < i /\ i <= at + n => Memcpy(to, at, from, off, n)[i] = from[off + i - at]
               /\ ~(at < i /\ i <= at + n) => Memcpy(to, at, from, off, n)[i] = to[i]
  BY DEF Memcpy

LEMMA PiecePosition ==
  ASSUME NEW m \in Nat \ {0}
  PROVE  \A s \in 1 .. Spp : \A i \in 1 .. m :
           /\ At(m, s, i) \in 1 .. Spp * m
           /\ (At(m, s, i) - 1) \div m = s - 1
           /\ (At(m, s, i) - 1) % m = i - 1
<1>1. Spp \in Nat \ {0}
  BY Lengths
<1>2. QED
  BY <1>1, Position

LEMMA JoinedAt ==
  ASSUME NEW pg, NEW size \in Nat \ {0}, NEW n \in Nat, n <= Spp * size,
         NEW s \in 1 .. Spp, NEW i \in 1 .. size, At(size, s, i) <= n
  PROVE  Joined(pg, size, n)[At(size, s, i)] = pg[s][i]
<1> DEFINE j == At(size, s, i)
<1>1. Spp \in Nat \ {0}
  BY Lengths
<1>2. j \in 1 .. Spp * size /\ (j - 1) \div size = s - 1 /\ (j - 1) % size = i - 1
  BY PiecePosition
<1>3. j \in 1 .. n /\ j \in Int
  <2>1. j <= n /\ Spp * size \in Int
    BY <1>1
  <2> HIDE DEF j
  <2>2. QED
    BY <1>2, <2>1
<1>4. Joined(pg, size, n)[j] = pg[((j - 1) \div size) + 1][((j - 1) % size) + 1]
  <2> HIDE DEF j
  <2>1. QED
    BY <1>3 DEF Joined
<1>5. (s - 1) + 1 = s /\ (i - 1) + 1 = i
  OBVIOUS
<1> HIDE DEF j
<1>6. Joined(pg, size, n)[j] = pg[s][i]
  BY <1>2, <1>4, <1>5
<1>7. QED
  BY <1>6 DEF j

LEMMA GatheredAt ==
  ASSUME NEW buf, NEW len \in Nat, DOMAIN buf = 1 .. len, NEW size \in Int, NEW off \in Int,
         NEW m \in Nat \ {0}, Spp * m <= len
  PROVE  \A s \in 1 .. Spp : \A i \in 1 .. m :
           Gathered(buf, size, off, m)[At(m, s, i)] = srcbuf[At(size, s, off + i)]
<1> TAKE s \in 1 .. Spp
<1> TAKE i \in 1 .. m
<1> DEFINE j == At(m, s, i)
<1>1. Spp \in Nat \ {0}
  BY Lengths
<1>2. j \in 1 .. Spp * m /\ (j - 1) \div m = s - 1 /\ (j - 1) % m = i - 1
  BY PiecePosition
<1>3. Spp * m \in Int
  BY <1>1
<1> HIDE DEF j
<1>4. j \in DOMAIN buf /\ j <= Spp * m
  BY <1>2, <1>3
<1>5. Gathered(buf, size, off, m)[j]
        = srcbuf[((j - 1) \div m) * size + off + ((j - 1) % m) + 1]
  BY <1>4 DEF Gathered
<1>6. Gathered(buf, size, off, m)[j] = srcbuf[(s - 1) * size + off + (i - 1) + 1]
  BY <1>2, <1>5
<1>7. (s - 1) * size + off + (i - 1) + 1 = At(size, s, off + i)
  <2> DEFINE q == (s - 1) * size
  <2>1. q \in Int /\ At(size, s, off + i) = q + (off + i)
    BY DEF At
  <2> HIDE DEF q
  <2>2. q + off + (i - 1) + 1 = q + (off + i)
    BY <2>1
  <2>3. QED
    BY <2>1, <2>2 DEF q
<1>8. QED
  BY <1>6, <1>7 DEF j

\* Two sequences one behind the other.
LEMMA Concatenated ==
  ASSUME NEW m \in Nat, NEW n \in Nat, NEW R, NEW f \in [1 .. m -> R], NEW g \in [1 .. n -> R]
  PROVE  /\ Len(f \o g) = m + n
         /\ \A i \in 1 .. m : (f \o g)[i] = f[i]
         /\ \A i \in 1 .. n : (f \o g)[m + i] = g[i]
<1>1. f \in Seq(R) /\ g \in Seq(R) /\ Len(f) = m /\ Len(g) = n
  OBVIOUS
<1>2. f \o g \in Seq(R) /\ Len(f \o g) = m + n
  BY <1>1
<1>3. QED
  BY <1>1, <1>2

LEMMA FunctionLength ==
  ASSUME NEW m \in Nat, NEW R, NEW f \in [1 .. m -> R]
  PROVE  Len(f) = m
  OBVIOUS

\* The pairs of formats that belong together.
LEMMA Formats ==
  ASSUME pair \in Pairs
  PROVE  /\ Wmode \in {"fs", "fl", "fy", "fi", "fo"}
         /\ Wmode = "fs" => Rmode = "rs" /\ OobSize = 0 /\ UserSize = SectorSize
         /\ Wmode = "fi" => Rmode = "x" /\ OobSize = Oob /\ UserSize = CwSize
         /\ Wmode = "fl" => Rmode = "rl" /\ OobSize = 0 /\ UserSize = SectorSize + Extra
         /\ Wmode = "fo" => Rmode = "rl" /\ OobSize = Oob /\ UserSize = SectorSize + Extra
         /\ Wmode = "fy" => Rmode = "ry" /\ OobSize = Oob /\ UserSize = SectorSize + Extra
  BY ConstantsAssumption DEF Rmode, Wmode, OobSize, UserSize

-----------------------------------------------------------------------------
(* The modes and the buffers.                                               *)

LEMMA InitShapes == Init => Shapes
<1> SUFFICES ASSUME Init PROVE Shapes
  OBVIOUS
<1>1. Spp \in Nat \ {0} /\ PageSize + Spp * Oob = BufLen
  BY Lengths DEF BufLen
<1>2. sector \in 1 .. Spp + 1
  BY <1>1 DEF Init
<1>3. DOMAIN target = 1 .. Spp /\ target = [s \in 1 .. Spp |-> target[s]]
  BY DEF Init
<1>4. QED
  BY <1>1, <1>2, <1>3 DEF Init, Shapes, Const

LEMMA NextShapes == Shapes /\ [Next]_vars => Shapes'
<1> SUFFICES ASSUME Shapes, [Next]_vars PROVE Shapes'
  OBVIOUS
<1>0. Spp \in Nat \ {0}
  BY Lengths
<1>1. CASE DumpPage
  BY <1>1 DEF DumpPage, Shapes
<1>2. CASE ReadFile
  BY <1>2 DEF ReadFile, Shapes, Memcpy
<1>3. CASE SplitPage
  BY <1>0, <1>3 DEF SplitPage, Shapes, Memcpy, Gathered
<1>4. CASE WriteSector
  <2>1. sector \in 1 .. Spp /\ sector' = sector + 1
    BY <1>4, <1>0 DEF WriteSector, MoreSectors, Shapes
  <2>2. DOMAIN sbuf' = 1 .. CwSize
    BY <1>4 DEF WriteSector, Memcpy, Shapes
  <2>3. DOMAIN target' = 1 .. Spp /\ target' = [s \in 1 .. Spp |-> target'[s]]
    <3>1. target' = target \/ target' = [target EXCEPT ![sector] = [i \in 1 .. UserSize |-> sbuf'[i]]]
      BY <1>4 DEF WriteSector
    <3>2. QED
      BY <3>1 DEF Shapes
  <2>4. sector' \in 1 .. Spp + 1
    BY <1>0, <2>1
  <2>5. QED
    BY <1>4, <2>2, <2>3, <2>4 DEF WriteSector, Shapes
<1>5. CASE EndSectors
  BY <1>0, <1>5 DEF EndSectors, Shapes
<1>6. CASE VerifySector
  <2>1. sector' \in 1 .. Spp + 1
    BY <1>6, <1>0 DEF VerifySector, MoreSectors, Shapes
  <2>2. DOMAIN sbuf' = 1 .. CwSize /\ DOMAIN membuf' = 1 .. CwSize
    BY <1>6 DEF VerifySector, Memcpy, Shapes
  <2>3. reported' \in BOOLEAN
    <3>1. reported' = (reported \/ ~Compared)
      BY <1>6 DEF VerifySector
    <3>2. QED
      BY <3>1
  <2>4. QED
    BY <1>6, <2>1, <2>2, <2>3 DEF VerifySector, Shapes
<1>7. CASE EndVerify
  BY <1>7 DEF EndVerify, Shapes
<1>8. CASE NextPage
  <2>1. DOMAIN target' = 1 .. Spp /\ target' = [s \in 1 .. Spp |-> target'[s]]
    <3>1. target' = [s \in 1 .. Spp |-> Const(FF, UserSize)]
      BY <1>8 DEF NextPage
    <3> DEFINE c == Const(FF, UserSize)
    <3> HIDE DEF c
    <3>2. target' = [s \in 1 .. Spp |-> c]
      BY <3>1 DEF c
    <3>3. QED
      BY <3>2
  <2>2. sector' \in 1 .. Spp + 1
    BY <1>0, <1>8 DEF NextPage
  <2>3. DOMAIN sbuf' = 1 .. CwSize
    BY <1>8 DEF NextPage, Shapes, Const
  <2>4. page' \in Nat
    BY <1>8 DEF NextPage, Shapes
  <2>5. /\ pc' = "dump" /\ reported' = FALSE /\ skipped' = FALSE
        /\ UNCHANGED <<pair, vflag, srcbuf, databuf, oobuf, membuf>>
    BY <1>8 DEF NextPage
  <2>6. QED
    BY <2>1, <2>2, <2>3, <2>4, <2>5 DEF Shapes
<1>9. CASE Finished \/ UNCHANGED vars
  BY <1>9 DEF Finished, vars, Shapes
<1>10. QED
  BY <1>1, <1>2, <1>3, <1>4, <1>5, <1>6, <1>7, <1>8, <1>9 DEF Next

-----------------------------------------------------------------------------
(* The page on its way into the file and into the buffers.                  *)

\* The bytes that belong to a page lie within it.
LEMMA Within ==
  /\ \A s \in 1 .. Spp : \A i \in 1 .. SectorSize : At(SectorSize, s, i) \in 1 .. PageSize
  /\ \A s \in 1 .. Spp : \A i \in 1 .. CwSize : At(CwSize, s, i) \in 1 .. BufLen
  /\ \A s \in 1 .. Spp : \A i \in 1 .. LinuxOf(s) :
        At(SectorSize + Extra, s, i) \in 1 .. PageSize
  /\ PageSize \in Nat /\ BufLen \in Nat /\ PageSize <= BufLen
<1> DEFINE m == SectorSize + Extra
<1>0. /\ SectorSize \in Nat \ {0} /\ CwSize \in Nat \ {0} /\ m \in Nat \ {0} /\ PageSize \in Nat \ {0}
      /\ Spp \in Nat \ {0} /\ LastPart \in Nat \ {0} /\ LastPart <= m
      /\ PageSize = Spp * SectorSize /\ (Spp - 1) * m + LastPart = PageSize
      /\ Spp * CwSize = PageSize + Spp * Oob /\ Spp * Oob \in Nat
  BY Lengths
<1>1. BufLen = Spp * CwSize /\ BufLen \in Nat /\ PageSize <= BufLen
  <2> DEFINE w == Spp * Oob
  <2>1. w \in Nat /\ BufLen = PageSize + w
    BY <1>0 DEF BufLen
  <2> HIDE DEF w
  <2>2. BufLen \in Nat /\ PageSize <= BufLen
    BY <1>0, <2>1
  <2>3. QED
    BY <1>0, <2>2 DEF BufLen
<1>2. \A s \in 1 .. Spp : \A i \in 1 .. SectorSize : At(SectorSize, s, i) \in 1 .. PageSize
  BY <1>0, Position
<1>3. \A s \in 1 .. Spp : \A i \in 1 .. CwSize : At(CwSize, s, i) \in 1 .. BufLen
  BY <1>0, <1>1, Position
<1>4. ASSUME NEW s \in 1 .. Spp, NEW i \in 1 .. LinuxOf(s)
      PROVE  At(m, s, i) \in 1 .. PageSize
  <2>1. i \in 1 .. m
    BY <1>0 DEF LinuxOf
  <2> HIDE DEF m
  <2>2. CASE s = Spp
    <3> DEFINE q == (Spp - 1) * m
    <3>1. q \in Nat /\ q + LastPart = PageSize /\ i \in 1 .. LastPart
      <4>1. q \in Int /\ q >= 0
        BY <1>0
      <4>2. QED
        BY <1>0, <2>2, <4>1 DEF LinuxOf
    <3>2. At(m, s, i) = q + i
      BY <2>2 DEF At
    <3> HIDE DEF q
    <3>3. QED
      BY <1>0, <3>1, <3>2
  <2>3. CASE s # Spp
    <3>1. s \in 1 .. Spp - 1 /\ Spp - 1 \in Nat \ {0}
      BY <1>0, <2>3
    <3>2. At(m, s, i) \in 1 .. (Spp - 1) * m
      BY <1>0, <2>1, <3>1, Position
    <3> DEFINE q == (Spp - 1) * m
    <3>3. q \in Int /\ q + LastPart = PageSize /\ At(m, s, i) \in 1 .. q
      BY <1>0, <3>1, <3>2
    <3> HIDE DEF q
    <3>4. QED
      BY <1>0, <3>3
  <2>4. QED
    BY <2>2, <2>3
<1>5. QED
  BY <1>0, <1>1, <1>2, <1>3, <1>4

\* qrflash puts the sectors into the file as qwdirect expects them.
LEMMA Dumped ==
  ASSUME pair \in Pairs, source \in SourcePages
  PROVE  InDump(DumpedPage(source)) /\ Len(DumpedPage(source)) = ReadLen
<1> DEFINE f == DumpedPage(source)
           m == SectorSize + Extra
<1>0. /\ SectorSize \in Nat \ {0} /\ CwSize \in Nat \ {0} /\ m \in Nat \ {0} /\ PageSize \in Nat \ {0}
      /\ Spp \in Nat \ {0} /\ TagSize \in Nat /\ LastPart \in Nat \ {0} /\ Oob * Spp \in Nat
      /\ PageSize = Spp * SectorSize /\ (Spp - 1) * m + LastPart = PageSize
      /\ Spp * CwSize = PageSize + Spp * Oob /\ LastPart <= m /\ TagSize <= Oob * Spp
      /\ Oob * Spp = Spp * Oob /\ Spp * Oob \in Nat
  BY Lengths
<1>1. source \in [1 .. Spp -> [1 .. CwSize -> Nat]]
  BY ConstantsAssumption
<1> DEFINE R(x) == {x[i] : i \in DOMAIN x}
<1>2. ASSUME NEW size \in Nat \ {0}, NEW n \in Nat
      PROVE  Len(Joined(source, size, n)) = n
             /\ Joined(source, size, n) \in [1 .. n -> R(Joined(source, size, n))]
  <2> DEFINE j == Joined(source, size, n)
  <2>1. j = [i \in 1 .. n |-> source[((i - 1) \div size) + 1][((i - 1) % size) + 1]]
    BY DEF Joined
  <2>2. DOMAIN j = 1 .. n /\ j = [i \in 1 .. n |-> j[i]]
    BY <2>1
  <2> HIDE DEF j
  <2>3. j \in [1 .. n -> R(j)]
    BY <2>2
  <2> HIDE DEF R
  <2>4. Len(j) = n
    BY <2>3, FunctionLength
  <2>5. QED
    BY <2>3, <2>4 DEF j
<1> HIDE DEF m, R
<1>3. CASE Wmode = "fs"
  <2>1. f = Joined(source, SectorSize, Spp * SectorSize) /\ ReadLen = Spp * SectorSize
    <3>1. Rmode = "rs" /\ OobSize = 0 /\ Spp * OobSize = 0
      BY <1>0, <1>3, Formats
    <3>2. QED
      BY <1>0, <1>3, <3>1 DEF DumpedPage, ReadLen
  <2>2. \A s \in 1 .. Spp : \A i \in 1 .. SectorSize : f[At(SectorSize, s, i)] = source[s][i]
    <3> TAKE s \in 1 .. Spp
    <3> TAKE i \in 1 .. SectorSize
    <3>1. At(SectorSize, s, i) <= Spp * SectorSize
      <4>1. At(SectorSize, s, i) \in 1 .. PageSize
        BY Within
      <4>2. QED
        BY <1>0, <4>1
    <3> HIDE DEF f
    <3>2. QED
      BY <1>0, <2>1, <3>1, JoinedAt
  <2> HIDE DEF f
  <2>3. Len(f) = ReadLen
    BY <1>0, <1>2, <2>1
  <2>4. QED
    BY <1>3, <2>2, <2>3 DEF InDump, Linux, f
<1>4. CASE Wmode = "fi"
  <2>1. f = Joined(source, CwSize, Spp * CwSize) /\ ReadLen = Spp * CwSize
    <3>1. Rmode = "x" /\ OobSize = Oob
      BY <1>4, Formats
    <3>2. QED
      BY <1>0, <1>4, <3>1 DEF DumpedPage, ReadLen
  <2>2. \A s \in 1 .. Spp : \A i \in 1 .. CwSize : f[At(CwSize, s, i)] = source[s][i]
    <3> TAKE s \in 1 .. Spp
    <3> TAKE i \in 1 .. CwSize
    <3>1. At(CwSize, s, i) <= Spp * CwSize
      <4>1. At(CwSize, s, i) \in 1 .. BufLen /\ BufLen \in Nat
        BY Within
      <4>2. QED
        BY <1>0, <4>1 DEF BufLen
    <3>3. Spp * CwSize \in Nat
      BY <1>0
    <3> HIDE DEF f
    <3>2. QED
      BY <1>0, <2>1, <3>1, <3>3, JoinedAt
  <2> HIDE DEF f
  <2>3. Len(f) = ReadLen
    BY <1>0, <1>2, <2>1
  <2>4. QED
    BY <1>4, <2>2, <2>3 DEF InDump, Linux, f
<1> DEFINE g == Joined(source, m, PageSize)
<1>5. /\ Resequenced(source) = g /\ Len(g) = PageSize /\ g \in [1 .. PageSize -> R(g)]
      /\ \A s \in 1 .. Spp : \A i \in 1 .. LinuxOf(s) :
            At(m, s, i) \in 1 .. PageSize /\ g[At(m, s, i)] = source[s][i]
  <2>1. Resequenced(source) = g
    BY <1>0 DEF Resequenced, m
  <2>2. Len(g) = PageSize /\ g \in [1 .. PageSize -> R(g)]
    BY <1>0, <1>2
  <2>3. ASSUME NEW s \in 1 .. Spp, NEW i \in 1 .. LinuxOf(s)
        PROVE  At(m, s, i) \in 1 .. PageSize /\ g[At(m, s, i)] = source[s][i]
    <3>1. i \in 1 .. m
      BY <1>0 DEF LinuxOf, m
    <3>2. At(m, s, i) \in 1 .. PageSize
      BY Within DEF m
    <3>3. PageSize <= Spp * m
      <4>1. Spp * m = (Spp - 1) * m + m
        BY <1>0
      <4> DEFINE q == (Spp - 1) * m
                 r == Spp * m
      <4>2. r = q + m /\ q + LastPart = PageSize /\ q \in Int
        BY <1>0, <4>1
      <4> HIDE DEF q, r
      <4>3. PageSize <= r
        BY <1>0, <4>2
      <4>4. QED
        BY <4>3 DEF r
    <3>4. At(m, s, i) <= PageSize
      BY <3>2
    <3>5. g[At(m, s, i)] = source[s][i]
      BY <1>0, <3>1, <3>3, <3>4, JoinedAt
    <3>6. QED
      BY <3>2, <3>5
  <2>4. QED
    BY <2>1, <2>2, <2>3
<1>6. CASE Wmode \in {"fl", "fo"}
  <2>1. f = g /\ ReadLen = PageSize
    <3>1. Rmode = "rl" /\ (Wmode = "fl" => OobSize = 0 /\ Spp * OobSize = 0)
      BY <1>0, <1>6, Formats
    <3> HIDE DEF g
    <3>2. f = g
      BY <1>5, <3>1 DEF DumpedPage
    <3>3. QED
      BY <1>0, <1>6, <3>1, <3>2 DEF ReadLen
  <2> HIDE DEF f, g
  <2>2. \A s \in 1 .. Spp : \A i \in 1 .. LinuxOf(s) : f[At(m, s, i)] = source[s][i]
    BY <1>5, <2>1
  <2>3. Len(f) = ReadLen
    BY <1>5, <2>1
  <2>4. QED
    BY <1>6, <2>2, <2>3 DEF InDump, Linux, f, m
<1>7. CASE Wmode = "fy"
  <2> DEFINE t == TagOf(source)
  <2>1. f = g \o t /\ ReadLen = PageSize + Oob * Spp
    <3>1. Rmode = "ry" /\ OobSize = Oob
      BY <1>7, Formats
    <3> HIDE DEF g, t
    <3>2. f = g \o t
      BY <1>5, <3>1 DEF DumpedPage, t
    <3>3. QED
      BY <1>0, <1>7, <3>1, <3>2 DEF ReadLen
  <2>2. t \in [1 .. Oob * Spp -> R(t)] /\ \A i \in 1 .. TagSize : t[i] = source[Spp][LastPart + i]
    <3> DEFINE c == Const(FF, Oob * Spp)
    <3>1. DOMAIN c = 1 .. Oob * Spp
      BY DEF Const
    <3>2. t = Memcpy(c, 0, source[Spp], LastPart, TagSize)
      BY DEF TagOf
    <3> HIDE DEF c
    <3>3. t = [i \in DOMAIN c |-> IF 0 < i /\ i <= 0 + TagSize THEN source[Spp][LastPart + i - 0]
                                                             ELSE c[i]]
      BY <3>2 DEF Memcpy
    <3>4. DOMAIN t = 1 .. Oob * Spp /\ t = [i \in 1 .. Oob * Spp |-> t[i]]
      BY <3>1, <3>3
    <3>5. t \in [1 .. Oob * Spp -> R(t)]
      <4> HIDE DEF t
      <4>1. QED
        BY <3>4 DEF R
    <3> HIDE DEF t
    <3>6. \A i \in 1 .. TagSize : t[i] = source[Spp][LastPart + i]
      <4> TAKE i \in 1 .. TagSize
      <4> DEFINE w == Oob * Spp
      <4>1. w \in Nat /\ TagSize <= w
        BY <1>0
      <4>2. DOMAIN c = 1 .. w
        BY <3>1
      <4> HIDE DEF w
      <4>3. i \in DOMAIN c /\ 0 < i /\ i <= 0 + TagSize /\ LastPart + i - 0 = LastPart + i
        BY <1>0, <4>1, <4>2
      <4>4. QED
        BY <3>3, <4>3
    <3>7. QED
      BY <3>5, <3>6
  <2> DEFINE w == Oob * Spp
  <2>3. w \in Nat /\ TagSize <= w /\ w = Oob * Spp
    BY <1>0
  <2> HIDE DEF f, g, t, w
  <2>4. /\ Len(g \o t) = PageSize + w
        /\ \A i \in 1 .. PageSize : (g \o t)[i] = g[i]
        /\ \A i \in 1 .. w : (g \o t)[PageSize + i] = t[i]
    <3> DEFINE S == R(g) \cup R(t)
    <3>1. t \in [1 .. w -> R(t)] /\ g \in [1 .. PageSize -> R(g)]
      BY <1>5, <2>2, <2>3
    <3>2. t \in [1 .. w -> S] /\ g \in [1 .. PageSize -> S]
      BY <3>1
    <3> HIDE DEF S
    <3>3. PageSize \in Nat /\ w \in Nat
      BY <1>0, <2>3
    <3> HIDE DEF R
    <3>4. QED
      BY <3>2, <3>3, Concatenated
  <2>5. \A s \in 1 .. Spp : \A i \in 1 .. LinuxOf(s) : f[At(m, s, i)] = source[s][i]
    BY <1>5, <2>1, <2>4
  <2>6. \A i \in 1 .. TagSize : f[PageSize + i] = source[Spp][LastPart + i]
    <3> TAKE i \in 1 .. TagSize
    <3>1. i \in 1 .. w
      BY <1>0, <2>3
    <3>2. QED
      BY <2>1, <2>2, <2>4, <3>1
  <2>7. Len(f) = ReadLen
    BY <2>1, <2>3, <2>4
  <2>8. QED
    BY <1>7, <2>5, <2>6, <2>7 DEF InDump, Linux, f, m
<1>8. QED
  BY <1>3, <1>4, <1>6, <1>7, Formats

\* Where the bytes of a format stand in the page of the file.
LEMMA Places ==
  ASSUME pair \in Pairs
  PROVE  /\ \A s \in 1 .. Spp :
               /\ Wmode = "fs" => \A i \in 1 .. SectorSize : Place(s, i) = At(SectorSize, s, i)
               /\ Wmode = "fi" => \A i \in 1 .. CwSize : Place(s, i) = At(CwSize, s, i)
               /\ Wmode \in Linux =>
                     \A i \in 1 .. LinuxOf(s) : Place(s, i) = At(SectorSize + Extra, s, i)
         /\ Wmode = "fy" => \A i \in 1 .. TagSize : Place(Spp, LastPart + i) = PageSize + i
<1>0. Spp \in Nat \ {0} /\ LastPart \in Nat \ {0} /\ PageSize \in Nat /\ TagSize \in Nat
  BY Lengths
<1>1. \A s \in 1 .. Spp : Wmode = "fs" => \A i \in 1 .. SectorSize : Place(s, i) = At(SectorSize, s, i)
  BY DEF Place, At
<1>2. \A s \in 1 .. Spp : Wmode = "fi" => \A i \in 1 .. CwSize : Place(s, i) = At(CwSize, s, i)
  BY DEF Place, At
<1>3. ASSUME NEW s \in 1 .. Spp, Wmode \in Linux, NEW i \in 1 .. LinuxOf(s)
      PROVE  Place(s, i) = At(SectorSize + Extra, s, i)
  <2>1. ~(Wmode = "fy" /\ s = Spp /\ i > LastPart)
    BY <1>0 DEF LinuxOf
  <2>2. Wmode # "fs" /\ Wmode # "fi"
    BY <1>3 DEF Linux
  <2>3. QED
    BY <2>1, <2>2 DEF Place, At
<1>4. ASSUME Wmode = "fy", NEW i \in 1 .. TagSize
      PROVE  Place(Spp, LastPart + i) = PageSize + i
  <2>1. LastPart + i > LastPart /\ PageSize + (LastPart + i) - LastPart = PageSize + i
    BY <1>0
  <2>2. QED
    BY <1>4, <2>1 DEF Place
<1>5. QED
  BY <1>1, <1>2, <1>3, <1>4

\* How much of a page is read.
LEMMA Reading ==
  ASSUME pair \in Pairs
  PROVE  /\ Wmode \in {"fs", "fl", "fo"} => ReadLen = PageSize
         /\ Wmode \in {"fi", "fy"} => ReadLen = BufLen
         /\ ReadLen \in Nat /\ BufLen \in Nat /\ PageSize \in Nat \ {0}
         /\ PageSize <= ReadLen /\ ReadLen <= BufLen
<1>1. ReadLen = IF Wmode = "fo" THEN PageSize ELSE PageSize + Spp * OobSize
  BY DEF ReadLen
<1>2. PageSize \in Nat \ {0} /\ BufLen \in Nat /\ PageSize <= BufLen /\ Spp \in Nat
  BY Within, Lengths
<1>3. /\ Wmode \in {"fs", "fl", "fo"} => ReadLen = PageSize
      /\ Wmode \in {"fi", "fy"} => ReadLen = BufLen
  <2>1. Spp * 0 = 0
    BY <1>2
  <2>2. Wmode \in {"fs", "fl"} => OobSize = 0
    BY Formats
  <2>3. Wmode \in {"fi", "fy"} => OobSize = Oob
    BY Formats
  <2>4. QED
    BY <1>1, <1>2, <2>1, <2>2, <2>3 DEF BufLen
<1>4. QED
  BY <1>2, <1>3, Formats

\* A place that holds every byte where the file has it, or what stands for it, holds
\* what is to be written.
LEMMA FileGiven ==
  ASSUME pair \in Pairs, source \in SourcePages, Prefix, NEW f,
         \A k \in 1 .. ReadLen :
            f[k] = IF k <= Len(infile) THEN infile[k] ELSE IF k <= PageSize THEN FF ELSE earlier[k]
  PROVE  InFile(f)
<1> DEFINE d == DumpedPage(source)
<1>1. InDump(d)
  BY Dumped
<1>2. \A k \in 1 .. Len(infile) : infile[k] = d[k]
  BY DEF Prefix
<1>3. /\ Wmode \in {"fs", "fl", "fo"} => ReadLen = PageSize
      /\ Wmode \in {"fi", "fy"} => ReadLen = BufLen
      /\ ReadLen \in Nat /\ PageSize \in Nat /\ PageSize <= ReadLen /\ Len(infile) \in Nat
  BY Reading DEF Prefix
<1> HIDE DEF d
\* One byte.
<1>4. ASSUME NEW s \in 1 .. Spp, NEW i \in Int, NEW p \in 1 .. ReadLen,
             Place(s, i) = p, d[p] = source[s][i]
      PROVE  f[p] = Given(s, i)
  <2>1. f[p] = IF p <= Len(infile) THEN infile[p] ELSE IF p <= PageSize THEN FF ELSE earlier[p]
    OBVIOUS
  <2>2. p <= Len(infile) => infile[p] = source[s][i]
    BY <1>2, <1>3, <1>4
  <2>3. Given(s, i) = IF p <= Len(infile) THEN source[s][i]
                      ELSE IF p <= PageSize THEN FF ELSE earlier[p]
    BY <1>4 DEF Given
  <2>4. QED
    BY <2>1, <2>2, <2>3
<1>5. ASSUME Wmode = "fs", NEW s \in 1 .. Spp, NEW i \in 1 .. SectorSize
      PROVE  f[At(SectorSize, s, i)] = Given(s, i)
  <2>1. /\ At(SectorSize, s, i) \in 1 .. PageSize /\ Place(s, i) = At(SectorSize, s, i)
        /\ d[At(SectorSize, s, i)] = source[s][i]
    BY <1>1, <1>5, Within, Places DEF InDump
  <2>2. At(SectorSize, s, i) \in 1 .. ReadLen
    BY <1>3, <2>1
  <2>3. QED
    BY <1>4, <2>1, <2>2
<1>6. ASSUME Wmode = "fi", NEW s \in 1 .. Spp, NEW i \in 1 .. CwSize
      PROVE  f[At(CwSize, s, i)] = Given(s, i)
  <2>1. /\ At(CwSize, s, i) \in 1 .. ReadLen /\ Place(s, i) = At(CwSize, s, i)
        /\ d[At(CwSize, s, i)] = source[s][i]
    BY <1>1, <1>3, <1>6, Within, Places DEF InDump
  <2>2. QED
    BY <1>4, <2>1
<1>7. ASSUME Wmode \in Linux, NEW s \in 1 .. Spp, NEW i \in 1 .. LinuxOf(s)
      PROVE  f[At(SectorSize + Extra, s, i)] = Given(s, i)
  <2>1. /\ At(SectorSize + Extra, s, i) \in 1 .. PageSize
        /\ Place(s, i) = At(SectorSize + Extra, s, i)
        /\ d[At(SectorSize + Extra, s, i)] = source[s][i]
    BY <1>1, <1>7, Within, Places DEF InDump
  <2>2. At(SectorSize + Extra, s, i) \in 1 .. ReadLen
    BY <1>3, <2>1
  <2>3. i \in Int
    OBVIOUS
  <2>4. QED
    BY <1>4, <2>1, <2>2, <2>3
<1>8. ASSUME Wmode = "fy", NEW i \in 1 .. TagSize
      PROVE  f[PageSize + i] = Given(Spp, LastPart + i)
  <2>1. Place(Spp, LastPart + i) = PageSize + i /\ d[PageSize + i] = source[Spp][LastPart + i]
    BY <1>1, <1>8, Places DEF InDump
  <2>2. PageSize + i \in 1 .. ReadLen
    <3> DEFINE w == Spp * Oob
    <3>1. w \in Nat /\ TagSize <= w /\ BufLen = PageSize + w /\ TagSize \in Nat
      BY Lengths DEF BufLen
    <3> HIDE DEF w
    <3>2. QED
      BY <1>3, <1>8, <3>1
  <2>3. Spp \in 1 .. Spp /\ LastPart + i \in Int
    BY Lengths
  <2>4. QED
    BY <1>4, <2>1, <2>2, <2>3
<1>9. QED
  BY <1>5, <1>6, <1>7, <1>8 DEF InFile

\* fread() puts the page into its buffer; behind the first pagesize bytes an earlier
\* page stays where the file has ended.
LEMMA FileRead ==
  ASSUME Shapes, Carries, Leftover, source \in SourcePages, ReadFile
  PROVE  /\ InFile(srcbuf')
         /\ Len(infile) = ReadLen => \A k \in 1 .. ReadLen : srcbuf'[k] = infile[k]
<1> DEFINE blank == Const(FF, PageSize)
           first == Memcpy(srcbuf, 0, blank, 0, PageSize)
           n == IF Len(infile) < ReadLen THEN Len(infile) ELSE ReadLen
<1>1. Prefix /\ pair \in Pairs /\ pc = "fread" /\ DOMAIN srcbuf = 1 .. BufLen
  BY DEF Carries, Shapes, ReadFile
<1>2. /\ ReadLen \in Nat /\ BufLen \in Nat /\ PageSize \in Nat
      /\ PageSize <= ReadLen /\ ReadLen <= BufLen
  BY <1>1, Reading
<1>3. n = Len(infile) /\ Len(infile) \in Nat /\ Len(infile) <= ReadLen
  BY <1>1, <1>2 DEF Prefix
<1>4. srcbuf' = Memcpy(first, 0, infile, 0, Len(infile))
  <2>1. srcbuf' = Memcpy(first, 0, infile, 0, n)
    BY DEF ReadFile
  <2>2. QED
    BY <1>3, <2>1
<1>5. \A k \in 1 .. PageSize : blank[k] = FF
  BY DEF Const
<1> HIDE DEF blank
<1>6. /\ DOMAIN first = 1 .. BufLen
      /\ \A k \in 1 .. BufLen : first[k] = IF k <= PageSize THEN FF ELSE srcbuf[k]
  <2>1. DOMAIN first = 1 .. BufLen
    BY <1>1 DEF Memcpy
  <2>2. ASSUME NEW k \in 1 .. BufLen
        PROVE  first[k] = IF k <= PageSize THEN FF ELSE srcbuf[k]
    <3>1. k \in DOMAIN srcbuf /\ 0 < k /\ 0 + PageSize = PageSize /\ 0 + k - 0 = k
      BY <1>1, <1>2
    <3>2. first[k] = IF 0 < k /\ k <= 0 + PageSize THEN blank[0 + k - 0] ELSE srcbuf[k]
      BY <3>1 DEF Memcpy
    <3> HIDE DEF first
    <3>3. QED
      BY <1>2, <1>5, <3>1, <3>2
  <2>3. QED
    BY <2>1, <2>2
<1> HIDE DEF first
<1>7. ASSUME NEW k \in 1 .. ReadLen
      PROVE  srcbuf'[k] = IF k <= Len(infile) THEN infile[k]
                          ELSE IF k <= PageSize THEN FF ELSE earlier[k]
  <2>1. k \in 1 .. BufLen
    BY <1>2
  <2>2. k \in DOMAIN first /\ 0 < k /\ 0 + Len(infile) = Len(infile) /\ 0 + k - 0 = k
    BY <1>3, <1>6, <2>1
  <2>3. srcbuf'[k] = IF 0 < k /\ k <= 0 + Len(infile) THEN infile[0 + k - 0] ELSE first[k]
    BY <1>4, <2>2 DEF Memcpy
  <2>4. k > PageSize => srcbuf[k] = earlier[k]
    <3>1. k > PageSize => k \in PageSize + 1 .. ReadLen
      BY <1>2
    <3>2. QED
      BY <1>1, <3>1 DEF Leftover
  <2>5. QED
    BY <1>2, <1>6, <2>1, <2>2, <2>3, <2>4
<1>8. InFile(srcbuf')
  BY <1>1, <1>7, FileGiven
<1>9. QED
  BY <1>7, <1>8

\* What a format carries over is what the file gives.
LEMMA CarriedGiven ==
  ASSUME pair \in Pairs, NEW f, InFile(f), NEW s \in 1 .. Spp, NEW i \in 1 .. Carried(s)
  PROVE  f[Place(s, i)] = Given(s, i) /\ Place(s, i) \in 1 .. BufLen
<1>0. /\ SectorSize \in Nat \ {0} /\ Spp \in Nat \ {0} /\ TagSize \in Nat /\ Oob \in Nat /\ Extra \in Nat
      /\ LastPart \in Nat \ {0} /\ LastPart <= SectorSize
      /\ PageSize \in Nat /\ BufLen \in Nat /\ PageSize <= BufLen
  BY Lengths, Within
<1>1. CASE Wmode = "fs"
  <2>1. i \in 1 .. SectorSize
    BY <1>1 DEF Carried
  <2>2. At(SectorSize, s, i) \in 1 .. PageSize
    BY <2>1, Within
  <2>3. QED
    BY <1>0, <1>1, <2>1, <2>2, Places DEF InFile
<1>2. CASE Wmode = "fi"
  <2>1. i \in 1 .. CwSize
    BY <1>2 DEF Carried
  <2>2. QED
    BY <1>2, <2>1, Within, Places DEF InFile
<1>3. CASE Wmode \in Linux /\ i \in 1 .. LinuxOf(s)
  <2>1. At(SectorSize + Extra, s, i) \in 1 .. PageSize
    BY <1>3, Within
  <2>2. QED
    BY <1>0, <1>3, <2>1, Places DEF InFile
<1>4. CASE Wmode \in Linux /\ i \notin 1 .. LinuxOf(s)
  <2>1. Wmode = "fy" /\ s = Spp /\ i \in 1 .. LastPart + TagSize /\ ~(i <= LastPart)
    BY <1>0, <1>4 DEF Carried, LinuxOf, Linux
  <2> DEFINE j == i - LastPart
  <2>2. j \in 1 .. TagSize /\ LastPart + j = i
    BY <1>0, <2>1
  <2> HIDE DEF j
  <2>3. Place(Spp, LastPart + j) = PageSize + j /\ f[PageSize + j] = Given(Spp, LastPart + j)
    BY <2>1, <2>2, Places DEF InFile
  <2>4. PageSize + j \in 1 .. BufLen
    <3> DEFINE w == Spp * Oob
    <3>1. w \in Nat /\ TagSize <= w /\ BufLen = PageSize + w
      BY Lengths DEF BufLen
    <3> HIDE DEF w
    <3>2. QED
      BY <1>0, <2>2, <3>1
  <2>5. QED
    BY <2>1, <2>2, <2>3, <2>4
<1>5. QED
  BY <1>1, <1>2, <1>3, <1>4, Formats DEF Linux

\* What is to be written changes with the page alone.
LEMMA GivenKept ==
  ASSUME UNCHANGED <<pair, source, infile, earlier>>
  PROVE  \A s, i : Given(s, i)' = Given(s, i) /\ Place(s, i)' = Place(s, i)
  BY DEF Given, Place, Wmode

\* The page is taken apart into its data and what stands beside them.
LEMMA PageSplit ==
  ASSUME Shapes, Carries, SplitPage
  PROVE  InBuffers'
<1>0. /\ SectorSize \in Nat \ {0} /\ Spp \in Nat \ {0} /\ TagSize \in Nat /\ Oob \in Nat
      /\ CwSize \in Nat \ {0} /\ CwSize = SectorSize + Oob
      /\ PageSize \in Nat \ {0} /\ PageSize = Spp * SectorSize
      /\ Oob * Spp = Spp * Oob /\ Spp * Oob \in Nat /\ TagSize <= Oob * Spp
  BY Lengths
<1>1. /\ InFile(srcbuf) /\ pair \in Pairs /\ pair' = pair
      /\ UNCHANGED <<pair, source, infile, earlier>>
      /\ DOMAIN databuf = 1 .. BufLen /\ DOMAIN oobuf = 1 .. BufLen
  BY DEF Carries, Shapes, SplitPage
<1>2. /\ Wmode' = Wmode
      /\ \A s, i : Given(s, i)' = Given(s, i)
  BY <1>1, GivenKept DEF Wmode
<1>3. BufLen \in Nat /\ PageSize <= BufLen /\ Spp * SectorSize <= BufLen /\ Spp * Oob <= BufLen
  <2> DEFINE w == Spp * Oob
  <2>1. BufLen = PageSize + w /\ w \in Nat
    BY <1>0 DEF BufLen
  <2> HIDE DEF w
  <2>2. BufLen \in Nat /\ PageSize <= BufLen /\ w <= BufLen
    BY <1>0, <2>1
  <2>3. QED
    BY <1>0, <2>2 DEF w
\* The pieces, wherever they are taken from.
<1>11. /\ \A size \in Int, off \in Int : \A s \in 1 .. Spp : \A i \in 1 .. SectorSize :
             Gathered(databuf, size, off, SectorSize)[At(SectorSize, s, i)] = srcbuf[At(size, s, off + i)]
       /\ Oob # 0 => \A size \in Int, off \in Int : \A s \in 1 .. Spp : \A i \in 1 .. Oob :
             Gathered(oobuf, size, off, Oob)[At(Oob, s, i)] = srcbuf[At(size, s, off + i)]
  <2>1. PICK len \in Nat : len = BufLen
    BY <1>3
  <2>2. DOMAIN databuf = 1 .. len
    BY <1>1, <2>1
  <2>3. Spp * SectorSize <= len
    BY <1>3, <2>1
  <2>4. SectorSize \in Nat \ {0}
    BY <1>0
  <2>5. \A size \in Int, off \in Int : \A s \in 1 .. Spp : \A i \in 1 .. SectorSize :
          Gathered(databuf, size, off, SectorSize)[At(SectorSize, s, i)] = srcbuf[At(size, s, off + i)]
    <3> TAKE size \in Int, off \in Int
    <3>1. QED
      BY <2>2, <2>3, <2>4, GatheredAt, SMTT(60)
  <2>6. ASSUME Oob # 0
        PROVE  \A size \in Int, off \in Int : \A s \in 1 .. Spp : \A i \in 1 .. Oob :
                 Gathered(oobuf, size, off, Oob)[At(Oob, s, i)] = srcbuf[At(size, s, off + i)]
    <3>1. DOMAIN oobuf = 1 .. len
      BY <1>1, <2>1
    <3>2. Spp * Oob <= len
      BY <1>3, <2>1
    <3>3. Oob \in Nat \ {0}
      BY <1>0, <2>6
    <3> TAKE size \in Int, off \in Int
    <3>4. QED
      BY <3>1, <3>2, <3>3, GatheredAt, SMTT(60)
  <2>7. QED
    BY <2>5, <2>6
<1>4. CASE Wmode = "fs"
  <2>1. OobSize = 0 /\ SectorSize + 0 = SectorSize
    BY <1>0, <1>1, <1>4, Formats
  <2>2. databuf' = Gathered(databuf, SectorSize, 0, SectorSize)
    BY <1>4, <2>1 DEF SplitPage
  <2>3. \A s \in 1 .. Spp : \A i \in 1 .. SectorSize : databuf'[At(SectorSize, s, i)] = Given(s, i)
    <3> TAKE s \in 1 .. Spp
    <3> TAKE i \in 1 .. SectorSize
    <3>1. SectorSize \in Int /\ 0 + i = i
      BY <1>0
    <3>2. databuf'[At(SectorSize, s, i)] = srcbuf[At(SectorSize, s, 0 + i)]
      BY <1>11, <2>2, <3>1
    <3>3. QED
      BY <1>1, <1>4, <3>1, <3>2 DEF InFile
  <2>4. QED
    BY <1>1, <1>2, <1>4, <2>3 DEF InBuffers, Linux
<1>5. CASE Wmode = "fi"
  <2>1. OobSize = Oob /\ SectorSize + OobSize = CwSize
    BY <1>0, <1>1, <1>5, Formats
  <2>2. databuf' = Gathered(databuf, CwSize, 0, SectorSize)
        /\ oobuf' = Gathered(oobuf, CwSize, SectorSize, Oob)
    BY <1>5, <2>1 DEF SplitPage
  <2>3. \A s \in 1 .. Spp : \A i \in 1 .. SectorSize : databuf'[At(SectorSize, s, i)] = Given(s, i)
    <3> TAKE s \in 1 .. Spp
    <3> TAKE i \in 1 .. SectorSize
    <3>1. CwSize \in Int /\ 0 + i = i /\ i \in 1 .. CwSize
      BY <1>0
    <3>2. databuf'[At(SectorSize, s, i)] = srcbuf[At(CwSize, s, 0 + i)]
      BY <1>11, <2>2, <3>1
    <3>3. QED
      BY <1>1, <1>5, <3>1, <3>2 DEF InFile
  <2>4. \A s \in 1 .. Spp : \A i \in 1 .. Oob : oobuf'[At(Oob, s, i)] = Given(s, SectorSize + i)
    <3> TAKE s \in 1 .. Spp
    <3> TAKE i \in 1 .. Oob
    <3>1. CwSize \in Int /\ SectorSize \in Int /\ SectorSize + i \in 1 .. CwSize /\ Oob # 0
      BY <1>0
    <3>2. oobuf'[At(Oob, s, i)] = srcbuf[At(CwSize, s, SectorSize + i)]
      BY <1>11, <2>2, <3>1
    <3>3. QED
      BY <1>1, <1>5, <3>1, <3>2 DEF InFile
  <2>5. QED
    BY <1>1, <1>2, <1>5, <2>3, <2>4 DEF InBuffers, Linux
\* In the formats with larger sectors the data stay as they are.
<1>6. ASSUME databuf' = Memcpy(databuf, 0, srcbuf, 0, PageSize), Wmode \in Linux
      PROVE  \A s \in 1 .. Spp : \A i \in 1 .. LinuxOf(s) :
               databuf'[At(SectorSize + Extra, s, i)] = Given(s, i)
  <2> TAKE s \in 1 .. Spp
  <2> TAKE i \in 1 .. LinuxOf(s)
  <2> DEFINE p == At(SectorSize + Extra, s, i)
  <2>1. p \in 1 .. PageSize
    BY Within
  <2>2. srcbuf[p] = Given(s, i)
    BY <1>1, <1>6 DEF InFile
  <2> HIDE DEF p
  <2>3. p \in DOMAIN databuf /\ 0 < p /\ p <= 0 + PageSize /\ 0 + p - 0 = p
    BY <1>0, <1>1, <1>3, <2>1
  <2>4. databuf'[p] = srcbuf[p]
    BY <1>6, <2>3 DEF Memcpy
  <2>5. QED
    BY <2>2, <2>4 DEF p
<1>7. CASE Wmode = "fo"
  <2>1. databuf' = Memcpy(databuf, 0, srcbuf, 0, PageSize)
    BY <1>7 DEF SplitPage
  <2>2. QED
    BY <1>1, <1>2, <1>6, <1>7, <2>1 DEF InBuffers, Linux
<1>8. CASE Wmode = "fy"
  <2>1. databuf' = Memcpy(databuf, 0, srcbuf, 0, PageSize)
    BY <1>8 DEF SplitPage
  <2>2. oobuf' = Memcpy(oobuf, 0, srcbuf, PageSize, Oob * Spp)
    <3>1. OobSize = Oob
      BY <1>1, <1>8, Formats
    <3>2. QED
      BY <1>8, <3>1 DEF SplitPage
  <2>3. \A i \in 1 .. TagSize : oobuf'[i] = Given(Spp, LastPart + i)
    <3> TAKE i \in 1 .. TagSize
    <3> DEFINE w == Oob * Spp
    <3>1. w \in Nat /\ w <= BufLen /\ TagSize <= w
      BY <1>0, <1>3
    <3>2. oobuf' = Memcpy(oobuf, 0, srcbuf, PageSize, w)
      BY <2>2
    <3> HIDE DEF w
    <3>3. i \in DOMAIN oobuf /\ 0 < i /\ i <= 0 + w /\ PageSize + i - 0 = PageSize + i
      BY <1>0, <1>1, <1>3, <3>1
    <3>4. oobuf'[i] = srcbuf[PageSize + i]
      BY <3>2, <3>3 DEF Memcpy
    <3>5. QED
      BY <1>1, <1>8, <3>4 DEF InFile
  <2>4. QED
    BY <1>1, <1>2, <1>6, <1>8, <2>1, <2>3 DEF InBuffers, Linux
\* In format -fl they are moved piece by piece, each to where it was.
<1>9. CASE Wmode = "fl"
  <2>1. OobSize = 0 /\ SectorSize + 0 = SectorSize
    BY <1>0, <1>1, <1>9, Formats
  <2>2. databuf' = Gathered(databuf, SectorSize, 0, SectorSize)
    BY <1>9, <2>1 DEF SplitPage
  <2>3. \A p \in 1 .. PageSize : databuf'[p] = srcbuf[p]
    <3> TAKE p \in 1 .. PageSize
    <3> DEFINE q == (p - 1) \div SectorSize
               r == (p - 1) % SectorSize
    <3>1. p - 1 = SectorSize * q + r /\ q \in Int /\ r \in Int
      BY <1>0
    <3>2. p \in DOMAIN databuf /\ p <= Spp * SectorSize
      BY <1>0, <1>1, <1>3
    <3>3. databuf'[p] = srcbuf[q * SectorSize + 0 + r + 1]
      BY <2>2, <3>2 DEF Gathered
    <3>4. q * SectorSize = SectorSize * q /\ SectorSize * q \in Int
      BY <1>0, <3>1
    <3> DEFINE x == SectorSize * q
    <3> HIDE DEF q, r
    <3>5. databuf'[p] = srcbuf[x + 0 + r + 1] /\ x \in Int /\ p - 1 = x + r
      BY <3>1, <3>3, <3>4
    <3> HIDE DEF x
    <3>6. x + 0 + r + 1 = p
      BY <1>0, <3>1, <3>5
    <3>7. QED
      BY <3>5, <3>6
  <2>4. \A s \in 1 .. Spp : \A i \in 1 .. LinuxOf(s) :
          databuf'[At(SectorSize + Extra, s, i)] = Given(s, i)
    BY <1>1, <1>9, <2>3, Within DEF InFile, Linux
  <2>5. QED
    BY <1>1, <1>2, <1>9, <2>4 DEF InBuffers, Linux
<1>10. QED
  BY <1>1, <1>4, <1>5, <1>7, <1>8, <1>9, Formats

LEMMA InitCarries == Init => Carries
  BY DEF Init, Carries

LEMMA NextCarries ==
  ASSUME Shapes, Carries, Leftover, source \in SourcePages, [Next]_vars
  PROVE  Carries'
<1>1. CASE DumpPage
  <2> DEFINE d == DumpedPage(source)
  <2>1. Len(d) = ReadLen /\ ReadLen \in Nat
    BY <1>1, Dumped, Reading DEF Shapes
  <2>2. /\ pc' = "fread" /\ pair' = pair /\ source' = source
        /\ \E n \in 1 .. Len(d) : infile' = SubSeq(d, 1, n)
    BY <1>1 DEF DumpPage
  <2>3. d' = d /\ ReadLen' = ReadLen
    BY <2>2 DEF DumpedPage, Rmode, Wmode, ReadLen, OobSize
  <2> HIDE DEF d
  <2>4. PICK n \in 1 .. Len(d) : infile' = SubSeq(d, 1, n)
    BY <2>2
  <2>5. Len(infile') = n /\ n \in Nat /\ n <= ReadLen /\ \A k \in 1 .. n : infile'[k] = d[k]
    BY <2>1, <2>4
  <2>6. Prefix'
    BY <2>3, <2>5 DEF Prefix, d
  <2>7. QED
    BY <2>2, <2>6 DEF Carries
<1>2. CASE ReadFile
  <2>1. UNCHANGED <<pair, source, infile, earlier>> /\ pc' \in {"split", "next"}
    BY <1>2 DEF ReadFile
  <2>2. \A s, i : Given(s, i)' = Given(s, i)
    BY <2>1, GivenKept
  <2>3. InFile(srcbuf)'
    BY <1>2, <2>1, <2>2, FileRead DEF InFile, Wmode
  <2>4. QED
    BY <2>1, <2>3 DEF Carries
<1>3. CASE SplitPage
  BY <1>3, PageSplit DEF SplitPage, Carries
<1>4. CASE NextPage
  BY <1>4 DEF NextPage, Carries
<1>5. CASE WriteSector \/ VerifySector \/ EndSectors \/ EndVerify
  <2>1. /\ UNCHANGED <<pair, source, infile, earlier, databuf, oobuf>>
        /\ pc \in {"write", "verify"} /\ pc' \in {"write", "verify", "next"}
    BY <1>5 DEF WriteSector, VerifySector, EndSectors, EndVerify
  <2>2. \A s, i : Given(s, i)' = Given(s, i)
    BY <2>1, GivenKept
  <2>3. InBuffers'
    BY <2>1, <2>2 DEF InBuffers, Carries, Wmode
  <2>4. QED
    BY <2>1, <2>3 DEF Carries
<1>6. CASE Finished \/ UNCHANGED vars
  <2>1. UNCHANGED <<pc, pair, source, infile, earlier, srcbuf, databuf, oobuf>>
    BY <1>6 DEF Finished, vars
  <2>2. \A s, i : Given(s, i)' = Given(s, i)
    BY <2>1, GivenKept
  <2>3. (Prefix => Prefix') /\ (InFile(srcbuf) => InFile(srcbuf)') /\ (InBuffers => InBuffers')
    BY <2>1, <2>2
       DEF Prefix, DumpedPage, Rmode, InFile, InBuffers, ReadLen, Wmode, OobSize
  <2>4. QED
    BY <2>1, <2>3 DEF Carries
<1>7. QED
  BY <1>1, <1>2, <1>3, <1>4, <1>5, <1>6 DEF Next

\* What an earlier page leaves in srcbuf is the page before this one.
LEMMA InitLeftover == Init => Leftover
  BY DEF Init, Leftover

LEMMA NextLeftover ==
  ASSUME Shapes, Carries, Leftover, source \in SourcePages, [Next]_vars
  PROVE  Leftover'
<1>0. pair' = pair => ReadLen' = ReadLen
  BY DEF ReadLen, Wmode, OobSize
<1>1. CASE DumpPage
  <2> DEFINE d == DumpedPage(source)
  <2>1. Len(d) = ReadLen /\ ReadLen \in Nat
    BY <1>1, Dumped, Reading DEF Shapes
  <2>2. /\ pc = "dump" /\ pc' = "fread" /\ UNCHANGED <<pair, srcbuf, earlier, page>>
        /\ \E n \in 1 .. Len(d) : (n < Len(d) => page + 1 = NumPages) /\ infile' = SubSeq(d, 1, n)
    BY <1>1 DEF DumpPage
  <2> HIDE DEF d
  <2>3. PICK n \in 1 .. Len(d) : (n < Len(d) => page + 1 = NumPages) /\ infile' = SubSeq(d, 1, n)
    BY <2>2
  <2>4. Len(infile') = n
    BY <2>1, <2>3
  <2>5. Len(infile') = ReadLen \/ page + 1 = NumPages
    BY <2>1, <2>3, <2>4
  <2>6. QED
    BY <1>0, <2>2, <2>5 DEF Leftover
<1>2. CASE ReadFile
  <2>1. /\ pc = "fread" /\ pc' \in {"split", "next"}
        /\ UNCHANGED <<pair, infile, earlier, page>>
    BY <1>2 DEF ReadFile
  <2>2. Len(infile) = ReadLen => \A k \in 1 .. ReadLen : srcbuf'[k] = infile[k]
    BY <1>2, FileRead
  <2>3. QED
    BY <1>0, <2>1, <2>2 DEF Leftover
<1>3. CASE NextPage
  <2>1. /\ pc = "next" /\ pc' = "dump" /\ page + 1 < NumPages
        /\ UNCHANGED <<pair, srcbuf, infile>> /\ earlier' = infile
    BY <1>3 DEF NextPage
  <2>2. page + 1 # NumPages
    <3>1. page + 1 \in Int /\ NumPages \in Int
      BY ConstantsAssumption DEF Shapes
    <3>2. QED
      BY <2>1, <3>1
  <2>3. Len(infile) = ReadLen /\ \A k \in 1 .. ReadLen : srcbuf[k] = infile[k]
    BY <2>1, <2>2 DEF Leftover
  <2>4. \A k \in PageSize + 1 .. ReadLen : srcbuf[k] = infile[k]
    BY <2>3, Reading DEF Shapes
  <2>5. QED
    BY <1>0, <2>1, <2>4 DEF Leftover
<1>4. CASE SplitPage \/ WriteSector \/ VerifySector \/ EndSectors \/ EndVerify
  <2>1. /\ UNCHANGED <<pair, page, infile, earlier, srcbuf>>
        /\ pc \notin {"dump", "fread"} /\ pc' \notin {"dump", "fread"}
    BY <1>4 DEF SplitPage, WriteSector, VerifySector, EndSectors, EndVerify
  <2>2. QED
    BY <1>0, <2>1 DEF Leftover
<1>5. CASE Finished \/ UNCHANGED vars
  <2>1. UNCHANGED <<pc, pair, page, infile, earlier, srcbuf>>
    BY <1>5 DEF Finished, vars
  <2>2. QED
    BY <1>0, <2>1 DEF Leftover
<1>6. QED
  BY <1>1, <1>2, <1>3, <1>4, <1>5 DEF Next

\* -s passes over nothing else.
LEMMA InitPassed == Init => Passed
  BY DEF Init, Passed, SkipsEmpty

LEMMA NextPassed ==
  ASSUME Shapes, Carries, Leftover, Passed, source \in SourcePages, [Next]_vars
  PROVE  Passed'
<1>1. CASE ReadFile
  <2>1. /\ UNCHANGED <<pair, source, infile, earlier>> /\ pc' \in {"split", "next"}
        /\ skipped' = (sflag /\ TestEmpty(srcbuf'))
        /\ pc' = IF skipped' THEN "next" ELSE "split"
    BY <1>1 DEF ReadFile
  <2>2. \A s, i : Given(s, i)' = Given(s, i) /\ Place(s, i)' = Place(s, i)
    BY <2>1, GivenKept
  <2>3. InFile(srcbuf') /\ pair \in Pairs
    BY <1>1, FileRead DEF Shapes
  <2>4. ASSUME skipped', NEW s \in 1 .. Spp, NEW i \in 1 .. Carried(s)
        PROVE  Given(s, i) = FF \/ Place(s, i) > PageSize
    <3>1. \A k \in 1 .. PageSize : srcbuf'[k] = FF
      BY <2>1, <2>4 DEF TestEmpty
    <3>2. srcbuf'[Place(s, i)] = Given(s, i) /\ Place(s, i) \in 1 .. BufLen
      BY <2>3, CarriedGiven
    <3> DEFINE p == Place(s, i)
    <3> HIDE DEF p
    <3>3. p > PageSize \/ p \in 1 .. PageSize
      BY <3>2, Lengths, Within DEF p
    <3>4. QED
      BY <3>1, <3>2, <3>3 DEF p
  <2>5. \A s : Carried(s)' = Carried(s)
    BY <2>1 DEF Carried, Wmode
  <2>6. SkipsEmpty'
    BY <2>2, <2>4, <2>5 DEF SkipsEmpty
  <2>7. QED
    BY <2>1, <2>6 DEF Passed
<1>2. CASE NextPage
  BY <1>2 DEF NextPage, Passed, SkipsEmpty
<1>3. CASE DumpPage \/ SplitPage \/ WriteSector \/ VerifySector \/ EndSectors \/ EndVerify
  <2>1. ~skipped /\ ~skipped'
    BY <1>3 DEF DumpPage, SplitPage, WriteSector, VerifySector, EndSectors, EndVerify, Passed
  <2>2. QED
    BY <2>1 DEF Passed, SkipsEmpty
<1>4. CASE Finished \/ UNCHANGED vars
  <2>1. UNCHANGED <<pc, pair, source, infile, earlier, skipped>>
    BY <1>4 DEF Finished, vars
  <2>2. \A s, i : Given(s, i)' = Given(s, i) /\ Place(s, i)' = Place(s, i)
    BY <2>1, GivenKept
  <2>3. \A s : Carried(s)' = Carried(s)
    BY <2>1 DEF Carried, Wmode
  <2>4. QED
    BY <2>1, <2>2, <2>3 DEF Passed, SkipsEmpty
<1>5. QED
  BY <1>1, <1>2, <1>3, <1>4 DEF Next

-----------------------------------------------------------------------------
(* The sectors.                                                             *)

\* What the controller gets for a sector: its bytes, and nothing of another one.
LEMMA ComposedRight ==
  ASSUME Shapes, InBuffers, sector \in 1 .. Spp
  PROVE  /\ DOMAIN Composed = 1 .. CwSize
         /\ \A i \in 1 .. Carried(sector) : i \in 1 .. CwSize /\ Composed[i] = Given(sector, i)
         /\ \A i \in 1 .. CwSize : i > Carried(sector) =>
               Composed[i] = FF \/ (Wmode = "fl" /\ i > SectorSize)
<1>0. /\ SectorSize \in Nat \ {0} /\ Spp \in Nat \ {0} /\ TagSize \in Nat /\ Oob \in Nat /\ Extra \in Nat
      /\ CwSize \in Nat \ {0} /\ CwSize = SectorSize + Oob /\ Extra <= Oob
      /\ LastPart \in Nat \ {0} /\ LastPart <= SectorSize /\ LastPart + TagSize <= SectorSize + Extra
  BY Lengths
<1> DEFINE empty == Const(FF, CwSize)
           from == (sector - 1) * SectorSize
           data  == Memcpy(empty, 0, databuf, from, SectorSize)
           linux == Memcpy(empty, 0, databuf, LinuxFrom, LinuxLen)
<1>1. /\ DOMAIN empty = 1 .. CwSize
      /\ \A i \in 1 .. CwSize : empty[i] = FF
  BY DEF Const
<1>2. from \in Int /\ LinuxFrom \in Int /\ LinuxLen \in Nat /\ LinuxLen = LinuxOf(sector)
      /\ LinuxLen <= CwSize
  <2>1. sector - 1 \in Int /\ SectorSize + Extra \in Int
    BY <1>0
  <2>2. (sector - 1) * SectorSize \in Int /\ (sector - 1) * (SectorSize + Extra) \in Int
    BY <1>0, <2>1
  <2>3. LinuxLen = LinuxOf(sector)
    BY DEF LinuxLen, LinuxOf, LastSector
  <2>4. LinuxOf(sector) \in Nat /\ LinuxOf(sector) <= CwSize
    BY <1>0 DEF LinuxOf
  <2>5. QED
    BY <2>2, <2>3, <2>4 DEF LinuxFrom
<1>3. /\ \A i \in 1 .. SectorSize : At(SectorSize, sector, i) = from + i
      /\ \A i \in 1 .. LinuxLen : At(SectorSize + Extra, sector, i) = LinuxFrom + i
  BY DEF At, LinuxFrom
<1> HIDE DEF empty, from
<1>4. /\ DOMAIN data = 1 .. CwSize
      /\ \A i \in 1 .. CwSize : data[i] = IF i <= SectorSize THEN databuf[from + i] ELSE FF
  <2>1. DOMAIN data = 1 .. CwSize
    BY <1>1 DEF Memcpy
  <2>2. ASSUME NEW i \in 1 .. CwSize
        PROVE  data[i] = IF i <= SectorSize THEN databuf[from + i] ELSE FF
    <3>1. i \in DOMAIN empty /\ 0 < i /\ 0 + SectorSize = SectorSize /\ from + i - 0 = from + i
      BY <1>0, <1>1, <1>2
    <3>2. data[i] = IF 0 < i /\ i <= 0 + SectorSize THEN databuf[from + i - 0] ELSE empty[i]
      BY <3>1 DEF Memcpy
    <3> HIDE DEF data
    <3>3. QED
      BY <1>1, <3>1, <3>2
  <2>3. QED
    BY <2>1, <2>2
<1>5. /\ DOMAIN linux = 1 .. CwSize
      /\ \A i \in 1 .. CwSize : linux[i] = IF i <= LinuxLen THEN databuf[LinuxFrom + i] ELSE FF
  <2>1. DOMAIN linux = 1 .. CwSize
    BY <1>1 DEF Memcpy
  <2>2. ASSUME NEW i \in 1 .. CwSize
        PROVE  linux[i] = IF i <= LinuxLen THEN databuf[LinuxFrom + i] ELSE FF
    <3>1. i \in DOMAIN empty /\ 0 < i /\ 0 + LinuxLen = LinuxLen /\ LinuxFrom + i - 0 = LinuxFrom + i
      BY <1>0, <1>1, <1>2
    <3>2. linux[i] = IF 0 < i /\ i <= 0 + LinuxLen THEN databuf[LinuxFrom + i - 0] ELSE empty[i]
      BY <3>1 DEF Memcpy
    <3> HIDE DEF linux
    <3>3. QED
      BY <1>1, <3>1, <3>2
  <2>3. QED
    BY <2>1, <2>2
<1>6. Composed = CASE Wmode = "fs" -> data
                   [] Wmode = "fi" -> Memcpy(data, SectorSize, oobuf, (sector - 1) * OobSize, OobSize)
                   [] Wmode = "fy" -> IF LastSector THEN Memcpy(linux, LastPart, oobuf, 0, TagSize)
                                                    ELSE linux
                   [] Wmode \in {"fl", "fo"} -> linux
  BY DEF Composed, data, linux, empty, from
<1> HIDE DEF data, linux
<1>7. Wmode \in {"fs", "fi"} => \A i \in 1 .. SectorSize : databuf[from + i] = Given(sector, i)
  BY <1>3 DEF InBuffers
<1>8. Wmode \in Linux => \A i \in 1 .. LinuxLen : databuf[LinuxFrom + i] = Given(sector, i)
  BY <1>2, <1>3 DEF InBuffers
<1>9. CASE Wmode = "fs"
  <2>1. Composed = data /\ Carried(sector) = SectorSize
    BY <1>6, <1>9 DEF Carried
  <2>2. QED
    BY <1>0, <1>4, <1>7, <1>9, <2>1
<1>10. CASE Wmode = "fi"
  <2> DEFINE off == (sector - 1) * Oob
  <2>1. OobSize = Oob
    BY <1>10, Formats DEF Shapes
  <2>2. Composed = Memcpy(data, SectorSize, oobuf, off, Oob)
    BY <1>6, <1>10, <2>1
  <2>3. off \in Int /\ \A i \in 1 .. Oob : At(Oob, sector, i) = off + i
    BY <1>0 DEF At
  <2> HIDE DEF off
  <2>4. DOMAIN Composed = 1 .. CwSize
    BY <1>4, <2>2 DEF Memcpy
  <2>5. ASSUME NEW i \in 1 .. CwSize
        PROVE  Composed[i] = Given(sector, i)
    <3>1. Composed[i] = IF SectorSize < i /\ i <= SectorSize + Oob THEN oobuf[off + i - SectorSize]
                                                                   ELSE data[i]
      BY <1>4, <2>2 DEF Memcpy
    <3>2. CASE i <= SectorSize
      <4>1. Composed[i] = databuf[from + i] /\ i \in 1 .. SectorSize
        BY <1>0, <1>4, <3>1, <3>2
      <4>2. QED
        BY <1>7, <1>10, <4>1
    <3>3. CASE ~(i <= SectorSize)
      <4> DEFINE j == i - SectorSize
      <4>1. j \in 1 .. Oob /\ SectorSize + j = i /\ off + i - SectorSize = off + j
        BY <1>0, <2>3, <3>3
      <4>2. Composed[i] = oobuf[off + i - SectorSize]
        BY <1>0, <3>1, <3>3
      <4> HIDE DEF j
      <4>3. oobuf[At(Oob, sector, j)] = Given(sector, SectorSize + j)
        BY <1>10, <4>1 DEF InBuffers
      <4>4. QED
        BY <2>3, <4>1, <4>2, <4>3
    <3>4. QED
      BY <3>2, <3>3
  <2>6. Carried(sector) = CwSize
    BY <1>10 DEF Carried
  <2>7. QED
    BY <1>0, <2>4, <2>5, <2>6
<1>11. CASE Wmode \in {"fl", "fo"}
  <2>1. Composed = linux
    BY <1>6, <1>11
  <2>2. Carried(sector) \in Nat /\ Carried(sector) <= LinuxLen
        /\ (Wmode = "fo" => Carried(sector) = LinuxLen)
        /\ (Wmode = "fl" => Carried(sector) = LinuxLen \/ Carried(sector) = SectorSize)
    <3>1. LinuxLen = IF sector = Spp THEN LastPart ELSE SectorSize + Extra
      BY <1>2 DEF LinuxOf
    <3>2. Wmode = "fl" => Carried(sector) = IF sector = Spp THEN LastPart ELSE SectorSize
      BY DEF Carried
    <3>3. Wmode = "fo" => Carried(sector) = IF sector = Spp THEN LastPart ELSE SectorSize + Extra
      BY DEF Carried
    <3>4. QED
      BY <1>0, <1>11, <3>1, <3>2, <3>3
  <2>3. ASSUME NEW i \in 1 .. Carried(sector)
        PROVE  i \in 1 .. CwSize /\ Composed[i] = Given(sector, i)
    <3>1. i \in 1 .. LinuxLen /\ i \in 1 .. CwSize
      BY <1>0, <1>2, <2>2
    <3>2. QED
      BY <1>5, <1>8, <1>11, <2>1, <3>1 DEF Linux
  <2>4. ASSUME NEW i \in 1 .. CwSize, i > Carried(sector)
        PROVE  Composed[i] = FF \/ (Wmode = "fl" /\ i > SectorSize)
    <3>1. CASE Carried(sector) = LinuxLen
      <4>1. ~(i <= LinuxLen)
        BY <1>0, <1>2, <2>4, <3>1
      <4>2. QED
        BY <1>5, <2>1, <4>1
    <3>2. CASE Carried(sector) = SectorSize /\ Wmode = "fl"
      BY <2>4, <3>2
    <3>3. QED
      BY <1>11, <2>2, <3>1, <3>2
  <2>5. QED
    BY <1>5, <2>1, <2>3, <2>4
<1>12. CASE Wmode = "fy" /\ sector # Spp
  <2>1. Composed = linux /\ Carried(sector) = LinuxLen
    BY <1>2, <1>6, <1>12 DEF LastSector, Carried, LinuxOf
  <2>2. QED
    BY <1>0, <1>2, <1>5, <1>8, <1>12, <2>1 DEF Linux
<1>13. CASE Wmode = "fy" /\ sector = Spp
  <2>1. Composed = Memcpy(linux, LastPart, oobuf, 0, TagSize)
    BY <1>6, <1>13 DEF LastSector
  <2>2. Carried(sector) = LastPart + TagSize /\ LinuxLen = LastPart
    BY <1>2, <1>13 DEF Carried, LinuxOf
  <2>3. DOMAIN Composed = 1 .. CwSize
    BY <1>5, <2>1 DEF Memcpy
  <2>4. ASSUME NEW i \in 1 .. CwSize
        PROVE  Composed[i] = IF LastPart < i /\ i <= LastPart + TagSize THEN oobuf[0 + i - LastPart]
                                                                       ELSE linux[i]
    BY <1>5, <2>1 DEF Memcpy
  <2>5. ASSUME NEW i \in 1 .. Carried(sector)
        PROVE  i \in 1 .. CwSize /\ Composed[i] = Given(sector, i)
    <3>1. i \in 1 .. CwSize
      BY <1>0, <2>2
    <3>2. CASE i <= LastPart
      <4>1. Composed[i] = linux[i] /\ i \in 1 .. LinuxLen
        BY <1>0, <2>2, <2>4, <3>1, <3>2
      <4>2. linux[i] = databuf[LinuxFrom + i]
        BY <1>2, <1>5, <3>1, <4>1
      <4>3. QED
        BY <1>8, <1>13, <3>1, <4>1, <4>2 DEF Linux
    <3>3. CASE ~(i <= LastPart)
      <4> DEFINE j == i - LastPart
      <4>1. j \in 1 .. TagSize /\ LastPart + j = i /\ 0 + i - LastPart = j
        BY <1>0, <2>2, <3>1, <3>3
      <4>2. Composed[i] = oobuf[0 + i - LastPart]
        BY <1>0, <2>2, <2>4, <3>1, <3>3
      <4> HIDE DEF j
      <4>3. oobuf[j] = Given(Spp, LastPart + j)
        BY <1>13, <4>1 DEF InBuffers
      <4>4. QED
        BY <1>13, <3>1, <4>1, <4>2, <4>3
    <3>4. QED
      BY <3>2, <3>3
  <2>6. ASSUME NEW i \in 1 .. CwSize, i > Carried(sector)
        PROVE  Composed[i] = FF
    <3>1. ~(i <= LastPart + TagSize) /\ ~(i <= LinuxLen)
      BY <1>0, <2>2, <2>6
    <3>2. QED
      BY <1>5, <2>4, <3>1
  <2>7. QED
    BY <2>3, <2>5, <2>6
<1>14. QED
  BY <1>9, <1>10, <1>11, <1>12, <1>13, Formats DEF Shapes

\* What a format carries over fits into the sector, and what is programmed into the buffer.
LEMMA Fits ==
  ASSUME pair \in Pairs, NEW s \in 1 .. Spp
  PROVE  /\ UserSize \in Nat /\ UserSize <= CwSize /\ CwSize \in Nat
         /\ Carried(s) \in Nat /\ Carried(s) <= UserSize
         /\ SectorSize + OobSize \in Nat /\ SectorSize + OobSize <= CwSize
         /\ Carried(s) <= SectorSize + OobSize
         /\ Wmode # "fl" => UserSize <= SectorSize + OobSize
         /\ Wmode \in {"fs", "fi"} => SectorSize <= Carried(s)
         /\ SectorSize \in Nat /\ SectorSize <= UserSize /\ SectorSize <= SectorSize + OobSize
<1>0. /\ SectorSize \in Nat \ {0} /\ Spp \in Nat \ {0} /\ TagSize \in Nat /\ Oob \in Nat /\ Extra \in Nat
      /\ CwSize \in Nat \ {0} /\ CwSize = SectorSize + Oob /\ Extra <= Oob
      /\ LastPart \in Nat \ {0} /\ LastPart <= SectorSize /\ LastPart + TagSize <= SectorSize + Extra
  BY Lengths
<1>1. CASE Wmode = "fs"
  <2>1. OobSize = 0 /\ UserSize = SectorSize /\ Carried(s) = SectorSize
    BY <1>1, Formats DEF Carried
  <2>2. QED
    BY <1>0, <1>1, <2>1
<1>2. CASE Wmode = "fi"
  <2>1. OobSize = Oob /\ UserSize = CwSize /\ Carried(s) = CwSize
    BY <1>2, Formats DEF Carried
  <2>2. QED
    BY <1>0, <1>2, <2>1
<1>3. CASE Wmode = "fl"
  <2>1. OobSize = 0 /\ UserSize = SectorSize + Extra
        /\ Carried(s) = IF s = Spp THEN LastPart ELSE SectorSize
    BY <1>3, Formats DEF Carried
  <2>2. QED
    BY <1>0, <1>3, <2>1
<1>4. CASE Wmode = "fo"
  <2>1. OobSize = Oob /\ UserSize = SectorSize + Extra
        /\ Carried(s) = IF s = Spp THEN LastPart ELSE SectorSize + Extra
    BY <1>4, Formats DEF Carried
  <2>2. QED
    BY <1>0, <1>4, <2>1
<1>5. CASE Wmode = "fy"
  <2>1. OobSize = Oob /\ UserSize = SectorSize + Extra
        /\ Carried(s) = IF s = Spp THEN LastPart + TagSize ELSE SectorSize + Extra
    BY <1>5, Formats DEF Carried
  <2>2. QED
    BY <1>0, <1>5, <2>1
<1>6. QED
  BY <1>1, <1>2, <1>3, <1>4, <1>5, Formats

LEMMA Programmed ==
  ASSUME Shapes, InBuffers, sector \in 1 .. Spp,
         Residue, sbuf' = Memcpy(sbuf, 0, Composed, 0, SectorSize + OobSize)
  PROVE  /\ \A i \in 1 .. Carried(sector) : sbuf'[i] = Given(sector, i)
         /\ \A i \in Carried(sector) + 1 .. UserSize :
               sbuf'[i] = FF \/ (Wmode = "fl" /\ i > SectorSize /\ sbuf'[i] = Unset)
         /\ Wmode = "fl" => \A i \in SectorSize + 1 .. CwSize : sbuf'[i] \in {FF, Unset}
<1> DEFINE n == SectorSize + OobSize
<1>1. /\ UserSize \in Nat /\ UserSize <= CwSize /\ CwSize \in Nat
      /\ Carried(sector) \in Nat /\ Carried(sector) <= UserSize
      /\ n \in Nat /\ n <= CwSize /\ Carried(sector) <= n
      /\ (Wmode # "fl" => UserSize <= n)
  BY Fits DEF Shapes
<1>2. DOMAIN sbuf = 1 .. CwSize /\ sbuf' = Memcpy(sbuf, 0, Composed, 0, n)
  BY DEF Shapes
<1>7. SectorSize <= n
  <2>1. OobSize = 0 \/ OobSize = Oob
    BY DEF OobSize
  <2>2. QED
    BY <2>1, Lengths
<1> HIDE DEF n
<1>3. \A i \in 1 .. n : sbuf'[i] = Composed[i]
  <2> TAKE i \in 1 .. n
  <2>1. i \in DOMAIN sbuf /\ 0 < i /\ i <= 0 + n /\ 0 + i - 0 = i
    BY <1>1, <1>2
  <2>2. QED
    BY <1>2, <2>1 DEF Memcpy
<1>4. /\ \A i \in 1 .. Carried(sector) : Composed[i] = Given(sector, i)
      /\ \A i \in 1 .. CwSize : i > Carried(sector) =>
            Composed[i] = FF \/ (Wmode = "fl" /\ i > SectorSize)
  BY ComposedRight
<1>5. ASSUME Wmode = "fl"
      PROVE  \A i \in SectorSize + 1 .. CwSize : sbuf'[i] \in {FF, Unset}
  <2> TAKE i \in SectorSize + 1 .. CwSize
  <2>1. n = SectorSize /\ SectorSize \in Nat
    <3>1. OobSize = 0 /\ SectorSize \in Nat
      BY <1>5, Formats, Lengths DEF Shapes
    <3>2. QED
      BY <3>1 DEF n
  <2>2. i \in DOMAIN sbuf /\ ~(i <= 0 + n)
    BY <1>1, <1>2, <2>1
  <2>3. sbuf'[i] = sbuf[i]
    BY <1>2, <2>2 DEF Memcpy
  <2>4. QED
    BY <1>5, <2>3 DEF Residue
<1>6. ASSUME NEW i \in Carried(sector) + 1 .. UserSize
      PROVE  sbuf'[i] = FF \/ (Wmode = "fl" /\ i > SectorSize /\ sbuf'[i] = Unset)
  <2>1. i \in 1 .. CwSize /\ i > Carried(sector) /\ i <= UserSize
    BY <1>1
  <2>2. Composed[i] = FF \/ (Wmode = "fl" /\ i > SectorSize)
    BY <1>4, <2>1
  <2>3. CASE Wmode = "fl" /\ i > SectorSize
    <3>1. i \in SectorSize + 1 .. CwSize
      BY <2>1, <2>3, Lengths
    <3>2. QED
      BY <1>5, <2>3, <3>1
  <2>4. CASE ~(Wmode = "fl" /\ i > SectorSize)
    <3>1. i <= n
      <4>1. Wmode = "fl" => i <= SectorSize
        BY <2>1, <2>4, Lengths
      <4>2. SectorSize <= n
        BY <1>7
      <4>3. QED
        BY <1>1, <2>1, <4>1, <4>2, Lengths
    <3>2. i \in 1 .. n
      BY <1>1, <2>1, <3>1
    <3>3. QED
      BY <1>3, <2>2, <2>4, <3>2
  <2>5. QED
    BY <2>3, <2>4
<1>8. QED
  BY <1>1, <1>3, <1>4, <1>5, <1>6

\* A sector that is read back is what the flash holds.
LEMMA ReadBack ==
  ASSUME Shapes, sector \in 1 .. Spp, VerifySector
  PROVE  \A i \in 1 .. SectorSize : membuf'[i] = target[sector][i]
<1> DEFINE n == SectorSize + OobSize
<1>1. /\ UserSize \in Nat /\ UserSize <= CwSize /\ CwSize \in Nat
      /\ n \in Nat /\ n <= CwSize /\ SectorSize \in Nat
      /\ SectorSize <= UserSize /\ SectorSize <= n
  BY Fits DEF Shapes
<1>2. /\ DOMAIN sbuf = 1 .. CwSize /\ DOMAIN membuf = 1 .. CwSize
      /\ sbuf' = Memcpy(sbuf, 0, target[sector], 0, UserSize)
      /\ membuf' = Memcpy(membuf, 0, sbuf', 0, n)
  BY DEF Shapes, VerifySector
<1> HIDE DEF n
<1> TAKE i \in 1 .. SectorSize
<1>3. /\ i \in DOMAIN sbuf /\ i \in DOMAIN membuf /\ 0 < i /\ i <= 0 + UserSize /\ i <= 0 + n
      /\ 0 + i - 0 = i
  BY <1>1, <1>2
<1>4. sbuf'[i] = target[sector][i]
  BY <1>2, <1>3 DEF Memcpy
<1>5. membuf'[i] = sbuf'[i]
  BY <1>2, <1>3 DEF Memcpy
<1>6. QED
  BY <1>4, <1>5

-----------------------------------------------------------------------------
(* The page that is written.                                                *)

LEMMA InitPlaced == Init => Placed
<1> SUFFICES ASSUME Init, NEW s \in 1 .. Spp PROVE Blank(s) /\ Behind(s)
  BY DEF Placed
<1>1. target[s] = Const(FF, UserSize) /\ pc = "dump"
  BY DEF Init
<1>2. QED
  BY <1>1 DEF Blank, Behind, Const

LEMMA InitFresh == Init => Fresh
<1> SUFFICES ASSUME Init, NEW s \in 1 .. Spp PROVE Blank(s)
  BY DEF Fresh
<1>1. target[s] = Const(FF, UserSize)
  BY DEF Init
<1>2. QED
  BY <1>1 DEF Blank, Const

LEMMA NextFresh ==
  ASSUME Fresh, [Next]_vars
  PROVE  Fresh'
<1>1. CASE NextPage
  <2> SUFFICES ASSUME NEW s \in 1 .. Spp PROVE Blank(s)'
    BY DEF Fresh
  <2>1. target'[s] = Const(FF, UserSize) /\ pair' = pair
    BY <1>1 DEF NextPage
  <2>2. QED
    BY <2>1 DEF Blank, Const, UserSize, Wmode
<1>2. CASE Finished \/ UNCHANGED vars
  <2>1. UNCHANGED <<pc, pair, target>>
    BY <1>2 DEF Finished, vars
  <2>2. QED
    BY <2>1 DEF Fresh, Blank, UserSize, Wmode
<1>3. CASE \/ DumpPage \/ ReadFile \/ SplitPage \/ WriteSector \/ EndSectors
           \/ VerifySector \/ EndVerify
  <2>1. pc' # "dump"
    BY <1>3 DEF DumpPage, ReadFile, SplitPage, WriteSector, EndSectors, VerifySector, EndVerify
  <2>2. QED
    BY <2>1 DEF Fresh
<1>4. QED
  BY <1>1, <1>2, <1>3 DEF Next

LEMMA InitResidue == Init => Residue
<1> SUFFICES ASSUME Init PROVE \A i \in SectorSize + 1 .. CwSize : sbuf[i] \in {FF, Unset}
  BY DEF Residue
<1>1. sbuf = Const(Unset, CwSize) /\ SectorSize \in Nat
  BY Lengths DEF Init
<1>2. QED
  BY <1>1 DEF Const

LEMMA NextResidue ==
  ASSUME Shapes, Carries, Placed, Residue, [Next]_vars
  PROVE  Residue'
<1>0. SectorSize \in Nat /\ CwSize \in Nat
  BY Lengths
<1>1. CASE WriteSector
  <2>1. /\ pc = "write" /\ pair' = pair /\ sector \in 1 .. Spp
        /\ sbuf' = Memcpy(sbuf, 0, Composed, 0, SectorSize + OobSize)
    BY <1>1, Lengths DEF WriteSector, MoreSectors, Shapes
  <2>2. Wmode = "fl" => \A i \in SectorSize + 1 .. CwSize : sbuf'[i] \in {FF, Unset}
    BY <2>1, Programmed DEF Carries
  <2>3. QED
    BY <2>1, <2>2 DEF Residue, Wmode
<1>2. CASE VerifySector
  <2>1. /\ pair' = pair /\ sector \in 1 .. Spp
        /\ sbuf' = Memcpy(sbuf, 0, target[sector], 0, UserSize)
        /\ DOMAIN sbuf = 1 .. CwSize
    BY <1>2, Lengths DEF VerifySector, MoreSectors, Shapes
  <2>2. ASSUME Wmode = "fl", NEW i \in SectorSize + 1 .. CwSize
        PROVE  sbuf'[i] \in {FF, Unset}
    <3>1. UserSize \in Nat /\ Carried(sector) \in Nat /\ Carried(sector) <= SectorSize
      <4>1. UserSize \in Nat /\ Carried(sector) \in Nat
        BY <2>1, Fits DEF Shapes
      <4>2. Carried(sector) = IF sector = Spp THEN LastPart ELSE SectorSize
        BY <2>2 DEF Carried
      <4>3. QED
        BY <4>1, <4>2, Lengths
    <3>2. i \in DOMAIN sbuf /\ 0 < i /\ 0 + UserSize = UserSize /\ 0 + i - 0 = i
      BY <1>0, <2>1, <3>1
    <3>3. sbuf'[i] = IF 0 < i /\ i <= 0 + UserSize THEN target[sector][0 + i - 0] ELSE sbuf[i]
      BY <2>1, <3>2 DEF Memcpy
    <3>4. CASE i <= UserSize
      <4>1. i \in Carried(sector) + 1 .. UserSize /\ i \in 1 .. UserSize
        BY <1>0, <3>1, <3>4
      <4>2. Right(sector) \/ Blank(sector)
        BY <2>1 DEF Placed
      <4>3. target[sector][i] \in {FF, Unset}
        BY <4>1, <4>2 DEF Right, Erased, Blank
      <4>4. QED
        BY <3>2, <3>3, <3>4, <4>3
    <3>5. CASE ~(i <= UserSize)
      BY <2>2, <3>2, <3>3, <3>5 DEF Residue
    <3>6. QED
      BY <3>4, <3>5
  <2>3. QED
    BY <2>1, <2>2 DEF Residue, Wmode
<1>3. CASE NextPage
  <2>1. pair' = pair /\ sbuf' \in {sbuf, Const(Unset, CwSize)}
    BY <1>3 DEF NextPage
  <2>2. CASE sbuf' = sbuf
    BY <2>1, <2>2 DEF Residue, Wmode
  <2>3. CASE sbuf' = Const(Unset, CwSize)
    <3>1. \A i \in SectorSize + 1 .. CwSize : sbuf'[i] = Unset
      BY <1>0, <2>3 DEF Const
    <3>2. QED
      BY <3>1 DEF Residue
  <2>4. QED
    BY <2>1, <2>2, <2>3
<1>4. CASE \/ DumpPage \/ ReadFile \/ SplitPage \/ EndSectors \/ EndVerify
           \/ Finished \/ UNCHANGED vars
  <2>1. UNCHANGED <<pair, sbuf>>
    BY <1>4 DEF DumpPage, ReadFile, SplitPage, EndSectors, EndVerify, Finished, vars
  <2>2. QED
    BY <2>1 DEF Residue, Wmode
<1>5. QED
  BY <1>1, <1>2, <1>3, <1>4 DEF Next

LEMMA NextPlaced ==
  ASSUME Shapes, Carries, Residue, Fresh, Placed, [Next]_vars
  PROVE  Placed'
\* A step that leaves the page alone and takes none of the reasons for an empty sector.
<1>0. ASSUME UNCHANGED <<target, source, pair, infile, earlier>>,
             \A s \in 1 .. Spp : Behind(s) => Behind(s)'
      PROVE  Placed'
  <2>1. \A s, i : Given(s, i)' = Given(s, i)
    BY <1>0, GivenKept
  <2>2. \A s \in 1 .. Spp : (Right(s) => Right(s)') /\ (Blank(s) => Blank(s)')
    BY <1>0, <2>1 DEF Right, Erased, Blank, Carried, UserSize, Wmode
  <2>3. QED
    BY <1>0, <2>2 DEF Placed
<1>1. CASE DumpPage
  <2> SUFFICES ASSUME NEW s \in 1 .. Spp PROVE Blank(s)' /\ Behind(s)'
    BY DEF Placed
  <2>1. Blank(s)
    BY <1>1 DEF DumpPage, Fresh
  <2>2. QED
    BY <1>1, <2>1 DEF DumpPage, Blank, Behind, UserSize, Wmode
<1>2. CASE ReadFile
  <2>1. \A s \in 1 .. Spp : Behind(s)'
    BY <1>2 DEF ReadFile, Behind
  <2>2. QED
    BY <1>0, <1>2, <2>1 DEF ReadFile
<1>3. CASE SplitPage
  <2>1. \A s \in 1 .. Spp : Behind(s)'
    BY <1>3, Lengths DEF SplitPage, Behind
  <2>2. QED
    BY <1>0, <1>3, <2>1 DEF SplitPage
<1>4. CASE WriteSector
  <2>1. /\ pc = "write" /\ pc' = pc /\ UNCHANGED <<pair, source, infile, earlier>> /\ sector \in 1 .. Spp
        /\ sector' = sector + 1 /\ skipped' = skipped
        /\ sbuf' = Memcpy(sbuf, 0, Composed, 0, SectorSize + OobSize)
    BY <1>4, Lengths DEF WriteSector, MoreSectors, Shapes
  <2>2. PICK fault \in BOOLEAN :
          /\ faulty' = (faulty \/ fault)
          /\ target' = IF fault THEN target
                       ELSE [target EXCEPT ![sector] = [i \in 1 .. UserSize |-> sbuf'[i]]]
    BY <1>4 DEF WriteSector
  <2>3. Carried(sector) \in Nat /\ Carried(sector) <= UserSize /\ UserSize \in Nat
    BY <2>1, Fits DEF Shapes
  <2>8. \A s, i : Given(s, i)' = Given(s, i)
    BY <2>1, GivenKept
  <2> SUFFICES ASSUME NEW s \in 1 .. Spp PROVE Right(s)' \/ (Blank(s)' /\ Behind(s)')
    BY DEF Placed
  <2>4. Right(s) \/ (Blank(s) /\ Behind(s))
    BY DEF Placed
  <2>5. CASE ~fault /\ s = sector
    <3>1. target'[s] = [i \in 1 .. UserSize |-> sbuf'[i]]
      BY <2>2, <2>5 DEF Shapes
    <3>2. /\ \A i \in 1 .. Carried(s) : sbuf'[i] = Given(s, i)
          /\ \A i \in Carried(s) + 1 .. UserSize :
                sbuf'[i] = FF \/ (Wmode = "fl" /\ i > SectorSize /\ sbuf'[i] = Unset)
      BY <2>1, <2>5, Programmed DEF Carries
    <3>3. Carried(s)' = Carried(s) /\ UserSize' = UserSize /\ Wmode' = Wmode
      BY <2>1 DEF Carried, UserSize, Wmode
    <3>4. \A i \in 1 .. Carried(s) : target'[s][i] = Given(s, i)
      BY <2>3, <2>5, <3>1, <3>2
    <3>5. \A i \in Carried(s) + 1 .. UserSize :
             target'[s][i] = FF \/ (Wmode = "fl" /\ i > SectorSize /\ target'[s][i] = Unset)
      BY <2>3, <2>5, <3>1, <3>2
    <3>6. Right(s)'
      BY <2>8, <3>3, <3>4, <3>5 DEF Right, Erased
    <3>7. QED
      BY <3>6
  <2>6. CASE fault \/ s # sector
    <3>1. target'[s] = target[s]
      BY <2>2, <2>6 DEF Shapes
    <3>2. (Right(s) => Right(s)') /\ (Blank(s) => Blank(s)')
      BY <2>1, <2>8, <3>1 DEF Right, Erased, Blank, Carried, UserSize, Wmode
    <3>3. Behind(s) => Behind(s)'
      <4>1. CASE fault
        BY <2>2, <4>1 DEF Behind
      <4>2. CASE s # sector
        <5>1. s >= sector => s >= sector'
          BY <2>1, <4>2, Lengths
        <5>2. QED
          BY <2>1, <2>2, <5>1 DEF Behind
      <4>3. QED
        BY <2>6, <4>1, <4>2
    <3>4. QED
      BY <2>4, <3>2, <3>3
  <2>7. QED
    BY <2>5, <2>6
<1>5. CASE EndSectors
  <2>1. \A s \in 1 .. Spp : Behind(s) => Behind(s)'
    <3>1. pc = "write" /\ ~(sector <= Spp) /\ faulty' = faulty /\ skipped' = skipped
      BY <1>5 DEF EndSectors, MoreSectors
    <3>2. \A s \in 1 .. Spp : ~(s >= sector)
      BY <3>1, Lengths DEF Shapes
    <3>3. QED
      BY <3>1, <3>2 DEF Behind
  <2>2. QED
    BY <1>0, <1>5, <2>1 DEF EndSectors
<1>6. CASE VerifySector \/ EndVerify
  <2>1. \A s \in 1 .. Spp : Behind(s) => Behind(s)'
    BY <1>6 DEF VerifySector, EndVerify, Behind
  <2>2. QED
    BY <1>0, <1>6, <2>1 DEF VerifySector, EndVerify
<1>7. CASE NextPage
  <2> SUFFICES ASSUME NEW s \in 1 .. Spp PROVE Blank(s)' /\ Behind(s)'
    BY DEF Placed
  <2>1. target'[s] = Const(FF, UserSize) /\ pair' = pair /\ pc' = "dump"
    BY <1>7 DEF NextPage
  <2>2. QED
    BY <2>1 DEF Blank, Behind, Const, UserSize, Wmode
<1>8. CASE Finished \/ UNCHANGED vars
  <2>1. UNCHANGED vars
    BY <1>8 DEF Finished
  <2>2. QED
    BY <1>0, <2>1 DEF vars, Behind
<1>9. QED
  BY <1>1, <1>2, <1>3, <1>4, <1>5, <1>6, <1>7, <1>8 DEF Next

-----------------------------------------------------------------------------
(* Verification.                                                            *)

LEMMA InitFound == Init => Found
  BY DEF Init, Found

LEMMA NextFound ==
  ASSUME Shapes, Carries, Found, [Next]_vars
  PROVE  Found'
<1>1. CASE DumpPage \/ SplitPage
  BY <1>1 DEF DumpPage, SplitPage, Found
<1>2. CASE ReadFile
  <2>1. /\ ~reported /\ reported' = reported /\ vflag' = vflag
        /\ pc' \in {"split", "next"} /\ (pc' = "next" => skipped')
    BY <1>2 DEF ReadFile, Found
  <2>2. QED
    BY <2>1 DEF Found
<1>3. CASE WriteSector
  BY <1>3 DEF WriteSector, Found
<1>4. CASE EndSectors
  <2>1. /\ ~reported /\ reported' = reported /\ vflag' = vflag /\ sector' = 1
        /\ pc' = IF vflag THEN "verify" ELSE "next"
    BY <1>4 DEF EndSectors, Found
  <2>2. \A s \in 1 .. sector' - 1 : FALSE
    BY <2>1
  <2>3. QED
    BY <2>1, <2>2 DEF Found, Shapes
<1>5. CASE VerifySector
  <2>1. /\ pc = "verify" /\ pc' = pc /\ vflag' = vflag /\ skipped' = skipped /\ pair' = pair
        /\ UNCHANGED <<source, infile, earlier, target>> /\ sector \in 1 .. Spp /\ sector' = sector + 1
        /\ vflag
    BY <1>5, Lengths DEF VerifySector, MoreSectors, Shapes, Found
  <2>2. reported' = (reported \/ ~Compared)
    BY <1>5 DEF VerifySector
  <2>3. \A s \in 1 .. Spp : Differs(s)' <=> Differs(s)
    <3>1. \A s, i : Given(s, i)' = Given(s, i) /\ Carried(s)' = Carried(s)
      BY <2>1, GivenKept DEF Carried, Wmode
    <3>2. QED
      BY <2>1, <3>1 DEF Differs
  <2>4. 1 .. sector' - 1 = (1 .. sector - 1) \cup {sector} /\ 1 .. sector - 1 \subseteq 1 .. Spp
    BY <2>1, Lengths
  <2>5. /\ \A i \in 1 .. SectorSize : membuf'[i] = target[sector][i]
        /\ SectorSize \in Nat /\ Carried(sector) \in Nat
        /\ InBuffers
    BY <1>5, <2>1, ReadBack, Fits DEF Shapes, Carries
  <2>6. ASSUME ~skipped, Wmode \in {"fs", "fi"}
        PROVE  (reported <=> \E s \in 1 .. sector - 1 : Differs(s))'
    <3>1. reported <=> \E s \in 1 .. sector - 1 : Differs(s)
      BY <2>1, <2>6 DEF Found
    <3>2. Compared <=> \A i \in 1 .. SectorSize : membuf'[i] = databuf[(sector - 1) * SectorSize + i]
      BY <2>6 DEF Compared, ComparedIn
    <3>3. \A i \in 1 .. SectorSize : databuf[(sector - 1) * SectorSize + i] = Given(sector, i)
      BY <2>1, <2>5, <2>6 DEF InBuffers, At
    <3>4. \A i : i \in 1 .. SectorSize <=> i \in 1 .. Carried(sector) /\ i <= SectorSize
      <4>1. SectorSize <= Carried(sector)
        BY <2>1, <2>6, Fits DEF Shapes
      <4>2. QED
        BY <2>5, <4>1
    <3>5. Compared <=> ~Differs(sector)
      BY <2>5, <3>2, <3>3, <3>4 DEF Differs
    <3>6. QED
      BY <2>1, <2>2, <2>3, <2>4, <3>1, <3>5
  <2>7. ASSUME ~skipped, Wmode = "fl"
        PROVE  ((\E s \in 1 .. sector - 1 : Differs(s)) => reported)'
    <3>1. (\E s \in 1 .. sector - 1 : Differs(s)) => reported
      BY <2>1, <2>7 DEF Found
    <3>2. Compared => \A i \in 1 .. LinuxLen : membuf'[i] = databuf[LinuxFrom + i]
      BY <2>7 DEF Compared, ComparedIn
    <3>3. LinuxLen = LinuxOf(sector)
      BY DEF LinuxLen, LinuxOf, LastSector
    <3>4. \A i \in 1 .. LinuxOf(sector) : databuf[LinuxFrom + i] = Given(sector, i)
      BY <2>1, <2>5, <2>7 DEF InBuffers, At, LinuxFrom, Linux
    <3>5. \A i \in 1 .. Carried(sector) : i \in 1 .. LinuxOf(sector) /\ i \in 1 .. SectorSize
      <4>1. /\ Carried(sector) = IF sector = Spp THEN LastPart ELSE SectorSize
            /\ LinuxOf(sector) = IF sector = Spp THEN LastPart ELSE SectorSize + Extra
        BY <2>7 DEF Carried, LinuxOf
      <4>2. QED
        BY <4>1, Lengths
    <3>6. Compared => ~Differs(sector)
      BY <2>5, <3>2, <3>3, <3>4, <3>5 DEF Differs
    <3>7. QED
      BY <2>1, <2>2, <2>3, <2>4, <3>1, <3>6
  <2>8. QED
    BY <2>1, <2>6, <2>7 DEF Found, Wmode
<1>6. CASE EndVerify
  <2>1. sector \in 1 .. Spp + 1 /\ ~(sector <= Spp) /\ Spp \in Nat
    BY <1>6, Lengths DEF EndVerify, MoreSectors, Shapes
  <2>2. sector = Spp + 1
    BY <2>1
  <2>3. /\ pc = "verify" /\ pc' = "next"
        /\ UNCHANGED <<pair, source, infile, earlier, target, sector, vflag, skipped, reported>>
    BY <1>6 DEF EndVerify
  <2>4. \A s : Differs(s)' <=> Differs(s)
    BY <2>3, GivenKept DEF Differs, Carried, Wmode
  <2>5. QED
    BY <2>2, <2>3, <2>4 DEF Found, Wmode
<1>7. CASE NextPage
  BY <1>7 DEF NextPage, Found
<1>8. CASE Finished \/ UNCHANGED vars
  <2>1. UNCHANGED vars
    BY <1>8 DEF Finished
  <2>2. \A s : Differs(s)' <=> Differs(s)
    BY <2>1, GivenKept DEF vars, Differs, Carried, Wmode
  <2>3. QED
    BY <2>1, <2>2 DEF vars, Found, Wmode
<1>9. QED
  BY <1>1, <1>2, <1>3, <1>4, <1>5, <1>6, <1>7, <1>8 DEF Next

-----------------------------------------------------------------------------
\* The inductive invariant.
Inv ==
    /\ Shapes /\ source \in SourcePages
    /\ Carries /\ Leftover /\ Passed
    /\ Fresh /\ Residue /\ Placed
    /\ Found

LEMMA Invariant == Spec => []Inv
<1>1. Init => Inv
  BY InitShapes, InitCarries, InitLeftover, InitPassed, InitFresh, InitResidue, InitPlaced,
     InitFound DEF Inv, Init
<1>2. Inv /\ [Next]_vars => Inv'
  <2> SUFFICES ASSUME Inv, [Next]_vars PROVE Inv'
    OBVIOUS
  <2>1. source' \in SourcePages
    BY DEF Inv, Next, DumpPage, ReadFile, SplitPage, WriteSector, EndSectors, VerifySector, EndVerify,
       NextPage, Finished, vars
  <2>2. QED
    BY <2>1, NextShapes, NextCarries, NextLeftover, NextPassed, NextFresh, NextResidue,
       NextPlaced, NextFound DEF Inv
<1>3. QED
  BY <1>1, <1>2, PTL DEF Spec

\* A page that is read and written back in formats that belong together holds the same
\* bytes in the same places, unless a sector did not take its data or -s passed over the
\* page, and then nothing but a tag or the end of a raw page is lost. A buffer gets into
\* it only where the file ends within the page, and where nothing was put it stays
\* erased, but for what -fl leaves behind each sector (read_block and read_block_ext of
\* qrflash.c; reading, -s and the sector loop of qwdirect.c, 390-403 and 460-551).
THEOREM PagesAreExact == Spec => []PageExact
<1>1. Inv => PageExact
  <2> SUFFICES ASSUME Inv PROVE PageExact
    OBVIOUS
  <2>1. RoundTrip
    <3> SUFFICES ASSUME pc = "next", ~faulty, ~skipped, NEW s \in 1 .. Spp
                 PROVE  \A i \in 1 .. Carried(s) : target[s][i] = Given(s, i)
      BY DEF RoundTrip
    <3>1. Right(s)
      BY DEF Inv, Placed, Behind
    <3>2. QED
      BY <3>1 DEF Right
  <2>2. SkipsEmpty
    BY DEF Inv, Passed
  <2>3. NoLeak
    <3> SUFFICES ASSUME NEW s \in 1 .. Spp, NEW i \in Carried(s) + 1 .. UserSize
                 PROVE  Erased(s, i)
      BY DEF NoLeak, Erased
    <3>1. CASE Right(s)
      BY <3>1 DEF Right
    <3>2. CASE Blank(s)
      <4>1. Carried(s) \in Nat /\ UserSize \in Nat
        BY Fits DEF Inv, Shapes
      <4>2. i \in 1 .. UserSize
        BY <4>1
      <4>3. QED
        BY <3>2, <4>2 DEF Blank, Erased
    <3>3. QED
      BY <3>1, <3>2 DEF Inv, Placed
  <2>4. QED
    BY <2>1, <2>2, <2>3 DEF PageExact
<1>2. QED
  BY <1>1, Invariant, PTL

\* -v reports a page written with -fs or -fi exactly if its data differ from what was to
\* be written, and misses no difference with -fl, in whatever sectors did not take them
\* (the verification loop of qwdirect.c, 571-608).
THEOREM VerificationIsExact == Spec => []VerifyExact
<1>1. Inv => VerifyExact
  <2> DEFINE differs == \E s \in 1 .. Spp : \E i \in 1 .. Carried(s) :
                            i <= SectorSize /\ target[s][i] # Given(s, i)
  <2> SUFFICES ASSUME Inv, pc = "next", vflag, ~skipped
               PROVE  /\ Wmode \in {"fs", "fi"} => (reported <=> differs)
                      /\ Wmode = "fl" => (differs => reported)
    BY DEF VerifyExact
  <2>1. sector = Spp + 1
    BY DEF Inv, Found
  <2>2. sector - 1 = Spp
    BY <2>1, Lengths
  <2>3. differs <=> \E s \in 1 .. sector - 1 : Differs(s)
    BY <2>2 DEF Differs
  <2> HIDE DEF differs
  <2>4. QED
    BY <2>3 DEF Inv, Found
<1>2. QED
  BY <1>1, Invariant, PTL
===============================================================================
