----------------------------- MODULE MemIoProofs -----------------------------
(***************************************************************************)
(* Proof that a sector read over the link of MemIo is the sector of the    *)
(* flash, whatever the pieces in which the replies arrive, the answers     *)
(* that have to be asked for again, and the moment the device disappears.  *)
(***************************************************************************)
EXTENDS MemIo, CountingLemmas

Reading == {"read", "mass", "tail", "got"}
Labels == {"poke", "ack", "polled", "buffer", "done"} \cup Reading

TypeOK ==
    /\ pc \in Labels
    /\ sector \in Nat /\ held \in Nat /\ tries \in Nat /\ faults \in Nat
    /\ off \in {-1} \cup 0 .. SectorLen - 1
    /\ raw \in Seq(Int) /\ inbuf \in Seq(Int) /\ air \in Seq(Int)
    /\ iobuf \in [1 .. BufSize -> Int] /\ membuf \in [1 .. SectorLen -> Int]
    /\ ok \in BOOLEAN /\ gone \in BOOLEAN /\ busy \in BOOLEAN /\ refused \in BOOLEAN

\* The buffer is read in whole chunks, the status before it.
AtChunk ==
    /\ off >= 0 => \E m \in Nat : off = m * Chunk
    /\ pc \in {"poke", "ack", "polled", "buffer"} => off = -1
    /\ pc = "done" => off >= 0

\* A device that has disappeared sends nothing, and only then is the sector
\* asked for another than the controller holds.
Silent ==
    /\ gone => air = <<>>
    /\ pc # "poke" /\ ~refused /\ held # sector => gone

\* Seen as ready now, the controller would be read too early or hold another sector.
Unready == busy \/ (~refused /\ held # sector)

\* The complete answer to a read command ...
Whole(r) ==
    /\ Len(r) = Hdr + BlkLen + Trl
    /\ \A i \in 2 .. Len(r) - 1 : r[i] # Mark
    /\ off >= 0 => \A k \in 1 .. BlkLen : r[Hdr + k] = DataByte(held, off + k - 1)
\* ... and any answer: a short one is not taken for the data.
Answers ==
    {r \in Seq(Int) :
        /\ Whole(r) \/ Len(r) < MassLen
        /\ \A i \in 1 .. Len(r) : r[i] # Esc /\ r[i] # Unset
        /\ off = -1 /\ Unready => \A i \in 1 .. Len(r) : r[i] # Ready}

\* Byte b is byte x of the answer, or the first half of it if the device has disappeared
\* and nothing came behind it.
Comes(b, x, isLast) == b = x \/ (gone /\ b = Esc /\ isLast)

\* r has been sent, and what is received, waiting and under way are its parts.
\* Only the end is missing if the device has disappeared.
Carries(r) ==
    /\ Len(raw) + Len(inbuf) + Len(air) <= Len(r)
    /\ ~gone => Len(raw) + Len(inbuf) + Len(air) = Len(r)
    /\ \A i \in 1 .. Len(raw) : Comes(raw[i], r[i], i = Len(raw) + Len(inbuf))
    /\ \A i \in 1 .. Len(inbuf) : Comes(inbuf[i], r[Len(raw) + i], i = Len(inbuf))
    /\ \A i \in 1 .. Len(air) : air[i] = r[Len(raw) + Len(inbuf) + i]

OnTheLine ==
    /\ pc \in {"mass", "tail", "got"} => \E r \in Answers : Carries(r)
    /\ pc = "mass" => raw = <<>>
    /\ pc = "tail" => raw # <<>>
    /\ pc = "got" => gone \/ (Len(raw) > 1 /\ raw[Len(raw)] = Mark)

\* Behind a status that says ready the controller has finished the sector asked for.
Awaited ==
    pc \in {"buffer", "done"} \/ (pc \in Reading /\ off >= 0) => ~Unready

Right(j) ==
    \/ membuf[j] = DataByte(held, j - 1)
    \/ membuf[j] = EB /\ ~ok
    \/ gone /\ EndOfChunk(j)
Delivered ==
    /\ pc \in Reading => \A j \in 1 .. off : Right(j)
    /\ pc = "done" => \A j \in 1 .. SectorLen : Right(j)

Inv == TypeOK /\ AtChunk /\ Silent /\ OnTheLine /\ Awaited /\ Delivered

-----------------------------------------------------------------------------
(* Sequences.                                                               *)

LEMMA Constants ==
    /\ Chunk \in Nat \ {0} /\ Hdr \in Nat \ {0} /\ Trl \in Nat \ {0} /\ Word \in Nat \ {0}
    /\ MaxTries \in Nat \ {0} /\ SectorLen \in Nat \ {0}
    /\ Slack \in Nat /\ Hdr <= Slack + 1 /\ Slack < Hdr + Trl
    /\ ErrorLen \in Nat /\ ErrorLen >= 3 /\ ErrorLen <= Slack /\ Word <= Chunk /\ Word > 2
    /\ BufSize \in Nat /\ BufSize = Hdr + Chunk + Trl
  BY ConstantsAssumption DEF BufSize

LEMMA ConstIs ==
  ASSUME NEW c \in Int, NEW n \in Nat
  PROVE  /\ Const(c, n) \in Seq(Int) /\ Len(Const(c, n)) = n
         /\ Const(c, n) \in [1 .. n -> Int]
         /\ \A i \in 1 .. n : Const(c, n)[i] = c
  BY DEF Const

\* What a part of a sequence holds.
LEMMA PartIs ==
  ASSUME NEW s \in Seq(Int), NEW a \in Nat \ {0}, NEW b \in Nat, a <= b + 1, b <= Len(s)
  PROVE  /\ SubSeq(s, a, b) \in Seq(Int) /\ Len(SubSeq(s, a, b)) = b - a + 1
         /\ \A i \in 1 .. b - a + 1 : SubSeq(s, a, b)[i] = s[a + i - 1]
  OBVIOUS

\* A byte that goes from the head of one sequence to the end of another.
LEMMA ByteTaken ==
  ASSUME NEW s \in Seq(Int), NEW q \in Seq(Int), q # <<>>
  PROVE  /\ Append(s, Head(q)) \in Seq(Int) /\ Len(Append(s, Head(q))) = Len(s) + 1
         /\ \A i \in 1 .. Len(s) : Append(s, Head(q))[i] = s[i]
         /\ Append(s, Head(q))[Len(s) + 1] = q[1] /\ Head(q) = q[1]
         /\ Tail(q) \in Seq(Int) /\ Len(Tail(q)) = Len(q) - 1 /\ Len(q) >= 1
         /\ \A i \in 1 .. Len(q) - 1 : Tail(q)[i] = q[i + 1]
  OBVIOUS

\* A buffer with a piece put into it.
LEMMA OverlayIs ==
  ASSUME NEW n \in Nat, NEW buf \in [1 .. n -> Int], NEW o \in Nat, NEW s \in Seq(Int)
  PROVE  /\ Overlay(buf, o, s) \in [1 .. n -> Int]
         /\ \A i \in 1 .. n : i > o /\ i <= o + Len(s) => Overlay(buf, o, s)[i] = s[i - o]
         /\ \A i \in 1 .. n : ~(i > o /\ i <= o + Len(s)) => Overlay(buf, o, s)[i] = buf[i]
<1>1. Overlay(buf, o, s) = [i \in 1 .. n |-> IF i > o /\ i <= o + Len(s) THEN s[i - o] ELSE buf[i]]
  BY DEF Overlay
<1>2. \A i \in 1 .. n : i > o /\ i <= o + Len(s) => s[i - o] \in Int
  OBVIOUS
<1>3. QED
  BY <1>1, <1>2

\* A frame has its markers at the ends and nowhere else.
LEMMA FramedIs ==
  ASSUME NEW n \in Nat
  PROVE  /\ Framed(n) \in Seq(Int) /\ Framed(n) \in [1 .. n -> Int] /\ Len(Framed(n)) = n
         /\ \A k \in 1 .. n : Framed(n)[k] = IF k = 1 \/ k = n THEN Mark ELSE Frame
         /\ \A k \in 1 .. n : Framed(n)[k] # Esc /\ Framed(n)[k] # Unset
<1>1. Mark \in Int /\ Frame \in Int
  BY DEF Mark, Frame
<1>2. Framed(n) \in [1 .. n -> Int]
  BY <1>1 DEF Framed
<1>3. \A k \in 1 .. n : Framed(n)[k] = IF k = 1 \/ k = n THEN Mark ELSE Frame
  BY DEF Framed
<1>4. \A k \in 1 .. n : Framed(n)[k] # Esc /\ Framed(n)[k] # Unset
  BY <1>3 DEF Mark, Frame, Esc, Unset
<1>5. QED
  BY <1>2, <1>3, <1>4

LEMMA MemoryIs ==
  ASSUME NEW i \in {-1} \cup Nat, NEW n \in Nat, held \in Nat, busy \in BOOLEAN
  PROVE  /\ Memory(i, n) \in Seq(Int) /\ Len(Memory(i, n)) = n
         /\ \A k \in 1 .. n : Memory(i, n)[k] # Mark /\ Memory(i, n)[k] # Esc /\ Memory(i, n)[k] # Unset
         /\ busy => \A k \in 1 .. n : Memory(i, n)[k] # Ready
         /\ i >= 0 /\ ~busy => \A k \in 1 .. n : Memory(i, n)[k] = DataByte(held, i + k - 1)
<1> USE DEF Mark, Busy, Ready, Esc, Unset, DataByte
<1>1. CASE i = -1
  <2>1. Memory(i, n) = [k \in 1 .. n |-> IF busy THEN Busy ELSE Ready]
    BY <1>1 DEF Memory, Const
  <2>2. QED
    BY <1>1, <2>1
<1>2. CASE i # -1
  <2>1. Memory(i, n) = [k \in 1 .. n |-> IF busy THEN 10 * 0 + 0 + 10 ELSE 10 * held + (i + k - 1) + 10]
    BY <1>2 DEF Memory
  <2>2. i \in Nat /\ \A k \in 1 .. n : 10 * held + (i + k - 1) + 10 \in Int /\ 10 * held + (i + k - 1) + 10 >= 10
    BY <1>2
  <2>3. QED
    BY <1>2, <2>1, <2>2
<1>3. QED
  BY <1>1, <1>2

\* The answers that are given are answers in the sense of this module.
LEMMA ReplyIs ==
  ASSUME TypeOK, ~Unready \/ busy, off >= 0 => ~Unready
  PROVE  ReadReply(off, BlkLen) \in Answers /\ ErrorReply \in Answers
<1> DEFINE n == BlkLen
           w == Hdr + n + Trl
           fr == Framed(w)
           m == Memory(off, n)
           r == Overlay(fr, Hdr, m)
<1>1. n \in Nat \ {0} /\ n <= Chunk /\ off \in {-1} \cup Nat
  BY Constants DEF TypeOK, BlkLen
<1> HIDE DEF n
<1>2. w \in Nat
  BY <1>1, Constants
<1>2a. Hdr \in Nat
  BY Constants
<1>2b. w = Hdr + n + Trl
  OBVIOUS
<1> HIDE DEF w
<1>3. /\ fr \in [1 .. w -> Int]
      /\ \A k \in 1 .. w : fr[k] = IF k = 1 \/ k = w THEN Mark ELSE Frame
      /\ \A k \in 1 .. w : fr[k] # Esc /\ fr[k] # Unset
  BY <1>2, FramedIs
<1>4. /\ m \in Seq(Int) /\ Len(m) = n
      /\ \A k \in 1 .. n : m[k] # Mark /\ m[k] # Esc /\ m[k] # Unset
      /\ busy => \A k \in 1 .. n : m[k] # Ready
      /\ off >= 0 /\ ~busy => \A k \in 1 .. n : m[k] = DataByte(held, off + k - 1)
  BY <1>1, MemoryIs DEF TypeOK
<1> HIDE DEF fr, m
<1>5. /\ r \in [1 .. w -> Int]
      /\ \A i \in 1 .. w : i > Hdr /\ i <= Hdr + n => r[i] = m[i - Hdr]
      /\ \A i \in 1 .. w : ~(i > Hdr /\ i <= Hdr + n) => r[i] = fr[i]
  <2>1. /\ r \in [1 .. w -> Int]
        /\ \A i \in 1 .. w : i > Hdr /\ i <= Hdr + Len(m) => r[i] = m[i - Hdr]
        /\ \A i \in 1 .. w : ~(i > Hdr /\ i <= Hdr + Len(m)) => r[i] = fr[i]
    BY ZenonT(60), <1>2, <1>2a, <1>3, <1>4, OverlayIs
  <2>2. QED
    BY <1>4, <2>1
<1> HIDE DEF r
<1>6. r \in Seq(Int) /\ Len(r) = w
  BY <1>2, <1>5
<1>7. \A k \in 1 .. n : r[Hdr + k] = m[k]
  <2>1. \A k \in 1 .. n : Hdr + k \in 1 .. w /\ Hdr + k > Hdr /\ Hdr + k <= Hdr + n /\ (Hdr + k) - Hdr = k
    BY <1>1, <1>2b, Constants
  <2>2. QED
    BY <1>5, <2>1
<1>8. \A i \in 2 .. w - 1 : r[i] # Mark
  <2>1. \A i \in 2 .. w - 1 : i \in 1 .. w /\ i # 1 /\ i # w
    BY <1>2
  <2>2. \A i \in 2 .. w - 1 : i > Hdr /\ i <= Hdr + n => i - Hdr \in 1 .. n
    BY <1>1, <1>2a
  <2>3. Frame # Mark
    BY DEF Frame, Mark
  <2>4. QED
    BY <1>3, <1>4, <1>5, <2>1, <2>2, <2>3
<1>9. busy => \A i \in 1 .. w : r[i] # Ready
  <2>1. \A i \in 1 .. w : i > Hdr /\ i <= Hdr + n => i - Hdr \in 1 .. n
    BY <1>1, <1>2a, <1>2
  <2>2. Frame # Ready /\ Mark # Ready
    BY DEF Frame, Mark, Ready
  <2>3. QED
    BY <1>3, <1>4, <1>5, <2>1, <2>2
<1>9a. \A i \in 1 .. w : r[i] # Esc /\ r[i] # Unset
  <2>1. \A i \in 1 .. w : i > Hdr /\ i <= Hdr + n => i - Hdr \in 1 .. n
    BY <1>1, <1>2a, <1>2
  <2>2. QED
    BY <1>3, <1>4, <1>5, <2>1
<1>10. r \in Answers
  <2>1. off >= 0 => \A k \in 1 .. n : r[Hdr + k] = DataByte(held, off + k - 1)
    BY <1>4, <1>7 DEF Unready
  <2>2. Whole(r)
    BY <1>2b, <1>6, <1>8, <2>1 DEF Whole, n
  <2>3. QED
    BY <1>6, <1>9, <1>9a, <2>2 DEF Answers
<1>11. ReadReply(off, BlkLen) = r
  BY DEF ReadReply, r, m, fr, n, w
<1>12. ErrorReply \in Answers
  <2>1. /\ ErrorReply \in Seq(Int) /\ Len(ErrorReply) = ErrorLen
        /\ \A k \in 1 .. ErrorLen : ErrorReply[k] = IF k = 1 \/ k = ErrorLen THEN Mark ELSE Frame
        /\ \A k \in 1 .. ErrorLen : ErrorReply[k] # Esc /\ ErrorReply[k] # Unset
    BY FramedIs, Constants DEF ErrorReply
  <2>2. ErrorLen < MassLen
    BY <1>1, Constants DEF MassLen, n
  <2>3. \A k \in 1 .. Len(ErrorReply) : ErrorReply[k] # Ready
    BY <2>1 DEF Frame, Mark, Ready
  <2>4. QED
    BY <2>1, <2>2, <2>3 DEF Answers
<1>13. QED
  BY <1>10, <1>11, <1>12

\* The escapes are removed in place.
LEMMA UnescapedIs ==
  ASSUME NEW s \in Seq(Int)
  PROVE  /\ Unescaped(s) \in Seq(Int) /\ Len(Unescaped(s)) = Len(s)
         /\ \A i \in 1 .. Len(s) : Unescaped(s)[i] = IF s[i] = Esc THEN Unset ELSE s[i]
<1>1. Unescaped(s) \in [1 .. Len(s) -> Int]
  BY DEF Unescaped, Unset
<1>2. QED
  BY <1>1 DEF Unescaped

\* What receive_reply() hands on is what came first, all of it if no marker
\* stands before the last byte.
LEMMA FramesIs ==
  ASSUME NEW s \in Seq(Int)
  PROVE  /\ Frames(s) \in Seq(Int) /\ Len(Frames(s)) <= Len(s)
         /\ \A i \in 1 .. Len(Frames(s)) : Frames(s)[i] = IF s[i] = Esc THEN Unset ELSE s[i]
         /\ (\A i \in 2 .. Len(s) - 1 : s[i] # Mark) => Len(Frames(s)) = Len(s)
<1> DEFINE ends == {n \in DOMAIN s : n > 1 /\ s[n] = Mark}
<1>1. CASE ends = {}
  <2>1. Frames(s) = Unescaped(s)
    BY <1>1 DEF Frames
  <2>2. QED
    BY <2>1, UnescapedIs
<1>2. CASE ends # {}
  <2>1. Frames(s) = Unescaped(SubSeq(s, 1, Min(ends)))
    BY <1>2 DEF Frames
  <2>2. ends \subseteq 2 .. Len(s) /\ \A n \in ends : s[n] = Mark
    OBVIOUS
  <2> HIDE DEF ends
  <2>2a. ends \subseteq Int /\ \A x \in ends : 1 <= x
    BY <2>2
  <2>2b. 1 \in Int /\ ends # {}
    BY <1>2
  <2>3. Min(ends) \in ends
    BY <2>2a, <2>2b, BoundedMin, Zenon
  <2> DEFINE n == Min(ends)
             t == SubSeq(s, 1, n)
  <2>4. n \in 2 .. Len(s) /\ s[n] = Mark
    BY <2>2, <2>3
  <2> HIDE DEF n
  <2>5. t \in Seq(Int) /\ Len(t) = n /\ \A i \in 1 .. n : t[i] = s[i]
    BY <2>4, PartIs
  <2>6. Frames(s) = Unescaped(t)
    BY <2>1 DEF n
  <2> HIDE DEF t
  <2>7. /\ Unescaped(t) \in Seq(Int) /\ Len(Unescaped(t)) = n
        /\ \A i \in 1 .. n : Unescaped(t)[i] = IF s[i] = Esc THEN Unset ELSE s[i]
    BY <2>5, UnescapedIs
  <2>8. (\A i \in 2 .. Len(s) - 1 : s[i] # Mark) => n = Len(s)
    BY <2>4
  <2>9. QED
    BY <2>4, <2>6, <2>7, <2>8
<1>3. QED
  BY <1>1, <1>2

-----------------------------------------------------------------------------
(* Every step keeps the parts of the invariant.                             *)

\* What the two ways out of memread() deliver.
LEMMA AnsweredType ==
  ASSUME TypeOK, AtChunk, NEW d \in Seq(Int), Len(d) = BlkLen, NEW good \in BOOLEAN,
         pc = "got", Answered(d, good)
  PROVE  TypeOK' /\ AtChunk'
<1>1. Frames(raw) \in Seq(Int)
  BY FramesIs DEF TypeOK
<1>2. BufSize \in Nat /\ SectorLen \in Nat /\ 0 \in Nat /\ Chunk \in Nat \ {0} /\ MaxTries \in Nat
  BY Constants
<1>3. CASE off = -1
  <2>1. /\ iobuf' = Fresh /\ pc' \in {"buffer", "read"} /\ tries' = MaxTries
        /\ UNCHANGED <<off, membuf, ok, sector, raw, air, inbuf, gone, held, busy, refused, faults>>
    BY <1>3 DEF Answered, modem
  <2>2. Fresh \in [1 .. BufSize -> Int]
    BY SMTT(60), <1>2, ConstIs DEF Fresh, Unset
  <2>3. TypeOK'
    BY <1>2, <2>1, <2>2 DEF TypeOK, Labels, Reading
  <2>4. QED
    BY <1>3, <2>1, <2>3 DEF AtChunk
<1>4. CASE off # -1
  <2>0. off \in Nat
    BY <1>4 DEF TypeOK
  <2>1. /\ iobuf' = Overlay(iobuf, 0, Frames(raw)) /\ membuf' = Overlay(membuf, off, d)
        /\ ok' = (ok /\ good) /\ tries' = MaxTries
        /\ \/ off + Chunk >= SectorLen /\ pc' = "done" /\ off' = off
           \/ ~(off + Chunk >= SectorLen) /\ pc' = "read" /\ off' = off + Chunk
        /\ UNCHANGED <<sector, raw, air, inbuf, gone, held, busy, refused, faults>>
    BY <1>4 DEF Answered, modem
  <2>2. iobuf' \in [1 .. BufSize -> Int]
    BY <1>1, <1>2, <2>1, OverlayIs DEF TypeOK
  <2>3. membuf' \in [1 .. SectorLen -> Int]
    BY <1>2, <2>0, <2>1, OverlayIs DEF TypeOK
  <2>4. off' \in {-1} \cup 0 .. SectorLen - 1
    BY <1>2, <2>0, <2>1 DEF TypeOK
  <2>5. TypeOK'
    BY <1>2, <2>1, <2>2, <2>3, <2>4 DEF TypeOK, Labels, Reading
  <2>6. \E m \in Nat : off = m * Chunk
    BY <2>0 DEF AtChunk
  <2>7. \E m \in Nat : off' = m * Chunk
    <3>1. PICK m \in Nat : off = m * Chunk
      BY <2>6
    <3>2. (m + 1) * Chunk = m * Chunk + Chunk /\ m + 1 \in Nat
      BY <1>2
    <3>3. off' = m * Chunk \/ off' = (m + 1) * Chunk
      BY <2>1, <3>1, <3>2
    <3>4. QED
      BY <3>2, <3>3
  <2>8. QED
    BY <1>2, <2>0, <2>1, <2>5, <2>7 DEF AtChunk
<1>5. QED
  BY <1>3, <1>4

\* The data of an answer: what the buffer holds behind the head of the frame.
LEMMA DataIs ==
  ASSUME TypeOK, NEW buf \in [1 .. BufSize -> Int]
  PROVE  LET d == SubSeq(buf, Hdr + 1, Hdr + BlkLen)
         IN  /\ d \in Seq(Int) /\ Len(d) = BlkLen
             /\ \A k \in 1 .. BlkLen : d[k] = buf[Hdr + k]
<1> DEFINE n == BlkLen
           d == SubSeq(buf, Hdr + 1, Hdr + n)
<1>1. n \in Nat \ {0} /\ n <= Chunk
  BY Constants DEF TypeOK, BlkLen
<1> HIDE DEF n
<1>2. buf \in Seq(Int) /\ Len(buf) = BufSize
  BY Constants
<1>3. Hdr + 1 \in Nat \ {0} /\ Hdr + n \in Nat /\ Hdr + 1 <= (Hdr + n) + 1 /\ Hdr + n <= Len(buf)
  BY <1>1, <1>2, Constants
<1>4. /\ d \in Seq(Int) /\ Len(d) = (Hdr + n) - (Hdr + 1) + 1
      /\ \A i \in 1 .. (Hdr + n) - (Hdr + 1) + 1 : d[i] = buf[(Hdr + 1) + i - 1]
  BY <1>2, <1>3, PartIs
<1>5. (Hdr + n) - (Hdr + 1) + 1 = n /\ \A i \in 1 .. n : (Hdr + 1) + i - 1 = Hdr + i
  BY <1>1, Constants
<1>6. QED
  BY <1>4, <1>5 DEF n

LEMMA GivesType ==
  ASSUME TypeOK
  PROVE  /\ Frames(raw) \in Seq(Int)
         /\ Overlay(iobuf, 0, Frames(raw)) \in [1 .. BufSize -> Int]
         /\ Const(EB, BlkLen) \in Seq(Int) /\ Len(Const(EB, BlkLen)) = BlkLen
<1>1. Frames(raw) \in Seq(Int)
  BY FramesIs DEF TypeOK
<1>2. Overlay(iobuf, 0, Frames(raw)) \in [1 .. BufSize -> Int]
  BY <1>1, Constants, OverlayIs DEF TypeOK
<1>3. BlkLen \in Nat /\ EB \in Int
  BY Constants DEF TypeOK, BlkLen, EB
<1>4. QED
  BY <1>1, <1>2, <1>3, ConstIs

LEMMA NextType == TypeOK /\ AtChunk /\ [Next]_vars => TypeOK'
<1> SUFFICES ASSUME TypeOK, AtChunk, [Next]_vars PROVE TypeOK'
  OBVIOUS
<1> USE DEF TypeOK, Labels, Reading, program, modem
<1>0. /\ SectorLen \in Nat \ {0} /\ BufSize \in Nat /\ MaxTries \in Nat
      /\ Fresh \in [1 .. BufSize -> Int] /\ Const(Unset, SectorLen) \in [1 .. SectorLen -> Int]
  <2>1. SectorLen \in Nat \ {0} /\ BufSize \in Nat /\ MaxTries \in Nat /\ Unset \in Int
    BY Constants DEF Unset
  <2>2. Const(Unset, SectorLen) \in [1 .. SectorLen -> Int] /\ Const(Unset, BufSize) \in [1 .. BufSize -> Int]
    BY <2>1, ConstIs
  <2>3. QED
    BY <2>1, <2>2 DEF Fresh
<1>1. CASE Poke
  <2>1. Ack \in Seq(Int) /\ ErrorReply \in Seq(Int)
    BY FramedIs, Constants DEF Ack, ErrorReply
  <2>2. air' \in Seq(Int) /\ held' \in Nat /\ busy' \in BOOLEAN /\ refused' \in BOOLEAN /\ faults' \in Nat
    <3>1. CASE gone
      BY <1>1, <3>1 DEF Poke
    <3>2. CASE ~gone
      <4>1. /\ \/ held' = sector /\ busy' = TRUE /\ refused' = FALSE
               \/ refused' = TRUE /\ held' = held /\ busy' = busy
               \/ refused' = TRUE /\ held' \in 0 .. Sectors /\ busy' = TRUE
            /\ air' \in {Ack, ErrorReply} /\ faults' \in {faults, faults + 1}
        BY <1>1, <3>2 DEF Poke
      <4>2. air' \in Seq(Int) /\ held' \in Nat
        BY <2>1, <4>1
      <4>3. faults' \in Nat
        BY <4>1
      <4>4. busy' \in BOOLEAN /\ refused' \in BOOLEAN
        BY <4>1, Zenon
      <4>5. QED
        BY <4>2, <4>3, <4>4
    <3>3. QED
      BY <3>1, <3>2
  <2>3. QED
    BY <1>1, <2>2 DEF Poke
<1>2. CASE AckByte
  <2>1. raw' \in Seq(Int) /\ inbuf' \in Seq(Int)
    <3>1. CASE inbuf = <<>>
      BY <1>2, <3>1 DEF AckByte
    <3>2. CASE inbuf # <<>>
      <4>1. raw' = Append(raw, Head(inbuf)) /\ inbuf' = Tail(inbuf)
        BY <1>2, <3>2 DEF AckByte
      <4>2. QED
        BY <3>2, <4>1, ByteTaken
    <3>3. QED
      BY <3>1, <3>2
  <2>2. QED
    BY <1>2, <2>1 DEF AckByte
<1>3. CASE Poll
  BY <1>0, <1>3 DEF Poll
<1>4. CASE SendRead
  <2>1. air' \in Seq(Int) /\ faults' \in Nat
    <3>1. CASE gone
      BY <1>4, <3>1 DEF SendRead
    <3>2. CASE ~gone
      <4>1. PICK reply \in {ReadReply(off, BlkLen), ErrorReply} :
              air' = reply /\ faults' = IF reply = ErrorReply THEN faults + 1 ELSE faults
        BY <1>4, <3>2 DEF SendRead
      <4>2. ErrorReply \in Seq(Int)
        BY FramedIs, Constants DEF ErrorReply
      <4>3. ReadReply(off, BlkLen) \in Seq(Int)
        <5>1. BlkLen \in Nat /\ Hdr + BlkLen + Trl \in Nat /\ Hdr \in Nat /\ off \in {-1} \cup Nat
          BY Constants DEF BlkLen
        <5>2. Memory(off, BlkLen) \in Seq(Int) /\ Framed(Hdr + BlkLen + Trl) \in [1 .. Hdr + BlkLen + Trl -> Int]
          BY <5>1, MemoryIs, FramedIs
        <5>3. ReadReply(off, BlkLen) \in [1 .. Hdr + BlkLen + Trl -> Int]
          BY <5>1, <5>2, OverlayIs DEF ReadReply
        <5>4. QED
          BY <5>1, <5>3
      <4>4. QED
        BY <4>1, <4>2, <4>3
    <3>3. QED
      BY <3>1, <3>2
  <2>2. QED
    BY <1>4, <2>1 DEF SendRead
<1>5. CASE ReadMass
  <2>1. raw' \in Seq(Int) /\ inbuf' \in Seq(Int)
    <3>1. CASE gone /\ inbuf = <<>> /\ UNCHANGED <<raw, inbuf>>
      BY <3>1
    <3>2. CASE \E n \in 1 .. Len(inbuf) : raw' = SubSeq(inbuf, 1, n) /\ inbuf' = SubSeq(inbuf, n + 1, Len(inbuf))
      <4>1. PICK n \in 1 .. Len(inbuf) : raw' = SubSeq(inbuf, 1, n) /\ inbuf' = SubSeq(inbuf, n + 1, Len(inbuf))
        BY <3>2
      <4>2. n \in Nat /\ n <= Len(inbuf) /\ inbuf \in Seq(Int)
        OBVIOUS
      <4>3. QED
        BY <4>1, <4>2
    <3>3. QED
      BY <1>5, <3>1, <3>2 DEF ReadMass
  <2>2. QED
    BY <1>5, <2>1 DEF ReadMass
<1>6. CASE ReadTail
  <2>1. raw' \in Seq(Int) /\ inbuf' \in Seq(Int)
    <3>1. CASE inbuf = <<>>
      BY <1>6, <3>1 DEF ReadTail
    <3>2. CASE inbuf # <<>>
      <4>1. raw' = Append(raw, Head(inbuf)) /\ inbuf' = Tail(inbuf)
        BY <1>6, <3>2 DEF ReadTail
      <4>2. QED
        BY <3>2, <4>1, ByteTaken
    <3>3. QED
      BY <3>1, <3>2
  <2>2. QED
    BY <1>6, <2>1 DEF ReadTail
<1>7. CASE TakeReply
  <2>1. PICK d \in Seq(Int) : Len(d) = BlkLen /\ Answered(d, TRUE)
    BY <1>7, GivesType, DataIs DEF TakeReply
  <2>2. QED
    BY <1>7, <2>1, AnsweredType DEF TakeReply
<1>8. CASE Retry
  <2>1. iobuf' \in [1 .. BufSize -> Int]
    BY <1>8, GivesType DEF Retry
  <2>2. tries' \in Nat
    BY <1>8 DEF Retry
  <2>3. QED
    BY <1>8, <2>1, <2>2 DEF Retry
<1>9. CASE GiveUp
  BY <1>9, GivesType, AnsweredType DEF GiveUp
<1>10. CASE StartBuffer
  BY <1>0, <1>10 DEF StartBuffer
<1>11. CASE NextSector
  BY <1>0, <1>11 DEF NextSector
<1>12. CASE Deliver
  <2>1. inbuf' \in Seq(Int) /\ air' \in Seq(Int)
    BY SMTT(60), <1>12 DEF Deliver
  <2>2. QED
    BY <1>12, <2>1 DEF Deliver
<1>13. CASE GetReady \/ Unplug
  <2>1. CASE GetReady
    BY <2>1 DEF GetReady
  <2>2. CASE Unplug
    <3>1. Append(inbuf, Esc) \in Seq(Int) /\ <<>> \in Seq(Int)
      BY DEF Esc
    <3>2. inbuf' \in Seq(Int) /\ air' \in Seq(Int)
      <4>1. (inbuf' = inbuf \/ inbuf' = Append(inbuf, Esc)) /\ air' = <<>>
        BY <2>2 DEF Unplug
      <4>2. inbuf \in Seq(Int)
        OBVIOUS
      <4>3. QED
        BY <3>1, <4>1, <4>2, Zenon
    <3>3. QED
      BY <2>2, <3>2 DEF Unplug
  <2>3. QED
    BY <1>13, <2>1, <2>2
<1>14. CASE UNCHANGED vars
  BY <1>14 DEF vars
<1>15. QED
  BY <1>1, <1>2, <1>3, <1>4, <1>5, <1>6, <1>7, <1>8, <1>9, <1>10, <1>11, <1>12, <1>13, <1>14
     DEF Next, Step, Finished

LEMMA NextAtChunk == TypeOK /\ AtChunk /\ [Next]_vars => AtChunk'
<1> SUFFICES ASSUME TypeOK, AtChunk, [Next]_vars PROVE AtChunk'
  OBVIOUS
<1>1. CASE TakeReply
  <2>1. PICK d \in Seq(Int) : Len(d) = BlkLen /\ Answered(d, TRUE)
    BY <1>1, GivesType, DataIs DEF TakeReply
  <2>2. QED
    BY <1>1, <2>1, AnsweredType DEF TakeReply
<1>2. CASE GiveUp
  BY <1>2, GivesType, AnsweredType DEF GiveUp
<1>3. CASE StartBuffer
  <2>1. off' = 0 /\ pc' = "read" /\ 0 = 0 * Chunk
    BY <1>3, Constants DEF StartBuffer
  <2>2. QED
    BY <2>1 DEF AtChunk
<1>4. CASE Poke \/ AckByte \/ Poll
  <2>1. off = -1 /\ off' = -1 /\ pc' # "done"
    BY <1>4 DEF AtChunk, Poke, AckByte, Poll, program
  <2>2. QED
    BY <2>1 DEF AtChunk
<1>5. CASE SendRead \/ ReadMass \/ ReadTail \/ Retry
  <2>1. off' = off /\ pc' \in Reading
    BY <1>5 DEF SendRead, ReadMass, ReadTail, Retry, Reading
  <2>2. QED
    BY <2>1 DEF AtChunk, Reading
<1>6. CASE NextSector
  BY <1>6 DEF NextSector, AtChunk
<1>7. CASE Deliver \/ GetReady \/ Unplug \/ UNCHANGED vars
  <2>1. pc' = pc /\ off' = off
    BY <1>7 DEF Deliver, GetReady, Unplug, vars, program
  <2>2. QED
    BY <2>1 DEF AtChunk
<1>8. QED
  BY <1>1, <1>2, <1>3, <1>4, <1>5, <1>6, <1>7 DEF Next, Step, Finished

LEMMA NextSilent == TypeOK /\ Silent /\ [Next]_vars => Silent'
<1> SUFFICES ASSUME TypeOK, Silent, [Next]_vars PROVE Silent'
  OBVIOUS
<1> USE DEF Silent, program, modem
<1>1. CASE Poke
  <2>1. CASE gone
    BY <1>1, <2>1 DEF Poke
  <2>2. CASE ~gone
    BY <1>1, <2>2 DEF Poke
  <2>3. QED
    BY <2>1, <2>2
<1>2. CASE SendRead
  BY <1>2 DEF SendRead
<1>3. CASE AckByte \/ Poll \/ ReadMass \/ ReadTail \/ Retry \/ StartBuffer
  <2>1. pc # "poke" /\ UNCHANGED <<air, gone, held, sector, refused>>
    BY <1>3 DEF AckByte, Poll, ReadMass, ReadTail, Retry, StartBuffer
  <2>2. QED
    BY <2>1
<1>4. CASE TakeReply \/ GiveUp
  <2>1. pc = "got" /\ UNCHANGED <<air, gone, held, sector, refused>>
    BY <1>4 DEF TakeReply, GiveUp, Answered
  <2>2. QED
    BY <2>1
<1>5. CASE NextSector
  BY <1>5 DEF NextSector
<1>6. CASE Deliver
  BY <1>6 DEF Deliver
<1>7. CASE GetReady \/ Unplug
  BY <1>7 DEF GetReady, Unplug
<1>8. CASE UNCHANGED vars
  BY <1>8 DEF vars
<1>9. QED
  BY <1>1, <1>2, <1>3, <1>4, <1>5, <1>6, <1>7, <1>8 DEF Next, Step, Finished

-----------------------------------------------------------------------------
(* The answer on its way.                                                   *)

LEMMA AnswersFrame ==
  ASSUME off' = off, held' = held, Unready' => Unready, NEW r \in Answers
  PROVE  r \in Answers'
<1>1. Whole(r)' <=> Whole(r)
  BY DEF Whole, BlkLen
<1>2. MassLen' = MassLen
  BY DEF MassLen, BlkLen
<1>3. QED
  BY <1>1, <1>2 DEF Answers

\* What a concatenation holds.
LEMMA Concat ==
  ASSUME NEW s \in Seq(Int), NEW t \in Seq(Int)
  PROVE  /\ s \o t \in Seq(Int) /\ Len(s \o t) = Len(s) + Len(t)
         /\ \A i \in 1 .. Len(s) : (s \o t)[i] = s[i]
         /\ \A i \in 1 .. Len(t) : (s \o t)[Len(s) + i] = t[i]
  OBVIOUS

\* A part of t that is appended to s.
LEMMA PieceMoved ==
  ASSUME NEW s \in Seq(Int), NEW t \in Seq(Int), NEW n \in Nat, n <= Len(t)
  PROVE  /\ Len(s \o SubSeq(t, 1, n)) = Len(s) + n
         /\ \A i \in 1 .. Len(s) : (s \o SubSeq(t, 1, n))[i] = s[i]
         /\ \A i \in 1 .. n : (s \o SubSeq(t, 1, n))[Len(s) + i] = t[i]
         /\ Len(SubSeq(t, n + 1, Len(t))) = Len(t) - n
         /\ \A i \in 1 .. Len(t) - n : SubSeq(t, n + 1, Len(t))[i] = t[n + i]
<1> DEFINE u == SubSeq(t, 1, n)
<1>1. u \in Seq(Int) /\ Len(u) = n /\ \A i \in 1 .. n : u[i] = t[i]
  BY PartIs
<1> HIDE DEF u
<1>2. /\ Len(s \o u) = Len(s) + n
      /\ \A i \in 1 .. Len(s) : (s \o u)[i] = s[i]
      /\ \A i \in 1 .. n : (s \o u)[Len(s) + i] = u[i]
  BY <1>1, Concat
<1>3. /\ Len(SubSeq(t, n + 1, Len(t))) = Len(t) - n
      /\ \A i \in 1 .. Len(t) - n : SubSeq(t, n + 1, Len(t))[i] = t[n + i]
  BY SMTT(60)
<1>4. QED
  BY <1>1, <1>2, <1>3 DEF u

\* Bytes that arrive at the host stay parts of the answer.
LEMMA CarriesDeliver ==
  ASSUME TypeOK, TypeOK', Silent, NEW r \in Seq(Int), Carries(r), Deliver
  PROVE  Carries(r)'
<1>1. PICK n \in 1 .. Len(air) : /\ inbuf' = inbuf \o SubSeq(air, 1, n)
                                 /\ air' = SubSeq(air, n + 1, Len(air))
  BY DEF Deliver
<1>2. raw' = raw /\ gone' = gone /\ ~gone
  BY DEF Deliver, program, Silent
<1> DEFINE a == Len(raw)
           b == Len(inbuf)
           c == Len(air)
<1>3. a \in Nat /\ b \in Nat /\ c \in Nat /\ n \in 1 .. c
  BY DEF TypeOK
<1>4. /\ Len(inbuf') = b + n
      /\ \A i \in 1 .. b : inbuf'[i] = inbuf[i]
      /\ \A i \in 1 .. n : inbuf'[b + i] = air[i]
      /\ Len(air') = c - n
      /\ \A i \in 1 .. c - n : air'[i] = air[n + i]
  BY SMTT(60), <1>1, <1>3, PieceMoved DEF TypeOK
<1>5. /\ a + b + c <= Len(r) /\ (~gone => a + b + c = Len(r))
      /\ \A i \in 1 .. a : raw[i] = r[i]
      /\ \A i \in 1 .. b : inbuf[i] = r[a + i]
      /\ \A i \in 1 .. c : air[i] = r[a + b + i]
  BY <1>2 DEF Carries, Comes
<1> HIDE DEF a, b, c
<1>6. a + (b + n) + (c - n) = a + b + c
  BY <1>3
<1>7. ASSUME NEW i \in 1 .. b + n PROVE inbuf'[i] = r[a + i]
  <2>1. CASE i <= b
    <3>1. i \in 1 .. b
      BY <1>3, <2>1
    <3>2. inbuf'[i] = inbuf[i] /\ inbuf[i] = r[a + i]
      BY <1>4, <1>5, <3>1
    <3>3. QED
      BY <3>2
  <2>2. CASE i > b
    <3>1. i - b \in 1 .. n /\ b + (i - b) = i /\ i - b \in 1 .. c /\ a + b + (i - b) = a + i
      BY <1>3, <2>2
    <3>2. inbuf'[b + (i - b)] = air[i - b]
      BY <1>4, <3>1
    <3>3. air[i - b] = r[a + b + (i - b)]
      BY <1>5, <3>1
    <3>4. QED
      BY <3>1, <3>2, <3>3
  <2>3. QED
    BY <1>3, <2>1, <2>2
<1>8. ASSUME NEW i \in 1 .. c - n PROVE air'[i] = r[a + (b + n) + i]
  <2>1. n + i \in 1 .. c /\ a + b + (n + i) = a + (b + n) + i
    BY <1>3
  <2>2. air'[i] = air[n + i] /\ air[n + i] = r[a + b + (n + i)]
    BY <1>4, <1>5, <2>1
  <2>3. QED
    BY <2>1, <2>2
<1>9. /\ a + Len(inbuf') + Len(air') = a + b + c
      /\ \A i \in 1 .. Len(inbuf') : inbuf'[i] = r[a + i]
      /\ \A i \in 1 .. Len(air') : air'[i] = r[a + Len(inbuf') + i]
  BY <1>4, <1>6, <1>7, <1>8
<1>10. QED
  BY <1>2, <1>5, <1>9 DEF Carries, Comes, a

\* So do the bytes that receive_reply() takes from the port.
LEMMA CarriesTaken ==
  ASSUME TypeOK, TypeOK', NEW r \in Seq(Int), Carries(r),
         NEW n \in Nat, n <= Len(inbuf), air' = air, gone' = gone,
         Len(raw') = Len(raw) + n, \A i \in 1 .. Len(raw) : raw'[i] = raw[i],
         \A i \in 1 .. n : raw'[Len(raw) + i] = inbuf[i],
         Len(inbuf') = Len(inbuf) - n, \A i \in 1 .. Len(inbuf) - n : inbuf'[i] = inbuf[n + i]
  PROVE  Carries(r)'
<1> DEFINE a == Len(raw)
           b == Len(inbuf)
           c == Len(air)
<1>1. a \in Nat /\ b \in Nat /\ c \in Nat /\ n <= b
  BY SMTT(60) DEF TypeOK
<1>2. /\ a + b + c <= Len(r) /\ (~gone => a + b + c = Len(r))
      /\ \A i \in 1 .. a : Comes(raw[i], r[i], i = a + b)
      /\ \A i \in 1 .. b : Comes(inbuf[i], r[a + i], i = b)
      /\ \A i \in 1 .. c : air[i] = r[a + b + i]
  BY DEF Carries
<1>3. /\ Len(raw') = a + n /\ Len(inbuf') = b - n
      /\ \A i \in 1 .. a : raw'[i] = raw[i]
      /\ \A i \in 1 .. n : raw'[a + i] = inbuf[i]
      /\ \A i \in 1 .. b - n : inbuf'[i] = inbuf[n + i]
  OBVIOUS
<1>3a. Len(air') = c
  OBVIOUS
<1> HIDE DEF a, b, c
<1>4. (a + n) + (b - n) + c = a + b + c /\ (a + n) + (b - n) = a + b
  BY <1>1
<1>5. ASSUME NEW i \in 1 .. a + n PROVE Comes(raw'[i], r[i], i = a + b)
  <2>1. CASE i <= a
    <3>1. i \in 1 .. a
      BY <1>1, <2>1
    <3>2. raw'[i] = raw[i] /\ Comes(raw[i], r[i], i = a + b)
      BY <1>2, <1>3, <3>1
    <3>3. QED
      BY <3>2
  <2>2. CASE i > a
    <3>1. i - a \in 1 .. n /\ a + (i - a) = i /\ i - a \in 1 .. b /\ (i - a = b <=> i = a + b)
      BY <1>1, <2>2
    <3>2. raw'[a + (i - a)] = inbuf[i - a] /\ Comes(inbuf[i - a], r[a + (i - a)], i - a = b)
      BY <1>2, <1>3, <3>1
    <3>3. QED
      BY <3>1, <3>2 DEF Comes
  <2>3. QED
    BY <1>1, <2>1, <2>2
<1>6. ASSUME NEW i \in 1 .. b - n PROVE Comes(inbuf'[i], r[(a + n) + i], i = b - n)
  <2>1. n + i \in 1 .. b /\ a + (n + i) = (a + n) + i /\ (n + i = b <=> i = b - n)
    BY <1>1
  <2>2. inbuf'[i] = inbuf[n + i] /\ Comes(inbuf[n + i], r[a + (n + i)], n + i = b)
    BY <1>2, <1>3, <2>1
  <2>3. QED
    BY <2>1, <2>2 DEF Comes
<1>7. /\ Len(raw') + Len(inbuf') + Len(air') = a + b + c
      /\ \A i \in 1 .. Len(raw') : Comes(raw'[i], r[i], i = Len(raw') + Len(inbuf'))
      /\ \A i \in 1 .. Len(inbuf') : Comes(inbuf'[i], r[Len(raw') + i], i = Len(inbuf'))
  BY <1>3, <1>3a, <1>4, <1>5, <1>6
<1>8. \A i \in 1 .. Len(air') : air'[i] = r[Len(raw') + Len(inbuf') + i]
  <2>1. Len(raw') + Len(inbuf') = a + b
    BY <1>3, <1>4
  <2>2. \A i \in 1 .. c : air'[i] = r[a + b + i]
    BY <1>2
  <2>3. QED
    BY <1>3a, <2>1, <2>2
<1>9. QED
  BY <1>2, <1>7, <1>8 DEF Carries, Comes

LEMMA CarriesUnplug ==
  ASSUME TypeOK, NEW r \in Seq(Int), Carries(r), Unplug
  PROVE  Carries(r)'
<1> DEFINE a == Len(raw)
           b == Len(inbuf)
           c == Len(air)
<1>1. gone' = TRUE /\ air' = <<>> /\ raw' = raw /\ ~gone
  BY DEF Unplug, program
<1>2. a \in Nat /\ b \in Nat /\ c \in Nat /\ Len(air') = 0
  BY <1>1 DEF TypeOK
<1>3. /\ a + b + c = Len(r)
      /\ \A i \in 1 .. a : raw[i] = r[i]
      /\ \A i \in 1 .. b : inbuf[i] = r[a + i]
  BY <1>1 DEF Carries, Comes
<1>4. CASE inbuf' = inbuf
  BY SMTT(60), <1>1, <1>2, <1>3, <1>4 DEF Carries, Comes
<1>5. CASE air # <<>> /\ inbuf' = Append(inbuf, Esc)
  <2>1. /\ Len(inbuf') = b + 1 /\ c >= 1 /\ inbuf'[b + 1] = Esc
        /\ \A i \in 1 .. b : inbuf'[i] = inbuf[i]
    BY <1>5 DEF TypeOK, Esc
  <2> HIDE DEF a, b, c
  <2>2. \A i \in 1 .. b + 1 : inbuf'[i] = r[a + i] \/ (inbuf'[i] = Esc /\ i = b + 1)
    <3>1. \A i \in 1 .. b + 1 : i = b + 1 \/ i \in 1 .. b
      BY <1>2
    <3>2. QED
      BY <1>3, <2>1, <3>1
  <2>3. a + (b + 1) + 0 <= Len(r)
    BY <1>2, <1>3, <2>1
  <2>4. QED
    BY <1>1, <1>2, <1>3, <2>1, <2>2, <2>3 DEF Carries, Comes, a
<1>6. QED
  BY <1>4, <1>5 DEF Unplug

\* What is sent in answer to a read command is such an answer.
LEMMA SentOnTheLine ==
  ASSUME TypeOK, TypeOK', Silent, Awaited, SendRead
  PROVE  OnTheLine'
<1>1. /\ pc = "read" /\ pc' = "mass" /\ raw' = <<>> /\ inbuf' = <<>>
      /\ UNCHANGED <<off, gone, held, busy, refused, sector>>
  BY DEF SendRead, modem
<1>2. /\ \A r \in Answers : r \in Seq(Int)
      /\ \A r \in Answers : r \in Answers'
  <2>1. Unready' = Unready
    BY <1>1 DEF Unready
  <2>2. QED
    BY <1>1, <2>1, AnswersFrame DEF Answers
<1>3. \E r \in Answers : Carries(r)'
  <2>1. CASE gone
    <3>1. air' = <<>>
      BY <2>1 DEF SendRead, Silent
    <3>2. <<>> \in Answers
      <4>1. BlkLen \in Nat
        BY Constants DEF TypeOK, BlkLen
      <4>2. MassLen > 0
        BY <4>1, Constants DEF MassLen
      <4>3. QED
        BY <4>2 DEF Answers
    <3>3. Carries(<<>>)'
      BY <1>1, <2>1, <3>1 DEF Carries
    <3>4. QED
      BY <3>2, <3>3
  <2>2. CASE ~gone
    <3>1. ~Unready \/ busy
      BY <1>1, <2>2 DEF Silent, Unready
    <3>2. off >= 0 => ~Unready
      BY <1>1 DEF Awaited, Reading
    <3>3. PICK r \in {ReadReply(off, BlkLen), ErrorReply} : air' = r
      BY <2>2 DEF SendRead
    <3>4. r \in Answers
      BY <3>1, <3>2, <3>3, ReplyIs
    <3>5. r \in Seq(Int)
      BY <1>2, <3>4
    <3>6. Len(raw') = 0 /\ Len(inbuf') = 0 /\ Len(r) \in Nat
      BY <1>1, <3>5
    <3>7. Carries(r)'
      BY <2>2, <1>1, <3>3, <3>6 DEF Carries, Comes
    <3>8. QED
      BY <3>4, <3>7
  <2>3. QED
    BY <2>1, <2>2
<1>4. \E r \in Answers' : Carries(r)'
  BY <1>2, <1>3
<1>5. QED
  BY <1>1, <1>4 DEF OnTheLine

\* An answer that is being received stays one.
LEMMA ReceivedOnTheLine ==
  ASSUME TypeOK, TypeOK', OnTheLine, ReadMass \/ ReadTail
  PROVE  OnTheLine'
<1>1. /\ pc \in {"mass", "tail"} /\ pc' \in {"tail", "got"}
      /\ UNCHANGED <<off, air, gone, held, busy, refused, sector>>
  BY DEF ReadMass, ReadTail, modem
<1>2. PICK r \in Answers : Carries(r)
  BY <1>1 DEF OnTheLine
<1>3. r \in Answers' /\ r \in Seq(Int)
  <2>1. Unready' = Unready
    BY <1>1 DEF Unready
  <2>2. QED
    BY <1>1, <2>1, AnswersFrame DEF Answers
<1>4. CASE inbuf = <<>>
  <2>1. gone /\ pc' = "got" /\ raw' = raw /\ inbuf' = inbuf
    BY <1>4 DEF ReadMass, ReadTail
  <2>2. Carries(r)'
    BY <1>1, <1>2, <2>1 DEF Carries, Comes
  <2>3. QED
    BY <1>1, <1>3, <2>1, <2>2 DEF OnTheLine
<1>5. CASE inbuf # <<>> /\ ReadMass
  <2>1. PICK n \in 1 .. Len(inbuf) :
          /\ pc = "mass" /\ pc' = "tail"
          /\ raw' = SubSeq(inbuf, 1, n) /\ inbuf' = SubSeq(inbuf, n + 1, Len(inbuf))
    BY <1>5 DEF ReadMass
  <2>2. raw = <<>>
    BY <2>1 DEF OnTheLine
  <2>4. n \in Nat \ {0} /\ n <= Len(inbuf) /\ inbuf \in Seq(Int)
    BY DEF TypeOK
  <2>5. Len(raw') = n /\ \A i \in 1 .. n : raw'[i] = inbuf[i]
    BY <2>1, <2>4, PartIs
  <2>6. Len(inbuf') = Len(inbuf) - n /\ \A i \in 1 .. Len(inbuf) - n : inbuf'[i] = inbuf[n + i]
    BY <2>1, <2>4
  <2>7. Len(raw) = 0 /\ Len(raw') = Len(raw) + n /\ \A i \in 1 .. n : raw'[Len(raw) + i] = inbuf[i]
    BY <2>2, <2>4, <2>5
  <2>8. \A i \in 1 .. Len(raw) : raw'[i] = raw[i]
    BY <2>7
  <2>9. Carries(r)'
    BY <1>1, <1>2, <1>3, <2>4, <2>6, <2>7, <2>8, CarriesTaken
  <2>10. raw' # <<>>
    BY <2>4, <2>5
  <2>11. QED
    BY <1>3, <2>1, <2>9, <2>10 DEF OnTheLine
<1>6. CASE inbuf # <<>> /\ ReadTail
  <2>1. /\ raw' = Append(raw, Head(inbuf)) /\ inbuf' = Tail(inbuf) /\ pc = "tail"
        /\ pc' = IF Head(inbuf) = Mark THEN "got" ELSE "tail"
    BY <1>6 DEF ReadTail, EndsFrame
  <2>2. /\ Len(raw') = Len(raw) + 1
        /\ \A i \in 1 .. Len(raw) : raw'[i] = raw[i]
        /\ raw'[Len(raw) + 1] = inbuf[1] /\ Head(inbuf) = inbuf[1]
        /\ Len(inbuf') = Len(inbuf) - 1 /\ Len(inbuf) >= 1
        /\ \A i \in 1 .. Len(inbuf) - 1 : inbuf'[i] = inbuf[i + 1]
    BY <1>6, <2>1, ByteTaken DEF TypeOK
  <2>3. Len(raw) \in Nat /\ Len(inbuf) \in Nat /\ raw # <<>> /\ Len(raw) > 0
    BY <2>1 DEF TypeOK, OnTheLine
  <2>4. \A i \in 1 .. 1 : raw'[Len(raw) + i] = inbuf[i]
    BY <2>2
  <2>5. \A i \in 1 .. Len(inbuf) - 1 : inbuf'[i] = inbuf[1 + i]
    BY <2>2
  <2>6. Carries(r)'
    BY <1>1, <1>2, <1>3, <2>2, <2>3, <2>4, <2>5, CarriesTaken
  <2>7. Len(raw') > 1 /\ raw' # <<>>
    BY <2>2, <2>3
  <2>8. pc' = "got" => raw'[Len(raw')] = Mark
    BY <2>1, <2>2
  <2>9. QED
    BY <1>3, <2>1, <2>6, <2>7, <2>8 DEF OnTheLine
<1>7. QED
  BY <1>4, <1>5, <1>6

LEMMA NextOnTheLine ==
  TypeOK /\ TypeOK' /\ Silent /\ OnTheLine /\ Awaited /\ [Next]_vars => OnTheLine'
<1> SUFFICES ASSUME TypeOK, TypeOK', Silent, OnTheLine, Awaited, [Next]_vars PROVE OnTheLine'
  OBVIOUS
<1>1. CASE SendRead
  BY <1>1, SentOnTheLine
<1>2. CASE ReadMass \/ ReadTail
  BY <1>2, ReceivedOnTheLine
<1>3. CASE Poke \/ AckByte \/ Poll \/ Retry \/ TakeReply \/ GiveUp \/ StartBuffer \/ NextSector
  <2>1. pc' \in {"ack", "polled", "read", "buffer", "done", "poke"}
    BY <1>3 DEF Poke, AckByte, Poll, Retry, TakeReply, GiveUp, Answered, StartBuffer, NextSector
  <2>2. QED
    BY <2>1 DEF OnTheLine
<1>4. CASE Deliver \/ Unplug \/ GetReady \/ UNCHANGED vars
  <2>1. UNCHANGED <<pc, off, raw, held, sector, refused>> /\ (gone => gone')
    BY <1>4 DEF Deliver, Unplug, GetReady, vars, program, modem
  <2>2. Unready' => Unready
    <3>1. CASE Deliver \/ Unplug \/ UNCHANGED vars
      BY <2>1, <3>1 DEF Deliver, Unplug, vars, modem, Unready
    <3>2. CASE GetReady
      BY <2>1, <3>2 DEF GetReady, Unready
    <3>3. QED
      BY <1>4, <3>1, <3>2
  <2>3. ASSUME NEW r \in Answers, Carries(r) PROVE r \in Answers' /\ Carries(r)'
    <3>1. r \in Answers' /\ r \in Seq(Int)
      BY <2>1, <2>2, AnswersFrame DEF Answers
    <3>2. CASE Deliver
      BY <2>3, <3>1, <3>2, CarriesDeliver
    <3>3. CASE Unplug
      BY <2>3, <3>1, <3>3, CarriesUnplug
    <3>4. CASE GetReady \/ UNCHANGED vars
      <4>1. UNCHANGED <<raw, inbuf, air, gone>>
        BY <3>4 DEF GetReady, vars, program
      <4>2. QED
        BY <2>3, <3>1, <4>1 DEF Carries, Comes
    <3>5. QED
      BY <1>4, <3>2, <3>3, <3>4
  <2>4. pc' \in {"mass", "tail", "got"} => \E r \in Answers' : Carries(r)'
    BY <2>1, <2>3 DEF OnTheLine
  <2>5. /\ pc' = "mass" => raw' = <<>>
        /\ pc' = "tail" => raw' # <<>>
        /\ pc' = "got" => gone' \/ (Len(raw') > 1 /\ raw'[Len(raw')] = Mark)
    BY <2>1 DEF OnTheLine
  <2>6. QED
    BY <2>4, <2>5 DEF OnTheLine
<1>5. QED
  BY <1>1, <1>2, <1>3, <1>4 DEF Next, Step, Finished

-----------------------------------------------------------------------------
(* The status.                                                              *)

\* A byte of the answer that is not the last of what has been received is as it was sent.
LEMMA ByteIs ==
  ASSUME TypeOK, NEW r \in Answers, Carries(r), NEW i \in 1 .. Len(Frames(raw)), i < Len(raw)
  PROVE  Frames(raw)[i] = r[i] /\ raw[i] = r[i] /\ i \in 1 .. Len(r)
<1>1. Len(raw) \in Nat /\ Len(inbuf) \in Nat /\ Len(air) \in Nat /\ r \in Seq(Int) /\ Len(r) \in Nat
  BY DEF TypeOK, Answers
<1>2. /\ Len(Frames(raw)) \in Nat /\ Len(Frames(raw)) <= Len(raw)
      /\ Frames(raw)[i] = IF raw[i] = Esc THEN Unset ELSE raw[i]
  BY FramesIs DEF TypeOK
<1>3. Len(raw) + Len(inbuf) + Len(air) <= Len(r)
  BY DEF Carries
<1>4. i \in 1 .. Len(raw) /\ i \in 1 .. Len(r) /\ i # Len(raw) + Len(inbuf)
  BY <1>1, <1>2, <1>3
<1>5. raw[i] = r[i]
  BY <1>4 DEF Carries, Comes
<1>6. r[i] # Esc
  BY <1>4 DEF Answers
<1>7. QED
  BY <1>2, <1>4, <1>5, <1>6

\* The status of a full answer does not say ready while the controller is not.
LEMMA NotReadyYet ==
  ASSUME TypeOK, OnTheLine, pc = "got", off = -1, Unready, Normal(Len(Frames(raw)))
  PROVE  ~IsReady(Overlay(iobuf, 0, Frames(raw))[Hdr + 1])
<1> DEFINE f == Frames(raw)
           o == Overlay(iobuf, 0, f)
<1>1. PICK r \in Answers : Carries(r)
  BY DEF OnTheLine
<1>2. f \in Seq(Int) /\ Len(f) \in Nat /\ Len(raw) \in Nat /\ Len(f) <= Len(raw)
  BY FramesIs DEF TypeOK
<1>3. Len(f) >= Word + Slack
  BY DEF Normal, MassLen, BlkLen
<1>4. Hdr + 1 \in 1 .. Len(f) /\ Hdr + 1 < Len(raw) /\ Hdr + 1 \in 1 .. BufSize
  BY <1>2, <1>3, Constants
<1>5. f[Hdr + 1] = r[Hdr + 1] /\ Hdr + 1 \in 1 .. Len(r)
  BY <1>1, <1>4, ByteIs
<1>6. r[Hdr + 1] # Ready /\ r[Hdr + 1] # Unset
  BY <1>5 DEF Answers
<1>7. BufSize \in Nat /\ iobuf \in [1 .. BufSize -> Int] /\ 0 \in Nat
  BY Constants DEF TypeOK
<1> HIDE DEF f
<1>8. \A i \in 1 .. BufSize : i > 0 /\ i <= 0 + Len(f) => o[i] = f[i - 0]
  BY ZenonT(60), <1>2, <1>7, OverlayIs
<1>9. Hdr + 1 > 0 /\ Hdr + 1 <= 0 + Len(f) /\ (Hdr + 1) - 0 = Hdr + 1
  BY <1>2, <1>4, Constants
<1>10. o[Hdr + 1] = f[Hdr + 1]
  BY <1>4, <1>8, <1>9
<1>11. QED
  BY <1>5, <1>6, <1>10 DEF IsReady, f

LEMMA NextAwaited == TypeOK /\ AtChunk /\ OnTheLine /\ Awaited /\ [Next]_vars => Awaited'
<1> SUFFICES ASSUME TypeOK, AtChunk, OnTheLine, Awaited, [Next]_vars PROVE Awaited'
  OBVIOUS
<1>1. CASE Poke \/ AckByte \/ NextSector
  <2>1. pc' \in {"ack", "polled", "poke"}
    BY <1>1 DEF Poke, AckByte, NextSector
  <2>2. QED
    BY <2>1 DEF Awaited, Reading
<1>2. CASE Poll
  <2>1. pc' = "read" /\ off' = -1
    BY <1>2 DEF Poll
  <2>2. QED
    BY <2>1 DEF Awaited
<1>3. CASE SendRead \/ ReadMass \/ ReadTail \/ Retry
  <2>1. pc \in Reading /\ pc' \in Reading /\ UNCHANGED <<off, busy, held, sector, refused>>
    BY <1>3 DEF SendRead, ReadMass, ReadTail, Retry, Reading, modem
  <2>2. QED
    BY <2>1 DEF Awaited, Reading, Unready
<1>4. CASE TakeReply \/ GiveUp
  <2>1. pc = "got" /\ UNCHANGED <<busy, held, sector, refused>>
    BY <1>4 DEF TakeReply, GiveUp, Answered, modem
  <2>2. Unready' = Unready
    BY <2>1 DEF Unready
  <2>3. CASE off >= 0
    <3>1. ~Unready
      BY <2>1, <2>3 DEF Awaited, Reading
    <3>2. QED
      BY <2>2, <3>1 DEF Awaited
  <2>4. CASE off = -1
    <3>1. off' = -1 /\ pc' \in {"buffer", "read"}
      BY <1>4, <2>4 DEF TakeReply, GiveUp, Answered
    <3>2. pc' = "buffer" => ~Unready
      <4>1. BlkLen \in Nat /\ 1 \in 1 .. BlkLen
        BY Constants, <2>4 DEF BlkLen
      <4>2. CASE TakeReply
        <5> DEFINE o == Overlay(iobuf, 0, Frames(raw))
                   d == SubSeq(o, Hdr + 1, Hdr + BlkLen)
        <5>1. pc' = "buffer" => IsReady(d[1])
          BY <4>2, <2>4 DEF TakeReply, Answered
        <5>2. o \in [1 .. BufSize -> Int]
          BY GivesType
        <5>3. Unready => ~IsReady(o[Hdr + 1])
          BY <4>2, <2>4, NotReadyYet DEF TakeReply
        <5> HIDE DEF o
        <5>4. d[1] = o[Hdr + 1]
          BY <5>2, <4>1, DataIs
        <5>5. QED
          BY <5>1, <5>3, <5>4
      <4>3. CASE GiveUp
        <5>1. pc' = "buffer" => IsReady(Const(EB, BlkLen)[1])
          BY <4>3, <2>4 DEF GiveUp, Answered
        <5>2. EB \in Int /\ ~IsReady(EB)
          BY DEF EB, Ready, Unset, IsReady
        <5>3. Const(EB, BlkLen)[1] = EB
          BY <4>1, <5>2, ConstIs
        <5>4. QED
          BY <5>1, <5>2, <5>3
      <4>4. QED
        BY <1>4, <4>2, <4>3
    <3>3. QED
      BY <2>2, <3>1, <3>2 DEF Awaited
  <2>5. QED
    BY <2>3, <2>4 DEF TypeOK
<1>5. CASE StartBuffer
  <2>1. pc = "buffer" /\ UNCHANGED <<busy, held, sector, refused>>
    BY <1>5 DEF StartBuffer, modem
  <2>2. ~Unready'
    BY <2>1 DEF Awaited, Unready
  <2>3. QED
    BY <2>2 DEF Awaited
<1>6. CASE Deliver \/ Unplug \/ GetReady \/ UNCHANGED vars
  <2>1. UNCHANGED <<pc, off, held, sector, refused>>
    BY <1>6 DEF Deliver, Unplug, GetReady, vars, program, modem
  <2>2. Unready' => Unready
    <3>1. CASE Deliver \/ Unplug \/ UNCHANGED vars
      BY <2>1, <3>1 DEF Deliver, Unplug, vars, modem, Unready
    <3>2. CASE GetReady
      BY <2>1, <3>2 DEF GetReady, Unready
    <3>3. QED
      BY <1>6, <3>1, <3>2
  <2>3. QED
    BY <2>1, <2>2 DEF Awaited
<1>7. QED
  BY <1>1, <1>2, <1>3, <1>4, <1>5, <1>6 DEF Next, Step, Finished

-----------------------------------------------------------------------------
(* The data.                                                                *)

\* The end of a piece is the end of a chunk or of the sector.
LEMMA PieceEnds ==
  ASSUME TypeOK, AtChunk, off >= 0
  PROVE  /\ BlkLen \in Nat \ {0} /\ BlkLen <= Chunk /\ off \in Nat
         /\ off + BlkLen <= SectorLen
         /\ EndOfChunk(off + BlkLen) /\ EndOfChunk(off + BlkLen - 1)
         /\ off + Chunk >= SectorLen => off + BlkLen = SectorLen
         /\ off + Chunk < SectorLen => BlkLen = Chunk
<1>1. /\ Chunk \in Nat \ {0} /\ SectorLen \in Nat \ {0}
      /\ off \in 0 .. SectorLen - 1
      /\ BlkLen = IF off + Chunk > SectorLen THEN SectorLen - off ELSE Chunk
  BY Constants DEF TypeOK, BlkLen
<1>2. CASE off + Chunk > SectorLen
  <2>1. BlkLen = SectorLen - off /\ off + BlkLen = SectorLen
    BY <1>1, <1>2
  <2>2. QED
    BY <1>1, <1>2, <2>1 DEF EndOfChunk
<1>3. CASE ~(off + Chunk > SectorLen)
  <2>1. BlkLen = Chunk
    BY <1>1, <1>3
  <2>2. PICK m \in Nat : off = m * Chunk
    BY DEF AtChunk
  <2>3. off + Chunk = (m + 1) * Chunk + 0 /\ m + 1 \in Int /\ 0 \in 0 .. Chunk - 1
    BY <1>1, <2>2
  <2>4. ((m + 1) * Chunk + 0) % Chunk = 0
    BY <1>1, <2>3, DivMod
  <2>5. EndOfChunk(off + BlkLen) /\ EndOfChunk(off + BlkLen - 1)
    <3>1. (off + BlkLen) % Chunk = 0
      BY <2>1, <2>3, <2>4
    <3>2. off + BlkLen = (off + BlkLen - 1) + 1
      BY <1>1, <2>1
    <3>3. QED
      BY <3>1, <3>2 DEF EndOfChunk
  <2>6. QED
    BY <1>1, <1>3, <2>1, <2>5
<1>4. QED
  BY <1>2, <1>3

\* A full answer holds the data, all but the last two bytes if it has been cut off.
LEMMA DataArrived ==
  ASSUME TypeOK, AtChunk, OnTheLine, pc = "got", off >= 0, Normal(Len(Frames(raw)))
  PROVE  LET d == SubSeq(Overlay(iobuf, 0, Frames(raw)), Hdr + 1, Hdr + BlkLen)
         IN  \A k \in 1 .. BlkLen :
                \/ d[k] = DataByte(held, off + k - 1)
                \/ gone /\ EndOfChunk(off + k)
<1> DEFINE f == Frames(raw)
           o == Overlay(iobuf, 0, f)
           n == BlkLen
           d == SubSeq(o, Hdr + 1, Hdr + n)
<1>1. /\ n \in Nat \ {0} /\ n <= Chunk /\ off \in Nat
      /\ EndOfChunk(off + n) /\ EndOfChunk(off + n - 1)
  BY PieceEnds
<1>2. PICK r \in Answers : Carries(r)
  BY DEF OnTheLine
<1>3. r \in Seq(Int) /\ (Whole(r) \/ Len(r) < MassLen)
  BY DEF Answers
<1>4. Len(raw) \in Nat /\ Len(inbuf) \in Nat /\ Len(air) \in Nat /\ Len(r) \in Nat
  BY <1>3 DEF TypeOK
<1>5. Len(raw) <= Len(r)
  BY <1>2, <1>4 DEF Carries
<1>6. /\ f \in Seq(Int) /\ Len(f) \in Nat /\ Len(f) <= Len(raw)
      /\ (\A i \in 2 .. Len(raw) - 1 : raw[i] # Mark) => Len(f) = Len(raw)
  BY FramesIs DEF TypeOK
<1>7. Len(f) >= n + Slack
  BY DEF Normal, MassLen
<1>8. gone \/ (Len(raw) > 1 /\ raw[Len(raw)] = Mark)
  BY DEF OnTheLine
<1>9. Whole(r)
  <2>1. ~(Len(r) < n + Slack)
    BY <1>1, <1>4, <1>5, <1>6, <1>7, Constants
  <2>2. QED
    BY <1>3, <2>1 DEF MassLen
<1>10. /\ Len(r) = Hdr + n + Trl
       /\ \A i \in 2 .. Len(r) - 1 : r[i] # Mark
       /\ \A k \in 1 .. n : r[Hdr + k] = DataByte(held, off + k - 1)
  BY <1>9 DEF Whole
<1>11. \A i \in 1 .. Len(raw) : i < Len(raw) \/ ~gone => raw[i] = r[i]
  <2>1. \A i \in 1 .. Len(raw) : i < Len(raw) => i # Len(raw) + Len(inbuf)
    BY <1>4
  <2>2. QED
    BY <1>2, <2>1 DEF Carries, Comes
<1>12. \A i \in 1 .. Len(f) : i < Len(raw) => f[i] = r[i]
  BY <1>2, ByteIs
<1>13. BufSize \in Nat /\ iobuf \in [1 .. BufSize -> Int] /\ 0 \in Nat
  BY Constants DEF TypeOK
<1>14. \A i \in 1 .. Len(f) : f[i] = IF raw[i] = Esc THEN Unset ELSE raw[i]
  BY FramesIs DEF TypeOK
<1> HIDE DEF f
<1>15. /\ o \in [1 .. BufSize -> Int]
       /\ \A i \in 1 .. BufSize : i > 0 /\ i <= 0 + Len(f) => o[i] = f[i - 0]
  BY <1>6, <1>13, OverlayIs
<1> HIDE DEF o
<1>16. \A k \in 1 .. n : d[k] = o[Hdr + k]
  BY <1>15, DataIs
<1> HIDE DEF d, n
<1>17. Len(f) = Len(raw)
  <2>1. \A i \in 2 .. Len(raw) - 1 : i \in 1 .. Len(raw) /\ i < Len(raw) /\ i \in 2 .. Len(r) - 1
    BY <1>4, <1>5
  <2>2. QED
    BY <1>6, <1>10, <1>11, <2>1
<1>18. SUFFICES ASSUME NEW k \in 1 .. n
                PROVE  d[k] = DataByte(held, off + k - 1) \/ (gone /\ EndOfChunk(off + k))
  BY DEF d, o, f, n
<1>19. Hdr + k <= Len(raw) => d[k] = f[Hdr + k] /\ Hdr + k \in 1 .. Len(f) /\ Hdr + k \in 1 .. Len(raw)
  <2>1. SUFFICES ASSUME Hdr + k <= Len(raw)
                 PROVE  d[k] = f[Hdr + k] /\ Hdr + k \in 1 .. Len(f) /\ Hdr + k \in 1 .. Len(raw)
    OBVIOUS
  <2>2. Hdr + k \in 1 .. BufSize /\ Hdr + k > 0 /\ Hdr + k <= 0 + Len(f) /\ (Hdr + k) - 0 = Hdr + k
    BY <1>1, <1>4, <1>17, <2>1, Constants
  <2>3. d[k] = o[Hdr + k] /\ o[Hdr + k] = f[Hdr + k]
    BY <1>15, <1>16, <2>2
  <2>4. QED
    BY <1>4, <1>17, <2>1, <2>2, <2>3
<1>20. CASE Hdr + k < Len(raw)
  <2>1. d[k] = f[Hdr + k] /\ Hdr + k \in 1 .. Len(f)
    BY <1>1, <1>4, <1>19, <1>20, Constants
  <2>2. f[Hdr + k] = r[Hdr + k]
    BY <1>12, <1>20, <2>1
  <2>3. QED
    BY <1>10, <2>1, <2>2
<1>21. CASE ~(Hdr + k < Len(raw)) /\ gone
  <2>1. k = n \/ k = n - 1
    BY <1>1, <1>4, <1>7, <1>17, <1>21, Constants
  <2>2. off + k = off + n \/ off + k = off + n - 1
    BY <1>1, <2>1
  <2>3. QED
    BY <1>1, <1>21, <2>2
<1>22. CASE ~(Hdr + k < Len(raw)) /\ ~gone
  <2>1. Len(raw) > 1 /\ raw[Len(raw)] = Mark /\ Len(raw) \in 1 .. Len(raw)
    BY <1>4, <1>8, <1>22
  <2>2. raw[Len(raw)] = r[Len(raw)]
    BY <1>11, <1>22, <2>1
  <2>3. Len(raw) <= Hdr + k /\ Len(raw) >= 2
    BY <1>1, <1>4, <1>22, <2>1, Constants
  <2>4. Len(raw) <= Len(r) - 1
    BY <1>1, <1>4, <1>10, <2>3, Constants
  <2>5. Len(raw) \in 2 .. Len(r) - 1
    BY <1>4, <2>3, <2>4
  <2>6. QED
    BY <1>10, <2>1, <2>2, <2>5
<1>23. QED
  BY <1>20, <1>21, <1>22

\* A piece that is right is put behind those before it.
LEMMA AnsweredRight ==
  ASSUME TypeOK, AtChunk, Delivered, pc = "got", off >= 0,
         NEW d \in Seq(Int), Len(d) = BlkLen, NEW good \in BOOLEAN, Answered(d, good),
         \A k \in 1 .. BlkLen : \/ d[k] = DataByte(held, off + k - 1)
                                \/ d[k] = EB /\ ~good
                                \/ gone /\ EndOfChunk(off + k)
  PROVE  Delivered'
<1> DEFINE n == BlkLen
<1>1. /\ n \in Nat \ {0} /\ off \in Nat /\ off + n <= SectorLen
      /\ off + Chunk >= SectorLen => off + n = SectorLen
      /\ off + Chunk < SectorLen => n = Chunk
  BY PieceEnds
<1>2. /\ membuf' = Overlay(membuf, off, d) /\ ok' = (ok /\ good)
      /\ \/ off + Chunk >= SectorLen /\ pc' = "done"
         \/ ~(off + Chunk >= SectorLen) /\ pc' = "read" /\ off' = off + Chunk
      /\ UNCHANGED <<held, gone>>
  BY <1>1 DEF Answered, modem
<1>3. SectorLen \in Nat /\ Chunk \in Nat
  BY Constants
<1>4. Len(d) = n /\ \A k \in 1 .. n : \/ d[k] = DataByte(held, off + k - 1)
                                      \/ d[k] = EB /\ ~good
                                      \/ gone /\ EndOfChunk(off + k)
  OBVIOUS
<1> HIDE DEF n
<1>5. /\ \A i \in 1 .. SectorLen : i > off /\ i <= off + n => membuf'[i] = d[i - off]
      /\ \A i \in 1 .. SectorLen : ~(i > off /\ i <= off + n) => membuf'[i] = membuf[i]
  <2>1. /\ \A i \in 1 .. SectorLen : i > off /\ i <= off + Len(d) => Overlay(membuf, off, d)[i] = d[i - off]
        /\ \A i \in 1 .. SectorLen : ~(i > off /\ i <= off + Len(d)) => Overlay(membuf, off, d)[i] = membuf[i]
    <3>1. membuf \in [1 .. SectorLen -> Int]
      BY DEF TypeOK
    <3>2. SectorLen \in Nat /\ off \in Nat /\ d \in Seq(Int)
      BY <1>1, <1>3
    <3>3. QED
      BY <3>1, <3>2, OverlayIs, ZenonT(60)
  <2>2. QED
    BY <1>2, <1>4, <2>1
<1>6. \A j \in 1 .. off : Right(j)
  BY DEF Delivered, Reading
<1>7. ASSUME NEW j \in 1 .. off + n PROVE Right(j)'
  <2>1. j \in 1 .. SectorLen
    BY <1>1, <1>3
  <2>2. CASE j <= off
    <3>1. j \in 1 .. off /\ ~(j > off)
      BY <1>1, <2>2
    <3>2. membuf'[j] = membuf[j]
      BY <1>5, <2>1, <3>1
    <3>3. QED
      BY <1>2, <1>6, <3>1, <3>2 DEF Right
  <2>3. CASE ~(j <= off)
    <3>1. j - off \in 1 .. n /\ off + (j - off) = j /\ off + (j - off) - 1 = j - 1 /\ j > off /\ j <= off + n
      BY <1>1, <2>3
    <3>2. membuf'[j] = d[j - off]
      BY <1>5, <2>1, <3>1
    <3>3. \/ d[j - off] = DataByte(held, j - 1)
          \/ d[j - off] = EB /\ ~good
          \/ gone /\ EndOfChunk(j)
      BY <1>4, <3>1
    <3>4. QED
      BY <1>2, <3>2, <3>3 DEF Right
  <2>4. QED
    BY <2>2, <2>3
<1>8. CASE off + Chunk >= SectorLen
  BY <1>1, <1>2, <1>3, <1>7, <1>8 DEF Delivered, Reading
<1>9. CASE ~(off + Chunk >= SectorLen)
  <2>1. off' = off + n /\ pc' = "read"
    BY <1>1, <1>2, <1>3, <1>9
  <2>2. QED
    BY <1>7, <2>1 DEF Delivered
<1>10. QED
  BY <1>8, <1>9

LEMMA NextDelivered ==
  TypeOK /\ AtChunk /\ OnTheLine /\ Awaited /\ Delivered /\ [Next]_vars => Delivered'
<1> SUFFICES ASSUME TypeOK, AtChunk, OnTheLine, Awaited, Delivered, [Next]_vars PROVE Delivered'
  OBVIOUS
<1>1. CASE Poke \/ AckByte \/ NextSector
  <2>1. pc' \in {"ack", "polled", "poke"}
    BY <1>1 DEF Poke, AckByte, NextSector
  <2>2. QED
    BY <2>1 DEF Delivered, Reading
<1>2. CASE Poll \/ StartBuffer
  <2>1. pc' = "read" /\ off' \in {-1, 0}
    BY <1>2 DEF Poll, StartBuffer
  <2>2. \A j \in 1 .. off' : FALSE
    BY <2>1
  <2>3. QED
    BY <2>1, <2>2 DEF Delivered
<1>3. CASE SendRead \/ ReadMass \/ ReadTail \/ Retry
  <2>1. pc \in Reading /\ pc' \in Reading /\ UNCHANGED <<off, membuf, ok, gone, held>>
    BY <1>3 DEF SendRead, ReadMass, ReadTail, Retry, Reading, modem
  <2>2. QED
    BY <2>1 DEF Delivered, Right, Reading
<1>4. CASE (TakeReply \/ GiveUp) /\ off = -1
  <2>1. pc' \in {"buffer", "read"} /\ off' = -1
    BY <1>4 DEF TakeReply, GiveUp, Answered
  <2>2. \A j \in 1 .. off' : FALSE
    BY <2>1
  <2>3. QED
    BY <2>1, <2>2 DEF Delivered
<1>5. CASE (TakeReply \/ GiveUp) /\ off # -1
  <2>0. off \in {-1} \cup 0 .. SectorLen - 1 /\ off # -1
    BY <1>5 DEF TypeOK
  <2>1. pc = "got" /\ off >= 0
    <3>1. off >= 0
      BY <2>0, Constants
    <3>2. pc = "got"
      BY <1>5 DEF TakeReply, GiveUp
    <3>3. QED
      BY <3>1, <3>2
  <2>2. CASE TakeReply
    <3> DEFINE d == SubSeq(Overlay(iobuf, 0, Frames(raw)), Hdr + 1, Hdr + BlkLen)
    <3>1. Normal(Len(Frames(raw))) /\ Answered(d, TRUE)
      BY <2>2 DEF TakeReply
    <3>2. \A k \in 1 .. BlkLen : \/ d[k] = DataByte(held, off + k - 1)
                                 \/ gone /\ EndOfChunk(off + k)
      BY <2>1, <3>1, DataArrived
    <3>3. d \in Seq(Int) /\ Len(d) = BlkLen
      BY GivesType, DataIs
    <3> HIDE DEF d
    <3>4. QED
      BY <2>1, <3>1, <3>2, <3>3, AnsweredRight
  <2>3. CASE GiveUp
    <3> DEFINE d == Const(EB, BlkLen)
    <3>1. Answered(d, FALSE)
      BY <2>3 DEF GiveUp
    <3>2. BlkLen \in Nat /\ EB \in Int
      BY <2>1, PieceEnds DEF EB
    <3>3. d \in Seq(Int) /\ Len(d) = BlkLen /\ \A k \in 1 .. BlkLen : d[k] = EB
      BY <3>2, ConstIs
    <3> HIDE DEF d
    <3>4. QED
      BY <2>1, <3>1, <3>3, AnsweredRight
  <2>4. QED
    BY <1>5, <2>2, <2>3
<1>6. CASE Deliver \/ Unplug \/ GetReady \/ UNCHANGED vars
  <2>1. UNCHANGED <<pc, off, membuf, ok, held>> /\ (gone => gone')
    BY <1>6 DEF Deliver, Unplug, GetReady, vars, program, modem
  <2>2. QED
    BY <2>1 DEF Delivered, Right
<1>7. QED
  BY <1>1, <1>2, <1>3, <1>4, <1>5, <1>6 DEF Next, Step, Finished

-----------------------------------------------------------------------------
(* The invariant and what follows from it.                                  *)

LEMMA InitInv == Init => Inv
<1> SUFFICES ASSUME Init PROVE Inv
  OBVIOUS
<1>1. Fresh \in [1 .. BufSize -> Int] /\ Const(Unset, SectorLen) \in [1 .. SectorLen -> Int]
  <2>1. SectorLen \in Nat /\ BufSize \in Nat /\ Unset \in Int
    BY Constants DEF Unset
  <2>2. Const(Unset, SectorLen) \in [1 .. SectorLen -> Int] /\ Const(Unset, BufSize) \in [1 .. BufSize -> Int]
    BY <2>1, ConstIs
  <2>3. QED
    BY <2>2 DEF Fresh
<1>2. TypeOK
  <2>1. MaxTries \in Nat /\ <<>> \in Seq(Int)
    BY Constants
  <2>2. QED
    BY <1>1, <2>1 DEF Init, TypeOK, Labels, Reading
<1>3. AtChunk /\ Silent /\ OnTheLine /\ Awaited /\ Delivered
  BY DEF Init, AtChunk, Silent, OnTheLine, Awaited, Delivered, Reading
<1>4. QED
  BY <1>2, <1>3 DEF Inv

LEMMA NextInv == Inv /\ [Next]_vars => Inv'
  BY NextType, NextAtChunk, NextSilent, NextOnTheLine, NextAwaited, NextDelivered, Zenon DEF Inv

\* The parts of an answer, wherever they are, stay parts of it, also if the device
\* disappears between the two halves of an escaped byte; a status that says ready is that
\* of the sector asked for; and what has been delivered so far is right (memio.c:36-88,
\* hdlc.c:124-168).
THEOREM LinkInvariant == Spec => []Inv
  BY InitInv, NextInv, PTL DEF Spec

\* A sector is delivered as it is in the flash, or filled where memread() says so, or
\* wrong in the last two bytes of a chunk whose answer was cut off; it is the sector asked
\* for unless a poke was refused; and it is read from the controller only when that has
\* finished. This for every length of a chunk and a sector, every number of attempts and
\* every way in which the replies come in pieces (memio.c:36-88, hdlc.c:124-168, qcio.c:33).
THEOREM SectorsAreRight == Spec => []SectorRight
<1>1. Inv => SectorTruthful
  BY DEF Inv, Delivered, Awaited, Unready, Right, SectorTruthful
<1>2. Inv => ReadsWhenReady
  BY DEF Inv, Awaited, Reading, Unready, ReadsWhenReady
<1>3. Inv => SectorRight
  BY <1>1, <1>2 DEF SectorRight
<1>4. QED
  BY <1>3, LinkInvariant, PTL
===============================================================================
