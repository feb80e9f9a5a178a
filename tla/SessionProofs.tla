---------------------------- MODULE SessionProofs ----------------------------
(***************************************************************************)
(* Proofs about the sessions of Session: what "loaded" says after any      *)
(* number of programs, kills, power cycles, losses and delays, over both   *)
(* protocols, and what "write completed" says on a line that does not hold *)
(* two answers at once, or on any line where no answer has come late.      *)
(***************************************************************************)
EXTENDS Session, TLAPS

Codes == {"none", "02", "03", "08", "0e", "16", "18", "1a", "1c", "s1", "s3", "s4", "s6", "rest"}
Answers == [code : Codes, len : Nat, w8 : Int, w12 : Int]
Modes == {"pbl", "sahara", "loader", "hung"}
Modems ==
    [mode : Modes, img : Int, ram : [0 .. Blocks -> Int], want : SUBSET (0 .. Blocks),
     asked : {Missing} \cup 0 .. Blocks, stat : {0, 1}, secure : BOOLEAN,
     stream : Parts \cup {NoPart}, flash : [Parts -> Seq(Int)]]

PblLabels == {"nop", "version", "block", "go"}
SaharaLabels == {"greet", "nudge", "reply", "piece", "done"}
HelloLabels == {"hello1", "hello2"}
WriteLabels == {"secure", "close0", "table", "head", "data", "close1"}

Types ==
    /\ modem \in Modems /\ air \in Seq(Answers) /\ iobuf \in Answers /\ iolen \in Nat
    /\ faults \in 0 .. MaxFaults /\ runs \in 0 .. MaxRuns
    /\ waiting \in BOOLEAN /\ late \in BOOLEAN /\ blind \in BOOLEAN /\ claimed \in BOOLEAN
    /\ opts \in OptionSets /\ blk \in 0 .. Blocks /\ adr \in Nat /\ k \in Nat \ {0}
    /\ reported \in [Parts -> Seq(Int)]
    /\ pc \in PblLabels \cup SaharaLabels \cup HelloLabels \cup WriteLabels \cup {"end"}

\* Which program is where.
AtPlace ==
    /\ pc \in PblLabels => opts.prog = "qdload"
    /\ pc \in SaharaLabels => opts.prog = "sahara"
    /\ pc \in WriteLabels => opts.prog = "qwflash"
    /\ opts.prog = "qwflash" => k \in 1 .. Len(opts.writes)
    /\ pc = "block" => blk < Blocks

\* The download protocol without late answers: what is confirmed is in the memory.
Confirmed ==
    opts.prog # "sahara" /\ ~late /\ ~blind =>
        /\ pc = "block" => \A b \in 0 .. blk - 1 : modem.ram[b] = b
        /\ pc = "block" /\ waiting =>
              Len(air) <= 1 /\ \A i \in 1 .. Len(air) : air[i].code = "02" => modem.ram[blk] = blk
        /\ claimed => /\ opts.prog = "qdload" /\ pc \in {"go", "end"} \cup HelloLabels
                      /\ Complete(modem.ram)

(* Sahara. *)

\* A hello comes before all other answers, the rest of one before everything.
InTurn ==
    /\ \A j \in 1 .. Len(air) : air[j].code = "s1" =>
          /\ air[j].w8 = 2 /\ air[j].len = 48
          /\ \A i \in 1 .. j - 1 : air[i].code \in {"s1", "rest"}
    /\ \A i \in 1 .. Len(air) : /\ air[i].code = "rest" => i = 1 /\ air[i].w8 = 0
                                /\ air[i].code = "s3" => air[i].len = 20
                                /\ air[i].code = "s4" => air[i].len = 16
    /\ pc = "reply" => iobuf.w8 = 2

Untouched == modem.mode = "sahara" /\ Fresh(modem)
Underway == modem.mode = "sahara" /\ ~Fresh(modem) /\ modem.stat = 0
Failed == modem.mode = "sahara" /\ modem.stat = 1

NoHello == \A i \in 1 .. Len(air) : air[i].code # "s1"
NoEnd == \A i \in 1 .. Len(air) : air[i].code # "s4"

\* The modem waits for the answer to its hello.
WhenUntouched ==
    Untouched =>
        /\ modem.stat = 0
        /\ \A i \in 1 .. Len(air) : air[i].code \in {"s1", "rest"}
        /\ pc \notin {"piece", "done"}

\* It asks for the pieces; its last message is the last on the line.
Last(i) ==
    /\ air[i].code \in {"s1", "rest", "s3", "s4"}
    /\ air[i].code = "s3" => i = Len(air) /\ modem.asked # Missing /\ air[i].w12 = modem.asked
    /\ air[i].code = "s4" => /\ i = Len(air) /\ air[i].w12 = 0
                             /\ modem.want = {} /\ modem.asked = Missing
WhenUnderway ==
    Underway =>
        /\ \A i \in 1 .. Len(air) : Last(i)
        /\ pc = "reply" \/ ~NoHello => NoEnd
        /\ pc = "piece" /\ ~waiting /\ iobuf.code = "s3" =>
              /\ modem.asked # Missing
              /\ air = <<>> => iobuf.w12 = modem.asked
              /\ air # <<>> => Len(air) = 1 /\ air[1].code = "rest"
        /\ pc = "piece" /\ ~waiting /\ iobuf.code = "s4" =>
              modem.want = {} /\ modem.asked = Missing /\ air = <<>> /\ iobuf.w12 = 0
        /\ pc = "done" => air = <<>> /\ iobuf.w12 = 0 /\ modem.want = {} /\ modem.asked = Missing

\* What it has been given is right, or it has been given something in answer to the first part of a
\* request, and the rest of that will stop the program.
Derailed ==
    /\ NoHello
    /\ \/ pc \notin {"reply", "piece", "done"}
       \/ pc = "piece" /\ waiting /\ air # <<>> /\ air[1].code = "rest"
       \/ pc = "piece" /\ ~waiting /\ iobuf.code = "rest"
Proper == \A b \in 0 .. Blocks - 1 : b \in modem.want \/ b = modem.asked \/ modem.ram[b] = b
Given == Underway => Proper \/ Derailed

\* It has given up: nobody who goes on reads that the image is good.
WhenFailed ==
    Failed =>
        /\ modem.want = {} /\ modem.asked = Missing
        /\ pc \in {"reply", "piece", "done"} \/ ~NoHello =>
              \A i \in 1 .. Len(air) : air[i].code = "s4" => air[i].w12 = 1
        /\ pc = "piece" /\ ~waiting /\ iobuf.code = "s4" => iobuf.w12 = 1
        /\ pc = "done" => iobuf.w12 = 1

\* It is no longer, or not, in Sahara.
Otherwise ==
    modem.mode # "sahara" =>
        /\ NoHello
        /\ pc \notin {"reply", "piece"}
        /\ pc = "done" => modem.mode = "loader" /\ Complete(modem.ram) /\ modem.stat = 0

Believed ==
    /\ pc \in {"piece", "done"} => NoHello
    /\ pc = "done" => waiting
    /\ claimed /\ opts.prog = "sahara" =>
          /\ modem.mode = "loader" /\ Complete(modem.ram) /\ modem.stat = 0
          /\ pc \in HelloLabels \cup {"end"}

Right == InTurn /\ WhenUntouched /\ WhenUnderway /\ Given /\ WhenFailed /\ Otherwise /\ Believed
Sober == ~blind => Right

(* Writing. *)

\* One answer on the line at most, be it late or not.
Narrow == Len(air) <= 1

\* What is reported is there, and nobody can write behind it.
Standing == \A p \in Parts : reported[p] # <<>> => modem.flash[p] = reported[p] /\ modem.stream # p

\* No answer to an earlier header is on the line when a header is written, and none but this one after.
Opening ==
    /\ pc = "close0" /\ ~waiting => air = <<>>
    /\ pc = "close0" \/ (pc = "head" /\ ~waiting) =>
          \A i \in 1 .. Len(air) : air[i].code # "1c"
    /\ pc = "head" /\ waiting => reported[Write.part] = <<>>
    /\ pc = "head" /\ waiting => \A i \in 1 .. Len(air) : air[i].code = "1c" =>
          modem.mode = "loader" /\ modem.stream = Write.part /\ modem.flash[Write.part] = <<>>

\* The partition holds the file up to the packet that is due, or with it once it is confirmed.
Filling ==
    /\ pc = "data" => /\ reported[Write.part] = <<>> /\ adr <= Len(Write.data)
                      /\ modem.mode = "loader" /\ modem.stream = Write.part
    /\ pc = "data" /\ ~waiting =>
          air = <<>> /\ modem.flash[Write.part] = SubSeq(Write.data, 1, adr)
    /\ pc = "data" /\ waiting => \A i \in 1 .. Len(air) : air[i].code = "08" =>
          modem.flash[Write.part] = SubSeq(Write.data, 1, adr + Len(Packet))

\* It holds the file, and the stream is closed once that is confirmed.
Closing ==
    /\ pc = "close1" => reported[Write.part] = <<>> /\ modem.flash[Write.part] = Write.data
    /\ pc = "close1" /\ ~waiting => air = <<>>
    /\ pc = "close1" /\ waiting => \A i \in 1 .. Len(air) : air[i].code = "16" =>
          modem.stream = NoPart

Stored == ~blind => Standing /\ Opening /\ Filling /\ Closing

-----------------------------------------------------------------------------
(* Requests and what they lead to.                                          *)

Requests ==
    [cmd : {"nop", "version", "go", "hello", "nudge", "hellorsp", "done", "secure", "close"}]
    \cup [cmd : {"block"}, adr : 0 .. Blocks - 1, data : Int]
    \cup [cmd : {"piece"}, data : Int]
    \cup [cmd : {"table"}, full : BOOLEAN]
    \cup [cmd : {"head"}, part : Parts]
    \cup [cmd : {"data"}, adr : Nat, data : Seq(Int)]

LEMMA Constants ==
    /\ Blocks \in Nat \ {0} /\ NoPart \notin Parts /\ MaxFaults \in Nat /\ MaxRuns \in Nat
    /\ wbsize \in Nat \ {0} /\ OptionSets # {}
    /\ \A o \in OptionSets : /\ o.prog \in {"qdload", "sahara", "qwflash"} /\ o.hello \in BOOLEAN
                             /\ o.writes \in Seq([part : Parts, data : Seq(Int)])
                             /\ o.prog = "qwflash" => o.writes # <<>>
<1>1. \A o \in OptionSets : o \in Options
  BY SessionAssumption
<1>2. \A o \in Options : /\ o.prog \in {"qdload", "sahara", "qwflash"} /\ o.hello \in BOOLEAN
                         /\ o.writes \in Seq([part : Parts, data : Seq(Int)])
  BY DEF Options
<1>3. QED
  BY <1>1, <1>2, ModemAssumption, LineAssumption, WritingAssumption, SessionAssumption

\* The answers of the modem.
LEMMA AnswersAre ==
  /\ Ack \in Answers /\ Ack.code = "02"
  /\ Nak \in Answers /\ Nak.code = "03"
  /\ Version \in Answers /\ Version.code = "08"
  /\ Error \in Answers /\ Error.code = "0e"
  /\ Nothing \in Answers /\ Nothing.code = "none" /\ Nothing.len = 0
  /\ DoneResponse \in Answers /\ DoneResponse.code = "s6" /\ DoneResponse.len = 12
  /\ Hello \in Answers /\ Hello.code = "s1" /\ Hello.len = 48 /\ Hello.w8 = 2
  /\ \A n \in {0, 1} : Table(n) \in Answers /\ Table(n).code = "1a"
  /\ \A c \in Codes, n \in Nat : Answer(c, n) \in Answers /\ Answer(c, n).code = c /\ Answer(c, n).len = n
  /\ \A i \in Int, p \in Int : /\ ReadData(i, p) \in Answers
                               /\ ReadData(i, p).code = "s3" /\ ReadData(i, p).len = 20
                               /\ ReadData(i, p).w12 = p
  /\ \A i \in Int, p \in Int : /\ EndOfImage(i, p) \in Answers
                               /\ EndOfImage(i, p).code = "s4" /\ EndOfImage(i, p).len = 16
                               /\ EndOfImage(i, p).w12 = p
<1> USE DEF Answers, Codes, Answer
<1>1. /\ Ack \in Answers /\ Ack.code = "02"
      /\ Nak \in Answers /\ Nak.code = "03"
      /\ Version \in Answers /\ Version.code = "08"
      /\ Error \in Answers /\ Error.code = "0e"
  BY DEF Ack, Nak, Version, Error
<1>2. /\ Nothing \in Answers /\ Nothing.code = "none" /\ Nothing.len = 0
      /\ DoneResponse \in Answers /\ DoneResponse.code = "s6" /\ DoneResponse.len = 12
      /\ Hello \in Answers /\ Hello.code = "s1" /\ Hello.len = 48 /\ Hello.w8 = 2
  BY DEF Nothing, DoneResponse, Hello
<1>3. /\ \A n \in {0, 1} : Table(n) \in Answers /\ Table(n).code = "1a"
      /\ \A c \in Codes, n \in Nat : Answer(c, n) \in Answers /\ Answer(c, n).code = c /\ Answer(c, n).len = n
  BY DEF Table
<1>4. /\ \A i \in Int, p \in Int : /\ ReadData(i, p) \in Answers
                                   /\ ReadData(i, p).code = "s3" /\ ReadData(i, p).len = 20
                                   /\ ReadData(i, p).w12 = p
      /\ \A i \in Int, p \in Int : /\ EndOfImage(i, p) \in Answers
                                   /\ EndOfImage(i, p).code = "s4" /\ EndOfImage(i, p).len = 16
                                   /\ EndOfImage(i, p).w12 = p
  BY DEF ReadData, EndOfImage
<1>5. QED
  BY <1>1, <1>2, <1>3, <1>4

\* The modem in its boot ROM: a block that is confirmed is in the memory.
LEMMA BootRomIs ==
  ASSUME NEW m \in Modems, NEW r \in Requests, NEW x \in BootRom(m, r)
  PROVE  \E m2 \in Modems, a \in Answers :
            /\ x = <<m2, <<a>>>> /\ a.code \in {"02", "03", "08"}
            /\ m2.flash = m.flash /\ m2.stream = m.stream
            /\ m2.mode = m.mode \/ (r.cmd = "go" /\ m2.mode \in {"loader", "hung"})
            /\ r.cmd # "block" => m2.ram = m.ram
            /\ r.cmd = "block" => /\ \A b \in 0 .. Blocks : b # r.adr => m2.ram[b] = m.ram[b]
                                  /\ a.code = "02" => m2.ram[r.adr] = r.data
<1>1. CASE r.cmd = "block"
  <2>1. r.adr \in 0 .. Blocks - 1 /\ r.data \in Int
    BY <1>1 DEF Requests
  <2>2. BootRom(m, r) = {<<[m EXCEPT !.ram[r.adr] = r.data], <<Ack>>>>, <<m, <<Nak>>>>}
    BY <1>1 DEF BootRom
  <2>3. CASE x = <<m, <<Nak>>>>
    BY <2>3, AnswersAre
  <2>4. CASE x = <<[m EXCEPT !.ram[r.adr] = r.data], <<Ack>>>>
    <3> DEFINE m2 == [m EXCEPT !.ram[r.adr] = r.data]
    <3>1. /\ m2 \in Modems /\ m2.flash = m.flash /\ m2.stream = m.stream /\ m2.mode = m.mode
          /\ m2.ram[r.adr] = r.data
          /\ \A b \in 0 .. Blocks : b # r.adr => m2.ram[b] = m.ram[b]
      <4> DEFINE ram2 == [m.ram EXCEPT ![r.adr] = r.data]
      <4>1. m.ram \in [0 .. Blocks -> Int] /\ r.adr \in 0 .. Blocks
        BY <2>1, Constants DEF Modems
      <4>2. ram2 \in [0 .. Blocks -> Int] /\ ram2[r.adr] = r.data
        BY <2>1, <4>1
      <4>3. \A b \in 0 .. Blocks : b # r.adr => ram2[b] = m.ram[b]
        BY <4>1
      <4>4. m2 = [m EXCEPT !.ram = ram2]
        OBVIOUS
      <4> HIDE DEF ram2, m2
      <4>5. m2 \in Modems /\ m2.ram = ram2 /\ m2.flash = m.flash /\ m2.stream = m.stream /\ m2.mode = m.mode
        BY <4>2, <4>4 DEF Modems
      <4>6. QED
        BY <4>2, <4>3, <4>5
    <3> HIDE DEF m2
    <3>2. QED
      BY <1>1, <2>4, <3>1, AnswersAre DEF m2
  <2>5. QED
    BY <2>2, <2>3, <2>4
<1>2. CASE r.cmd = "go"
  <2> DEFINE m2 == Started(m)
  <2>1. /\ m2 \in Modems /\ m2.flash = m.flash /\ m2.stream = m.stream /\ m2.mode \in {"loader", "hung"}
        /\ m2.ram = m.ram
    BY DEF Modems, Modes, Started
  <2>2. x = <<m2, <<Ack>>>>
    BY <1>2 DEF BootRom
  <2> HIDE DEF m2
  <2>3. QED
    BY <1>2, <2>1, <2>2, AnswersAre
<1>3. CASE r.cmd \notin {"block", "go"}
  <2>1. x \in {<<m, <<Ack>>>>, <<m, <<Version>>>>, <<m, <<Nak>>>>}
    BY <1>3 DEF BootRom
  <2>2. QED
    BY <1>3, <2>1, AnswersAre
<1>4. QED
  BY <1>1, <1>2, <1>3

\* The loader: what it confirms it has done, and it changes nothing else.
LEMMA LoaderIs ==
  ASSUME NEW m \in Modems, NEW r \in Requests, NEW x \in Loader(m, r)
  PROVE  \E m2 \in Modems, a \in Answers :
            /\ x = <<m2, <<a>>>> /\ a.code \notin {"s1", "s3", "s4", "rest"}
            /\ m2.mode = m.mode /\ m2.ram = m.ram /\ m2.stat = m.stat
            /\ a.code = "02" => r.cmd = "hello"
            /\ a.code = "1c" => r.cmd = "head" /\ m2.stream = r.part /\ m2.flash[r.part] = <<>>
            /\ a.code = "16" => r.cmd = "close" /\ m2.stream = NoPart
            /\ a.code = "08" =>
                  /\ r.cmd = "data" /\ m.stream \in Parts /\ r.adr <= Len(m.flash[m.stream])
                  /\ m2.flash[m.stream] = SubSeq(m.flash[m.stream], 1, r.adr) \o r.data
            /\ \A p \in Parts : \/ m2.flash[p] = m.flash[p]
                                \/ r.cmd = "head" /\ p = r.part
                                \/ r.cmd = "data" /\ p = m.stream
            /\ \/ m2.stream = m.stream
               \/ r.cmd = "close" /\ m2.stream = NoPart
               \/ r.cmd = "head" /\ m2.stream = r.part
<1>1. CASE r.cmd = "hello"
  <2>1. x = <<m, <<Ack>>>>
    BY <1>1 DEF Loader
  <2>2. QED
    BY <1>1, <2>1, AnswersAre
<1>2. CASE r.cmd = "secure"
  <2> DEFINE m2 == [m EXCEPT !.secure = TRUE]
  <2>1. x = <<m2, <<Answer("18", 5)>>>> \/ x = <<m, <<Error>>>>
    BY <1>2 DEF Loader
  <2>2. /\ m2 \in Modems /\ m2.mode = m.mode /\ m2.ram = m.ram /\ m2.stat = m.stat
        /\ m2.flash = m.flash /\ m2.stream = m.stream
    BY DEF Modems
  <2>3. Answer("18", 5) \in Answers /\ Answer("18", 5).code = "18"
    BY AnswersAre DEF Codes
  <2> HIDE DEF m2
  <2>4. CASE x = <<m2, <<Answer("18", 5)>>>>
    BY <1>2, <2>2, <2>3, <2>4
  <2>5. CASE x = <<m, <<Error>>>>
    BY <1>2, <2>5, AnswersAre
  <2>6. QED
    BY <2>1, <2>4, <2>5
<1>3. CASE r.cmd = "close"
  <2> DEFINE m2 == [m EXCEPT !.stream = NoPart]
  <2>1. \/ m.stream = NoPart /\ (x = <<m, <<Error>>>> \/ x = <<m, <<Answer("16", 5)>>>>)
        \/ x = <<m2, <<Answer("16", 5)>>>>
    BY <1>3 DEF Loader
  <2>2. /\ m2 \in Modems /\ m2.mode = m.mode /\ m2.ram = m.ram /\ m2.stat = m.stat
        /\ m2.flash = m.flash /\ m2.stream = NoPart
    BY DEF Modems
  <2>3. Answer("16", 5) \in Answers /\ Answer("16", 5).code = "16"
    BY AnswersAre DEF Codes
  <2> HIDE DEF m2
  <2>4. CASE x = <<m2, <<Answer("16", 5)>>>>
    BY <1>3, <2>2, <2>3, <2>4
  <2>5. CASE x = <<m, <<Error>>>>
    BY <1>3, <2>5, AnswersAre
  <2>6. CASE m.stream = NoPart /\ x = <<m, <<Answer("16", 5)>>>>
    BY <1>3, <2>3, <2>6
  <2>7. QED
    BY <2>1, <2>4, <2>5, <2>6
<1>4. CASE r.cmd = "table"
  <2>1. x \in {<<m, <<Table(0)>>>>, <<m, <<Table(1)>>>>, <<m, <<Error>>>>}
    BY <1>4 DEF Loader
  <2>2. QED
    BY <1>4, <2>1, AnswersAre
<1>5. CASE r.cmd = "head" /\ m.secure
  <2> DEFINE m2 == Opened(m, r.part)
  <2>1. x = <<m2, <<Answer("1c", 5)>>>> \/ x = <<m, <<Error>>>>
    BY <1>5 DEF Loader
  <2>2. r.part \in Parts
    BY <1>5 DEF Requests
  <2>3. /\ m2 \in Modems /\ m2.mode = m.mode /\ m2.ram = m.ram /\ m2.stat = m.stat
        /\ m2.stream = r.part /\ m2.flash[r.part] = <<>>
        /\ \A p \in Parts : p # r.part => m2.flash[p] = m.flash[p]
    <3> DEFINE f == [m.flash EXCEPT ![r.part] = <<>>]
    <3>1. /\ f \in [Parts -> Seq(Int)] /\ f[r.part] = <<>>
          /\ \A p \in Parts : p # r.part => f[p] = m.flash[p]
      BY <2>2 DEF Modems
    <3>2. m2 = [m EXCEPT !.stream = r.part, !.flash = f]
      BY DEF Opened
    <3> HIDE DEF f, m2
    <3>3. /\ m2 \in Modems /\ m2.mode = m.mode /\ m2.ram = m.ram /\ m2.stat = m.stat
          /\ m2.stream = r.part /\ m2.flash = f
      BY <2>2, <3>1, <3>2 DEF Modems
    <3>4. QED
      BY <3>1, <3>3
  <2>4. Answer("1c", 5) \in Answers /\ Answer("1c", 5).code = "1c"
    BY AnswersAre DEF Codes
  <2> HIDE DEF m2
  <2>5. CASE x = <<m2, <<Answer("1c", 5)>>>>
    BY <1>5, <2>3, <2>4, <2>5
  <2>6. CASE x = <<m, <<Error>>>>
    BY <1>5, <2>6, AnswersAre
  <2>7. QED
    BY <2>1, <2>5, <2>6
<1>6. CASE r.cmd = "data" /\ m.stream # NoPart /\ r.adr <= Len(m.flash[m.stream])
  <2> DEFINE d == SubSeq(m.flash[m.stream], 1, r.adr) \o r.data
             m2 == [m EXCEPT !.flash[m.stream] = d]
  <2>1. x = <<m2, <<Answer("08", 9)>>>> \/ x = <<m, <<Error>>>>
    BY <1>6 DEF Loader
  <2>2. r.adr \in Nat /\ r.data \in Seq(Int) /\ m.stream \in Parts /\ m.flash[m.stream] \in Seq(Int)
    BY <1>6 DEF Requests, Modems
  <2>3. d \in Seq(Int)
    BY <1>6, <2>2
  <2> HIDE DEF d
  <2>4. /\ m2 \in Modems /\ m2.mode = m.mode /\ m2.ram = m.ram /\ m2.stat = m.stat
        /\ m2.stream = m.stream /\ m2.flash[m.stream] = d
        /\ \A p \in Parts : p # m.stream => m2.flash[p] = m.flash[p]
    <3> DEFINE f == [m.flash EXCEPT ![m.stream] = d]
    <3>1. /\ f \in [Parts -> Seq(Int)] /\ f[m.stream] = d
          /\ \A p \in Parts : p # m.stream => f[p] = m.flash[p]
      BY <2>2, <2>3 DEF Modems
    <3>2. m2 = [m EXCEPT !.flash = f]
      OBVIOUS
    <3> HIDE DEF f, m2
    <3>3. /\ m2 \in Modems /\ m2.mode = m.mode /\ m2.ram = m.ram /\ m2.stat = m.stat
          /\ m2.stream = m.stream /\ m2.flash = f
      BY <2>2, <3>1, <3>2 DEF Modems
    <3>4. QED
      BY <3>1, <3>3
  <2>5. Answer("08", 9) \in Answers /\ Answer("08", 9).code = "08"
    BY AnswersAre DEF Codes
  <2> HIDE DEF m2
  <2>6. CASE x = <<m2, <<Answer("08", 9)>>>>
    BY <1>6, <2>2, <2>4, <2>5, <2>6 DEF d
  <2>7. CASE x = <<m, <<Error>>>>
    BY <1>6, <2>7, AnswersAre
  <2>8. QED
    BY <2>1, <2>6, <2>7
<1>7. CASE \/ r.cmd \notin {"hello", "secure", "close", "table", "head", "data"}
           \/ r.cmd = "head" /\ ~m.secure
           \/ r.cmd = "data" /\ ~(m.stream # NoPart /\ r.adr <= Len(m.flash[m.stream]))
  <2>1. x = <<m, <<Error>>>>
    BY <1>7 DEF Loader
  <2>2. QED
    BY <1>7, <2>1, AnswersAre
<1>8. QED
  BY <1>1, <1>2, <1>3, <1>4, <1>5, <1>6, <1>7

\* Sahara: the four things that can come of a message.
LEMMA NextPieceIs ==
  ASSUME NEW m \in Modems, m.asked = Missing, NEW x \in NextPiece(m)
  PROVE  \E m2 \in Modems, a \in Answers :
            /\ x = <<m2, <<a>>>>
            /\ m2.mode = m.mode /\ m2.ram = m.ram /\ m2.stream = m.stream /\ m2.flash = m.flash
            /\ \/ \E p \in m.want : /\ m2.asked = p /\ m2.want = m.want \ {p} /\ m2.stat = m.stat
                                    /\ a.code = "s3" /\ a.len = 20 /\ a.w12 = p
               \/ /\ \A p \in m.want : p = Blocks
                  /\ m2.asked = Missing /\ m2.want = {}
                  /\ a.code = "s4" /\ a.len = 16 /\ a.w12 = m2.stat
<1>1. CASE \E p \in m.want : x = <<[m EXCEPT !.asked = p, !.want = @ \ {p}], <<ReadData(m.img, p)>>>>
  <2>1. PICK p \in m.want : x = <<[m EXCEPT !.asked = p, !.want = @ \ {p}], <<ReadData(m.img, p)>>>>
    BY <1>1
  <2> DEFINE m2 == [m EXCEPT !.asked = p, !.want = @ \ {p}]
  <2>2. /\ m2 \in Modems /\ m2.mode = m.mode /\ m2.ram = m.ram /\ m2.stream = m.stream /\ m2.flash = m.flash
        /\ m2.asked = p /\ m2.want = m.want \ {p} /\ m2.stat = m.stat
    BY DEF Modems
  <2>3. p \in Int /\ m.img \in Int
    BY DEF Modems
  <2> DEFINE a == ReadData(m.img, p)
  <2>4. a \in Answers /\ a.code = "s3" /\ a.len = 20 /\ a.w12 = p
    BY <2>3, AnswersAre
  <2>5. x = <<m2, <<a>>>>
    BY <2>1
  <2> HIDE DEF m2, a
  <2>6. QED
    BY <2>2, <2>4, <2>5
<1>2. CASE /\ ~(\E p \in m.want : p < Blocks)
           /\ \E s \in {0, 1} : x = <<[m EXCEPT !.want = {}, !.stat = s], <<EndOfImage(m.img, s)>>>>
  <2>1. PICK s \in {0, 1} : x = <<[m EXCEPT !.want = {}, !.stat = s], <<EndOfImage(m.img, s)>>>>
    BY <1>2
  <2> DEFINE m2 == [m EXCEPT !.want = {}, !.stat = s]
  <2>2. /\ m2 \in Modems /\ m2.mode = m.mode /\ m2.ram = m.ram /\ m2.stream = m.stream /\ m2.flash = m.flash
        /\ m2.asked = Missing /\ m2.want = {} /\ m2.stat = s
    BY DEF Modems
  <2>3. s \in Int /\ m.img \in Int
    BY DEF Modems
  <2>4. \A p \in m.want : p = Blocks
    BY <1>2, Constants DEF Modems
  <2> DEFINE a == EndOfImage(m.img, s)
  <2>5. a \in Answers /\ a.code = "s4" /\ a.len = 16 /\ a.w12 = s
    BY <2>3, AnswersAre
  <2>6. x = <<m2, <<a>>>>
    BY <2>1
  <2> HIDE DEF m2, a
  <2>7. QED
    BY <2>2, <2>4, <2>5, <2>6
<1>3. QED
  BY <1>1, <1>2 DEF NextPiece

\* Sahara: what can come of a message.
LEMMA SaharaIs ==
  ASSUME NEW m \in Modems, NEW r \in Requests, NEW x \in Sahara(m, r)
  PROVE  \E m2 \in Modems, a \in Answers :
            /\ x = <<m2, <<a>>>> /\ m2.stream = m.stream /\ m2.flash = m.flash
            /\ a.code \in {"s1", "s3", "s4", "s6"}
            /\ r.cmd # "piece" => m2.ram = m.ram
            /\ \/ /\ r.cmd = "nudge" /\ Fresh(m) /\ m2 = m
                  /\ a.code = "s1" /\ a.len = 48 /\ a.w8 = 2
               \/ /\ r.cmd = "hellorsp" /\ Fresh(m) /\ m2.mode = m.mode /\ m2.stat = m.stat
                  /\ \E p \in m.want : /\ m2.asked = p /\ m2.want = m.want \ {p}
                                       /\ a.code = "s3" /\ a.len = 20 /\ a.w12 = p
               \/ /\ r.cmd = "piece" /\ m.asked # Missing /\ m2.mode = m.mode
                  /\ m2.ram[m.asked] = r.data
                  /\ \A b \in 0 .. Blocks : b # m.asked => m2.ram[b] = m.ram[b]
                  /\ \/ \E p \in m.want : /\ m2.asked = p /\ m2.want = m.want \ {p} /\ m2.stat = m.stat
                                          /\ a.code = "s3" /\ a.len = 20 /\ a.w12 = p
                     \/ /\ \A p \in m.want : p = Blocks
                        /\ m2.asked = Missing /\ m2.want = {}
                        /\ a.code = "s4" /\ a.len = 16 /\ a.w12 = m2.stat
               \/ /\ r.cmd = "done" /\ m.want = {} /\ m.asked = Missing /\ a.code = "s6"
                  /\ m2 = IF m.stat = 0 THEN Started(m) ELSE m
               \/ /\ m2.mode = m.mode /\ m2.stat = 1 /\ m2.asked = Missing /\ m2.want = {}
                  /\ a.code = "s4" /\ a.len = 16 /\ a.w12 = 1
<1>1. CASE r.cmd = "nudge" /\ Fresh(m)
  <2>1. x = <<m, <<Hello>>>>
    BY <1>1 DEF Sahara
  <2>2. QED
    BY <1>1, <2>1, AnswersAre
<1>2. CASE r.cmd = "hellorsp" /\ Fresh(m)
  <2>1. x \in NextPiece(m) /\ m.asked = Missing /\ m.want = 0 .. Blocks
    BY <1>2 DEF Sahara, Fresh
  <2>2. PICK m2 \in Modems, a \in Answers :
            /\ x = <<m2, <<a>>>>
            /\ m2.mode = m.mode /\ m2.ram = m.ram /\ m2.stream = m.stream /\ m2.flash = m.flash
            /\ \/ \E p \in m.want : /\ m2.asked = p /\ m2.want = m.want \ {p} /\ m2.stat = m.stat
                                    /\ a.code = "s3" /\ a.len = 20 /\ a.w12 = p
               \/ /\ \A p \in m.want : p = Blocks
                  /\ m2.asked = Missing /\ m2.want = {}
                  /\ a.code = "s4" /\ a.len = 16 /\ a.w12 = m2.stat
    BY <2>1, NextPieceIs
  <2>3. 0 \in m.want /\ 0 # Blocks
    BY <2>1, Constants
  <2>4. QED
    BY <1>2, <2>2, <2>3
<1>3. CASE r.cmd = "piece" /\ m.asked # Missing
  <2> DEFINE m1 == [m EXCEPT !.ram[m.asked] = r.data, !.asked = Missing]
  <2>1. x \in NextPiece(m1)
    BY <1>3 DEF Sahara
  <2>2. m.asked \in 0 .. Blocks /\ r.data \in Int
    BY <1>3 DEF Modems, Requests
  <2>3. /\ m1 \in Modems /\ m1.asked = Missing /\ m1.want = m.want /\ m1.stat = m.stat /\ m1.mode = m.mode
        /\ m1.stream = m.stream /\ m1.flash = m.flash
        /\ m1.ram[m.asked] = r.data /\ \A b \in 0 .. Blocks : b # m.asked => m1.ram[b] = m.ram[b]
    <3> DEFINE ram1 == [m.ram EXCEPT ![m.asked] = r.data]
    <3>1. /\ ram1 \in [0 .. Blocks -> Int] /\ ram1[m.asked] = r.data
          /\ \A b \in 0 .. Blocks : b # m.asked => ram1[b] = m.ram[b]
      BY <2>2 DEF Modems
    <3>2. m1 = [m EXCEPT !.ram = ram1, !.asked = Missing]
      OBVIOUS
    <3> HIDE DEF ram1, m1
    <3>3. /\ m1 \in Modems /\ m1.asked = Missing /\ m1.want = m.want /\ m1.stat = m.stat /\ m1.mode = m.mode
          /\ m1.stream = m.stream /\ m1.flash = m.flash /\ m1.ram = ram1
      BY <3>1, <3>2 DEF Modems
    <3>4. QED
      BY <3>1, <3>3
  <2> HIDE DEF m1
  <2>4. PICK m2 \in Modems, a \in Answers :
            /\ x = <<m2, <<a>>>>
            /\ m2.mode = m1.mode /\ m2.ram = m1.ram /\ m2.stream = m1.stream /\ m2.flash = m1.flash
            /\ \/ \E p \in m1.want : /\ m2.asked = p /\ m2.want = m1.want \ {p} /\ m2.stat = m1.stat
                                     /\ a.code = "s3" /\ a.len = 20 /\ a.w12 = p
               \/ /\ \A p \in m1.want : p = Blocks
                  /\ m2.asked = Missing /\ m2.want = {}
                  /\ a.code = "s4" /\ a.len = 16 /\ a.w12 = m2.stat
    BY <2>1, <2>3, NextPieceIs
  <2>5. QED
    BY <1>3, <2>3, <2>4
<1>4. CASE r.cmd = "done" /\ m.want = {} /\ m.asked = Missing
  <2> DEFINE m2 == IF m.stat = 0 THEN Started(m) ELSE m
  <2>1. x = <<m2, <<DoneResponse>>>>
    BY <1>4 DEF Sahara
  <2>2. m2 \in Modems /\ m2.ram = m.ram /\ m2.stream = m.stream /\ m2.flash = m.flash
    BY DEF Started, Modems, Modes
  <2>3. QED
    BY <1>4, <2>1, <2>2, AnswersAre
<1>5. CASE ~(\/ r.cmd = "nudge" /\ Fresh(m)
             \/ r.cmd = "hellorsp" /\ Fresh(m)
             \/ r.cmd = "piece" /\ m.asked # Missing
             \/ r.cmd = "done" /\ m.want = {} /\ m.asked = Missing)
  <2> DEFINE m2 == Broken(m)
             a == EndOfImage(m.img, 1)
  <2>1. x = <<m2, <<a>>>>
    BY <1>5 DEF Sahara
  <2>2. /\ m2 \in Modems /\ m2.ram = m.ram /\ m2.stream = m.stream /\ m2.flash = m.flash
        /\ m2.mode = m.mode /\ m2.stat = 1 /\ m2.asked = Missing /\ m2.want = {}
    BY DEF Broken, Modems
  <2>3. a \in Answers /\ a.code = "s4" /\ a.len = 16 /\ a.w12 = 1
    BY AnswersAre DEF Modems
  <2> HIDE DEF m2, a
  <2>4. QED
    BY <2>1, <2>2, <2>3
<1>6. QED
  BY <1>1, <1>2, <1>3, <1>4, <1>5

LEMMA ReactIs ==
  ASSUME NEW m \in Modems, NEW r \in Requests, NEW x \in React(m, r)
  PROVE  /\ \/ m.mode = "pbl" /\ x \in BootRom(m, r)
            \/ m.mode = "sahara" /\ x \in Sahara(m, r)
            \/ m.mode = "loader" /\ x \in Loader(m, r)
            \/ m.mode = "hung" /\ x = <<m, <<>>>>
         /\ \/ \E m2 \in Modems, a \in Answers : x = <<m2, <<a>>>>
            \/ m.mode = "hung" /\ x = <<m, <<>>>>
<1>1. \/ m.mode = "pbl" /\ x \in BootRom(m, r)
      \/ m.mode = "sahara" /\ x \in Sahara(m, r)
      \/ m.mode = "loader" /\ x \in Loader(m, r)
      \/ m.mode = "hung" /\ x = <<m, <<>>>>
  BY DEF React, Modems, Modes
<1>2. CASE x \in BootRom(m, r)
  <2>1. \E m2 \in Modems, a \in Answers : x = <<m2, <<a>>>>
    BY <1>2, BootRomIs
  <2>2. QED
    BY <1>1, <2>1
<1>3. CASE x \in Sahara(m, r)
  <2>1. \E m2 \in Modems, a \in Answers : x = <<m2, <<a>>>>
    BY <1>3, SaharaIs
  <2>2. QED
    BY <1>1, <2>1
<1>4. CASE x \in Loader(m, r)
  <2>1. \E m2 \in Modems, a \in Answers : x = <<m2, <<a>>>>
    BY <1>4, LoaderIs
  <2>2. QED
    BY <1>1, <2>1
<1>5. QED
  BY <1>1, <1>2, <1>3, <1>4

-----------------------------------------------------------------------------
(* The line.                                                                *)

\* A command has been written: n answers have been dropped, and the modem has
\* received nothing, or become m and answered a, which may have been lost.
Sent(n, r) ==
    /\ n \in 0 .. Len(air) /\ air' \in Seq(Answers) /\ modem' \in Modems /\ faults' \in 0 .. MaxFaults
    /\ Len(air') \in {Len(air) - n, Len(air) - n + 1}
    /\ \A i \in 1 .. Len(air) - n : air'[i] = air[n + i]
    /\ \/ modem' = modem /\ Len(air') = Len(air) - n
       \/ \E a \in Answers : /\ <<modem', <<a>>>> \in React(modem, r)
                             /\ Len(air') = Len(air) - n + 1 => air'[Len(air) - n + 1] = a

LEMMA Appended ==
  ASSUME NEW s \in Seq(Answers), NEW a \in Answers
  PROVE  /\ s \o <<a>> \in Seq(Answers) /\ Len(s \o <<a>>) = Len(s) + 1
         /\ \A i \in 1 .. Len(s) : (s \o <<a>>)[i] = s[i]
         /\ (s \o <<a>>)[Len(s) + 1] = a
  OBVIOUS

LEMMA Dropped ==
  ASSUME NEW s \in Seq(Answers), NEW n \in 0 .. Len(s)
  PROVE  /\ SubSeq(s, n + 1, Len(s)) \in Seq(Answers) /\ Len(SubSeq(s, n + 1, Len(s))) = Len(s) - n
         /\ \A i \in 1 .. Len(s) - n : SubSeq(s, n + 1, Len(s))[i] = s[n + i]
  OBVIOUS

LEMMA ExchangeIs ==
  ASSUME Types, NEW r \in Requests, NEW n \in 0 .. Len(air), NEW kept \in Seq(Answers),
         Len(kept) = Len(air) - n, \A i \in 1 .. Len(air) - n : kept[i] = air[n + i],
         Exchange(kept, r)
  PROVE  Sent(n, r)
<1>1. /\ modem \in Modems /\ air \in Seq(Answers) /\ Len(air) \in Nat /\ faults \in 0 .. MaxFaults
      /\ MaxFaults \in Nat
  BY Constants DEF Types
<1>2. CASE Fault /\ air' = kept /\ modem' = modem
  BY <1>1, <1>2 DEF Fault, Sent
<1>3. CASE \E x \in React(modem, r) :
             /\ modem' = x[1]
             /\ \/ air' = kept \o x[2] /\ UNCHANGED faults
                \/ Fault /\ x[2] # <<>> /\ air' = kept
  <2>1. PICK x \in React(modem, r) :
             /\ modem' = x[1]
             /\ \/ air' = kept \o x[2] /\ faults' = faults
                \/ Fault /\ air' = kept
    BY <1>3
  <2>2. faults' \in 0 .. MaxFaults
    BY <1>1, <2>1 DEF Fault
  <2>3. CASE x = <<modem, <<>>>>
    <3>1. x[1] = modem /\ x[2] = <<>>
      BY <2>3
    <3>2. kept \o <<>> = kept
      OBVIOUS
    <3>3. air' = kept /\ modem' = modem
      BY <2>1, <3>1, <3>2
    <3>4. QED
      BY <1>1, <2>2, <3>3 DEF Sent
  <2>4. CASE \E m2 \in Modems, a \in Answers : x = <<m2, <<a>>>>
    <3>1. PICK m2 \in Modems, a \in Answers : x = <<m2, <<a>>>>
      BY <2>4
    <3>2. x[1] = m2 /\ x[2] = <<a>> /\ modem' = m2
      BY <2>1, <3>1
    <3>3. /\ kept \o <<a>> \in Seq(Answers) /\ Len(kept \o <<a>>) = Len(kept) + 1
          /\ \A i \in 1 .. Len(kept) : (kept \o <<a>>)[i] = kept[i]
          /\ (kept \o <<a>>)[Len(kept) + 1] = a
      BY Appended
    <3>4. <<modem', <<a>>>> \in React(modem, r)
      BY <3>1, <3>2
    <3>5. CASE air' = kept
      BY <1>1, <2>2, <3>2, <3>4, <3>5 DEF Sent
    <3>6. CASE air' = kept \o <<a>>
      <4>1. air' \in Seq(Answers) /\ Len(air') = Len(air) - n + 1
        BY <3>3, <3>6
      <4>2. \A i \in 1 .. Len(air) - n : air'[i] = air[n + i]
        BY <3>3, <3>6
      <4>3. air'[Len(air) - n + 1] = a
        BY <3>3, <3>6
      <4>4. QED
        BY <1>1, <2>2, <3>2, <3>4, <4>1, <4>2, <4>3 DEF Sent
    <3>7. QED
      BY <2>1, <3>2, <3>5, <3>6
  <2>5. QED
    BY <1>1, <2>3, <2>4, ReactIs
<1>4. QED
  BY <1>2, <1>3 DEF Exchange

LEMMA AskIs ==
  ASSUME Types, NEW r \in Requests, Ask(r)
  PROVE  \E n \in 0 .. Len(air) : Sent(n, r) /\ late' = (late \/ n < Len(air))
<1>1. PICK n \in 0 .. Len(air) : /\ Exchange(SubSeq(air, n + 1, Len(air)), r)
                                 /\ late' = (late \/ n < Len(air))
  BY DEF Ask
<1> DEFINE kept == SubSeq(air, n + 1, Len(air))
<1>2. /\ kept \in Seq(Answers) /\ Len(kept) = Len(air) - n
      /\ \A i \in 1 .. Len(air) - n : kept[i] = air[n + i]
  BY Dropped DEF Types
<1>3. Exchange(kept, r)
  BY <1>1
<1> HIDE DEF kept
<1>4. QED
  BY <1>1, <1>2, <1>3, ExchangeIs

LEMMA PutIs ==
  ASSUME Types, NEW r \in Requests, Put(r)
  PROVE  Sent(0, r)
<1>1. air \in Seq(Answers) /\ Len(air) \in Nat /\ 0 \in 0 .. Len(air) /\ Len(air) = Len(air) - 0
  BY DEF Types
<1>2. \A i \in 1 .. Len(air) - 0 : air[i] = air[0 + i]
  BY <1>1
<1>3. QED
  BY <1>1, <1>2, ExchangeIs DEF Put

\* A command with its flush.
LEMMA SendIs ==
  ASSUME Types, NEW at, NEW r \in Requests, NEW bufs \in SUBSET Answers, Send(at, r, bufs)
  PROVE  /\ pc = at /\ ~waiting /\ waiting' = TRUE /\ pc' = pc /\ iolen' = iolen /\ blind' = blind
         /\ iobuf' \in bufs /\ iobuf' \in Answers
         /\ \E n \in 0 .. Len(air) : Sent(n, r) /\ late' = (late \/ n < Len(air))
         /\ modem' \in Modems /\ air' \in Seq(Answers) /\ faults' \in 0 .. MaxFaults
         /\ late' \in BOOLEAN /\ blind' \in BOOLEAN
<1>1. PICK n \in 0 .. Len(air) : Sent(n, r) /\ late' = (late \/ n < Len(air))
  BY AskIs DEF Send
<1>2. modem' \in Modems /\ air' \in Seq(Answers) /\ faults' \in 0 .. MaxFaults
  BY <1>1 DEF Sent
<1>3. late' \in BOOLEAN /\ blind' \in BOOLEAN
  BY <1>1, Zenon DEF Types, Send
<1>4. QED
  BY <1>1, <1>2, <1>3 DEF Send

\* What can become of the answers on the line when a program reads.
Shifted ==
    /\ Len(air) >= 1 /\ Len(air') = Len(air) - 1
    /\ \A i \in 1 .. Len(air') : air'[i] = air[i + 1]
Parted ==
    /\ Len(air) >= 1 /\ Len(air') = Len(air)
    /\ air'[1].code = "rest" /\ air'[1].w8 = 0
    /\ \A i \in 2 .. Len(air') : air'[i] = air[i]

LEMMA TakeIs ==
  ASSUME Types, air # <<>>, air' = Tail(air)
  PROVE  /\ Shifted /\ air' \in Seq(Answers)
         /\ Head(air) = air[1] /\ air[1] \in Answers
BY DEF Types, Shifted

LEMMA RunOutIs ==
  ASSUME Types, RunOut
  PROVE  /\ iolen' = 0 /\ air' = air /\ iobuf' = iobuf /\ faults' \in 0 .. MaxFaults
         /\ late' = late \/ late' = TRUE
         /\ air # <<>> => late' = TRUE
  BY Constants DEF Types, RunOut, Fault

LEMMA AwaitIs ==
  ASSUME Types, NEW at, Await(at)
  PROVE  /\ pc = at /\ waiting /\ waiting' = FALSE /\ modem' = modem
         /\ \/ Shifted /\ iobuf' = air[1] /\ iolen' = air[1].len /\ late' = late
            \/ /\ air' = air /\ iobuf' = iobuf /\ iolen' = 0
               /\ late' = late \/ late' = TRUE
               /\ air # <<>> => late' = TRUE
         /\ modem' \in Modems /\ air' \in Seq(Answers) /\ iobuf' \in Answers /\ iolen' \in Nat
         /\ faults' \in 0 .. MaxFaults /\ late' \in BOOLEAN
<1>1. CASE Take
  <2>1. /\ air # <<>> /\ iobuf' = Head(air) /\ iolen' = Head(air).len /\ air' = Tail(air)
        /\ faults' = faults /\ late' = late
    BY <1>1 DEF Take
  <2>2. Shifted /\ air' \in Seq(Answers) /\ iobuf' = air[1] /\ iolen' = air[1].len /\ air[1] \in Answers
    BY <2>1, TakeIs
  <2>3. iolen' \in Nat
    BY <2>2 DEF Answers
  <2>4. QED
    BY <2>1, <2>2, <2>3 DEF Await, Types
<1>2. CASE RunOut
  <2>1. /\ iolen' = 0 /\ air' = air /\ iobuf' = iobuf /\ faults' \in 0 .. MaxFaults
        /\ late' = late \/ late' = TRUE
        /\ air # <<>> => late' = TRUE
    BY <1>2, RunOutIs
  <2>2. late' \in BOOLEAN
    BY <2>1, Zenon DEF Types
  <2>3. pc = at /\ waiting /\ waiting' = FALSE /\ modem' = modem
    BY DEF Await
  <2>4. modem' \in Modems /\ air' \in Seq(Answers) /\ iobuf' \in Answers /\ iolen' \in Nat
    BY <2>1, <2>3 DEF Types
  <2>5. QED
    BY <2>1, <2>2, <2>3, <2>4
<1>3. QED
  BY <1>1, <1>2 DEF Await

LEMMA PartIs ==
  ASSUME Types, NEW n \in Nat, TakePart(n)
  PROVE  /\ Parted /\ air' \in Seq(Answers) /\ iobuf' \in Answers /\ iolen' = n /\ late' = late
         /\ air[1].len > n
         /\ iobuf'.code = air[1].code /\ iobuf'.w8 = air[1].w8 /\ iobuf'.w12 = iobuf.w12
<1>1. /\ air # <<>> /\ n < Head(air).len /\ iobuf' = [Head(air) EXCEPT !.w12 = iobuf.w12]
      /\ iolen' = n /\ late' = late
      /\ air' = <<[code |-> "rest", len |-> Head(air).len - n, w8 |-> 0, w12 |-> 0]>> \o Tail(air)
  BY DEF TakePart
<1>2. /\ Head(air) = air[1] /\ air[1] \in Answers /\ Len(air) \in Nat /\ Len(air) >= 1
      /\ Tail(air) \in Seq(Answers) /\ Len(Tail(air)) = Len(air) - 1
      /\ \A i \in 1 .. Len(Tail(air)) : Tail(air)[i] = air[i + 1]
  BY <1>1 DEF Types
<1> DEFINE rest == [code |-> "rest", len |-> Head(air).len - n, w8 |-> 0, w12 |-> 0]
<1>3. rest \in Answers /\ rest.code = "rest" /\ rest.w8 = 0
  BY <1>1, <1>2 DEF Answers, Codes
<1>4. iobuf' \in Answers /\ iobuf'.code = air[1].code /\ iobuf'.w8 = air[1].w8 /\ iobuf'.w12 = iobuf.w12
  <2>1. iobuf.w12 \in Int
    BY DEF Types, Answers
  <2>2. QED
    BY <1>1, <1>2, <2>1 DEF Answers
<1> DEFINE t == Tail(air)
<1>5. air' = <<rest>> \o t
  BY <1>1
<1> HIDE DEF rest, t
<1>6. /\ <<rest>> \o t \in Seq(Answers) /\ Len(<<rest>> \o t) = Len(t) + 1 /\ (<<rest>> \o t)[1] = rest
      /\ \A i \in 2 .. Len(t) + 1 : (<<rest>> \o t)[i] = t[i - 1]
  BY <1>2, <1>3 DEF t
<1>7. \A i \in 2 .. Len(air') : air'[i] = air[i]
  BY <1>2, <1>5, <1>6 DEF t
<1>8. Parted /\ air' \in Seq(Answers)
  BY <1>2, <1>3, <1>5, <1>6, <1>7 DEF Parted, t
<1>9. QED
  BY <1>1, <1>2, <1>4, <1>8

\* A read of Sahara.
LEMMA RawReadIs ==
  ASSUME Types, NEW at, NEW n \in Nat, RawRead(at, n)
  PROVE  /\ pc = at /\ waiting /\ waiting' = FALSE /\ modem' = modem /\ opts' = opts
         /\ \/ /\ Shifted /\ air[1].len <= n /\ iolen' = air[1].len
               /\ late' = late /\ blind' = blind
               /\ IF air[1].code = "rest"
                  THEN iobuf'.code = "rest" /\ iobuf'.w8 = iobuf.w8 /\ iobuf'.w12 = iobuf.w12
                  ELSE /\ iobuf'.code = air[1].code /\ iobuf'.w8 = air[1].w8
                       /\ iobuf'.w12 = IF air[1].len > 12 THEN air[1].w12 ELSE iobuf.w12
            \/ /\ Parted /\ late' = late
               /\ \/ iolen' = n /\ air[1].len > n /\ blind' = blind
                  \/ /\ n > 12 /\ iolen' = 12 /\ air[1].len > 12
                     /\ blind' = (blind \/ air[1].code = "s4")
               /\ iobuf'.code = air[1].code /\ iobuf'.w8 = air[1].w8 /\ iobuf'.w12 = iobuf.w12
            \/ /\ air' = air /\ iobuf' = iobuf /\ iolen' = 0 /\ blind' = blind
               /\ late' = late \/ late' = TRUE
         /\ modem' \in Modems /\ air' \in Seq(Answers) /\ iobuf' \in Answers /\ iolen' \in Nat
         /\ faults' \in 0 .. MaxFaults /\ late' \in BOOLEAN /\ blind' \in BOOLEAN
<1>1. pc = at /\ waiting /\ waiting' = FALSE /\ modem' = modem /\ opts' = opts
  BY DEF RawRead
<1>2. modem' \in Modems /\ faults \in 0 .. MaxFaults /\ iobuf \in Answers
      /\ air \in Seq(Answers) /\ MaxFaults \in Nat
  BY <1>1, Constants DEF Types
<1>3. late \in BOOLEAN /\ blind \in BOOLEAN
  BY Zenon DEF Types
<1>4. CASE /\ air # <<>> /\ Head(air).len <= n
           /\ IF Head(air).code = "rest" THEN iobuf' = [iobuf EXCEPT !.code = "rest"]
              ELSE iobuf' = [Head(air) EXCEPT !.w12 = IF Head(air).len > 12 THEN @ ELSE iobuf.w12]
           /\ iolen' = Head(air).len /\ air' = Tail(air)
           /\ faults' = faults /\ late' = late /\ blind' = blind
  <2>1. Shifted /\ air' \in Seq(Answers) /\ Head(air) = air[1] /\ air[1] \in Answers
    BY <1>4, TakeIs
  <2>2. iolen' = air[1].len /\ iolen' \in Nat /\ air[1].len <= n
    BY <1>4, <2>1 DEF Answers
  <2>3. CASE air[1].code = "rest"
    <3>1. iobuf' = [iobuf EXCEPT !.code = "rest"]
      BY <1>4, <2>1, <2>3
    <3>2. iobuf' \in Answers /\ iobuf'.code = "rest" /\ iobuf'.w8 = iobuf.w8 /\ iobuf'.w12 = iobuf.w12
      BY <1>2, <3>1 DEF Answers, Codes
    <3>3. late' \in BOOLEAN /\ blind' \in BOOLEAN
      BY <1>3, <1>4, Zenon
    <3>4. QED
      BY <1>1, <1>2, <1>4, <2>1, <2>2, <2>3, <3>2, <3>3
  <2>4. CASE air[1].code # "rest"
    <3> DEFINE v == IF air[1].len > 12 THEN air[1].w12 ELSE iobuf.w12
    <3>1. iobuf' = [air[1] EXCEPT !.w12 = v]
      BY <1>4, <2>1, <2>4
    <3>2. v \in Int
      BY <1>2, <2>1 DEF Answers
    <3> HIDE DEF v
    <3>3. iobuf' \in Answers /\ iobuf'.code = air[1].code /\ iobuf'.w8 = air[1].w8 /\ iobuf'.w12 = v
      BY <2>1, <3>1, <3>2 DEF Answers
    <3>4. late' \in BOOLEAN /\ blind' \in BOOLEAN
      BY <1>3, <1>4, Zenon
    <3>5. QED
      BY <1>1, <1>2, <1>4, <2>1, <2>2, <2>4, <3>3, <3>4 DEF v
  <2>5. QED
    BY <2>3, <2>4
<1>5. CASE TakePart(n) /\ faults' = faults /\ blind' = blind
  <2>1. /\ Parted /\ air' \in Seq(Answers) /\ iobuf' \in Answers /\ iolen' = n /\ late' = late
        /\ air[1].len > n
        /\ iobuf'.code = air[1].code /\ iobuf'.w8 = air[1].w8 /\ iobuf'.w12 = iobuf.w12
    BY <1>5, PartIs
  <2>2. late' \in BOOLEAN /\ blind' \in BOOLEAN
    BY <1>3, <1>5, <2>1, Zenon
  <2>3. QED
    BY <1>1, <1>2, <1>5, <2>1, <2>2
<1>6. CASE n > 12 /\ TakePart(12) /\ Fault /\ blind' = (blind \/ iobuf'.code = "s4")
  <2>1. 12 \in Nat
    OBVIOUS
  <2>2. /\ Parted /\ air' \in Seq(Answers) /\ iobuf' \in Answers /\ iolen' = 12 /\ late' = late
        /\ air[1].len > 12
        /\ iobuf'.code = air[1].code /\ iobuf'.w8 = air[1].w8 /\ iobuf'.w12 = iobuf.w12
    BY <1>6, <2>1, PartIs
  <2>3. late' \in BOOLEAN /\ blind' \in BOOLEAN
    BY <1>3, <1>6, <2>2, Zenon
  <2>4. faults' \in 0 .. MaxFaults
    BY <1>2, <1>6 DEF Fault
  <2>5. blind' = (blind \/ air[1].code = "s4")
    BY <1>6, <2>2
  <2>6. QED
    BY <1>1, <1>2, <1>6, <2>2, <2>3, <2>4, <2>5
<1>7. CASE RunOut /\ blind' = blind
  <2>1. /\ iolen' = 0 /\ air' = air /\ iobuf' = iobuf /\ faults' \in 0 .. MaxFaults
        /\ late' = late \/ late' = TRUE
    BY <1>7, RunOutIs
  <2>2. late' \in BOOLEAN /\ blind' \in BOOLEAN
    BY <1>3, <1>7, <2>1, Zenon
  <2>3. QED
    BY <1>1, <1>2, <1>7, <2>1, <2>2
<1>8. QED
  BY <1>4, <1>5, <1>6, <1>7 DEF RawRead

-----------------------------------------------------------------------------
(* Types.                                                                   *)

Labels == PblLabels \cup SaharaLabels \cup HelloLabels \cup WriteLabels \cup {"end"}

LEMMA SendTypes ==
  ASSUME Types, AtPlace, NEW at, NEW r \in Requests, NEW bufs \in SUBSET Answers, Send(at, r, bufs),
         opts' = opts, blk' = blk, claimed' = claimed, k' = k, adr' = adr, runs' = runs,
         reported' \in [Parts -> Seq(Int)]
  PROVE  Types' /\ AtPlace'
<1>1. /\ ~waiting /\ waiting' = TRUE /\ pc' = pc /\ iolen' = iolen /\ iobuf' \in Answers
      /\ modem' \in Modems /\ air' \in Seq(Answers) /\ faults' \in 0 .. MaxFaults
      /\ late' \in BOOLEAN /\ blind' \in BOOLEAN
  BY SendIs
<1>2. claimed' \in BOOLEAN /\ waiting' \in BOOLEAN
  BY <1>1, Zenon DEF Types
<1>3. Types'
  BY <1>1, <1>2 DEF Types
<1>4. AtPlace'
  BY <1>1 DEF AtPlace
<1>5. QED
  BY <1>3, <1>4

LEMMA AwaitTypes ==
  ASSUME Types, NEW at, Await(at), opts' = opts, runs' = runs, blind' \in BOOLEAN, claimed' \in BOOLEAN,
         blk' \in 0 .. Blocks, adr' \in Nat, k' \in Nat \ {0}, reported' \in [Parts -> Seq(Int)],
         pc' \in Labels
  PROVE  Types'
<1>1. /\ waiting' = FALSE /\ iolen' \in Nat /\ iobuf' \in Answers
      /\ modem' \in Modems /\ air' \in Seq(Answers) /\ faults' \in 0 .. MaxFaults /\ late' \in BOOLEAN
  BY AwaitIs
<1>2. waiting' \in BOOLEAN
  BY <1>1
<1>3. QED
  BY <1>1, <1>2 DEF Types, Labels

LEMMA RawTypes ==
  ASSUME Types, AtPlace, NEW at \in SaharaLabels, NEW n \in Nat, RawRead(at, n), runs' = runs,
         claimed' \in BOOLEAN, blk' \in 0 .. Blocks, adr' = adr, k' = k, reported' = reported,
         pc' \in SaharaLabels \cup {"end"} \cup (IF opts.hello THEN {"hello1"} ELSE {})
  PROVE  Types' /\ AtPlace'
<1>1. /\ pc = at /\ waiting' = FALSE /\ opts' = opts /\ iolen' \in Nat /\ iobuf' \in Answers
      /\ modem' \in Modems /\ air' \in Seq(Answers) /\ faults' \in 0 .. MaxFaults /\ late' \in BOOLEAN
      /\ blind' \in BOOLEAN
  BY RawReadIs
<1>2. waiting' \in BOOLEAN
  BY <1>1
<1>3. Types'
  BY <1>1, <1>2 DEF Types, SaharaLabels, HelloLabels
<1>4. AtPlace'
  BY <1>1 DEF AtPlace, PblLabels, SaharaLabels, WriteLabels
<1>5. QED
  BY <1>3, <1>4

\* Every command the programs send is one of the requests.
LEMMA RequestsAre ==
  ASSUME Types, AtPlace
  PROVE  /\ \A c \in {"nop", "version", "go", "hello", "nudge", "hellorsp", "done", "secure", "close"} :
              [cmd |-> c] \in Requests
         /\ pc = "block" => /\ [cmd |-> "block", adr |-> blk, data |-> Image[blk]] \in Requests
                            /\ Image[blk] = blk
         /\ \A p \in 0 .. Blocks : Piece(p) \in Int /\ (p < Blocks => Piece(p) = p)
         /\ [cmd |-> "piece", data |-> Piece(iobuf.w12)] \in Requests
         /\ [cmd |-> "table", full |-> opts.table = "full"] \in Requests
         /\ opts.prog = "qwflash" =>
              /\ Write \in [part : Parts, data : Seq(Int)]
              /\ [cmd |-> "head", part |-> Write.part] \in Requests
              /\ Packet \in Seq(Int)
              /\ [cmd |-> "data", adr |-> adr, data |-> Packet] \in Requests
<1>1. \A c \in {"nop", "version", "go", "hello", "nudge", "hellorsp", "done", "secure", "close"} :
              [cmd |-> c] \in Requests
  BY DEF Requests
<1>2. pc = "block" => /\ [cmd |-> "block", adr |-> blk, data |-> Image[blk]] \in Requests
                      /\ Image[blk] = blk
  <2>1. SUFFICES ASSUME pc = "block" PROVE /\ [cmd |-> "block", adr |-> blk, data |-> Image[blk]] \in Requests
                                           /\ Image[blk] = blk
    OBVIOUS
  <2>2. blk \in 0 .. Blocks - 1
    BY <2>1, Constants DEF Types, AtPlace
  <2>3. Image[blk] = blk /\ blk \in Int
    BY <2>2 DEF Image
  <2>4. QED
    BY <2>2, <2>3 DEF Requests
<1>3. \A p \in Int : Piece(p) \in Int
  BY DEF Piece, Image, Stale
<1>4. \A p \in 0 .. Blocks : Piece(p) \in Int /\ (p < Blocks => Piece(p) = p)
  BY Constants DEF Piece, Image, Stale
<1>5. [cmd |-> "piece", data |-> Piece(iobuf.w12)] \in Requests
  <2>1. iobuf.w12 \in Int
    BY DEF Types, Answers
  <2>2. Piece(iobuf.w12) \in Int
    BY <1>3, <2>1
  <2>3. QED
    BY <2>2 DEF Requests
<1>6. [cmd |-> "table", full |-> opts.table = "full"] \in Requests
  BY DEF Requests
<1>7. ASSUME opts.prog = "qwflash"
      PROVE  /\ Write \in [part : Parts, data : Seq(Int)]
             /\ [cmd |-> "head", part |-> Write.part] \in Requests
             /\ Packet \in Seq(Int)
             /\ [cmd |-> "data", adr |-> adr, data |-> Packet] \in Requests
  <2>1. opts.writes \in Seq([part : Parts, data : Seq(Int)]) /\ k \in 1 .. Len(opts.writes)
    BY <1>7, Constants DEF Types, AtPlace
  <2>2. Write \in [part : Parts, data : Seq(Int)]
    <3> DEFINE S == [part : Parts, data : Seq(Int)]
               w == opts.writes
    <3>1. w \in Seq(S) /\ k \in 1 .. Len(w)
      BY <2>1
    <3> HIDE DEF S, w
    <3>2. w[k] \in S
      BY <3>1
    <3>3. QED
      BY <3>2 DEF S, w, Write
  <2>3. Write.part \in Parts /\ Write.data \in Seq(Int) /\ adr \in Nat
    BY <2>2 DEF Types
  <2>4. Packet \in Seq(Int)
    <3> DEFINE d == Write.data
               e == IF adr + wbsize < Len(d) THEN adr + wbsize ELSE Len(d)
    <3>1. d \in Seq(Int) /\ Len(d) \in Nat /\ wbsize \in Nat
      BY <2>3, Constants
    <3>2. e \in Int /\ e <= Len(d)
      BY <2>3, <3>1
    <3>3. Packet = SubSeq(d, adr + 1, e)
      BY DEF Packet
    <3> HIDE DEF d, e
    <3>4. QED
      BY <2>3, <3>1, <3>2, <3>3
  <2>5. [cmd |-> "head", part |-> Write.part] \in Requests
    BY <2>3 DEF Requests
  <2>6. [cmd |-> "data", adr |-> adr, data |-> Packet] \in Requests
    BY <2>3, <2>4 DEF Requests
  <2>7. QED
    BY <2>2, <2>4, <2>5, <2>6
<1>8. QED
  BY <1>1, <1>2, <1>4, <1>5, <1>6, <1>7

LEMMA NextTypes ==
  ASSUME Types, AtPlace, [Next]_vars
  PROVE  Types' /\ AtPlace'
<1> USE DEF PblLabels, SaharaLabels, HelloLabels, WriteLabels
<1>1. /\ opts \in OptionSets /\ blk \in 0 .. Blocks /\ Blocks \in Nat \ {0} /\ adr \in Nat
      /\ k \in Nat \ {0} /\ reported \in [Parts -> Seq(Int)] /\ runs \in 0 .. MaxRuns
      /\ opts.prog \in {"qdload", "sahara", "qwflash"} /\ wbsize \in Nat \ {0} /\ MaxRuns \in Nat
  BY Constants DEF Types
<1>2. /\ blind \in BOOLEAN /\ claimed \in BOOLEAN
      /\ {iobuf} \in SUBSET Answers
  BY DEF Types
<1>3. /\ \A c \in Codes : Uninit(c) \in SUBSET Answers
      /\ Unset \in SUBSET Answers /\ {Nothing} \in SUBSET Answers
  BY AnswersAre DEF Uninit, Unset
<1>4. ASSUME NEW ok \in BOOLEAN, Unanswered(ok)
      PROVE  blind' \in BOOLEAN
  BY <1>2, <1>4, Zenon DEF Unanswered
\* The download protocol.
<1>10. CASE (SendNop \/ SendVersion \/ SendGo \/ SendHello \/ SendReply \/ SendPart)
            /\ UNCHANGED <<k, adr, reported, runs>>
  <2>1. CASE SendNop
    BY <1>1, <1>2, <1>10, <2>1, RequestsAre, SendTypes DEF SendNop, Keep
  <2>2. CASE SendVersion
    BY <1>1, <1>2, <1>10, <2>2, RequestsAre, SendTypes DEF SendVersion, Keep
  <2>3. CASE SendGo
    BY <1>1, <1>2, <1>10, <2>3, RequestsAre, SendTypes DEF SendGo, Keep
  <2>4. CASE SendHello
    BY <1>1, <1>2, <1>3, <1>10, <2>4, RequestsAre, SendTypes DEF SendHello, Keep
  <2>5. CASE SendReply
    BY <1>1, <1>2, <1>10, <2>5, RequestsAre, SendTypes DEF SendReply, Keep
  <2>6. CASE SendPart
    <3>1. Send("block", [cmd |-> "block", adr |-> blk, data |-> Image[blk]], {iobuf})
      BY <2>6 DEF SendPart, SendBlock, Keep
    <3>2. pc = "block"
      BY <3>1 DEF Send
    <3>3. [cmd |-> "block", adr |-> blk, data |-> Image[blk]] \in Requests
      BY <3>2, RequestsAre
    <3>4. QED
      BY <1>1, <1>2, <1>10, <2>6, <3>1, <3>3, SendTypes DEF SendPart
  <2>7. QED
    BY <1>10, <2>1, <2>2, <2>3, <2>4, <2>5, <2>6
<1>11. CASE NopAnswer /\ UNCHANGED <<k, adr, reported, runs>>
  <2>1. Await("nop") /\ pc = "nop"
    BY <1>11 DEF NopAnswer, Await
  <2>2. Types'
    BY <1>1, <1>2, <1>11, <2>1, AwaitTypes DEF NopAnswer, Labels
  <2>3. AtPlace'
    BY <1>11, <2>1 DEF NopAnswer, AtPlace
  <2>4. QED
    BY <2>2, <2>3
<1>12. CASE VersionAnswer /\ UNCHANGED <<k, adr, reported, runs>>
  <2>1. Await("version") /\ pc = "version"
    BY <1>12 DEF VersionAnswer, Await
  <2>2. Types'
    BY <1>1, <1>2, <1>12, <2>1, AwaitTypes DEF VersionAnswer, Labels
  <2>3. AtPlace'
    BY <1>1, <1>12, <2>1 DEF VersionAnswer, AtPlace
  <2>4. QED
    BY <2>2, <2>3
<1>13. CASE BlockAnswer /\ UNCHANGED <<k, adr, reported, runs>>
  <2>1. Await("block") /\ pc = "block"
    BY <1>13 DEF BlockAnswer, Await
  <2>2. blk < Blocks
    BY <2>1 DEF AtPlace
  <2>3. blk' \in 0 .. Blocks /\ pc' \in Labels
    BY <1>1, <1>13, <2>2 DEF BlockAnswer, Labels
  <2>4. claimed' \in BOOLEAN
    BY <1>13 DEF BlockAnswer
  <2>5. blind' \in BOOLEAN
    BY <1>2, <1>13, Zenon DEF BlockAnswer
  <2>6. Types'
    BY <1>1, <1>13, <2>1, <2>3, <2>4, <2>5, AwaitTypes DEF BlockAnswer
  <2>7. AtPlace'
    BY <1>1, <1>13, <2>1, <2>2 DEF BlockAnswer, AtPlace
  <2>8. QED
    BY <2>6, <2>7
<1>14. CASE GoAnswer /\ UNCHANGED <<k, adr, reported, runs>>
  <2>1. Await("go") /\ pc = "go"
    BY <1>14 DEF GoAnswer, Await
  <2>2. Types'
    BY <1>1, <1>2, <1>14, <2>1, AwaitTypes DEF GoAnswer, AfterStart, Labels
  <2>3. AtPlace'
    BY <1>14, <2>1 DEF GoAnswer, AtPlace, AfterStart
  <2>4. QED
    BY <2>2, <2>3
<1>15. CASE HelloAnswer /\ UNCHANGED <<k, adr, reported, runs>>
  <2>1. PICK at \in HelloLabels : Await(at) /\ pc = at
    BY <1>15 DEF HelloAnswer, Await
  <2>2. Types'
    BY <1>1, <1>2, <1>15, <2>1, AwaitTypes DEF HelloAnswer, AfterHello, Labels
  <2>3. AtPlace'
    BY <1>15, <2>1 DEF HelloAnswer, AtPlace, AfterHello
  <2>4. QED
    BY <2>2, <2>3
\* Sahara.
<1>20. CASE FirstHello /\ UNCHANGED <<k, adr, reported, runs>>
  BY <1>1, <1>2, <1>20, RawTypes DEF FirstHello
<1>21. CASE SecondHello /\ UNCHANGED <<k, adr, reported, runs>>
  BY <1>1, <1>2, <1>21, RawTypes DEF SecondHello
<1>22. CASE FirstRequest /\ UNCHANGED <<k, adr, reported, runs>>
  BY <1>1, <1>2, <1>22, RawTypes DEF FirstRequest
<1>23. CASE NextRequest /\ UNCHANGED <<k, adr, reported, runs>>
  BY <1>1, <1>2, <1>23, RawTypes DEF NextRequest
<1>24. CASE DoneAnswer /\ UNCHANGED <<k, adr, reported, runs>>
  <2>1. claimed' \in BOOLEAN /\ pc' \in {"end"} \cup (IF opts.hello THEN {"hello1"} ELSE {})
    BY <1>24 DEF DoneAnswer, AfterStart
  <2>2. RawRead("done", 12) /\ blk' = blk
    BY <1>24 DEF DoneAnswer
  <2>3. pc' \in SaharaLabels \cup {"end"} \cup (IF opts.hello THEN {"hello1"} ELSE {})
    BY <2>1
  <2>4. QED
    BY <1>1, <1>24, <2>1, <2>2, <2>3, RawTypes
<1>25. CASE (Nudge \/ SendPiece \/ SendDone) /\ UNCHANGED <<k, adr, reported, runs>>
  <2>1. PICK r \in Requests : Put(r)
    <3>1. CASE Nudge
      BY <3>1, RequestsAre DEF Nudge
    <3>2. CASE SendPiece
      BY <3>2, RequestsAre DEF SendPiece
    <3>3. CASE SendDone
      BY <3>3, RequestsAre DEF SendDone
    <3>4. QED
      BY <1>25, <3>1, <3>2, <3>3
  <2>2. modem' \in Modems /\ air' \in Seq(Answers) /\ faults' \in 0 .. MaxFaults
    BY <2>1, PutIs DEF Sent
  <2>3. /\ opts' = opts /\ iobuf' = iobuf /\ iolen' = iolen /\ blk' = blk /\ claimed' = claimed
        /\ late' = late /\ blind' = blind /\ waiting' = TRUE
        /\ pc \in SaharaLabels /\ pc' \in SaharaLabels
    BY <1>25 DEF Nudge, SendPiece, SendDone
  <2>4. late' \in BOOLEAN /\ blind' \in BOOLEAN /\ claimed' \in BOOLEAN /\ waiting' \in BOOLEAN
    BY <2>3, Zenon DEF Types
  <2>5. Types'
    BY <1>25, <2>2, <2>3, <2>4 DEF Types
  <2>6. AtPlace'
    BY <1>25, <2>3 DEF AtPlace
  <2>7. QED
    BY <2>5, <2>6
<1>26. CASE InvalidRequest /\ UNCHANGED <<k, adr, reported, runs>>
  <2>1. Types'
    BY <1>26 DEF InvalidRequest, port, Types
  <2>2. AtPlace'
    BY <1>26 DEF InvalidRequest, AtPlace
  <2>3. QED
    BY <2>1, <2>2
\* Writing.
<1>30. CASE (SendSecure \/ SendClose0 \/ SendTable \/ SendClose1 \/ SendData \/ SendHead)
            /\ UNCHANGED <<blk, claimed, runs>>
  <2>1. {"18", "1a", "16", "1c"} \in SUBSET Codes
    BY DEF Codes
  <2>2. CASE SendSecure
    BY <1>1, <1>3, <1>30, <2>1, <2>2, RequestsAre, SendTypes DEF SendSecure, local
  <2>3. CASE SendClose0
    BY <1>1, <1>3, <1>30, <2>3, RequestsAre, SendTypes DEF SendClose0, local
  <2>4. CASE SendTable
    BY <1>1, <1>3, <1>30, <2>1, <2>4, RequestsAre, SendTypes DEF SendTable, local
  <2>5. CASE SendClose1
    BY <1>1, <1>3, <1>30, <2>1, <2>5, RequestsAre, SendTypes DEF SendClose1, local
  <2>6. CASE SendData
    <3>1. pc = "data" /\ opts.prog = "qwflash"
      BY <2>6 DEF SendData, Send, AtPlace
    <3>2. [cmd |-> "data", adr |-> adr, data |-> Packet] \in Requests
      BY <3>1, RequestsAre
    <3>3. QED
      BY <1>1, <1>2, <1>30, <2>6, <3>2, SendTypes DEF SendData, local
  <2>7. CASE SendHead
    <3>1. pc = "head" /\ opts.prog = "qwflash"
      BY <2>7 DEF SendHead, Send, AtPlace
    <3>2. [cmd |-> "head", part |-> Write.part] \in Requests
      BY <3>1, RequestsAre
    <3>3. reported' \in [Parts -> Seq(Int)]
      <4>1. <<>> \in Seq(Int)
        OBVIOUS
      <4>2. QED
        BY <1>1, <2>7, <4>1 DEF SendHead
    <3>4. Uninit("1c") \in SUBSET Answers
      BY <1>3, <2>1
    <3>5. QED
      BY <1>1, <1>30, <2>7, <3>2, <3>3, <3>4, SendTypes DEF SendHead
  <2>8. QED
    BY <1>30, <2>2, <2>3, <2>4, <2>5, <2>6, <2>7
<1>31. CASE SecureAnswer /\ UNCHANGED <<blk, claimed, runs>>
  <2>1. Await("secure") /\ pc = "secure" /\ blind' \in BOOLEAN
    BY <1>4, <1>31 DEF SecureAnswer, Await
  <2>2. Types'
    BY <1>1, <1>2, <1>31, <2>1, AwaitTypes DEF SecureAnswer, Labels, local
  <2>3. AtPlace'
    BY <1>31, <2>1 DEF SecureAnswer, AtPlace, local
  <2>4. QED
    BY <2>2, <2>3
<1>32. CASE Close0Answer /\ UNCHANGED <<blk, claimed, runs>>
  <2>1. Await("close0") /\ pc = "close0"
    BY <1>32 DEF Close0Answer, Await
  <2>2. Types'
    BY <1>1, <1>2, <1>32, <2>1, AwaitTypes DEF Close0Answer, Labels, local
  <2>3. AtPlace'
    BY <1>32, <2>1 DEF Close0Answer, AtPlace, local
  <2>4. QED
    BY <2>2, <2>3
<1>33. CASE TableAnswer /\ UNCHANGED <<blk, claimed, runs>>
  <2>1. Await("table") /\ pc = "table" /\ blind' \in BOOLEAN
    BY <1>4, <1>33 DEF TableAnswer, Await
  <2>2. Types'
    BY <1>1, <1>2, <1>33, <2>1, AwaitTypes DEF TableAnswer, Labels, local
  <2>3. AtPlace'
    BY <1>33, <2>1 DEF TableAnswer, AtPlace, local
  <2>4. QED
    BY <2>2, <2>3
<1>34. CASE HeadAnswer /\ UNCHANGED <<blk, claimed, runs>>
  <2>1. Await("head") /\ pc = "head" /\ blind' \in BOOLEAN
    BY <1>4, <1>34 DEF HeadAnswer, Await
  <2>2. Types'
    BY <1>1, <1>2, <1>34, <2>1, AwaitTypes DEF HeadAnswer, Labels
  <2>3. AtPlace'
    BY <1>34, <2>1 DEF HeadAnswer, AtPlace
  <2>4. QED
    BY <2>2, <2>3
<1>35. CASE DataAnswer /\ UNCHANGED <<blk, claimed, runs>>
  <2>1. Await("data") /\ pc = "data"
    BY <1>35 DEF DataAnswer, Await
  <2>2. adr' \in Nat /\ pc' \in {"data", "close1", "end"}
    BY <1>1, <1>35, <2>1 DEF DataAnswer, Advance
  <2>3. Types'
    BY <1>1, <1>2, <1>35, <2>1, <2>2, AwaitTypes DEF DataAnswer, Labels
  <2>4. AtPlace'
    BY <1>35, <2>1, <2>2 DEF DataAnswer, AtPlace
  <2>5. QED
    BY <2>3, <2>4
<1>36. CASE Close1Answer /\ UNCHANGED <<blk, claimed, runs>>
  <2>1. Await("close1") /\ pc = "close1" /\ blind' \in BOOLEAN /\ opts.prog = "qwflash"
    BY <1>4, <1>36 DEF Close1Answer, Await, AtPlace
  <2>2. k \in 1 .. Len(opts.writes) /\ Write \in [part : Parts, data : Seq(Int)]
    BY <2>1, RequestsAre DEF AtPlace
  <2>3. Write.data \in Seq(Int)
    BY <2>2
  <2>4. reported' \in [Parts -> Seq(Int)]
    BY <1>1, <1>36, <2>3 DEF Close1Answer
  <2>5. /\ k' \in Nat \ {0} /\ pc' \in {"head", "end"}
        /\ k' \in 1 .. Len(opts.writes)
    BY <1>1, <1>36, <2>2 DEF Close1Answer
  <2>6. Types'
    BY <1>1, <1>2, <1>36, <2>1, <2>4, <2>5, AwaitTypes DEF Close1Answer, Labels
  <2>7. AtPlace'
    BY <1>36, <2>1, <2>5 DEF Close1Answer, AtPlace
  <2>8. QED
    BY <2>6, <2>7
<1>37. CASE DivideByZero /\ UNCHANGED <<blk, claimed, runs>>
  <2>1. Types'
    BY <1>37 DEF DivideByZero, port, local, Types
  <2>2. AtPlace'
    BY <1>37 DEF DivideByZero, AtPlace, local
  <2>3. QED
    BY <2>1, <2>2
\* From one program to the next.
<1>40. CASE StartRun
  <2>1. PICK o \in OptionSets : opts' = o /\ pc' = Entry(o) /\ waiting' = (o.prog = "sahara")
    BY <1>40 DEF StartRun
  <2>2. /\ iobuf' = Nothing /\ iolen' = 0 /\ blk' = 0 /\ claimed' = FALSE /\ k' = 1 /\ adr' = 0
        /\ runs' \in 0 .. MaxRuns /\ UNCHANGED <<modem, air, faults, late, blind, reported>>
    BY <1>1, <1>40 DEF StartRun
  <2>3. /\ pc' \in {"nop", "greet", "hello1"} /\ (pc' = "nop" => o.prog = "qdload")
        /\ (pc' = "greet" => o.prog = "sahara") /\ o.prog \in {"qdload", "sahara", "qwflash"}
        /\ o.prog = "qwflash" => o.writes # <<>>
        /\ o.writes \in Seq([part : Parts, data : Seq(Int)])
    BY <2>1, Constants DEF Entry
  <2>4. waiting' \in BOOLEAN /\ Nothing \in Answers /\ 0 \in 0 .. Blocks
    BY <1>1, <2>1, AnswersAre
  <2>5. Types'
    <3>1. /\ modem' \in Modems /\ air' \in Seq(Answers) /\ iobuf' \in Answers /\ iolen' \in Nat
          /\ faults' \in 0 .. MaxFaults /\ runs' \in 0 .. MaxRuns /\ opts' \in OptionSets
      BY <2>1, <2>2, <2>4 DEF Types
    <3>2. /\ waiting' \in BOOLEAN /\ late' \in BOOLEAN /\ blind' \in BOOLEAN /\ claimed' \in BOOLEAN
      BY <2>2, <2>4, Zenon DEF Types
    <3>3. /\ blk' \in 0 .. Blocks /\ adr' \in Nat /\ k' \in Nat \ {0}
          /\ reported' \in [Parts -> Seq(Int)]
      BY <1>1, <2>2, <2>4
    <3>4. QED
      BY <2>3, <3>1, <3>2, <3>3 DEF Types
  <2>6. o.prog = "qwflash" => 1 \in 1 .. Len(o.writes)
    <3> DEFINE w == o.writes
    <3>1. w \in Seq([part : Parts, data : Seq(Int)]) /\ (o.prog = "qwflash" => w # <<>>)
      BY <2>3
    <3> HIDE DEF w
    <3>2. o.prog = "qwflash" => 1 \in 1 .. Len(w)
      BY <3>1
    <3>3. QED
      BY <3>2 DEF w
  <2>7. AtPlace'
    BY <2>1, <2>2, <2>3, <2>6 DEF AtPlace
  <2>8. QED
    BY <2>5, <2>7
<1>41. CASE Kill
  <2>1. Types'
    BY <1>41 DEF Kill, host, Types
  <2>2. AtPlace'
    BY <1>41 DEF Kill, host, AtPlace
  <2>3. QED
    BY <2>1, <2>2
<1>42. CASE PowerCycle
  <2>1. PICK mode \in {"pbl", "sahara"} :
            /\ modem' = Off(modem.flash, mode, modem.img)
            /\ air' \in IF mode = "sahara" THEN {<<>>, <<Hello>>} ELSE {<<>>}
    BY <1>42 DEF PowerCycle
  <2>2. modem' \in Modems
    <3>1. modem.flash \in [Parts -> Seq(Int)] /\ modem.img \in Int
      BY DEF Types, Modems
    <3>2. [b \in 0 .. Blocks |-> Missing] \in [0 .. Blocks -> Int]
      BY DEF Missing
    <3>3. QED
      BY <2>1, <3>1, <3>2 DEF Off, Modems, Modes
  <2>3. air' \in Seq(Answers)
    <3>1. <<>> \in Seq(Answers) /\ <<Hello>> \in Seq(Answers)
      BY AnswersAre
    <3>2. QED
      BY <2>1, <3>1
  <2>4. /\ claimed' = FALSE /\ pc' = pc /\ pc = "end"
        /\ UNCHANGED <<faults, late, blind, pc, port, opts, blk, k, adr, reported, runs>>
    BY <1>42 DEF PowerCycle
  <2>5. Types'
    BY <2>2, <2>3, <2>4 DEF port, Types
  <2>6. AtPlace'
    BY <2>4 DEF AtPlace
  <2>7. QED
    BY <2>5, <2>6
<1>43. CASE UNCHANGED vars
  <2>1. Types'
    BY <1>43 DEF vars, host, Types
  <2>2. AtPlace'
    BY <1>43 DEF vars, host, AtPlace
  <2>3. QED
    BY <2>1, <2>2
<1>44. QED
  BY <1>10, <1>11, <1>12, <1>13, <1>14, <1>15, <1>20, <1>21, <1>22, <1>23, <1>24, <1>25, <1>26,
     <1>30, <1>31, <1>32, <1>33, <1>34, <1>35, <1>36, <1>37, <1>40, <1>41, <1>42, <1>43
     DEF Next, Step, LoadingStep, WritingStep, Finished

LEMMA InitTypes ==
  ASSUME Init
  PROVE  Types /\ AtPlace
<1> USE DEF PblLabels, SaharaLabels, HelloLabels, WriteLabels
<1>1. PICK mode \in {"pbl", "sahara", "loader"}, img \in {7, 9} :
         modem = Off([p \in Parts |-> <<>>], mode, img)
  BY DEF Init
<1>2. modem \in Modems
  <2>1. <<>> \in Seq(Int)
    OBVIOUS
  <2>2. [p \in Parts |-> <<>>] \in [Parts -> Seq(Int)]
    BY <2>1
  <2>3. [b \in 0 .. Blocks |-> Missing] \in [0 .. Blocks -> Int]
    BY DEF Missing
  <2>4. QED
    BY <1>1, <2>2, <2>3 DEF Off, Modems, Modes
<1>3. air \in Seq(Answers) /\ iobuf \in Answers
  <2>1. <<>> \in Seq(Answers) /\ <<Hello>> \in Seq(Answers)
    BY AnswersAre
  <2>2. QED
    BY <2>1, AnswersAre DEF Init
<1>4. opts \in OptionSets
  BY Constants DEF Init
<1>5. reported \in [Parts -> Seq(Int)]
  <2>1. <<>> \in Seq(Int)
    OBVIOUS
  <2>2. QED
    BY <2>1 DEF Init
<1>6. Types
  <2>1. /\ iolen \in Nat /\ faults \in 0 .. MaxFaults /\ runs \in 0 .. MaxRuns /\ blk \in 0 .. Blocks
        /\ adr \in Nat /\ k \in Nat \ {0}
    BY Constants DEF Init
  <2>2. waiting \in BOOLEAN /\ late \in BOOLEAN /\ blind \in BOOLEAN /\ claimed \in BOOLEAN
    BY DEF Init
  <2>3. pc = "end"
    BY DEF Init
  <2>4. QED
    BY <1>2, <1>3, <1>4, <1>5, <2>1, <2>2, <2>3 DEF Types
<1>7. AtPlace
  <2>1. opts.prog = "qwflash" => opts.writes # <<>> /\ opts.writes \in Seq([part : Parts, data : Seq(Int)])
    BY <1>4, Constants
  <2> DEFINE w == opts.writes
  <2>2. opts.prog = "qwflash" => w # <<>> /\ w \in Seq([part : Parts, data : Seq(Int)])
    BY <2>1
  <2> HIDE DEF w
  <2>3. opts.prog = "qwflash" => 1 \in 1 .. Len(w)
    BY <2>2
  <2>4. pc = "end" /\ k = 1
    BY DEF Init
  <2>5. QED
    BY <2>3, <2>4 DEF AtPlace, w
<1>8. QED
  BY <1>6, <1>7

LEMMA TypesLocal ==
  ASSUME Types
  PROVE  TypeOK
<1>1. LineTypeOK
  <2>1. \A i \in DOMAIN air : DOMAIN air[i] = {"code", "len", "w8", "w12"}
    <3>1. \A i \in DOMAIN air : air[i] \in Answers
      BY DEF Types
    <3>2. \A a \in Answers : DOMAIN a = {"code", "len", "w8", "w12"}
      BY DEF Answers
    <3>3. QED
      BY <3>1, <3>2
  <2>2. {waiting, late, blind} \subseteq BOOLEAN
    BY Zenon DEF Types
  <2>3. QED
    BY <2>1, <2>2 DEF Types, LineTypeOK, Modems, Modes
<1>2. DOMAIN reported = Parts
  BY DEF Types
<1>3. claimed \in BOOLEAN
  BY Zenon DEF Types
<1>4. k \in Nat
  BY DEF Types
<1>5. QED
  BY <1>1, <1>2, <1>3, <1>4 DEF Types, TypeOK

\* Every variable has its type in every state of a session: the buffers, which the reads fill with
\* parts of answers, the places of the loops in the file, and the state of the modem.
THEOREM SessionTypes == Spec => []TypeOK
<1>1. Init => Types /\ AtPlace
  BY InitTypes
<1>2. Types /\ AtPlace /\ [Next]_vars => (Types /\ AtPlace)'
  BY NextTypes
<1>3. Types /\ AtPlace => TypeOK
  BY TypesLocal
<1>4. QED
  BY <1>1, <1>2, <1>3, PTL DEF Spec

-----------------------------------------------------------------------------
(* Sahara. What the other programs and the operator do is of four kinds.    *)

FramedLabels == PblLabels \cup HelloLabels \cup WriteLabels
FramedCommands ==
    {"nop", "version", "block", "go", "hello", "secure", "close", "table", "head", "data"}

FramedSend ==
    /\ pc \in FramedLabels /\ pc' = pc /\ opts' = opts /\ claimed' = claimed /\ blind' = blind
    /\ \E r \in Requests, n \in 0 .. Len(air) :
          /\ r.cmd \in FramedCommands /\ Sent(n, r) /\ late' = (late \/ n < Len(air))
          /\ r.cmd = "block" => pc = "block"
          /\ pc = "block" => r.cmd = "block" /\ r.adr = blk /\ r.data = blk /\ blk' = blk
FramedRead ==
    /\ pc \in FramedLabels /\ pc' \in FramedLabels \cup {"end"}
    /\ modem' = modem /\ opts' = opts /\ (blind => blind')
    /\ Shifted \/ air' = air
    /\ opts.prog = "sahara" =>
          claimed' = claimed /\ pc \in HelloLabels /\ pc' \in HelloLabels \cup {"end"}
Halt == pc' = "end" /\ UNCHANGED <<modem, air, opts, claimed, blind>>

FramedReading ==
    \/ /\ NopAnswer \/ VersionAnswer \/ BlockAnswer \/ GoAnswer \/ HelloAnswer
       /\ UNCHANGED <<k, adr, reported, runs>>
    \/ /\ \/ SecureAnswer \/ Close0Answer \/ TableAnswer
          \/ HeadAnswer \/ DataAnswer \/ Close1Answer
       /\ UNCHANGED <<blk, claimed, runs>>
FramedSending ==
    \/ /\ SendNop \/ SendVersion \/ SendPart \/ SendGo \/ SendHello
       /\ UNCHANGED <<k, adr, reported, runs>>
    \/ /\ SendSecure \/ SendClose0 \/ SendTable \/ SendHead \/ SendData \/ SendClose1
       /\ UNCHANGED <<blk, claimed, runs>>

LEMMA FramedSends ==
  ASSUME Types, AtPlace, FramedSending
  PROVE  FramedSend
<1> USE DEF PblLabels, SaharaLabels, HelloLabels, WriteLabels
<1>1. \A c \in Codes : Uninit(c) \in SUBSET Answers
  BY AnswersAre DEF Uninit
<1>2. {iobuf} \in SUBSET Answers /\ Unset \in SUBSET Answers /\ {Nothing} \in SUBSET Answers
  BY AnswersAre DEF Types, Unset
<1>3. PICK at \in FramedLabels, r \in Requests, bufs \in SUBSET Answers :
         /\ r.cmd \in FramedCommands /\ Send(at, r, bufs)
         /\ r.cmd = "block" => at = "block"
         /\ at = "block" => r.cmd = "block" /\ r.adr = blk /\ r.data = blk /\ blk' = blk
  <2>1. CASE SendNop
    <3>1. Send("nop", [cmd |-> "nop"], {iobuf})
      BY <2>1 DEF SendNop, Keep
    <3>2. QED
      BY <1>2, <3>1, RequestsAre DEF FramedLabels, FramedCommands
  <2>2. CASE SendVersion
    <3>1. Send("version", [cmd |-> "version"], {iobuf})
      BY <2>2 DEF SendVersion, Keep
    <3>2. QED
      BY <1>2, <3>1, RequestsAre DEF FramedLabels, FramedCommands
  <2>3. CASE SendPart
    <3>1. /\ Send("block", [cmd |-> "block", adr |-> blk, data |-> Image[blk]], {iobuf}) /\ pc = "block"
          /\ blk' = blk
      BY <2>3 DEF SendPart, SendBlock, Keep, Send
    <3> DEFINE r == [cmd |-> "block", adr |-> blk, data |-> Image[blk]]
    <3>2. r \in Requests /\ r.cmd = "block" /\ r.adr = blk /\ r.data = blk
      BY <3>1, RequestsAre
    <3>3. Send("block", r, {iobuf})
      BY <3>1
    <3> HIDE DEF r
    <3>4. QED
      BY <1>2, <3>1, <3>2, <3>3 DEF FramedLabels, FramedCommands
  <2>4. CASE SendGo
    <3>1. Send("go", [cmd |-> "go"], {iobuf})
      BY <2>4 DEF SendGo, Keep
    <3>2. QED
      BY <1>2, <3>1, RequestsAre DEF FramedLabels, FramedCommands
  <2>5. CASE SendHello
    <3>1. Send("hello1", [cmd |-> "hello"], Unset) \/ Send("hello2", [cmd |-> "hello"], {iobuf})
      BY <2>5 DEF SendHello, Keep
    <3>2. QED
      BY <1>2, <3>1, RequestsAre DEF FramedLabels, FramedCommands
  <2>6. CASE SendSecure
    <3>1. Send("secure", [cmd |-> "secure"], Uninit("18")) /\ "18" \in Codes
      BY <2>6 DEF SendSecure, Codes
    <3>2. QED
      BY <1>1, <3>1, RequestsAre DEF FramedLabels, FramedCommands
  <2>7. CASE SendClose0
    <3>1. Send("close0", [cmd |-> "close"], {Nothing})
      BY <2>7 DEF SendClose0
    <3>2. QED
      BY <1>2, <3>1, RequestsAre DEF FramedLabels, FramedCommands
  <2>8. CASE SendTable
    <3>1. Send("table", [cmd |-> "table", full |-> opts.table = "full"], Uninit("1a")) /\ "1a" \in Codes
      BY <2>8 DEF SendTable, Codes
    <3>2. QED
      BY <1>1, <3>1, RequestsAre DEF FramedLabels, FramedCommands
  <2>9. CASE SendHead
    <3>1. Send("head", [cmd |-> "head", part |-> Write.part], Uninit("1c")) /\ "1c" \in Codes /\ pc = "head"
      BY <2>9 DEF SendHead, Codes, Send
    <3> DEFINE r == [cmd |-> "head", part |-> Write.part]
    <3>2. r \in Requests /\ r.cmd = "head"
      BY <3>1, RequestsAre DEF AtPlace
    <3>3. Send("head", r, Uninit("1c")) /\ Uninit("1c") \in SUBSET Answers
      BY <1>1, <3>1
    <3> HIDE DEF r
    <3>4. QED
      BY <3>2, <3>3 DEF FramedLabels, FramedCommands
  <2>10. CASE SendData
    <3>1. Send("data", [cmd |-> "data", adr |-> adr, data |-> Packet], {iobuf}) /\ pc = "data"
      BY <2>10 DEF SendData, Send
    <3>2. opts.prog = "qwflash"
      BY <3>1 DEF AtPlace
    <3>3. QED
      BY <1>2, <3>1, <3>2, RequestsAre DEF FramedLabels, FramedCommands
  <2>11. CASE SendClose1
    <3>1. Send("close1", [cmd |-> "close"], Uninit("16")) /\ "16" \in Codes
      BY <2>11 DEF SendClose1, Codes
    <3>2. QED
      BY <1>1, <3>1, RequestsAre DEF FramedLabels, FramedCommands
  <2>12. QED
    BY <2>1, <2>2, <2>3, <2>4, <2>5, <2>6, <2>7, <2>8, <2>9, <2>10, <2>11 DEF FramedSending
<1>4. /\ pc = at /\ pc' = pc /\ blind' = blind
      /\ \E n \in 0 .. Len(air) : Sent(n, r) /\ late' = (late \/ n < Len(air))
  BY <1>3, SendIs
<1>5. opts' = opts /\ claimed' = claimed
  <2>1. CASE SendNop \/ SendVersion \/ SendPart \/ SendGo \/ SendHello
    BY <2>1 DEF SendNop, SendVersion, SendPart, SendGo, SendHello
  <2>2. CASE /\ SendSecure \/ SendClose0 \/ SendTable \/ SendHead \/ SendData \/ SendClose1
             /\ UNCHANGED <<blk, claimed, runs>>
    BY <2>2 DEF SendSecure, SendClose0, SendTable, SendHead, SendData, SendClose1, local
  <2>3. QED
    BY <2>1, <2>2 DEF FramedSending
<1>6. QED
  BY <1>3, <1>4, <1>5 DEF FramedSend

LEMMA FramedReads ==
  ASSUME Types, AtPlace, FramedReading
  PROVE  FramedRead
<1> USE DEF PblLabels, SaharaLabels, HelloLabels, WriteLabels
<1>1. PICK at \in FramedLabels : Await(at)
  BY DEF FramedReading, NopAnswer, VersionAnswer, BlockAnswer, GoAnswer, HelloAnswer, SecureAnswer,
         Close0Answer, TableAnswer, HeadAnswer, DataAnswer, Close1Answer, FramedLabels
<1>2. pc = at /\ modem' = modem /\ (Shifted \/ air' = air)
  BY <1>1, AwaitIs
<1>3. /\ opts' = opts /\ (blind => blind')
      /\ pc' \in FramedLabels \cup {"end"}
      /\ opts.prog = "sahara" => claimed' = claimed /\ pc' \in HelloLabels \cup {"end"}
  <2>1. CASE NopAnswer \/ VersionAnswer \/ GoAnswer
    <3>1. opts.prog # "sahara"
      BY <2>1 DEF NopAnswer, VersionAnswer, GoAnswer, Await, AtPlace
    <3>2. QED
      BY <2>1, <3>1 DEF NopAnswer, VersionAnswer, GoAnswer, AfterStart, FramedLabels
  <2>2. CASE BlockAnswer
    <3>1. opts.prog # "sahara"
      BY <2>2 DEF BlockAnswer, Await, AtPlace
    <3>2. QED
      BY <2>2, <3>1 DEF BlockAnswer, FramedLabels
  <2>3. CASE HelloAnswer
    BY <2>3 DEF HelloAnswer, AfterHello, FramedLabels
  <2>4. CASE SecureAnswer \/ Close0Answer \/ TableAnswer
    <3>1. opts.prog # "sahara"
      BY <2>4 DEF SecureAnswer, Close0Answer, TableAnswer, Await, AtPlace
    <3>2. CASE SecureAnswer
      BY <3>1, <3>2 DEF SecureAnswer, FramedLabels, Unanswered, local
    <3>3. CASE Close0Answer
      BY <3>1, <3>3 DEF Close0Answer, FramedLabels, local
    <3>4. CASE TableAnswer
      BY <3>1, <3>4 DEF TableAnswer, FramedLabels, Unanswered, local
    <3>5. QED
      BY <2>4, <3>2, <3>3, <3>4
  <2>5. CASE HeadAnswer
    <3>1. opts.prog # "sahara"
      BY <2>5 DEF HeadAnswer, Await, AtPlace
    <3>2. QED
      BY <2>5, <3>1 DEF HeadAnswer, FramedLabels, Unanswered
  <2>6. CASE DataAnswer
    <3>1. opts.prog # "sahara" /\ pc = "data"
      BY <2>6 DEF DataAnswer, Await, AtPlace
    <3>2. QED
      BY <2>6, <3>1 DEF DataAnswer, FramedLabels
  <2>7. CASE Close1Answer
    <3>1. opts.prog # "sahara"
      BY <2>7 DEF Close1Answer, Await, AtPlace
    <3>2. QED
      BY <2>7, <3>1 DEF Close1Answer, FramedLabels, Unanswered
  <2>8. QED
    BY <2>1, <2>2, <2>3, <2>4, <2>5, <2>6, <2>7 DEF FramedReading
<1>4. opts.prog = "sahara" => pc \in HelloLabels
  BY <1>2 DEF AtPlace, FramedLabels
<1>5. QED
  BY <1>1, <1>2, <1>3, <1>4 DEF FramedRead

\* A modem that is sent something it does not expect in Sahara breaks off with an error; outside of
\* Sahara nothing of Sahara is said.
BrokenOff(n) ==
    /\ modem.mode = "sahara" /\ modem'.mode = "sahara"
    /\ modem'.stat = 1 /\ modem'.asked = Missing /\ modem'.want = {}
    /\ Len(air') \in {Len(air) - n, Len(air) - n + 1}
    /\ Len(air') = Len(air) - n + 1 =>
          /\ air'[Len(air')].code = "s4" /\ air'[Len(air')].len = 16 /\ air'[Len(air')].w12 = 1
Outside(n) ==
    /\ modem.mode # "sahara" /\ modem'.mode # "sahara"
    /\ Len(air') \in {Len(air) - n, Len(air) - n + 1}
    /\ Len(air') = Len(air) - n + 1 => air'[Len(air')].code \notin {"s1", "s3", "s4", "rest"}

LEMMA OutOfTurn ==
  ASSUME Types, NEW r \in Requests, NEW n \in 0 .. Len(air), Sent(n, r),
         \/ r.cmd \in FramedCommands
         \/ modem.mode # "sahara"
         \/ r.cmd \in {"nudge", "hellorsp"} /\ ~Fresh(modem)
         \/ r.cmd = "piece" /\ modem.asked = Missing
  PROVE  \/ modem' = modem /\ Len(air') = Len(air) - n
         \/ BrokenOff(n) \/ Outside(n)
<1>1. CASE modem' = modem /\ Len(air') = Len(air) - n
  BY <1>1
<1>2. ASSUME NEW a \in Answers, <<modem', <<a>>>> \in React(modem, r),
             Len(air') = Len(air) - n + 1 => air'[Len(air) - n + 1] = a
      PROVE  BrokenOff(n) \/ Outside(n)
  <2>1. /\ modem \in Modems /\ modem' \in Modems /\ Len(air) \in Nat
        /\ Len(air') \in {Len(air) - n, Len(air) - n + 1}
    BY DEF Types, Sent
  <2> DEFINE x == <<modem', <<a>>>>
  <2>2. x \in React(modem, r) /\ x[1] = modem' /\ x[2] = <<a>> /\ x[2][1] = a
    BY <1>2
  <2> HIDE DEF x
  <2>3. \/ modem.mode = "pbl" /\ x \in BootRom(modem, r)
        \/ modem.mode = "sahara" /\ x \in Sahara(modem, r)
        \/ modem.mode = "loader" /\ x \in Loader(modem, r)
        \/ modem.mode = "hung" /\ x = <<modem, <<>>>>
    BY <2>1, <2>2, ReactIs
  <2>4. CASE modem.mode = "pbl" /\ x \in BootRom(modem, r)
    <3>1. PICK m2 \in Modems, b \in Answers :
            /\ x = <<m2, <<b>>>> /\ b.code \in {"02", "03", "08"}
            /\ m2.mode = modem.mode \/ (r.cmd = "go" /\ m2.mode \in {"loader", "hung"})
      BY <2>1, <2>4, BootRomIs
    <3>2. m2 = modem' /\ b = a
      BY <2>2, <3>1
    <3>3. QED
      BY <1>2, <2>1, <2>4, <3>1, <3>2 DEF Outside
  <2>5. CASE modem.mode = "loader" /\ x \in Loader(modem, r)
    <3>1. PICK m2 \in Modems, b \in Answers :
            /\ x = <<m2, <<b>>>> /\ b.code \notin {"s1", "s3", "s4", "rest"}
            /\ m2.mode = modem.mode
      BY <2>1, <2>5, LoaderIs
    <3>2. m2 = modem' /\ b = a
      BY <2>2, <3>1
    <3>3. QED
      BY <1>2, <2>1, <2>5, <3>1, <3>2 DEF Outside
  <2>6. CASE modem.mode = "hung" /\ x = <<modem, <<>>>>
    <3>1. <<a>> = <<>>
      BY <2>2, <2>6
    <3>2. QED
      BY <3>1
  <2>7. CASE modem.mode = "sahara" /\ x \in Sahara(modem, r)
    <3>1. x = <<Broken(modem), <<EndOfImage(modem.img, 1)>>>>
      BY <2>7 DEF Sahara, FramedCommands
    <3>2. modem' = Broken(modem) /\ a = EndOfImage(modem.img, 1)
      BY <2>2, <3>1
    <3>3. /\ modem'.mode = "sahara" /\ modem'.stat = 1 /\ modem'.asked = Missing /\ modem'.want = {}
      BY <2>1, <2>7, <3>2 DEF Broken, Modems
    <3>4. a.code = "s4" /\ a.len = 16 /\ a.w12 = 1
      <4>1. modem.img \in Int /\ 1 \in Int
        BY <2>1 DEF Modems
      <4>2. QED
        BY <3>2, <4>1, AnswersAre
    <3>5. QED
      BY <1>2, <2>1, <2>7, <3>3, <3>4 DEF BrokenOff
  <2>8. QED
    BY <2>3, <2>4, <2>5, <2>6, <2>7
<1>3. QED
  BY <1>1, <1>2 DEF Sent

\* What is left on the line.
Kept(n) == n \in 0 .. Len(air) /\ \A i \in 1 .. Len(air) - n : air'[i] = air[n + i]

LEMMA Places ==
  ASSUME Types, Types', NEW n \in 0 .. Len(air), Kept(n),
         Len(air') = Len(air) - n \/ Len(air') = Len(air) - n + 1
  PROVE  /\ Len(air) \in Nat /\ Len(air') \in Nat
         /\ \A i \in 1 .. Len(air') :
               \/ i <= Len(air) - n /\ n + i \in 1 .. Len(air) /\ air'[i] = air[n + i]
               \/ i = Len(air') /\ i = Len(air) - n + 1
<1>1. Len(air) \in Nat /\ Len(air') \in Nat
  BY SMTT(60) DEF Types
<1> DEFINE l == Len(air)
           l2 == Len(air')
<1>2. l \in Nat /\ l2 \in Nat /\ n \in 0 .. l /\ (l2 = l - n \/ l2 = l - n + 1)
  BY <1>1
<1>3. \A i \in 1 .. l - n : air'[i] = air[n + i]
  BY DEF Kept
<1> HIDE DEF l, l2
<1>4. \A i \in 1 .. l2 : \/ i <= l - n /\ n + i \in 1 .. l /\ air'[i] = air[n + i]
                         \/ i = l2 /\ i = l - n + 1
  BY <1>2, <1>3
<1>5. QED
  BY <1>2, <1>4 DEF l, l2

LEMMA InTurnBehind ==
  ASSUME InTurn, NEW n \in Nat, Len(air) \in Nat, Len(air') \in Nat,
         \A i \in 1 .. Len(air') :
            \/ n + i \in 1 .. Len(air) /\ air'[i] = air[n + i]
            \/ /\ air'[i].code \notin {"s1", "rest"}
               /\ air'[i].code = "s3" => air'[i].len = 20
               /\ air'[i].code = "s4" => air'[i].len = 16,
         \A i \in 1 .. Len(air'), j \in 1 .. Len(air') : i < j /\ air'[j].code = "s1" => air'[i] = air[n + i],
         pc' = "reply" => iobuf'.w8 = 2
  PROVE  InTurn'
<1>1. ASSUME NEW j \in 1 .. Len(air'), air'[j].code = "s1"
      PROVE  /\ air'[j].w8 = 2 /\ air'[j].len = 48
             /\ \A i \in 1 .. j - 1 : air'[i].code \in {"s1", "rest"}
  <2>1. n + j \in 1 .. Len(air) /\ air'[j] = air[n + j] /\ air[n + j].code = "s1"
    BY <1>1
  <2>2. /\ air[n + j].w8 = 2 /\ air[n + j].len = 48
        /\ \A i \in 1 .. (n + j) - 1 : air[i].code \in {"s1", "rest"}
    BY <2>1 DEF InTurn
  <2>3. ASSUME NEW i \in 1 .. j - 1
        PROVE  air'[i].code \in {"s1", "rest"}
    <3>1. i \in 1 .. Len(air') /\ i < j /\ n + i \in 1 .. (n + j) - 1
      BY <2>3
    <3>2. air'[i] = air[n + i]
      BY <1>1, <3>1
    <3>3. QED
      BY <2>2, <3>1, <3>2
  <2>4. QED
    BY <2>1, <2>2, <2>3
<1>2. ASSUME NEW i \in 1 .. Len(air')
      PROVE  /\ air'[i].code = "rest" => i = 1 /\ air'[i].w8 = 0
             /\ air'[i].code = "s3" => air'[i].len = 20
             /\ air'[i].code = "s4" => air'[i].len = 16
  <2>1. CASE n + i \in 1 .. Len(air) /\ air'[i] = air[n + i]
    <3>1. /\ air[n + i].code = "rest" => n + i = 1 /\ air[n + i].w8 = 0
          /\ air[n + i].code = "s3" => air[n + i].len = 20
          /\ air[n + i].code = "s4" => air[n + i].len = 16
      BY <2>1 DEF InTurn
    <3>2. n + i = 1 => i = 1
      BY <1>2
    <3>3. QED
      BY <2>1, <3>1, <3>2
  <2>2. QED
    BY <1>2, <2>1
<1>3. QED
  BY <1>1, <1>2 DEF InTurn

LEMMA LostRight ==
  ASSUME Types, Types', Right, NEW n \in 0 .. Len(air), modem' = modem, Len(air') = Len(air) - n, Kept(n),
         pc \notin {"piece", "done"}, pc' = pc, opts' = opts, claimed' = claimed,
         pc = "reply" => iobuf'.w8 = iobuf.w8
  PROVE  Right'
<1> USE DEF Right
<1>1. /\ Len(air) \in Nat /\ Len(air') \in Nat /\ n \in Nat
      /\ \A i \in 1 .. Len(air') : air'[i] = air[n + i] /\ n + i \in 1 .. Len(air)
  BY Places
<1>2. InTurn'
  <2>1. pc' = "reply" => iobuf'.w8 = 2
    BY DEF InTurn
  <2>2. QED
    BY <1>1, <2>1, InTurnBehind
<1>3. (NoHello => NoHello') /\ (NoEnd => NoEnd')
  BY <1>1 DEF NoHello, NoEnd
<1>4. WhenUntouched'
  BY <1>1 DEF WhenUntouched, Untouched, Fresh
<1>5. WhenUnderway'
  <2>1. SUFFICES ASSUME Underway' PROVE WhenUnderway'
    BY DEF WhenUnderway
  <2>2. Underway
    BY <2>1 DEF Underway, Fresh
  <2>3. \A i \in 1 .. Len(air') : Last(i)'
    BY <1>1, <2>2 DEF WhenUnderway, Last
  <2>4. (pc = "reply" \/ ~NoHello') => NoEnd'
    BY <1>3, <2>2 DEF WhenUnderway
  <2>5. QED
    BY <2>3, <2>4 DEF WhenUnderway
<1>6. Given'
  BY <1>3 DEF Given, Underway, Fresh, Proper, Derailed
<1>7. WhenFailed'
  BY <1>1, <1>3 DEF WhenFailed, Failed
<1>8. Otherwise'
  BY <1>3 DEF Otherwise
<1>9. Believed'
  BY <1>3 DEF Believed
<1>10. QED
  BY <1>2, <1>4, <1>5, <1>6, <1>7, <1>8, <1>9

LEMMA BrokenRight ==
  ASSUME Types, Types', Right, NEW n \in 0 .. Len(air), BrokenOff(n), Kept(n),
         pc # "done", pc' = pc, opts' = opts, claimed' = claimed,
         pc = "reply" => iobuf'.w8 = iobuf.w8,
         pc = "piece" => Failed /\ waiting'
  PROVE  Right'
<1> USE DEF Right
<1>1. /\ modem.mode = "sahara"
      /\ modem'.mode = "sahara" /\ modem'.stat = 1 /\ modem'.asked = Missing /\ modem'.want = {}
  BY DEF BrokenOff
<1>2. /\ Len(air) \in Nat /\ Len(air') \in Nat /\ n \in Nat
      /\ \A i \in 1 .. Len(air') :
            \/ i <= Len(air) - n /\ air'[i] = air[n + i] /\ n + i \in 1 .. Len(air)
            \/ /\ air'[i].code = "s4" /\ air'[i].len = 16 /\ air'[i].w12 = 1
               /\ i = Len(air') /\ i = Len(air) - n + 1
  BY Places DEF BrokenOff
<1>3. InTurn'
  <2>1. pc' = "reply" => iobuf'.w8 = 2
    BY DEF InTurn
  <2>2. ASSUME NEW i \in 1 .. Len(air'), NEW j \in 1 .. Len(air'), i < j, air'[j].code = "s1"
        PROVE  air'[i] = air[n + i]
    <3>1. j <= Len(air) - n
      BY <1>2, <2>2
    <3>2. i <= Len(air) - n
      BY <1>2, <2>2, <3>1
    <3>3. QED
      BY <3>2 DEF Kept
  <2>3. QED
    BY <1>2, <2>1, <2>2, InTurnBehind
<1>4. NoHello => NoHello'
  BY <1>2 DEF NoHello
<1>5. WhenUntouched' /\ WhenUnderway' /\ Given' /\ Otherwise'
  <2>1. ~Untouched' /\ ~Underway'
    <3>1. 0 \in 0 .. Blocks
      BY Constants
    <3>2. QED
      BY <1>1, <3>1 DEF Untouched, Underway, Fresh
  <2>2. QED
    BY <1>1, <2>1 DEF WhenUntouched, WhenUnderway, Given, Otherwise
<1>6. WhenFailed'
  <2>1. SUFFICES ASSUME pc \in {"reply", "piece"} \/ ~NoHello'
                 PROVE  \A i \in 1 .. Len(air') : air'[i].code = "s4" => air'[i].w12 = 1
    BY <1>1 DEF WhenFailed
  <2>2. \A i \in 1 .. Len(air) : air[i].code = "s4" => air[i].w12 = 1
    <3>1. modem.stat \in {0, 1}
      BY DEF Types, Modems
    <3>2. CASE Untouched
      BY <3>2 DEF WhenUntouched
    <3>3. CASE Underway
      <4>1. pc # "piece"
        BY <3>3 DEF Underway, Failed
      <4>2. NoEnd
        BY <1>4, <2>1, <3>3, <4>1 DEF WhenUnderway
      <4>3. QED
        BY <4>2 DEF NoEnd
    <3>4. CASE Failed
      BY <1>4, <2>1, <3>4 DEF WhenFailed
    <3>5. QED
      BY <1>1, <3>1, <3>2, <3>3, <3>4 DEF Untouched, Underway, Failed
  <2>3. QED
    BY <1>2, <2>2
<1>7. Believed'
  BY <1>1, <1>4 DEF Believed
<1>8. QED
  BY <1>3, <1>5, <1>6, <1>7

LEMMA OutsideRight ==
  ASSUME Types, Types', Right, NEW n \in 0 .. Len(air), Outside(n), Kept(n),
         pc \notin {"reply", "piece", "done"}, pc' = pc, opts' = opts, claimed' = claimed,
         claimed /\ opts.prog = "sahara" =>
            modem'.mode = "loader" /\ modem'.ram = modem.ram /\ modem'.stat = modem.stat
  PROVE  Right'
<1> USE DEF Right
<1>1. /\ modem.mode # "sahara" /\ modem'.mode # "sahara"
      /\ Len(air) \in Nat /\ Len(air') \in Nat /\ n \in Nat
      /\ \A i \in 1 .. Len(air') :
            \/ i <= Len(air) - n /\ air'[i] = air[n + i] /\ n + i \in 1 .. Len(air)
            \/ /\ air'[i].code \notin {"s1", "s3", "s4", "rest"}
               /\ i = Len(air') /\ i = Len(air) - n + 1
  BY Places DEF Outside
<1>2. NoHello'
  BY <1>1 DEF NoHello, Otherwise
<1>3. InTurn'
  <2>1. \A j \in 1 .. Len(air') : air'[j].code # "s1"
    BY <1>2 DEF NoHello
  <2>2. QED
    BY <1>1, <2>1, InTurnBehind
<1>4. WhenUntouched' /\ WhenUnderway' /\ Given' /\ WhenFailed'
  BY <1>1 DEF WhenUntouched, WhenUnderway, Given, WhenFailed, Untouched, Underway, Failed
<1>5. Otherwise'
  BY <1>2 DEF Otherwise
<1>6. Believed'
  BY <1>2 DEF Believed
<1>7. QED
  BY <1>3, <1>4, <1>5, <1>6

LEMMA LoaderKeeps ==
  ASSUME Types, NEW r \in Requests, NEW n \in 0 .. Len(air), Sent(n, r), modem.mode = "loader"
  PROVE  modem'.mode = "loader" /\ modem'.ram = modem.ram /\ modem'.stat = modem.stat
<1>1. CASE modem' = modem
  BY <1>1
<1>2. ASSUME NEW a \in Answers, <<modem', <<a>>>> \in React(modem, r)
      PROVE  modem'.mode = "loader" /\ modem'.ram = modem.ram /\ modem'.stat = modem.stat
  <2> DEFINE x == <<modem', <<a>>>>
  <2>1. x \in Loader(modem, r) /\ x[1] = modem' /\ modem \in Modems
    BY <1>2 DEF React, Types
  <2> HIDE DEF x
  <2>2. PICK m2 \in Modems, b \in Answers :
            x = <<m2, <<b>>>> /\ m2.mode = modem.mode /\ m2.ram = modem.ram /\ m2.stat = modem.stat
    BY <2>1, LoaderIs
  <2>3. QED
    BY <2>1, <2>2
<1>3. QED
  BY <1>1, <1>2 DEF Sent

LEMMA FramedSendRight ==
  ASSUME Types, Types', AtPlace, Right, FramedSend
  PROVE  Right'
<1>1. PICK r \in Requests, n \in 0 .. Len(air) : r.cmd \in FramedCommands /\ Sent(n, r)
  BY DEF FramedSend
<1>2. /\ pc \notin {"reply", "piece", "done"} /\ pc' = pc /\ opts' = opts /\ claimed' = claimed
  BY DEF FramedSend, FramedLabels, PblLabels, HelloLabels, WriteLabels
<1>3. Kept(n)
  BY <1>1 DEF Sent, Kept
<1>4. CASE modem' = modem /\ Len(air') = Len(air) - n
  BY <1>2, <1>3, <1>4, LostRight
<1>5. CASE BrokenOff(n)
  BY <1>2, <1>3, <1>5, BrokenRight
<1>6. CASE Outside(n)
  <2>1. claimed /\ opts.prog = "sahara" =>
            modem'.mode = "loader" /\ modem'.ram = modem.ram /\ modem'.stat = modem.stat
    BY <1>1, LoaderKeeps DEF Right, Believed
  <2>2. QED
    BY <1>2, <1>3, <1>6, <2>1, OutsideRight
<1>7. QED
  BY <1>1, <1>4, <1>5, <1>6, OutOfTurn

\* Reading takes nothing out of its turn.
LEMMA ReadInTurn ==
  ASSUME Types, Types', InTurn, air' = air \/ Shifted \/ Parted, pc' = "reply" => iobuf'.w8 = 2
  PROVE  /\ InTurn' /\ (NoHello => NoHello') /\ (NoEnd => NoEnd')
         /\ \A i \in 1 .. Len(air') : air'[i].code = "rest"
                                      \/ \E j \in 1 .. Len(air) : /\ air'[i] = air[j]
                                                                  /\ (j = Len(air) <=> i = Len(air'))
<1>1. Len(air) \in Nat /\ Len(air') \in Nat
  BY DEF Types
<1>2. CASE air' = air
  <2>1. InTurn' /\ (NoHello => NoHello') /\ (NoEnd => NoEnd')
    BY <1>2 DEF InTurn, NoHello, NoEnd
  <2>2. QED
    BY <1>2, <2>1
<1>3. CASE Shifted
  <2>1. \A i \in 1 .. Len(air') : 1 + i \in 1 .. Len(air) /\ air'[i] = air[1 + i]
                                  /\ (1 + i = Len(air) <=> i = Len(air'))
    BY <1>1, <1>3 DEF Shifted
  <2>2. InTurn'
    BY <1>1, <2>1, InTurnBehind
  <2>3. (NoHello => NoHello') /\ (NoEnd => NoEnd')
    BY <2>1 DEF NoHello, NoEnd
  <2>4. QED
    BY <2>1, <2>2, <2>3
<1>4. CASE Parted
  <2>1. /\ Len(air') = Len(air) /\ air'[1].code = "rest" /\ air'[1].w8 = 0
        /\ \A i \in 1 .. Len(air') : i # 1 => i \in 1 .. Len(air) /\ air'[i] = air[i]
    BY <1>1, <1>4 DEF Parted
  <2>2. ASSUME NEW j \in 1 .. Len(air'), air'[j].code = "s1"
        PROVE  /\ air'[j].w8 = 2 /\ air'[j].len = 48
               /\ \A i \in 1 .. j - 1 : air'[i].code \in {"s1", "rest"}
    <3>1. j # 1 /\ j \in 1 .. Len(air) /\ air'[j] = air[j]
      BY <2>1, <2>2
    <3>2. air[j].w8 = 2 /\ air[j].len = 48 /\ \A i \in 1 .. j - 1 : air[i].code \in {"s1", "rest"}
      BY <2>2, <3>1 DEF InTurn
    <3>3. \A i \in 1 .. j - 1 : i \in 1 .. Len(air')
      BY <1>1
    <3>4. QED
      BY <2>1, <3>1, <3>2, <3>3
  <2>3. \A i \in 1 .. Len(air') : /\ air'[i].code = "rest" => i = 1 /\ air'[i].w8 = 0
                                  /\ air'[i].code = "s3" => air'[i].len = 20
                                  /\ air'[i].code = "s4" => air'[i].len = 16
    BY <2>1 DEF InTurn
  <2>4. InTurn'
    BY <2>2, <2>3 DEF InTurn
  <2>5. (NoHello => NoHello') /\ (NoEnd => NoEnd')
    BY <2>1 DEF NoHello, NoEnd
  <2>6. QED
    BY <2>1, <2>4, <2>5
<1>5. QED
  BY <1>2, <1>3, <1>4

\* A program that reads on or ends, without going on in Sahara.
LEMMA LeaveRight ==
  ASSUME Types, Types', Right, modem' = modem, air' = air \/ Shifted \/ Parted,
         pc' \notin {"reply", "piece", "done"},
         claimed' /\ opts'.prog = "sahara" =>
            /\ modem.mode = "loader" /\ Complete(modem.ram) /\ modem.stat = 0
            /\ pc' \in HelloLabels \cup {"end"}
  PROVE  Right'
<1> USE DEF Right
<1>1. /\ InTurn' /\ (NoHello => NoHello') /\ (NoEnd => NoEnd')
      /\ \A i \in 1 .. Len(air') : air'[i].code = "rest"
                                   \/ \E j \in 1 .. Len(air) : /\ air'[i] = air[j]
                                                               /\ (j = Len(air) <=> i = Len(air'))
  BY ReadInTurn
<1>2. WhenUntouched'
  BY <1>1 DEF WhenUntouched, Untouched
<1>3. WhenUnderway'
  <2>1. SUFFICES ASSUME Underway' PROVE WhenUnderway'
    BY DEF WhenUnderway
  <2>2. Underway
    BY <2>1 DEF Underway
  <2>3. ASSUME NEW i \in 1 .. Len(air')
        PROVE  Last(i)'
    <3>1. CASE air'[i].code = "rest"
      BY <3>1 DEF Last
    <3>2. CASE \E j \in 1 .. Len(air) : /\ air'[i] = air[j]
                                        /\ (j = Len(air) <=> i = Len(air'))
      <4>1. PICK j \in 1 .. Len(air) : air'[i] = air[j] /\ (j = Len(air) <=> i = Len(air'))
        BY <3>2
      <4>2. Last(j)
        BY <2>2 DEF WhenUnderway
      <4>3. QED
        BY <4>1, <4>2 DEF Last
    <3>3. QED
      BY <1>1, <3>1, <3>2
  <2>4. ~NoHello' => NoEnd'
    BY <1>1, <2>2 DEF WhenUnderway
  <2>5. QED
    BY <2>3, <2>4 DEF WhenUnderway
<1>4. Given'
  <2>1. Derailed => Derailed'
    BY <1>1 DEF Derailed
  <2>2. QED
    BY <2>1 DEF Given, Underway, Proper
<1>5. WhenFailed'
  <2>1. SUFFICES ASSUME Failed', ~NoHello' PROVE \A i \in 1 .. Len(air') : air'[i].code = "s4" => air'[i].w12 = 1
    BY DEF WhenFailed, Failed
  <2>2. \A i \in 1 .. Len(air) : air[i].code = "s4" => air[i].w12 = 1
    BY <1>1, <2>1 DEF WhenFailed, Failed
  <2>3. QED
    BY <1>1, <2>2
<1>6. Otherwise'
  BY <1>1 DEF Otherwise
<1>7. Believed'
  BY DEF Believed
<1>8. QED
  BY <1>1, <1>2, <1>3, <1>4, <1>5, <1>6, <1>7

\* The modem has said hello.
LEMMA GreetedRight ==
  ASSUME Types, Types', Right, ~blind, NEW at \in {"greet", "nudge"}, RawRead(at, 48), Greeted,
         pc' = "reply", claimed' = claimed
  PROVE  Right'
<1> USE DEF Right
<1>1. pc = at /\ modem' = modem /\ opts' = opts /\ Shifted /\ air[1].code = "s1" /\ iobuf'.w8 = air[1].w8
  <2>1. /\ pc = at /\ modem' = modem /\ opts' = opts /\ iolen' = 48 /\ iobuf'.code = "s1"
        /\ \/ /\ Shifted
              /\ IF air[1].code = "rest" THEN iobuf'.code = "rest"
                 ELSE iobuf'.code = air[1].code /\ iobuf'.w8 = air[1].w8
           \/ /\ Parted /\ (air[1].len > 48 \/ iolen' = 12) /\ iobuf'.code = air[1].code
           \/ iolen' = 0
    BY RawReadIs DEF Greeted
  <2>2. CASE Parted /\ air[1].len > 48 /\ iobuf'.code = air[1].code
    <3>1. 1 \in 1 .. Len(air)
      BY <2>2 DEF Parted, Types
    <3>2. air[1].len = 48
      BY <2>1, <2>2, <3>1 DEF InTurn
    <3>3. QED
      BY <2>2, <3>2
  <2>3. QED
    BY <2>1, <2>2
<1>2. Len(air) \in Nat /\ 1 \in 1 .. Len(air)
  BY <1>1 DEF Types, Shifted
<1>3. ~NoHello /\ iobuf'.w8 = 2
  BY <1>1, <1>2 DEF NoHello, InTurn
<1>4. /\ InTurn' /\ (NoEnd => NoEnd')
      /\ \A i \in 1 .. Len(air') : air'[i].code = "rest"
                                   \/ \E j \in 1 .. Len(air) : /\ air'[i] = air[j]
                                                               /\ (j = Len(air) <=> i = Len(air'))
  BY <1>1, <1>3, ReadInTurn
<1>5. WhenUntouched'
  BY <1>1, <1>4 DEF WhenUntouched, Untouched
<1>6. WhenUnderway'
  <2>1. SUFFICES ASSUME Underway' PROVE WhenUnderway'
    BY DEF WhenUnderway
  <2>2. Underway
    BY <1>1, <2>1 DEF Underway
  <2>3. ASSUME NEW i \in 1 .. Len(air')
        PROVE  Last(i)'
    <3>1. CASE air'[i].code = "rest"
      BY <3>1 DEF Last
    <3>2. CASE \E j \in 1 .. Len(air) : /\ air'[i] = air[j]
                                        /\ (j = Len(air) <=> i = Len(air'))
      <4>1. PICK j \in 1 .. Len(air) : air'[i] = air[j] /\ (j = Len(air) <=> i = Len(air'))
        BY <3>2
      <4>2. Last(j)
        BY <2>2 DEF WhenUnderway
      <4>3. QED
        BY <1>1, <4>1, <4>2 DEF Last
    <3>3. QED
      BY <1>4, <3>1, <3>2
  <2>4. NoEnd'
    BY <1>3, <1>4, <2>2 DEF WhenUnderway
  <2>5. QED
    BY <1>1, <2>3, <2>4 DEF WhenUnderway
<1>7. Given'
  BY <1>1, <1>3 DEF Given, Derailed, Underway, Proper
<1>8. WhenFailed'
  <2>1. SUFFICES ASSUME Failed' PROVE WhenFailed'
    BY DEF WhenFailed
  <2>2. \A i \in 1 .. Len(air) : air[i].code = "s4" => air[i].w12 = 1
    BY <1>1, <1>3, <2>1 DEF WhenFailed, Failed
  <2>3. \A i \in 1 .. Len(air') : air'[i].code = "s4" => air'[i].w12 = 1
    BY <1>4, <2>2
  <2>4. QED
    BY <1>1, <2>1, <2>3 DEF WhenFailed, Failed
<1>9. Otherwise'
  BY <1>1, <1>3 DEF Otherwise
<1>10. Believed'
  BY <1>1 DEF Believed, HelloLabels
<1>11. QED
  BY <1>4, <1>5, <1>6, <1>7, <1>8, <1>9, <1>10

\* The message of the modem that a program goes on with: a request, an end of the image or, behind
\* the first part of a message, nothing that is one.
LEMMA PieceRight ==
  ASSUME Types, Types', Right, ~blind, ~blind', NEW at \in {"reply", "piece"}, RawRead(at, 20), iolen' # 0,
         at = "reply" => iobuf'.w8 # 2 /\ iobuf'.w8 # 0,
         pc' = "piece", claimed' = claimed
  PROVE  Right'
<1> USE DEF Right
<1>1. /\ pc = at /\ modem' = modem /\ opts' = opts /\ waiting /\ waiting' = FALSE /\ iobuf \in Answers
      /\ \/ /\ Shifted /\ air[1].len <= 20
            /\ IF air[1].code = "rest"
               THEN iobuf'.code = "rest" /\ iobuf'.w8 = iobuf.w8
               ELSE /\ iobuf'.code = air[1].code /\ iobuf'.w8 = air[1].w8
                    /\ iobuf'.w12 = IF air[1].len > 12 THEN air[1].w12 ELSE iobuf.w12
         \/ /\ Parted /\ (air[1].len > 20 \/ (air[1].len > 12 /\ air[1].code # "s4"))
            /\ iobuf'.code = air[1].code /\ iobuf'.w8 = air[1].w8
  BY RawReadIs DEF Types
<1>2. Len(air) \in Nat /\ Len(air') \in Nat /\ 1 \in 1 .. Len(air)
  BY SMTT(60), <1>1 DEF Types, Shifted, Parted
<1>3. air[1].code # "s1"
  <2>1. CASE at = "piece"
    BY <1>1, <1>2, <2>1 DEF Believed, NoHello
  <2>2. CASE at = "reply"
    BY <1>1, <1>2, <2>2 DEF InTurn
  <2>3. QED
    BY <2>1, <2>2
<1>4. at = "reply" => air[1].code # "rest"
  BY <1>1, <1>2 DEF InTurn
<1>5. NoHello
  <2>1. CASE at = "piece"
    BY <1>1, <2>1 DEF Believed
  <2>2. CASE at = "reply"
    <3>1. ASSUME NEW j \in 1 .. Len(air), air[j].code = "s1"
          PROVE  FALSE
      <4>1. \A i \in 1 .. j - 1 : air[i].code \in {"s1", "rest"}
        BY <3>1 DEF InTurn
      <4>2. j = 1
        BY <1>2, <1>3, <1>4, <2>2, <4>1
      <4>3. QED
        BY <1>3, <3>1, <4>2
    <3>2. QED
      BY <3>1 DEF NoHello
  <2>3. QED
    BY <2>1, <2>2
<1>6. /\ InTurn' /\ NoHello'
      /\ \A i \in 1 .. Len(air') : air'[i].code = "rest"
                                   \/ \E j \in 1 .. Len(air) : /\ air'[i] = air[j]
                                                               /\ (j = Len(air) <=> i = Len(air'))
  BY <1>1, <1>5, ReadInTurn
<1>7. ~Untouched
  <2>1. SUFFICES ASSUME Untouched PROVE FALSE
    OBVIOUS
  <2>2. pc # "piece" /\ air[1].code \in {"s1", "rest"}
    BY <1>2, <2>1 DEF WhenUntouched
  <2>3. QED
    BY <1>1, <1>3, <1>4, <2>2
<1>8. /\ air[1].code = "s3" => air[1].len = 20
      /\ air[1].code = "s4" => air[1].len = 16
  BY <1>2 DEF InTurn
<1>9. ASSUME Underway
      PROVE  WhenUnderway' /\ Given'
  <2>1. \A i \in 1 .. Len(air) : Last(i)
    BY <1>9 DEF WhenUnderway
  <2>2. Last(1) /\ (at = "reply" => air[1].code # "s4")
    BY <1>1, <1>2, <1>9, <2>1 DEF WhenUnderway, NoEnd
  <2>3. ASSUME NEW i \in 1 .. Len(air')
        PROVE  Last(i)'
    <3>1. CASE air'[i].code = "rest"
      BY <3>1 DEF Last
    <3>2. CASE \E j \in 1 .. Len(air) : /\ air'[i] = air[j]
                                        /\ (j = Len(air) <=> i = Len(air'))
      <4>1. PICK j \in 1 .. Len(air) : air'[i] = air[j] /\ (j = Len(air) <=> i = Len(air'))
        BY <3>2
      <4>2. Last(j)
        BY <2>1
      <4>3. QED
        BY <1>1, <4>1, <4>2 DEF Last
    <3>3. QED
      BY <1>6, <3>1, <3>2
  <2>4. air[1].code \in {"rest", "s3", "s4"}
    BY <1>3, <2>2 DEF Last
  <2>5. CASE air[1].code = "rest"
    <3>1. iobuf'.code = "rest"
      BY <1>1, <2>5
    <3>2. Derailed'
      BY <1>1, <1>6, <3>1 DEF Derailed
    <3>3. WhenUnderway'
      BY <1>6, <2>3, <3>1 DEF WhenUnderway
    <3>4. QED
      BY <3>2, <3>3 DEF Given
  <2>6. CASE air[1].code = "s3"
    <3>1. 1 = Len(air) /\ modem.asked # Missing /\ air[1].w12 = modem.asked /\ air[1].len = 20
      BY <1>8, <2>2, <2>6 DEF Last
    <3>2. iobuf'.code = "s3"
      BY <1>1, <2>6
    <3>3. \/ air' = <<>> /\ iobuf'.w12 = modem.asked
          \/ Len(air') = 1 /\ air'[1].code = "rest"
      <4>1. CASE Shifted
        <5>1. Len(air') = 0
          BY <3>1, <4>1 DEF Shifted
        <5>2. air' = <<>> /\ ~Parted
          BY <3>1, <5>1 DEF Types, Parted
        <5>3. iobuf'.w12 = air[1].w12
          BY <1>1, <2>6, <3>1, <5>2
        <5>4. QED
          BY <3>1, <5>2, <5>3
      <4>2. CASE Parted
        BY <3>1, <4>2 DEF Parted
      <4>3. QED
        BY <1>1, <4>1, <4>2
    <3>4. WhenUnderway'
      <4>1. air' = <<>> => Len(air') = 0
        OBVIOUS
      <4>2. QED
        BY <1>1, <1>6, <2>3, <3>1, <3>2, <3>3, <4>1 DEF WhenUnderway
    <3>5. ~Derailed
      BY <1>1, <2>6 DEF Derailed
    <3>6. Given'
      BY <1>1, <1>9, <3>5 DEF Given, Proper
    <3>7. QED
      BY <3>4, <3>6
  <2>7. CASE air[1].code = "s4"
    <3>1. 1 = Len(air) /\ modem.want = {} /\ modem.asked = Missing /\ air[1].w12 = 0 /\ air[1].len = 16
      BY <1>8, <2>2, <2>7 DEF Last
    <3>2. Shifted /\ iobuf'.code = "s4" /\ iobuf'.w12 = 0
      BY <1>1, <2>7, <3>1
    <3>3. air' = <<>>
      <4>1. Len(air') = 0
        BY <3>1, <3>2 DEF Shifted
      <4>2. QED
        BY <4>1 DEF Types
    <3>4. WhenUnderway'
      BY <1>1, <1>6, <2>3, <3>1, <3>2, <3>3 DEF WhenUnderway
    <3>5. ~Derailed
      BY <1>1, <2>7 DEF Derailed
    <3>6. Given'
      BY <1>1, <1>9, <3>5 DEF Given, Proper
    <3>7. QED
      BY <3>4, <3>6
  <2>8. QED
    BY <2>4, <2>5, <2>6, <2>7
<1>10. WhenUnderway' /\ Given'
  <2>1. Underway' = Underway
    BY <1>1 DEF Underway
  <2>2. CASE ~Underway
    BY <2>1, <2>2 DEF WhenUnderway, Given
  <2>3. QED
    BY <1>9, <2>2
<1>11. WhenUntouched'
  BY <1>1, <1>7 DEF WhenUntouched, Untouched
<1>12. WhenFailed'
  <2>1. SUFFICES ASSUME Failed PROVE WhenFailed'
    BY <1>1 DEF WhenFailed, Failed
  <2>2. \A i \in 1 .. Len(air) : air[i].code = "s4" => air[i].w12 = 1
    BY <1>1, <2>1 DEF WhenFailed
  <2>3. \A i \in 1 .. Len(air') : air'[i].code = "s4" => air'[i].w12 = 1
    BY <1>6, <2>2
  <2>4. iobuf'.code = "s4" => iobuf'.w12 = 1
    <3>1. SUFFICES ASSUME iobuf'.code = "s4" PROVE iobuf'.w12 = 1
      OBVIOUS
    <3>2. air[1].code = "s4" /\ air[1].len = 16
      BY <1>1, <1>8, <3>1
    <3>3. QED
      BY <1>1, <1>2, <2>2, <3>2
  <2>5. QED
    BY <1>1, <2>1, <2>3, <2>4 DEF WhenFailed, Failed
<1>13. Otherwise'
  <2>1. pc \in {"reply", "piece"}
    BY <1>1
  <2>2. QED
    BY <1>1, <2>1 DEF Otherwise
<1>14. Believed'
  <2>1. ~(claimed /\ opts.prog = "sahara")
    BY <1>1 DEF Believed, HelloLabels
  <2>2. QED
    BY <1>1, <1>6, <2>1 DEF Believed
<1>15. QED
  BY <1>6, <1>10, <1>11, <1>12, <1>13, <1>14

\* The modem in Sahara: it is at one of three places.
LEMMA SaharaStates ==
  ASSUME Types
  PROVE  modem.mode = "sahara" => Untouched \/ Underway \/ Failed
BY DEF Types, Modems, Untouched, Underway, Failed

\* What an answer in Sahara can be, for a request that has been received.
LEMMA Received ==
  ASSUME Types, NEW r \in Requests, NEW a \in Answers, modem.mode = "sahara",
         <<modem', <<a>>>> \in React(modem, r)
  PROVE  /\ modem' \in Modems /\ a.code \in {"s1", "s3", "s4", "s6"}
         /\ r.cmd # "piece" => modem'.ram = modem.ram
         /\ \/ /\ r.cmd = "nudge" /\ Fresh(modem) /\ modem' = modem
               /\ a.code = "s1" /\ a.len = 48 /\ a.w8 = 2
            \/ /\ r.cmd = "hellorsp" /\ Fresh(modem) /\ modem'.mode = "sahara" /\ modem'.stat = modem.stat
               /\ \E p \in modem.want : /\ modem'.asked = p /\ modem'.want = modem.want \ {p}
                                        /\ a.code = "s3" /\ a.len = 20 /\ a.w12 = p
            \/ /\ r.cmd = "piece" /\ modem.asked # Missing /\ modem'.mode = "sahara"
               /\ modem'.ram[modem.asked] = r.data
               /\ \A b \in 0 .. Blocks : b # modem.asked => modem'.ram[b] = modem.ram[b]
               /\ \/ \E p \in modem.want : /\ modem'.asked = p /\ modem'.want = modem.want \ {p}
                                           /\ modem'.stat = modem.stat
                                           /\ a.code = "s3" /\ a.len = 20 /\ a.w12 = p
                  \/ /\ \A p \in modem.want : p = Blocks
                     /\ modem'.asked = Missing /\ modem'.want = {}
                     /\ a.code = "s4" /\ a.len = 16 /\ a.w12 = modem'.stat
            \/ /\ r.cmd = "done" /\ modem.want = {} /\ modem.asked = Missing /\ a.code = "s6"
               /\ modem' = IF modem.stat = 0 THEN Started(modem) ELSE modem
            \/ /\ modem'.mode = "sahara" /\ modem'.stat = 1 /\ modem'.asked = Missing /\ modem'.want = {}
               /\ a.code = "s4" /\ a.len = 16 /\ a.w12 = 1
<1> DEFINE x == <<modem', <<a>>>>
<1>1. x \in Sahara(modem, r) /\ x[1] = modem' /\ x[2] = <<a>> /\ x[2][1] = a /\ modem \in Modems
  BY DEF React, Types
<1> HIDE DEF x
<1>2. PICK m2 \in Modems, c \in Answers :
            /\ x = <<m2, <<c>>>>
            /\ c.code \in {"s1", "s3", "s4", "s6"}
            /\ r.cmd # "piece" => m2.ram = modem.ram
            /\ \/ /\ r.cmd = "nudge" /\ Fresh(modem) /\ m2 = modem
                  /\ c.code = "s1" /\ c.len = 48 /\ c.w8 = 2
               \/ /\ r.cmd = "hellorsp" /\ Fresh(modem) /\ m2.mode = modem.mode /\ m2.stat = modem.stat
                  /\ \E p \in modem.want : /\ m2.asked = p /\ m2.want = modem.want \ {p}
                                           /\ c.code = "s3" /\ c.len = 20 /\ c.w12 = p
               \/ /\ r.cmd = "piece" /\ modem.asked # Missing /\ m2.mode = modem.mode
                  /\ m2.ram[modem.asked] = r.data
                  /\ \A b \in 0 .. Blocks : b # modem.asked => m2.ram[b] = modem.ram[b]
                  /\ \/ \E p \in modem.want : /\ m2.asked = p /\ m2.want = modem.want \ {p}
                                              /\ m2.stat = modem.stat
                                              /\ c.code = "s3" /\ c.len = 20 /\ c.w12 = p
                     \/ /\ \A p \in modem.want : p = Blocks
                        /\ m2.asked = Missing /\ m2.want = {}
                        /\ c.code = "s4" /\ c.len = 16 /\ c.w12 = m2.stat
               \/ /\ r.cmd = "done" /\ modem.want = {} /\ modem.asked = Missing /\ c.code = "s6"
                  /\ m2 = IF modem.stat = 0 THEN Started(modem) ELSE modem
               \/ /\ m2.mode = modem.mode /\ m2.stat = 1 /\ m2.asked = Missing /\ m2.want = {}
                  /\ c.code = "s4" /\ c.len = 16 /\ c.w12 = 1
  BY <1>1, SaharaIs
<1>3. m2 = modem' /\ c = a
  BY <1>1, <1>2
<1>4. QED
  BY <1>2, <1>3

\* The reply to the hello: a modem that waits for it asks for the first piece, any other breaks off.
LEMMA ReplyRight ==
  ASSUME Types, Types', Right, NEW r \in Requests, r.cmd = "hellorsp", NEW n \in 0 .. Len(air), Sent(n, r),
         pc = "reply", pc' = pc, opts' = opts, claimed' = claimed, iobuf' = iobuf, waiting' = TRUE
  PROVE  Right'
<1> USE DEF Right
<1>1. Kept(n) /\ modem.mode = "sahara" /\ Len(air) \in Nat /\ Len(air') \in Nat /\ n \in Nat
  BY SMTT(60) DEF Sent, Kept, Otherwise, Types
<1>2. CASE modem' = modem /\ Len(air') = Len(air) - n
  BY <1>1, <1>2, LostRight
<1>3. CASE BrokenOff(n)
  BY <1>1, <1>3, BrokenRight
<1>4. CASE Outside(n)
  BY <1>1, <1>4 DEF Outside
<1>5. CASE /\ Untouched
           /\ \E a \in Answers : /\ <<modem', <<a>>>> \in React(modem, r)
                                 /\ Len(air') = Len(air) - n + 1 => air'[Len(air) - n + 1] = a
  <2>1. PICK a \in Answers : /\ <<modem', <<a>>>> \in React(modem, r)
                             /\ Len(air') = Len(air) - n + 1 => air'[Len(air) - n + 1] = a
    BY <1>5
  <2>2. /\ modem.stat = 0 /\ \A i \in 1 .. Len(air) : air[i].code \in {"s1", "rest"}
        /\ modem.asked = Missing /\ modem.want = 0 .. Blocks
    BY <1>5 DEF WhenUntouched, Untouched, Fresh
  <2>3. CASE /\ modem'.mode = "sahara" /\ modem'.stat = 1 /\ modem'.asked = Missing /\ modem'.want = {}
             /\ a.code = "s4" /\ a.len = 16 /\ a.w12 = 1
    <3>1. BrokenOff(n)
      BY <1>1, <2>1, <2>3 DEF BrokenOff, Sent
    <3>2. QED
      BY <1>3, <3>1
  <2>4. CASE /\ modem'.mode = "sahara" /\ modem'.stat = modem.stat /\ modem'.ram = modem.ram
             /\ \E p \in modem.want : /\ modem'.asked = p /\ modem'.want = modem.want \ {p}
                                      /\ a.code = "s3" /\ a.len = 20 /\ a.w12 = p
    <3>1. PICK p \in 0 .. Blocks : /\ modem'.asked = p /\ modem'.want = (0 .. Blocks) \ {p}
                                   /\ a.code = "s3" /\ a.len = 20 /\ a.w12 = p
      BY <2>2, <2>4
    <3>2. \A i \in 1 .. Len(air') :
             \/ i <= Len(air) - n /\ n + i \in 1 .. Len(air) /\ air'[i] = air[n + i]
             \/ i = Len(air') /\ i = Len(air) - n + 1 /\ air'[i] = a
      BY <1>1, <2>1, Places DEF Sent
    <3>3. InTurn'
      <4>1. pc' = "reply" => iobuf'.w8 = 2
        BY DEF InTurn
      <4>2. ASSUME NEW i \in 1 .. Len(air'), NEW j \in 1 .. Len(air'), i < j, air'[j].code = "s1"
            PROVE  air'[i] = air[n + i]
        <5>1. i <= Len(air) - n
          BY <1>1, <3>1, <3>2, <4>2
        <5>2. QED
          BY <1>1, <5>1 DEF Kept
      <4>3. \A i \in 1 .. Len(air') :
              \/ n + i \in 1 .. Len(air) /\ air'[i] = air[n + i]
              \/ /\ air'[i].code \notin {"s1", "rest"}
                 /\ air'[i].code = "s3" => air'[i].len = 20
                 /\ air'[i].code = "s4" => air'[i].len = 16
        BY <3>1, <3>2
      <4>4. QED
        BY <1>1, <4>1, <4>2, <4>3, InTurnBehind
    <3>4. p # Missing /\ ~Fresh(modem)'
      BY <3>1 DEF Missing, Fresh
    <3>5. \A i \in 1 .. Len(air') : Last(i)' /\ air'[i].code # "s4"
      BY <2>2, <3>1, <3>2, <3>4 DEF Last
    <3>6. Underway' /\ ~Untouched' /\ ~Failed'
      BY <2>2, <2>4, <3>4 DEF Underway, Untouched, Failed
    <3>7. WhenUnderway'
      BY <3>5 DEF WhenUnderway, NoEnd
    <3>8. Proper'
      BY <3>1, Constants DEF Proper
    <3>9. Believed'
      BY DEF Believed, HelloLabels
    <3>10. QED
      BY <2>4, <3>3, <3>6, <3>7, <3>8, <3>9 DEF WhenUntouched, Given, WhenFailed, Otherwise
  <2>5. QED
    BY <1>1, <2>1, <2>3, <2>4, Received
<1>6. CASE ~Untouched
  <2>1. ~Fresh(modem)
    BY <1>1, <1>6 DEF Untouched
  <2>2. QED
    BY <1>2, <1>3, <1>4, <2>1, OutOfTurn
<1>7. QED
  BY <1>2, <1>5, <1>6 DEF Sent

\* The nudge: a modem that waits says hello again.
LEMMA NudgeRight ==
  ASSUME Types, Types', Right, NEW r \in Requests, r.cmd = "nudge", Sent(0, r),
         pc = "nudge", pc' = pc, opts' = opts, claimed' = claimed, iobuf' = iobuf
  PROVE  Right'
<1> USE DEF Right
<1>1. Kept(0) /\ Len(air) \in Nat /\ Len(air') \in Nat /\ 0 \in 0 .. Len(air) /\ 0 \in Nat
  BY DEF Sent, Kept, Types
<1>2. CASE modem' = modem /\ Len(air') = Len(air) - 0
  BY <1>1, <1>2, LostRight
<1>3. CASE BrokenOff(0)
  BY <1>1, <1>3, BrokenRight
<1>4. CASE Outside(0)
  <2>1. ~(claimed /\ opts.prog = "sahara")
    BY DEF Believed, HelloLabels
  <2>2. QED
    BY <1>1, <1>4, <2>1, OutsideRight
<1>5. CASE /\ Untouched
           /\ \E a \in Answers : /\ <<modem', <<a>>>> \in React(modem, r)
                                 /\ Len(air') = Len(air) - 0 + 1 => air'[Len(air) - 0 + 1] = a
  <2>1. PICK a \in Answers : /\ <<modem', <<a>>>> \in React(modem, r)
                             /\ Len(air') = Len(air) - 0 + 1 => air'[Len(air) - 0 + 1] = a
    BY <1>5
  <2>2. /\ modem.stat = 0 /\ \A i \in 1 .. Len(air) : air[i].code \in {"s1", "rest"}
        /\ modem.mode = "sahara"
    BY <1>5 DEF WhenUntouched, Untouched
  <2>3. CASE /\ modem'.mode = "sahara" /\ modem'.stat = 1 /\ modem'.asked = Missing /\ modem'.want = {}
             /\ a.code = "s4" /\ a.len = 16 /\ a.w12 = 1
    <3>1. BrokenOff(0)
      BY <1>1, <2>1, <2>2, <2>3 DEF BrokenOff, Sent
    <3>2. QED
      BY <1>3, <3>1
  <2>4. CASE modem' = modem /\ a.code = "s1" /\ a.len = 48 /\ a.w8 = 2
    <3>1. \A i \in 1 .. Len(air') : \/ i \in 1 .. Len(air) /\ air'[i] = air[i]
                                    \/ i = Len(air) + 1 /\ air'[i] = a
      <4>1. Len(air') = Len(air) \/ Len(air') = Len(air) + 1
        BY <1>1 DEF Sent
      <4>2. QED
        BY <1>1, <2>1, <4>1 DEF Kept
    <3>2. \A i \in 1 .. Len(air') : air'[i].code \in {"s1", "rest"}
      BY <2>2, <2>4, <3>1
    <3>3. InTurn'
      <4>1. \A j \in 1 .. Len(air') : air'[j].code = "s1" => air'[j].w8 = 2 /\ air'[j].len = 48
        BY <2>4, <3>1 DEF InTurn
      <4>2. \A j \in 1 .. Len(air') : \A i \in 1 .. j - 1 : i \in 1 .. Len(air')
        BY <1>1
      <4>3. \A i \in 1 .. Len(air') : air'[i].code = "rest" => i = 1 /\ air'[i].w8 = 0
        BY <2>4, <3>1 DEF InTurn
      <4>4. QED
        BY <3>2, <4>1, <4>2, <4>3 DEF InTurn
    <3>4. WhenUntouched'
      BY <2>2, <2>4, <3>2 DEF WhenUntouched
    <3>5. Untouched' /\ ~Underway' /\ ~Failed'
      BY <1>5, <2>2, <2>4 DEF Underway, Untouched, Failed
    <3>6. Believed'
      BY DEF Believed, HelloLabels
    <3>7. QED
      BY <2>2, <2>4, <3>3, <3>4, <3>5, <3>6 DEF WhenUnderway, Given, WhenFailed, Otherwise
  <2>5. QED
    BY <2>1, <2>2, <2>3, <2>4, Received
<1>6. CASE ~Untouched
  <2>1. ~Fresh(modem) \/ modem.mode # "sahara"
    BY <1>6 DEF Untouched
  <2>2. QED
    BY <1>1, <1>2, <1>3, <1>4, <2>1, OutOfTurn
<1>7. QED
  BY <1>2, <1>5, <1>6 DEF Sent

LEMMA SameAnswers ==
  ASSUME NEW s \in Seq(Answers), NEW t \in Seq(Answers), Len(s) = Len(t), \A i \in 1 .. Len(t) : s[i] = t[i]
  PROVE  s = t
OBVIOUS

\* A piece that has been asked for. In answer to the first part of a request it may be a wrong one, and
\* then the rest is on the line.
LEMMA PieceSentRight ==
  ASSUME Types, Types', Right, NEW r \in Requests, r.cmd = "piece", r.data = Piece(iobuf.w12), Sent(0, r),
         pc = "piece", ~waiting, iobuf.code = "s3", pc' = "piece", waiting' = TRUE,
         opts' = opts, claimed' = claimed
  PROVE  Right'
<1> USE DEF Right
<1>1. /\ Len(air) \in Nat /\ Len(air') \in Nat /\ 0 \in 0 .. Len(air) /\ Kept(0)
      /\ Len(air') = Len(air) \/ Len(air') = Len(air) + 1
      /\ \A i \in 1 .. Len(air) : air'[i] = air[i]
  BY DEF Sent, Kept, Types
<1>2. modem.mode = "sahara" /\ ~Untouched /\ ~Derailed /\ NoHello
  BY DEF Otherwise, WhenUntouched, Derailed, Believed
<1>3. ~(claimed /\ opts.prog = "sahara")
  BY DEF Believed, HelloLabels
<1>4. CASE modem' = modem /\ Len(air') = Len(air)
  <2>1. air' = air
    BY <1>1, <1>4, SameAnswers DEF Types
  <2>2. InTurn' /\ NoHello'
    BY <1>2, <2>1 DEF InTurn, NoHello
  <2>3. WhenUnderway'
    <3>1. Underway' = Underway
      BY <1>4 DEF Underway
    <3>2. \A i \in 1 .. Len(air') : Last(i)' = Last(i)
      BY <1>4, <2>1 DEF Last
    <3>3. QED
      BY <2>1, <2>2, <3>1, <3>2 DEF WhenUnderway
  <2>4. Given'
    BY <1>2, <1>4 DEF Given, Underway, Proper
  <2>5. WhenFailed' /\ WhenUntouched' /\ Otherwise'
    BY <1>2, <1>4, <2>1, <2>2 DEF WhenFailed, WhenUntouched, Otherwise, Failed, Untouched
  <2>6. Believed'
    BY <1>3, <2>2 DEF Believed
  <2>7. QED
    BY <2>2, <2>3, <2>4, <2>5, <2>6
<1>5. ASSUME NEW a \in Answers, <<modem', <<a>>>> \in React(modem, r),
             Len(air') = Len(air) + 1 => air'[Len(air) + 1] = a
      PROVE  Right'
  <2>1. \A i \in 1 .. Len(air') : \/ i \in 1 .. Len(air) /\ air'[i] = air[i]
                                  \/ i = Len(air') /\ i = Len(air) + 1 /\ air'[i] = a
    BY <1>1, <1>5
  <2>2. ASSUME /\ modem'.mode = "sahara" /\ modem'.stat = 1 /\ modem'.asked = Missing /\ modem'.want = {}
               /\ a.code = "s4" /\ a.len = 16 /\ a.w12 = 1
        PROVE  Right'
    <3>1. \A i \in 1 .. Len(air') : air'[i].code # "s1"
      BY <1>2, <2>1, <2>2 DEF NoHello
    <3>2. \A i \in 1 .. Len(air') : \/ 0 + i \in 1 .. Len(air) /\ air'[i] = air[0 + i]
                                    \/ /\ air'[i].code \notin {"s1", "rest"}
                                       /\ air'[i].code = "s3" => air'[i].len = 20
                                       /\ air'[i].code = "s4" => air'[i].len = 16
      BY <2>1, <2>2
    <3>3. InTurn'
      BY <1>1, <3>1, <3>2, InTurnBehind
    <3>4. Failed' /\ ~Untouched' /\ ~Underway'
      <4>1. 0 \in 0 .. Blocks
        BY Constants
      <4>2. QED
        BY <2>2, <4>1 DEF Failed, Untouched, Underway, Fresh
    <3>5. \A i \in 1 .. Len(air) : air[i].code = "s4" => air[i].w12 = 1
      <4>1. CASE Failed
        BY <4>1 DEF WhenFailed
      <4>2. CASE Underway
        <5>1. air = <<>> \/ (Len(air) = 1 /\ air[1].code = "rest")
          BY <4>2 DEF WhenUnderway
        <5>2. QED
          BY <1>1, <5>1
      <4>3. QED
        BY <1>2, <4>1, <4>2, SaharaStates
    <3>6. WhenFailed'
      BY <2>1, <2>2, <3>5 DEF WhenFailed
    <3>7. Believed' /\ Otherwise'
      BY <1>3, <2>2, <3>1 DEF Believed, Otherwise, NoHello
    <3>8. QED
      BY <3>3, <3>4, <3>6, <3>7 DEF WhenUntouched, WhenUnderway, Given
  <2>3. ASSUME /\ modem.asked # Missing /\ modem'.mode = "sahara"
               /\ modem'.ram[modem.asked] = r.data
               /\ \A b \in 0 .. Blocks : b # modem.asked => modem'.ram[b] = modem.ram[b]
               /\ \/ \E p \in modem.want : /\ modem'.asked = p /\ modem'.want = modem.want \ {p}
                                           /\ modem'.stat = modem.stat
                                           /\ a.code = "s3" /\ a.len = 20 /\ a.w12 = p
                  \/ /\ \A p \in modem.want : p = Blocks
                     /\ modem'.asked = Missing /\ modem'.want = {}
                     /\ a.code = "s4" /\ a.len = 16 /\ a.w12 = modem'.stat
        PROVE  Right'
    <3>1. /\ Underway /\ modem.stat = 0 /\ modem.asked \in 0 .. Blocks /\ modem.want \subseteq 0 .. Blocks
          /\ modem'.stat \in {0, 1}
      BY <1>2, <2>3, SaharaStates DEF WhenFailed, Underway, Types, Modems
    <3>2. Proper
      BY <1>2, <3>1 DEF Given
    <3>3. /\ \A i \in 1 .. Len(air) : air[i].code = "rest"
          /\ air = <<>> => iobuf.w12 = modem.asked
          /\ air # <<>> => Len(air) = 1 /\ air[1].code = "rest"
      BY <1>1, <3>1 DEF WhenUnderway
    <3>4. a.code \in {"s3", "s4"} /\ (a.code = "s3" => a.len = 20) /\ (a.code = "s4" => a.len = 16)
      BY <2>3
    <3>5. \A i \in 1 .. Len(air') : air'[i].code # "s1"
      BY <1>2, <2>1, <3>4 DEF NoHello
    <3>6. InTurn'
      <4>1. \A i \in 1 .. Len(air') : \/ 0 + i \in 1 .. Len(air) /\ air'[i] = air[0 + i]
                                      \/ /\ air'[i].code \notin {"s1", "rest"}
                                         /\ air'[i].code = "s3" => air'[i].len = 20
                                         /\ air'[i].code = "s4" => air'[i].len = 16
        BY <2>1, <3>4
      <4>2. QED
        BY <1>1, <3>5, <4>1, InTurnBehind
    <3>7. NoHello' /\ Believed' /\ Otherwise'
      BY <1>3, <2>3, <3>5 DEF Believed, Otherwise, NoHello
    <3>8. ~Untouched'
      <4>1. 0 \in 0 .. Blocks /\ modem.want \subseteq 0 .. Blocks
        BY <3>1, Constants
      <4>2. CASE modem'.want = {}
        BY <4>1, <4>2 DEF Untouched, Fresh
      <4>3. CASE \E p \in modem.want : modem'.asked = p
        <5>1. modem'.asked # Missing
          BY <4>1, <4>3 DEF Missing
        <5>2. QED
          BY <5>1 DEF Untouched, Fresh
      <4>4. QED
        BY <2>3, <4>2, <4>3
    <3>9. ASSUME Underway'
          PROVE  WhenUnderway' /\ Given'
      <4>1. modem'.stat = 0
        BY <3>9 DEF Underway
      <4>2. ASSUME NEW i \in 1 .. Len(air')
            PROVE  Last(i)'
        <5>1. CASE i \in 1 .. Len(air) /\ air'[i] = air[i]
          BY <3>3, <5>1 DEF Last
        <5>2. CASE i = Len(air') /\ air'[i] = a
          <6>1. CASE \E p \in modem.want : modem'.asked = p /\ a.code = "s3" /\ a.w12 = p
            <7>1. modem'.asked # Missing
              BY <3>1, <6>1 DEF Missing
            <7>2. QED
              BY <5>2, <6>1, <7>1 DEF Last
          <6>2. CASE modem'.asked = Missing /\ modem'.want = {} /\ a.code = "s4" /\ a.w12 = modem'.stat
            BY <4>1, <5>2, <6>2 DEF Last
          <6>3. QED
            BY <2>3, <6>1, <6>2
        <5>3. QED
          BY <2>1, <5>1, <5>2
      <4>3. WhenUnderway'
        BY <3>7, <4>2 DEF WhenUnderway
      <4>4. CASE air = <<>>
        <5>1. r.data = Piece(modem.asked)
          BY <3>3, <4>4
        <5>2. modem.asked < Blocks => modem'.ram[modem.asked] = modem.asked
          <6>1. SUFFICES ASSUME modem.asked < Blocks PROVE Piece(modem.asked) = modem.asked
            BY <2>3, <5>1
          <6>2. modem.asked \in 0 .. Blocks - 1
            BY <3>1, <6>1, Constants
          <6>3. QED
            BY <6>2 DEF Piece, Image
        <5>3. Proper'
          <6>1. ASSUME NEW b \in 0 .. Blocks - 1
                PROVE  b \in modem'.want \/ b = modem'.asked \/ modem'.ram[b] = b
            <7>1. b \in 0 .. Blocks /\ b < Blocks
              BY Constants
            <7>2. b \in modem.want \/ b = modem.asked \/ modem.ram[b] = b
              BY <3>2 DEF Proper
            <7>3. CASE b = modem.asked
              BY <5>2, <7>1, <7>3
            <7>4. CASE b # modem.asked /\ modem.ram[b] = b
              BY <2>3, <7>1, <7>4
            <7>5. CASE b \in modem.want
              BY <2>3, <7>1, <7>5
            <7>6. QED
              BY <7>2, <7>3, <7>4, <7>5
          <6>2. QED
            BY <6>1 DEF Proper
        <5>4. QED
          BY <4>3, <5>3 DEF Given
      <4>5. CASE air # <<>>
        <5>1. Len(air) = 1 /\ air[1].code = "rest"
          BY <3>3, <4>5
        <5>2. Len(air') >= 1 /\ air'[1] = air[1]
          BY <1>1, <5>1
        <5>3. air' # <<>>
          BY <1>1, <5>2
        <5>4. Derailed'
          BY <3>7, <5>1, <5>2, <5>3 DEF Derailed
        <5>5. QED
          BY <4>3, <5>4 DEF Given
      <4>6. QED
        BY <4>4, <4>5
    <3>10. ASSUME Failed'
           PROVE  WhenFailed'
      <4>1. modem'.stat = 1 /\ modem.stat = 0
        BY <3>1, <3>10 DEF Failed
      <4>2. /\ modem'.asked = Missing /\ modem'.want = {} /\ a.code = "s4" /\ a.w12 = 1
        BY <2>3, <4>1
      <4>3. QED
        BY <2>1, <3>3, <4>2 DEF WhenFailed
    <3>11. WhenUnderway' /\ Given' /\ WhenFailed' /\ WhenUntouched'
      BY <3>8, <3>9, <3>10 DEF WhenUnderway, Given, WhenFailed, WhenUntouched
    <3>12. QED
      BY <3>6, <3>7, <3>11
  <2>4. QED
    BY <1>2, <1>5, <2>2, <2>3, Received
<1>6. CASE \E a \in Answers : /\ <<modem', <<a>>>> \in React(modem, r)
                              /\ Len(air') = Len(air) - 0 + 1 => air'[Len(air) - 0 + 1] = a
  <2>1. PICK a \in Answers : /\ <<modem', <<a>>>> \in React(modem, r)
                             /\ Len(air') = Len(air) - 0 + 1 => air'[Len(air) - 0 + 1] = a
    BY <1>6
  <2>2. Len(air) - 0 + 1 = Len(air) + 1
    BY <1>1
  <2>3. QED
    BY <1>5, <2>1, <2>2
<1>7. CASE modem' = modem /\ Len(air') = Len(air) - 0
  BY <1>1, <1>4, <1>7
<1>8. QED
  BY <1>6, <1>7 DEF Sent

\* The image is complete, and the program has read that it is good; or it is not, and it has not.
LEMMA DoneSentRight ==
  ASSUME Types, Types', Right, NEW r \in Requests, r.cmd = "done", Sent(0, r),
         pc = "piece", ~waiting, iobuf.code = "s4", pc' = "done", waiting' = TRUE, iobuf' = iobuf,
         opts' = opts, claimed' = claimed
  PROVE  Right'
<1> USE DEF Right
<1>1. /\ Len(air) \in Nat /\ Len(air') \in Nat /\ 0 \in 0 .. Len(air) /\ Kept(0)
      /\ Len(air') = Len(air) \/ Len(air') = Len(air) + 1
      /\ \A i \in 1 .. Len(air) : air'[i] = air[i]
  BY DEF Sent, Kept, Types
<1>2. modem.mode = "sahara" /\ ~Untouched /\ ~Derailed /\ NoHello
  BY DEF Otherwise, WhenUntouched, Derailed, Believed
<1>3. ~(claimed /\ opts.prog = "sahara")
  BY DEF Believed, HelloLabels
<1>4. /\ Underway => /\ modem.want = {} /\ modem.asked = Missing /\ air = <<>> /\ iobuf.w12 = 0
                     /\ modem.stat = 0 /\ Proper
      /\ Failed => /\ modem.want = {} /\ modem.asked = Missing /\ iobuf.w12 = 1 /\ modem.stat = 1
                   /\ \A i \in 1 .. Len(air) : air[i].code = "s4" => air[i].w12 = 1
      /\ Underway \/ Failed
  BY <1>2, SaharaStates DEF WhenUnderway, WhenFailed, Given, Underway, Failed
<1>5. CASE modem' = modem /\ Len(air') = Len(air)
  <2>1. air' = air
    BY <1>1, <1>5, SameAnswers DEF Types
  <2>2. InTurn' /\ NoHello'
    BY <1>2, <2>1 DEF InTurn, NoHello
  <2>3. WhenUnderway'
    <3>1. Underway' = Underway
      BY <1>5 DEF Underway
    <3>2. \A i \in 1 .. Len(air') : Last(i)' = Last(i)
      BY <1>5, <2>1 DEF Last
    <3>3. QED
      BY <1>4, <1>5, <2>1, <2>2, <3>1, <3>2 DEF WhenUnderway
  <2>4. Given'
    BY <1>2, <1>5 DEF Given, Underway, Proper
  <2>5. WhenFailed' /\ WhenUntouched' /\ Otherwise'
    BY <1>2, <1>4, <1>5, <2>1, <2>2 DEF WhenFailed, WhenUntouched, Otherwise, Failed, Untouched
  <2>6. Believed'
    BY <1>3, <2>2 DEF Believed
  <2>7. QED
    BY <2>2, <2>3, <2>4, <2>5, <2>6
<1>6. ASSUME NEW a \in Answers, <<modem', <<a>>>> \in React(modem, r),
             Len(air') = Len(air) + 1 => air'[Len(air) + 1] = a
      PROVE  Right'
  <2>1. a.code = "s6" /\ modem' = IF modem.stat = 0 THEN Started(modem) ELSE modem
    <3>1. modem.want = {} /\ modem.asked = Missing
      BY <1>4
    <3>2. <<modem', <<a>>>> \in {<<IF modem.stat = 0 THEN Started(modem) ELSE modem, <<DoneResponse>>>>}
      BY <1>2, <1>6, <3>1 DEF React, Sahara
    <3>3. a = DoneResponse /\ modem' = IF modem.stat = 0 THEN Started(modem) ELSE modem
      BY <3>2
    <3>4. QED
      BY <3>3, AnswersAre
  <2>2. \A i \in 1 .. Len(air') : \/ i \in 1 .. Len(air) /\ air'[i] = air[i]
                                  \/ i = Len(air') /\ i = Len(air) + 1 /\ air'[i] = a
    BY <1>1, <1>6
  <2>3. \A i \in 1 .. Len(air') : air'[i].code # "s1"
    BY <1>2, <2>1, <2>2 DEF NoHello
  <2>4. InTurn'
    <3>1. \A i \in 1 .. Len(air') : \/ 0 + i \in 1 .. Len(air) /\ air'[i] = air[0 + i]
                                    \/ /\ air'[i].code \notin {"s1", "rest"}
                                       /\ air'[i].code = "s3" => air'[i].len = 20
                                       /\ air'[i].code = "s4" => air'[i].len = 16
      BY <2>1, <2>2
    <3>2. QED
      BY <1>1, <2>3, <3>1, InTurnBehind
  <2>5. NoHello' /\ Believed'
    BY <1>3, <2>3 DEF Believed, NoHello
  <2>6. CASE Underway
    <3>1. Complete(modem.ram) /\ modem.stat = 0
      <4>1. \A b \in 0 .. Blocks - 1 : modem.ram[b] = b
        <5>1. modem.want = {} /\ modem.asked = Missing /\ Proper
          BY <1>4, <2>6
        <5>2. \A b \in 0 .. Blocks - 1 : b # modem.asked
          BY <5>1 DEF Missing
        <5>3. QED
          BY <5>1, <5>2 DEF Proper
      <4>2. QED
        BY <1>4, <2>6, <4>1 DEF Complete, Image
    <3>2. modem'.mode = "loader" /\ modem'.ram = modem.ram /\ modem'.stat = 0
      BY <2>1, <3>1 DEF Started, Types, Modems
    <3>3. QED
      BY <2>4, <2>5, <3>1, <3>2
         DEF WhenUntouched, WhenUnderway, Given, WhenFailed, Otherwise, Untouched, Underway, Failed
  <2>7. CASE Failed
    <3>1. modem' = modem
      BY <1>4, <2>1, <2>7
    <3>2. Failed' /\ ~Untouched' /\ ~Underway'
      BY <1>2, <2>7, <3>1 DEF Failed, Untouched, Underway
    <3>3. WhenFailed'
      BY <1>4, <2>1, <2>2, <2>7, <3>1 DEF WhenFailed
    <3>4. QED
      BY <1>2, <2>4, <2>5, <3>1, <3>2, <3>3 DEF WhenUntouched, WhenUnderway, Given, Otherwise
  <2>8. QED
    BY <1>4, <2>6, <2>7
<1>7. CASE \E a \in Answers : /\ <<modem', <<a>>>> \in React(modem, r)
                              /\ Len(air') = Len(air) - 0 + 1 => air'[Len(air) - 0 + 1] = a
  <2>1. PICK a \in Answers : /\ <<modem', <<a>>>> \in React(modem, r)
                             /\ Len(air') = Len(air) - 0 + 1 => air'[Len(air) - 0 + 1] = a
    BY <1>7
  <2>2. Len(air) - 0 + 1 = Len(air) + 1
    BY <1>1
  <2>3. QED
    BY <1>6, <2>1, <2>2
<1>8. CASE modem' = modem /\ Len(air') = Len(air) - 0
  BY <1>1, <1>5, <1>8
<1>9. QED
  BY <1>7, <1>8 DEF Sent

LEMMA NextRight ==
  ASSUME Types, AtPlace, Right, ~blind, ~blind', [Next]_vars
  PROVE  Right'
<1> USE DEF PblLabels, SaharaLabels, HelloLabels, WriteLabels
<1>1. Types'
  BY NextTypes
<1>2. [cmd |-> "nudge"] \in Requests /\ [cmd |-> "hellorsp"] \in Requests /\ [cmd |-> "done"] \in Requests
      /\ [cmd |-> "piece", data |-> Piece(iobuf.w12)] \in Requests
  BY RequestsAre
<1>3. claimed /\ opts.prog = "sahara" =>
         /\ modem.mode = "loader" /\ Complete(modem.ram) /\ modem.stat = 0
         /\ pc \in HelloLabels \cup {"end"}
  BY DEF Right, Believed
<1>4. CASE FramedSending
  BY <1>1, <1>4, FramedSends, FramedSendRight
<1>5. CASE FramedReading
  <2>1. FramedRead
    BY <1>5, FramedReads
  <2>2. /\ modem' = modem /\ opts' = opts /\ (air' = air \/ Shifted)
        /\ pc' \notin {"reply", "piece", "done"}
        /\ opts.prog = "sahara" => claimed' = claimed /\ pc' \in HelloLabels \cup {"end"}
    BY <2>1 DEF FramedRead, FramedLabels
  <2>3. QED
    BY <1>1, <1>3, <2>2, LeaveRight
<1>6. CASE FirstHello \/ SecondHello
  <2>1. PICK at \in {"greet", "nudge"} :
           /\ RawRead(at, 48) /\ claimed' = claimed /\ pc = at
           /\ pc' \in {"nudge", "end"} \/ (Greeted /\ pc' = "reply")
    BY <1>6 DEF FirstHello, SecondHello, RawRead
  <2>2. CASE Greeted /\ pc' = "reply"
    BY <1>1, <2>1, <2>2, GreetedRight
  <2>3. CASE pc' \in {"nudge", "end"}
    <3>1. modem' = modem /\ opts' = opts /\ (air' = air \/ Shifted \/ Parted)
      BY <2>1, RawReadIs
    <3>2. ~(claimed' /\ opts'.prog = "sahara")
      BY <1>3, <2>1, <3>1
    <3>3. QED
      BY <1>1, <2>3, <3>1, <3>2, LeaveRight
  <2>4. QED
    BY <2>1, <2>2, <2>3
<1>7. CASE FirstRequest \/ NextRequest
  <2>1. PICK at \in {"reply", "piece"} :
           /\ RawRead(at, 20) /\ claimed' = claimed /\ pc = at
           /\ \/ pc' = "end"
              \/ /\ pc' = "piece" /\ iolen' # 0
                 /\ at = "reply" => iobuf'.w8 \in {7, 13}
    BY <1>7 DEF FirstRequest, NextRequest, RawRead
  <2>2. CASE pc' = "piece" /\ iolen' # 0 /\ (at = "reply" => iobuf'.w8 \in {7, 13})
    <3>1. at = "reply" => iobuf'.w8 # 2 /\ iobuf'.w8 # 0
      BY <2>2
    <3>2. QED
      BY <1>1, <2>1, <2>2, <3>1, PieceRight
  <2>3. CASE pc' = "end"
    <3>1. modem' = modem /\ opts' = opts /\ (air' = air \/ Shifted \/ Parted)
      BY <2>1, RawReadIs
    <3>2. ~(claimed' /\ opts'.prog = "sahara")
      BY <1>3, <2>1, <3>1
    <3>3. QED
      BY <1>1, <2>3, <3>1, <3>2, LeaveRight
  <2>4. QED
    BY <2>1, <2>2, <2>3
<1>8. CASE DoneAnswer
  <2>1. /\ RawRead("done", 12) /\ pc = "done"
        /\ claimed' = (iolen' # 0 /\ iobuf'.w12 = 0)
        /\ pc' \in {"end", "hello1"}
    BY <1>8 DEF DoneAnswer, AfterStart, RawRead
  <2>2. /\ modem' = modem /\ opts' = opts /\ (air' = air \/ Shifted \/ Parted)
        /\ iobuf'.w12 = iobuf.w12 \/ iolen' = 0 \/ (Shifted /\ air[1].len <= 12 /\ air[1].len > 12)
        /\ air = <<>> => iolen' = 0
    <3>1. air = <<>> => ~Shifted /\ ~Parted
      BY DEF Shifted, Parted
    <3>2. QED
      BY <2>1, <3>1, RawReadIs
  <2>3. iobuf'.w12 = iobuf.w12 \/ iolen' = 0
    <3>1. SUFFICES ASSUME Shifted PROVE ~(air[1].len <= 12 /\ air[1].len > 12)
      BY <2>2
    <3>2. 1 \in 1 .. Len(air)
      BY <3>1 DEF Types, Shifted
    <3>3. air[1] \in Answers
      BY <3>2 DEF Types
    <3>4. air[1].len \in Nat
      BY <3>3 DEF Answers
    <3>5. QED
      BY <3>4
  <2>4. claimed' => modem.mode = "loader" /\ Complete(modem.ram) /\ modem.stat = 0
    <3>1. SUFFICES ASSUME iolen' # 0, iobuf'.w12 = 0
                   PROVE  modem.mode = "loader" /\ Complete(modem.ram) /\ modem.stat = 0
      BY <2>1
    <3>2. iobuf.w12 = 0 /\ iobuf.w12 # 1
      BY <2>3, <3>1
    <3>3. CASE modem.mode # "sahara"
      BY <2>1, <3>3 DEF Right, Otherwise
    <3>4. CASE modem.mode = "sahara"
      <4>1. ~Underway
        BY <2>1, <2>2, <3>1 DEF Right, WhenUnderway
      <4>2. ~Failed
        BY <2>1, <3>2 DEF Right, WhenFailed
      <4>3. ~Untouched
        BY <2>1 DEF Right, WhenUntouched
      <4>4. QED
        BY <3>4, <4>1, <4>2, <4>3, SaharaStates
    <3>5. QED
      BY <3>3, <3>4
  <2>5. QED
    BY <1>1, <2>1, <2>2, <2>4, LeaveRight
<1>9. CASE Nudge
  <2>1. /\ Put([cmd |-> "nudge"]) /\ pc = "nudge" /\ pc' = pc /\ opts' = opts /\ claimed' = claimed
        /\ iobuf' = iobuf
    BY <1>9 DEF Nudge
  <2>2. Sent(0, [cmd |-> "nudge"])
    BY <1>2, <2>1, PutIs
  <2>3. QED
    BY <1>1, <1>2, <2>1, <2>2, NudgeRight
<1>10. CASE SendReply
  <2>1. /\ Send("reply", [cmd |-> "hellorsp"], {iobuf}) /\ opts' = opts /\ claimed' = claimed
    BY <1>10 DEF SendReply, Keep
  <2>2. {iobuf} \in SUBSET Answers
    BY DEF Types
  <2>3. /\ pc = "reply" /\ pc' = pc /\ waiting' = TRUE /\ iobuf' \in {iobuf}
        /\ \E n \in 0 .. Len(air) : Sent(n, [cmd |-> "hellorsp"]) /\ late' = (late \/ n < Len(air))
    BY <1>2, <2>1, <2>2, SendIs
  <2>4. PICK n \in 0 .. Len(air) : Sent(n, [cmd |-> "hellorsp"])
    BY <2>3
  <2>5. iobuf' = iobuf
    BY <2>3
  <2>6. QED
    BY <1>1, <1>2, <2>1, <2>3, <2>4, <2>5, ReplyRight
<1>11. CASE SendPiece
  <2> DEFINE r == [cmd |-> "piece", data |-> Piece(iobuf.w12)]
  <2>1. /\ Put(r) /\ pc = "piece" /\ pc' = "piece" /\ opts' = opts /\ claimed' = claimed
        /\ ~waiting /\ waiting' = TRUE /\ iobuf.code = "s3"
    BY <1>11 DEF SendPiece, Request
  <2>2. r \in Requests /\ r.cmd = "piece" /\ r.data = Piece(iobuf.w12)
    BY <1>2
  <2> HIDE DEF r
  <2>3. Sent(0, r)
    BY <2>1, <2>2, PutIs
  <2>4. QED
    BY <1>1, <2>1, <2>2, <2>3, PieceSentRight
<1>12. CASE SendDone
  <2>1. /\ Put([cmd |-> "done"]) /\ pc = "piece" /\ pc' = "done" /\ opts' = opts /\ claimed' = claimed
        /\ ~waiting /\ waiting' = TRUE /\ iobuf.code = "s4" /\ iobuf' = iobuf
    BY <1>12 DEF SendDone
  <2>2. Sent(0, [cmd |-> "done"])
    BY <1>2, <2>1, PutIs
  <2>3. QED
    BY <1>1, <1>2, <2>1, <2>2, DoneSentRight
<1>13. CASE Kill \/ (InvalidRequest /\ UNCHANGED runs) \/ (DivideByZero /\ UNCHANGED claimed)
  <2>1. pc' = "end" /\ modem' = modem /\ air' = air /\ opts' = opts /\ claimed' = claimed
    BY <1>13 DEF Kill, host, InvalidRequest, DivideByZero, local
  <2>2. QED
    BY <1>1, <1>3, <2>1, LeaveRight
<1>14. CASE StartRun
  <2>1. PICK o \in OptionSets : pc' = Entry(o)
    BY <1>14 DEF StartRun
  <2>2. pc' \in {"nop", "greet", "hello1"}
    BY <2>1, Constants DEF Entry
  <2>3. modem' = modem /\ air' = air /\ claimed' = FALSE
    BY <1>14 DEF StartRun
  <2>4. QED
    BY <1>1, <2>2, <2>3, LeaveRight
<1>15. CASE PowerCycle
  <2>1. PICK mode \in {"pbl", "sahara"} :
            /\ modem' = Off(modem.flash, mode, modem.img)
            /\ air' \in IF mode = "sahara" THEN {<<>>, <<Hello>>} ELSE {<<>>}
    BY <1>15 DEF PowerCycle
  <2>2. pc' = "end" /\ claimed' = FALSE
    BY <1>15 DEF PowerCycle
  <2>3. /\ modem'.mode = mode /\ modem'.stat = 0 /\ Fresh(modem')
    BY <2>1 DEF Off, Fresh
  <2>4. air' = <<>> \/ (mode = "sahara" /\ Len(air') = 1 /\ air'[1] = Hello)
    BY <2>1
  <2>5. InTurn'
    BY <2>2, <2>4, AnswersAre DEF InTurn
  <2>6. CASE mode = "pbl"
    <3>1. NoHello'
      BY <2>4, <2>6 DEF NoHello
    <3>2. QED
      BY <2>2, <2>3, <2>5, <2>6, <3>1 DEF Right, WhenUntouched, WhenUnderway, Given, WhenFailed, Otherwise,
         Believed, Untouched, Underway, Failed
  <2>7. CASE mode = "sahara"
    <3>1. \A i \in 1 .. Len(air') : air'[i].code \in {"s1", "rest"}
      BY <2>4, AnswersAre
    <3>2. QED
      BY <2>2, <2>3, <2>5, <2>7, <3>1 DEF Right, WhenUntouched, WhenUnderway, Given, WhenFailed, Otherwise,
         Believed, Untouched, Underway, Failed
  <2>8. QED
    BY <2>6, <2>7
<1>16. CASE UNCHANGED vars
  <2>1. modem' = modem /\ air' = air /\ pc' = pc /\ waiting' = waiting /\ iobuf' = iobuf
        /\ claimed' = claimed /\ opts' = opts
    BY <1>16 DEF vars, host
  <2>2. QED
    BY <2>1 DEF Right, InTurn, WhenUntouched, WhenUnderway, Given, WhenFailed, Otherwise, Believed,
       Untouched, Underway, Failed, Fresh, Last, NoHello, NoEnd, Proper, Derailed
<1>17. QED
  BY <1>4, <1>5, <1>6, <1>7, <1>8, <1>9, <1>10, <1>11, <1>12, <1>13, <1>14, <1>15, <1>16
     DEF Next, Step, LoadingStep, WritingStep, Finished, FramedSending, FramedReading

LEMMA InitRight ==
  ASSUME Init
  PROVE  Right
<1>1. PICK mode \in {"pbl", "sahara", "loader"}, img \in {7, 9} :
         modem = Off([p \in Parts |-> <<>>], mode, img)
  BY DEF Init
<1>2. pc = "end" /\ claimed = FALSE
  BY DEF Init
<1>3. modem.mode = mode /\ modem.stat = 0 /\ Fresh(modem)
  BY <1>1 DEF Off, Fresh
<1>4. air = <<>> \/ (mode = "sahara" /\ Len(air) = 1 /\ air[1] = Hello)
  BY <1>3 DEF Init
<1>5. InTurn
  BY <1>2, <1>4, AnswersAre DEF InTurn
<1>6. CASE mode # "sahara"
  <2>1. NoHello
    BY <1>4, <1>6 DEF NoHello
  <2>2. QED
    BY <1>2, <1>3, <1>5, <1>6, <2>1 DEF Right, WhenUntouched, WhenUnderway, Given, WhenFailed, Otherwise,
       Believed, Untouched, Underway, Failed
<1>7. CASE mode = "sahara"
  <2>1. \A i \in 1 .. Len(air) : air[i].code \in {"s1", "rest"}
    BY <1>4, AnswersAre
  <2>2. QED
    BY <1>2, <1>3, <1>5, <1>7, <2>1 DEF Right, WhenUntouched, WhenUnderway, Given, WhenFailed, Otherwise,
       Believed, Untouched, Underway, Failed
<1>8. QED
  BY <1>6, <1>7

-----------------------------------------------------------------------------
(* The download protocol.                                                   *)

\* Only a block or a piece changes the memory, and only a block that is
\* confirmed with 02 has been received.
LEMMA MemoryKept ==
  ASSUME Types, NEW r \in Requests, NEW n \in 0 .. Len(air), Sent(n, r), r.cmd \notin {"block", "piece"}
  PROVE  modem'.ram = modem.ram
<1>1. CASE modem' = modem
  BY <1>1
<1>2. ASSUME NEW a \in Answers, <<modem', <<a>>>> \in React(modem, r)
      PROVE  modem'.ram = modem.ram
  <2> DEFINE x == <<modem', <<a>>>>
  <2>1. x \in React(modem, r) /\ x[1] = modem' /\ modem \in Modems
    BY <1>2 DEF Types
  <2> HIDE DEF x
  <2>2. CASE x \in BootRom(modem, r)
    <3>1. PICK m2 \in Modems, b \in Answers : x = <<m2, <<b>>>> /\ m2.ram = modem.ram
      BY <2>1, <2>2, BootRomIs
    <3>2. QED
      BY <2>1, <3>1
  <2>3. CASE x \in Sahara(modem, r)
    <3>1. PICK m2 \in Modems, b \in Answers : x = <<m2, <<b>>>> /\ m2.ram = modem.ram
      BY <2>1, <2>3, SaharaIs
    <3>2. QED
      BY <2>1, <3>1
  <2>4. CASE x \in Loader(modem, r)
    <3>1. PICK m2 \in Modems, b \in Answers : x = <<m2, <<b>>>> /\ m2.ram = modem.ram
      BY <2>1, <2>4, LoaderIs
    <3>2. QED
      BY <2>1, <3>1
  <2>5. CASE x = <<modem, <<>>>>
    BY <2>1, <2>5
  <2>6. QED
    BY <2>1, <2>2, <2>3, <2>4, <2>5, ReactIs
<1>3. QED
  BY <1>1, <1>2 DEF Sent

LEMMA BlockSent ==
  ASSUME Types, NEW r \in Requests, r.cmd = "block", NEW a \in Answers, <<modem', <<a>>>> \in React(modem, r)
  PROVE  /\ \A b \in 0 .. Blocks : b # r.adr => modem'.ram[b] = modem.ram[b]
         /\ a.code = "02" => modem'.ram[r.adr] = r.data
<1> DEFINE x == <<modem', <<a>>>>
<1>1. x \in React(modem, r) /\ x[1] = modem' /\ x[2] = <<a>> /\ x[2][1] = a /\ modem \in Modems
  BY DEF Types
<1> HIDE DEF x
<1>2. CASE x \in BootRom(modem, r)
  <2>1. PICK m2 \in Modems, c \in Answers :
            /\ x = <<m2, <<c>>>>
            /\ \A b \in 0 .. Blocks : b # r.adr => m2.ram[b] = modem.ram[b]
            /\ c.code = "02" => m2.ram[r.adr] = r.data
    BY <1>1, <1>2, BootRomIs
  <2>2. m2 = modem' /\ c = a
    BY <1>1, <2>1
  <2>3. QED
    BY <2>1, <2>2
<1>3. CASE x \in Sahara(modem, r)
  <2>1. PICK m2 \in Modems, c \in Answers :
            x = <<m2, <<c>>>> /\ m2.ram = modem.ram /\ c.code \in {"s1", "s3", "s4", "s6"}
    BY <1>1, <1>3, SaharaIs
  <2>2. m2 = modem' /\ c = a
    BY <1>1, <2>1
  <2>3. QED
    BY <2>1, <2>2
<1>4. CASE x \in Loader(modem, r)
  <2>1. PICK m2 \in Modems, c \in Answers :
            x = <<m2, <<c>>>> /\ m2.ram = modem.ram /\ c.code # "02"
    BY <1>1, <1>4, LoaderIs
  <2>2. m2 = modem' /\ c = a
    BY <1>1, <2>1
  <2>3. QED
    BY <2>1, <2>2
<1>5. CASE x = <<modem, <<>>>>
  <2>1. <<a>> = <<>>
    BY <1>1, <1>5
  <2>2. QED
    BY <2>1
<1>6. QED
  BY <1>1, <1>2, <1>3, <1>4, <1>5, ReactIs

LEMMA SendConfirmed ==
  ASSUME Types, Types', Confirmed, ~late', FramedSend
  PROVE  Confirmed'
<1>1. PICK r \in Requests, n \in 0 .. Len(air) :
          /\ r.cmd \in FramedCommands /\ Sent(n, r) /\ late' = (late \/ n < Len(air))
          /\ r.cmd = "block" => pc = "block"
          /\ pc = "block" => r.cmd = "block" /\ r.adr = blk /\ r.data = blk /\ blk' = blk
  BY DEF FramedSend
<1>2. pc' = pc /\ opts' = opts /\ claimed' = claimed /\ blind' = blind /\ ~late
  BY <1>1 DEF FramedSend
<1>3. n = Len(air) /\ Len(air) \in Nat
  <2>1. ~(n < Len(air))
    BY <1>1, Zenon
  <2>2. QED
    BY <2>1 DEF Types
<1>4. SUFFICES ASSUME opts.prog # "sahara", ~blind PROVE Confirmed'
  BY <1>2 DEF Confirmed
<1>5. CASE pc # "block"
  <2>1. modem'.ram = modem.ram
    BY <1>1, <1>5, MemoryKept DEF FramedCommands
  <2>2. QED
    BY <1>2, <1>4, <1>5, <2>1 DEF Confirmed
<1>6. CASE pc = "block"
  <2>1. r.cmd = "block" /\ r.adr = blk /\ r.data = blk /\ blk' = blk /\ blk \in 0 .. Blocks
    BY <1>1, <1>6 DEF Types
  <2>2. /\ \A b \in 0 .. blk - 1 : modem.ram[b] = b
        /\ ~claimed
    BY <1>2, <1>4, <1>6 DEF Confirmed, HelloLabels
  <2>3. CASE modem' = modem /\ Len(air') = Len(air) - n
    <3>1. Len(air') = 0
      BY <1>3, <2>3
    <3>2. QED
      BY <1>2, <2>1, <2>2, <2>3, <3>1 DEF Confirmed
  <2>4. CASE \E a \in Answers : /\ <<modem', <<a>>>> \in React(modem, r)
                                /\ Len(air') = Len(air) - n + 1 => air'[Len(air) - n + 1] = a
    <3>1. PICK a \in Answers : /\ <<modem', <<a>>>> \in React(modem, r)
                               /\ Len(air') = Len(air) - n + 1 => air'[Len(air) - n + 1] = a
      BY <2>4
    <3>2. /\ \A b \in 0 .. Blocks : b # blk => modem'.ram[b] = modem.ram[b]
          /\ a.code = "02" => modem'.ram[blk] = blk
      BY <2>1, <3>1, BlockSent
    <3>3. \A b \in 0 .. blk - 1 : modem'.ram[b] = b
      BY <2>1, <2>2, <3>2, Constants
    <3>4. Len(air') \in {0, 1} /\ (Len(air') = 1 => air'[1] = a)
      BY <1>1, <1>3, <3>1 DEF Sent
    <3>5. Len(air') <= 1 /\ \A i \in 1 .. Len(air') : air'[i].code = "02" => modem'.ram[blk] = blk
      <4>1. ASSUME NEW i \in 1 .. Len(air'), air'[i].code = "02"
            PROVE  modem'.ram[blk] = blk
        <5>1. i = 1 /\ Len(air') = 1
          BY <3>4, <4>1
        <5>2. QED
          BY <3>2, <3>4, <4>1, <5>1
      <4>2. QED
        BY <3>4, <4>1
    <3>6. QED
      BY <1>2, <2>1, <2>2, <3>3, <3>5 DEF Confirmed
  <2>5. QED
    BY <1>1, <2>3, <2>4 DEF Sent
<1>7. QED
  BY <1>5, <1>6

LEMMA NextConfirmed ==
  ASSUME Types, AtPlace, Confirmed, [Next]_vars
  PROVE  Confirmed'
<1> USE DEF PblLabels, SaharaLabels, HelloLabels, WriteLabels
<1>1. Types'
  BY NextTypes
<1>2. SUFFICES ASSUME ~late', ~blind' PROVE Confirmed'
  BY DEF Confirmed
<1>3. CASE FramedSending
  BY <1>1, <1>2, <1>3, FramedSends, SendConfirmed
<1>4. CASE BlockAnswer
  <2>1. /\ Await("block") /\ opts' = opts
        /\ blk' = (IF Loaded THEN blk + 1 ELSE blk)
        /\ pc' = (IF ~Loaded THEN "end" ELSE IF blk + 1 < Blocks THEN "block" ELSE "go")
        /\ claimed' = (Loaded /\ blk + 1 = Blocks)
        /\ blind' = (blind \/ (Loaded /\ iolen' = 0))
    BY <1>4 DEF BlockAnswer
  <2>2. /\ pc = "block" /\ waiting /\ waiting' = FALSE /\ modem' = modem
        /\ \/ Shifted /\ iobuf' = air[1] /\ late' = late
           \/ iolen' = 0 /\ (late' = late \/ late' = TRUE)
    BY <2>1, AwaitIs
  <2>3. CASE ~Loaded
    BY <2>1, <2>3 DEF Confirmed
  <2>4. CASE Loaded
    <3>1. ~blind /\ iolen' # 0 /\ ~late
      <4>1. ~blind /\ ~(iolen' = 0)
        BY <1>2, <2>1, <2>4, Zenon
      <4>2. ~late
        BY <1>2, <2>2, Zenon
      <4>3. QED
        BY <4>1, <4>2
    <3>2. Shifted /\ iobuf' = air[1] /\ air[1].code = "02"
      BY <2>2, <2>4, <3>1 DEF Loaded
    <3>3. opts.prog = "qdload" /\ blk < Blocks /\ blk \in Nat /\ Blocks \in Nat \ {0}
      BY <2>2, Constants DEF AtPlace, Types
    <3>4. modem.ram[blk] = blk /\ \A b \in 0 .. blk - 1 : modem.ram[b] = b
      <4>1. 1 \in 1 .. Len(air)
        BY <3>2 DEF Types, Shifted
      <4>2. QED
        BY <2>2, <3>1, <3>2, <3>3, <4>1 DEF Confirmed
    <3>5. \A b \in 0 .. (blk + 1) - 1 : modem.ram[b] = b
      BY <3>3, <3>4
    <3>6. blk + 1 = Blocks => Complete(modem.ram)
      BY <3>5 DEF Complete, Image
    <3>7. pc' = "go" \/ ~claimed'
      <4>1. claimed' => blk + 1 = Blocks
        BY <2>1, Zenon
      <4>2. blk + 1 = Blocks => ~(blk + 1 < Blocks)
        BY <3>3
      <4>3. ~(blk + 1 < Blocks) => pc' = "go"
        BY <2>1, <2>4
      <4>4. QED
        BY <4>1, <4>2, <4>3
    <3>8. blk' = blk + 1 /\ (claimed' => blk + 1 = Blocks)
      BY <2>1, <2>4
    <3>9. QED
      BY <2>1, <2>2, <3>3, <3>5, <3>6, <3>7, <3>8 DEF Confirmed
  <2>5. QED
    BY <2>3, <2>4
<1>5. CASE NopAnswer \/ VersionAnswer \/ GoAnswer \/ HelloAnswer
  <2>1. PICK at \in {"nop", "version", "go", "hello1", "hello2"} : Await(at)
    BY <1>5 DEF NopAnswer, VersionAnswer, GoAnswer, HelloAnswer
  <2>2. /\ pc = at /\ waiting' = FALSE /\ modem' = modem
        /\ late' = late \/ late' = TRUE
    BY <2>1, AwaitIs
  <2>3. ~late /\ blind' = blind /\ opts' = opts /\ claimed' = claimed
    BY <1>2, <1>5, <2>2 DEF NopAnswer, VersionAnswer, GoAnswer, HelloAnswer
  <2>4. /\ pc' = "block" => blk' = 0
        /\ pc \in {"go", "hello1", "hello2"} /\ opts.prog = "qdload" => pc' \in {"hello1", "hello2", "end"}
    <3>1. CASE NopAnswer
      BY <2>2, <3>1 DEF NopAnswer, Await
    <3>2. CASE VersionAnswer
      BY <2>2, <3>2 DEF VersionAnswer, Await
    <3>3. CASE GoAnswer
      BY <2>2, <3>3 DEF GoAnswer, Await, AfterStart
    <3>4. CASE HelloAnswer
      BY <2>2, <3>4 DEF HelloAnswer, Await, AfterHello
    <3>5. QED
      BY <1>5, <3>1, <3>2, <3>3, <3>4
  <2>5. \A b \in 0 .. 0 - 1 : modem.ram[b] = b
    OBVIOUS
  <2>6. QED
    BY <1>2, <2>2, <2>3, <2>4, <2>5 DEF Confirmed
<1>6. CASE (SecureAnswer \/ Close0Answer \/ TableAnswer \/ HeadAnswer \/ DataAnswer \/ Close1Answer)
           /\ UNCHANGED claimed
  <2>1. PICK at \in WriteLabels : Await(at)
    BY <1>6 DEF SecureAnswer, Close0Answer, TableAnswer, HeadAnswer, DataAnswer, Close1Answer
  <2>2. pc = at /\ (late' = late \/ late' = TRUE)
    BY <2>1, AwaitIs
  <2>3. FramedRead \/ opts' = opts
    BY <1>6 DEF SecureAnswer, Close0Answer, TableAnswer, HeadAnswer, DataAnswer, Close1Answer, local
  <2>4. opts' = opts /\ (blind => blind') /\ pc' # "block"
    <3>1. CASE SecureAnswer
      BY <3>1 DEF SecureAnswer, Unanswered, local
    <3>2. CASE Close0Answer
      BY <3>2 DEF Close0Answer, local
    <3>3. CASE TableAnswer
      BY <3>3 DEF TableAnswer, Unanswered, local
    <3>4. CASE HeadAnswer
      BY <3>4 DEF HeadAnswer, Unanswered
    <3>5. CASE DataAnswer
      BY <2>2, <3>5 DEF DataAnswer, Await
    <3>6. CASE Close1Answer
      BY <3>6 DEF Close1Answer, Unanswered
    <3>7. QED
      BY <1>6, <3>1, <3>2, <3>3, <3>4, <3>5, <3>6
  <2>5. opts.prog = "qwflash"
    BY <2>2 DEF AtPlace
  <2>6. ~claimed
    BY <1>2, <2>2, <2>4, <2>5 DEF Confirmed
  <2>7. QED
    BY <1>6, <2>4, <2>6 DEF Confirmed
<1>7. CASE FirstHello \/ Nudge \/ SecondHello \/ SendReply \/ FirstRequest \/ SendPiece \/ NextRequest
           \/ InvalidRequest \/ SendDone \/ DoneAnswer
  <2>1. pc \in SaharaLabels /\ opts' = opts
    BY <1>7 DEF FirstHello, Nudge, SecondHello, SendReply, FirstRequest, SendPiece, NextRequest,
       InvalidRequest, SendDone, DoneAnswer, RawRead, Send
  <2>2. opts'.prog = "sahara"
    BY <2>1 DEF AtPlace
  <2>3. QED
    BY <2>2 DEF Confirmed
<1>8. CASE Kill \/ (DivideByZero /\ UNCHANGED claimed)
  <2>1. pc' = "end" /\ modem' = modem /\ opts' = opts /\ claimed' = claimed /\ late' = late /\ blind' = blind
    BY <1>8 DEF Kill, host, DivideByZero, local
  <2>2. QED
    BY <2>1 DEF Confirmed
<1>9. CASE StartRun
  <2>1. PICK o \in OptionSets : pc' = Entry(o)
    BY <1>9 DEF StartRun
  <2>2. pc' # "block" /\ claimed' = FALSE
    BY <1>9, <2>1, Constants DEF Entry, StartRun
  <2>3. QED
    BY <2>2 DEF Confirmed
<1>10. CASE PowerCycle
  BY <1>10 DEF PowerCycle, Confirmed
<1>11. CASE UNCHANGED vars
  BY <1>11 DEF vars, host, Confirmed
<1>12. QED
  BY <1>3, <1>4, <1>5, <1>6, <1>7, <1>8, <1>9, <1>10, <1>11
     DEF Next, Step, LoadingStep, WritingStep, Finished, FramedSending

-----------------------------------------------------------------------------
\* What has been taken for an answer stays on record.
LEMMA NextBlind ==
  ASSUME Types, AtPlace, [Next]_vars
  PROVE  blind => blind'
<1> USE DEF PblLabels, SaharaLabels, HelloLabels, WriteLabels
<1>1. CASE FramedSending
  BY <1>1, FramedSends DEF FramedSend
<1>2. CASE FramedReading
  BY <1>2, FramedReads DEF FramedRead
<1>3. CASE FirstHello \/ SecondHello \/ FirstRequest \/ NextRequest \/ DoneAnswer
  <2>1. PICK at \in SaharaLabels, n \in {48, 20, 12} : RawRead(at, n)
    BY <1>3 DEF FirstHello, SecondHello, FirstRequest, NextRequest, DoneAnswer
  <2>2. QED
    BY <2>1, RawReadIs
<1>4. CASE SendReply
  BY <1>4 DEF SendReply, Send
<1>5. CASE Nudge \/ SendPiece \/ InvalidRequest \/ SendDone \/ Kill \/ DivideByZero \/ StartRun \/ PowerCycle
  BY <1>5 DEF Nudge, SendPiece, InvalidRequest, SendDone, Kill, DivideByZero, StartRun, PowerCycle
<1>6. CASE UNCHANGED vars
  BY <1>6 DEF vars
<1>7. QED
  BY <1>1, <1>2, <1>3, <1>4, <1>5, <1>6
     DEF Next, Step, LoadingStep, WritingStep, Finished, FramedSending, FramedReading

\* A program that has said "loaded" has put every block of the file where it belongs, for every
\* length of the file, any number of runs and power cycles, and any number of losses and delays, but
\* for the confirmations nobody gave and the answers that came too late.
THEOREM LoadedIsLoaded == Spec => []LoaderReported
<1> DEFINE I == Types /\ AtPlace /\ Confirmed /\ Sober
<1>1. Init => I
  <2>1. SUFFICES ASSUME Init PROVE I
    OBVIOUS
  <2>2. Confirmed
    BY <2>1 DEF Init, Confirmed
  <2>3. Sober
    BY <2>1, InitRight DEF Sober
  <2>4. QED
    BY <2>1, <2>2, <2>3, InitTypes
<1>2. I /\ [Next]_vars => I'
  <2>1. SUFFICES ASSUME I, [Next]_vars PROVE I'
    OBVIOUS
  <2>2. blind => blind'
    BY <2>1, NextBlind
  <2>3. Sober'
    BY <2>1, <2>2, NextRight DEF Sober
  <2>4. QED
    BY <2>1, <2>3, NextTypes, NextConfirmed
<1>3. I => LoaderReported
  <2>1. CASE opts.prog = "sahara"
    BY <2>1 DEF Sober, Right, Believed, LoaderReported
  <2>2. CASE opts.prog # "sahara"
    BY <2>2 DEF Confirmed, LoaderReported
  <2>3. QED
    BY <2>1, <2>2
<1> HIDE DEF I
<1>4. QED
  BY <1>1, <1>2, <1>3, PTL DEF Spec

-----------------------------------------------------------------------------
(* Writing.                                                                 *)

\* What a request does to the flash and the stream, and what its answer means.
Wrote(r, a) ==
    /\ a.code = "1c" => /\ r.cmd = "head" /\ modem'.mode = "loader"
                        /\ modem'.stream = r.part /\ modem'.flash[r.part] = <<>>
    /\ a.code = "16" => modem'.stream = NoPart
    /\ a.code = "08" /\ modem.mode = "loader" =>
          modem'.flash[modem.stream] = SubSeq(modem.flash[modem.stream], 1, r.adr) \o r.data
Touched(r) ==
    /\ modem.mode = "loader" => modem'.mode = "loader"
    /\ \A p \in Parts : \/ modem'.flash[p] = modem.flash[p]
                        \/ r.cmd = "head" /\ p = r.part
                        \/ r.cmd = "data" /\ p = modem.stream
    /\ \/ modem'.stream = modem.stream
       \/ r.cmd = "close" /\ modem'.stream = NoPart
       \/ r.cmd = "head" /\ modem'.stream = r.part

LEMMA WroteIs ==
  ASSUME Types, NEW r \in Requests, NEW a \in Answers, <<modem', <<a>>>> \in React(modem, r)
  PROVE  Wrote(r, a) /\ Touched(r)
<1> DEFINE x == <<modem', <<a>>>>
<1>1. x \in React(modem, r) /\ x[1] = modem' /\ x[2] = <<a>> /\ x[2][1] = a /\ modem \in Modems
  BY DEF Types
<1> HIDE DEF x
<1>2. CASE modem.mode = "pbl" /\ x \in BootRom(modem, r)
  <2>1. PICK m2 \in Modems, c \in Answers :
            /\ x = <<m2, <<c>>>> /\ c.code \in {"02", "03", "08"}
            /\ m2.flash = modem.flash /\ m2.stream = modem.stream
    BY <1>1, <1>2, BootRomIs
  <2>2. m2 = modem' /\ c = a
    BY <1>1, <2>1
  <2>3. QED
    BY <1>2, <2>1, <2>2 DEF Wrote, Touched
<1>3. CASE modem.mode = "sahara" /\ x \in Sahara(modem, r)
  <2>1. PICK m2 \in Modems, c \in Answers :
            /\ x = <<m2, <<c>>>> /\ m2.stream = modem.stream /\ m2.flash = modem.flash
            /\ c.code \in {"s1", "s3", "s4", "s6"}
    BY <1>1, <1>3, SaharaIs
  <2>2. m2 = modem' /\ c = a
    BY <1>1, <2>1
  <2>3. QED
    BY <1>3, <2>1, <2>2 DEF Wrote, Touched
<1>4. CASE modem.mode = "loader" /\ x \in Loader(modem, r)
  <2>1. PICK m2 \in Modems, c \in Answers :
            /\ x = <<m2, <<c>>>> /\ m2.mode = modem.mode
            /\ c.code = "1c" => r.cmd = "head" /\ m2.stream = r.part /\ m2.flash[r.part] = <<>>
            /\ c.code = "16" => r.cmd = "close" /\ m2.stream = NoPart
            /\ c.code = "08" =>
                  /\ r.cmd = "data" /\ modem.stream \in Parts /\ r.adr <= Len(modem.flash[modem.stream])
                  /\ m2.flash[modem.stream] = SubSeq(modem.flash[modem.stream], 1, r.adr) \o r.data
            /\ \A p \in Parts : \/ m2.flash[p] = modem.flash[p]
                                \/ r.cmd = "head" /\ p = r.part
                                \/ r.cmd = "data" /\ p = modem.stream
            /\ \/ m2.stream = modem.stream
               \/ r.cmd = "close" /\ m2.stream = NoPart
               \/ r.cmd = "head" /\ m2.stream = r.part
    BY ZenonT(60), <1>1, <1>4, LoaderIs
  <2>2. m2 = modem' /\ c = a
    BY <1>1, <2>1
  <2>3. Wrote(r, a)
    BY <1>4, <2>1, <2>2 DEF Wrote
  <2>4. Touched(r)
    BY <1>4, <2>1, <2>2 DEF Touched
  <2>5. QED
    BY <2>3, <2>4
<1>5. CASE x = <<modem, <<>>>>
  <2>1. <<a>> = <<>>
    BY <1>1, <1>5
  <2>2. QED
    BY <2>1
<1>6. QED
  BY <1>1, <1>2, <1>3, <1>4, <1>5, ReactIs

\* The answers after a command: those that were there, and one whose meaning is known.
LEMMA SentWrote ==
  ASSUME Types, Types', NEW r \in Requests, NEW n \in 0 .. Len(air), Sent(n, r)
  PROVE  /\ Touched(r)
         /\ \A i \in 1 .. Len(air') : \/ \E j \in 1 .. Len(air) : air'[i] = air[j]
                                      \/ Wrote(r, air'[i])
<1>1. Kept(n) /\ (Len(air') = Len(air) - n \/ Len(air') = Len(air) - n + 1)
  BY DEF Sent, Kept
<1>2. /\ Len(air) \in Nat /\ Len(air') \in Nat
      /\ \A i \in 1 .. Len(air') :
            \/ i <= Len(air) - n /\ n + i \in 1 .. Len(air) /\ air'[i] = air[n + i]
            \/ i = Len(air') /\ i = Len(air) - n + 1
  BY <1>1, Places
<1>3. CASE modem' = modem /\ Len(air') = Len(air) - n
  <2>1. Touched(r)
    BY <1>3 DEF Touched
  <2>2. \A i \in 1 .. Len(air') : \E j \in 1 .. Len(air) : air'[i] = air[j]
    BY SMTT(60), <1>2, <1>3
  <2>3. QED
    BY <2>1, <2>2
<1>4. CASE \E a \in Answers : /\ <<modem', <<a>>>> \in React(modem, r)
                              /\ Len(air') = Len(air) - n + 1 => air'[Len(air) - n + 1] = a
  <2>1. PICK a \in Answers : /\ <<modem', <<a>>>> \in React(modem, r)
                             /\ Len(air') = Len(air) - n + 1 => air'[Len(air) - n + 1] = a
    BY <1>4
  <2>2. Wrote(r, a) /\ Touched(r)
    BY <2>1, WroteIs
  <2>3. \A i \in 1 .. Len(air') : \/ \E j \in 1 .. Len(air) : air'[i] = air[j]
                                  \/ air'[i] = a
    BY <1>2, <2>1
  <2>4. QED
    BY <2>2, <2>3
<1>5. QED
  BY <1>3, <1>4 DEF Sent

LEMMA SubSeqIs ==
  ASSUME NEW d \in Seq(Int), NEW b \in Nat, NEW e \in Nat, b <= e, e <= Len(d)
  PROVE  /\ SubSeq(d, b + 1, e) \in Seq(Int) /\ Len(SubSeq(d, b + 1, e)) = e - b
         /\ \A i \in 1 .. e - b : SubSeq(d, b + 1, e)[i] = d[b + i]
<1>1. Len(d) \in Nat /\ \A i \in 1 .. Len(d) : d[i] \in Int
  OBVIOUS
<1>2. SubSeq(d, b + 1, e) = [i \in 1 .. (e - (b + 1) + 1) |-> d[i + (b + 1) - 1]]
  OBVIOUS
<1>3. e - (b + 1) + 1 = e - b /\ e - b \in Nat
  BY <1>1
<1>4. \A i \in 1 .. e - b : i + (b + 1) - 1 = b + i /\ b + i \in 1 .. Len(d)
  BY <1>1
<1>5. QED
  BY <1>1, <1>2, <1>3, <1>4

LEMMA ConcatIs ==
  ASSUME NEW s \in Seq(Int), NEW t \in Seq(Int)
  PROVE  /\ s \o t \in Seq(Int) /\ Len(s \o t) = Len(s) + Len(t)
         /\ \A i \in 1 .. Len(s) : (s \o t)[i] = s[i]
         /\ \A i \in 1 .. Len(t) : (s \o t)[Len(s) + i] = t[i]
  OBVIOUS

LEMMA SameFile ==
  ASSUME NEW s \in Seq(Int), NEW t \in Seq(Int), Len(s) = Len(t), \A i \in 1 .. Len(t) : s[i] = t[i]
  PROVE  s = t
OBVIOUS

\* A packet put behind what has been written.
LEMMA PacketIs ==
  ASSUME NEW d \in Seq(Int), NEW b \in Nat, b <= Len(d), NEW w \in Nat \ {0}
  PROVE  LET e == IF b + w < Len(d) THEN b + w ELSE Len(d)
             q == SubSeq(d, b + 1, e)
         IN  /\ Len(q) = e - b /\ e \in Nat /\ b <= e /\ e <= Len(d)
             /\ SubSeq(SubSeq(d, 1, b), 1, b) \o q = SubSeq(d, 1, e)
             /\ Len(q) < w => e = Len(d)
             /\ ~(Len(q) < w) => e = b + w
             /\ SubSeq(d, 1, Len(d)) = d
             /\ SubSeq(d, 1, 0) = <<>>
<1> DEFINE e == IF b + w < Len(d) THEN b + w ELSE Len(d)
           q == SubSeq(d, b + 1, e)
           t == SubSeq(SubSeq(d, 1, b), 1, b)
           u == SubSeq(d, 1, e)
<1>1. Len(d) \in Nat /\ e \in Nat /\ b <= e /\ e <= Len(d) /\ (e = b + w \/ e = Len(d)) /\ (e < b + w => e = Len(d))
      /\ (e - b < w => e = Len(d)) /\ (~(e - b < w) => e = b + w)
  OBVIOUS
<1>2. /\ q \in Seq(Int) /\ Len(q) = e - b /\ \A i \in 1 .. e - b : q[i] = d[b + i]
  <2> HIDE DEF e
  <2>1. QED
    BY <1>1, SubSeqIs
<1>3. t \in Seq(Int) /\ Len(t) = b /\ \A i \in 1 .. b : t[i] = d[i]
  OBVIOUS
<1>4. u \in Seq(Int) /\ Len(u) = e /\ \A i \in 1 .. e : u[i] = d[i]
  <2> HIDE DEF e
  <2>1. QED
    BY <1>1
<1>5. SubSeq(d, 1, Len(d)) = d
  OBVIOUS
<1>6. SubSeq(d, 1, 0) = <<>>
  OBVIOUS
<1> HIDE DEF e, q, t, u
<1>7. t \o q = u
  <2>1. /\ t \o q \in Seq(Int) /\ Len(t \o q) = Len(t) + Len(q)
        /\ \A i \in 1 .. Len(t) : (t \o q)[i] = t[i]
        /\ \A i \in 1 .. Len(q) : (t \o q)[Len(t) + i] = q[i]
    BY <1>2, <1>3, ConcatIs
  <2> DEFINE v == t \o q
  <2>2. v \in Seq(Int) /\ Len(v) = e
    BY <1>1, <1>2, <1>3, <2>1
  <2>3. \A i \in 1 .. e : v[i] = u[i]
    <3>1. ASSUME NEW i \in 1 .. e
          PROVE  v[i] = u[i]
      <4>1. CASE i <= b
        <5>1. i \in 1 .. b
          BY <1>1, <3>1, <4>1
        <5>2. v[i] = t[i]
          BY <1>3, <2>1, <5>1
        <5>3. QED
          BY <1>3, <1>4, <3>1, <5>1, <5>2
      <4>2. CASE i > b
        <5>1. i - b \in 1 .. e - b /\ b + (i - b) = i
          BY <1>1, <3>1, <4>2
        <5> DEFINE j == i - b
        <5>2. j \in 1 .. e - b /\ b + j = i
          BY <5>1
        <5> HIDE DEF j
        <5>3. v[b + j] = q[j] /\ q[j] = d[b + j]
          BY <1>2, <1>3, <2>1, <5>2
        <5>4. u[i] = d[i]
          BY <1>4, <3>1
        <5>5. QED
          BY <5>2, <5>3, <5>4
      <4>3. i <= b \/ i > b
        BY <1>1
      <4>4. QED
        BY <4>1, <4>2, <4>3, Zenon
    <3>2. QED
      BY <3>1
  <2> HIDE DEF v
  <2>4. v = u
    BY <1>1, <1>4, <2>2, <2>3
  <2>5. QED
    BY <2>4 DEF v
<1>8. QED
  BY <1>1, <1>2, <1>5, <1>6, <1>7 DEF e, q, t, u

Busy == {"close0", "head", "data", "close1"}

\* Where no partition is being written, nothing but the flash and the streams matters.
LEMMA QuietStored ==
  ASSUME Types, Standing, pc' \notin Busy, reported' = reported,
         \A p \in Parts : modem'.flash[p] = modem.flash[p],
         modem'.stream = modem.stream \/ modem'.stream = NoPart
  PROVE  Stored'
<1>1. Standing'
  BY Constants DEF Standing
<1>2. Opening' /\ Filling' /\ Closing'
  BY DEF Opening, Filling, Closing, Busy
<1>3. QED
  BY <1>1, <1>2 DEF Stored

QuietCommands == {"nop", "version", "block", "go", "hello", "nudge", "hellorsp", "piece", "done", "secure", "table"}

LEMMA QuietSent ==
  ASSUME Types, NEW r \in Requests, r.cmd \in QuietCommands, NEW n \in Nat, Sent(n, r)
  PROVE  /\ \A p \in Parts : modem'.flash[p] = modem.flash[p]
         /\ modem'.stream = modem.stream
<1>1. CASE modem' = modem
  BY <1>1
<1>2. CASE \E a \in Answers : <<modem', <<a>>>> \in React(modem, r)
  <2>1. Touched(r)
    BY <1>2, WroteIs
  <2>2. QED
    BY <2>1 DEF Touched, QuietCommands
<1>3. QED
  BY <1>1, <1>2 DEF Sent

\* A command written onto an empty line: every answer is the answer to it.
LEMMA SentAlone ==
  ASSUME Types, Types', NEW at, NEW r \in Requests, NEW bufs \in SUBSET Answers, Send(at, r, bufs),
         air = <<>>
  PROVE  Touched(r) /\ \A i \in 1 .. Len(air') : Wrote(r, air'[i])
<1>1. PICK n \in 0 .. Len(air) : Sent(n, r)
  BY SendIs
<1>2. ~\E j \in 1 .. Len(air) : TRUE
  BY DEF Types
<1>3. QED
  BY <1>1, <1>2, SentWrote

\* With one answer on the line at most, a reading that does not run out leaves it empty.
LEMMA ReadAlone ==
  ASSUME Types, Types', Narrow, NEW at, Await(at), iolen' # 0
  PROVE  /\ air' = <<>> /\ modem' = modem /\ pc = at /\ waiting /\ waiting' = FALSE
         /\ 1 \in 1 .. Len(air) /\ iobuf' = air[1]
<1>1. Shifted /\ iobuf' = air[1] /\ modem' = modem /\ pc = at /\ waiting /\ waiting' = FALSE
  BY AwaitIs
<1>2. Len(air') = 0
  <2>1. Len(air) \in Nat
    BY DEF Types
  <2>2. Len(air) >= 1 /\ Len(air') = Len(air) - 1 /\ Len(air) <= 1
    BY <1>1 DEF Shifted, Narrow
  <2>3. QED
    BY <2>1, <2>2
<1>3. air' = <<>>
  BY <1>2 DEF Types
<1>4. QED
  BY <1>1, <1>3 DEF Shifted, Types

LEMMA SentQuiet ==
  ASSUME Types, Standing, NEW at, at \notin Busy, NEW r \in Requests, r.cmd \in QuietCommands,
         NEW bufs \in SUBSET Answers, Send(at, r, bufs), reported' = reported
  PROVE  Stored'
<1>1. pc' = at /\ \E n \in Nat : Sent(n, r)
  <2>1. pc = at /\ pc' = pc /\ \E n \in 0 .. Len(air) : Sent(n, r)
    BY SendIs
  <2>2. QED
    BY <2>1 DEF Types
<1>2. /\ \A p \in Parts : modem'.flash[p] = modem.flash[p]
      /\ modem'.stream = modem.stream
  BY <1>1, QuietSent
<1>3. QED
  BY <1>1, <1>2, QuietStored

\* Commands that write no partition.
LEMMA QuietSends ==
  ASSUME Types, AtPlace, Standing,
         \/ /\ SendNop \/ SendVersion \/ SendPart \/ SendGo \/ SendHello
            /\ reported' = reported
         \/ SendSecure \/ SendTable
  PROVE  Stored'
<1> USE DEF Busy, QuietCommands
<1>1. Uninit("18") \in SUBSET Answers /\ Uninit("1a") \in SUBSET Answers
  BY AnswersAre DEF Uninit, Codes
<1>2. {iobuf} \in SUBSET Answers /\ Unset \in SUBSET Answers
  BY AnswersAre DEF Types, Unset
<1>3. \A c \in {"nop", "version", "go", "hello", "secure"} : [cmd |-> c] \in Requests
  BY RequestsAre
<1>4. CASE SendNop /\ reported' = reported
  <2>1. Send("nop", [cmd |-> "nop"], {iobuf})
    BY <1>4 DEF SendNop, Keep
  <2>2. QED
    BY <1>2, <1>3, <1>4, <2>1, SentQuiet
<1>5. CASE SendVersion /\ reported' = reported
  <2>1. Send("version", [cmd |-> "version"], {iobuf})
    BY <1>5 DEF SendVersion, Keep
  <2>2. QED
    BY <1>2, <1>3, <1>5, <2>1, SentQuiet
<1>6. CASE SendPart /\ reported' = reported
  <2> DEFINE r == [cmd |-> "block", adr |-> blk, data |-> Image[blk]]
  <2>1. Send("block", r, {iobuf}) /\ pc = "block"
    BY <1>6 DEF SendPart, SendBlock, Keep, Send
  <2>2. r \in Requests /\ r.cmd = "block"
    BY <2>1, RequestsAre
  <2> HIDE DEF r
  <2>3. QED
    BY <1>2, <1>6, <2>1, <2>2, SentQuiet
<1>7. CASE SendGo /\ reported' = reported
  <2>1. Send("go", [cmd |-> "go"], {iobuf})
    BY <1>7 DEF SendGo, Keep
  <2>2. QED
    BY <1>2, <1>3, <1>7, <2>1, SentQuiet
<1>8. CASE SendHello /\ reported' = reported
  <2>1. Send("hello1", [cmd |-> "hello"], Unset) \/ Send("hello2", [cmd |-> "hello"], {iobuf})
    BY <1>8 DEF SendHello, Keep
  <2>2. QED
    BY <1>2, <1>3, <1>8, <2>1, SentQuiet
<1>9. CASE SendSecure
  <2>1. Send("secure", [cmd |-> "secure"], Uninit("18")) /\ reported' = reported
    BY <1>9 DEF SendSecure, local
  <2>2. QED
    BY <1>1, <1>3, <2>1, SentQuiet
<1>10. CASE SendTable
  <2> DEFINE r == [cmd |-> "table", full |-> opts.table = "full"]
  <2>1. Send("table", r, Uninit("1a")) /\ reported' = reported
    BY <1>10 DEF SendTable, local
  <2>2. r \in Requests /\ r.cmd = "table"
    BY RequestsAre
  <2> HIDE DEF r
  <2>3. QED
    BY <1>1, <2>1, <2>2, SentQuiet
<1>11. QED
  BY <1>4, <1>5, <1>6, <1>7, <1>8, <1>9, <1>10

\* The commands that write one.
LEMMA CloseStored ==
  ASSUME Types, Types', AtPlace, Standing, Opening, Closing, SendClose0 \/ SendClose1
  PROVE  Stored'
<1> DEFINE r == [cmd |-> "close"]
<1>1. /\ Uninit("16") \in SUBSET Answers /\ {Nothing} \in SUBSET Answers
      /\ r \in Requests /\ r.cmd = "close"
  BY AnswersAre, RequestsAre DEF Uninit, Codes
<1>2. PICK at \in {"close0", "close1"}, bufs \in SUBSET Answers : Send(at, r, bufs)
  BY <1>1 DEF SendClose0, SendClose1
<1>3. opts' = opts /\ k' = k /\ reported' = reported /\ Write' = Write
  BY DEF SendClose0, SendClose1, local, Write
<1> HIDE DEF r
<1>4. pc = at /\ pc' = at /\ ~waiting /\ waiting'
  BY <1>1, <1>2, SendIs
<1>5. air = <<>>
  BY <1>4 DEF Opening, Closing
<1>6. Touched(r) /\ \A i \in 1 .. Len(air') : Wrote(r, air'[i])
  BY <1>1, <1>2, <1>5, SentAlone
<1>7. /\ \A p \in Parts : modem'.flash[p] = modem.flash[p]
      /\ modem'.stream = modem.stream \/ modem'.stream = NoPart
      /\ \A i \in 1 .. Len(air') : /\ air'[i].code # "1c"
                                   /\ air'[i].code = "16" => modem'.stream = NoPart
  BY <1>1, <1>6 DEF Touched, Wrote
<1>8. Standing'
  BY <1>3, <1>7, Constants DEF Standing
<1>9. Write.part \in Parts
  BY <1>4, RequestsAre DEF AtPlace, WriteLabels
<1>10. Opening' /\ Filling' /\ Closing'
  BY <1>3, <1>4, <1>7, <1>9 DEF Opening, Filling, Closing
<1>11. QED
  BY <1>8, <1>10 DEF Stored

LEMMA HeadStored ==
  ASSUME Types, Types', AtPlace, Standing, Opening, SendHead
  PROVE  Stored'
<1> DEFINE r == [cmd |-> "head", part |-> Write.part]
<1>1. pc = "head" /\ ~waiting
  BY DEF SendHead, Send
<1>2. /\ Uninit("1c") \in SUBSET Answers /\ Write.part \in Parts
      /\ r \in Requests /\ r.cmd = "head" /\ r.part = Write.part
  BY <1>1, AnswersAre, RequestsAre DEF Uninit, Codes, AtPlace, WriteLabels
<1>3. Send("head", r, Uninit("1c"))
  BY DEF SendHead
<1>4. /\ opts' = opts /\ k' = k /\ Write' = Write
      /\ reported' = [reported EXCEPT ![Write.part] = <<>>]
  BY DEF SendHead, Write
<1> HIDE DEF r
<1>5. pc' = "head" /\ waiting' /\ \E n \in 0 .. Len(air) : Sent(n, r)
  BY <1>2, <1>3, SendIs
<1>6. /\ Touched(r)
      /\ \A i \in 1 .. Len(air') : \/ \E j \in 1 .. Len(air) : air'[i] = air[j]
                                   \/ Wrote(r, air'[i])
  BY <1>2, <1>5, SentWrote
<1>7. \A j \in 1 .. Len(air) : air[j].code # "1c"
  BY <1>1 DEF Opening
<1>8. \A i \in 1 .. Len(air') : air'[i].code = "1c" =>
         /\ modem'.mode = "loader" /\ modem'.stream = Write.part /\ modem'.flash[Write.part] = <<>>
  BY <1>2, <1>6, <1>7 DEF Wrote
<1>9. /\ reported'[Write.part] = <<>>
      /\ \A p \in Parts : p # Write.part => reported'[p] = reported[p]
  BY <1>2, <1>4 DEF Types
<1>10. /\ \A p \in Parts : p # Write.part => modem'.flash[p] = modem.flash[p]
       /\ modem'.stream = modem.stream \/ modem'.stream = Write.part
  BY <1>2, <1>6 DEF Touched
<1>11. Standing'
  BY <1>9, <1>10 DEF Standing
<1>12. Opening' /\ Filling' /\ Closing'
  BY <1>4, <1>5, <1>8, <1>9 DEF Opening, Filling, Closing
<1>13. QED
  BY <1>11, <1>12 DEF Stored

LEMMA DataStored ==
  ASSUME Types, Types', AtPlace, Standing, Filling, SendData
  PROVE  Stored'
<1> DEFINE r == [cmd |-> "data", adr |-> adr, data |-> Packet]
<1>1. pc = "data" /\ ~waiting
  BY DEF SendData, Send
<1>2. opts.prog = "qwflash"
  BY <1>1 DEF AtPlace, WriteLabels
<1>3. /\ {iobuf} \in SUBSET Answers /\ Write.part \in Parts /\ Write.data \in Seq(Int)
      /\ r \in Requests /\ r.cmd = "data" /\ r.adr = adr /\ r.data = Packet
  BY <1>2, RequestsAre DEF Types
<1>4. Send("data", r, {iobuf})
  BY DEF SendData
<1>5. opts' = opts /\ k' = k /\ adr' = adr /\ reported' = reported /\ Write' = Write /\ Packet' = Packet
  BY DEF SendData, local, Write, Packet
<1> HIDE DEF r
<1>6. pc' = "data" /\ waiting'
  BY <1>1, <1>3, <1>4, SendIs
<1>7. /\ air = <<>> /\ modem.flash[Write.part] = SubSeq(Write.data, 1, adr)
      /\ reported[Write.part] = <<>> /\ adr <= Len(Write.data)
      /\ modem.mode = "loader" /\ modem.stream = Write.part
  BY <1>1 DEF Filling
<1>8. Touched(r) /\ \A i \in 1 .. Len(air') : Wrote(r, air'[i])
  BY <1>3, <1>4, <1>7, SentAlone
<1>9. /\ modem'.mode = "loader" /\ modem'.stream = Write.part
      /\ \A p \in Parts : p # Write.part => modem'.flash[p] = modem.flash[p]
  BY <1>3, <1>7, <1>8 DEF Touched
<1>10. SubSeq(SubSeq(Write.data, 1, adr), 1, adr) \o Packet = SubSeq(Write.data, 1, adr + Len(Packet))
  <2> DEFINE d == Write.data
             e == IF adr + wbsize < Len(d) THEN adr + wbsize ELSE Len(d)
             q == SubSeq(d, adr + 1, e)
  <2>1. Packet = q
    BY DEF Packet
  <2>2. d \in Seq(Int) /\ adr \in Nat /\ adr <= Len(d) /\ wbsize \in Nat \ {0}
    BY <1>3, <1>7, Constants DEF Types
  <2>3. /\ Len(q) = e - adr /\ e \in Nat
        /\ SubSeq(SubSeq(d, 1, adr), 1, adr) \o q = SubSeq(d, 1, e)
    <3> HIDE DEF d
    <3>1. QED
      BY <2>2, PacketIs
  <2> HIDE DEF q, e
  <2>4. adr + Len(q) = e
    BY <2>2, <2>3
  <2>5. QED
    BY <2>1, <2>3, <2>4
<1>11. \A i \in 1 .. Len(air') : air'[i].code = "08" =>
          modem'.flash[Write.part] = SubSeq(Write.data, 1, adr + Len(Packet))
  BY <1>3, <1>7, <1>8, <1>10 DEF Wrote
<1>12. Standing'
  BY <1>5, <1>7, <1>9 DEF Standing
<1>13. Opening' /\ Filling' /\ Closing'
  BY <1>5, <1>6, <1>7, <1>9, <1>11 DEF Opening, Filling, Closing
<1>14. QED
  BY <1>12, <1>13 DEF Stored

-----------------------------------------------------------------------------
\* The answers.
LEMMA OpeningRead ==
  ASSUME Types, Types', Narrow, Standing, Opening, ~blind',
         SecureAnswer \/ Close0Answer \/ TableAnswer
  PROVE  Stored'
<1> USE DEF Busy
<1>1. reported' = reported
  BY DEF SecureAnswer, Close0Answer, TableAnswer, local
<1>2. PICK at \in {"secure", "close0", "table"} : Await(at) /\ pc = at
  BY DEF SecureAnswer, Close0Answer, TableAnswer, Await
<1>3. modem' = modem /\ waiting' = FALSE
  BY <1>2, AwaitIs
<1>4. Standing'
  BY <1>1, <1>3 DEF Standing
<1>5. CASE pc' \notin Busy
  BY <1>1, <1>3, <1>5, QuietStored
<1>6. CASE SecureAnswer /\ pc' \in Busy
  <2>1. pc' = "close0" /\ iolen' # 0
    BY <1>6 DEF SecureAnswer, Unanswered
  <2>2. air' = <<>>
    BY <1>2, <2>1, ReadAlone
  <2>3. \A i \in 1 .. Len(air') : FALSE
    BY <2>2
  <2>4. Opening' /\ Filling' /\ Closing'
    BY <1>3, <2>1, <2>2, <2>3 DEF Opening, Filling, Closing
  <2>5. QED
    BY <1>4, <2>4 DEF Stored
<1>7. CASE Close0Answer /\ pc' \in Busy
  <2>1. pc' = "head" /\ pc = "close0" /\ Await("close0")
    BY <1>7 DEF Close0Answer, Await
  <2>2. \A i \in 1 .. Len(air) : air[i].code # "1c"
    BY <2>1 DEF Opening
  <2>3. \A i \in 1 .. Len(air') : air'[i].code # "1c"
    <3>1. CASE air' = air
      BY <2>2, <3>1
    <3>2. CASE Shifted
      <4>1. Len(air) \in Nat /\ Len(air') = Len(air) - 1 /\ \A i \in 1 .. Len(air') : air'[i] = air[i + 1]
        BY <3>2 DEF Shifted, Types
      <4>2. \A i \in 1 .. Len(air') : i + 1 \in 1 .. Len(air)
        BY <4>1
      <4>3. QED
        BY <2>2, <4>1, <4>2
    <3>3. QED
      BY <2>1, <3>1, <3>2, AwaitIs
  <2>4. Opening' /\ Filling' /\ Closing'
    BY <1>3, <2>1, <2>3 DEF Opening, Filling, Closing
  <2>5. QED
    BY <1>4, <2>4 DEF Stored
<1>8. CASE TableAnswer /\ pc' \in Busy
  <2>1. pc' = "head" /\ iolen' # 0
    BY <1>8 DEF TableAnswer, Unanswered
  <2>2. air' = <<>>
    BY <1>2, <2>1, ReadAlone
  <2>3. \A i \in 1 .. Len(air') : FALSE
    BY <2>2
  <2>4. Opening' /\ Filling' /\ Closing'
    BY <1>3, <2>1, <2>3 DEF Opening, Filling, Closing
  <2>5. QED
    BY <1>4, <2>4 DEF Stored
<1>9. QED
  BY <1>5, <1>6, <1>7, <1>8

LEMMA HeadRead ==
  ASSUME Types, Types', AtPlace, Narrow, Standing, Opening, ~blind', HeadAnswer
  PROVE  Stored'
<1>1. /\ Await("head") /\ pc = "head" /\ waiting /\ waiting' = FALSE /\ modem' = modem
      /\ reported' = reported /\ Write' = Write /\ adr' = 0
  BY DEF HeadAnswer, Await, Write
<1>2. Standing'
  BY <1>1 DEF Standing
<1>3. CASE pc' # "data"
  <2>1. pc' = "end"
    BY <1>3 DEF HeadAnswer
  <2>2. QED
    BY <1>1, <2>1, QuietStored DEF Busy
<1>4. CASE pc' = "data"
  <2>1. iobuf'.code = "1c" /\ iolen' # 0
    BY <1>4 DEF HeadAnswer, Unanswered
  <2>2. air' = <<>> /\ 1 \in 1 .. Len(air) /\ iobuf' = air[1]
    BY <1>1, <2>1, ReadAlone
  <2>3. /\ modem.mode = "loader" /\ modem.stream = Write.part /\ modem.flash[Write.part] = <<>>
        /\ reported[Write.part] = <<>>
    BY <1>1, <2>1, <2>2 DEF Opening
  <2>4. Write.data \in Seq(Int)
    BY <1>1, RequestsAre DEF AtPlace, WriteLabels
  <2>5. 0 <= Len(Write.data) /\ SubSeq(Write.data, 1, 0) = <<>>
    BY <2>4
  <2>6. Opening' /\ Filling' /\ Closing'
    BY <1>1, <1>4, <2>2, <2>3, <2>5 DEF Opening, Filling, Closing
  <2>7. QED
    BY <1>2, <2>6 DEF Stored
<1>5. QED
  BY <1>3, <1>4

LEMMA DataRead ==
  ASSUME Types, Types', AtPlace, Narrow, Standing, Filling, ~blind', DataAnswer
  PROVE  Stored'
<1>1. /\ Await("data") /\ pc = "data" /\ waiting /\ waiting' = FALSE /\ modem' = modem
      /\ reported' = reported /\ Write' = Write
  BY DEF DataAnswer, Await, Write
<1>2. Standing'
  BY <1>1 DEF Standing
<1>3. CASE ~Accepted
  <2>1. pc' = "end"
    BY <1>3 DEF DataAnswer
  <2>2. QED
    BY <1>1, <2>1, QuietStored DEF Busy
<1>4. CASE Accepted
  <2>1. air' = <<>> /\ 1 \in 1 .. Len(air) /\ iobuf' = air[1] /\ iobuf'.code = "08"
    BY <1>1, <1>4, ReadAlone DEF Accepted
  <2>2. /\ modem.flash[Write.part] = SubSeq(Write.data, 1, adr + Len(Packet))
        /\ reported[Write.part] = <<>> /\ adr <= Len(Write.data)
        /\ modem.mode = "loader" /\ modem.stream = Write.part
    BY <1>1, <2>1 DEF Filling
  <2>3. Write.data \in Seq(Int)
    BY <1>1, RequestsAre DEF AtPlace, WriteLabels
  <2>4. /\ AtEof => SubSeq(Write.data, 1, adr + Len(Packet)) = Write.data
        /\ ~AtEof => /\ adr + Len(Packet) = adr + wbsize
                     /\ adr + wbsize <= Len(Write.data)
    <3> DEFINE d == Write.data
               e == IF adr + wbsize < Len(d) THEN adr + wbsize ELSE Len(d)
               q == SubSeq(d, adr + 1, e)
    <3>1. Packet = q
      BY DEF Packet
    <3>2. d \in Seq(Int) /\ adr \in Nat /\ adr <= Len(d) /\ wbsize \in Nat \ {0}
      BY <2>2, <2>3, Constants DEF Types
    <3>3. /\ Len(q) = e - adr /\ e \in Nat /\ e <= Len(d)
          /\ Len(q) < wbsize => e = Len(d)
          /\ ~(Len(q) < wbsize) => e = adr + wbsize
          /\ SubSeq(d, 1, Len(d)) = d
      <4> HIDE DEF d
      <4>1. QED
        BY <3>2, PacketIs
    <3> HIDE DEF q, e
    <3>4. adr + Len(q) = e
      BY <3>2, <3>3
    <3>5. QED
      BY <3>1, <3>3, <3>4 DEF AtEof
  <2>5. CASE AtEof
    <3>1. pc' = "close1"
      BY <1>4, <2>5 DEF DataAnswer
    <3>2. Opening' /\ Filling' /\ Closing'
      BY <1>1, <2>1, <2>2, <2>4, <2>5, <3>1 DEF Opening, Filling, Closing
    <3>3. QED
      BY <1>2, <3>2 DEF Stored
  <2>6. CASE ~AtEof
    <3>1. pc' = "data" /\ adr' = adr + wbsize
      BY <1>1, <1>4, <2>6 DEF DataAnswer, Advance
    <3>2. Opening' /\ Filling' /\ Closing'
      BY <1>1, <2>1, <2>2, <2>4, <2>6, <3>1 DEF Opening, Filling, Closing
    <3>3. QED
      BY <1>2, <3>2 DEF Stored
  <2>7. QED
    BY <2>5, <2>6
<1>5. QED
  BY <1>3, <1>4

\* "Write completed".
LEMMA CloseRead ==
  ASSUME Types, Types', AtPlace, Narrow, Standing, Closing, ~blind', Close1Answer
  PROVE  Stored'
<1>1. /\ Await("close1") /\ pc = "close1" /\ waiting /\ waiting' = FALSE /\ modem' = modem
      /\ pc' \in {"head", "end"}
  BY DEF Close1Answer, Await
<1>2. CASE iobuf'.code = "16"
  <2>1. iolen' # 0 /\ reported' = [reported EXCEPT ![Write.part] = Write.data]
    BY <1>2 DEF Close1Answer, Unanswered
  <2>2. air' = <<>> /\ 1 \in 1 .. Len(air) /\ iobuf' = air[1]
    BY <1>1, <2>1, ReadAlone
  <2>3. modem.stream = NoPart /\ modem.flash[Write.part] = Write.data
    BY <1>1, <1>2, <2>2 DEF Closing
  <2>4. Write.part \in Parts
    BY <1>1, RequestsAre DEF AtPlace, WriteLabels
  <2>5. /\ reported'[Write.part] = Write.data
        /\ \A p \in Parts : p # Write.part => reported'[p] = reported[p]
    BY <2>1, <2>4 DEF Types
  <2>6. Standing'
    BY <1>1, <2>3, <2>5, Constants DEF Standing
  <2>7. Opening' /\ Filling' /\ Closing'
    <3>1. \A i \in 1 .. Len(air') : FALSE
      BY <2>2
    <3>2. QED
      BY <1>1, <3>1 DEF Opening, Filling, Closing
  <2>8. QED
    BY <2>6, <2>7 DEF Stored
<1>3. CASE iobuf'.code # "16"
  <2>1. pc' = "end" /\ reported' = reported
    BY <1>3 DEF Close1Answer
  <2>2. QED
    BY <1>1, <2>1, QuietStored DEF Busy
<1>4. QED
  BY <1>2, <1>3

LEMMA NextStored ==
  ASSUME Types, AtPlace, Stored, [Next]_vars, pc \in WriteLabels /\ waiting => Narrow
  PROVE  Stored'
<1> USE DEF PblLabels, SaharaLabels, HelloLabels, WriteLabels, Busy
<1>1. SUFFICES ASSUME ~blind' PROVE Stored'
  BY DEF Stored
<1>2. Types' /\ Standing /\ Opening /\ Filling /\ Closing
  <2>1. Types' /\ (blind => blind')
    <3>1. Types /\ AtPlace /\ [Next]_vars
      OBVIOUS
    <3>2. QED
      BY <3>1, NextTypes, NextBlind
  <2>2. ~blind
    BY <1>1, <2>1
  <2>3. QED
    BY <2>1, <2>2 DEF Stored
<1>3. [cmd |-> "nudge"] \in Requests /\ [cmd |-> "hellorsp"] \in Requests /\ [cmd |-> "done"] \in Requests
      /\ [cmd |-> "piece", data |-> Piece(iobuf.w12)] \in Requests
  BY RequestsAre
<1>4. ASSUME NEW r \in Requests, r.cmd \in {"nudge", "piece", "done"}, Put(r),
             pc' \notin Busy, reported' = reported
      PROVE  Stored'
  <2>1. Sent(0, r)
    BY <1>4, PutIs
  <2>2. /\ \A p \in Parts : modem'.flash[p] = modem.flash[p]
        /\ modem'.stream = modem.stream
    BY <1>4, <2>1, QuietSent DEF QuietCommands
  <2>3. QED
    BY <1>2, <1>4, <2>2, QuietStored
<1>5. CASE LoadingStep /\ UNCHANGED <<k, adr, reported, runs>>
  <2>1. CASE SendNop \/ SendVersion \/ SendPart \/ SendGo \/ SendHello
    BY <1>2, <1>5, <2>1, QuietSends
  <2>2. CASE NopAnswer \/ VersionAnswer \/ BlockAnswer \/ GoAnswer \/ HelloAnswer
    <3>1. modem' = modem
      BY <2>2 DEF NopAnswer, VersionAnswer, BlockAnswer, GoAnswer, HelloAnswer, Await
    <3>2. pc' \notin Busy
      BY <2>2 DEF NopAnswer, VersionAnswer, BlockAnswer, GoAnswer, HelloAnswer, AfterStart, AfterHello
    <3>3. QED
      BY <1>2, <1>5, <3>1, <3>2, QuietStored
  <2>3. CASE FirstHello \/ SecondHello \/ FirstRequest \/ NextRequest \/ InvalidRequest \/ DoneAnswer
    <3>1. modem' = modem
      BY <2>3 DEF FirstHello, SecondHello, FirstRequest, NextRequest, InvalidRequest, DoneAnswer, RawRead
    <3>2. pc' \notin Busy
      BY <2>3 DEF FirstHello, SecondHello, FirstRequest, NextRequest, InvalidRequest, DoneAnswer, AfterStart
    <3>3. QED
      BY <1>2, <1>5, <3>1, <3>2, QuietStored
  <2>4. CASE SendReply
    <3>1. Send("reply", [cmd |-> "hellorsp"], {iobuf}) /\ {iobuf} \in SUBSET Answers
      BY <2>4 DEF SendReply, Keep, Types
    <3>2. QED
      BY <1>2, <1>3, <1>5, <3>1, SentQuiet DEF QuietCommands
  <2>5. CASE Nudge
    <3>1. Put([cmd |-> "nudge"]) /\ pc' = "nudge"
      BY <2>5 DEF Nudge
    <3>2. QED
      BY <1>3, <1>4, <1>5, <3>1
  <2>6. CASE SendPiece
    <3> DEFINE r == [cmd |-> "piece", data |-> Piece(iobuf.w12)]
    <3>1. Put(r) /\ pc' = "piece" /\ r \in Requests /\ r.cmd = "piece"
      BY <1>3, <2>6 DEF SendPiece
    <3> HIDE DEF r
    <3>2. QED
      BY <1>4, <1>5, <3>1
  <2>7. CASE SendDone
    <3>1. Put([cmd |-> "done"]) /\ pc' = "done"
      BY <2>7 DEF SendDone
    <3>2. QED
      BY <1>3, <1>4, <1>5, <3>1
  <2>8. QED
    BY <1>5, <2>1, <2>2, <2>3, <2>4, <2>5, <2>6, <2>7 DEF LoadingStep
<1>6. CASE WritingStep
  <2>1. CASE SendSecure \/ SendTable
    BY <1>2, <2>1, QuietSends
  <2>2. CASE SendClose0 \/ SendClose1
    BY <1>2, <2>2, CloseStored
  <2>3. CASE SendHead
    BY <1>2, <2>3, HeadStored
  <2>4. CASE SendData
    BY <1>2, <2>4, DataStored
  <2>5. CASE SecureAnswer \/ Close0Answer \/ TableAnswer
    <3>1. Narrow
      BY <2>5 DEF SecureAnswer, Close0Answer, TableAnswer, Await
    <3>2. QED
      BY <1>1, <1>2, <2>5, <3>1, OpeningRead
  <2>6. CASE HeadAnswer
    <3>1. Narrow
      BY <2>6 DEF HeadAnswer, Await
    <3>2. QED
      BY <1>1, <1>2, <2>6, <3>1, HeadRead
  <2>7. CASE DataAnswer
    <3>1. Narrow
      BY <2>7 DEF DataAnswer, Await
    <3>2. QED
      BY <1>1, <1>2, <2>7, <3>1, DataRead
  <2>8. CASE Close1Answer
    <3>1. Narrow
      BY <2>8 DEF Close1Answer, Await
    <3>2. QED
      BY <1>1, <1>2, <2>8, <3>1, CloseRead
  <2>9. CASE DivideByZero
    <3>1. pc' = "end" /\ modem' = modem /\ reported' = reported
      BY <2>9 DEF DivideByZero, local
    <3>2. QED
      BY <1>2, <3>1, QuietStored
  <2>10. QED
    BY <1>6, <2>1, <2>2, <2>3, <2>4, <2>5, <2>6, <2>7, <2>8, <2>9 DEF WritingStep
<1>7. CASE Kill
  <2>1. pc' = "end" /\ modem' = modem /\ reported' = reported
    BY <1>7 DEF Kill, host
  <2>2. QED
    BY <1>2, <2>1, QuietStored
<1>8. CASE StartRun
  <2>1. PICK o \in OptionSets : pc' = Entry(o)
    BY <1>8 DEF StartRun
  <2>2. pc' \notin Busy /\ modem' = modem /\ reported' = reported
    BY <1>8, <2>1, Constants DEF Entry, StartRun
  <2>3. QED
    BY <1>2, <2>2, QuietStored
<1>9. CASE PowerCycle
  <2>1. pc' = "end" /\ reported' = reported /\ modem'.flash = modem.flash /\ modem'.stream = NoPart
    BY <1>9 DEF PowerCycle, Off
  <2>2. QED
    BY <1>2, <2>1, QuietStored
<1>10. CASE UNCHANGED vars
  BY <1>2, <1>10 DEF vars, host, Stored, Standing, Opening, Filling, Closing, Write, Packet
<1>11. QED
  BY <1>5, <1>6, <1>7, <1>8, <1>9, <1>10 DEF Next, Step, Finished

LEMMA InitStored == Init => Types /\ AtPlace /\ Stored
<1>1. SUFFICES ASSUME Init PROVE Types /\ AtPlace /\ Stored
  OBVIOUS
<1>2. pc = "end" /\ \A p \in Parts : reported[p] = <<>>
  BY <1>1 DEF Init
<1>3. Stored
  BY <1>2 DEF Stored, Standing, Opening, Filling, Closing
<1>4. QED
  BY <1>1, <1>3, InitTypes

\* Without late answers every flush empties the line.
Alone == ~late /\ pc \in WriteLabels /\ waiting => Narrow

LEMMA NextAlone ==
  ASSUME Types, AtPlace, [Next]_vars
  PROVE  (late => late') /\ (Alone => Alone')
<1> USE DEF PblLabels, SaharaLabels, HelloLabels, WriteLabels
<1>1. CASE FramedSending
  <2>1. FramedSend
    BY <1>1, FramedSends
  <2>2. PICK r \in Requests, n \in 0 .. Len(air) : Sent(n, r) /\ late' = (late \/ n < Len(air))
    BY <2>1 DEF FramedSend
  <2>3. late => late'
    BY <2>2, Zenon
  <2>4. ASSUME ~late' PROVE Narrow'
    <3>1. ~(n < Len(air))
      BY <2>2, <2>4, Zenon
    <3>2. n = Len(air) /\ Len(air) \in Nat
      BY <3>1 DEF Types
    <3>3. Len(air') \in {Len(air) - n, Len(air) - n + 1}
      BY <2>2 DEF Sent
    <3> DEFINE old == Len(air)
               new == Len(air')
    <3>4. n = old /\ old \in Nat /\ new \in {old - n, old - n + 1}
      BY <3>2, <3>3
    <3> HIDE DEF old, new
    <3>5. new <= 1
      BY <3>4
    <3>6. Len(air') <= 1
      BY <3>5 DEF new
    <3>7. QED
      BY <3>6 DEF Narrow
  <2>5. QED
    BY <2>3, <2>4 DEF Alone
<1>2. CASE FramedReading
  <2>1. PICK at \in FramedLabels : Await(at)
    BY <1>2 DEF FramedReading, NopAnswer, VersionAnswer, BlockAnswer, GoAnswer, HelloAnswer, SecureAnswer,
       Close0Answer, TableAnswer, HeadAnswer, DataAnswer, Close1Answer, FramedLabels
  <2>2. waiting' = FALSE /\ (late' = late \/ late' = TRUE)
    BY <2>1, AwaitIs
  <2>3. QED
    BY <2>2 DEF Alone
<1>3. CASE FirstHello \/ SecondHello \/ FirstRequest \/ NextRequest \/ DoneAnswer
  <2>1. PICK at \in SaharaLabels, n \in {48, 20, 12} : RawRead(at, n)
    BY <1>3 DEF FirstHello, SecondHello, FirstRequest, NextRequest, DoneAnswer
  <2>2. waiting' = FALSE /\ (late' = late \/ late' = TRUE)
    BY <2>1, RawReadIs
  <2>3. QED
    BY <2>2 DEF Alone
<1>4. CASE SendReply
  <2>1. Send("reply", [cmd |-> "hellorsp"], {iobuf}) /\ {iobuf} \in SUBSET Answers
        /\ [cmd |-> "hellorsp"] \in Requests
    BY <1>4, RequestsAre DEF SendReply, Keep, Types
  <2>2. pc = "reply" /\ pc' = pc /\ \E n \in 0 .. Len(air) : late' = (late \/ n < Len(air))
    BY <2>1, SendIs
  <2>3. late => late'
    BY <2>2, Zenon
  <2>4. QED
    BY <2>2, <2>3 DEF Alone
<1>5. CASE Nudge \/ SendPiece \/ InvalidRequest \/ SendDone
  <2>1. late' = late /\ pc' \notin WriteLabels
    BY <1>5 DEF Nudge, SendPiece, InvalidRequest, SendDone
  <2>2. QED
    BY <2>1 DEF Alone
<1>6. CASE Kill \/ DivideByZero \/ PowerCycle
  <2>1. late' = late /\ pc' = "end"
    BY <1>6 DEF Kill, DivideByZero, PowerCycle
  <2>2. QED
    BY <2>1 DEF Alone
<1>7. CASE StartRun
  <2>1. PICK o \in OptionSets : pc' = Entry(o)
    BY <1>7 DEF StartRun
  <2>2. pc' \notin WriteLabels /\ late' = late
    BY <1>7, <2>1, Constants DEF Entry, StartRun
  <2>3. QED
    BY <2>2 DEF Alone
<1>8. CASE UNCHANGED vars
  BY <1>8 DEF vars, Alone, Narrow
<1>9. QED
  BY <1>1, <1>2, <1>3, <1>4, <1>5, <1>6, <1>7, <1>8
     DEF Next, Step, LoadingStep, WritingStep, Finished, FramedSending, FramedReading

\* "Write completed" (qwflash.c:287) is true for every set of files, packet size, number of runs,
\* kills, power cycles, losses and delays, as long as the line never holds two answers at once. One
\* stray answer is noticed: the next command is awaited with another code, or leaves an empty line
\* behind it. The way out is an answer taken from an uninitialized buffer.
THEOREM WrittenIsWritten == Spec /\ []Narrow => []WrittenIsThere
<1> DEFINE I == Types /\ AtPlace /\ Stored
<1>1. Init => I
  BY InitStored
<1>2. I /\ Narrow /\ [Next]_vars => I'
  BY NextTypes, NextStored
<1>3. I => WrittenIsThere
  BY DEF Stored, Standing, WrittenIsThere
<1> HIDE DEF I
<1>4. QED
  BY <1>1, <1>2, <1>3, PTL DEF Spec

\* Where nothing has come late, "write completed" is true on any line, whatever has been lost and
\* however many answers stopped programs and Sahara have left on it: the flush before the first
\* command drops them all (hdlc.c:98).
THEOREM WrittenUnlessLate == Spec => [](late \/ WrittenIsThere)
<1> DEFINE J == Types /\ AtPlace /\ Alone /\ (late \/ Stored)
<1>1. Init => J
  <2>1. Init => Alone
    BY DEF Init, Alone
  <2>2. QED
    BY <2>1, InitStored
<1>2. J /\ [Next]_vars => J'
  <2>1. SUFFICES ASSUME J, [Next]_vars PROVE J'
    OBVIOUS
  <2>2. Types /\ AtPlace /\ Alone /\ (late \/ Stored) /\ [Next]_vars
    BY <2>1
  <2>3. Types' /\ AtPlace' /\ Alone' /\ (late => late')
    BY <2>2, NextTypes, NextAlone
  <2>4. CASE ~late
    <3>1. Stored /\ (pc \in WriteLabels /\ waiting => Narrow)
      BY <2>2, <2>4 DEF Alone
    <3>2. Stored'
      BY <2>2, <3>1, NextStored
    <3>3. QED
      BY <2>3, <3>2
  <2>5. QED
    BY <2>3, <2>4
<1>3. J => late \/ WrittenIsThere
  BY DEF Stored, Standing, WrittenIsThere
<1> HIDE DEF J
<1>4. QED
  BY <1>1, <1>2, <1>3, PTL DEF Spec
===============================================================================
