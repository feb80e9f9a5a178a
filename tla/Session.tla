------------------------------- MODULE Session -------------------------------
(***************************************************************************)
(* A modem on the desk: loaders are downloaded with qdload, partitions are *)
(* written with qwflash, over one line that loses and delays, one program  *)
(* after the other. A program can be stopped anywhere, and the modem can   *)
(* be switched off and on between two of them. What the modem has in mind  *)
(* and what is still on the line pass from one run to the next.            *)
(***************************************************************************)
EXTENDS Loading, Writing

CONSTANTS
    OptionSets,   \* the command lines
    MaxRuns       \* bound: programs started

\* qwflash has a file to write.
Options == [prog : {"qdload", "sahara", "qwflash"}, hello : BOOLEAN, table : {"none", "update", "full"},
            writes : Seq([part : Parts, data : Seq(Int)])]
ASSUME SessionAssumption ==
    /\ MaxRuns \in Nat
    /\ OptionSets # {} /\ \A o \in OptionSets : o \in Options /\ (o.prog = "qwflash" => o.writes # <<>>)

VARIABLE runs

host == <<opts, blk, claimed, k, adr, reported>>
vars == <<modem, air, faults, late, blind, pc, waiting, iobuf, iolen, host, runs>>

\* A modem in its boot ROM or with a loader that has been started before.
Init ==
    /\ \E mode \in {"pbl", "sahara", "loader"}, img \in {7, 9} :
         modem = Off([p \in Parts |-> <<>>], mode, img)
    /\ air \in IF modem.mode = "sahara" THEN {<<>>, <<Hello>>} ELSE {<<>>}
    /\ faults = 0 /\ late = FALSE /\ blind = FALSE
    /\ pc = "end" /\ waiting = FALSE /\ iobuf = Nothing /\ iolen = 0
    /\ opts = (CHOOSE o \in OptionSets : TRUE) /\ blk = 0 /\ claimed = FALSE
    /\ k = 1 /\ adr = 0 /\ reported = [p \in Parts |-> <<>>]
    /\ runs = 0

\* The first thing a program does on the line.
Entry(o) ==
    CASE o.prog = "qdload" -> "nop" [] o.prog = "sahara" -> "greet" [] o.prog = "qwflash" -> "hello1"

StartRun ==
    /\ pc = "end" /\ runs < MaxRuns
    /\ \E o \in OptionSets :
         /\ opts' = o /\ pc' = Entry(o)
         /\ waiting' = (o.prog = "sahara")
    /\ iobuf' = Nothing /\ iolen' = 0
    /\ blk' = 0 /\ claimed' = FALSE /\ k' = 1 /\ adr' = 0
    /\ runs' = runs + 1
    /\ UNCHANGED <<modem, air, faults, late, blind, reported>>

\* The operator ends a program.
Kill ==
    /\ pc # "end"
    /\ pc' = "end" /\ waiting' = FALSE
    /\ UNCHANGED <<modem, air, faults, late, blind, iobuf, iolen, host, runs>>

\* The modem is switched off and on: it is in its boot ROM again, and nothing is on the line
\* but the hello of Sahara.
PowerCycle ==
    /\ pc = "end" /\ runs < MaxRuns
    /\ \E mode \in {"pbl", "sahara"} :
         /\ modem' = Off(modem.flash, mode, modem.img)
         /\ air' \in IF mode = "sahara" THEN {<<>>, <<Hello>>} ELSE {<<>>}
    /\ claimed' = FALSE
    /\ UNCHANGED <<faults, late, blind, pc, port, opts, blk, k, adr, reported, runs>>

Finished ==
    /\ pc = "end" /\ runs = MaxRuns
    /\ UNCHANGED vars

Step ==
    \/ LoadingStep /\ UNCHANGED <<k, adr, reported, runs>>
    \/ WritingStep /\ UNCHANGED <<blk, claimed, runs>>
Next == StartRun \/ Step \/ Kill \/ PowerCycle \/ Finished
Spec == Init /\ [][Next]_vars /\ WF_vars(Step)

-----------------------------------------------------------------------------
\* Every variable has its type, the links of the modem and the program among them.
TypeOK ==
    /\ LineTypeOK
    /\ opts \in OptionSets /\ blk \in 0 .. Blocks /\ claimed \in BOOLEAN
    /\ k \in Nat /\ adr \in Nat /\ DOMAIN reported = Parts /\ runs \in 0 .. MaxRuns

\* "Loaded" and "Loader transferred successfully" (qdload.c:267, sahara.c:104): a program that says
\* so has put every block of the file where it belongs. With Sahara this holds whatever is lost
\* or late, since each piece answers a request, and the modem has found the image good; the way out
\* is an end of image that came in two parts, whose status was never read. The download protocol has
\* two ways out: a confirmation nobody gave, since the buffer kept the one before, and an answer
\* that came after its wait or, left behind by a program that was stopped, after the flush.
LoaderReported ==
    claimed => IF opts.prog = "sahara" THEN blind \/ (Complete(modem.ram) /\ modem.stat = 0)
               ELSE blind \/ late \/ Complete(modem.ram)

\* "write completed" (qwflash.c:287): the partition holds the file, each packet in its place, and
\* its stream is closed so that the data of the next file cannot follow on it, whatever has been
\* lost or late in this run or the runs before. The way out is an answer taken from an
\* uninitialized buffer. One more needs five programs, four of them stopped, beyond the bound on runs:
\* the answers they have left pile up on the line and stand in for the right ones, command after
\* command. Where nothing has come late, or the line never holds two answers, this cannot be, and the
\* property is a theorem.
WrittenIsThere ==
    ~blind => \A p \in Parts :
                reported[p] # <<>> => modem.flash[p] = reported[p] /\ modem.stream # p

\* On a line whose waits run out, every program ends: the packet loop (qwflash.c:259), which only the
\* end of the file leaves, and the piece loop (sahara.c:71), which only the modem ends.
SessionEnds == (pc # "end") ~> (pc = "end")
=============================================================================
