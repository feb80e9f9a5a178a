------------------------------- MODULE Loading -------------------------------
(***************************************************************************)
(* qdload.c with sahara.c: a loader file is put into the memory of the     *)
(* modem and started, over the download protocol of the older boot ROM     *)
(* (commands 06, 07, 0f, 05) or over Sahara, where the modem asks for the  *)
(* pieces. A hello follows if it was asked for.                            *)
(***************************************************************************)
EXTENDS Line

VARIABLES
    blk,          \* i of the loading loop, in blocks
    claimed       \* history: the program has said that the loader is loaded

-----------------------------------------------------------------------------
(* The download protocol. One reply buffer serves all commands of main(),  *)
(* and nothing clears it.                                                  *)

Keep == {iobuf}
SendNop == Send("nop", [cmd |-> "nop"], Keep) /\ UNCHANGED <<opts, blk, claimed>>
NopAnswer ==
    /\ Await("nop")
    /\ pc' = IF iolen' = 5 THEN "version" ELSE "end"
    /\ UNCHANGED <<opts, blk, claimed, blind>>

SendVersion == Send("version", [cmd |-> "version"], Keep) /\ UNCHANGED <<opts, blk, claimed>>
VersionAnswer ==
    /\ Await("version")
    /\ pc' = "block" /\ blk' = 0
    /\ UNCHANGED <<opts, claimed, blind>>

\* Mutant: every block goes to the load address.
SendBlockAtStart ==
    Send("block", [cmd |-> "block", adr |-> 0, data |-> Image[blk]], Keep)

\* One block of the file with its address.
SendBlock == Send("block", [cmd |-> "block", adr |-> blk, data |-> Image[blk]], Keep)
SendPart == SendBlock /\ UNCHANGED <<opts, blk, claimed>>

\* The test of the answer: the code in the buffer, whoever put it there.
Loaded == iobuf'.code = "02"
BlockAnswer ==
    /\ Await("block")
    /\ blk' = IF Loaded THEN blk + 1 ELSE blk
    /\ pc' = IF ~Loaded THEN "end" ELSE IF blk + 1 < Blocks THEN "block" ELSE "go"
    /\ claimed' = (Loaded /\ blk + 1 = Blocks)
    /\ blind' = (blind \/ (Loaded /\ iolen' = 0))
    /\ UNCHANGED opts

\* The answer to the start command is not looked at; the port is closed and opened again.
AfterStart == IF opts.hello THEN "hello1" ELSE "end"
SendGo == Send("go", [cmd |-> "go"], Keep) /\ UNCHANGED <<opts, blk, claimed>>
GoAnswer ==
    /\ Await("go")
    /\ pc' = AfterStart
    /\ UNCHANGED <<opts, blk, claimed, blind>>

-----------------------------------------------------------------------------
(* hello() without configuration (mode 2), which returns nothing: a modem  *)
(* that does not answer twice is not noticed here.                         *)

Unset == {Nothing, Ack}
AfterHello == IF opts.prog = "qwflash" THEN "secure" ELSE "end"
SendHello ==
    /\ Send("hello1", [cmd |-> "hello"], Unset) \/ Send("hello2", [cmd |-> "hello"], Keep)
    /\ UNCHANGED <<opts, blk, claimed>>
HelloAnswer ==
    /\ Await("hello1") \/ Await("hello2")
    /\ pc' = IF iobuf'.code = "02" \/ pc = "hello2" THEN AfterHello ELSE "hello2"
    /\ UNCHANGED <<opts, blk, claimed, blind>>

-----------------------------------------------------------------------------
(* Sahara. The messages are not framed, and nothing is flushed but once.   *)

\* A read of n bytes: an answer, the first n bytes of one, a part of one, or nothing in time.
RawRead(at, n) ==
    /\ pc = at /\ waiting
    /\ waiting' = FALSE
    /\ \/ /\ air # <<>> /\ Head(air).len <= n
          /\ IF Head(air).code = "rest" THEN iobuf' = [iobuf EXCEPT !.code = "rest"]
             ELSE iobuf' = [Head(air) EXCEPT !.w12 = IF Head(air).len > 12 THEN @ ELSE iobuf.w12]
          /\ iolen' = Head(air).len /\ air' = Tail(air)
          /\ UNCHANGED <<faults, late, blind>>
       \/ TakePart(n) /\ UNCHANGED <<faults, blind>>
       \/ /\ n > 12 /\ TakePart(12) /\ Fault
          /\ blind' = (blind \/ iobuf'.code = "s4")   \* the status is still to come
       \/ RunOut /\ UNCHANGED blind
    /\ UNCHANGED <<modem, opts>>

\* The first hello of the modem, if it has not come before the port was open.
Greeted == iolen' = 48 /\ iobuf'.code = "s1"
FirstHello ==
    /\ RawRead("greet", 48)
    /\ pc' = IF Greeted THEN "reply" ELSE "nudge"
    /\ UNCHANGED <<blk, claimed>>
Nudge ==
    /\ pc = "nudge" /\ ~waiting
    /\ waiting' = TRUE
    /\ Put([cmd |-> "nudge"])
    /\ UNCHANGED <<opts, pc, iobuf, iolen, blk, claimed, late, blind>>
SecondHello ==
    /\ RawRead("nudge", 48)
    /\ pc' = IF Greeted THEN "reply" ELSE "end"
    /\ UNCHANGED <<blk, claimed>>

\* The answer to the hello, after a flush; then the first request of the modem.
SendReply == Send("reply", [cmd |-> "hellorsp"], Keep) /\ UNCHANGED <<opts, blk, claimed>>
FirstRequest ==
    /\ RawRead("reply", 20)
    /\ pc' = IF iolen' # 0 /\ iobuf'.w8 \in {7, 13} THEN "piece" ELSE "end"
    /\ blk' = 0
    /\ UNCHANGED claimed

\* A request for data. The file is read at the offset of the request; behind its end the buffer keeps
\* what it had.
Request == iobuf.code = "s3"
Piece(p) == IF p \in DOMAIN Image THEN Image[p] ELSE Stale
SendPiece ==
    /\ pc = "piece" /\ ~waiting /\ Request
    /\ waiting' = TRUE
    /\ Put([cmd |-> "piece", data |-> Piece(iobuf.w12)])
    /\ UNCHANGED <<opts, pc, iobuf, iolen, blk, claimed, late, blind>>
NextRequest ==
    /\ RawRead("piece", 20)
    /\ pc' = IF iolen' # 0 THEN "piece" ELSE "end"
    /\ UNCHANGED <<blk, claimed>>
InvalidRequest ==
    /\ pc = "piece" /\ ~waiting /\ iobuf.code # "s4" /\ ~Request
    /\ pc' = "end"
    /\ UNCHANGED <<opts, modem, air, faults, port, blk, claimed, late, blind>>

\* The status is looked for behind the end of the answer to Done, where the end of the image has
\* left its own.
SendDone ==
    /\ pc = "piece" /\ ~waiting /\ iobuf.code = "s4"
    /\ pc' = "done" /\ waiting' = TRUE
    /\ Put([cmd |-> "done"])
    /\ UNCHANGED <<opts, iobuf, iolen, blk, claimed, late, blind>>
DoneAnswer ==
    /\ RawRead("done", 12)
    /\ LET ok == iolen' # 0 /\ iobuf'.w12 = 0
       IN /\ claimed' = ok
          /\ pc' = IF ok THEN AfterStart ELSE "end"
    /\ UNCHANGED blk

LoadingStep ==
    \/ SendNop \/ NopAnswer \/ SendVersion \/ VersionAnswer \/ SendPart \/ BlockAnswer
    \/ SendGo \/ GoAnswer \/ SendHello \/ HelloAnswer
    \/ FirstHello \/ Nudge \/ SecondHello \/ SendReply \/ FirstRequest
    \/ SendPiece \/ NextRequest \/ InvalidRequest \/ SendDone \/ DoneAnswer
=============================================================================
