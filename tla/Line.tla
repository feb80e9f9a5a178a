--------------------------------- MODULE Line ---------------------------------
(***************************************************************************)
(* The serial line between a program and the modem, one frame at a time.   *)
(* A command is written after the unread input has been flushed            *)
(* (send_unframed_buf()); its answer is read until the wait for it runs    *)
(* out (receive_reply()). Requests and answers can be lost, and an answer  *)
(* can come after its wait is over: before the next flush, which drops it, *)
(* or after, when it is taken for the answer to the next command.          *)
(*                                                                         *)
(* Waits run out as in the build for Windows and with VMIN = 0; with the   *)
(* VMIN = 1 of the Linux build a program whose answer is lost waits for    *)
(* ever instead, and reaches a subset of these states.                     *)
(***************************************************************************)
EXTENDS Modem

CONSTANT MaxFaults   \* bound: losses and delays

ASSUME LineAssumption == MaxFaults \in Nat

VARIABLES
    opts,         \* the command line of the program
    modem,        \* the state of the modem
    air,          \* answers on their way or unread, oldest first
    faults,
    pc,           \* the command the program is at
    waiting,      \* it has been written, its answer is due
    iobuf,        \* the reply buffer
    iolen,        \* the length of the answer, 0 for none
    late,         \* history: an answer came after its wait, or after the flush that should have dropped it
    blind         \* history: something nobody had answered was taken for an answer

line == <<modem, air, faults, late>>
port == <<waiting, iobuf, iolen>>

Fault == faults < MaxFaults /\ faults' = faults + 1

\* The modem receives r and answers behind what is still on the line; the request or the answer may
\* be lost.
Exchange(kept, r) ==
    \/ /\ Fault
       /\ air' = kept
       /\ UNCHANGED modem
    \/ \E x \in React(modem, r) :
         /\ modem' = x[1]
         /\ \/ /\ air' = kept \o x[2]
               /\ UNCHANGED faults
            \/ /\ Fault
               /\ x[2] # <<>> /\ air' = kept

\* send_unframed_buf(): what has arrived by now is dropped.
Ask(r) ==
    \E n \in 0 .. Len(air) :
        /\ Exchange(SubSeq(air, n + 1, Len(air)), r)
        /\ late' = (late \/ n < Len(air))

\* qwrite() by itself drops nothing.
Put(r) == Exchange(air, r)

\* receive_reply(): the oldest answer, or none in time; then the buffer keeps what it had.
Take ==
    /\ air # <<>>
    /\ iobuf' = Head(air) /\ iolen' = Head(air).len /\ air' = Tail(air)
    /\ UNCHANGED <<faults, late>>

\* Mutant: the result of a failed read is passed on.
RunOutError == iolen' = -1 /\ air = <<>> /\ UNCHANGED <<iobuf, air, faults, late>>

RunOut ==
    /\ iolen' = 0
    /\ IF air = <<>> THEN UNCHANGED <<faults, late>> ELSE Fault /\ late' = TRUE
    /\ UNCHANGED <<iobuf, air>>
\* qread(): no more than n bytes, which may be the first part of an answer. A rest begins with
\* bytes that are no message code.
TakePart(n) ==
    /\ air # <<>> /\ n < Head(air).len
    /\ iobuf' = [Head(air) EXCEPT !.w12 = iobuf.w12] /\ iolen' = n
    /\ air' = <<[code |-> "rest", len |-> Head(air).len - n, w8 |-> 0, w12 |-> 0]>> \o Tail(air)
    /\ UNCHANGED late

\* A command is written with a reply buffer out of bufs; its answer is awaited.
Send(at, r, bufs) ==
    /\ pc = at /\ ~waiting
    /\ waiting' = TRUE /\ iobuf' \in bufs
    /\ Ask(r)
    /\ UNCHANGED <<pc, iolen, blind>>
Await(at) ==
    /\ pc = at /\ waiting
    /\ waiting' = FALSE
    /\ Take \/ RunOut
    /\ UNCHANGED modem

LineTypeOK ==
    /\ faults \in 0 .. MaxFaults /\ iolen \in Nat /\ {waiting, late, blind} \subseteq BOOLEAN
    /\ modem.mode \in {"pbl", "sahara", "loader", "hung"}
    /\ modem.stream \in Parts \cup {NoPart}
    /\ \A i \in DOMAIN air : DOMAIN air[i] = {"code", "len", "w8", "w12"}
=============================================================================
