---------------------------- MODULE ImagePlacement ----------------------------
(***************************************************************************)
(* What writing an image to a flash with bad blocks promises: the blocks   *)
(* of the image go, in their order, to the good blocks of the area, each   *)
(* to the first good block after the one before it. The copy is complete   *)
(* when every image block has a place or no good block is left.            *)
(***************************************************************************)
EXTENDS Integers, Sequences, FiniteSetsExt

VARIABLES
    area,      \* the flash blocks that may be written
    bad,       \* the bad ones among all blocks
    size,      \* number of image blocks to place
    placed,    \* placed[i] is the flash block of image block i
    state      \* "copying", "complete" or "aborted"

pvars == <<area, bad, size, placed, state>>

Last == IF placed = <<>> THEN -1 ELSE placed[Len(placed)]
Free == {b \in area \ bad : b > Last}

Init ==
    /\ placed = <<>> /\ state = "copying"

\* The first free block takes the next image block.
Place ==
    /\ state = "copying" /\ Len(placed) < size /\ Free # {}
    /\ placed' = Append(placed, Min(Free))
    /\ UNCHANGED <<area, bad, size, state>>

Complete ==
    /\ state = "copying"
    /\ Len(placed) = size \/ Free = {}
    /\ state' = "complete"
    /\ UNCHANGED <<area, bad, size, placed>>

Abort ==
    /\ state = "copying"
    /\ state' = "aborted"
    /\ UNCHANGED <<area, bad, size, placed>>

Next == Place \/ Complete \/ Abort

Spec == Init /\ [][Next]_pvars
=============================================================================
