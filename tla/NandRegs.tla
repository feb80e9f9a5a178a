------------------------------- MODULE NandRegs -------------------------------
(***************************************************************************)
(* The configuration registers of the NAND controller, as qcio.c reads and *)
(* changes them, bit by bit. r is a record of the registers CFG0, CFG1 and *)
(* ECC_CFG. Sizes are put into their fields as they are: one too large for *)
(* its field spills into the one above.                                    *)
(***************************************************************************)
EXTENDS Integers, Sequences, Bitwise

Bits(v, low, width) == (v \div 2^low) % 2^width
Cleared(v, low, width) == v - Bits(v, low, width) * 2^low
Put(v, low, width, x) == Cleared(v, low, width) | (x * 2^low)

Bch(r) == Bits(r.cfg1, 27, 1) = 1
\* CW_PER_PAGE: bits 6..8 and, above them, bit 5.
Cw(r) == Bits(r.cfg0, 6, 3) + 8 * Bits(r.cfg0, 5, 1)
UdSize(r) == Bits(r.cfg0, 9, 10)
SpareSize(r) == Bits(r.cfg0, 23, 4)
EccSize(r) == IF Bch(r) THEN Bits(r.ecccfg, 8, 5) ELSE Bits(r.cfg0, 19, 4)
MarkerPos(r) == Bits(r.cfg1, 6, 10)
MarkerPlace(r) == Bits(r.cfg1, 16, 1)
EccOn(r) == Bits(r.ecccfg, 0, 1) = 0 /\ Bits(r.cfg1, 0, 1) = 0

-----------------------------------------------------------------------------
\* set_udsize(): the second field exists with BCH only.
SetUd(r, size) == [r EXCEPT !.cfg0 = Put(@, 9, 10, size)]
SetUdEcc(r, size) == IF Bch(r) THEN [r EXCEPT !.ecccfg = Put(@, 16, 10, size)] ELSE r
\* set_sparesize()
SetSpare(r, size) == [r EXCEPT !.cfg0 = Put(@, 23, 4, size)]
\* set_eccsize()
SetEcc(r, size) ==
    IF Bch(r) THEN [r EXCEPT !.ecccfg = Put(@, 8, 5, size)] ELSE [r EXCEPT !.cfg0 = Put(@, 19, 4, size)]

\* hardware_bad_off(), hardware_bad_on()
BadOff(r) == [r EXCEPT !.cfg1 = Cleared(@, 6, 10)]
BadOn(r, pos, place) == [r EXCEPT !.cfg1 = (Cleared(@, 6, 11) | (Bits(pos, 0, 10) * 2^6)) | (place * 2^16)]

\* The first word of block_erase(): bit 5 stays.
OneCodeword(r) == [r EXCEPT !.cfg0 = Cleared(@, 6, 3)]

\* Bit 0 of both registers switches the engine off.
EccBit(r, which, off) == [r EXCEPT ![which] = Put(@, 0, 1, off)]

-----------------------------------------------------------------------------
(* get_flash_config(), from the registers and the ID word of the flash.    *)

PageSize(devcfg) == 1024 * 2^Bits(devcfg, 0, 2)
BlockSize(devcfg) == 64 * 2^Bits(devcfg, 4, 2)     \* in KB
Spp(devcfg) == PageSize(devcfg) \div 512

\* Mutant: CW_PER_PAGE is left as it is.
RepairedNot(r, spp) == r
\* A CFG0 without CW_PER_PAGE is that of an older chipset, or that of an erase that was cut off.
Repaired(r, spp) ==
    IF Cw(r) # 0 THEN r
    ELSE [r EXCEPT !.cfg0 = ((@ | 2^18) | (Bits(spp - 1, 3, 1) * 2^5)) | (Bits(spp - 1, 0, 3) * 2^6)]

\* What the program knows of the flash; r is CFG as read, before a repair. A chip missing from the
\* table (size 0) counts as unknownSize blocks.
Configuration(r, devcfg, chipsize, unknownSize) ==
    LET spp == Spp(devcfg)
        mode == Bits(r.ecccfg, 4, 2)
        eccbit == IF Bch(r) /\ mode # 0 THEN (mode + 1) * 4 ELSE 4
        calculated == PageSize(devcfg) - (IF Bch(r) /\ eccbit = 8 THEN 532 ELSE 528) * (spp - 1) + 1
    IN [spp |-> spp, bch |-> Bch(r), eccbit |-> eccbit, eccsize |-> EccSize(r),
        pos |-> IF MarkerPos(r) = 0 THEN calculated ELSE MarkerPos(r),
        place |-> IF MarkerPos(r) = 0 THEN 0 ELSE MarkerPlace(r),
        maxblock |-> IF chipsize = 0 THEN unknownSize ELSE (chipsize * 1024) \div BlockSize(devcfg)]
=============================================================================
