------------------------------- MODULE MCTools -------------------------------
EXTENDS Tools

\* 4 blocks of 2K pages and Reed-Solomon; two of 4K pages, BCH and a marker in the spare area; an
\* older chipset with nothing set and an unknown chip; 8K pages.
Clean(n, spp) == [b \in 0 .. n - 1 |-> [sec \in 1 .. spp |-> 0]]
Small ==
    [chip |-> 4, devcfg |-> 53, chipsize |-> 2, blocks |-> 4, marks |-> {2}, pos |-> 465, place |-> 0,
     regs |-> [cfg0 |-> 3 * 2^6 + 516 * 2^9 + 10 * 2^19 + 4 * 2^23, cfg1 |-> 465 * 2^6 + 2, ecccfg |-> 0],
     errors |-> [Clean(4, 4) EXCEPT ![1] = <<0, 2, 0, -1>>, ![2] = <<1, 1, 1, 1>>]]
Spare ==
    [chip |-> 8, devcfg |-> 54, chipsize |-> 1, blocks |-> 2, marks |-> {}, pos |-> 5, place |-> 1,
     regs |-> [cfg0 |-> 7 * 2^6 + 516 * 2^9 + 2 * 2^23, cfg1 |-> 5 * 2^6 + 2^16 + 2^27,
               ecccfg |-> 2^4 + 13 * 2^8 + 516 * 2^16],
     errors |-> [Clean(2, 8) EXCEPT ![1] = <<0, 0, 0, 0, 0, 0, 0, 8>>]]
Old ==
    [chip |-> 1, devcfg |-> 53, chipsize |-> 0, blocks |-> 2, marks |-> {1}, pos |-> 465, place |-> 0,
     regs |-> ResetRegs, errors |-> Clean(2, 4)]
Wide ==
    [chip |-> 4, devcfg |-> 55, chipsize |-> 1, blocks |-> 2, marks |-> {1}, pos |-> 273, place |-> 0,
     regs |-> [cfg0 |-> 2^5 + 7 * 2^6 + 516 * 2^9 + 10 * 2^19, cfg1 |-> 273 * 2^6, ecccfg |-> 0],
     errors |-> Clean(2, 16)]

MCFiles ==
    LET S(f, v) == Setting(f, v)
        a == <<Header("MDM8200"), S("id", 1), S("addr", 10), S("sahara", 0)>>
        b == <<Header("MDM9x15"), S("id", 4), S("addr", 20), S("ctrl", 0), S("msmid", 1776), S("msmid", 1856)>>
        c == <<Header("MDM9x3x"), S("id", 8), S("addr", 30), S("sahara", 1), S("nprg", "n")>>
    IN {<<Ignored>> \o a \o b \o c, b \o <<Header("X"), S("id", 0)>>, <<Setting("id", 4)>>, a}

BB == [tool |-> "qbadblock", k |-> 0, mode |-> "d", start |-> 0, len |-> 0, flag |-> 0, mark |-> 0,
       unmark |-> 0, pos |-> 0, place |-> 0]
FP == [tool |-> "qflashparm", k |-> 0, spare |-> -1, ud |-> -1, ecc |-> -1, pos |-> -1, place |-> 0]
MCCommands ==
    {BB, [BB EXCEPT !.k = 4, !.start = 1, !.len = 2], [BB EXCEPT !.start = 3], [BB EXCEPT !.pos = 465],
     [BB EXCEPT !.mode = "e"], [BB EXCEPT !.mode = "e", !.flag = 1],
     [BB EXCEPT !.mode = "mu", !.mark = 1], [BB EXCEPT !.mode = "mu", !.k = 4, !.mark = 3, !.unmark = 2],
     [BB EXCEPT !.mode = "mu", !.unmark = 1], [BB EXCEPT !.mode = "mu", !.unmark = 2],
     [BB EXCEPT !.mode = "mu", !.k = 99, !.mark = 1],
     FP, [FP EXCEPT !.spare = 3, !.ud = 512, !.ecc = 12], [FP EXCEPT !.pos = 9, !.place = 1]}
MCPartitions == <<[name |-> "MIBIB", start |-> 0, len |-> 2], [name |-> "EFS2", start |-> 2, len |-> 1]>>
MCDevices == {Small, Spare, Old, Wide}
=============================================================================
