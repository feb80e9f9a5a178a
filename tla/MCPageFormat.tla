---------------------------- MODULE MCPageFormat ----------------------------
EXTENDS PageFormat

\* A page in which every byte that satisfies Used tells its sector and offset.
PageOf(Used(_, _)) ==
    [s \in 1 .. Spp |-> [i \in 1 .. CwSize |-> IF Used(s, i) THEN 20 * s + i ELSE FF]]
TagByte(s, i) == s = Spp /\ i > LastPart /\ i <= LastPart + TagSize
DataByte(s, i) == i <= (IF s = Spp THEN LastPart ELSE SectorSize + Extra)

\* Full pages, pages without a tag, pages that are only a tag, pages that end in
\* the first sector, empty pages.
MCSourcePages ==
    { PageOf(LAMBDA s, i : TRUE),
      PageOf(LAMBDA s, i : DataByte(s, i)),
      PageOf(LAMBDA s, i : TagByte(s, i)),
      PageOf(LAMBDA s, i : s = 1 /\ i < SectorSize),
      PageOf(LAMBDA s, i : FALSE) }

MCPairs == {<<"rs", "fs">>, <<"rl", "fo">>, <<"rl", "fl">>, <<"ry", "fy">>, <<"x", "fi">>}
=============================================================================
