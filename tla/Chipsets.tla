------------------------------- MODULE Chipsets -------------------------------
(***************************************************************************)
(* The table of chipsets (chipconfig.c): the file chipset.cfg is read line *)
(* by line, the first time a chipset is asked for, and a chipset is chosen *)
(* by its code. A line is given by what the parser tells apart; addresses  *)
(* and layouts are values of their own.                                    *)
(***************************************************************************)
EXTENDS Integers, SequencesExt

Fields == {"id", "addr", "udflag", "ctrl", "msmid", "sahara", "nprg", "enprg"}

\* A comment, a blank or a short line.
Ignored == [t |-> "ignored"]
Header(name) == [t |-> "header", name |-> name]
Setting(field, val) == [t |-> "setting", field |-> field, val |-> val]
\* A header without "]", a line without "=".
Broken == [t |-> "broken"]

\* A chipset whose header has just been read.
NewChipset(name) ==
    [name |-> name, id |-> 0, addr |-> 0, udflag |-> 0, ctrl |-> 0, msmid |-> <<>>,
     sahara |-> 0, nprg |-> "", enprg |-> ""]

SetField(table, l) ==
    [table EXCEPT ![Len(table)] =
        IF l.field = "msmid" THEN [@ EXCEPT !.msmid = Append(@, l.val)]
        ELSE [@ EXCEPT ![l.field] = l.val]]

\* One line; s.ok stays false after the first error.
LoadLine(s, l) ==
    CASE ~s.ok \/ l.t = "ignored" -> s
      [] s.ok /\ l.t = "header" -> [s EXCEPT !.table = Append(@, NewChipset(l.name))]
      [] s.ok /\ l.t = "setting" /\ s.table # <<>> /\ l.field \in Fields /\ ~(l.field = "id" /\ l.val = 0) ->
            [s EXCEPT !.table = SetField(@, l)]
      [] OTHER -> [s EXCEPT !.ok = FALSE]

\* load_config(): a file without a chipset is an error as well. There is none to go on with: every
\* caller ends the program.
LoadConfig(lines) == FoldLeft(LoadLine, [ok |-> TRUE, table |-> <<>>], lines)
Loads(lines) == LET s == LoadConfig(lines) IN s.ok /\ s.table # <<>>

NoChip == 0

\* Mutant: a code that is not found leaves the index behind the table.
SetChipsetEnd(table, chip, c) ==
    CHOOSE i \in 1 .. Len(table) + 1 : i = Len(table) + 1 \/ table[i].id = c

\* set_chipset(): the index of the last descriptor with code c, or else the index there was.
SetChipset(table, chip, c) ==
    LET hits == {i \in DOMAIN table : table[i].id = c}
    IN IF hits = {} THEN chip ELSE CHOOSE i \in hits : \A j \in hits : j <= i

\* The section of the file for code c: the last header with such an id line behind it, up to the next.
SectionOf(lines, c) ==
    LET heads == {i \in DOMAIN lines : lines[i].t = "header"}
        ends(i) == {j \in heads : j > i} \cup {Len(lines) + 1}
        body(i) == {n \in DOMAIN lines : n > i /\ \A j \in ends(i) : n < j}
    IN {body(i) : i \in {i \in heads : \E n \in body(i) : lines[n] = Setting("id", c)}}
=============================================================================
