--------------------------- MODULE MCGptTables ---------------------------
(* A device of seven sectors, tables of three entries.                     *)
EXTENDS GptTables, TLC

Part(first, last) ==
    [type |-> TRUE, guid |-> TRUE, first |-> first, last |-> last, name |-> TRUE, tail |-> FALSE]

Table(lbas, guid, slots) == [lbas |-> lbas, guid |-> guid, slots |-> slots]

\* One partition; three that overlap, on a disk with another GUID; the first made for
\* a smaller disk.
AllTables ==
    { Table(7, 1, <<Part(3, 4), Blank, Blank>>),
      Table(7, 2, <<Part(3, 4), Part(4, 4), Part(3, 4)>>),
      Table(6, 1, <<Part(3, 3), Blank, Blank>>) }

Fields ==
    [present |-> {FALSE}, hsize |-> {7}, alt |-> {7}, guid |-> {0}, lba |-> {5, 99},
     num |-> {9}, size |-> {4}, padding |-> {TRUE}]
Cells == {Junk}
Mbrs == {Mbr(TRUE, 1, 1, 1, 6)}
==========================================================================
