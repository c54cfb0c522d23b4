--------------------------- MODULE MCNavigator ---------------------------
(* A disk with a partition table at 0, a volume at 1, something two formats *)
(* could be at 2, and nothing at 3.                                        *)
EXTENDS Navigator

Root == "root"
Under(n) == IF n = Root THEN {} ELSE {Root}

\* A table: the entries, of which the first points at the volume and the second
\* beyond it, a gap that holds data and one full of 0xFF.
MbrTree ==
    [order |-> <<Root, "entries", "e1", "e2", "gap", "pad">>,
     above |-> [n \in {Root, "entries", "e1", "e2", "gap", "pad"} |->
                   IF n \in {"e1", "e2"} THEN {Root, "entries"} ELSE Under(n)],
     lazy |-> {}, arrays |-> {"entries"}, probes |-> {"e1", "e2"},
     blanks |-> {"pad"}, anomalies |-> {"gap", "pad"}, findings |-> {},
     gaps |-> {"gap", "pad"}, scrubs |-> {}]

\* The same, with the entries read on demand and a finding among them.
GptTree ==
    [order |-> <<Root, "header", "entries", "e1", "e2">>,
     above |-> [n \in {Root, "header", "entries", "e1", "e2"} |->
                   IF n \in {"e1", "e2"} THEN {Root, "entries"} ELSE Under(n)],
     lazy |-> {"entries"}, arrays |-> {"entries"}, probes |-> {"e1", "e2"},
     blanks |-> {"header", "e2"}, anomalies |-> {"e2"}, findings |-> {"e2"},
     gaps |-> {}, scrubs |-> {}]

\* A volume: its root directory is read on demand, a deleted file in it points
\* at its data.
FatTree ==
    [order |-> <<Root, "boot", "spare", "dir", "file">>,
     above |-> [n \in {Root, "boot", "spare", "dir", "file"} |->
                   IF n = "file" THEN {Root, "dir"} ELSE Under(n)],
     lazy |-> {"dir"}, arrays |-> {}, probes |-> {},
     blanks |-> {"spare"}, anomalies |-> {}, findings |-> {},
     gaps |-> {"spare"}, scrubs |-> {"file"}]

Trees == [mbr |-> MbrTree, gpt |-> GptTree, fat |-> FatTree]

Links ==
    [mbr |-> [n \in DOMAIN MbrTree.above |->
                 CASE n = "e1" -> 1 [] n = "e2" -> 2 [] OTHER -> NoBase],
     gpt |-> [n \in DOMAIN GptTree.above |-> IF n = "e1" THEN 1 ELSE NoBase],
     fat |-> [n \in DOMAIN FatTree.above |-> IF n = "file" THEN 2 ELSE NoBase]]

AllFormats == {"mbr", "gpt", "fat"}
Sizes == {512, 4096}

Is(f, s) == [format |-> f, score |-> s]

\* An MBR disk.
MbrDisk ==
    [s \in Sizes |->
        [b \in Base |->
            CASE b = 0 -> <<Is("mbr", 90)>>
              [] b = 1 -> <<Is("fat", 90), Is("mbr", 20)>>
              [] b = 2 -> <<Is("fat", 40), Is("mbr", 20)>>
              [] OTHER -> <<>>]]

\* Nothing is found at first.
BlankDisk == [s \in Sizes |-> [b \in Base |-> IF b = 1 THEN <<Is("fat", 40)>> ELSE <<>>]]
BlankLinks == [Links EXCEPT !.fat["file"] = 1]

Small == {512}
NoSizes == {}
==========================================================================
