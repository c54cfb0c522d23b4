-------------------------- MODULE MCFatDirectory --------------------------
(* A directory of two runs, the second of which lies before the first.     *)
EXTENDS FatDirectory

TwoRuns == <<[at |-> 3, len |-> 4], [at |-> 0, len |-> 3]>>

File(id, first, rest, names) == [id |-> id, first |-> first, rest |-> rest, names |-> names]
\* Two with a long name and the same checksum, one that begins with 0xE5, and one without
\* a long name.
Two == File(1, 200, 9, 2)
One == File(2, 201, 8, 1)
Kanji == File(3, 5, 9, 1)
Plain == File(4, 65, 9, 0)
AllFiles == {Two, One, Kanji, Plain}

Directory(s) == [a \in 0 .. 6 |-> LET i == IF a < 3 THEN a + 5 ELSE a - 2
                                 IN  IF i \in DOMAIN s THEN s[i] ELSE Blank]
\* Files; a deleted one; leftovers past the end.
Directories ==
    {Directory(RecordsOf(Plain) \o RecordsOf(Two) \o RecordsOf(One)),
     Directory([i \in 1 .. 3 |-> Erased(RecordsOf(Two)[i])]),
     Directory(<<Blank>> \o RecordsOf(One) \o RecordsOf(Two))}
==========================================================================
