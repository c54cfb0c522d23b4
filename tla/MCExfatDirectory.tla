------------------------- MODULE MCExfatDirectory -------------------------
(* A directory of two runs, the second of which lies before the first.     *)
EXTENDS ExfatDirectory, TLC

TwoRuns == <<[at |-> 4, len |-> 4], [at |-> 0, len |-> 4]>>

AllFiles ==
    {[id |-> 1, names |-> 1, first |-> 2, len |-> 3, valid |-> 2, contiguous |-> TRUE],
     [id |-> 2, names |-> 2, first |-> 4, len |-> 2, valid |-> 2, contiguous |-> FALSE]}

Empty == [x \in 0 .. 7 |-> Zero]
Other == [kind |-> "other", live |-> TRUE, body |-> <<[other |-> TRUE]>>]

\* Nothing, a label, or a deleted file.
File(i) == CHOOSE f \in AllFiles : f.id = i
Old ==
    LET s == EntrySet(File(1))
    IN  [x \in 0 .. 7 |-> IF x < 3 THEN [s[x + 1] EXCEPT !.live = FALSE] ELSE Zero]
Directories == {Empty, [Empty EXCEPT ![4] = Other], Old}
==========================================================================
