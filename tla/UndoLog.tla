----------------------------- MODULE UndoLog -----------------------------
(***************************************************************************)
(* What the write path promises, without overlay, cache, gates or sectors: *)
(* a device and a log of undo records.  A record of a byte nobody has      *)
(* recorded yet holds what the device holds there, and the device changes  *)
(* only at recorded bytes.  Replaying the records newest first therefore   *)
(* always leads back to the same image (Journal::read_undo).               *)
(***************************************************************************)
EXTENDS Naturals, Sequences

CONSTANTS Offset, Value

VARIABLES
    dev,        \* the device
    log,        \* undo records [old, new], oldest first
    foreign     \* bytes somebody else has written

vars == <<dev, log, foreign>>

Recorded(o) == \E i \in DOMAIN log : o \in DOMAIN log[i].old

\* The oldest record of a byte is the last one an undo applies to it.
Oldest(o) == CHOOSE i \in DOMAIN log : /\ o \in DOMAIN log[i].old
                                       /\ \A j \in 1 .. i - 1 : o \notin DOMAIN log[j].old

Undone(image) ==
    [o \in Offset |-> IF Recorded(o) THEN log[Oldest(o)].old[o] ELSE image[o]]

Init == dev \in [Offset -> Value] /\ log = <<>> /\ foreign = {}

\* One more record at the end of the log.
Record ==
    /\ Len(log') = Len(log) + 1
    /\ LET e == log'[Len(log')]
       IN  /\ log' = Append(log, e)
           /\ \A o \in DOMAIN e.old \ foreign : ~Recorded(o) => e.old[o] = dev[o]
    /\ UNCHANGED <<dev, foreign>>

\* The device changes where it is recorded, or where somebody else writes.
Change ==
    /\ dev' \in [Offset -> Value]
    /\ foreign \subseteq foreign'
    /\ \A o \in Offset \ foreign' : dev'[o] # dev[o] => Recorded(o)
    /\ UNCHANGED log

Next == Record \/ Change

Spec == Init /\ [][Next]_vars
==========================================================================
