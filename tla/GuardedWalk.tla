---------------------------- MODULE GuardedWalk ----------------------------
(***************************************************************************)
(* What every walk along links on the device promises, whatever the links  *)
(* say and whoever changes them meanwhile (ChainGuard, common.rs): it      *)
(* lists places, none of them twice and never more than Limit, takes none  *)
(* back, and once it has ended it stays as it is.                          *)
(***************************************************************************)
EXTENDS Naturals, Sequences

CONSTANTS Place, Limit

VARIABLES
    listed,     \* the places visited, in order
    done

vars == <<listed, done>>

NoRepeats(s) == \A i, j \in DOMAIN s : i # j => s[i] # s[j]

Extends(longer, s) ==
    /\ Len(s) <= Len(longer)
    /\ \A i \in DOMAIN s : longer[i] = s[i]

Init == listed = <<>> /\ done = FALSE

Next ==
    /\ ~done
    /\ listed' \in Seq(Place)
    /\ Extends(listed', listed) /\ NoRepeats(listed') /\ Len(listed') <= Limit
    /\ done' \in BOOLEAN

Spec == Init /\ [][Next]_vars
===========================================================================
