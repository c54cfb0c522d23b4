--------------------------- MODULE MCWritePath ---------------------------
(* A device of three sectors in two cache blocks, the last one short.      *)
EXTENDS WritePath, TLC

MCImage == [o \in Offset |-> 1]

\* Two plans in one sector, one of which leaves a byte of its record as it is,
\* and one whose two edits lie in different sectors and blocks.
MCPlans == { <<(0 :> 0)>>,
             <<(0 :> 1 @@ 1 :> 0)>>,
             <<(4 :> 0), (0 :> 2)>> }

\* A plan of two edits in two sectors.
OnePlan == { <<(1 :> 0), (2 :> 0)>> }

\* A plan within one sector and one that crosses into the next.
SmallPlans == { <<(0 :> 0)>>, <<(1 :> 0), (2 :> 0)>> }
==========================================================================
