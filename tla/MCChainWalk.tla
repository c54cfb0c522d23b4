-------------------------- MODULE MCChainWalk --------------------------
(* Clusters 2 to 4, or a device of five sectors with an extended partition *)
(* from the second on.                                                     *)
EXTENDS ChainWalk
==========================================================================
