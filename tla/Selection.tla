----------------------------- MODULE Selection -----------------------------
(* What a filter leaves of a sequence, by the places it leaves: the form of *)
(* SelectSeq that a proof can speak about.                                  *)
EXTENDS Naturals, FiniteSets

\* The k-th of a set of places.
Nth(P, k) == CHOOSE i \in P : Cardinality({j \in P : j <= i}) = k

\* What a sequence has at the places P, in order.
Only(seq, P) == [k \in 1 .. Cardinality(P) |-> seq[Nth(P, k)]]
=============================================================================
