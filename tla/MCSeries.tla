------------------------------ MODULE MCSeries ------------------------------
(* Small instances of Series for TLC. *)
EXTENDS Series, TLC

CONSTANTS t1, t2, t3, k1, k2

\* t1 and t3 differ in their case only.
ByCase == [t \in Texts |-> IF t = t2 THEN k2 ELSE k1]

Symmetry == Permutations(Works) \cup Permutations(Ids) \cup Permutations(Requests)
=============================================================================
