----------------------------- MODULE MCReading -----------------------------
(* Reading on small instances: tabs and devices are interchangeable. *)
EXTENDS Reading, TLC

Symmetry == Permutations(Tabs) \cup Permutations(Devices)
=============================================================================
