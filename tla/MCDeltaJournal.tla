--------------------------- MODULE MCDeltaJournal ---------------------------
(* DeltaJournal for TLC: rows are interchangeable model values.            *)
EXTENDS DeltaJournal, TLC

Symmetry == Permutations(Values)
=============================================================================
