----------------------------- MODULE MCDeltaLog -----------------------------
(* DeltaLog for TLC: rows and tables are model values, interchangeable.    *)
EXTENDS DeltaLog, TLC

Symmetry == Permutations(Tables) \cup Permutations(Keys) \cup Permutations(Values)
=============================================================================
