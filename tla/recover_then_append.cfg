SPECIFICATION Spec
CONSTANTS
  Tables = {t1}
  Keys = {k1}
  Values = {v1, v2}
  Absent = Absent
  Hole = Hole
  RecCells = 3
  Faults = {"crash"}
  Careful = FALSE
  MaxEntries = 3
  MaxCells = 12
  MaxFaults = 2
INVARIANT NeverRefused
