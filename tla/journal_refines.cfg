SPECIFICATION Spec
CONSTANTS
  Tables = {t1}
  Keys = {k1}
  Values = {v1, v2}
  Absent = Absent
  Hole = Hole
  RecCells = 3
  Faults = {"crash", "refuse", "write", "sync", "cut", "skew"}
  Careful = TRUE
  MaxEntries = 4
  MaxCells = 12
  MaxFaults = 2
INVARIANTS FileMatchesMemory
PROPERTY ImplementsDeltaLog
