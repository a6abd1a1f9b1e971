SPECIFICATION Spec
CONSTANTS
  Tables = {t1, t2}
  Keys = {k1}
  Values = {v1, v2}
  Absent = Absent
  MaxEntries = 4
SYMMETRY Symmetry
INVARIANTS
  StatesAreReplay
  InversesRestore
  RewindLaw
  ReplayAgrees
PROPERTY ImplementsUndoHistory
