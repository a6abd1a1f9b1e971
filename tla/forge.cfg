SPECIFICATION Spec
CONSTANTS
  Listed <- MCListed
  Unlisted <- MCUnlisted
  Outputs = {"manifest", "faults_rs"}
  Owner <- MCOwner
  Manifest = "manifest"
  Versions = {1, 2}
  Stamps = {s, t}
  MaxRuns = 3
  MaxEdits = 1
INVARIANTS TypeOK CleanMeansTied NoFalseDrift StoreHeals
SYMMETRY Symmetry
CHECK_DEADLOCK FALSE
