SPECIFICATION FairSpec
CONSTANTS
  r = r
  Runtimes = {r}
  demo = demo
  total = total
  Components = {demo}
  WithStart = {}
  Functions = {total}
  NoExport = NoExport
  Exports <- MCExports
  Expected <- MCExpected
  Fuel = 3
  RowKinds <- MCRowKinds
  MinRows = 2
  MaxRows = 4
INVARIANTS CleanProbeAgrees BlameSpreads VerdictNames
PROPERTY ProbeEnds
CHECK_DEADLOCK FALSE
