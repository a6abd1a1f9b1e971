SPECIFICATION FairSpec
CONSTANTS
  Runtimes = {r1, r2}
  demo = demo
  skewed = skewed
  valid = valid
  calls = calls
  Components = {demo, skewed}
  WithStart = {skewed}
  Functions = {valid, calls}
  NoExport = NoExport
  Exports <- MCExports
  Expected <- MCExpected
  Fuel = 2
  Tasks = {t1, t2}
  Nobody = Nobody

PROPERTY InterruptedOnlyByATick
CHECK_DEADLOCK FALSE
