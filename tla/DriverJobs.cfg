\* Three files, two workers or fewer, every fault.
CONSTANTS
  f1 = f1  f2 = f2  f3 = f3
  Workers = {w1, w2}
  Main = main  Clients = {main}
  Files <- ThreeFiles
  Jobs = {f1, f2, f3}
  None = None
  MaxSpurious = 1
  Hardware = {0, 1, 2}
  MaxJ = 3
  Faults = {"args", "open", "rune", "location", "span", "source", "analysis"}
SPECIFICATION FairDriverSpec
INVARIANTS TreesReady FatalHoldsMain SuccessMeansClean
PROPERTY CompilationEnds
\* The process ends, or blocks on the logger's mutex.
CHECK_DEADLOCK FALSE
