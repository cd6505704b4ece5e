\* The only fault is an unknown rune, which the parser logs and goes on from.
CONSTANTS
  f1 = f1  f2 = f2  f3 = f3
  Workers = {w1, w2}
  Main = main  Clients = {main}
  Files <- TwoFiles
  Jobs = {f1, f2}
  None = None
  MaxSpurious = 0
  Hardware = {1, 2}
  MaxJ = 0
  Faults = {"rune"}
SPECIFICATION FairDriverSpec
PROPERTY FlushCrashes
CHECK_DEADLOCK FALSE
