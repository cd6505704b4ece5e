\* Every graph of four files; two files under four entries; a name in three.
CONSTANTS
  a1 = a1  a2 = a2  a3 = a3  a4 = a4
  Asts = {a1, a2, a3, a4}
  Paths = {a1, a2, a3, a4}
  Names = {T}
  None = None
SPECIFICATION MCSpec
INVARIANTS CycleExact InsertedInOrder VerdictExact
PROPERTY VerdictReached
\* The analysis is over, or has failed.
CHECK_DEADLOCK FALSE
