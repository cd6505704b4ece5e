\* Every file of six definitions, references and blocks at most.
CONSTANTS
  Idents = {x, y}
  Unnamed = Unnamed
  MaxNodes = 6
  MaxLoads = 1
SPECIFICATION Spec
SYMMETRY IdentSymmetry
INVARIANTS SlotsMatch LexicalOrLost FailuresJustified
\* The file is compiled, or has failed.
CHECK_DEADLOCK FALSE
