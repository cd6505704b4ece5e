\* One function of a file, with two blocks that have a variable each.
CONSTANTS
  Idents = {x, y}
  Unnamed = Unnamed
  MaxNodes = 6
  MaxLoads = 0
SPECIFICATION Spec
SYMMETRY IdentSymmetry
INVARIANT AcceptedLocalsNew
CHECK_DEADLOCK FALSE
