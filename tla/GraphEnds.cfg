SPECIFICATION Spec
CONSTANTS
  b1 = b1
  b2 = b2
  i1 = i1
  i2 = i2
  i3 = i3
  blockArg = blockArg
  param = param
  const = const
  global = global
  Func = Func
  None = None
  Blocks = {b1, b2}
  Insts = {i1, i2, i3}
  Params = {param}
  Constants = {const}
  Globals = {global}
  BlockParams <- MCBlockParams
  Shapes <- MCShapes
  MaxDetached = 1
  MaxRewired = 0
  MaxBroken = 3
INVARIANTS
  MembersFound
CHECK_DEADLOCK FALSE
