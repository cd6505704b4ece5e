\* Functions of arithmetic, and functions with calls, && and ||.
CONSTANTS
  RAX = RAX  RCX = RCX  RDX = RDX  RSI = RSI  RDI = RDI  R8 = R8
  v1 = v1  v2 = v2  v3 = v3  v4 = v4  v5 = v5  v6 = v6
  NoRegister = NoRegister
  Physical <- MCPhysical  Pool <- MCPool  CallerSaved <- MCCallerSaved
  ArgRegs <- MCArgRegs
  Virtual <- MCVirtual  Values <- MCValues
  Selected <- MCSelected  Logical = TRUE  MaxOpen = 1  MaxCode = 40
SPECIFICATION MCSpec
INVARIANTS AllocTypeOK AllocDisjoint OneRangeEach KillsSplit ComputesWithoutSwap StackBalanced
\* The function has returned, or the allocator has failed.
CHECK_DEADLOCK FALSE
