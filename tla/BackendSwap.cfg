\* Two values to spill around one call.
CONSTANTS
  RAX = RAX  RCX = RCX  RDX = RDX  RSI = RSI  RDI = RDI  R8 = R8
  v1 = v1  v2 = v2  v3 = v3  v4 = v4  v5 = v5  v6 = v6
  NoRegister = NoRegister
  Physical <- MCPhysical  Pool <- MCPoolLarge  CallerSaved <- MCCallerSaved
  ArgRegs <- MCArgRegs
  Virtual <- MCVirtual  Values <- MCValues
  Selected <- Calls  Logical = FALSE  MaxOpen = 0  MaxCode = 30
SPECIFICATION MCSpec
INVARIANTS ComputesTheGraph
\* The function has returned, or the allocator has failed.
CHECK_DEADLOCK FALSE
