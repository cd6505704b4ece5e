SPECIFICATION Spec
CONSTANTS
  Values <- MCValues
  TypeDefns <- MCTypeDefns
  Fields <- MCFields
  Addresses <- MCAddresses
  Memory <- MCMemory
  Counter <- MCCounter
  Units <- MCUnits
INVARIANTS
  ReadsBack
  GroupedUnlessRising
  LIRComputes
  LLVMComputes
PROPERTIES
  CrashesAtUntypedBase
CHECK_DEADLOCK FALSE
