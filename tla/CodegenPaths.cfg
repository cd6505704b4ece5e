\* Every function body of four statements and operators at most, with every
\* outcome of every leaf.
CONSTANT MaxNodes = 4
SPECIFICATION PathSpec
INVARIANTS CodegenTypeOK JumpsPlaced BlocksTerminate SameBehaviour ValuesComputed NoSilentLoop BackendsAgree
\* A function that has returned stops.
CHECK_DEADLOCK FALSE
