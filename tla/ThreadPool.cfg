\* Two workers, two clients that push three jobs, wait and destroy.
CONSTANTS
  Workers = {w1, w2}
  Clients = {c1, c2}
  Jobs = {j1, j2, j3}
  None = None
  MaxSpurious = 1
SPECIFICATION FairPoolSpec
INVARIANTS TypeOK PendingExact WaiterHasWaker WorkConserving
PROPERTIES ImplementsJobPool JobsFinish WaitReturns
\* The client may have destroyed the pool: nothing is left to run then.
CHECK_DEADLOCK FALSE
