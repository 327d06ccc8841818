\* Two Waits race; the queue holds one event.
CONSTANTS
  w1 = w1
  w2 = w2
  Worker = worker
  Waiters = {w1, w2}
  Users = {}
  Capacity = 1
  MaxProgress = 1
  MaxGaps = 3
SPECIFICATION FairSpec
INVARIANTS
  TypeOK
  NoCallDuringClose
  WaitContract
PROPERTIES
  WaitReturns
\* Once everybody has waited and the context has ended nothing is left to do.
CHECK_DEADLOCK FALSE
