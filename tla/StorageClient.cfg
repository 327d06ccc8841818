CONSTANTS
  c1 = c1
  c2 = c2
  r1 = r1
  a1 = a1
  k1 = k1
  k2 = k2
  Replays = {r1}
  Apps = {a1}
  Calls = {c1, c2}
  Closers = {k1, k2}
SPECIFICATION ClientFairSpec
INVARIANTS
  ClientTypeOK
  ChildrenLeaveFirst
PROPERTIES
  ImplementsOwnership
  CloseReturns
\* A closed client with no call under way has nothing left to do.
CHECK_DEADLOCK FALSE
