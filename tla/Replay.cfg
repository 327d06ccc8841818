CONSTANTS
  u1 = u1
  u2 = u2
  o1 = o1
  r1 = r1
  d1 = d1
  Users = {u1, u2}
  Outputs = {o1}
  Recordings = {r1}
  Dumps = {d1}
  Capacity = 1
  MaxTasks = 2
  MaxCalls = 2
SPECIFICATION MCSpec
INVARIANTS
  TypeOK
  CloseBarrier
PROPERTIES
  ImplementsOwnership
  OperationsReturn
\* A closed replay has nothing left to do.
CHECK_DEADLOCK FALSE
