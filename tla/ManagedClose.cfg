CONSTANTS
  u1 = u1
  u2 = u2
  n1 = n1
  n2 = n2
  o1 = o1
  r1 = r1
  d1 = d1
  Users = {u1, u2}
  Connections = {n1, n2}
  Outputs = {o1}
  Recordings = {r1}
  Dumps = {d1}
  MaxCalls = 3
SPECIFICATION MCSpec
INVARIANTS
  TypeOK
  NativeLifetimes
  RefusedCloseRestores
PROPERTIES
  OperationsReturn
\* A closed client has nothing left to do.
CHECK_DEADLOCK FALSE
