CONSTANTS
  c1 = c1
  c2 = c2
  k1 = k1
  k2 = k2
  o1 = o1
  r1 = r1
  u1 = u1
  Handler = handler
  Connecters = {}
  Closers = {k1}
  Outputs = {}
  Recordings = {r1}
  Users = {u1}
  MaxEvents = 3
SPECIFICATION Spec
INVARIANTS
  StateReported
\* A closed connection has nothing left to do.
CHECK_DEADLOCK FALSE
