CONSTANTS
  c1 = c1
  c2 = c2
  k1 = k1
  k2 = k2
  o1 = o1
  r1 = r1
  u1 = u1
  Handler = handler
  Connecters = {c1}
  Closers = {k1}
  Outputs = {}
  Recordings = {}
  Users = {}
  MaxEvents = 3
SPECIFICATION Spec
INVARIANT DisconnectReported
CHECK_DEADLOCK FALSE
