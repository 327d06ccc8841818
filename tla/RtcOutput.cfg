CONSTANTS
  n1 = n1
  n2 = n2
  u1 = u1
  u2 = u2
  Handler = handler
  Connections = {n1, n2}
  Users = {u1, u2}
  Capacity = 1
  ControlCapacity = 1
  MaxEvents = 2
  MaxFrames = 3
SYMMETRY MCSymmetry
SPECIFICATION Spec
INVARIANTS
  TypeOK
  NothingUsesDestroyed
  HolderGoesOn
PROPERTY GapsMarked
\* A closed output has nothing left to do.
CHECK_DEADLOCK FALSE
