\* Two goroutines and a handler move the output between two replays.
CONSTANTS
  u1 = u1
  u2 = u2
  r1 = r1
  r2 = r2
  Replays = {r1, r2}
  Users = {u1, u2}
  Capacity = 1
  MaxEvents = 4
SYMMETRY MCSymmetry
SPECIFICATION MCSpec
INVARIANTS
  TypeOK
  BindingsAgree
  StateTold
PROPERTIES
  GapsMarked
  ImplementsOwnership
\* A closed output has nothing left to do.
CHECK_DEADLOCK FALSE
