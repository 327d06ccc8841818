\* Two closers race two drain goroutines for a data lane of two places and a
\* control lane of one.
CONSTANTS
  d1 = d1
  d2 = d2
  c1 = c1
  c2 = c2
  w1 = w1
  DataCapacity = 2
  ControlCapacity = 1
  Drainers = {d1, d2}
  Closers = {c1, c2}
  Waiters = {w1}
  MaxPosts = 4
SPECIFICATION FairSpec
INVARIANTS
  TypeOK
  SingleDrainer
  NoLostWakeup
  OrdinaryOrder
PROPERTIES
  ImplementsSerialExecutor
  EventsSettle
