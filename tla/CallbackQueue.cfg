\* Three callers: a producer, a waitIdle and a close can sleep together.
CONSTANTS
  c1 = c1
  c2 = c2
  c3 = c3
  Worker = Worker
  Capacity = 2
  ControlCapacity = 1
  Callers = {c1, c2, c3}
  MaxPosts = 3
SPECIFICATION FairSpec
INVARIANTS
  TypeOK
  WorkerSleepsAlone
  NothingLost
PROPERTIES
  ImplementsDrainingExecutor
  QueueSettles
\* After close the worker and all callers may be done.
CHECK_DEADLOCK FALSE
