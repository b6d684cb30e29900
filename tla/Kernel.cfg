\* A post, a stream its caller closes and an attempt, against two closers.
SPECIFICATION TidySpec
CONSTANTS
  Posts = {p1}
  Streams = {s1}
  Attempts = {a1}
  Closers = {k1, k2}
  MaxGen = 2
INVARIANTS
  DrainIsExact
PROPERTIES
  FrozenWhenClosed
  StaleIsNeverSent
  CloseReturns
CHECK_DEADLOCK FALSE
