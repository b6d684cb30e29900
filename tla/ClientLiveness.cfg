\* One call without a capacity, two drains that overlap, a close.
SPECIFICATION FairSpec
CONSTANTS
  Calls = {c1}
  Drainers = {d1, d2}
  Closers = {k1}
  MaxInFlight = 0
PROPERTIES
  EverybodyReturns
CHECK_DEADLOCK FALSE
