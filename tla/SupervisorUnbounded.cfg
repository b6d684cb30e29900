\* No capacity: the atomic add of acquireSlot.  Three calls hold a slot at once, and
\* two goroutines race to release each lease.
SPECIFICATION Spec
CONSTANTS
  Calls = {c1, c2, c3}
  Drainers = {d1}
  Releasers = {r1, r2}
  MaxInFlight = 0
INVARIANTS
  SlotsAreExact
