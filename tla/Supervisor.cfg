\* Two calls for one slot, two goroutines per lease, two drainers that may begin
\* and end drains for ever.
SPECIFICATION FairSpec
CONSTANTS
  Calls = {c1, c2}
  Drainers = {d1, d2}
  Releasers = {r1, r2}
  MaxInFlight = 1
INVARIANTS
  SlotsAreExact
  WaitersAreSafe
PROPERTIES
  ImplementsGate
  ParkedCallsWake
  QueuedCallsSettle
