\* Two calls for one slot, a drain and a close, which finds the calls anywhere in
\* RPCCall.
SPECIFICATION Spec
CONSTANTS
  Calls = {c1, c2}
  Drainers = {d1}
  Closers = {k1}
  MaxInFlight = 1
INVARIANTS
  SlotsCoverWire
PROPERTIES
  CloseStopsCalls
CHECK_DEADLOCK FALSE
