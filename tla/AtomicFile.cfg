\* Two writers of two processes and a reader on one path, with and without the lock.
SPECIFICATION Spec
CONSTANTS
  w1 = w1
  w2 = w2
  r1 = r1
  p1 = p1
  p2 = p2
  Writers = {w1, w2}
  Readers = {r1}
  Processes = {p1, p2}
  Home <- TwoHomes
  Old = Old
  Absent = Absent
  Torn = Torn
INVARIANTS
  MutexIsHandedOn
  ReadersSeeWhole
  ReportsAreTrue
PROPERTIES
  ImplementsRWLock
CHECK_DEADLOCK FALSE
