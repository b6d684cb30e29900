\* Every registration of up to three participants, and three calls of Open or Close.
SPECIFICATION FairSpec
CONSTANTS
  Goroutines = {g1, g2, g3}
  Names = {n1, n2}
  Phases = {1, 2}
  MaxParts = 3
INVARIANTS
  HooksAreOrderly
  FailedWaveIsUndone
PROPERTIES
  CloseReleasesAll
CHECK_DEADLOCK FALSE
