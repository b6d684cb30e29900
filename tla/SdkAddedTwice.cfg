SPECIFICATION Spec
CONSTANTS
  TrimAll <- MCTrimAll
  CutThought <- MCCutThought
  ToLower <- MCToLower
  HasPart <- MCHasPart
  HasScheme <- MCHasScheme
  NbIds = {"n1", "n2"}
  SourceIds <- MCSourceIds
  Servers <- MCServers
  Calls <- MCCalls
  Shapes = {"row", "wrapped"}
  MaxRetries = 2
  MaxEdits = 1
  MaxLines = 3
  Passage = "abcd"
  IsUUID <- MCIsUUID
  MaxNesting = 10
INVARIANTS
  AddedOnce
CHECK_DEADLOCK FALSE
