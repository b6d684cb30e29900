\* Every method, with arguments that pass and that are refused, over two notebooks,
\* one of which is called what the other is identified by; two retries, one edit by
\* another user.
SPECIFICATION FairSpec
CONSTANTS
  TrimAll <- MCTrimAll
  CutThought <- MCCutThought
  ToLower <- MCToLower
  HasPart <- MCHasPart
  HasScheme <- MCHasScheme
  NbIds = {"n1", "n2"}
  SourceIds <- MCSourceIds
  Servers <- MCServers
  Calls <- MCCalls
  Shapes = {"row", "wrapped"}
  MaxRetries = 2
  MaxEdits = 1
  MaxLines = 3
  Passage = "abcd"
  IsUUID <- MCIsUUID
  MaxNesting = 10
INVARIANTS
  ListingsAreWhole
  AddsWhatWasAsked
  ResolvesToWhatWasThere
  RenameShowsItsTitle
  ErrorPagesAreErrors
  AnswerIsTheBest
  PassagesAreMarked
PROPERTIES
  EveryCallReturns
CHECK_DEADLOCK FALSE
