SPECIFICATION Spec
CONSTANTS
  Docs <- MCDocs
  Legacies <- MCLegacies
  URLs <- MCURLs
  Responses <- MCResponses
  MaxTime = 3
INVARIANTS
  StartsOnLiveRows
  SendsItsOwn
PROPERTIES
  SetIsLocal
  SaveRoundTrips
CHECK_DEADLOCK FALSE
