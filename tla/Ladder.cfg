\* Two callers of one jar, two cookies, a file that is rewritten once.
SPECIFICATION FairSpec
CONSTANTS
  Callers = {c1, c2}
  Cookies = {n1, n2}
  MaxVersion = 2
INVARIANTS
  AttemptsAreCounted
  
  StampIsNotOlder
PROPERTIES
  CancelReturns
CHECK_DEADLOCK FALSE
