CONSTANTS
  Count = 3
  Cads = {0, 1}
  CorbTimeoutLimit = 3
  MaxVerbs = 4
  MaxUnsol = 1
SPECIFICATION FairSpec
INVARIANTS AtMostTwice OwnResponse TimeoutsBounded
PROPERTIES ExecutedInOrder VerbReturns
CHECK_DEADLOCK FALSE
