CONSTANTS
  Count = 3
  Cads = {0, 1}
  CorbTimeoutLimit = 3
  MaxVerbs = 5
  MaxUnsol = 1
SPECIFICATION Spec
INVARIANTS ResponseMatches
