CONSTANTS
  NumBbs = 3
  NumValues = 4
  MaxPhiSuccessors = 2
SPECIFICATION Spec
INVARIANTS
  FastHasNoConflict
