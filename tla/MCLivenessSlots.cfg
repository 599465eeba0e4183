SPECIFICATION Spec
CONSTANTS
  NumBbs = 2
  NumFixed = 0
  NumLocals = 3
  MaxUses = 1
INVARIANT SlotsApart
