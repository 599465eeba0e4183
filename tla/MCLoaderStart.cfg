SPECIFICATION Spec
CONSTANTS
  GuardSize = 2
  PageSize = 8
  MemorySizes = {8, 40}
  WordBytes = 2
  MaxBuiltins = 3
  RepeatLoads = 2
INVARIANT StartIsNamed
