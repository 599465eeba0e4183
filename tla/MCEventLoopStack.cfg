SPECIFICATION Spec
CONSTANTS
  MaxEvents = 3
  StackEnd = 2
  StartTop = 1
INVARIANT StartStackKept
