CONSTANTS
  MaxBlocks = 5
  MaxJmpBufs = 3
SPECIFICATION Spec
INVARIANTS
  PendingSetjmpsFound
