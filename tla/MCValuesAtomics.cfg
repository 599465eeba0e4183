SPECIFICATION Spec
CONSTANTS
  Bits8 = 2
  Bits16 = 4
  Bits32 = 8
  Bits64 = 12
  UsedFcmps = {"OEQ"}
  UsedStores = {"INT8", "INT16", "INT32", "INT64"}
  UsedRmws = {"INT8", "INT16", "INT32", "INT64"}
  MemorySize = 7
INVARIANT MemoryExact
