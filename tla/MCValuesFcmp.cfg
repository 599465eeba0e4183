SPECIFICATION Spec
CONSTANTS
  Bits8 = 2
  Bits16 = 4
  Bits32 = 8
  Bits64 = 12
  UsedFcmps = {"OEQ", "OGT", "OGE", "OLT", "OLE", "ONE", "ORD", "UNO", "UEQ", "UGT", "UGE", "ULT", "ULE", "UNE"}
  UsedStores = {"INT32"}
  UsedRmws = {"INT8", "INT16", "INT32"}
  MemorySize = 7
INVARIANT FcmpAsTable
