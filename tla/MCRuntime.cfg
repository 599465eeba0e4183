SPECIFICATION RuntimeSpec
CONSTANTS
  HeaderSize = 2
  MinChunkSize = 8
  Sizes = {0, 6}
  AddSizes = {2}
  Aligns = {1, 4}
  Bases = {8, 16, 24, 32}
  MemoryEnd = 40
  MaxMarks = 2
  MaxObjects = 3
  MaxBlocks = 5
  MaxJmpBufs = 3
  PageSize = 2
  HeapStart = 2
  GuestSize = 10
  Word = 16
  MapSizes = {2, 3}
  AllocaSizes = {1, 13}
  Alignments = {2}
  MaxFrames = 2
  MaxSaved = 1
  Files = {3}
  MaxOffset = 1
  AccessSettings = {TRUE, FALSE}
  MaxFds = 3
  MaxHostFds = 4
  MaxUnsure = 1
  Bits8 = 2
  Bits16 = 4
  Bits32 = 8
  Bits64 = 12
  UsedFcmps = {"OEQ", "OGT", "OGE", "OLT", "OLE", "UGT", "UGE", "ULT", "ULE", "UNE"}
  UsedStores = {"INT32"}
  UsedRmws = {"INT8", "INT16", "INT32"}
  MemorySize = 7
  MaxEvents = 3
INVARIANTS
  RuntimeTypeOK
  ArenaSafe
  MarksRestore
  CallsSafe
  GuestMemorySafe
  FilesSafe
  InstructionsExact
  EventsSound
  CreatedOnce
PROPERTIES
  StandardOnly
  ImplementsFdTable
