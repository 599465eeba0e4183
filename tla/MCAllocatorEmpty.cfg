SPECIFICATION Spec
CONSTANTS
  HeaderSize = 2
  MinChunkSize = 8
  Sizes = {0, 3}
  AddSizes = {2}
  Aligns = {1, 4}
  Bases = {8, 16, 24, 32}
  MemoryEnd = 40
  MaxMarks = 2
  MaxObjects = 3
INVARIANT EveryMarkRestores
