SPECIFICATION Spec
CONSTANTS
  PageSize = 4
  HeapStart = 8
  MemorySize = 20
  Word = 32
  MapSizes = {4, 6}
  AllocaSizes = {3, 28}
  Alignments = {4}
  MaxFrames = 2
  MaxSaved = 1
INVARIANT OutOfStackIsFatal
