CONSTANTS
  Word = 16
  NumGlobals = 1
  NumArgs = 1
  NumConstants = 1
  Ids = {0, 4}
  MaxBbs = 2
  MaxInsts = 4
  Switches <- SwitchesUsed
  TypeValues = 5
  Operands <- OperandsUsed
  PredBbs = 4
  LoopBbs = 5
  PhiBbs = 3
  PhiValues = 4
  LiveBbs = 3
  NumFixed = 2
  NumLocals = 3
  MaxUses = 1
  StreamBbs = 2
  MaxBody = 2
  Counts = {0, 2}
  PhiCounts = {2}
  MaxU8 = 3
  MaxU16 = 3
SPECIFICATION Spec
INVARIANTS
  TypeOK
  ReadAsMeant
  BlocksPartition
  TypesResolved
  LoopsFound
  PhisAreParallel
  RangesLive
  StreamSound
  RunsTheFunction
