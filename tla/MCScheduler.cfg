CONSTANTS
  t0 = t0
  t1 = t1
  t2 = t2
  w1 = w1
  w2 = w2
  NULL = NULL
  Threads = {t0, t1, t2}
  start_thread = t0
  Words = {w1, w2}
  StoreValues = {0}
  NWakes = {1, 2}
  Deadlines = {0}
  Quantum = 2
  MaxClock = 1
SPECIFICATION Spec
SYMMETRY Symmetry
INVARIANTS
  TypeOK
  ListsLinked
  RingWhole
  OnlyCurrentThreadDies
  WakeupsMatchCalls
PROPERTIES
  ExitIsFinal
  ImplementsIrtFutex
