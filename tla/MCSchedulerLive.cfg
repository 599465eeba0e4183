CONSTANTS
  t0 = t0
  t1 = t1
  t2 = t2
  w1 = w1
  NULL = NULL
  Threads = {t0, t1, t2}
  start_thread = t0
  Words = {w1}
  StoreValues = {0}
  NWakes = {1}
  Deadlines = {0}
  Quantum = 2
  MaxClock = 1
SPECIFICATION FairSpec
PROPERTIES
  RunningThreadsRun
  TimedWaitsEnd
  WokenWaitsReturn
