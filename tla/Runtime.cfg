CONSTANTS
  main = main
  w1 = w1
  w2 = w2
  Threads <- MCThreads
  Programs <- MCPrograms
  PlanThreads <- PlanPair
SPECIFICATION FairSpec
INVARIANTS
  SlotNamesThread
  LogWellFormed
  BarrierMeets
PROPERTIES
  ProcessEnds
