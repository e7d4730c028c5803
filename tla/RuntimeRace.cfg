CONSTANTS
  main = main
  w1 = w1
  w2 = w2
  Threads <- MCThreads
  Programs <- RacyPrograms
  PlanThreads <- PlanPair
SPECIFICATION Spec
INVARIANT EachHasSlot
