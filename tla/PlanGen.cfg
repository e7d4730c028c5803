CONSTANTS
  Records <- MCRecords
  VarTables <- MCVarTables
  ClosedSets <- MCClosedSets
  GroupKeys <- MCGroupKeys
  Sizes <- MCSizes
  Number <- MCNumber
  LaterRecords <- MCLaterRecords
  MAX_SESSIONS = 2
  MAX_DEPARTURES = 1
SPECIFICATION Spec
INVARIANTS PairsLiveTogether EveryWindowPlanned PlansAreTellable
