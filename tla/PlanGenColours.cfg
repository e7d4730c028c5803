CONSTANTS
  Records <- MCRecords
  VarTables <- MCVarTables
  ClosedSets <- MCClosedSets
  GroupKeys <- MCGroupKeys
  Sizes <- MCSizes
  Number <- MCNumber
  LaterRecords <- MCLaterRecords
  MAX_SESSIONS = 1
  MAX_DEPARTURES = 0
SPECIFICATION Spec
INVARIANT OnlyUninterestingIsDropped
