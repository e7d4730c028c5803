CONSTANTS
  Records <- LongRecords
  VarTables <- MCVarTables
  ClosedSets <- MCClosedSets
  GroupKeys <- MCGroupKeys
  Sizes <- CodeSizes
  Number <- MCNumber
  LaterRecords <- MCLaterRecords
  MAX_SESSIONS = 1
  MAX_DEPARTURES = 0
SPECIFICATION Spec
INVARIANT PlansWithinLimit
