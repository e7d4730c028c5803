CONSTANTS
  Pids <- MCPids
  MAX_CNT = 3
SPECIFICATION FairSpec
INVARIANTS TraceIsQuiet NoLostChild ResumedIsAlive
PROPERTIES ImplementsTargetRun RunsEnd
