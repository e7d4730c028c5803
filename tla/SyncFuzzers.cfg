CONSTANTS
  a = a
  b = b
  Cases = {a, b}
  Zero = Zero
  InputDir <- MCInputDir
  MAX_PATHS = 2
  MAX_STARTS = 3
  MAX_STOPS = 1
  Races = {}
  NoDir = NoDir
SPECIFICATION FairSpec
INVARIANTS ResumeFindsAll EntriesOnDisk SkippedIsSeen
PROPERTY EveryCaseIsRun
