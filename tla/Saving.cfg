CONSTANTS
  b1 = b1
  b2 = b2
  Bytes = {b1, b2}
  KEEP_UNIQUE_HANG = 2
  KEEP_UNIQUE_CRASH = 2
  MAX_RESUMES = 1
SPECIFICATION Spec
INVARIANT KnownCoverageIsQueued
PROPERTY ImplementsCrashDedup
