CONSTANTS
  Seeds = {q1, q2, q3}
  Features = {f1, f2}
  Windows = {w1, w2}
  MAX_PLANS = 2
  None = None
SPECIFICATION CalibrationSpec
SYMMETRY Symmetry
INVARIANTS PlainRunsHaveNoPlan
