--------------------------- MODULE MCCalibration ---------------------------
EXTENDS Calibration, TLC

Symmetry == Permutations(Seeds) \cup Permutations(Features) \cup Permutations(Windows)
=============================================================================
