---------------------------- MODULE MCSeedQueue ----------------------------
(* Three entries, two of them from the input directory, compete for two     *)
(* bytes of the map with two cost levels and one window: enough for an      *)
(* entry to lose its only byte, to win one back after trimming, to turn     *)
(* redundant and useful again, to fail all its calibrations and to be left  *)
(* out by the dice.  One entry more than SkipPaths makes the second way of  *)
(* skipping possible.  U32 is the least modulus that tells a wrapped        *)
(* counter from a count.                                                    *)
EXTENDS SeedQueue
=============================================================================
