--------------------------- MODULE MCSyncFuzzers ---------------------------
(* One case from the input directory and one that may be found, and found   *)
(* again if it was lost; three starts let an aborted resume be resumed.     *)
EXTENDS SyncFuzzers

CONSTANTS a, b

MCInputDir == <<a>>
=============================================================================
