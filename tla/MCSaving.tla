----------------------------- MODULE MCSaving ------------------------------
(* Two bytes of the map, a limit that is reached, and one resume.          *)
EXTENDS Saving

CONSTANTS b1, b2
=============================================================================
