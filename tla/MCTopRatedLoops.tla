--------------------------- MODULE MCTopRatedLoops ---------------------------
(* Two entries compete for three bytes with two cost levels: an entry meets *)
(* its own only slot, keeps one of several, and is cleared by a cull walk   *)
(* that has to look past the first byte.                                    *)
EXTENDS TopRatedLoops
=============================================================================
