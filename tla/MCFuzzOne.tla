----------------------------- MODULE MCFuzzOne -----------------------------
(* A single byte, a word with carries and borrows, and three bytes of which *)
(* the one in the middle may be without effect.                             *)
EXTENDS FuzzOne

MCFiles == {<<17>>, <<250, 3>>, <<224, 0, 128>>}

\* Slow and as fast as the others; little coverage and as much as the others.
MCSpeeds == {<<5, 1>>, <<1, 1>>}
MCCoverages == {<<2, 5>>, <<1, 1>>}

\* One of the first entries, and one that came late.
MCKinds == {<<1, 0>>, <<4, 5>>}
=============================================================================
