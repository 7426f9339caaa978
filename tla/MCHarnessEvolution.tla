------------------------- MODULE MCHarnessEvolution -------------------------
(* Two patches, so that a change of one can be seen to leave the other.    *)
EXTENDS HarnessEvolution

CONSTANTS p1, p2

MCPatches == {p1, p2}
=============================================================================
