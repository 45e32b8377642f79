--------------------------- MODULE MCCompatPatch ---------------------------
(* CompatPatch with three addresses of the image, any of them a known one,   *)
(* and three sessions: enough for two matches in every combination of known  *)
(* and unknown addresses, a failed restore, a retry and a repeated call.     *)
EXTENDS CompatPatch, TLC

CONSTANTS s1, s2, s3

MCSites == {s1, s2, s3}

\* All marks, or all but one of the two anchors.
MCContexts == {Marks, Marks \ {"preceding"}, Marks \ {"following"}}

Symmetry == Permutations(MCSites)
=============================================================================
