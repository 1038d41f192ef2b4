---------------------------- MODULE MCRadarCache ----------------------------
(* A small instance of RadarCache: more images than the loop holds, one
   overlay that comes and goes, and a capacity that changes at a restart. *)
EXTENDS RadarCache

CONSTANTS i1, i2, i3

Symmetry == Permutations(Image) \union Permutations(Context)
=============================================================================
