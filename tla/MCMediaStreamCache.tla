------------------------- MODULE MCMediaStreamCache -------------------------
(***************************************************************************)
(* MediaStreamCache for TLC.  No action tells one media from another, so   *)
(* the safety run explores them up to permutation.                         *)
(***************************************************************************)
EXTENDS MediaStreamCache, TLC

Symmetry == Permutations(Mxcs)
=============================================================================
