------------------------- MODULE MCTimelineWindows -------------------------
(***************************************************************************)
(* TimelineWindows for TLC: rooms are interchangeable.                     *)
(***************************************************************************)
EXTENDS TimelineWindows, TLC

Symmetry == Permutations(Rooms)
=============================================================================
