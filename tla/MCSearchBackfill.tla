-------------------------- MODULE MCSearchBackfill --------------------------
(* The small instance of SearchBackfill: of the changes of the setting and *)
(* the starts of a process that the constants allow, at most three happen. *)
EXTENDS SearchBackfill

AtMostThree == (MaxToggles - budget.toggles) + (MaxStarts - budget.starts) <= 3
=============================================================================
