---------------------------- MODULE MCDashboard -----------------------------
(***************************************************************************)
(* Weeks of two days, a calendar of two of them, and six days, so that     *)
(* the calendar has lost its first column when they have passed; a browser *)
(* behind UTC, one level with it and one ahead.  The second answer lists   *)
(* more skills than the first two tiers hold, with equal counts at a cut.  *)
(***************************************************************************)
EXTENDS Dashboard

MCSkillCounts == {<<1, 0>>, <<0, 1, 2, 3, 1, 2>>}
MCOffsets == {-1, 0, 1}
=============================================================================
