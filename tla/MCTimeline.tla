----------------------------- MODULE MCTimeline -----------------------------
(* Instances of Timeline for TLC. *)
EXTENDS Timeline

TwoStages == {"copy", "site"}
=============================================================================
