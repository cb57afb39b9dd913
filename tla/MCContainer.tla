----------------------------- MODULE MCContainer -----------------------------
(***************************************************************************)
(* Container for TLC.  Two assignments and two unassignments of one        *)
(* identifier and a crash of the agent are enough for a late clean-up to   *)
(* meet a successor.  The calls of each kind are interchangeable, but      *)
(* symmetry is not used because the run checks liveness.                   *)
(***************************************************************************)
EXTENDS Container
=============================================================================
