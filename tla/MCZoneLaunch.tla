---------------------------- MODULE MCZoneLaunch ----------------------------
(* ZoneLaunch for TLC.  Every run checks liveness, so there is no symmetry. *)
EXTENDS ZoneLaunch
=============================================================================
