---------------------------- MODULE MCZoneHosting ----------------------------
(* ZoneHosting for TLC.                                                     *)
EXTENDS ZoneHosting, TLC

Symmetry == Permutations(Servers) \union Permutations(Zones)
=============================================================================
