--------------------------- MODULE MCDynamicZones ---------------------------
(* DynamicZones for TLC.                                                    *)
EXTENDS DynamicZones, TLC

Symmetry == Permutations(Zones) \union Permutations(Characters)
=============================================================================
