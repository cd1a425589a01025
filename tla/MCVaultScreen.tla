--------------------------- MODULE MCVaultScreen ---------------------------
(* Instances of VaultScreen for TLC.                                       *)
EXTENDS VaultScreen, TLC

CONSTANTS s1, s2

MCSites == {s1, s2}
SiteSymmetry == Permutations(MCSites)
=============================================================================
