--------------------------- MODULE MCVaultInstall ---------------------------
(* VaultInstall on a small instance; installations may be exchanged. *)
EXTENDS VaultInstall, TLC

CONSTANTS i1, i2, i3

MCInstalls == {i1, i2, i3}
Symmetry == Permutations(MCInstalls)
=============================================================================
