--------------------------- MODULE MCInstallationLock ---------------------------
(* A small instance of InstallationLock for TLC. *)
EXTENDS InstallationLock, TLC

Symmetry == Permutations(Processes)
=============================================================================
