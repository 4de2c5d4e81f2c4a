---------------------------- MODULE MCBridgeRun ----------------------------
(* BridgeRun on a small instance: b0 is an ordinary body, empty is the empty  *)
(* one, lossy is one that cannot be converted; the tags may be exchanged.     *)
EXTENDS BridgeRun, TLC

CONSTANTS b0, empty, lossy, t0, t1

MCBodies == {b0, empty, lossy}
MCTags == {t0, t1}
Symmetry == Permutations(MCTags)
=============================================================================
