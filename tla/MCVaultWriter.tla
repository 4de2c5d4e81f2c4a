---------------------------- MODULE MCVaultWriter ----------------------------
(* One call of each kind: a note and one inside a companion are rewritten, *)
(* a page and a note inside a directory that may be missing are created,   *)
(* and a page is renamed, to a free name or to one that is taken.          *)
EXTENDS VaultWriter

MCRequests ==
  {[kind |-> "write", path |-> p, to |-> "a"] : p \in {Note("a"), Within("a")}}
    \union {[kind |-> "create", path |-> p, to |-> "b"] : p \in {Note("b"), Within("a"), Within("b")}}
    \union {[kind |-> "move", path |-> Note("a"), to |-> p] : p \in {"b", "c"}}

MCPages == {"a", "b", "c"}
MCInodes == 1..12
=============================================================================
