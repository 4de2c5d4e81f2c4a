------------------------------ MODULE MCJournalStore ------------------------------
(* A small instance of JournalStore for TLC. *)
EXTENDS JournalStore, TLC

Symmetry == Permutations(Ids)
=============================================================================
