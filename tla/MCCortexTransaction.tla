------------------------ MODULE MCCortexTransaction ------------------------
(* Four transactions over three pages: a page tree is renamed and its note *)
(* rewritten; a note that moves inside a companion is rewritten there, after *)
(* the making of another page in the third; in the fourth it is rewritten    *)
(* before its page moves, so that the move takes the new text along.         *)
EXTENDS CortexTransaction

Write(path) == [kind |-> "write", path |-> path, to |-> path.page]
Create(path) == [kind |-> "create", path |-> path, to |-> path.page]
Move(from, to) == [kind |-> "move", path |-> Note(from), to |-> to]

MCPlans == {<<Move("a", "b"), Write(Note("b"))>>,
            <<Move("a", "b"), Write(Within("b"))>>,
            <<Create(Note("c")), Move("a", "b"), Write(Within("b"))>>,
            <<Write(Within("a")), Move("a", "b")>>}

MCPages == {"a", "b", "c"}
MCInodes == 1..11
=============================================================================
