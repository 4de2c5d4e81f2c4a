---------------------------- MODULE MCCortexRun ----------------------------
(* A root, a page below it, and a page below that one; either side may get *)
(* another page.  And a root of blocks only, with no page yet.             *)
EXTENDS CortexRun

Page(parent, title) == [parent |-> parent, title |-> title, body |-> 1]

CONSTANTS A, B, C, a, b

Nested == [p \in {Root, A, B} |-> IF p = Root THEN Page(Nothing, RootName)
                                  ELSE IF p = A THEN Page(Root, a) ELSE Page(A, b)]

Blocks == [p \in {Root} |-> Page(Nothing, RootName)]

MCStarts == {[tree |-> Nested, opaque |-> FALSE], [tree |-> Blocks, opaque |-> TRUE]}
=============================================================================
