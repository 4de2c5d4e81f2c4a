--------------------------------- MODULE Journal ---------------------------------
(***************************************************************************)
(* What the effect journal promises to the rest of the worker (interface   *)
(* JournalStore of worker/src/persistence/journal-store.ts): a durable set *)
(* of operations that were begun and not completed.  One call is served at *)
(* a time; it changes the set for the operation it names and for no other, *)
(* or fails and leaves the set alone.  Crashes, failed calls and the       *)
(* compaction of completed rows never touch the set.                       *)
(***************************************************************************)
EXTENDS Naturals, FiniteSets

CONSTANTS
    Ids,   \* operation ids
    Max,   \* MAX_JOURNAL_OPERATION_IDS
    NoId   \* no operation

VARIABLES
    open,  \* the operations begun and not completed
    kind,  \* the call being served: "begin", "complete" or "none"
    opId   \* the operation it names

vars == <<open, kind, opId>>

Init == open = {} /\ kind = "none" /\ opId = NoId

Call(what, id) ==
    /\ kind = "none"
    /\ kind' = what /\ opId' = id
    /\ open' = open

Begin ==
    /\ kind = "begin" /\ opId \notin open
    /\ Cardinality(open) < Max
    /\ open' = open \cup {opId}
    /\ UNCHANGED <<kind, opId>>

Complete ==
    /\ kind = "complete" /\ opId \in open
    /\ open' = open \ {opId}
    /\ UNCHANGED <<kind, opId>>

\* The call returns or throws, or the process dies.
Return ==
    /\ kind' = "none" /\ opId' = NoId
    /\ open' = open

Next ==
    \/ \E what \in {"begin", "complete"}, id \in Ids : Call(what, id)
    \/ Begin
    \/ Complete
    \/ Return

Spec == Init /\ [][Next]_vars
=============================================================================
