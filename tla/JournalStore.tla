------------------------------- MODULE JournalStore -------------------------------
(***************************************************************************)
(* The write-ahead journal of the worker, class FileJournalStore of        *)
(* worker/src/persistence/journal-store.ts.                                *)
(*                                                                         *)
(* The journal is a directory of intent, completion and retirement rows.   *)
(* A row is written to a temporary file of the same directory, linked to   *)
(* its name, and the temporary is unlinked; completed rows are compacted   *)
(* one at a time behind a retirement marker.  Every file-system call is a  *)
(* step, the process may crash after any of them, and a write may fail.    *)
(* Mutations are serialized (serializeMutation), so one is in progress at  *)
(* a time; the contents of a row never change and are left out.            *)
(***************************************************************************)
EXTENDS Naturals, FiniteSets

CONSTANTS
    Ids,         \* operation ids
    Max,         \* MAX_JOURNAL_OPERATION_IDS
    Threshold,   \* rotationThreshold()
    NoId         \* no operation

ASSUME NoIdAssumption == NoId \notin Ids
ASSUME MaxAssumption == Max \in Nat \ {0}
ASSUME ThresholdAssumption == Threshold \in 1..Max

VARIABLES
    intents,      \* ids with an intent-<id>.json
    completions,  \* ids with a completion-<id>.json
    retirements,  \* ids with a retirement-<id>.json
    temporary,    \* a temporary file is in the journal directory
    kind,         \* the mutation in progress: "begin", "complete" or "none"
    opId,         \* the operation it is about
    rotated,      \* the begin in progress has compacted a row
    phase,        \* the next step of the mutation
    retiring,     \* the retirement being finished
    refused       \* history: why the last mutation was refused by its own checks

journalVars == <<intents, completions, retirements, temporary, kind, opId, rotated, phase, retiring, refused>>
rows == <<intents, completions, retirements>>

Phases == {"idle", "recover", "remove-intent", "remove-completion", "remove-retirement",
           "decide", "marker-temp", "marker-link", "marker-unlink", "recheck",
           "row-temp", "row-link", "row-unlink"}

\* The journal's rows, the rows on disk and the rows of an interrupted write keep their types.
JournalTypeOK ==
    /\ intents \subseteq Ids
    /\ completions \subseteq Ids
    /\ retirements \subseteq Ids
    /\ temporary \in BOOLEAN
    /\ kind \in {"none", "begin", "complete"}
    /\ opId \in Ids \cup {NoId}
    /\ rotated \in BOOLEAN
    /\ phase \in Phases
    /\ (phase = "idle") <=> (kind = "none")
    /\ (phase = "idle") <=> (opId = NoId)
    /\ retiring \in Ids \cup {NoId}
    /\ refused \in {"none", "capacity", "known", "unreadable", "unknown"}

JournalInit ==
    /\ intents = {} /\ completions = {} /\ retirements = {}
    /\ temporary = FALSE
    /\ kind = "none" /\ opId = NoId /\ rotated = FALSE
    /\ phase = "idle" /\ retiring = NoId
    /\ refused = "none"

(***************************************************************************)
(* readSnapshot: what the rows mean, and the directories it rejects.       *)
(***************************************************************************)

\* A retirement marker stands for the removal of its two rows.
Begun == intents \ retirements
Finished == completions \ retirements
Outstanding == Begun \ Finished

Consistent ==
    /\ Cardinality(retirements) <= 1
    /\ \A r \in retirements : r \in intents => r \in completions
    /\ Finished \subseteq Begun
    /\ Cardinality(Begun) <= Max

\* Any other name in the directory, a temporary included, makes it unreadable.
Readable ==
    /\ ~temporary
    /\ Cardinality(intents) + Cardinality(completions) + Cardinality(retirements) <= 2 * Max + 1
    /\ Consistent

(***************************************************************************)
(* begin and complete                                                      *)
(***************************************************************************)

\* The mutation ends, or throws: clearCachedSnapshot, and serializeMutation lets the next one in.
Stop(why) ==
    /\ kind' = "none" /\ opId' = NoId /\ rotated' = FALSE
    /\ phase' = "idle" /\ retiring' = NoId
    /\ refused' = why

Call(what, id) ==
    /\ phase = "idle"
    /\ kind' = what /\ opId' = id /\ rotated' = FALSE
    /\ phase' = "recover"
    /\ UNCHANGED <<rows, temporary, retiring, refused>>

\* recoverRetirements reads the journal and finishes the interrupted retirement.
RecoverRetirements ==
    /\ phase = "recover"
    /\ \/ /\ ~Readable
          /\ Stop("unreadable")
       \/ /\ Readable /\ retirements # {}
          /\ retiring' \in retirements
          /\ phase' = "remove-intent"
          /\ UNCHANGED <<kind, opId, rotated, refused>>
       \/ /\ Readable /\ retirements = {}
          /\ phase' = "decide"
          /\ UNCHANGED <<kind, opId, rotated, retiring, refused>>
    /\ UNCHANGED <<rows, temporary>>

\* finishRetirement: intent row, completion row, marker, each unlink made durable
\* before the next.
\* Mutant of RemoveExpectedIntent: the completion row goes first.
RemoveCompletionFirst ==
    /\ phase = "remove-intent"
    /\ completions' = completions \ {retiring}
    /\ phase' = "remove-retirement"
    /\ UNCHANGED <<intents, retirements, temporary, kind, opId, rotated, retiring, refused>>

RemoveExpectedIntent ==
    /\ phase = "remove-intent"
    /\ intents' = intents \ {retiring}
    /\ phase' = "remove-completion"
    /\ UNCHANGED <<completions, retirements, temporary, kind, opId, rotated, retiring, refused>>

RemoveExpectedCompletion ==
    /\ phase = "remove-completion"
    /\ completions' = completions \ {retiring}
    /\ phase' = "remove-retirement"
    /\ UNCHANGED <<intents, retirements, temporary, kind, opId, rotated, retiring, refused>>

RemoveExpectedRetirement ==
    /\ phase = "remove-retirement"
    /\ retirements' = retirements \ {retiring}
    /\ retiring' = NoId
    /\ phase' = IF rotated THEN "recheck" ELSE "decide"
    /\ UNCHANGED <<intents, completions, temporary, kind, opId, rotated, refused>>

\* Mutant of AtCapacity: completed rows count too.
AtCapacityOfRows == Cardinality(Begun) >= Max

AtCapacity == Cardinality(Outstanding) >= Max

\* Mutant of Compactable: any begun row may be compacted.
CompactableBegun == Begun

\* compactOneCompleted takes the completed row with the smallest id; here any one.
Compactable == Finished

MustRotate == Cardinality(Begun) >= Threshold /\ Finished # {}

DecideBegin ==
    /\ phase = "decide" /\ kind = "begin"
    /\ \/ /\ ~Readable
          /\ Stop("unreadable")
       \/ /\ Readable
          /\ \/ /\ AtCapacity
                /\ Stop("capacity")
             \/ /\ opId \in Begun \cup retirements
                /\ Stop("known")
       \/ /\ Readable
          /\ ~AtCapacity
          /\ opId \notin Begun \cup retirements
          /\ \/ /\ MustRotate
                /\ retiring' \in Compactable
                /\ rotated' = TRUE
                /\ phase' = "marker-temp"
                /\ UNCHANGED <<kind, opId>>
             \/ /\ ~MustRotate
                /\ phase' = "row-temp"
                /\ UNCHANGED <<kind, opId, rotated, retiring>>
          /\ refused' = refused
    /\ UNCHANGED <<rows, temporary>>

\* After the compaction, begin reads the journal again and checks the hard limit.
RecheckBegin ==
    /\ phase = "recheck"
    /\ \/ /\ ~Readable
          /\ Stop("unreadable")
       \/ /\ Readable /\ Cardinality(Begun) >= Max
          /\ Stop("capacity")
       \/ /\ Readable /\ Cardinality(Begun) < Max
          /\ phase' = "row-temp"
          /\ UNCHANGED <<kind, opId, rotated, retiring, refused>>
    /\ UNCHANGED <<rows, temporary>>

DecideComplete ==
    /\ phase = "decide" /\ kind = "complete"
    /\ \/ /\ ~Readable
          /\ Stop("unreadable")
       \/ /\ Readable /\ opId \notin Outstanding
          /\ Stop("unknown")
       \/ /\ Readable /\ opId \in Outstanding
          /\ phase' = "row-temp"
          /\ UNCHANGED <<kind, opId, rotated, retiring, refused>>
    /\ UNCHANGED <<rows, temporary>>

(***************************************************************************)
(* writeExclusive: of the retirement marker, then of the begun or          *)
(* completed row.                                                          *)
(***************************************************************************)
CreateTemporary ==
    /\ \/ phase = "marker-temp" /\ phase' = "marker-link"
       \/ phase = "row-temp" /\ phase' = "row-link"
    /\ temporary' = TRUE
    /\ UNCHANGED <<rows, kind, opId, rotated, retiring, refused>>

LinkMarker ==
    /\ phase = "marker-link"
    /\ retirements' = retirements \cup {retiring}
    /\ phase' = "marker-unlink"
    /\ UNCHANGED <<intents, completions, temporary, kind, opId, rotated, retiring, refused>>

\* link(2) fails when the row exists already.
LinkRow ==
    /\ phase = "row-link"
    /\ \/ /\ kind = "begin" /\ opId \notin intents
          /\ intents' = intents \cup {opId}
          /\ completions' = completions
       \/ /\ kind = "complete" /\ opId \notin completions
          /\ completions' = completions \cup {opId}
          /\ intents' = intents
    /\ phase' = "row-unlink"
    /\ UNCHANGED <<retirements, temporary, kind, opId, rotated, retiring, refused>>

UnlinkTemporary ==
    /\ phase \in {"marker-unlink", "row-unlink"}
    /\ temporary' = FALSE
    /\ \/ /\ phase = "marker-unlink"
          /\ phase' = "remove-intent"
          /\ UNCHANGED <<kind, opId, rotated, retiring, refused>>
       \/ /\ phase = "row-unlink"
          /\ Stop("none")
    /\ UNCHANGED rows

\* A failing write or sync: the temporary is removed and the mutation throws, with its
\* row linked or not.
WriteFails ==
    /\ phase \in {"marker-link", "row-link", "marker-unlink", "row-unlink"}
    /\ temporary' = FALSE
    /\ Stop("none")
    /\ UNCHANGED rows

(***************************************************************************)
(* The process dies: the rows and temporaries stay, the mutation is gone.  *)
(***************************************************************************)
Crash ==
    /\ phase # "idle"
    /\ Stop("none")
    /\ UNCHANGED <<rows, temporary>>

JournalNext ==
    \/ \E what \in {"begin", "complete"}, id \in Ids : Call(what, id)
    \/ RecoverRetirements
    \/ RemoveExpectedIntent
    \/ RemoveExpectedCompletion
    \/ RemoveExpectedRetirement
    \/ DecideBegin
    \/ RecheckBegin
    \/ DecideComplete
    \/ CreateTemporary
    \/ LinkMarker
    \/ LinkRow
    \/ UnlinkTemporary
    \/ WriteFails
    \/ Crash

JournalSpec == JournalInit /\ [][JournalNext]_journalVars

(***************************************************************************)
(* Properties                                                              *)
(***************************************************************************)

\* Whatever a crash or a failed write interrupts, and however often the interrupted
\* compaction is resumed, readSnapshot accepts the directory unless a temporary file was
\* left in it: no reachable set of rows looks corrupt, and none exceeds the row limits.
RecoverableUnlessTemporary == ~temporary => Readable

\* begin is refused for lack of room only when MAX_JOURNAL_OPERATION_IDS operations are
\* really outstanding: completed rows are always compacted in time.
NeverRefusedBelowCapacity ==
    [][refused # "capacity" /\ refused' = "capacity" => Cardinality(Outstanding) >= Max]_journalVars

\* The rows implement the durable set of begun and not completed operations.
Abstract == INSTANCE Journal WITH open <- Outstanding
ImplementsJournal == Abstract!Spec
=============================================================================
