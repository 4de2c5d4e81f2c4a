---------------------------- MODULE GraphPublish ----------------------------
(***************************************************************************)
(* How a run of the worker publishes the encrypted graph of the vault:     *)
(* worker/src/worker.ts (finishReconciliation) projects the vault,         *)
(* graph/publisher.ts encrypts a changed projection under the next         *)
(* sequence, relay/client.ts uploads it with retries, the relay stores it  *)
(* if it is newer, and the run records it in state.json behind a state     *)
(* fence.  An envelope is its sequence and the projection it encrypts;     *)
(* nonces, keys and graph ids do not change here.  The run's other work,   *)
(* which may open the fence before the graph is touched, is BridgeRun's.   *)
(***************************************************************************)
EXTENDS Naturals

CONSTANTS Projections,    \* what the vault's notes may project to
          Nothing,        \* the projection of a graph never published
          MaxTries,       \* MAX_RETRY_ATTEMPTS of relay/client.ts
          MaxChanges,     \* bound: edits of the vault
          MaxFaults       \* bound: failed attempts, lost answers and stopped runs

ASSUME NothingAssumption == Nothing \notin Projections

ASSUME BoundsAssumption == MaxTries \in Nat /\ MaxChanges \in Nat /\ MaxFaults \in Nat

VARIABLES
    vault,      \* the projection of the vault as it is now
    known,      \* state.json: the last publication recorded
    fence,      \* the journal: is a commit-state intent open?
    stored,     \* the relay: snapshot_sequence and the graph_snapshot row
    pc,         \* where the run is
    projected,  \* the projection the run has computed
    graph,      \* the graph state the run will record
    answer,     \* the upload in flight: "none", "awaited", "created" or "conflict"
    tries,      \* retries of this upload
    strays,     \* uploads whose client stopped waiting, still to reach the relay
    changes, faults

recorded == <<known, fence>>
run == <<pc, projected, graph, answer, tries>>
bounds == <<changes, faults>>
vars == <<vault, recorded, stored, run, strays, bounds>>

Publications == [sequence : Nat, projection : Projections \cup {Nothing}]

Steps == {"idle", "project", "publish", "upload", "finish", "save", "complete"}

\* The run's variables keep their types: a request awaits its answer only during the upload,
\* and an attempt is retried MAX_RETRY_ATTEMPTS times at most (RelayClient.request).
TypeOK ==
    /\ vault \in Projections /\ projected \in Projections
    /\ known \in Publications /\ stored \in Publications /\ graph \in Publications
    /\ fence \in BOOLEAN
    /\ pc \in Steps
    /\ answer \in {"none", "awaited", "created", "conflict"}
    /\ answer # "none" <=> pc = "upload"
    /\ tries \in 0..MaxTries
    /\ strays \subseteq Publications
    /\ changes \in 0..MaxChanges /\ faults \in 0..MaxFaults

\* A fresh installation: initialGraphState, and snapshot_sequence's default.
Unpublished == [sequence |-> 0, projection |-> Nothing]

Init ==
    /\ vault \in Projections /\ projected = vault
    /\ known = Unpublished /\ stored = Unpublished /\ graph = Unpublished
    /\ fence = FALSE
    /\ pc = "idle" /\ answer = "none" /\ tries = 0
    /\ strays = {}
    /\ changes = 0 /\ faults = 0

Fault == faults < MaxFaults /\ faults' = faults + 1 /\ UNCHANGED changes

\* The owner edits notes, so that the vault projects to something else.
ChangeVault(p) ==
    /\ p # vault /\ vault' = p
    /\ changes < MaxChanges /\ changes' = changes + 1
    /\ UNCHANGED <<recorded, stored, run, strays, faults>>

-----------------------------------------------------------------------------
\* A run passes recovery only if no state fence is open, and opens one of its
\* own before its effects when it has any (busy).
StartRun(busy) ==
    /\ pc = "idle" /\ ~fence
    /\ pc' = "project" /\ fence' = busy
    /\ UNCHANGED <<vault, known, stored, projected, graph, answer, tries, strays, bounds>>

\* A scan cut short by its budget leaves the graph to a later run.
Project(complete) ==
    /\ pc = "project"
    /\ IF complete THEN pc' = "publish" /\ projected' = vault /\ UNCHANGED graph
                   ELSE pc' = "finish" /\ graph' = known /\ UNCHANGED projected
    /\ UNCHANGED <<vault, recorded, stored, answer, tries, strays, bounds>>

\* publishIfChanged: an unchanged projection is not sent; a changed one is
\* encrypted under the sequence after the recorded one.
Envelope == [sequence |-> known.sequence + 1, projection |-> projected]

Publish ==
    /\ pc = "publish"
    /\ IF projected = known.projection
         THEN pc' = "finish" /\ graph' = known /\ UNCHANGED <<answer, tries>>
         ELSE pc' = "upload" /\ graph' = Envelope /\ answer' = "awaited" /\ tries' = 0
    /\ UNCHANGED <<vault, recorded, stored, projected, strays, bounds>>

\* Mutant: an equal sequence is let through.
NewerOrSame(envelope) == envelope.sequence >= stored.sequence

\* bridge_store_graph_snapshot_if_newer, in one transaction of the relay.
Newer(envelope) == envelope.sequence > stored.sequence

StoreIfNewer(envelope) == stored' = IF Newer(envelope) THEN envelope ELSE stored

Store ==
    /\ answer = "awaited"
    /\ StoreIfNewer(graph)
    /\ answer' = IF Newer(graph) THEN "created" ELSE "conflict"
    /\ UNCHANGED <<vault, recorded, pc, projected, graph, tries, strays, bounds>>

\* An upload nobody waits for any more is handled all the same.
StoreStray(envelope) ==
    /\ envelope \in strays /\ strays' = strays \ {envelope}
    /\ StoreIfNewer(envelope)
    /\ UNCHANGED <<vault, recorded, run, bounds>>

\* Mutant: a failed upload advances the graph state.
RetainNothing == pc' = "finish" /\ answer' = "none" /\ UNCHANGED <<graph, tries>>

\* The upload has thrown: the graph state is intentionally retained.
Retain == graph' = known /\ pc' = "finish" /\ answer' = "none" /\ UNCHANGED tries

\* 201 is the only accepted status; 409 is an error that is not retried.
TakeAnswer ==
    /\ pc = "upload"
    /\ \/ answer = "created" /\ pc' = "finish" /\ answer' = "none" /\ UNCHANGED <<graph, tries>>
       \/ answer = "conflict" /\ Retain
    /\ UNCHANGED <<vault, recorded, stored, projected, strays, bounds>>

\* A client that stops waiting leaves its request lost or still on its way.
Abandon == \/ UNCHANGED strays
           \/ answer = "awaited" /\ strays' = strays \cup {graph}

CanRetry == tries < MaxTries

\* An attempt fails: five seconds pass, the connection breaks, the relay fails or
\* limits the rate, before or after it has stored the upload.  A retry sends the
\* same envelope; an internal error of the relay (500) is not retried.
AttemptFails(retryable) ==
    /\ pc = "upload" /\ Fault
    /\ Abandon
    /\ IF retryable /\ CanRetry
         THEN answer' = "awaited" /\ tries' = tries + 1 /\ UNCHANGED <<pc, graph>>
         ELSE Retain
    /\ UNCHANGED <<vault, recorded, stored, projected>>

\* The rest of the run changed nothing that state.json holds: nothing is saved.
FinishUnchanged ==
    /\ pc = "finish" /\ ~fence /\ graph = known
    /\ pc' = "idle"
    /\ UNCHANGED <<vault, recorded, stored, projected, graph, answer, tries, strays, bounds>>

\* Otherwise the state is saved, the new run summary included, behind a fence.
OpenFence ==
    /\ pc = "finish"
    /\ pc' = "save" /\ fence' = TRUE
    /\ UNCHANGED <<vault, known, stored, projected, graph, answer, tries, strays, bounds>>

SaveState ==
    /\ pc = "save"
    /\ pc' = "complete" /\ known' = graph
    /\ UNCHANGED <<vault, fence, stored, projected, graph, answer, tries, strays, bounds>>

CompleteFence ==
    /\ pc = "complete"
    /\ pc' = "idle" /\ fence' = FALSE
    /\ UNCHANGED <<vault, known, stored, projected, graph, answer, tries, strays, bounds>>

\* The run fails outside the graph's try block (an effect, the relay registry,
\* the journal, the state store), or its process dies.
Stops ==
    /\ pc # "idle" /\ Fault
    /\ Abandon
    /\ pc' = "idle" /\ answer' = "none"
    /\ UNCHANGED <<vault, recorded, stored, projected, graph, tries>>

Owner == \E p \in Projections : ChangeVault(p)

Run == \/ \E busy \in BOOLEAN : StartRun(busy)
       \/ \E complete \in BOOLEAN : Project(complete)
       \/ Publish \/ TakeAnswer
       \/ \E retryable \in BOOLEAN : AttemptFails(retryable)
       \/ FinishUnchanged \/ OpenFence \/ SaveState \/ CompleteFence \/ Stops

Relay == Store \/ \E envelope \in strays : StoreStray(envelope)

Next == Owner \/ Run \/ Relay

Spec == Init /\ [][Next]_vars

\* Runs keep being started by the schedule, a started run takes its steps, the
\* relay answers what it receives, and a full scan comes due every 24 hours.
\* Nothing is assumed of the owner, of strays or of faults.
FairSpec == /\ Spec
            /\ WF_vars(\E busy \in BOOLEAN : StartRun(busy))
            /\ WF_vars(\E complete \in BOOLEAN : Project(complete))
            /\ SF_vars(Project(TRUE))
            /\ WF_vars(Publish \/ Store \/ TakeAnswer)
            /\ WF_vars(FinishUnchanged \/ OpenFence \/ SaveState \/ CompleteFence)

-----------------------------------------------------------------------------
\* What the relay serves is the publication state.json records, or the very next
\* one whose answer never reached the state file; under one sequence there is one
\* projection.  So a viewer never holds a graph that the worker's next upload could
\* contradict, whatever is lost, retried or late (publisher.ts leaves the state to
\* the run, storeIfNewer refuses equal sequences).
RelayHoldsRecordedOrNext ==
    /\ stored.sequence \in {known.sequence, known.sequence + 1}
    /\ stored.sequence = known.sequence => stored.projection = known.projection

\* Once edits and faults are over, the relay comes to hold the vault's projection
\* for good - unless an interrupted run has left its fence open, or the relay is one
\* sequence ahead of state.json.
PublicationSettles ==
    <>[](stored.projection = vault \/ fence \/ stored.sequence > known.sequence)

=============================================================================
