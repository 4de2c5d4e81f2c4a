------------------------------ MODULE BridgeRun ------------------------------
(* Bridge runs over one note and its Notion page (worker/src/worker.ts,       *)
(* sync/reconcile.ts, sync/executor.ts, persistence/recovery.ts), while the   *)
(* owner edits both sides, calls fail and the process may die between any two *)
(* steps. One run is active at a time: that is the installation lock, module  *)
(* InstallationLock. The journal's own steps are module JournalStore.         *)
EXTENDS PairPlanner, FiniteSets

CONSTANTS MaxEdits,          \* edits by the owner, on either side
          MaxFaults,         \* failed calls and deaths of the process
          LastDay,           \* conflict artifacts are named by the UTC day
          EmptyBodies        \* bodies of which Notion's Markdown is the empty string

ASSUME EmptyAssumption == EmptyBodies \subseteq Bodies
ASSUME BoundsAssumption == MaxEdits \in Nat /\ MaxFaults \in Nat /\ LastDay \in Nat

VARIABLES
    local, page, artifacts, today,       \* the vault, the Notion page, the calendar
    pair, fence, intent,                 \* state.json and the open journal intents
    registered, events,                  \* the relay's page registry and event queue
    pc, preview, sawLocal, sawNotion,    \* the run: its observations of the pair,
    plan, todo, seen, failed,            \*   its plan, effects left, last check,
    claimed, matched,                    \*   and its claimed events
    created, lapsed,                     \* pages ever created; those of them whose
                                         \*   completion was recorded but threw
    edits, faults                        \* the bounds' counters

vault   == <<local, artifacts>>
durable == <<pair, fence, intent>>
relay   == <<registered, events>>
inputs  == <<preview, sawLocal, sawNotion, claimed, matched>>
work    == <<plan, todo, seen, failed>>
counts  == <<created, lapsed, edits, faults>>
vars == <<vault, page, today, durable, relay, pc, inputs, work, counts>>

-----------------------------------------------------------------------------
\* A conflict artifact is named by its pair and its day; it holds both texts.
Artifacts == [day : 0 .. LastDay, local : Semantics, notion : Semantics]

\* JournalIntentV1 by effect kind: the bytes or the semantic content expected
\* before and after the effect, as far as the intent records them.
Blind == {"create-notion-page", "update-notion-properties", "set-notion-status",
          "register-relay-page"}
Intents == [kind : Blind \union {"none"}]
    \union [kind : {"initialize-pair", "write-local"}, before : Notes, after : Notes]
    \union [kind : {"update-notion-body-exact"}, before : Semantics, after : Semantics]
    \union [kind : {"create-conflict"}, artifact : Artifacts]

NoIntent == [kind |-> "none"]

\* No planning input: nothing was observed.
Unseen == [kind |-> "unseen"]
NoPlan == [action |-> "none"]

Steps == {"idle", "recover", "scan", "retrieve", "plan", "effect", "check", "write",
          "confirm", "register", "save", "unfence", "ack"}

\* The note, the page and the run's records keep the shapes the contracts of shared/ give them.
TypeOK == /\ local \in Notes /\ page \in Pages
          /\ artifacts \subseteq Artifacts /\ today \in 0 .. LastDay
          /\ pair \in Pairs /\ fence \in BOOLEAN /\ intent \in Intents
          /\ registered \in BOOLEAN /\ events \subseteq Nat
          /\ pc \in Steps /\ preview \in BOOLEAN
          /\ sawLocal \in Notes \union {Unseen} /\ sawNotion \in Pages \union {Unseen}
          /\ plan \in Plans \union {NoPlan} /\ todo \in EffectLists
          /\ seen \in Notes \union Pages \union {Unseen} /\ failed \in BOOLEAN
          /\ claimed \subseteq Nat /\ matched \in BOOLEAN
          /\ created \in Nat /\ lapsed \in Nat /\ edits \in 0 .. MaxEdits /\ faults \in 0 .. MaxFaults

\* An installation whose owner has one eligible note that was never synced.
Init == \E sem \in Semantics :
    /\ local = [kind |-> "present", sem |-> sem, bridge |-> FALSE, eligible |-> TRUE]
    /\ page = [kind |-> "none", sem |-> sem, status |-> "synced", revision |-> 0]
    /\ artifacts = {} /\ today = 0
    /\ pair = [status |-> "unpaired", common |-> sem] /\ fence = FALSE /\ intent = NoIntent
    /\ registered = FALSE /\ events = {}
    /\ pc = "idle" /\ preview = FALSE /\ sawLocal = Unseen /\ sawNotion = Unseen
    /\ plan = NoPlan /\ todo = <<>> /\ seen = Unseen /\ failed = FALSE
    /\ claimed = {} /\ matched = FALSE
    /\ created = 0 /\ lapsed = 0 /\ edits = 0 /\ faults = 0

-----------------------------------------------------------------------------
\* The owner. Notion reports a change of a registered page through the relay.
ChangePage(new) == /\ page' = [new EXCEPT !.revision = page.revision + 1]
                   /\ events' = IF registered THEN events \union {page.revision + 1}
                                              ELSE events
                   /\ UNCHANGED registered

OwnerActs == /\ edits < MaxEdits
             /\ edits' = edits + 1
             /\ UNCHANGED <<artifacts, today, durable, pc, inputs, work, created, lapsed, faults>>

\* Writing the note anew, restoring it, opting it out, dropping its Bridge ID.
EditNote == /\ \E new \in Notes : /\ new # local /\ new.kind = "present"
                                  /\ new.bridge => local.bridge
                                  /\ local' = new
            /\ UNCHANGED <<page, relay>>
            /\ OwnerActs

SpoilNote == /\ local.kind = "present"
             /\ \E kind \in {"absent", "malformed"} : local' = [local EXCEPT !.kind = kind]
             /\ UNCHANGED <<page, relay>>
             /\ OwnerActs

EditPage == /\ page.kind = "present"
            /\ \E sem \in Semantics \ {page.sem} : ChangePage([page EXCEPT !.sem = sem])
            /\ UNCHANGED local
            /\ OwnerActs

TrashPage == /\ page.kind = "present"
             /\ ChangePage([page EXCEPT !.kind = "trashed"])
             /\ UNCHANGED local
             /\ OwnerActs

RestorePage == /\ page.kind = "trashed"
               /\ ChangePage([page EXCEPT !.kind = "present"])
               /\ UNCHANGED local
               /\ OwnerActs

NextDay == /\ today < LastDay
           /\ today' = today + 1
           /\ UNCHANGED <<vault, page, durable, relay, pc, inputs, work, counts>>

Owner == EditNote \/ SpoilNote \/ EditPage \/ TrashPage \/ RestorePage \/ NextDay

-----------------------------------------------------------------------------
\* The end of a run, whatever the outcome: nothing of it survives but what it
\* wrote. The last conjunct of a fault counts it.
EndRun == /\ pc' = "idle" /\ preview' = FALSE /\ failed' = FALSE
          /\ sawLocal' = Unseen /\ sawNotion' = Unseen /\ seen' = Unseen
          /\ plan' = NoPlan /\ todo' = <<>> /\ claimed' = {} /\ matched' = FALSE

Fault == faults < MaxFaults /\ faults' = faults + 1

world == <<vault, page, today, created, lapsed, edits>>

\* Mutant: a detached pair counts as retained.
EverPaired(p) == p.status # "unpaired"

\* isRetainedRelayPair: events of the page belong to a pair of this worker.
Retained(p) == p.status \notin {"unpaired", "detached"}

\* A preview refuses to start while the journal holds an open intent; an
\* apply run claims the queued events and looks up the pages they are about.
StartRun(mode) ==
    /\ pc = "idle"
    /\ mode = "preview" => ~fence /\ intent = NoIntent
    /\ preview' = (mode = "preview")
    /\ pc' = IF mode = "preview" THEN "scan" ELSE "recover"
    /\ claimed' = IF mode = "preview" THEN {} ELSE events
    /\ matched' = (mode # "preview" /\ Retained(pair))
    /\ UNCHANGED <<world, durable, relay, sawLocal, sawNotion, work, faults>>

\* Mutant: a page creation whose answer was lost is taken for one to retry.
ProvableCreation == intent.kind \in {"initialize-pair", "create-notion-page"}

\* recoverIncompleteJournal: what is found proves that the effect took place or
\* that it did not; either way the run goes on with a fresh plan.
ProvableLocally ==
    \/ /\ intent.kind \in {"initialize-pair", "write-local"}
       /\ local \in {intent.before, intent.after}
    \/ /\ intent.kind = "create-conflict"
       /\ \A a \in artifacts : a.day = intent.artifact.day => a = intent.artifact

ProvableRemotely ==
    /\ intent.kind = "update-notion-body-exact"
    /\ Paired(pair) /\ page.kind = "present" /\ page.sem.body \notin LossyBodies
    /\ page.sem \in {intent.before, intent.after}

Provable == ProvableLocally \/ ProvableRemotely

RecoverIntent ==
    /\ pc = "recover" /\ intent # NoIntent
    /\ IF Provable THEN intent' = NoIntent /\ UNCHANGED <<pc, inputs, work>>
                   ELSE EndRun /\ UNCHANGED intent
    /\ UNCHANGED <<world, pair, fence, relay, faults>>

\* Mutant: recovery closes an open state fence like any other intent.
RecoverFenceToo ==
    /\ pc = "recover" /\ intent = NoIntent
    /\ pc' = "scan" /\ fence' = FALSE
    /\ UNCHANGED <<world, pair, intent, relay, inputs, work, faults>>

\* An open state fence is never provable: it sorts last and stops the run.
RecoverFence ==
    /\ pc = "recover" /\ intent = NoIntent
    /\ IF fence THEN EndRun ELSE pc' = "scan" /\ UNCHANGED <<inputs, work>>
    /\ UNCHANGED <<world, durable, relay, faults>>

\* The vault scan. A scan cut short by its budget proves no absence, so an
\* unseen pair is deferred, and it may miss a note that is not paired yet.
Scan(complete) ==
    /\ pc = "scan" /\ pc' = "retrieve"
    /\ sawLocal' = IF IF Paired(pair) THEN complete \/ local.kind # "absent"
                                      ELSE complete /\ local.kind # "absent"
                     THEN local ELSE Unseen
    /\ UNCHANGED <<world, durable, relay, preview, sawNotion, claimed, matched, work, faults>>

\* Only the page of a persisted pair is read; it is missing once trashed.
Retrieve ==
    /\ pc = "retrieve" /\ pc' = "plan"
    /\ sawNotion' = IF Paired(pair) /\ sawLocal # Unseen THEN page ELSE Unseen
    /\ UNCHANGED <<world, durable, relay, preview, sawLocal, claimed, matched, work, faults>>

\* A failed read is a pair-scoped failure: the run goes on without the pair.
RetrieveFails ==
    /\ pc = "retrieve" /\ Fault
    /\ Paired(pair) /\ sawLocal # Unseen
    /\ pc' = "plan" /\ failed' = TRUE /\ sawLocal' = Unseen
    /\ UNCHANGED <<world, durable, relay, preview, sawNotion, claimed, matched, plan, todo, seen>>

Decision == IF sawLocal = Unseen THEN Keep("none", pair) ELSE PlanPair(sawLocal, sawNotion, pair)

\* A preview ends here. An apply run opens the state fence before its first
\* effect if it has effects or a state advance.
Plan ==
    /\ pc = "plan"
    /\ IF preview
         THEN EndRun /\ UNCHANGED fence
         ELSE /\ plan' = Decision /\ todo' = Decision.effects
              /\ failed' = (failed \/ Decision.action = "error")
              /\ fence' = Decision.advances
              /\ pc' = "effect"
              /\ UNCHANGED <<inputs, seen>>
    /\ UNCHANGED <<world, pair, intent, relay, faults>>

\* journal.begin of the fence throws, before or after its intent is durable.
FenceFails ==
    /\ pc = "plan" /\ ~preview /\ Decision.advances /\ Fault
    /\ fence' \in BOOLEAN
    /\ EndRun
    /\ UNCHANGED <<world, pair, intent, relay>>

-----------------------------------------------------------------------------
\* The effects. sawNotion follows the remote result of each: it is what the
\* next effect expects (currentRemote, expectedRevision).

\* The status, and the content, a remote effect leaves on the page.
NextStatus(kind) ==
    IF kind = "update-notion-body-exact" THEN sawNotion.status
    ELSE IF kind = "set-notion-status" THEN plan.next.status ELSE "synced"

NextSem(kind) ==
    IF kind = "create-notion-page" THEN sawLocal.sem
    ELSE IF kind = "update-notion-body-exact"
      THEN [body |-> sawLocal.sem.body, tags |-> sawNotion.sem.tags]
    ELSE IF kind = "update-notion-properties"
      THEN [body |-> sawNotion.sem.body,
            tags |-> IF plan.action = "pull-notion" THEN sawNotion.sem.tags ELSE sawLocal.sem.tags]
    ELSE sawNotion.sem

\* effectIntent: a blind effect records nothing that recovery could compare.
IntentOf(kind) ==
    IF kind \in Blind THEN [kind |-> kind]
    ELSE IF kind = "initialize-pair"
      THEN [kind |-> kind, before |-> sawLocal, after |-> [sawLocal EXCEPT !.bridge = TRUE]]
    ELSE IF kind = "write-local"
      THEN [kind |-> kind, before |-> sawLocal, after |-> [sawLocal EXCEPT !.sem = sawNotion.sem]]
    ELSE IF kind = "update-notion-body-exact"
      THEN [kind |-> kind, before |-> sawNotion.sem, after |-> NextSem(kind)]
    ELSE [kind |-> kind,
          artifact |-> [day |-> today, local |-> sawLocal.sem, notion |-> sawNotion.sem]]

\* Mutant: a pair that failed advances its state as planned.
AbandonEffects == /\ todo' = <<>> /\ failed' = TRUE /\ seen' = Unseen
                  /\ pc' = "register" /\ UNCHANGED plan

\* The first failed effect ends the pair: its intent stays open, the rest of
\* the plan and the state advance are dropped, the run goes on.
AbandonPair == /\ todo' = <<>> /\ failed' = TRUE /\ seen' = Unseen
               /\ plan' = [plan EXCEPT !.next = pair]
               /\ pc' = "register"

BeginEffect ==
    /\ pc = "effect" /\ todo # <<>>
    /\ IF Head(todo) = "initialize-pair" /\ local # sawLocal
         THEN AbandonPair /\ UNCHANGED intent
         ELSE /\ intent' = IntentOf(Head(todo))
              /\ pc' = IF Head(todo) \in {"create-notion-page", "create-conflict"}
                         THEN "write" ELSE "check"
              /\ UNCHANGED work
    /\ UNCHANGED <<world, pair, fence, relay, inputs, faults>>

EffectsDone ==
    /\ pc = "effect" /\ todo = <<>> /\ pc' = "register"
    /\ UNCHANGED <<world, durable, relay, inputs, work, faults>>

\* Mutant: a note is only checked to be there before it is replaced.
StillThere == IF Head(todo) \in {"initialize-pair", "write-local"}
                THEN local.kind = "present"
                ELSE page.kind = "present" /\ page.revision = sawNotion.revision

\* The last look at what an effect is about to replace: the note's bytes, or
\* the page's revision.
Unchanged == IF Head(todo) \in {"initialize-pair", "write-local"}
               THEN local = intent.before
               ELSE page.kind = "present" /\ page.revision = sawNotion.revision

CheckEffect ==
    /\ pc = "check"
    /\ IF Unchanged
         THEN /\ seen' = IF Head(todo) \in {"initialize-pair", "write-local"} THEN local ELSE page
              /\ pc' = "write"
              /\ UNCHANGED <<plan, todo, failed>>
         ELSE AbandonPair
    /\ UNCHANGED <<world, durable, relay, inputs, faults>>

\* Replacing the note is a rename over whatever is there by now.
WriteNote ==
    /\ pc = "write" /\ Head(todo) \in {"initialize-pair", "write-local"}
    /\ local' = intent.after
    /\ pc' = "confirm"
    /\ UNCHANGED <<artifacts, page, today, durable, relay, inputs, work, counts>>

\* The artifact is linked to a name that must not exist.
WriteConflict ==
    /\ pc = "write" /\ Head(todo) = "create-conflict"
    /\ IF \E a \in artifacts : a.day = intent.artifact.day
         THEN AbandonPair /\ UNCHANGED artifacts
         ELSE /\ artifacts' = artifacts \union {intent.artifact}
              /\ pc' = "confirm" /\ UNCHANGED work
    /\ UNCHANGED <<local, page, today, durable, relay, inputs, counts>>

CreatePage ==
    /\ pc = "write" /\ Head(todo) = "create-notion-page"
    /\ ChangePage([page EXCEPT !.kind = "present", !.sem = NextSem("create-notion-page"),
                               !.status = "synced"])
    /\ created' = created + 1
    /\ pc' = "confirm"
    /\ UNCHANGED <<vault, today, durable, inputs, work, lapsed, edits, faults>>

\* updateBodyExact asks Notion to replace the old body where it still finds it,
\* but a body the last check saw empty is replaced whatever it is by then
\* (replace_content has no precondition); so are the properties.
ReplacesOnlyOldBody == Head(todo) = "update-notion-body-exact" /\ seen.sem.body \notin EmptyBodies

UpdatePage ==
    /\ pc = "write"
    /\ Head(todo) \in {"update-notion-body-exact", "update-notion-properties", "set-notion-status"}
    /\ IF /\ page.kind = "present"
          /\ ReplacesOnlyOldBody => page.sem.body = sawNotion.sem.body
         THEN /\ ChangePage(
                   IF Head(todo) = "update-notion-body-exact"
                     THEN [page EXCEPT !.sem.body = sawLocal.sem.body]
                     ELSE [page EXCEPT !.sem.tags = NextSem(Head(todo)).tags,
                                       !.status = NextStatus(Head(todo))])
              /\ pc' = "confirm" /\ UNCHANGED work
         ELSE AbandonPair /\ UNCHANGED <<page, relay>>
    /\ UNCHANGED <<vault, today, durable, inputs, counts>>

\* The postcondition read back after the effect, and journal.complete.
Confirmed ==
    LET kind == Head(todo)
    IN  IF kind \in {"initialize-pair", "write-local"} THEN local = intent.after
        ELSE IF kind = "create-conflict" THEN TRUE
        ELSE /\ page.kind = "present" /\ page.sem.body \notin LossyBodies
             /\ page.sem = NextSem(kind) /\ page.status = NextStatus(kind)

ConfirmEffect ==
    /\ pc = "confirm"
    /\ IF Confirmed
         THEN /\ intent' = NoIntent /\ todo' = Tail(todo) /\ seen' = Unseen /\ pc' = "effect"
              /\ sawNotion' = IF Head(todo) \in Blind \union {"update-notion-body-exact"}
                                THEN page ELSE sawNotion
              /\ UNCHANGED <<plan, failed>>
         ELSE AbandonPair /\ UNCHANGED <<intent, sawNotion>>
    /\ UNCHANGED <<world, pair, fence, relay, preview, sawLocal, claimed, matched, faults>>

\* journal.complete throws after its completion row is linked, when the removal
\* of the temporary or a sync of the directory fails: the pair is abandoned like
\* one whose effect failed, but nothing is open for it any more.
CompletionThrows ==
    /\ pc = "confirm" /\ Confirmed /\ Fault
    /\ intent' = NoIntent
    /\ lapsed' = IF Head(todo) = "create-notion-page" THEN lapsed + 1 ELSE lapsed
    /\ AbandonPair
    /\ UNCHANGED <<vault, page, today, pair, fence, relay, inputs, created, edits>>

\* A call of an effect fails, or its answer is lost after it took place.
EffectFails ==
    /\ pc \in {"effect", "check", "write", "confirm"} /\ todo # <<>> /\ Fault
    /\ AbandonPair
    /\ UNCHANGED <<world, durable, relay, inputs>>

-----------------------------------------------------------------------------
\* synchronizeRelayRegistry: a pair that becomes synced is registered unless
\* the pair was retained before; one that becomes detached is unregistered.
WantsPage == IF plan.next.status = "synced" /\ ~Retained(pair) THEN TRUE
             ELSE IF plan.next.status = "detached" /\ Retained(pair) THEN FALSE
             ELSE registered

ChangesRegistry == \/ plan.next.status = "synced" /\ ~Retained(pair)
                   \/ plan.next.status = "detached" /\ Retained(pair)

SynchronizeRegistry ==
    /\ pc = "register" /\ pc' = "save"
    /\ registered' = WantsPage
    /\ UNCHANGED <<world, durable, events, inputs, work, faults>>

\* The call fails, before or after the relay acted on it: the run is over with
\* its intent and the state fence open.
RegistryFails ==
    /\ pc = "register" /\ ChangesRegistry /\ Fault
    /\ registered' \in {registered, WantsPage}
    /\ intent' = [kind |-> "register-relay-page"]
    /\ EndRun
    /\ UNCHANGED <<world, pair, fence, events>>

\* state.json is written when the run changed it, or only to refresh lastRun.
Dirty == failed \/ plan.effects # <<>> \/ plan.next # pair

SaveState ==
    /\ pc = "save" /\ pc' = "unfence"
    /\ \/ pair' = plan.next /\ fence' = TRUE
       \/ ~Dirty /\ UNCHANGED <<pair, fence>>
    /\ UNCHANGED <<world, intent, relay, inputs, work, faults>>

SaveFails ==
    /\ pc = "save" /\ Fault
    /\ fence' = TRUE /\ pair' \in {pair, plan.next}
    /\ EndRun
    /\ UNCHANGED <<world, intent, relay>>

CompleteFence ==
    /\ pc = "unfence" /\ pc' = "ack"
    /\ fence' = FALSE
    /\ UNCHANGED <<world, pair, intent, relay, inputs, work, faults>>

\* Mutant: a run without errors acknowledges all it claimed.
AllClaimed == IF failed THEN {} ELSE claimed

\* Events are acknowledged by a run without errors; one about the page of this
\* pair only if the pair was among the run's inputs.
Acknowledged == IF failed \/ (matched /\ plan.action = "none") THEN {} ELSE claimed

Acknowledge ==
    /\ pc = "ack"
    /\ events' = events \ Acknowledged
    /\ EndRun
    /\ UNCHANGED <<world, durable, registered, faults>>

\* The run throws after its state was saved, or another part of it had an
\* error, or the process dies, or a call that ends the run fails.
Dies == /\ pc # "idle" /\ Fault
        /\ EndRun
        /\ UNCHANGED <<world, durable, relay>>

Run == \/ \E mode \in {"preview", "apply"} : StartRun(mode)
       \/ RecoverIntent \/ RecoverFence
       \/ \E complete \in BOOLEAN : Scan(complete)
       \/ Retrieve \/ RetrieveFails \/ Plan \/ FenceFails
       \/ BeginEffect \/ EffectsDone \/ CheckEffect
       \/ WriteNote \/ WriteConflict \/ CreatePage \/ UpdatePage
       \/ ConfirmEffect \/ CompletionThrows \/ EffectFails
       \/ SynchronizeRegistry \/ RegistryFails
       \/ SaveState \/ SaveFails \/ CompleteFence \/ Acknowledge \/ Dies

Next == Owner \/ Run

Spec == Init /\ [][Next]_vars

\* Runs keep being started, by the schedule or by the owner, and a started run
\* takes its steps; a full scan comes due every 24 hours. Faults are bounded,
\* and nothing is assumed of the owner.
Progress == \/ RecoverIntent \/ RecoverFence \/ Retrieve \/ Plan
            \/ BeginEffect \/ EffectsDone \/ CheckEffect
            \/ WriteNote \/ WriteConflict \/ CreatePage \/ UpdatePage \/ ConfirmEffect
            \/ SynchronizeRegistry \/ SaveState \/ CompleteFence \/ Acknowledge

FairSpec == /\ Spec
            /\ SF_vars(StartRun("apply"))
            /\ WF_vars(\E complete \in BOOLEAN : Scan(complete))
            /\ SF_vars(~preview /\ Scan(TRUE))
            /\ WF_vars(Progress)

-----------------------------------------------------------------------------
\* However calls fail and whenever the process dies, the bridge creates a second
\* Notion page for a note only if the journal recorded the creation of the first
\* and then threw: executor.ts drops the pair's state and, with the intent closed
\* and the fence completed, the next run plans the creation anew. In every other
\* case an open intent or the fence is in its way (executor.ts, worker.ts, the
\* order of recovery.ts).
AtMostOnePage == created <= 1 + lapsed

\* When no run is active and the journal holds nothing open, state.json knows
\* every page the bridge created but those whose recorded completion threw: no
\* other page was made, or lost, without a trace in the journal.
QuietMeansRecorded ==
    pc = "idle" /\ ~fence /\ intent = NoIntent =>
        created = lapsed + (IF Paired(pair) THEN 1 ELSE 0)

\* A run replaces text only if it is the last common content, so never an edit
\* the other side does not have. For a body that was not empty at the last check
\* that is what the page holds at that very moment; a body that was empty, a
\* note, and the tags of a page, are as the last check before the replacement
\* saw them: what the owner puts there between the check and the call is lost.
OnlyCommonTextIsReplaced ==
    [][pc = "write" /\ pc' = "confirm" =>
         /\ local' # local => seen.sem \in {local'.sem, pair.common}
         /\ page.kind = "present" /\ created' = created =>
              /\ \/ page.sem.body \in {page'.sem.body, pair.common.body}
                 \/ seen.sem.body \in EmptyBodies \intersect {pair.common.body}
              /\ page'.sem.tags # page.sem.tags =>
                   seen.sem.tags \in {page'.sem.tags, pair.common.tags}]_vars

\* An event about the page of a retained pair leaves the queue only after a run
\* that read the page later than the change, and that either made its content
\* the common one or recorded why the pair is not synchronized.
AcknowledgedChangesAreSettled ==
    [][pc = "ack" /\ matched =>
         \A e \in events \ events' :
            \/ /\ sawNotion # Unseen /\ sawNotion.revision >= e
               /\ pair.common = sawNotion.sem \/ sawNotion.kind = "trashed"
            \/ pair.status \in {"conflict", "missing-local", "detached"}]_vars

\* A pair paused by a conflict always has an artifact with both texts that were
\* in conflict, neither of which is the common one the pair still remembers.
PausedConflictKeepsBothTexts ==
    pair.status = "conflict" =>
        \E a \in artifacts : Cardinality({a.local, a.notion, pair.common}) = 3

\* A pair that state.json calls synced for the first time, or again after it
\* was detached, has its page registered with the relay.
NewlySyncedPageIsRegistered ==
    [][pair'.status = "synced" /\ pair.status \in {"unpaired", "detached"} => registered']_vars

\* Once the owner stops editing a pair that can be synchronized, both sides and
\* the persisted pair come to agree, unless the run is blocked by an open
\* intent it cannot prove, or a new conflict by an artifact of the same day.
Syncable == /\ local.kind = "present" /\ local.eligible /\ local.sem.body \notin LossyBodies
            /\ Paired(pair) => /\ local.bridge /\ pair.status # "conflict"
                               /\ page.kind = "present" /\ page.sem.body \notin LossyBodies

Blocked == \/ pc \in {"idle", "recover"} /\ (fence \/ intent # NoIntent)
           \/ \E a \in artifacts : a.day = today

InAgreement == Paired(pair) /\ local.sem = page.sem /\ pair.common = local.sem

PairConverges == <>[](Syncable => Blocked \/ InAgreement)
=============================================================================
