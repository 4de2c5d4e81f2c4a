# Formal models of the Notion-Obsidian bridge

TLA+ models of the bridge in this repository, the TLC configurations that check
them and the TLAPS proofs about them. Every definition is translated from the
code under `src/`; the `map` of `PROJECT.json` names the lines of each.

## 1. The system

A **worker** process on the owner's computer keeps notes of an Obsidian vault
and pages of a Notion database equal. It is started by a background service, by
the Obsidian plugin, or by hand; each process makes one **run** and ends. A
**relay** (edge functions over one PostgreSQL database) takes Notion's webhooks
into a queue that runs drain, and keeps an encrypted snapshot of the vault's
graph that a **web viewer** decrypts in the browser.

| Component | Source | State | Operations |
|---|---|---|---|
| Installation lock | `worker/src/runtime/lock.ts` | the lock file, quarantine files | `withInstallationLock`: create, inspect, take over, release |
| Effect journal | `worker/src/persistence/journal-store.ts` | intent, completion and retirement rows in a directory | `begin`, `complete`, `incomplete`, compaction |
| Recovery | `worker/src/persistence/recovery.ts` | none of its own | decide each open intent from what is observed, or stop the run |
| Pair planner | `worker/src/sync/planner.ts`, `reconcile.ts` | none: a function of observations and the persisted pair | `planPair`, conflict preparation |
| Executor | `worker/src/sync/executor.ts`, `conflicts.ts` | intents, the note, the page, conflict artifacts | initialize, create page, update body, properties, status, write note, create artifact |
| Run | `worker/src/worker.ts` | `state.json`, the state fence | recover, claim, scan, retrieve, plan, execute, publish the graph, register pages, save, acknowledge |
| Vault writer | `worker/src/vault/writer.ts` | notes, companion directories, temporaries, the move lock | replace or create a note, move a page with its companion, undo a half-done move |
| Cortex transactions | `worker/src/vault/writer.ts`, `cortex-transaction.ts` | the manifest, preimages, staged files | apply writes, creations and moves as one, roll back, recover after a crash |
| Cortex tree | `worker/src/cortex/*` | Cortex records of `state.json`, the reserved folder | discover, plan and execute a page tree |
| Vault scanner | `worker/src/vault/scanner.ts` | none | a bounded traversal, complete or cut short |
| Notion client | `worker/src/notion/*` | rate limiter, retries | read and update pages |
| Relay client | `worker/src/relay/client.ts` | two credential slots | claim, acknowledge, register, upload, rotate the token |
| Relay queue | `relay/src/queue/*`, `webhook/*` | `notion_events`, `page_registry`, rate counters | enqueue, claim under lease, acknowledge, clean up |
| Relay tokens | `relay/src/edge/runtime.ts`, `queue/handler.ts` | active and pending token hash, expiry | authenticate, prepare, commit, cancel |
| Snapshots | `relay/src/snapshot/*`, SQL migrations | `snapshot_sequence`, `graph_snapshot` | store if newer, public read |
| Graph | `worker/src/graph/*` | the graph record of `state.json` | project, encrypt, publish if changed |
| Plugin | `plugin/src/*` | a promise chain of commands | run, enable, disable, status |
| Web viewer | `web/src/*` | pairing keys and the highest accepted sequence in IndexedDB | pair, refresh, accept, forget |
| Plugin installer | `scripts/install-vault.mjs` | the plugin's directory, staging trees, backups | install, recover an interrupted installation |
| Setup, CLI, other scripts | `worker/src/setup/*`, `cli.ts`, `scripts/*` | files they install | one-shot provisioning |
| Shared | `shared/src/*` | none | contracts, schemas, cryptography |

**How they interact.** Notion calls the webhook function; the row it stores is
claimed by a run under a 60-second lease and acknowledged at the end of that
run. A run holds the installation lock from its start to its end, journals an
intent before each effect and completes it afterwards, and opens a state fence
(an intent of kind `commit-state`) before its first effect, which is completed
only when `state.json` is saved. The plugin and the service share nothing with
the worker but the processes they start. The viewer reads what the relay stores.
A **Cortex** run keeps a tree of Notion pages and a reserved folder of the vault
equal: `worker.ts` reads the tree, then the folder, plans, and executes one effect
after another, a journal intent before each, under the same fence. It writes
through the vault writer, whose moves take a page and its companion directory
(`Page.md` and `Page/`) together. The installer replaces the plugin's directory
while Obsidian may be saving settings in it.

**What is hard.** Two processes over one lock file with no kernel lock; a crash
between any two file-system calls; an owner who edits both sides during a run;
remote calls whose answer is lost after they took effect; requests that the
client has given up and the relay still serves; leases that expire under a
running worker; three stores (vault, Notion, `state.json`) without a common
transaction; moves of a note and a directory that no system call does at once; an
undo that can itself fail or die and be resumed by another process.
`PROJECT.json` lists these hazards with their lines.

**What makes each part correct.**

* lock: at most one process in the protected operation; a live owner's file is
  never destroyed; a takeover only of a dead and old owner; nobody returns leaving his
  lock, if his own removal met no failing call;
* journal: the outstanding operations survive crashes and compaction exactly;
* run: no second page for a note and no text lost, but where the code cannot know
  better; never an event dropped unread, and agreement in the end;
* queue: exclusive leases, no event consumed twice, every event consumed;
* token: the worker always holds the token the relay takes;
* graph: viewers see what the worker recorded or its next publication;
* vault writer: no text of the owner is destroyed, an answer is the truth, a page is
  complete under one name;
* Cortex transactions: all or nothing after recovery, each change written ahead, no
  text lost;
* Cortex tree: no candidate becomes two pages, only text both sides have seen is
  replaced, a conflict is left to the owner;
* installer: the directory holds one whole release, the settings survive;
* viewer: a graph accepted is never followed by an older one, and a forgotten
  pairing stays forgotten.

## 2. The modules

`(P)` marks a module of theorems. MC modules only give values to constants.

```
Journal  <--implements--  JournalStore     \
                          InstallationLock  >  (P) LocalStateProofs
                          GraphPublish     /
PairPlanner <--extends--  BridgeRun            (P) BridgeRunProofs
VaultFiles                                     (P) VaultFilesProofs, which the next two use
            <--extends--  VaultWriter          (P) VaultWriterProofs
            <--extends--  CortexTransaction    (P) CortexTransactionProofs
CortexTree  <--extends--  CortexRun            (P) CortexRunProofs
                          EventQueue       \
                          TokenRotation    /   (P) RelayProofs
                          VaultInstall         (P) VaultInstallProofs
```

LocalStateProofs is about what the worker keeps in its data directory: the lock, the
journal and the graph record. It extends the three modules, so their definitions have
names of their own (`LockInit`, `JournalNext`, `place`, `phase`); the modules share no
state and no proof of one uses a fact of another. RelayProofs is in the same way about
the two halves of the relay, the queue (`QueueInit`, `Handle`) and the token
(`RotationInit`, `time`, `mishaps`).

**InstallationLock** models `lock.ts`. A process creates at most one file, so a
file is named by its creator; `lock` is the canonical path, `quar[p]` the
quarantine path of `p`, `written` the files with metadata. Each file-system call
is an action: `CreateLock` (`open` with `O_EXCL`), `WriteMetadata`,
`VerifyCreated`, `InspectExistingLock` and `JudgeLiveness` (age and liveness),
then the removal `MatchCanonical`, `RenameToQuarantine`, `MatchQuarantine`,
`UnlinkQuarantine`, or `RestoreLink` and `RestoreDrop`. Each of them may fail
(`Trouble`; in a removal `Hampered`), also after its effect where a directory sync
follows, and leads where the `catch` blocks lead: a created file that cannot be
verified is removed again, a file that could not be unlinked is linked back, an error
of the match or the rename leaves it. `ProcessDies` may happen in any state. `misfired`,
`troubled` and `hampered` are history variables: the processes whose rename moved a
file other than the one they had matched, that met a failing call, and that met one in
their own removal.

**Journal** is the abstract journal: a set of outstanding operations and one call
at a time. **JournalStore** models the directory of `journal-store.ts`: a row is
written to a temporary, linked to its name, and the temporary unlinked; `begin`
compacts one completed row behind a retirement marker when the rotation threshold
is reached; `Stop` is a crash or a failed call at any step. Rows are ids; their
contents never change once linked.

**PairPlanner** gives `planPair` as operators, one per branch of the code, from
the note observed, the page observed and the persisted pair to an action, a
sequence of effect kinds and the next pair. Contents are pairs of a body and
tags; `LossyBodies` are those that one converter reports as unsupported.
**BridgeRun** extends it with the run: `StartRun`, `RecoverIntent`,
`RecoverFence`, `Scan`, `Retrieve`, `Plan`, then for each effect `BeginEffect`,
`CheckEffect`, a write (`WriteNote`, `WriteConflict`, `CreatePage`,
`UpdatePage`), `ConfirmEffect`, and at the end `SynchronizeRegistry`,
`SaveState`, `CompleteFence`, `Acknowledge`. The owner's `EditNote`, `SpoilNote`,
`EditPage`, `TrashPage` and `RestorePage` interleave with every step. A call
fails before or after it took effect (`EffectFails` and the other `...Fails`
actions), `CompletionThrows` is a completion that is linked and then fails in a later
sync, as in JournalStore, and `Dies` ends the process anywhere. A page whose body is in
`EmptyBodies` at the last check is replaced without a precondition
(`ReplacesOnlyOldBody`). `created` counts pages ever created, `lapsed` those of them
whose completion threw.

**VaultFiles** is what the writer sees of a file system: names to inodes, inodes to
texts, inodes reused or not, and what an owner does (types into a file, saves another
over it, deletes it, makes a directory). **VaultWriter** is one call of `write`,
`create` or `moveCortexSubtree` with every reading and every system call a step
(`ReadBaseline`, `MakeTemporary`, `CheckTarget`, `RenameOver` or `LinkNew`; of a move
`TakeLock`, `ReadSource`, `LinkNote`, `ReserveCompanion`, `MoveCompanion`,
`CheckMoved`, `UnlinkSource`), the undoing of a failed move, a failure or a death at
any of them; one in the release of the move lock leaves it, or has removed it already.
`owed` are the texts the owner wrote and has not removed; `exposed`, those
whose last name was put where a system call was already decided.

**CortexTransaction** is `applyCortexTreeTransaction` and
`recoverCortexTreeTransactions`: preimages, the manifest of `cortex-transaction.ts`
(`tx.man`: phase, completed members, the pending operation forward and backward) and
every rewrite of it, the stages of a move, a write or a creation as staged file and
swap, roll-back of a half-done member and of completed ones in reverse order, the
roll-back's own resumption, and the removal of the private files. A last comparison
(`LookLast`) opens a `window` in which the owner may act before the rename, link or
unlink (`Call`) that it was made for; the reading after a call may find her
(`NoticeOwner`). A text she leaves with no name but the one that the call takes is
exposed to it and no longer `owed`. The parser's rules for a manifest are
`ManifestFacts`, part of the type invariant.

**CortexTree** holds the pure part of a Cortex run: which folders a scan accepts
(`scanner.ts`, `reconcile.ts`), where a page belongs (`path.ts`), what is written
(`markdown.ts`, `frontmatter.ts`), and `Plan`, the verdicts and barriers of
`planner.ts`. **CortexRun** extends it with the run of `executor.ts` and `worker.ts`:
`Recover` (of the intents an earlier run left), `Discover`, `Scan`, `Begin`, `Effect`,
`Settle` for each effect, `Save`; what a success (`Refreshed`) and a failure
(`Verified`) leave in the state; `EffectFails`, `SettleFails`, `DiscoveryFails` and
`Crash`; and `RemoteEdit` and `LocalEdit`, with which the owner writes, renames,
moves, creates and deletes on either side between any two steps. A creation of a
page is three effects: the page, the binding of its note (`rebind`), the parent's
markers (`mark`). `noteHeld`, `pageHeld` and `madeFrom` are history variables.

**EventQueue** models the relay's event rows. A request is a small process that
reads the time once and then makes its database calls one by one; two are served
at a time. `Deliver` is the webhook, `SendClaim` and `SendAck` the worker;
compare-and-set failures, retries, releases and the clean-up of consumed rows are
steps. The rate counters and the page registry are left out.

**TokenRotation** models both sides of a rotation: the relay's row (`active`,
`pending`, `expires`), the worker's two credential slots, one call at a time and
the `strays`, requests that the client has given up and that may still take
effect. `overwritten` and `strayed` are history variables: a rotation started over
an unfinished one, and a stray that took effect.

**GraphPublish** models the publication of the encrypted graph: `Project`,
`Publish`, the upload with its retries (`AttemptFails`), `Store` (the SQL
function), late uploads (`StoreStray`), and the recording of the new sequence
behind the fence (`OpenFence`, `SaveState`, `CompleteFence`). `Stops` is a run that
fails outside the graph's `try` block, or dies.

**VaultInstall** models `install-vault.mjs`: recovery (`JudgeLeftovers`,
`DropOrphan`, `Recheck`, `Restore`), the staging tree (`InspectTarget`,
`CreateStaging`, `PreserveSettings`, `CopyArtifact`, `VerifyStaging`) and the
replacement (`CheckTarget`, `MoveToBackup`, `Activate`, `UndoMove`, `CleanBackup`,
`Discard`), by several installations that may overlap, while Obsidian saves settings
(`SaveSettings`). `SkipBackup` is the swallowed `lstat` error after which success is
answered with the backup left (`uncleaned`). `meddled`, `late`, `strayed` and `overlapped` are history variables:
a recovery took a running installation's tree for a leftover; settings were saved
between the last comparison and the rename; the settings were copied from another
directory than the one inspected; two installations ran at once.

### Abstractions, and why they are sound

* One pair and its page in BridgeRun. Pairs interact only through path claims and
  the order of effects; path claims and renames are not modelled.
* A note's bytes are its kind, its content, its bridge id and its eligibility. A
  Notion page has a revision that changes with every edit (`last_edited_time`).
* Work on other pairs, the Cortex tree and the graph shows in BridgeRun only
  through faults. In GraphPublish the rest of a run is the choice of whether the
  fence is open before the graph is touched.
* The relay is always configured in BridgeRun, and an event reaches its queue at
  once. EventQueue models how it really gets there.
* A read of the metadata of a page or of a note's bytes is atomic.
* TokenRotation takes the relay's prepare as one step: its select and its
  conditional update of the same row.
* EventQueue orders no candidates: a claim updates them in any order.
* CortexRun discovers the Notion tree in one step; what a torn traversal would show
  is caught by the reread before each effect (`AsTaken`). `editedAt` is equality of
  contents, so a page edited and restored counts as unchanged. The client's last
  comparison and its call are one step, as the window between them cannot be closed.
  A body is a number; the order of markers, case folding, title safety, limits of
  depth and number, and paths of earlier layouts are left out. A scan that fails is
  `DiscoveryFails` with the root lost. The preview mode executes nothing, and the
  ordinary run executes the same plan, so neither has actions of its own.
* VaultFiles has one note inside a companion, standing for all. Symbolic links,
  modes and sizes are left out there and in VaultInstall, and so is the migration of
  manifests written by earlier versions.

## 3. The runs

| Run | Checks | Bounds |
|---|---|---|
| `lock` | `ExclusionUnlessMisfired`, `OwnedLockSurvives`, `ReturnedLeavesNoLock`, `OnlyOwnerOrDeadUnlinked` | four processes, clock 0..1, one of the processes meets failing calls, any number of them: an owner, the process that takes over, its victim and a competitor, the cast of every known race |
| `journal` | `RecoverableUnlessTemporary`, `NeverRefusedBelowCapacity`, `ImplementsJournal` | five ids over a capacity of three: rows beyond the capacity, compaction and refusal all happen |
| `bridge` | `TypeOK`, `AtMostOnePage`, `QuietMeansRecorded`, `PausedConflictKeepsBothTexts`, `OnlyCommonTextIsReplaced`, `AcknowledgedChangesAreSettled`, `NewlySyncedPageIsRegistered` | an ordinary, an empty and a lossy body, two tag lists, two edits, two faults, two days, any number of runs |
| `bridge_live` | `PairConverges` | an ordinary and an empty body, two edits, one fault, two days |
| `queue` | `NeverQueuedTwice`, `GrantedMeansConsumed`, `LeaseIsExclusive`, `EventuallyConsumed` | two events, two requests at a time, lease 2, window 1, retention 3, clock 6, one fault |
| `token` | `NeverLockedOut`, `RunUsesActiveToken`, `RotationSettles` | three tokens, lifetime 1, clock 2, two faults |
| `graph` | `RelayHoldsRecordedOrNext`, `PublicationSettles` | three projections, three edits, one retry, three faults |
| `vault` | `TypeOK`, `OwnTextsKept`, `OutcomeIsExact`, `OneNameIsComplete` | each kind of call over three pages, a companion or none, two edits, two failures or deaths |
| `cortex_tx` | `TypeOK`, `EveryTextKept`, `OutcomeIsExact`, `ChangesAreLogged`, `RecoveryGoesThrough` | four plans of two or three members, of every kind, a write before the move that carries it among them; one edit, two failures or crashes: the undo can be interrupted too |
| `cortex` | `TypeOK`, `NeverCreatedTwice`, `OnlySeenTextIsReplaced`, `ConflictIsLeftAlone` | a root with two nested pages and two spare ones, or a bare root of blocks only; in step, unrecorded, without a folder, or in conflict at first; two edits, one fault, any number of runs |
| `install` | `SettingsSurvive`, `TargetIsWhole`, `OutcomeIsExact` | three installations in any overlap, two artifacts, one save of settings, two failures or deaths |

The bounds on edits, faults and the clock are constants in the guards
(`MaxEdits`, `MaxFaults`, `MaxTroubled`, `MaxMishaps`, `MaxChanges`, `MaxClock`, `MaxTime`,
`LastDay`), and so are the
limits of the code (`Max`, `Threshold`, `Limit`, `MaxTries`), scaled down. The
known counterexamples and every seeded fault of the `mutants` list are found
inside them. `MaxTries` of the graph stands for `MAX_RETRY_ATTEMPTS` = 3: the
second attempt already meets everything the third can. The type invariants of
the smaller modules are proved (section 4) and not listed as invariants of a run. Deadlock is not
checked where a system may stop: a lock whose every process is done, a run that an
open fence blocks, a call that has answered, an exhausted clock.

**Fairness.** BridgeRun's `FairSpec`: runs keep being started (the service starts
one on a schedule), a started run takes its steps, and a full scan comes due
(`fullReconciliationDue`, every 24 hours). GraphPublish assumes the same, and that
the relay answers what reaches it. EventQueue: the relay serves its requests, the
clock moves, and a run that keeps claiming gets through and acknowledges all that
it holds some day; that last part is strong fairness and says that not every run
dies. It also assumes that no request is served longer than `Patience` (edge
functions are limited) and that time is left for another round before the clock's
bound (`TimeRemains`). TokenRotation: requests are served and the worker's steps are
taken. CortexTransaction has no fairness and no liveness property: nothing in
`worker.ts` calls the recovery, only tests do, so `RecoveryGoesThrough` says what a
recovery answers when it is called, not that it is. Nothing is assumed of the owner's
edits, of faults or of late requests.

**What the exemptions mean.** `PairConverges` exempts a run blocked by an open
fence or unprovable intent (the code fails closed and waits for a person) and a
second conflict on the day of a first one, whose artifact has the same name.
`PublicationSettles` exempts the open fence and the relay being one sequence ahead;
`NeverLockedOut` exempts `overwritten` and `strayed`, `RotationSettles` also the
expired rotation; `SettingsSurvive` what was saved `late` and what was `meddled` with.
`ReturnedLeavesNoLock` exempts a file without metadata and one whose own removal was
`hampered`. `AtMostOnePage` and `QuietMeansRecorded` exempt a page whose recorded
completion threw (`lapsed`). `RecoveryGoesThrough` exempts the states of
`Unrecoverable`, a note written at a path whose page a later member moves among them.

Properties about the owner's texts speak of what the last comparison before a call
saw: between it and the `rename`, the `unlink` or the request an edit can still be
lost, and no client-side code could exclude it. The windows are: in
`OnlyCommonTextIsReplaced`, a note, the tags of a page, and the body of a page that was
empty when last read (a body that was not is replaced by the request itself only if it
is still the old one); in `OwnTextsKept` and `EveryTextKept`, exactly the texts exposed in the window
of one comparison and one call, whatever else the owner does being covered, and in
`ChangesAreLogged` the call that she overtook. `OnlySeenTextIsReplaced` exempts the
refresh of a parent's markers, and pages whose recorded text was never common (next
section); there the comparison and the call are one step.

### Observations the models exempt by name

Met while modelling. Each is a state that a property above exempts or that a
model reaches without any property against it; none is checked by a run of its own.

* **Lock.** Between the match and the rename of `removeThroughQuarantine`
  (`lock.ts:261-267`) the stale file may be replaced, and a live lock is moved away;
  if a third process then creates its own, two run (`lock.test.ts:424`).
  `ExclusionUnlessMisfired` shows that this window is the only hole. A file that
  stayed empty, by a failure or a crash before its metadata, is nobody's and blocks
  for ever. A call that fails in a removal leaves the lock, or links it back, and the
  release reports nothing (`lock.ts:127`, `:277-284`).
* **Journal.** A temporary left by a crash makes `readSnapshot` fail for ever.
* **Bridge.** `needsConflictDate` (`reconcile.ts:162`) ignores the persisted status,
  so a pair already in conflict whose sides differ is answered `invalid-input`
  instead of paused (`planner.ts:855`). A completion that is linked and then throws
  (`journal-store.ts:634-650`) drops the pair with its intent closed; the fence is
  completed, and the next run makes a second page.
* **Token.** A pending rotation that expired is neither replaced nor removed.
* **Graph.** After an upload was stored but not recorded, each new one reuses a
  sequence the relay already holds and is answered 409 (`publisher.ts:104`).
* **Direct move.** An owner's edit during a move makes the undo leave both names; her
  deletion of the old name during a move has the new one removed as well; a directory
  reserved but not confirmed stays, empty; a complete move whose release of its lock
  failed answers that it failed, with the lock left, or removed if only the last sync
  failed (`writer.ts:4186-4189`); the undo brings the companion back before the note.
* **Transaction.** A crash between the removal of a ready member's staged file and the
  rewrite of the manifest, a leftover temporary of the manifest, a cut private file,
  an interrupted removal and the lock of a dead process are refused by every later
  recovery. `verifyCortexTransactionPostconditions` and
  `verifyCortexRollingBackSnapshot` (`vault/writer.ts:2552`, `:2897`) look for a written
  note at the path the member names, not where a later member has moved it: once such
  a move is complete every recovery refuses. No text is lost, and a process that is not
  interrupted still commits. No caller makes such a plan. Nothing but tests calls
  `applyCortexTreeTransaction` and `recoverCortexTreeTransactions`.
* **Cortex.** A refresh of a parent's markers, after a creation, writes the parent's
  whole note from what Notion holds and from bytes read just before, so what the owner
  typed there after the plan is lost; for a root of blocks only, whose text is
  not in Notion, it is the whole text (`executor.ts:459-546`, against
  `planner.ts:298-299`). `write-local` and a rebind render from the body alone and
  drop the owner's own front matter. A failed discovery, a missing page and a carried
  subtree overwrite the status `conflict`; the next run plans the artifact again,
  meets the old one and leaves an intent open. A move of a subtree with a held page
  in it leaves a breadcrumb that makes the tree unreadable until it is put right by
  hand. An empty body in Notion is replaced without a precondition
  (`notion.ts:405`). A crash with the fence open refuses all later Cortex runs.
  `desiredState` (`cortex/planner.ts:425-469`) records Notion's hash as the common one,
  with status `synced`, also for a page answered `identity-collision` because it had no
  record and its sides differ (781), or because the root was renamed (948): the next run
  takes the old note for the owner's change and writes it over the newer text in
  Notion. The same record arises when a move succeeded and the write after it failed
  (`refreshVerifiedState`).
* **Installer.** No lock excludes two installations: the recovery of one takes the
  other's live staging tree or backup for leftovers (`meddled`). One that fails or dies
  after activation and before its backup is gone, a failed directory sync included, has
  every later one refused until the backup is removed by hand; so has one that could not
  look at its backup and answers success (`install-vault.mjs:801`). `copyTechnicalChildren`
  reads whatever has the target's name: with four overlapping installations the
  directory may be replaced before the copy and put back after it, the two comparisons
  agree, and older settings are activated (`strayed`; three installations cannot do it).
* **Viewer** (not modelled, read only). Two tabs that pair at once both find no stored
  pairing; the tab with the older envelope shows the older graph, though the stored
  sequence is the newer. A pairing forgotten in one tab is written back by another that
  holds it in memory.

## 4. What is proved

TLAPS proves the following for all values of the constants, under the named
assumptions of the modules (bounds are naturals, "none" values are not members,
`LossyBodies` is a set of bodies, `Retention` covers two windows and a request).

* **Lock** (`LockTypeCorrect`, `LiveLockIsKept`, `ExclusionHolds`, `NoLockIsLeft`,
  `UnlinksAreJustified`). `OwnedLockSurvives` needs to know what each removal is
  about: `TargetInv` says that a stale removal targets a dead process and any other
  its own process, `QuarantineInv` that a process has no quarantine file before its
  rename. `CanonicalInv` adds that while nothing has misfired every owner's file is
  at the canonical path; it implies exclusion, as one path holds one file. For
  `NoLockIsLeft`, `OneNameInv` gives a file one name and lets a restoring happen only in
  a removal that met a failing call, and `ReleaseInv` follows the file of a process from
  its metadata to its unlink.
* **Journal** (`JournalTypeCorrect`, `Recoverable`, `RefinesJournal`, `RefusedOnlyWhenFull`).
  The invariant
  relates the rows at every step of a compaction: `RowsConsistent` (one marker at
  most, and a marked intent row still has its completion row, since the intent row
  goes first), `PhaseInv` (which rows are left at each step) and `BoundInv` (the
  limit that `readSnapshot` enforces). With it each
  step maps to a step of `Journal` or a stutter under
  `open <- (intents \ retirements) \ (completions \ retirements)`. For the capacity,
  `RoomInv` counts what a compaction in progress has still to remove, so that the
  refusal of an intent means that this many operations are outstanding.
* **Bridge** (`NoSecondPage`, `NothingHalfRecorded`, `TypeCorrect`, `ConflictsAreKept`,
  `NoEditIsLost`, `NoChangeIsForgotten`, `SyncedPagesAreRegistered`). `IndInv` is
  `Shapes /\ PagesCounted /\ EffectsLeft /\ PlanFenced /\ UnrecordedPage`: a creation
  is in the plan only if the pair is not recorded and every page there is has a
  completion that threw (`PagesCounted`); a plan with effects is fenced; any other page that `state.json` does not know has an open
  fence or an open creation intent. Neither can be proved by recovery, so no later run plans.
  The other five follow from `Inv`, which adds the types and `Knowledge`: what a run
  observed of the two sides and when (`Observed`, `Known`), what the intents it left
  say (`Intended`), and for each plan the outcome it will have recorded when it is
  done (`Promised`, with one `Promise` for each kind of plan); `ConflictBacked` keeps
  the artifact behind a recorded conflict, `EventsPast` ties events to the changes they
  announce and `Recorded` says what an acknowledgement rests on. That the planner's
  output has these shapes is proved for the planner itself (`PlanTyped`,
  `PlanPromises`). None of it depends on the number of edits, faults or contents.
* **Graph** (`GraphTypeCorrect`, `ServedIsRecordedOrNext`). A stray carries a sequence of
  at most one above the recorded one, an acknowledged upload is what the relay holds,
  and what a run saves is what it recorded before or what the relay holds. Together
  these make `RelayHoldsRecordedOrNext` inductive.
* **Queue** (`QueueTypeCorrect`, `ConsumedOnce`, `AcknowledgedIsConsumed`,
  `LeasesExclude`). `QueueTypeCorrect` carries `QueueTyped`, the types and that claims and
  acknowledgements belong to runs. `LeaseIsExclusive` follows from what a claim has
  listed: a lease it found expired, and a write only where the lease is still that one.
  For `ConsumedOnce` the invariant is `Safe`: each request is `Sound` (it was opened at
  a time not in the future and no longer than `Patience` ago, its events have happened
  and passed the window by then, what it granted is settled), `Rows` says the same of
  the stored rows, and `Gone` is the argument about time: an event whose consumed row
  was cleaned up is so old that no delivery of it is under way or will pass the
  webhook's window. That is where `Retention >= 2 * Window + Patience` is used; the code has 30 days against
  two times ten minutes and the life of a request.
* **Installer** (`TypeCorrect`, `PluginIsWhole`, `SettingsAreKept`,
  `OutcomesAreExact`). A tree comes into place from a
  staging name or from a backup, so `IndInv` follows both: `StagingPhase`,
  `BackupPhase`, and while nobody meddled `StagingHeld` and `StagingWhole` (a tree that
  is about to be activated exists and is complete), `BrokenIsReplaced` (a backup loses
  files only after its successor is in place), `SomeWhole` (while the directory is away
  one backup is whole) and `RescueIsWhole` (so is what a recovery is about to restore).
  For the settings, `SettingsInv` adds that a tree is in one place (`Identities`) and
  its settings only get newer (`SettingsGrow`: what an installation saw is no newer than
  what it copied, and that no newer than the tree it was copied from), so two
  comparisons that agree enclose an exact copy (`CopyIsExact`) and some tree with the
  latest settings is never one that is being emptied (`LatestIsSafe`). `InTurn` is what
  holds while installations come one at a time: at most one tree of a kind, and which
  (`OneOfAKind`, `Recovering`, `Recovered`, `BesideSuccessor`). The attempt to prove
  `SettingsSurvive` without the exception `strayed` failed, and TLC then found the
  behaviour of four installations described in section 3.
* **Vault writer** (`TypeCorrect`, `NoTextIsLost`, `AnswersAreExact`,
  `PageStaysWhole`). Three layers, each resting on the one before. `StepInv` says where
  the call is and what it holds (`Temporary`: the private file has no name in the vault
  until the link; `Apart`: the two names of a move differ once something was done).
  `TextInv` is about texts beside an owner who edits at any moment: a text that the next
  system call would destroy is one whose removal was decided when its second name was
  last seen (`DecidedIsCovered`), and the source of a move is not removed before
  that (`SourceIsThere`). While the owner keeps away, `Layout` says that the vault is the
  one the call found but for what `did` records: `Names` for the note, `CompanionNames`
  for the directory beside it, `Sequenced` for the order of the two, `UndoneExactly` for
  what an undoing has still to take back; exactness is claimed for one failure, because a
  second one may hit the undoing. The assumptions: the requests name paths of the vault,
  there is an inode for every file of the start, and the bounds are naturals.
* **Cortex transactions** (`TypeCorrect`, `NoTextIsDestroyed`, `IntentsComeFirst`,
  `OutcomesAreExact`).
  `TypeInv` ties the place of the process to the manifest and the private files: `Sound`
  is what the parser accepts, `Phased` the phase at each place, `Forward` and `Back` the
  pending operation on the way forward and back with the file it has staged, `Preimages`
  which copies are complete. It is needed because every step takes its next files out of
  the manifest: a move under way has a source, a staged file is in no name of the vault.
  `TextInv` rests on it: a text that is owed is in the vault or in a complete preimage,
  and while no preimage can be relied on (before the manifest, and once the private
  directory is being removed) it is in the vault; the texts that the members write are
  owed to nobody. `WindowInv` is about the window between a comparison and its call: the
  comparison holds until the owner acts, and what is owed and has no name but the one
  the call takes is in a preimage, since what she put there meanwhile is exposed. The
  step that replaces a note is then justified by its preimage and the removal of
  preimages by what the finished transaction, or the finished roll-back, left in the
  vault. `IntentsComeFirst` goes through the steps that change a name: each takes both
  files from the intent, if the owner has not overtaken it. `OutcomesAreExact` needs to
  know where every text is at each moment. `WhereInv` gives the places: a text of the
  start, or of a member, is where it was or where one move under way took it, and a
  companion that a move brought holds only what came with it or later (`Reached`,
  `Placed`). `LinkedInv` adds that a note replaced in the window of a link can only be
  the owner's own. Both hold whatever she edits. An undone member takes its move, or its
  text, out of these places, so a transaction with nothing done has every text at its
  old path; `EndInv` says that a roll-back ends there and owes nothing. `StraightInv` is
  for the commit and for an owner who changes nothing: what a move left is empty
  (`Vacated`), no later member takes or writes there (`TakenOnce`), and only a write has
  replaced a text (`Lasting`). Two assumptions beyond the bounds: `PlansAssumption`, a
  plan is a non-empty sequence of members and a move is from a page to another one
  (`transactionPlanSchema` and `assertMovePaths`, `cortex-transaction.ts:406`), and
  `RoomAssumption`, there are inodes for the files of the start. A death at any step, a
  recovery that dies again and any edit of the owner's are steps like the others, in any
  number.
* **Cortex runs** (`CortexTypeCorrect`, `PagesAreMadeOnce`, `SeenTextIsReplaced`,
  `ConflictsAreLeft`), for any number of pages, edits, faults and runs. Assumed are a
  finite set of pages (`OthersAssumption`), natural bounds (`BoundsAssumption`) and that
  every start is a tree with the bodies of `StartsAssumption`. The invariant has seven
  parts. `NotionInv`, `VaultInv` and `StateInv`: the Notion pages are a tree whatever the
  owner moves, the notes and the recorded state are well formed. `RunInv` ties a run to
  what it read: what the planner gives has these shapes (`PlanTyped`), each effect still to
  do keeps what it was planned on (`WorkFacts`), a binding follows its own creation
  (`BindsFirst`) and after a creation come only creations and markings (`MakesLast`).
  `TextInv`: no two unbound notes have one text, no two pages were made from one.
  `OpenInv`: a note whose page was made stays unbound only while an open intent says so;
  `HeadInv` says of the creation under way that its note has no page yet, or the page
  just made. `NeverCreatedTwice` is part of this invariant: a run plans nothing while an
  intent is open, so the next creation of the same note would need an intent that is gone.
  `OnlySeenTextIsReplaced` follows from `WorkFacts`: a body is written only where one side
  is the recorded text and the reread finds the other as it was taken.
  `ConflictIsLeftAlone` comes from the planner's barriers: an effect on a page that exists
  was planned on a settled record, a creation has no parent in conflict, and a move goes
  to an empty place. Lineages are recursive functions over bounded numbers; what the
  proofs need of them is proved without an induction over data.
* **Files** (`VaultFilesProofs`, lemmas only): what a system call or an owner's action
  does to the set of texts in a vault and to the names of one file. Both components
  above cite them.
* **Token** (`RotationTypeCorrect`, `TokenIsKept`, `RunsAreAccepted`). `RotationTyped` says that the
  relay's pending token and its expiry come and go together and that every request
  under way is well formed. `Kept` speaks of histories in which nothing was
  overwritten and no stray took effect: then only a request of the worker's current
  step can change the row (`UnderWay`), so the active token is in a slot and a pending
  one is the next slot's, unused before (`Row`); `Phase` and `Answers` say
  what each step of the worker, and each answer on its way, reveals about the row.

**Only model-checked:** liveness (`PairConverges`, `EventuallyConsumed`,
`RotationSettles`, `PublicationSettles`), which is out of the prover's reach, and
`RecoveryGoesThrough`. Every other invariant and action property of a run is proved.

**What a proof found in the runs.** The place of a written text depends on the moves that
come after the write: a note written inside a companion goes along when a later member
moves that page. The proof made `OutcomeIsExact` say so (`Carried`); the fourth plan of the
run `cortex_tx` is such a pair, and its recoveries are why `Unrecoverable` has its last line.

## 5. What is not modelled, and the plan

Not modelled: text conversions (Markdown, front matter, Notion blocks), the
construction of the graph document, cryptography, the interactive set-up, HTTP
routing and parsing, rendering in the viewer and logs. They are functions of their
inputs and the repository tests them over fixtures. The state and configuration
stores replace one file by a rename; the models take a save as one step.

Left of the plan, in this order:

1. **GraphViewer**: tabs over one IndexedDB, accept, rotation and forget. Composed
   with GraphPublish it has between four and twenty million states on the smallest
   instance that shows a race of two tabs, so it needs an instance of its own, with
   the relay as the abstract sequence that `RelayHoldsRecordedOrNext` describes. To
   check: accepted sequences do not decrease; a forgotten pairing stays forgotten in
   the tab that forgot it.
2. Several pairs in BridgeRun: path claims and renames.
3. The page registry's rows, the rate counters, provisioning with its roll-back.

## 6. Running

```
tlc -config BridgeRun.cfg MCBridgeRun.tla        # any run: its module and cfg are in PROJECT.json
tlapm BridgeRunProofs.tla
```

On two cores the runs take from seconds to about two minutes each; `install` has the
most states (four million), `cortex` takes longest. The proofs take minutes each, those of CortexTransaction longest.
