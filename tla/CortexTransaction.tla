-------------------------- MODULE CortexTransaction --------------------------
(***************************************************************************)
(* vault/writer.ts and vault/cortex-transaction.ts: a group of writes,     *)
(* creations and moves of notes that is applied as one transaction, and    *)
(* its recovery from what a crash, an I/O failure or the owner's own edits *)
(* left on the disk.                                                       *)
(*                                                                         *)
(* The private directory of the transaction holds a preimage of every note *)
(* it replaces and a manifest, rewritten before each step that changes a   *)
(* name of the vault. A rewritten manifest is a temporary renamed over the *)
(* old one. The position of the process is `pc`; all else it knows it has  *)
(* just persisted, and the code compares the manifest on disk with its own *)
(* before every rewrite, so there is one manifest here.                    *)
(*                                                                         *)
(* The last comparison before a system call that replaces or removes a     *)
(* name and the call itself are two steps, with a `window` between them in *)
(* which the owner may act. A link fails by itself if its new name exists, *)
(* a rename over a directory if that is not empty.                         *)
(***************************************************************************)
EXTENDS VaultFiles, Sequences

CONSTANTS Plans,      \* the transactions a run may ask for
          Companions, \* the pages that may have a companion at first
          Present,    \* the pages that have a note at first
          MaxEdits,   \* bound on the owner's actions
          MaxFaults   \* bound on failures and crashes

\* The members of a transaction. A move takes a note and its companion to another page.
Requests ==
  {r \in [kind: {"write", "create", "move"}, path: Paths, to: Pages] :
     r.kind = "move" => ~r.path.inside /\ r.path.page # r.to}

ASSUME PlansAssumption == \A p \in Plans : p \in Seq(Requests) /\ p # <<>>

ASSUME RoomAssumption == \E first \in [Present -> Inodes] : Spread(first, Present)

ASSUME TransactionAssumption ==
  /\ Companions \subseteq Present /\ Present \subseteq Pages
  /\ MaxEdits \in Nat /\ MaxFaults \in Nat

VARIABLES
  plan,    \* the members, in order; never changes
  vault,   \* the owner's files
  tx,      \* the private directory of the transaction
  pc,      \* where the process is, or what it answered
  lock,    \* the move lock: free, held, or left by a process that is gone
  edits,   \* the owner's actions so far
  faults,  \* the failures so far
  window,  \* between comparison and call: closed, open, or raced by the owner
  owed,    \* texts the owner wrote, has not removed and has not left exposed
  touched  \* pages the owner has changed since the start

vars == <<plan, vault, tx, pc, lock, edits, faults, window, owed, touched>>

(***************************************************************************)
(* The manifest.                                                           *)
(***************************************************************************)
Members == 1..Len(plan)

Phases == {"prepared", "publishing", "rolling-back", "committed"}

Stages == {"pre-link", "target-linked", "companion-reserve", "companion-reserved",
           "companion-moved", "source-unlinked"}

\* A pending member, forward (`pend`) or backward (`rb`): its state or stage,
\* the file it expects, the file it installs, and for a move the companion and
\* the directory that reserves the companion's new name.
Operations ==
  [stage: Stages \union {"none", "reserved", "ready", "restore"},
   pre: Inode0, post: Inode0, comp: Inode0, resv: Inode0]

NoOperation == [stage |-> "none", pre |-> None, post |-> None, comp |-> None, resv |-> None]

NoIdentity == [f |-> None, d |-> None]

Prepared ==
  [phase |-> "prepared", done |-> 0, pend |-> NoOperation, rb |-> NoOperation,
   post |-> [k \in Members |-> NoIdentity], restored |-> [k \in Members |-> None]]

NoManifest == [Prepared EXCEPT !.phase = "absent"]
TornManifest == [Prepared EXCEPT !.phase = "torn"]

man == tx.man

Kind(k) == plan[k].kind

\* Whose turn it is: the member after the completed ones on the way forward,
\* the last completed one on the way back.
Coming == man.done + 1
Going == man.done

(***************************************************************************)
(* What the parser demands of every manifest it reads or the writer makes. *)
(***************************************************************************)
OperationFacts(op) ==
  LET reserved == op.stage \in {"companion-reserved", "companion-moved"}
                  \/ (op.stage = "source-unlinked" /\ op.comp # None)
  IN /\ op.stage \in Stages
     /\ op.pre = op.post
     /\ op.comp = None => op.stage \in {"pre-link", "target-linked", "source-unlinked"}
     /\ reserved <=> op.resv # None
     /\ reserved => op.resv # op.comp

ManifestFacts(m) ==
  /\ m.done \in 0..Len(plan)
  /\ m.phase = "prepared" => m.done = 0 /\ m.pend = NoOperation /\ m.rb = NoOperation
  /\ m.phase = "publishing" => m.done < Len(plan) /\ m.rb = NoOperation
  /\ m.phase = "rolling-back" => m.pend = NoOperation
  /\ m.phase = "committed" =>
       m.done = Len(plan) /\ m.pend = NoOperation /\ m.rb = NoOperation
  /\ m.pend # NoOperation =>
       /\ m.phase = "publishing"
       /\ IF Kind(m.done + 1) = "move" THEN OperationFacts(m.pend)
          ELSE (m.pend.stage = "ready") <=> (m.pend.post # None)
  /\ m.rb # NoOperation =>
       /\ m.phase = "rolling-back" /\ m.done > 0
       /\ m.rb.pre = m.post[m.done].f
       /\ Kind(m.done) = "move" =>
            OperationFacts(m.rb) /\ m.rb.comp = m.post[m.done].d
  /\ \A k \in Members :
       /\ (k <= m.done) <=> (m.post[k].f # None)
       /\ m.restored[k] # None =>
            m.phase = "rolling-back" /\ m.post[k].f = None /\ Kind(k) = "write"

(***************************************************************************)
(* What a member replaces and installs. A write may name a note that only  *)
(* a move before it brings there; its old text is then read at the source. *)
(***************************************************************************)
BeforeMoves(k, path) ==
  LET moves == {j \in 1..(k - 1) : Kind(j) = "move" /\ plan[j].to = path.page}
  IN IF moves = {} THEN path
     ELSE [path EXCEPT !.page = plan[CHOOSE j \in moves : \A i \in moves : i <= j].path.page]

Expected(k) == Old(BeforeMoves(k, plan[k].path))

PreimageSourceIs(k) ==
  LET path == plan[k].path
      source == IF FileAt(vault, path) = None THEN BeforeMoves(k, path) ELSE path
  IN TextIs(vault, source, Expected(k))

\* Where a restored write is while moves before it are still undone one by one.
RollbackPath(m, k) ==
  LET at[j \in m.done..(k - 1)] ==
        IF j = k - 1 THEN plan[k].path.page
        ELSE IF Kind(j + 1) = "move" /\ plan[j + 1].to = at[j + 1]
             THEN plan[j + 1].path.page ELSE at[j + 1]
  IN [plan[k].path EXCEPT !.page = at[m.done]]

(***************************************************************************)
(* Preconditions of a member: by text alone, and with the recorded inodes. *)
(***************************************************************************)
Precondition(k) ==
  LET path == plan[k].path
  IN CASE Kind(k) = "write" -> TextIs(vault, path, Expected(k))
       [] Kind(k) = "create" -> AbsentAt(vault, path)
       [] Kind(k) = "move" ->
            /\ TextIs(vault, path, Expected(k))
            /\ AbsentAt(vault, Note(plan[k].to)) /\ NoDirectory(vault, plan[k].to)

PendingPreconditionByIdentity(k) ==
  Kind(k) # "create" => FileAt(vault, plan[k].path) = man.pend.pre

PendingPrecondition(k) ==
  /\ Precondition(k)
  /\ Kind(k) # "create" => FileAt(vault, plan[k].path) = man.pend.pre

RemainingPreconditions(first) ==
  \A k \in first..Len(plan) :
    IF Kind(k) = "write" THEN PreimageSourceIs(k) ELSE Precondition(k)

(***************************************************************************)
(* Postconditions. The target of a move may hold what a later write put    *)
(* there, or what restoring that write put back.                           *)
(***************************************************************************)
LaterWrite(k) ==
  LET ws == {j \in (k + 1)..man.done : Kind(j) = "write" /\ plan[j].path = Note(plan[k].to)}
  IN IF ws = {} THEN 0 ELSE CHOOSE j \in ws : \A i \in ws : i <= j

Moved(k, t, is) ==
  /\ TextIs(vault, Note(plan[k].to), t)
  /\ FileAt(vault, Note(plan[k].to)) \in is
  /\ vault.dir[plan[k].to] = man.post[k].d
  /\ AbsentAt(vault, plan[k].path) /\ NoDirectory(vault, plan[k].path.page)

Postcondition(k, restored) ==
  IF Kind(k) = "move"
  THEN LET back == {restored[j] : j \in {i \in Members : plan[i].path = Note(plan[k].to)}}
       IN Moved(k, Expected(k), {man.post[k].f} \union (back \ {None}))
  ELSE TextIs(vault, plan[k].path, New(k)) /\ FileAt(vault, plan[k].path) = man.post[k].f

CompletedHolds(k, published) ==
  LET w == LaterWrite(k)
      follows == published /\ Kind(Coming) = "write" /\ plan[Coming].path = Note(plan[k].to)
  IN IF Kind(k) # "move" THEN Postcondition(k, man.restored)
     ELSE IF w # 0 THEN Moved(k, New(w), {man.post[w].f})
     ELSE IF follows THEN Moved(k, New(Coming), {man.pend.post})
     ELSE Moved(k, Expected(k), {man.post[k].f})

\* No member is restored in a committed manifest.
CommittedHolds == \A k \in Members : CompletedHolds(k, FALSE)

(***************************************************************************)
(* A move as a state machine over names: the layouts it passes through, by *)
(* identity, and the stage that is recorded before each change of layout.  *)
(* Undoing a completed move runs the same machine with its ends exchanged. *)
(***************************************************************************)
Backward == pc = "reverse"

Mover == IF Backward THEN Going ELSE Coming

Operation == IF Backward THEN man.rb ELSE man.pend

From(k, back) == IF back THEN plan[k].to ELSE plan[k].path.page
To(k, back) == IF back THEN plan[k].path.page ELSE plan[k].to

Layout(k, back, op) ==
  LET from == From(k, back)
      to == To(k, back)
      source == TextIs(vault, Note(from), Expected(k)) /\ vault.file[from] = op.pre
      target == TextIs(vault, Note(to), Expected(k)) /\ vault.file[to] = op.post
      linked == source /\ target
      stays == vault.dir[from] = op.comp
      unnamed == NoDirectory(vault, to)
      private == tx.resv # None
      ours == private /\ (tx.resv = op.resv \/ (op.stage = "companion-reserve" /\ op.resv = None))
      shown == op.resv # None /\ vault.dir[to] = op.resv /\ EmptyDirectory(vault, op.resv)
      arrived == NoDirectory(vault, from) /\ vault.dir[to] = op.comp
  IN CASE source /\ vault.file[to] = None /\ stays /\ unnamed /\ ~private -> "old"
       [] linked /\ stays /\ unnamed /\ ~private -> "target-linked"
       [] linked /\ stays /\ unnamed /\ op.comp # None /\ ours -> "private-reserved"
       [] linked /\ stays /\ shown /\ ~private -> "companion-reserved"
       [] linked /\ arrived /\ op.comp # None /\ ~private -> "companion-moved"
       [] vault.file[from] = None /\ target /\ arrived /\ ~private -> "published"
       [] OTHER -> "unknown"

CurrentLayout == Layout(Mover, Backward, Operation)

\* The stage to record in a layout, when the recorded one does not cover the
\* next change yet.
NextStage ==
  LET op == Operation
      linked == IF op.comp = None THEN "source-unlinked" ELSE "companion-reserve"
      table == {<<"old", "pre-link", "target-linked">>,
                <<"target-linked", "target-linked", linked>>,
                <<"private-reserved", "companion-reserve", "companion-reserved">>,
                <<"companion-reserved", "companion-reserved", "companion-moved">>,
                <<"companion-moved", "companion-moved", "source-unlinked">>}
  IN {row[3] : row \in {r \in table : r[1] = CurrentLayout /\ r[2] = op.stage}}

WithOperation(op) ==
  IF Backward THEN [man EXCEPT !.rb = op] ELSE [man EXCEPT !.pend = op]

(***************************************************************************)
(* What a recovery finds of the member that was under way.                 *)
(***************************************************************************)
PublishedFile ==
  /\ man.pend.stage = "ready"
  /\ TextIs(vault, plan[Coming].path, New(Coming))
  /\ FileAt(vault, plan[Coming].path) = man.pend.post

PendingState ==
  IF man.pend = NoOperation THEN "none"
  ELSE IF Kind(Coming) = "move" THEN Layout(Coming, FALSE, man.pend)
  ELSE IF PendingPrecondition(Coming)
       THEN IF man.pend.stage = "ready" /\ tx.staged = None THEN "unknown" ELSE "old"
  ELSE IF PublishedFile THEN "published" ELSE "unknown"

(***************************************************************************)
(* The private directory holds exactly what its manifest accounts for.     *)
(***************************************************************************)
NeedsPreimage == {k \in Members : Kind(k) # "create"}

Uncheckpointed == man.phase = "rolling-back" /\ man.rb = NoOperation
                  /\ man.done > 0 /\ Kind(man.done) = "write"

StagedOK ==
  tx.staged # None =>
    /\ man.pend # NoOperation /\ Kind(Coming) # "move"
    /\ vault.text[tx.staged] = New(Coming)
    /\ man.pend.stage = "ready" => tx.staged = man.pend.post

BackOK ==
  tx.back # None =>
    /\ man.done > 0 /\ Kind(Going) = "write"
    /\ vault.text[tx.back] = Expected(Going)
    /\ \/ man.rb # NoOperation /\ tx.back = man.rb.post
       \/ Uncheckpointed /\ Postcondition(Going, man.restored)

ReservationOK ==
  tx.resv # None =>
    \E op \in {man.pend, man.rb} :
      op.stage = "companion-reserve" \/ (op.stage = "companion-reserved" /\ op.resv = tx.resv)

ArtifactsOK ==
  /\ ~tx.temp
  /\ \A k \in NeedsPreimage : tx.pre[k] = "whole"
  /\ StagedOK /\ BackOK /\ ReservationOK

(***************************************************************************)
(* The process.                                                            *)
(***************************************************************************)
Preparing == {"directory", "preimages", "manifest"}
Publishing == {"publish", "member", "stage", "ready", "swap", "unlink", "moving", "complete"}
Undoing == {"undo", "drop", "finish", "promote", "resume", "reverse", "intent", "progress", "clean"}
Running == Preparing \union Publishing \union Undoing
Answers == {"idle", "down", "attention", "committed", "rolled-back", "nothing"}

Private == {tx.staged, tx.back, tx.resv} \ {None}

Goto(q) == pc' = q /\ UNCHANGED <<lock, faults>>

\* The answer, and the release of the lock. A release that fails makes the answer
\* "recovery required", and leaves the lock unless only its last sync failed.
End(answer) ==
  \/ pc' = answer /\ lock' = "free" /\ UNCHANGED faults
  \/ faults < MaxFaults /\ faults' = faults + 1 /\ pc' = "attention" /\ lock' \in {"left", "free"}

\* Where an exception is caught: applying goes on to undo what the manifest
\* records, once there is one; everything else is left for a later recovery.
Caught ==
  IF pc \in Publishing THEN pc' = "undo" /\ UNCHANGED lock
  ELSE pc' = "attention" /\ lock' = "free"

Throws == Caught /\ UNCHANGED <<vault, tx, faults>>

Persist(m) == tx' = [tx EXCEPT !.man = m]

Owner == UNCHANGED <<plan, edits, owed, touched>>

NoTransaction ==
  [made |-> FALSE, man |-> NoManifest, temp |-> FALSE,
   pre |-> [k \in Members |-> "absent"], staged |-> None, back |-> None, resv |-> None]

(***************************************************************************)
(* Applying: the lock, the preimages, the manifest.                        *)
(***************************************************************************)
Begin ==
  /\ pc = "idle" /\ lock = "free"
  /\ IF RemainingPreconditions(1)
     THEN pc' = "directory" /\ lock' = "held" /\ UNCHANGED faults
     ELSE End("attention")
  /\ UNCHANGED <<vault, tx>>

MakeDirectory ==
  /\ pc = "directory"
  /\ tx' = [tx EXCEPT !.made = TRUE]
  /\ Goto(IF NeedsPreimage = {} THEN "manifest" ELSE "preimages")
  /\ UNCHANGED vault

Unsaved == {k \in NeedsPreimage : tx.pre[k] = "absent"}

SavePreimage ==
  /\ pc = "preimages"
  /\ LET k == CHOOSE j \in Unsaved : \A i \in Unsaved : j <= i
     IN tx' = [tx EXCEPT !.pre[k] = "whole"]
  /\ Goto(IF Cardinality(Unsaved) = 1 THEN "manifest" ELSE "preimages")
  /\ UNCHANGED vault

CreateManifest ==
  /\ pc = "manifest"
  /\ Persist(Prepared) /\ Goto("publish") /\ UNCHANGED vault

StartPublishing ==
  /\ pc = "publish"
  /\ Persist([man EXCEPT !.phase = "publishing"]) /\ Goto("member") /\ UNCHANGED vault

(***************************************************************************)
(* Applying one member: its intent on disk, the staged file, the intent    *)
(* with its inode, then the one change of a name.                          *)
(***************************************************************************)
ReserveMember ==
  LET k == Coming
      at == FileAt(vault, plan[k].path)
      intent == IF Kind(k) = "move"
                THEN [stage |-> "pre-link", pre |-> at, post |-> at,
                      comp |-> vault.dir[plan[k].path.page], resv |-> None]
                ELSE [NoOperation EXCEPT !.stage = "reserved", !.pre = at]
  IN /\ pc = "member"
     /\ IF Precondition(k)
        THEN /\ Persist([man EXCEPT !.pend = intent])
             /\ Goto(IF Kind(k) = "move" THEN "moving" ELSE "stage")
             /\ UNCHANGED vault
        ELSE Throws

StageMember ==
  /\ pc = "stage"
  /\ IF PendingPrecondition(Coming)
     THEN /\ \E i \in Fresh(vault, Private) :
               tx' = [tx EXCEPT !.staged = i] /\ vault' = Written(vault, i, New(Coming))
          /\ Goto("ready")
     ELSE Throws

ReadyMemberInMemory ==
  /\ pc = "ready"
  /\ Goto("swap") /\ UNCHANGED <<vault, tx>>

ReadyMember ==
  /\ pc = "ready"
  /\ Persist([man EXCEPT !.pend.stage = "ready", !.pend.post = tx.staged])
  /\ Goto("swap") /\ UNCHANGED vault

RefuseSwap ==
  /\ pc = "swap" /\ Kind(Coming) = "write"
  /\ ~PendingPrecondition(Coming) /\ Throws

\* rename(2) replaces whatever file has the name by now.
SwapMember ==
  /\ pc = "swap" /\ Kind(Coming) = "write"
  /\ IF ParentExists(vault, plan[Coming].path)
     THEN /\ vault' = PutAt(vault, plan[Coming].path, tx.staged)
          /\ tx' = [tx EXCEPT !.staged = None] /\ Goto("complete")
     ELSE Throws

LinkMember ==
  /\ pc = "swap" /\ Kind(Coming) = "create"
  /\ IF PendingPrecondition(Coming)
     THEN vault' = PutAt(vault, plan[Coming].path, tx.staged) /\ Goto("unlink") /\ UNCHANGED tx
     ELSE Throws

UnlinkStaged ==
  /\ pc = "unlink"
  /\ tx' = [tx EXCEPT !.staged = None] /\ Goto("complete") /\ UNCHANGED vault

WithCompletion ==
  [man EXCEPT !.phase = IF Coming = Len(plan) THEN "committed" ELSE "publishing",
              !.done = Coming, !.pend = NoOperation,
              !.post[Coming] = [f |-> man.pend.post, d |-> man.pend.comp]]

CompleteMember ==
  /\ pc = "complete"
  /\ Persist(WithCompletion) /\ UNCHANGED vault
  /\ IF Coming = Len(plan) THEN End("committed") ELSE Goto("member")

(***************************************************************************)
(* The steps of a move, in any of the three loops that run it.             *)
(***************************************************************************)
Moving == pc \in {"moving", "finish", "reverse"}

RecordStage ==
  /\ Moving
  /\ \E stage \in NextStage :
       LET resv == IF stage = "companion-reserved" THEN tx.resv ELSE Operation.resv
       IN Persist(WithOperation([Operation EXCEPT !.stage = stage, !.resv = resv]))
  /\ Goto(pc) /\ UNCHANGED vault

\* link(2) gives the new name to whatever file has the old one by now.
LinkTarget ==
  /\ Moving /\ Operation.stage = "target-linked"
  /\ LET source == Note(From(Mover, Backward))
         target == Note(To(Mover, Backward))
     IN IF FileAt(vault, source) # None /\ FileAt(vault, target) = None
        THEN vault' = PutAt(vault, target, FileAt(vault, source)) /\ Goto(pc) /\ UNCHANGED tx
        ELSE Throws

MakeReservation ==
  /\ Moving
  /\ CurrentLayout = "target-linked" /\ Operation.stage = "companion-reserve"
  /\ \E d \in Fresh(vault, Private) :
       tx' = [tx EXCEPT !.resv = d] /\ vault' = Emptied(vault, d)
  /\ Goto(pc)

\* rename(2) of the private directory, over an empty one that the owner made meanwhile.
ShowReservation ==
  /\ Moving /\ Operation.stage = "companion-reserved"
  /\ LET to == To(Mover, Backward)
     IN IF vault.dir[to] = None \/ EmptyDirectory(vault, vault.dir[to])
        THEN /\ vault' = PutDirectory(vault, to, tx.resv)
             /\ tx' = [tx EXCEPT !.resv = None] /\ Goto(pc)
        ELSE Throws

MoveCompanion ==
  /\ Moving
  /\ CurrentLayout = "companion-reserved" /\ Operation.stage = "companion-moved"
  /\ vault' = MoveDirectory(vault, From(Mover, Backward), To(Mover, Backward))
  /\ Goto(pc) /\ UNCHANGED tx

UnlinkSource ==
  /\ Moving /\ Operation.stage = "source-unlinked"
  /\ LET source == Note(From(Mover, Backward))
     IN IF FileAt(vault, source) # None
        THEN vault' = RemoveAt(vault, source) /\ Goto(pc) /\ UNCHANGED tx
        ELSE Throws

Arrived == CurrentLayout = "published" /\ Operation.stage = "source-unlinked"

FinishMove ==
  /\ Moving /\ Arrived
  /\ CASE pc = "moving" -> Goto("complete")
       [] pc = "finish" -> Goto("promote")
       [] pc = "reverse" ->
            IF Layout(Going, FALSE, man.rb) = "old" THEN Goto("progress") ELSE End("attention")
  /\ UNCHANGED <<vault, tx>>

\* The layout is not one the recorded stage leads to: somebody else was here.
Expects ==
  {<<"old", "target-linked">>, <<"target-linked", "companion-reserve">>,
   <<"private-reserved", "companion-reserved">>, <<"companion-reserved", "companion-moved">>,
   <<"target-linked", "source-unlinked">>, <<"companion-moved", "source-unlinked">>,
   <<"published", "source-unlinked">>}

RefuseMove ==
  /\ Moving
  /\ NextStage = {} /\ <<CurrentLayout, Operation.stage>> \notin Expects
  /\ Throws

MoveStep == RecordStage \/ MakeReservation \/ MoveCompanion \/ FinishMove \/ RefuseMove

(***************************************************************************)
(* Rolling back: by the same process after an exception, or by a later one *)
(* that recovers. A member found half way is first brought to one end.     *)
(***************************************************************************)
MayUndoRechecking ==
  /\ ArtifactsOK
  /\ man.phase # "rolling-back" =>
       /\ PendingState # "unknown"
       /\ \A k \in 1..man.done : CompletedHolds(k, PendingState = "published")
       /\ RemainingPreconditions(Coming)

MayUndo ==
  /\ ArtifactsOK
  /\ man.phase # "rolling-back" =>
       /\ PendingState # "unknown"
       /\ \A k \in 1..man.done : CompletedHolds(k, PendingState = "published")
       /\ RemainingPreconditions(IF man.pend = NoOperation THEN Coming ELSE Coming + 1)

StartUndo ==
  /\ pc = "undo"
  /\ IF ~MayUndo THEN End("attention")
     ELSE Goto(IF man.phase = "rolling-back" THEN "resume"
               ELSE IF PendingState = "published" THEN "promote"
               ELSE IF PendingState \in {"none", "old"} THEN "drop"
               ELSE "finish")
  /\ UNCHANGED <<vault, tx>>

DropStaged ==
  /\ pc \in {"drop", "promote"} /\ tx.staged # None
  /\ tx' = [tx EXCEPT !.staged = None]
  /\ Goto(pc) /\ UNCHANGED vault

WithRollingBackStillPending(m) == [m EXCEPT !.phase = "rolling-back"]

WithRollingBack(m) == [m EXCEPT !.phase = "rolling-back", !.pend = NoOperation]

RollBackRecorded ==
  /\ pc = "drop" /\ tx.staged = None
  /\ Persist(WithRollingBack(man)) /\ Goto("resume") /\ UNCHANGED vault

\* A published member becomes the last completed one, and is undone like it.
Promote ==
  LET published == IF Kind(Coming) = "move" THEN Layout(Coming, FALSE, man.pend) = "published"
                   ELSE PublishedFile
  IN /\ pc = "promote" /\ tx.staged = None
     /\ IF published
        THEN Persist(WithRollingBack(WithCompletion)) /\ Goto("resume") /\ UNCHANGED vault
        ELSE Throws

\* Everything the manifest says of restored, completed and untouched members
\* is so, before the next member is undone.
SnapshotHolds ==
  /\ \A k \in Members :
       man.restored[k] # None =>
         LET path == RollbackPath(man, k)
         IN TextIs(vault, path, Expected(k)) /\ FileAt(vault, path) = man.restored[k]
  /\ \A k \in 1..man.done :
       IF Kind(k) = "move" /\ LaterWrite(k) # 0 THEN CompletedHolds(k, FALSE)
       ELSE Postcondition(k, man.restored)
  /\ RemainingPreconditions(Coming)

Resuming == pc = "resume" /\ ArtifactsOK

DropUncheckpointed ==
  /\ Resuming /\ man.rb = NoOperation /\ tx.back # None
  /\ tx' = [tx EXCEPT !.back = None] /\ Goto("resume") /\ UNCHANGED vault

Ready == Resuming /\ man.rb = NoOperation /\ tx.back = None /\ SnapshotHolds

StageBack ==
  /\ Ready /\ man.done > 0 /\ Kind(Going) = "write"
  /\ \E i \in Fresh(vault, Private) :
       tx' = [tx EXCEPT !.back = i] /\ vault' = Written(vault, i, Expected(Going))
  /\ Goto("intent")

BackIntent ==
  LET post == man.post[Going]
      at == vault.file[plan[Going].to]
  IN CASE Kind(Going) = "move" ->
            [stage |-> "pre-link", pre |-> at, post |-> at, comp |-> post.d, resv |-> None]
       [] OTHER -> [NoOperation EXCEPT !.stage = "restore", !.pre = post.f, !.post = tx.back]

RecordBackIntent ==
  /\ \/ pc = "intent"
     \/ Ready /\ man.done > 0 /\ Kind(Going) # "write"
  /\ LET m == [man EXCEPT !.rb = BackIntent]
     IN IF ManifestFacts(m)
        THEN Persist(m) /\ Goto("resume") /\ UNCHANGED vault
        ELSE Throws

CleanUpOneEarly ==
  /\ Ready /\ man.done <= 1
  /\ Goto("clean") /\ UNCHANGED <<vault, tx>>

CleanUp ==
  /\ Ready /\ man.done = 0
  /\ Goto("clean") /\ UNCHANGED <<vault, tx>>

(***************************************************************************)
(* Undoing the member whose backward intent is on disk.                    *)
(***************************************************************************)
Restoring(kind) == Resuming /\ man.rb # NoOperation /\ Kind(Going) = kind

AtNew == TextIs(vault, plan[Going].path, New(Going))
         /\ FileAt(vault, plan[Going].path) = man.rb.pre

AtOld == TextIs(vault, plan[Going].path, Expected(Going))
         /\ FileAt(vault, plan[Going].path) = man.rb.post

Overwritable == Restoring("write") /\ AtNew /\ tx.back # None
Removable == Restoring("create") /\ AtNew

\* The change is done already, or the name holds neither the new nor the old state.
FindRestored ==
  /\ Restoring("write") \/ Restoring("create")
  /\ ~Overwritable /\ ~Removable
  /\ IF \/ Kind(Going) = "write" /\ ~AtNew /\ AtOld /\ tx.back = None
        \/ Kind(Going) = "create" /\ FileAt(vault, plan[Going].path) = None
     THEN Goto("progress") /\ UNCHANGED <<vault, tx>>
     ELSE Throws

RestoreWrite ==
  /\ Restoring("write")
  /\ IF ParentExists(vault, plan[Going].path)
     THEN /\ vault' = PutAt(vault, plan[Going].path, tx.back)
          /\ tx' = [tx EXCEPT !.back = None] /\ Goto("progress")
     ELSE Throws

RestoreCreate ==
  /\ Restoring("create")
  /\ IF FileAt(vault, plan[Going].path) # None
     THEN vault' = RemoveAt(vault, plan[Going].path) /\ Goto("progress") /\ UNCHANGED tx
     ELSE Throws

RestoreMove ==
  /\ Restoring("move")
  /\ Goto("reverse") /\ UNCHANGED <<vault, tx>>

\* A write that is restored gives the move that brought its note there the
\* inode it must expect from now on.
WithProgress ==
  LET k == Going
      brought == {j \in 1..(k - 1) : Kind(j) = "move" /\ Note(plan[j].to) = plan[k].path}
      latest == {j \in brought : \A i \in brought : i <= j}
      post == [j \in Members |-> IF j = k THEN NoIdentity
                                 ELSE IF Kind(k) = "write" /\ j \in latest
                                 THEN [man.post[j] EXCEPT !.f = man.rb.post]
                                 ELSE man.post[j]]
      restored == IF Kind(k) = "write" THEN [man.restored EXCEPT ![k] = man.rb.post]
                  ELSE man.restored
  IN [man EXCEPT !.done = k - 1, !.rb = NoOperation, !.post = post, !.restored = restored]

RecordProgress ==
  /\ pc = "progress"
  /\ Persist(WithProgress) /\ Goto("resume") /\ UNCHANGED vault

RefuseResume ==
  /\ pc = "resume"
  /\ \/ ~ArtifactsOK
     \/ man.rb = NoOperation /\ tx.back = None /\ ~SnapshotHolds
  /\ Throws

RemoveArtifact ==
  /\ pc = "clean" /\ UNCHANGED vault
  /\ LET left == {k \in NeedsPreimage : tx.pre[k] # "absent"}
     IN IF left # {}
        THEN /\ tx' = [tx EXCEPT !.pre[CHOOSE k \in left : \A j \in left : k <= j] = "absent"]
             /\ Goto("clean")
        ELSE IF man # NoManifest THEN Persist(NoManifest) /\ Goto("clean")
        ELSE tx' = NoTransaction /\ End("rolled-back")

Undo == StartUndo \/ DropStaged \/ RollBackRecorded \/ Promote \/ DropUncheckpointed
          \/ StageBack \/ RecordBackIntent \/ CleanUp \/ FindRestored \/ RestoreMove
          \/ RecordProgress \/ RefuseResume \/ RemoveArtifact

(***************************************************************************)
(* The window. A process that has found a name as it expects it goes on to *)
(* change it by that name, and what the owner does meanwhile goes unseen.  *)
(***************************************************************************)
Compared ==
  \/ pc = "swap" /\ Kind(Coming) = "write" /\ PendingPrecondition(Coming)
  \/ /\ Moving
     /\ <<CurrentLayout, Operation.stage>> \in
          {<<"old", "target-linked">>, <<"private-reserved", "companion-reserved">>,
           <<"target-linked", "source-unlinked">>, <<"companion-moved", "source-unlinked">>}
  \/ Overwritable \/ Removable

Compare == Compared /\ UNCHANGED <<vault, tx, pc, lock, faults>>

Call == SwapMember \/ LinkTarget \/ ShowReservation \/ UnlinkSource \/ RestoreWrite \/ RestoreCreate

\* The reading after a change finds that the owner has been there already.
NoticeOwner ==
  /\ \/ (pc = "unlink" \/ (pc = "complete" /\ Kind(Coming) = "write")) /\ ~PublishedFile
     \/ pc = "progress" /\ Kind(Going) = "write" /\ ~AtOld
     \/ pc = "progress" /\ Kind(Going) = "create" /\ FileAt(vault, plan[Going].path) # None
  /\ Throws

(***************************************************************************)
(* Recovery, called with nothing else running. The lock of a process that  *)
(* is gone is never taken over: the owner removes it.                      *)
(***************************************************************************)
Resting == {"down", "attention", "committed"}

RecoveryFinds ==
  CASE ~tx.made -> "nothing"
    [] tx.made /\ man.phase \in {"absent", "torn"} -> "attention"
    [] tx.made /\ man.phase = "committed" ->
         IF ArtifactsOK /\ CommittedHolds THEN "committed" ELSE "attention"
    [] tx.made /\ man.phase = "prepared" /\ ~RemainingPreconditions(1) -> "attention"
    [] OTHER -> "undo"

Recover ==
  /\ pc \in Resting /\ lock = "free"
  /\ IF RecoveryFinds = "undo" THEN pc' = "undo" /\ lock' = "held" /\ UNCHANGED faults
     ELSE End(RecoveryFinds)
  /\ UNCHANGED <<vault, tx>>

OwnerClearsLock ==
  /\ lock = "left" /\ pc \notin Running
  /\ lock' = "free" /\ UNCHANGED <<vault, tx, pc, faults>>

(***************************************************************************)
(* What goes wrong. A failure of a call that changed nothing; a private    *)
(* file that is left incomplete; a transaction that fails after it became  *)
(* committed; a lock that is made and not completed; a crash anywhere,     *)
(* between the two halves of a rewrite of the manifest too.                *)
(***************************************************************************)
Fault == faults < MaxFaults /\ faults' = faults + 1

Fails == pc \in Running /\ Fault /\ Caught /\ UNCHANGED <<vault, tx>>

CutPrivateFile ==
  LET k == CHOOSE j \in Unsaved : \A n \in Unsaved : j <= n
      torn(i) == vault' = Written(vault, i, Torn)
  IN CASE pc = "preimages" -> tx' = [tx EXCEPT !.pre[k] = "torn"] /\ UNCHANGED vault
       [] pc = "manifest" -> Persist(TornManifest) /\ UNCHANGED vault
       [] pc = "stage" /\ PendingPrecondition(Coming) ->
            \E i \in Fresh(vault, Private) : tx' = [tx EXCEPT !.staged = i] /\ torn(i)
       [] Ready /\ man.done > 0 /\ Kind(Going) = "write" ->
            \E i \in Fresh(vault, Private) : tx' = [tx EXCEPT !.back = i] /\ torn(i)
       [] OTHER -> FALSE

Dies == pc' = "down" /\ lock' = "left"

CutsArtifact == Fault /\ CutPrivateFile /\ (Caught \/ Dies)

FailsAfterCommit ==
  /\ pc = "complete" /\ Coming = Len(plan) /\ Fault
  /\ Persist(WithCompletion) /\ pc' = "undo" /\ UNCHANGED <<vault, lock>>

FailsToLock ==
  /\ pc = "idle" /\ lock = "free" /\ Fault
  /\ pc' = "attention" /\ lock' = "left" /\ UNCHANGED <<vault, tx>>

Crash == pc \in Running /\ Fault /\ Dies /\ UNCHANGED <<vault, tx>>

Persisting ==
  \/ pc \in {"publish", "ready", "complete", "intent", "progress"}
  \/ pc = "member" /\ Precondition(Coming)
  \/ pc \in {"drop", "promote"} /\ tx.staged = None
  \/ Moving /\ NextStage # {}

CrashInPersist ==
  /\ Persisting /\ Fault /\ Dies
  /\ tx' = [tx EXCEPT !.temp = TRUE] /\ UNCHANGED vault

(***************************************************************************)
(* The owner, in her editor, at any moment after the start. What she does  *)
(* while the window is open can leave a text without any name but the one  *)
(* that the next call replaces or removes: it is exposed to that call.     *)
(***************************************************************************)
Affected ==
  CASE pc = "swap" -> {plan[Coming].path}
    [] pc = "resume" -> {plan[Going].path}
    [] Moving /\ Operation.stage = "source-unlinked" -> {Note(From(Mover, Backward))}
    [] OTHER -> {}

OnlyAt(v, path) ==
  IF FileAt(v, path) = None THEN {} ELSE TextsIn(v) \ TextsIn(RemoveAt(v, path))

Exposed(v) ==
  IF window = "closed" THEN {}
  ELSE UNION {OnlyAt(v, path) \ (OnlyAt(vault, path) \intersect owed) : path \in Affected}

OwnerDoes(v, path, typed) ==
  /\ vault' = v
  /\ owed' = ({t \in owed : t \in TextsIn(vault) => t \in TextsIn(v)} \union typed) \ Exposed(v)
  /\ window' = (IF window = "closed" THEN "closed" ELSE "raced")
  /\ touched' = touched \union {path.page}
  /\ edits' = edits + 1
  /\ UNCHANGED <<plan, tx, pc, lock, faults>>

OwnerActs ==
  /\ edits < MaxEdits /\ pc # "idle"
  /\ \E path \in Paths :
       LET t == Mine(edits + 1)
       IN \/ \E v \in OwnerEdits(vault, path, t) \union OwnerSaves(vault, path, t, Private) :
               OwnerDoes(v, path, {t})
          \/ \E v \in OwnerDeletes(vault, path) : OwnerDoes(v, path, {})
          \/ /\ FileAt(vault, path) # None
             /\ \E v \in OwnerSaves(vault, path, vault.text[FileAt(vault, path)], Private) :
                  OwnerDoes(v, path, {})
          \/ \E v \in OwnerMakesDirectory(vault, path.page, Private) :
               path.inside /\ OwnerDoes(v, path, {})

(***************************************************************************)
(* The specification.                                                      *)
(***************************************************************************)
Init ==
  /\ plan \in Plans
  /\ \E C \in SUBSET Companions :
       /\ vault = InitialVault(Present, C)
       /\ owed = {Old(path) : path \in OwnPaths(Present, C)}
  /\ tx = NoTransaction
  /\ pc = "idle" /\ lock = "free"
  /\ edits = 0 /\ faults = 0 /\ touched = {} /\ window = "closed"

Apply == Begin \/ MakeDirectory \/ SavePreimage \/ CreateManifest \/ StartPublishing
           \/ ReserveMember \/ StageMember \/ ReadyMember \/ RefuseSwap \/ LinkMember
           \/ UnlinkStaged \/ CompleteMember

Process == (IF window = "closed" THEN Apply \/ MoveStep \/ Undo \/ NoticeOwner ELSE Call)
             /\ window' = "closed" /\ Owner

LookLast == window = "closed" /\ Compare /\ window' = "open" /\ Owner

Misfortune == (\/ Fails \/ CutsArtifact \/ FailsAfterCommit \/ FailsToLock \/ Crash
               \/ window = "closed" /\ CrashInPersist) /\ window' = "closed" /\ Owner

Next == Process \/ LookLast \/ Misfortune \/ OwnerActs
          \/ ((Recover \/ OwnerClearsLock) /\ UNCHANGED window /\ Owner)

Spec == Init /\ [][Next]_vars

-----------------------------------------------------------------------------
(***************************************************************************)
(* Properties.                                                             *)
(***************************************************************************)
Texts == {Old(path) : path \in Paths} \union {New(k) : k \in Members}
           \union {Mine(n) : n \in 1..MaxEdits} \union {Torn}

(* Type correctness; and every manifest on the disk that is not cut short  *)
(* is one the parser of cortex-transaction.ts accepts.                     *)
TypeOK ==
  /\ plan \in Plans /\ vault \in Vaults(Texts)
  /\ pc \in Running \union Answers /\ lock \in {"free", "held", "left"}
  /\ edits \in 0..MaxEdits /\ faults \in 0..MaxFaults /\ window \in {"closed", "open", "raced"}
  /\ owed \subseteq Texts /\ touched \subseteq Pages
  /\ tx.made \in BOOLEAN /\ tx.temp \in BOOLEAN
  /\ tx.pre \in [Members -> {"absent", "torn", "whole"}]
  /\ {tx.staged, tx.back, tx.resv} \subseteq Inode0
  /\ man.phase \in Phases \union {"absent", "torn"}
  /\ {man.pend, man.rb} \subseteq Operations
  /\ ManifestFacts(man)

(* The transaction and its recovery destroy no text of the owner, whatever *)
(* she edits meanwhile and wherever the process fails or dies: it is in    *)
(* the vault or in the private directory. The exception is one she left    *)
(* exposed between the last comparison of a name and the rename or unlink  *)
(* of that name, which the code cannot see (`owed` is without it).         *)
EveryTextKept ==
  LET saved == {Expected(k) : k \in {j \in NeedsPreimage : tx.pre[j] = "whole"}}
      held == TextsIn(vault) \union {vault.text[i] : i \in Private}
  IN owed \subseteq saved \union held

\* Where the moves after member k take what is at a path.
Carried(path, k) ==
  LET moves == {j \in Members : j > k /\ Kind(j) = "move" /\ plan[j].path.page = path.page}
  IN IF moves = {} THEN path ELSE [path EXCEPT !.page = plan[CHOOSE j \in moves : TRUE].to]

(* All or nothing. "rolled-back" means that every text of the owner she    *)
(* has not removed is at the very path it had and nothing of the           *)
(* transaction is left; "committed", when she changed nothing, that every  *)
(* text, old or new, is where the moves after it take it, unless a write   *)
(* replaced it there.                                                      *)
OutcomeIsExact ==
  LET rewritten == {Carried(plan[k].path, k) : k \in {j \in Members : Kind(j) = "write"}}
  IN /\ pc = "rolled-back" =>
          /\ \A path \in Paths : Old(path) \in owed => TextIs(vault, path, Old(path))
          /\ \A k \in Members : New(k) \notin TextsIn(vault)
     /\ pc = "committed" /\ touched = {} =>
          /\ \A path \in Paths :
               Old(path) \in owed =>
                 /\ Carried(path, 0) \notin rewritten => TextIs(vault, Carried(path, 0), Old(path))
                 /\ Carried(path, 0) # path => FileAt(vault, path) = None
          /\ \A k \in Members : Kind(k) # "move" => TextIs(vault, Carried(plan[k].path, k), New(k))

(* Write-ahead: the process changes a name of the vault only from and to   *)
(* inodes that the intent in the manifest on the disk already names; a     *)
(* crash after the change is then one that the manifest explains. But for  *)
(* a call that the owner overtook after the last comparison.               *)
Intended == {op[field] : op \in {man.pend, man.rb}, field \in {"pre", "post", "comp", "resv"}}
              \union {None}

Renamed(names, now, later) == \A n \in names : now[n] # later[n] => {now[n], later[n]} \subseteq Intended

ChangesAreLogged ==
  [][edits' = edits /\ window # "raced" =>
       /\ Renamed(Pages, vault.file, vault'.file)
       /\ Renamed(Pages, vault.dir, vault'.dir)
       /\ Renamed({vault.dir[p] : p \in Pages} \ {None}, vault.child, vault'.child)]_vars

(* A recovery goes through. It answers "recovery required" without a call  *)
(* failing only in these states: the owner changed a page; the manifest or *)
(* another private file was cut short or not yet made; a rewrite of the    *)
(* manifest died before its rename; the removal of a finished rollback's   *)
(* files was interrupted; the staged file of a ready member was removed    *)
(* and the step that follows not recorded; or a later member moved away    *)
(* the page that a member wrote to, whose path the check still names.      *)
Unrecoverable ==
  \/ touched # {} \/ tx.temp
  \/ tx.made /\ man.phase \in {"absent", "torn"}
  \/ tx.made /\ \E k \in NeedsPreimage : tx.pre[k] # "whole"
  \/ \E i \in Private : vault.text[i] = Torn /\ i # tx.resv
  \/ man.pend.stage = "ready" /\ tx.staged = None /\ PendingState = "unknown"
  \/ \E k, j \in Members : k < j /\ j <= man.done + (IF man.pend = NoOperation THEN 0 ELSE 1)
                           /\ Kind(k) # "move" /\ Kind(j) = "move"
                           /\ plan[k].path.page = plan[j].path.page

RecoveryGoesThrough ==
  /\ [](pc \in Resting /\ ~Unrecoverable => RecoveryFinds # "attention")
  /\ [][pc' = "attention" /\ pc \in Undoing /\ faults' = faults => Unrecoverable]_vars

=============================================================================
