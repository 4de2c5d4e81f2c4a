----------------------------- MODULE VaultWriter -----------------------------
(***************************************************************************)
(* vault/writer.ts: one call of `write`, `create` or `moveCortexSubtree`   *)
(* beside an owner who edits the same notes. Every reading of the vault    *)
(* and every system call that changes it is a step of its own, so that the *)
(* window between the last comparison and the change is there.             *)
(***************************************************************************)
EXTENDS VaultFiles

CONSTANTS Requests,   \* the calls: kind, path and, of a move, the new page
          Companions, \* the pages that may have a companion at first
          Present,    \* the pages that have a note at first
          MaxEdits,   \* bound on the owner's actions
          MaxFaults   \* bound on failures and crashes

ASSUME RequestsAssumption ==
  /\ Requests \subseteq [kind: {"write", "create", "move"}, path: Paths, to: Pages]
  /\ \A r \in Requests : r.kind = "move" => ~r.path.inside

ASSUME RoomAssumption == \E first \in [Present -> Inodes] : Spread(first, Present)

ASSUME WriterAssumption ==
  /\ Companions \subseteq Present /\ Present \subseteq Pages
  /\ MaxEdits \in Nat /\ MaxFaults \in Nat

VARIABLES
  request, \* the call; never changes
  vault,   \* the owner's files
  pc,      \* where the call is, or what it answered
  answer,  \* what the call will answer once it has released the lock
  tmp,     \* the temporary beside the target
  seen,    \* what the call read first: the inodes of the note and its companion
  did,     \* what a move has done and not yet undone
  lock,    \* the move lock: free, held by the call, or left by someone
  edits, faults,
  owed,    \* texts the owner wrote and has not removed under any name
  exposed, \* of these, the ones put where a system call was already decided
  touched  \* pages the owner has changed

vars == <<request, vault, pc, answer, tmp, seen, did, lock, edits, faults, owed, exposed, touched>>

kind == request.kind
path == request.path
source == path.page
destination == request.to

(***************************************************************************)
(* Where a call is. A step that throws goes to `Failing`; what it has done *)
(* by then is in `tmp` and `did`.                                          *)
(***************************************************************************)
Answers == {"idle", "ok", "failed", "down"}
Undoing == {"cleanup", "undo", "undo shift", "undo file", "undo target", "undo unlink", "release"}
Running == {"read", "parents", "temporary", "check", "swap", "unlink temporary", "confirm",
            "lock", "source", "recheck", "link", "reserve", "shift", "final", "unlink"}
             \union Undoing

Failing == IF kind = "move" THEN "undo" ELSE "cleanup"

Goto(q) == pc' = q /\ UNCHANGED answer

Throw == Goto(Failing)

Same == UNCHANGED <<vault, tmp, seen, did, lock>>

Nothing == [linked |-> FALSE, resv |-> None, moved |-> FALSE, unlinked |-> FALSE]

Call ==
  /\ pc = "idle"
  /\ Goto(CASE kind = "write" -> "read" [] kind = "create" -> "parents" [] kind = "move" -> "lock")
  /\ Same

(***************************************************************************)
(* write and create: a temporary beside the target, a last comparison,     *)
(* then a rename over the note or a link to a name that must be free.      *)
(***************************************************************************)
Unchanged(p) == TextIs(vault, p, Old(path)) /\ FileAt(vault, p) = seen.file

ReadBaseline ==
  /\ pc = "read"
  /\ IF TextIs(vault, path, Old(path))
     THEN seen' = [seen EXCEPT !.file = FileAt(vault, path)] /\ Goto("temporary")
     ELSE Throw /\ UNCHANGED seen
  /\ UNCHANGED <<vault, tmp, did, lock>>

\* ensureAbsentTarget makes the directories above the note that are missing.
MakeParents ==
  /\ pc = "parents"
  /\ IF ParentExists(vault, path) THEN UNCHANGED vault
     ELSE \E d \in Fresh(vault, {tmp}) : vault' = PutDirectory(Emptied(vault, d), source, d)
  /\ IF FileAt(vault, path) = None THEN Goto("temporary") ELSE Throw
  /\ UNCHANGED <<tmp, seen, did, lock>>

MakeTemporary ==
  /\ pc = "temporary"
  /\ \E i \in Fresh(vault, {}) : tmp' = i /\ vault' = Written(vault, i, New(1))
  /\ Goto("check") /\ UNCHANGED <<seen, did, lock>>

CheckTargetText ==
  /\ pc = "check"
  /\ IF kind = "create" \/ FileAt(vault, path) # None THEN Goto("swap") ELSE Throw
  /\ Same

CheckTarget ==
  /\ pc = "check"
  /\ IF (kind = "write" /\ Unchanged(path)) \/ (kind = "create" /\ AbsentAt(vault, path))
     THEN Goto("swap") ELSE Throw
  /\ Same

RenameOver ==
  /\ pc = "swap" /\ kind = "write"
  /\ vault' = PutAt(vault, path, tmp) /\ tmp' = None
  /\ Goto("confirm") /\ UNCHANGED <<seen, did, lock>>

LinkNew ==
  /\ pc = "swap" /\ kind = "create"
  /\ IF AbsentAt(vault, path)
     THEN vault' = PutAt(vault, path, tmp) /\ Goto("unlink temporary")
     ELSE Throw /\ UNCHANGED vault
  /\ UNCHANGED <<tmp, seen, did, lock>>

UnlinkTemporary ==
  /\ pc = "unlink temporary"
  /\ IF FileAt(vault, path) = tmp
     THEN tmp' = None /\ Goto("confirm")
     ELSE Throw /\ UNCHANGED tmp
  /\ UNCHANGED <<vault, seen, did, lock>>

Confirm ==
  /\ pc = "confirm"
  /\ IF TextIs(vault, path, New(1)) THEN Goto("ok") ELSE Throw
  /\ Same

RemoveTemporary ==
  /\ pc = "cleanup"
  /\ tmp' = None /\ Goto("failed") /\ UNCHANGED <<vault, seen, did, lock>>

WriteStep == ReadBaseline \/ MakeParents \/ MakeTemporary \/ CheckTarget \/ RenameOver
               \/ LinkNew \/ UnlinkTemporary \/ Confirm \/ RemoveTemporary

(***************************************************************************)
(* moveCortexSubtree: a second name for the note, an empty directory that  *)
(* reserves the companion's new name, the companion renamed over it, and   *)
(* the removal of the old name.                                            *)
(***************************************************************************)
TakeLock ==
  /\ pc = "lock"
  /\ IF lock = "free" THEN lock' = "held" /\ Goto("source")
     ELSE UNCHANGED lock /\ Goto("failed")
  /\ UNCHANGED <<vault, tmp, seen, did>>

TargetsFree == vault.file[destination] = None /\ NoDirectory(vault, destination)

ReadSource ==
  /\ pc = "source"
  /\ IF TextIs(vault, path, Old(path)) /\ TargetsFree
     THEN seen' = [file |-> FileAt(vault, path), dir |-> vault.dir[source]] /\ Goto("recheck")
     ELSE Throw /\ UNCHANGED seen
  /\ UNCHANGED <<vault, tmp, did, lock>>

CompanionSeen == vault.dir[source] = seen.dir

RecheckSource ==
  /\ pc = "recheck"
  /\ IF Unchanged(path) /\ (seen.dir # None => CompanionSeen) /\ TargetsFree
     THEN Goto("link") ELSE Throw
  /\ Same

\* link(2) gives the new name to whatever file has the old one by now.
LinkNote ==
  /\ pc = "link"
  /\ IF FileAt(vault, path) # None /\ vault.file[destination] = None
     THEN /\ vault' = PutAt(vault, Note(destination), FileAt(vault, path))
          /\ did' = [did EXCEPT !.linked = TRUE] /\ Goto("reserve")
     ELSE Throw /\ UNCHANGED <<vault, did>>
  /\ UNCHANGED <<tmp, seen, lock>>

ReserveCompanionLast ==
  /\ pc = "reserve"
  /\ Goto("unlink") /\ UNCHANGED <<vault, tmp, seen, did, lock>>

ReserveCompanion ==
  /\ pc = "reserve"
  /\ IF ~Unchanged(Note(destination)) \/ ~CompanionSeen \/ ~NoDirectory(vault, destination)
     THEN Throw /\ UNCHANGED <<vault, did>>
     ELSE IF seen.dir = None THEN Goto("final") /\ UNCHANGED <<vault, did>>
     ELSE /\ \E d \in Fresh(vault, {}) :
               /\ vault' = PutDirectory(Emptied(vault, d), destination, d)
               /\ did' = [did EXCEPT !.resv = d]
          /\ Goto("shift")
  /\ UNCHANGED <<tmp, seen, lock>>

Reserved(p) == vault.dir[p] = did.resv /\ EmptyDirectory(vault, did.resv)

MoveCompanion ==
  /\ pc = "shift"
  /\ IF CompanionSeen /\ Reserved(destination)
     THEN /\ vault' = MoveDirectory(vault, source, destination)
          /\ did' = [did EXCEPT !.moved = TRUE] /\ Goto("final")
     ELSE Throw /\ UNCHANGED <<vault, did>>
  /\ UNCHANGED <<tmp, seen, lock>>

CheckMoved ==
  /\ pc = "final"
  /\ IF /\ Unchanged(Note(destination)) /\ Unchanged(path)
        /\ vault.dir[destination] = seen.dir /\ NoDirectory(vault, source)
     THEN Goto("unlink") ELSE Throw
  /\ Same

UnlinkSource ==
  /\ pc = "unlink"
  /\ IF FileAt(vault, path) = None THEN Throw /\ UNCHANGED <<vault, did>>
     ELSE /\ vault' = RemoveAt(vault, path) /\ did' = [did EXCEPT !.unlinked = TRUE]
          /\ pc' = "release" /\ answer' = "ok"
  /\ UNCHANGED <<tmp, seen, lock>>

ReleaseLockForgotten ==
  /\ pc = "release"
  /\ Goto(answer) /\ UNCHANGED <<vault, tmp, seen, did, lock>>

ReleaseLock ==
  /\ pc = "release"
  /\ lock' = "free" /\ Goto(answer) /\ UNCHANGED <<vault, tmp, seen, did>>

(***************************************************************************)
(* rollbackCortexSubtreeMove: what was done is undone as far as what is on *)
(* the disk is still what the move put there.                              *)
(***************************************************************************)
RemoveReservation(p) ==
  vault' = IF did.resv # None /\ Reserved(p) THEN PutDirectory(vault, p, None) ELSE vault

UndoCompanion ==
  /\ pc = "undo"
  /\ IF ~did.moved THEN RemoveReservation(destination) /\ Goto("undo file") /\ UNCHANGED did
     ELSE IF vault.dir[destination] = seen.dir /\ NoDirectory(vault, source)
     THEN /\ \E d \in Fresh(vault, {}) :
               /\ vault' = PutDirectory(Emptied(vault, d), source, d)
               /\ did' = [did EXCEPT !.resv = d]
          /\ Goto("undo shift")
     ELSE Goto("undo file") /\ UNCHANGED <<vault, did>>
  /\ UNCHANGED <<tmp, seen, lock>>

UndoShift ==
  /\ pc = "undo shift"
  /\ IF vault.dir[destination] = seen.dir /\ Reserved(source)
     THEN vault' = MoveDirectory(vault, destination, source) /\ did' = [did EXCEPT !.moved = FALSE]
     ELSE RemoveReservation(source) /\ UNCHANGED did
  /\ Goto("undo file") /\ UNCHANGED <<tmp, seen, lock>>

UndoUnlinkSkipped ==
  /\ pc = "undo file"
  /\ Goto("undo target") /\ UNCHANGED <<vault, tmp, seen, did, lock>>

UndoUnlink ==
  /\ pc = "undo file"
  /\ IF did.unlinked /\ Unchanged(Note(destination)) /\ FileAt(vault, path) = None
     THEN vault' = PutAt(vault, path, seen.file) /\ did' = [did EXCEPT !.unlinked = FALSE]
     ELSE UNCHANGED <<vault, did>>
  /\ Goto("undo target") /\ UNCHANGED <<tmp, seen, lock>>

UndoTarget ==
  /\ pc = "undo target"
  /\ IF did.linked /\ ~did.moved /\ ~did.unlinked /\ Unchanged(Note(destination))
     THEN Goto("undo unlink")
     ELSE pc' = "release" /\ answer' = "failed"
  /\ Same

UnlinkTarget ==
  /\ pc = "undo unlink"
  /\ vault' = RemoveAt(vault, Note(destination))
  /\ pc' = "release" /\ answer' = "failed" /\ UNCHANGED <<tmp, seen, did, lock>>

MoveStep == TakeLock \/ ReadSource \/ RecheckSource \/ LinkNote \/ ReserveCompanion
              \/ MoveCompanion \/ CheckMoved \/ UnlinkSource \/ ReleaseLock
              \/ UndoCompanion \/ UndoShift \/ UndoUnlink \/ UndoTarget \/ UnlinkTarget

(***************************************************************************)
(* What goes wrong: a call fails and throws, or is given up by the         *)
(* rollback, which goes on to the next part; a temporary is cut short; a   *)
(* directory is made and its check fails, so that nobody remembers it; the *)
(* release of the lock fails before its directory is removed or, at the    *)
(* last directory sync, after that; the process dies.                      *)
(***************************************************************************)
Fault == faults < MaxFaults /\ faults' = faults + 1

Fails ==
  /\ pc \in Running /\ Fault
  /\ CASE pc = "cleanup" -> Goto("failed") /\ UNCHANGED <<vault, did, lock>>
       [] pc = "lock" -> /\ Goto("failed") /\ UNCHANGED <<vault, did>>
                         /\ lock' \in IF lock = "free" THEN {"free", "left"} ELSE {lock}
       [] pc = "undo" -> Goto("undo file") /\ UNCHANGED <<vault, did, lock>>
       [] pc = "undo shift" -> /\ RemoveReservation(source) /\ Goto("undo file")
                               /\ UNCHANGED <<did, lock>>
       [] pc = "undo file" -> Goto("undo target") /\ UNCHANGED <<vault, did, lock>>
       [] pc \in {"undo target", "undo unlink"} ->
            pc' = "release" /\ answer' = "failed" /\ UNCHANGED <<vault, did, lock>>
       [] pc = "release" /\ answer = "ok" /\ lock = "held" ->
            \/ Goto("undo") /\ UNCHANGED <<vault, did, lock>>
            \/ Goto("failed") /\ lock' \in {"left", "free"} /\ UNCHANGED <<vault, did>>
       [] pc = "release" /\ answer = "failed" ->
            Goto("failed") /\ lock' \in {"left", "free"} /\ UNCHANGED <<vault, did>>
       [] OTHER -> Throw /\ UNCHANGED <<vault, did, lock>>
  /\ UNCHANGED <<tmp, seen>>

CutTemporary ==
  /\ pc = "temporary" /\ Fault
  /\ \E i \in Fresh(vault, {}) : tmp' = i /\ vault' = Written(vault, i, Torn)
  /\ (Throw \/ Goto("down")) /\ UNCHANGED <<seen, did, lock>>

ForgetsDirectory ==
  /\ pc \in {"reserve", "undo"} /\ Fault
  /\ LET p == IF pc = "reserve" THEN destination ELSE source
     IN /\ (pc = "reserve" /\ seen.dir # None) \/ did.moved
        /\ NoDirectory(vault, p)
        /\ \E d \in Fresh(vault, {}) : vault' = PutDirectory(Emptied(vault, d), p, d)
  /\ Goto(IF pc = "reserve" THEN "undo" ELSE "undo file")
  /\ UNCHANGED <<tmp, seen, did, lock>>

Dies ==
  /\ pc \in Running /\ Fault
  /\ Goto("down") /\ lock' = (IF lock = "held" THEN "left" ELSE lock)
  /\ UNCHANGED <<vault, tmp, seen, did>>

(***************************************************************************)
(* The owner. If she acts after the writer's last comparison of a name, a  *)
(* text that then has no other name is exposed to the system call that     *)
(* follows.                                                                *)
(***************************************************************************)
Decided ==
  CASE pc = "swap" /\ kind = "write" -> {path}
    [] pc = "unlink" -> {path}
    [] pc = "undo unlink" -> {Note(destination)}
    [] OTHER -> {}

Exposed(v) ==
  UNION {TextsIn(v) \ TextsIn(RemoveAt(v, p)) : p \in {q \in Decided : FileAt(v, q) # None}}

OwnerDoes(v, p, typed) ==
  /\ vault' = v
  /\ owed' = {t \in owed : TextIs(vault, p, t) => TextIs(v, p, t)} \union typed
  /\ exposed' = exposed \union Exposed(v)
  /\ touched' = touched \union {p.page}
  /\ edits' = edits + 1

OwnerActs ==
  /\ edits < MaxEdits
  /\ \E p \in Paths :
       LET t == Mine(edits + 1)
       IN \/ \E v \in OwnerEdits(vault, p, t) \union OwnerSaves(vault, p, t, {tmp}) :
               OwnerDoes(v, p, {t})
          \/ \E v \in OwnerDeletes(vault, p) : OwnerDoes(v, p, {})
          \/ \E v \in OwnerMakesDirectory(vault, p.page, {tmp}) : p.inside /\ OwnerDoes(v, p, {})
  /\ UNCHANGED <<request, pc, answer, tmp, seen, did, lock, faults>>

(***************************************************************************)
(* The specification.                                                      *)
(***************************************************************************)
Init ==
  /\ request \in Requests
  /\ \E C \in SUBSET Companions :
       vault = InitialVault(Present, C) /\ owed = {Old(p) : p \in OwnPaths(Present, C)}
  /\ pc = "idle" /\ answer = "failed" /\ tmp = None
  /\ seen = [file |-> None, dir |-> None] /\ did = Nothing
  /\ lock \in {"free", "left"}
  /\ edits = 0 /\ faults = 0 /\ exposed = {} /\ touched = {}

Owner == UNCHANGED <<request, edits, owed, exposed, touched>>

Process == (Call \/ WriteStep \/ MoveStep) /\ Owner /\ UNCHANGED faults

Misfortune == (Fails \/ CutTemporary \/ ForgetsDirectory \/ Dies) /\ Owner

Next == Process \/ Misfortune \/ OwnerActs

Spec == Init /\ [][Next]_vars

-----------------------------------------------------------------------------
(***************************************************************************)
(* Properties.                                                             *)
(***************************************************************************)
Texts == {Old(p) : p \in Paths} \union {New(1), Torn} \union {Mine(n) : n \in 1..MaxEdits}

(* Type correctness; the lock is the call's only while a move runs.        *)
TypeOK ==
  /\ request \in Requests /\ vault \in Vaults(Texts)
  /\ pc \in Running \union Answers /\ answer \in {"ok", "failed"}
  /\ tmp \in Inode0 /\ seen \in [file: Inode0, dir: Inode0]
  /\ did \in [linked: BOOLEAN, resv: Inode0, moved: BOOLEAN, unlinked: BOOLEAN]
  /\ lock \in {"free", "held", "left"}
  /\ lock = "held" => kind = "move" /\ pc \in Running
  /\ edits \in 0..MaxEdits /\ faults \in 0..MaxFaults
  /\ owed \subseteq Texts /\ exposed \subseteq Texts /\ touched \subseteq Pages

(* No text of the owner is destroyed, by a call that succeeds, fails, is   *)
(* undone or dies, except the one a write was asked to replace and one     *)
(* whose last name she left exposed between the writer's last comparison   *)
(* and the system call after it.                                           *)
OwnTextsKept ==
  LET replaced == IF kind = "write" THEN {Old(path)} ELSE {}
  IN owed \ (exposed \union replaced) \subseteq TextsIn(vault)

(* An answer is the truth. "ok": the note holds the new text, or note and  *)
(* companion are under the new name alone. "failed", after one failure at  *)
(* most: a move left everything where it was, but for an empty directory,  *)
(* or is complete and its one failure was in the release of the lock, which*)
(* is left or, when only the last sync failed, free; a write or a creation,*)
(* which can fail after its rename or link, left the old state or the      *)
(* complete new text. Without a failure a move that fails has changed      *)
(* nothing, and nothing private is left behind.                            *)
OutcomeIsExact ==
  LET before == InitialVault(Present, {p \in Pages : Old(Within(p)) \in owed})
      moved == /\ TextIs(vault, Note(destination), Old(path)) /\ FileAt(vault, path) = None
               /\ vault.dir[destination] = before.dir[source] /\ NoDirectory(vault, source)
      unmoved == /\ vault.file = before.file /\ vault.dir[source] = before.dir[source]
                 /\ \/ vault.dir[destination] = before.dir[destination]
                    \/ EmptyDirectory(vault, vault.dir[destination])
  IN touched = {} =>
       /\ pc = "ok" => IF kind = "move" THEN moved ELSE TextIs(vault, path, New(1))
       /\ pc = "failed" /\ kind = "move" /\ faults <= 1 =>
            unmoved \/ (moved /\ faults = 1 /\ lock # "held")
       /\ pc = "failed" /\ kind # "move" =>
            TextIs(vault, path, New(1)) \/ FileAt(vault, path) = FileAt(before, path)
       /\ pc \in {"ok", "failed"} /\ faults = 0 => tmp = None /\ lock # "held"

(* While the owner keeps away, the page is complete under its old or its   *)
(* new name at every moment, so a crash never splits note and companion;   *)
(* but in the undoing of a move that had removed the old name, where the   *)
(* companion goes back before the note does.                               *)
OneNameIsComplete ==
  LET companion == IF Old(Within(source)) \in owed THEN {Old(Within(source))} ELSE {}
      complete(p) == /\ TextIs(vault, Note(p), Old(path))
                     /\ \A t \in companion : TextIs(vault, Within(p), t)
  IN touched = {} /\ kind = "move" /\ Old(path) \in owed =>
       complete(source) \/ complete(destination)
         \/ (did.unlinked /\ did.resv # None /\ ~did.moved)
=============================================================================
