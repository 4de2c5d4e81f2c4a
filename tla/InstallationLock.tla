---------------------------- MODULE InstallationLock ----------------------------
(***************************************************************************)
(* The installation lock of the worker, worker/src/runtime/lock.ts.        *)
(*                                                                         *)
(* Every worker process makes one call of withInstallationLock.  The lock  *)
(* is a file created with O_CREAT|O_EXCL at the canonical path; it is      *)
(* removed, on release, after a failed creation, or because its owner is   *)
(* dead and old, only through a quarantine: rename the canonical path to a *)
(* private name, check again what was renamed, and then either unlink it   *)
(* or link it back without overwriting.                                    *)
(*                                                                         *)
(* A process creates at most one lock file, so a file (its inode and its   *)
(* ownerToken) is named by the process that created it.  `written' says    *)
(* whether the metadata (pid, startedAt, ownerToken) reached the file.     *)
(* Every file-system call is a step of its own, and a process may crash    *)
(* between any two of them.  A call may also fail.  Before the removal the *)
(* caller then gives up; a failing call of the removal is swallowed by the *)
(* code, and `hampered' records it.                                        *)
(***************************************************************************)
EXTENDS Naturals, FiniteSets

CONSTANTS
    Processes,    \* the worker processes, each making one call
    None,         \* no file
    StaleAfter,   \* options.staleAfterMs, in ticks
    MaxClock,     \* bound on the clock
    MaxTroubled   \* bound on the processes that meet failing calls

ASSUME NoneAssumption == None \notin Processes
ASSUME StaleAfterAssumption == StaleAfter \in Nat /\ MaxClock \in Nat
ASSUME MaxTroubledAssumption == MaxTroubled \in Nat

VARIABLES
    clock,     \* what now() returns
    lock,      \* the file at the canonical lock path, or None
    quar,      \* quar[p]: the file at the quarantine path p has chosen, or None
    written,   \* the files whose metadata is complete
    place,     \* where each process is in withInstallationLock
    target,    \* target[p]: the file p expects to remove
    reason,    \* reason[p]: "stale", "release" or "create-failure"
    started,   \* started[p]: startedAt of p's metadata
    alive,     \* the processes that exist
    misfired,  \* history: processes whose rename moved another file than their target
    troubled,  \* history: processes that met a failing call
    hampered   \* history: processes whose removal met one

lockVars ==
    <<clock, lock, quar, written, place, target, reason, started, alive, misfired, troubled,
      hampered>>

File == Processes \cup {None}

\* "recreate" is the second createLock of withInstallationLock.
Places == {"idle", "create", "write", "verify", "inspect", "judge", "match", "rename",
           "rematch", "unlink", "restore", "dropq", "recreate", "critical",
           "failed", "done"}

\* Every file is absent or a whole record, and a removal carries the identity it has matched.
LockTypeOK ==
    /\ clock \in Nat
    /\ lock \in File
    /\ quar \in [Processes -> File]
    /\ written \subseteq Processes
    /\ place \in [Processes -> Places]
    /\ target \in [Processes -> File]
    /\ reason \in [Processes -> {"stale", "release", "create-failure"}]
    /\ started \in [Processes -> Nat]
    /\ alive \subseteq Processes
    /\ misfired \subseteq Processes
    /\ hampered \subseteq troubled /\ troubled \subseteq Processes

LockInit ==
    /\ clock = 0
    /\ lock = None
    /\ quar = [p \in Processes |-> None]
    /\ written = {}
    /\ place = [p \in Processes |-> "idle"]
    /\ target = [p \in Processes |-> None]
    /\ reason = [p \in Processes |-> "release"]
    /\ started = [p \in Processes |-> 0]
    /\ alive = Processes
    /\ misfired = {}
    /\ troubled = {}
    /\ hampered = {}

Goto(p, step) == place' = [place EXCEPT ![p] = step]

\* Every call of p succeeds; or one fails.
Fine == troubled' = troubled

Trouble(p) ==
    /\ p \in troubled \/ Cardinality(troubled) < MaxTroubled
    /\ troubled' = troubled \cup {p}

\* The path holding f has the identity and the ownerToken p expects.
Matches(p, f) == f = target[p] /\ f \in written

(***************************************************************************)
(* withInstallationLock: acquisition                                       *)
(***************************************************************************)

\* validateOptions stamps the metadata before the first createLock.
Start(p) ==
    /\ place[p] = "idle"
    /\ started' = [started EXCEPT ![p] = clock]
    /\ Goto(p, "create")
    /\ UNCHANGED <<clock, lock, quar, written, target, reason, alive, misfired, troubled, hampered>>

\* Mutant of CreateLock: opened without O_EXCL.
CreateLockShared(p) ==
    /\ place[p] \in {"create", "recreate"}
    /\ lock' = p
    /\ Goto(p, "write")
    /\ UNCHANGED <<clock, quar, written, target, reason, started, alive, misfired, troubled, hampered>>

\* open(lockPath, O_CREAT | O_EXCL).  On EEXIST the first attempt inspects the
\* existing lock; the second one gives up with "Active installation lock", and so does
\* either one after any other error.
CreateLock(p) ==
    /\ place[p] \in {"create", "recreate"}
    /\ \/ /\ lock = None
          /\ lock' = p
          /\ Goto(p, "write")
          /\ Fine
       \/ /\ lock # None
          /\ lock' = lock
          /\ Goto(p, IF place[p] = "create" THEN "inspect" ELSE "failed")
          /\ Fine
       \/ /\ lock' = lock
          /\ Goto(p, "failed")
          /\ Trouble(p)
    /\ UNCHANGED <<clock, quar, written, target, reason, started, alive, misfired, hampered>>

\* removeThroughQuarantine is entered to remove file f.
EnterRemoval(p, f, why) ==
    /\ target' = [target EXCEPT ![p] = f]
    /\ reason' = [reason EXCEPT ![p] = why]
    /\ Goto(p, "match")

\* fstat and writeFile of the metadata.  An error of writeFile leaves the file without
\* metadata and starts the create-failure removal; one of fstat leaves the file: its
\* identity is not known yet.
WriteMetadata(p) ==
    /\ place[p] = "write"
    /\ \/ /\ written' = written \cup {p}
          /\ Goto(p, "verify")
          /\ Fine
          /\ UNCHANGED <<target, reason>>
       \/ /\ EnterRemoval(p, p, "create-failure")
          /\ Trouble(p)
          /\ UNCHANGED written
       \/ /\ Goto(p, "failed")
          /\ Trouble(p)
          /\ UNCHANGED <<written, target, reason>>
    /\ UNCHANGED <<clock, lock, quar, started, alive, misfired, hampered>>

\* createLock syncs the file and its directory and checks that the canonical path still
\* holds its own file; it takes any error for a failed creation.
VerifyCreated(p) ==
    /\ place[p] = "verify"
    /\ \/ /\ lock = p
          /\ Goto(p, "critical")
          /\ Fine
          /\ UNCHANGED <<target, reason>>
       \/ /\ EnterRemoval(p, p, "create-failure")
          /\ IF lock = p THEN Trouble(p) ELSE Fine
    /\ UNCHANGED <<clock, lock, quar, written, started, alive, misfired, hampered>>

\* inspectExistingLock: a missing, empty or malformed lock counts as active, and so does
\* one that cannot be read, and one that is not older than staleAfterMs.
OldEnough(p) == lock \in written /\ started[p] > started[lock] + StaleAfter

InspectExistingLock(p) ==
    /\ place[p] = "inspect"
    /\ \/ /\ OldEnough(p)
          /\ target' = [target EXCEPT ![p] = lock]
          /\ Goto(p, "judge")
          /\ Fine
       \/ /\ target' = target
          /\ Goto(p, "failed")
          /\ IF OldEnough(p) THEN Trouble(p) ELSE Fine
    /\ UNCHANGED <<clock, lock, quar, written, reason, started, alive, misfired, hampered>>

\* Mutant of JudgeLiveness: every old lock is taken for a dead owner's.
JudgeOldAsDead(p) ==
    /\ place[p] = "judge"
    /\ EnterRemoval(p, target[p], "stale")
    /\ UNCHANGED <<clock, lock, quar, written, started, alive, misfired, troubled, hampered>>

\* isProcessAlive: false only for a process that no longer exists; a pid that was
\* reused, or that may not be signalled, counts as alive.
JudgeLiveness(p) ==
    /\ place[p] = "judge"
    /\ \/ /\ target[p] \notin alive
          /\ EnterRemoval(p, target[p], "stale")
       \/ /\ Goto(p, "failed")
          /\ UNCHANGED <<target, reason>>
    /\ UNCHANGED <<clock, lock, quar, written, started, alive, misfired, troubled, hampered>>

\* Mutant of FinishOperation: after a takeover the identity of the old lock is still used.
FinishOperationOfOld(p) ==
    /\ place[p] = "critical"
    /\ EnterRemoval(p, IF target[p] = None THEN p ELSE target[p], "release")
    /\ UNCHANGED <<clock, lock, quar, written, started, alive, misfired, troubled, hampered>>

\* The protected operation ends, with or without an error, and the finally block
\* starts the release.
FinishOperation(p) ==
    /\ place[p] = "critical"
    /\ EnterRemoval(p, p, "release")
    /\ UNCHANGED <<clock, lock, quar, written, started, alive, misfired, troubled, hampered>>

(***************************************************************************)
(* removeThroughQuarantine                                                 *)
(***************************************************************************)

\* What the caller does when the removal did not happen: the result of a release
\* is ignored, a stale removal reports an active lock.
NotRemoved(p) == Goto(p, IF reason[p] = "release" THEN "done" ELSE "failed")

\* The same in a removal.
RemovalFine == Fine /\ hampered' = hampered

Hampered(p) == Trouble(p) /\ hampered' = hampered \cup {p}

\* matchesLockExpectation on the canonical path, before the rename; it takes an error for
\* a file that does not match.
MatchCanonical(p) ==
    /\ place[p] = "match"
    /\ \/ /\ IF Matches(p, lock) THEN Goto(p, "rename") ELSE NotRemoved(p)
          /\ RemovalFine
       \/ NotRemoved(p) /\ Hampered(p)
    /\ UNCHANGED <<clock, lock, quar, written, target, reason, started, alive, misfired>>

\* rename(lockPath, quarantinePath): moves whatever is at the canonical path now.  If it
\* fails, or no quarantine path can be chosen, nothing was moved.
RenameToQuarantine(p) ==
    /\ place[p] = "rename"
    /\ \/ /\ lock # None
          /\ quar' = [quar EXCEPT ![p] = lock]
          /\ lock' = None
          /\ misfired' = IF lock = target[p] THEN misfired ELSE misfired \cup {p}
          /\ Goto(p, "rematch")
          /\ RemovalFine
       \/ /\ NotRemoved(p)
          /\ IF lock = None THEN RemovalFine ELSE Hampered(p)
          /\ UNCHANGED <<lock, quar, misfired>>
    /\ UNCHANGED <<clock, written, target, reason, started, alive>>

\* matchesLockExpectation on the quarantined file.
MatchQuarantine(p) ==
    /\ place[p] = "rematch"
    /\ \/ /\ Goto(p, IF Matches(p, quar[p]) THEN "unlink" ELSE "restore")
          /\ RemovalFine
       \/ Goto(p, "restore") /\ Hampered(p)
    /\ UNCHANGED <<clock, lock, quar, written, target, reason, started, alive, misfired>>

\* unlinkMatchingQuarantine: the quarantined file is unlinked only if it has the
\* target's identity.  A stale removal then creates the caller's own lock.  When a call
\* fails, before the unlink or the directory sync after it, the file is to be restored.
UnlinkQuarantine(p) ==
    /\ place[p] = "unlink"
    /\ quar[p] = target[p]
    /\ \/ /\ quar' = [quar EXCEPT ![p] = None]
          /\ Goto(p, IF reason[p] = "stale" THEN "recreate"
                     ELSE IF reason[p] = "release" THEN "done" ELSE "failed")
          /\ RemovalFine
       \/ /\ quar' \in {quar, [quar EXCEPT ![p] = None]}
          /\ Goto(p, "restore")
          /\ Hampered(p)
    /\ UNCHANGED <<clock, lock, written, target, reason, started, alive, misfired>>

\* Mutant of RestoreLink: a rename back, which overwrites a competitor.
RestoreRename(p) ==
    /\ place[p] = "restore"
    /\ lock' = quar[p]
    /\ Goto(p, "dropq")
    /\ UNCHANGED <<clock, quar, written, target, reason, started, alive, misfired, troubled, hampered>>

\* restoreQuarantineWithoutOverwrite: link fails when a competitor has created a
\* new canonical lock; the quarantined file is then retained for good, as it is when
\* another call fails before or after the link.  A file that is gone is not restored.
RestoreLink(p) ==
    /\ place[p] = "restore"
    /\ \/ /\ quar[p] # None /\ lock = None
          /\ lock' = quar[p]
          /\ \/ Goto(p, "dropq") /\ RemovalFine
             \/ NotRemoved(p) /\ Hampered(p)
       \/ /\ lock' = lock
          /\ NotRemoved(p)
          /\ IF quar[p] = None \/ lock # None THEN RemovalFine ELSE Hampered(p)
    /\ UNCHANGED <<clock, quar, written, target, reason, started, alive, misfired>>

\* The quarantine name is dropped only if the canonical path still has the file, and if
\* no call fails.
RestoreDrop(p) ==
    /\ place[p] = "dropq"
    /\ \/ /\ quar' = IF lock = quar[p] THEN [quar EXCEPT ![p] = None] ELSE quar
          /\ RemovalFine
       \/ quar' = quar /\ Hampered(p)
    /\ NotRemoved(p)
    /\ UNCHANGED <<clock, lock, written, target, reason, started, alive, misfired>>

(***************************************************************************)
(* Environment: a worker process dies between two steps; time passes.      *)
(***************************************************************************)
ProcessDies(p) ==
    /\ p \in alive
    /\ place[p] \notin {"idle", "failed", "done"}
    /\ alive' = alive \ {p}
    /\ UNCHANGED <<clock, lock, quar, written, place, target, reason, started, misfired, troubled, hampered>>

\* A process that has returned from the call exits.
Exit(p) ==
    /\ p \in alive
    /\ place[p] \in {"failed", "done"}
    /\ alive' = alive \ {p}
    /\ UNCHANGED <<clock, lock, quar, written, place, target, reason, started, misfired, troubled, hampered>>

Tick ==
    /\ clock < MaxClock
    /\ clock' = clock + 1
    /\ UNCHANGED <<lock, quar, written, place, target, reason, started, alive, misfired, troubled, hampered>>

Step(p) ==
    \/ Start(p)
    \/ CreateLock(p)
    \/ WriteMetadata(p)
    \/ VerifyCreated(p)
    \/ InspectExistingLock(p)
    \/ JudgeLiveness(p)
    \/ FinishOperation(p)
    \/ MatchCanonical(p)
    \/ RenameToQuarantine(p)
    \/ MatchQuarantine(p)
    \/ UnlinkQuarantine(p)
    \/ RestoreLink(p)
    \/ RestoreDrop(p)

LockNext ==
    \/ \E p \in Processes : (p \in alive /\ Step(p)) \/ ProcessDies(p) \/ Exit(p)
    \/ Tick

LockSpec == LockInit /\ [][LockNext]_lockVars

(***************************************************************************)
(* Properties                                                              *)
(***************************************************************************)

InCritical(p) == p \in alive /\ place[p] = "critical"

\* p owns a lock file it has not begun to give back.
Owns(p) == p \in alive /\ place[p] \in {"write", "verify", "critical"}

\* Where the file of p can be found.
Exists(f) == lock = f \/ \E q \in Processes : quar[q] = f

\* What lock.test.ts states as "allows only one real concurrent owner": the protected
\* operation of withInstallationLock runs in at most one process at a time.
MutualExclusion ==
    \A p, q \in Processes : InCritical(p) /\ InCritical(q) => p = q

\* As long as no rename of the quarantine protocol has moved another file than the one
\* its process validated, at most one process runs the protected operation: the window
\* between matchesLockExpectation and rename is the only hole in the exclusion.
ExclusionUnlessMisfired == misfired = {} => MutualExclusion

\* The lock file of a process that is still acquiring or holding the lock is never
\* destroyed: whatever takeovers and restores interleave, it stays at the canonical
\* path or in a quarantine.
OwnedLockSurvives == \A p \in Processes : Owns(p) => Exists(p)

\* A process that returns from withInstallationLock leaves no lock of its own behind, which
\* would keep everyone out until its pid is free: whatever takeovers and failures of
\* others happened meanwhile, only a file without metadata (matchesLockExpectation does
\* not take it for the process's own), one whose own removal met a failing call, which
\* the code swallows, or one that a misfired rename has moved stays.
ReturnedLeavesNoLock ==
    misfired = {} =>
        \A p \in written \ hampered : place[p] \in {"failed", "done"} => ~Exists(p)

\* A file leaves the file system only when its creator is dead, or is itself removing
\* it (release or failed creation).
OnlyOwnerOrDeadUnlinked ==
    [][\A f \in Processes :
         Exists(f) /\ ~Exists(f)' => f \notin alive \/ place[f] = "unlink"]_lockVars
=============================================================================
