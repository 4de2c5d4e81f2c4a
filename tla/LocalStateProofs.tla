--------------------------- MODULE LocalStateProofs ---------------------------
(***************************************************************************)
(* Proofs about what the worker keeps in its data directory: the lock that *)
(* admits one process at a time, the journal of the effects under way, and *)
(* the graph publication that state.json records behind a state fence. The *)
(* three are proved one after the other, each for every value of its own   *)
(* constants; no proof uses a fact of another.                             *)
(***************************************************************************)
EXTENDS InstallationLock, JournalStore, GraphPublish, FiniteSetTheorems, TLAPS

-----------------------------------------------------------------------------
(***************************************************************************)
(* Proofs about InstallationLock, for any set of processes, any staleness  *)
(* threshold and any clock bound.                                          *)
(*                                                                         *)
(* The invariants the runs check are not inductive.  What makes them so:   *)
(* a removal aims either at the remover's own file or at a file whose      *)
(* owner is dead (TargetInv), a process has nothing in quarantine before   *)
(* its rename (QuarantineInv), and, until a rename misfires, a live owner's *)
(* file is the canonical one (CanonicalInv).  OneNameInv and ReleaseInv     *)
(* follow a file from its metadata to its removal by its own process.      *)
(***************************************************************************)
Removing == {"match", "rename", "rematch", "unlink", "restore", "dropq"}
BeforeRename == {"idle", "create", "write", "verify", "inspect", "judge", "match",
                 "rename", "recreate", "critical"}

TargetInv ==
    \A p \in Processes :
        place[p] \in Removing =>
            IF reason[p] = "stale" THEN target[p] \notin alive ELSE target[p] = p

QuarantineInv == \A p \in Processes : place[p] \in BeforeRename => quar[p] = None

CanonicalInv == misfired = {} => \A p \in Processes : Owns(p) => lock = p

\* While nothing misfired, a quarantine holds what its process matched, only a process that
\* met a failing call restores, and the file of a process that does not fail itself has one
\* name: its own quarantine, or that of another one's removal after its death.
OneNameInv ==
    misfired = {} =>
        /\ \A q \in Processes :
              place[q] \in {"rename", "rematch", "unlink", "restore", "dropq"} => target[q] \in written
        /\ \A q \in Processes : place[q] \in {"restore", "dropq"} => q \in hampered
        /\ \A q \in Processes : place[q] \in {"rematch", "unlink"} => quar[q] = target[q]
        /\ \A q \in Processes : quar[q] # None => quar[q] = target[q] /\ quar[q] \in written
        /\ \A p, q \in Processes :
              quar[q] = p /\ q # p =>
                 p \notin alive /\ (p \in hampered \/ place[p] \notin {"failed", "done"})
        /\ \A p \in Processes : quar[p] = p /\ lock = p => p \in hampered \/ p \notin alive
        /\ \A p \in Processes :
              quar[p] = p /\ p \notin hampered => place[p] \in {"rematch", "unlink"}

\* A process with metadata on disk is past its takeover; its file is canonical until it has
\* renamed it, in its own quarantine then, and nowhere once the call has returned.
ReleaseInv ==
    misfired = {} =>
        \A p \in written :
            /\ place[p] \notin {"idle", "create", "write", "inspect", "judge", "recreate"}
            /\ place[p] \in Removing => reason[p] # "stale"
            /\ p \in alive /\ place[p] \in {"match", "rename"} => lock = p
            /\ place[p] \in {"failed", "done"} => p \in hampered \/ ~Exists(p)

LockIndInv ==
    /\ LockTypeOK
    /\ TargetInv
    /\ QuarantineInv
    /\ OwnedLockSurvives
    /\ CanonicalInv
    /\ OneNameInv
    /\ ReleaseInv

\* The initial state satisfies the inductive invariant: no process has a file yet.
LEMMA LockInitially == LockInit => LockIndInv
  BY NoneAssumption
     DEF LockInit, LockIndInv, LockTypeOK, TargetInv, QuarantineInv, OwnedLockSurvives, CanonicalInv,
         OneNameInv, ReleaseInv, Owns, Removing, File, Places, Exists

\* Every step keeps the state variables in their types.
LEMMA LockNextTyped == LockTypeOK /\ [LockNext]_lockVars => LockTypeOK'
<1> SUFFICES ASSUME LockTypeOK, [LockNext]_lockVars PROVE LockTypeOK'
  OBVIOUS
<1> USE NoneAssumption DEF LockTypeOK, File, Places, Goto, EnterRemoval, NotRemoved, Fine, RemovalFine, Trouble, Hampered
<1>1. ASSUME NEW p \in Processes, Start(p) PROVE LockTypeOK'
  BY <1>1 DEF Start
<1>2. ASSUME NEW p \in Processes, CreateLock(p) PROVE LockTypeOK'
  BY <1>2 DEF CreateLock
<1>3. ASSUME NEW p \in Processes, WriteMetadata(p) PROVE LockTypeOK'
  BY <1>3 DEF WriteMetadata
<1>4. ASSUME NEW p \in Processes, VerifyCreated(p) PROVE LockTypeOK'
  BY <1>4 DEF VerifyCreated
<1>5. ASSUME NEW p \in Processes, InspectExistingLock(p) PROVE LockTypeOK'
  BY <1>5 DEF InspectExistingLock
<1>6. ASSUME NEW p \in Processes, JudgeLiveness(p) PROVE LockTypeOK'
  BY <1>6 DEF JudgeLiveness
<1>7. ASSUME NEW p \in Processes, FinishOperation(p) PROVE LockTypeOK'
  BY <1>7 DEF FinishOperation
<1>8. ASSUME NEW p \in Processes, MatchCanonical(p) PROVE LockTypeOK'
  BY <1>8 DEF MatchCanonical
<1>9. ASSUME NEW p \in Processes, RenameToQuarantine(p) PROVE LockTypeOK'
  BY <1>9 DEF RenameToQuarantine
<1>10. ASSUME NEW p \in Processes, MatchQuarantine(p) PROVE LockTypeOK'
  BY <1>10 DEF MatchQuarantine
<1>11. ASSUME NEW p \in Processes, UnlinkQuarantine(p) PROVE LockTypeOK'
  BY <1>11 DEF UnlinkQuarantine
<1>12. ASSUME NEW p \in Processes, RestoreLink(p) PROVE LockTypeOK'
  BY <1>12 DEF RestoreLink
<1>13. ASSUME NEW p \in Processes, RestoreDrop(p) PROVE LockTypeOK'
  BY <1>13 DEF RestoreDrop
<1>14. ASSUME NEW p \in Processes, ProcessDies(p) \/ Exit(p) PROVE LockTypeOK'
  BY <1>14 DEF ProcessDies, Exit
<1>15. CASE Tick
  BY <1>15 DEF Tick
<1>16. CASE UNCHANGED lockVars
  BY <1>16 DEF lockVars
<1>17. QED
  BY <1>1, <1>2, <1>3, <1>4, <1>5, <1>6, <1>7, <1>8, <1>9, <1>10, <1>11, <1>12, <1>13,
     <1>14, <1>15, <1>16 DEF LockNext, Step

\* The lock variables stay in their types, for every instance.
THEOREM LockTypeCorrect == LockSpec => []LockTypeOK
<1>1. LockInit => LockTypeOK
  BY LockInitially DEF LockIndInv
<1>2. QED
  BY <1>1, LockNextTyped, PTL DEF LockSpec

\* A removal keeps aiming at a dead owner's file or at the remover's own.
LEMMA NextTargetInv == LockIndInv /\ [LockNext]_lockVars => TargetInv'
<1> SUFFICES ASSUME LockIndInv, [LockNext]_lockVars PROVE TargetInv'
  OBVIOUS
<1> USE NoneAssumption DEF LockIndInv, LockTypeOK, File, Places, Goto, EnterRemoval, NotRemoved, Fine, RemovalFine, Trouble,
           Hampered, TargetInv, Removing
<1>1. ASSUME NEW p \in Processes, p \in alive, Start(p) PROVE TargetInv'
  BY <1>1 DEF Start
<1>2. ASSUME NEW p \in Processes, p \in alive, CreateLock(p) PROVE TargetInv'
  BY <1>2 DEF CreateLock
<1>3. ASSUME NEW p \in Processes, p \in alive, WriteMetadata(p) PROVE TargetInv'
  BY <1>3 DEF WriteMetadata
<1>4. ASSUME NEW p \in Processes, p \in alive, VerifyCreated(p) PROVE TargetInv'
  BY <1>4 DEF VerifyCreated
<1>5. ASSUME NEW p \in Processes, p \in alive, InspectExistingLock(p) PROVE TargetInv'
  BY <1>5 DEF InspectExistingLock, OldEnough
<1>6. ASSUME NEW p \in Processes, p \in alive, JudgeLiveness(p) PROVE TargetInv'
  BY <1>6 DEF JudgeLiveness
<1>7. ASSUME NEW p \in Processes, p \in alive, FinishOperation(p) PROVE TargetInv'
  BY <1>7 DEF FinishOperation
<1>8. ASSUME NEW p \in Processes, p \in alive, MatchCanonical(p) PROVE TargetInv'
  BY <1>8 DEF MatchCanonical, Matches
<1>9. ASSUME NEW p \in Processes, p \in alive, RenameToQuarantine(p) PROVE TargetInv'
  BY <1>9 DEF RenameToQuarantine
<1>10. ASSUME NEW p \in Processes, p \in alive, MatchQuarantine(p) PROVE TargetInv'
  BY <1>10 DEF MatchQuarantine, Matches
<1>11. ASSUME NEW p \in Processes, p \in alive, UnlinkQuarantine(p) PROVE TargetInv'
  BY <1>11 DEF UnlinkQuarantine
<1>12. ASSUME NEW p \in Processes, p \in alive, RestoreLink(p) PROVE TargetInv'
  BY <1>12 DEF RestoreLink
<1>13. ASSUME NEW p \in Processes, p \in alive, RestoreDrop(p) PROVE TargetInv'
  BY <1>13 DEF RestoreDrop
<1>14. ASSUME NEW p \in Processes, ProcessDies(p) \/ Exit(p) PROVE TargetInv'
  BY <1>14 DEF ProcessDies, Exit
<1>15. CASE Tick
  BY <1>15 DEF Tick
<1>16. CASE UNCHANGED lockVars
  BY <1>16 DEF lockVars
<1>17. QED
  BY <1>1, <1>2, <1>3, <1>4, <1>5, <1>6, <1>7, <1>8, <1>9, <1>10, <1>11, <1>12, <1>13,
     <1>14, <1>15, <1>16 DEF LockNext, Step

\* A process reaches its rename with nothing in quarantine.
LEMMA NextQuarantineInv == LockIndInv /\ [LockNext]_lockVars => QuarantineInv'
<1> SUFFICES ASSUME LockIndInv, [LockNext]_lockVars PROVE QuarantineInv'
  OBVIOUS
<1> USE NoneAssumption DEF LockIndInv, LockTypeOK, File, Places, Goto, EnterRemoval, NotRemoved, Fine, RemovalFine, Trouble,
           Hampered, QuarantineInv, BeforeRename, Removing
<1>1. ASSUME NEW p \in Processes, p \in alive, Start(p) PROVE QuarantineInv'
  BY <1>1 DEF Start
<1>2. ASSUME NEW p \in Processes, p \in alive, CreateLock(p) PROVE QuarantineInv'
  BY <1>2 DEF CreateLock
<1>3. ASSUME NEW p \in Processes, p \in alive, WriteMetadata(p) PROVE QuarantineInv'
  BY <1>3 DEF WriteMetadata
<1>4. ASSUME NEW p \in Processes, p \in alive, VerifyCreated(p) PROVE QuarantineInv'
  BY <1>4 DEF VerifyCreated
<1>5. ASSUME NEW p \in Processes, p \in alive, InspectExistingLock(p) PROVE QuarantineInv'
  BY <1>5 DEF InspectExistingLock, OldEnough
<1>6. ASSUME NEW p \in Processes, p \in alive, JudgeLiveness(p) PROVE QuarantineInv'
  BY <1>6 DEF JudgeLiveness
<1>7. ASSUME NEW p \in Processes, p \in alive, FinishOperation(p) PROVE QuarantineInv'
  BY <1>7 DEF FinishOperation
<1>8. ASSUME NEW p \in Processes, p \in alive, MatchCanonical(p) PROVE QuarantineInv'
  BY <1>8 DEF MatchCanonical, Matches
<1>9. ASSUME NEW p \in Processes, p \in alive, RenameToQuarantine(p) PROVE QuarantineInv'
  BY <1>9 DEF RenameToQuarantine
<1>10. ASSUME NEW p \in Processes, p \in alive, MatchQuarantine(p) PROVE QuarantineInv'
  BY <1>10 DEF MatchQuarantine, Matches
<1>11. ASSUME NEW p \in Processes, p \in alive, UnlinkQuarantine(p) PROVE QuarantineInv'
  BY <1>11 DEF UnlinkQuarantine
<1>12. ASSUME NEW p \in Processes, p \in alive, RestoreLink(p) PROVE QuarantineInv'
  BY <1>12 DEF RestoreLink
<1>13. ASSUME NEW p \in Processes, p \in alive, RestoreDrop(p) PROVE QuarantineInv'
  BY <1>13 DEF RestoreDrop
<1>14. ASSUME NEW p \in Processes, ProcessDies(p) \/ Exit(p) PROVE QuarantineInv'
  BY <1>14 DEF ProcessDies, Exit
<1>15. CASE Tick
  BY <1>15 DEF Tick
<1>16. CASE UNCHANGED lockVars
  BY <1>16 DEF lockVars
<1>17. QED
  BY <1>1, <1>2, <1>3, <1>4, <1>5, <1>6, <1>7, <1>8, <1>9, <1>10, <1>11, <1>12, <1>13,
     <1>14, <1>15, <1>16 DEF LockNext, Step

\* No step makes the file of a live owner unreachable.
LEMMA NextOwnedLockSurvives == LockIndInv /\ [LockNext]_lockVars => OwnedLockSurvives'
<1> SUFFICES ASSUME LockIndInv, [LockNext]_lockVars PROVE OwnedLockSurvives'
  OBVIOUS
<1> USE NoneAssumption DEF LockIndInv, LockTypeOK, File, Places, Goto, EnterRemoval, NotRemoved, Fine, RemovalFine, Trouble,
           Hampered, OwnedLockSurvives, Owns, Exists, TargetInv, QuarantineInv, Removing, BeforeRename
<1>1. ASSUME NEW p \in Processes, p \in alive, Start(p) PROVE OwnedLockSurvives'
  BY <1>1 DEF Start
<1>2. ASSUME NEW p \in Processes, p \in alive, CreateLock(p) PROVE OwnedLockSurvives'
  BY <1>2 DEF CreateLock
<1>3. ASSUME NEW p \in Processes, p \in alive, WriteMetadata(p) PROVE OwnedLockSurvives'
  BY <1>3 DEF WriteMetadata
<1>4. ASSUME NEW p \in Processes, p \in alive, VerifyCreated(p) PROVE OwnedLockSurvives'
  BY <1>4 DEF VerifyCreated
<1>5. ASSUME NEW p \in Processes, p \in alive, InspectExistingLock(p) PROVE OwnedLockSurvives'
  BY <1>5 DEF InspectExistingLock, OldEnough
<1>6. ASSUME NEW p \in Processes, p \in alive, JudgeLiveness(p) PROVE OwnedLockSurvives'
  BY <1>6 DEF JudgeLiveness
<1>7. ASSUME NEW p \in Processes, p \in alive, FinishOperation(p) PROVE OwnedLockSurvives'
  BY <1>7 DEF FinishOperation
<1>8. ASSUME NEW p \in Processes, p \in alive, MatchCanonical(p) PROVE OwnedLockSurvives'
  BY <1>8 DEF MatchCanonical, Matches
<1>9. ASSUME NEW p \in Processes, p \in alive, RenameToQuarantine(p) PROVE OwnedLockSurvives'
  BY <1>9 DEF RenameToQuarantine
<1>10. ASSUME NEW p \in Processes, p \in alive, MatchQuarantine(p) PROVE OwnedLockSurvives'
  BY <1>10 DEF MatchQuarantine, Matches
<1>11. ASSUME NEW p \in Processes, p \in alive, UnlinkQuarantine(p) PROVE OwnedLockSurvives'
  BY <1>11 DEF UnlinkQuarantine
<1>12. ASSUME NEW p \in Processes, p \in alive, RestoreLink(p) PROVE OwnedLockSurvives'
  BY <1>12 DEF RestoreLink
<1>13. ASSUME NEW p \in Processes, p \in alive, RestoreDrop(p) PROVE OwnedLockSurvives'
  BY <1>13 DEF RestoreDrop
<1>14. ASSUME NEW p \in Processes, ProcessDies(p) \/ Exit(p) PROVE OwnedLockSurvives'
  BY <1>14 DEF ProcessDies, Exit
<1>15. CASE Tick
  BY <1>15 DEF Tick
<1>16. CASE UNCHANGED lockVars
  BY <1>16 DEF lockVars
<1>17. QED
  BY <1>1, <1>2, <1>3, <1>4, <1>5, <1>6, <1>7, <1>8, <1>9, <1>10, <1>11, <1>12, <1>13,
     <1>14, <1>15, <1>16 DEF LockNext, Step

\* Without a misfired rename a live owner's file stays canonical.
LEMMA NextCanonicalInv == LockIndInv /\ [LockNext]_lockVars => CanonicalInv'
<1> SUFFICES ASSUME LockIndInv, [LockNext]_lockVars PROVE CanonicalInv'
  OBVIOUS
<1> USE NoneAssumption DEF LockIndInv, LockTypeOK, File, Places, Goto, EnterRemoval, NotRemoved, Fine, RemovalFine, Trouble,
           Hampered, CanonicalInv, Owns, TargetInv, Removing
<1>1. ASSUME NEW p \in Processes, p \in alive, Start(p) PROVE CanonicalInv'
  BY <1>1 DEF Start
<1>2. ASSUME NEW p \in Processes, p \in alive, CreateLock(p) PROVE CanonicalInv'
  BY <1>2 DEF CreateLock
<1>3. ASSUME NEW p \in Processes, p \in alive, WriteMetadata(p) PROVE CanonicalInv'
  BY <1>3 DEF WriteMetadata
<1>4. ASSUME NEW p \in Processes, p \in alive, VerifyCreated(p) PROVE CanonicalInv'
  BY <1>4 DEF VerifyCreated
<1>5. ASSUME NEW p \in Processes, p \in alive, InspectExistingLock(p) PROVE CanonicalInv'
  BY <1>5 DEF InspectExistingLock, OldEnough
<1>6. ASSUME NEW p \in Processes, p \in alive, JudgeLiveness(p) PROVE CanonicalInv'
  BY <1>6 DEF JudgeLiveness
<1>7. ASSUME NEW p \in Processes, p \in alive, FinishOperation(p) PROVE CanonicalInv'
  BY <1>7 DEF FinishOperation
<1>8. ASSUME NEW p \in Processes, p \in alive, MatchCanonical(p) PROVE CanonicalInv'
  BY <1>8 DEF MatchCanonical, Matches
<1>9. ASSUME NEW p \in Processes, p \in alive, RenameToQuarantine(p) PROVE CanonicalInv'
  BY <1>9 DEF RenameToQuarantine
<1>10. ASSUME NEW p \in Processes, p \in alive, MatchQuarantine(p) PROVE CanonicalInv'
  BY <1>10 DEF MatchQuarantine, Matches
<1>11. ASSUME NEW p \in Processes, p \in alive, UnlinkQuarantine(p) PROVE CanonicalInv'
  BY <1>11 DEF UnlinkQuarantine
<1>12. ASSUME NEW p \in Processes, p \in alive, RestoreLink(p) PROVE CanonicalInv'
  BY <1>12 DEF RestoreLink
<1>13. ASSUME NEW p \in Processes, p \in alive, RestoreDrop(p) PROVE CanonicalInv'
  BY <1>13 DEF RestoreDrop
<1>14. ASSUME NEW p \in Processes, ProcessDies(p) \/ Exit(p) PROVE CanonicalInv'
  BY <1>14 DEF ProcessDies, Exit
<1>15. CASE Tick
  BY <1>15 DEF Tick
<1>16. CASE UNCHANGED lockVars
  BY <1>16 DEF lockVars
<1>17. QED
  BY <1>1, <1>2, <1>3, <1>4, <1>5, <1>6, <1>7, <1>8, <1>9, <1>10, <1>11, <1>12, <1>13,
     <1>14, <1>15, <1>16 DEF LockNext, Step

\* Without a misfired rename every file keeps to one name, and what is quarantined is removed.
LEMMA NextOneNameInv == LockIndInv /\ [LockNext]_lockVars => OneNameInv'
<1> SUFFICES ASSUME LockIndInv, [LockNext]_lockVars PROVE OneNameInv'
  OBVIOUS
<1> USE NoneAssumption DEF LockIndInv, LockTypeOK, File, Places, Goto, EnterRemoval, NotRemoved, Fine, RemovalFine, Trouble,
           Hampered, OneNameInv, ReleaseInv, TargetInv, QuarantineInv, BeforeRename, Removing
<1>1. ASSUME NEW p \in Processes, p \in alive, Start(p) PROVE OneNameInv'
  BY <1>1 DEF Start
<1>2. ASSUME NEW p \in Processes, p \in alive, CreateLock(p) PROVE OneNameInv'
  BY <1>2 DEF CreateLock
<1>3. ASSUME NEW p \in Processes, p \in alive, WriteMetadata(p) PROVE OneNameInv'
  BY <1>3 DEF WriteMetadata
<1>4. ASSUME NEW p \in Processes, p \in alive, VerifyCreated(p) PROVE OneNameInv'
  BY <1>4 DEF VerifyCreated
<1>5. ASSUME NEW p \in Processes, p \in alive, InspectExistingLock(p) PROVE OneNameInv'
  BY <1>5 DEF InspectExistingLock, OldEnough
<1>6. ASSUME NEW p \in Processes, p \in alive, JudgeLiveness(p) PROVE OneNameInv'
  BY <1>6 DEF JudgeLiveness
<1>7. ASSUME NEW p \in Processes, p \in alive, FinishOperation(p) PROVE OneNameInv'
  BY <1>7 DEF FinishOperation
<1>8. ASSUME NEW p \in Processes, p \in alive, MatchCanonical(p) PROVE OneNameInv'
  BY <1>8 DEF MatchCanonical, Matches
<1>9. ASSUME NEW p \in Processes, p \in alive, RenameToQuarantine(p) PROVE OneNameInv'
  <2>1. CASE lock # None /\ quar' = [quar EXCEPT ![p] = lock]
    <3> SUFFICES ASSUME misfired' = {} PROVE OneNameInv'
      OBVIOUS
    <3>1. /\ place[p] = "rename" /\ misfired = {} /\ lock = target[p] /\ quar[p] = None
          /\ lock' = None /\ place' = [place EXCEPT ![p] = "rematch"] /\ hampered' = hampered
          /\ UNCHANGED <<written, target, reason, alive>>
      BY <1>9, <2>1 DEF RenameToQuarantine
    <3>2. target[p] \in written /\ (target[p] # p => target[p] \notin alive)
      BY <3>1
    <3>3. target[p] # p =>
            target[p] \in hampered \/ place[target[p]] \notin {"failed", "done"}
      BY <3>1, <3>2 DEF Exists
    <3> QED BY <2>1, <3>1, <3>2, <3>3
  <2>2. CASE ~(lock # None /\ quar' = [quar EXCEPT ![p] = lock])
    BY <1>9, <2>2 DEF RenameToQuarantine
  <2> QED BY <2>1, <2>2
<1>10. ASSUME NEW p \in Processes, p \in alive, MatchQuarantine(p) PROVE OneNameInv'
  BY <1>10 DEF MatchQuarantine, Matches
<1>11. ASSUME NEW p \in Processes, p \in alive, UnlinkQuarantine(p) PROVE OneNameInv'
  BY <1>11 DEF UnlinkQuarantine
<1>12. ASSUME NEW p \in Processes, p \in alive, RestoreLink(p) PROVE OneNameInv'
  BY <1>12 DEF RestoreLink
<1>13. ASSUME NEW p \in Processes, p \in alive, RestoreDrop(p) PROVE OneNameInv'
  BY <1>13 DEF RestoreDrop
<1>14. ASSUME NEW p \in Processes, ProcessDies(p) \/ Exit(p) PROVE OneNameInv'
  BY <1>14 DEF ProcessDies, Exit
<1>15. CASE Tick
  BY <1>15 DEF Tick
<1>16. CASE UNCHANGED lockVars
  BY <1>16 DEF lockVars
<1>17. QED
  BY <1>1, <1>2, <1>3, <1>4, <1>5, <1>6, <1>7, <1>8, <1>9, <1>10, <1>11, <1>12, <1>13,
     <1>14, <1>15, <1>16 DEF LockNext, Step

\* Without a misfired rename a process removes the file that carries its metadata itself.
LEMMA NextReleaseInv == LockIndInv /\ [LockNext]_lockVars => ReleaseInv'
<1> SUFFICES ASSUME LockIndInv, [LockNext]_lockVars PROVE ReleaseInv'
  OBVIOUS
<1> USE NoneAssumption DEF LockIndInv, LockTypeOK, File, Places, Goto, EnterRemoval, NotRemoved, Fine, RemovalFine, Trouble,
           Hampered, OneNameInv, ReleaseInv, TargetInv, QuarantineInv, CanonicalInv, BeforeRename, Removing, Owns, Exists
<1>1. ASSUME NEW p \in Processes, p \in alive, Start(p) PROVE ReleaseInv'
  BY <1>1 DEF Start
<1>2. ASSUME NEW p \in Processes, p \in alive, CreateLock(p) PROVE ReleaseInv'
  BY <1>2 DEF CreateLock
<1>3. ASSUME NEW p \in Processes, p \in alive, WriteMetadata(p) PROVE ReleaseInv'
  BY <1>3 DEF WriteMetadata
<1>4. ASSUME NEW p \in Processes, p \in alive, VerifyCreated(p) PROVE ReleaseInv'
  BY <1>4 DEF VerifyCreated
<1>5. ASSUME NEW p \in Processes, p \in alive, InspectExistingLock(p) PROVE ReleaseInv'
  BY <1>5 DEF InspectExistingLock, OldEnough
<1>6. ASSUME NEW p \in Processes, p \in alive, JudgeLiveness(p) PROVE ReleaseInv'
  BY <1>6 DEF JudgeLiveness
<1>7. ASSUME NEW p \in Processes, p \in alive, FinishOperation(p) PROVE ReleaseInv'
  BY <1>7 DEF FinishOperation
<1>8. ASSUME NEW p \in Processes, p \in alive, MatchCanonical(p) PROVE ReleaseInv'
  BY <1>8 DEF MatchCanonical, Matches
<1>9. ASSUME NEW p \in Processes, p \in alive, RenameToQuarantine(p) PROVE ReleaseInv'
  <2> SUFFICES ASSUME misfired' = {}, NEW q \in written
               PROVE  /\ place'[q] \notin {"idle", "create", "write", "inspect", "judge", "recreate"}
                      /\ place'[q] \in Removing => reason[q] # "stale"
                      /\ q \in alive /\ place'[q] \in {"match", "rename"} => lock' = q
                      /\ place'[q] \in {"failed", "done"} => q \in hampered' \/ ~Exists(q)'
    BY <1>9 DEF RenameToQuarantine
  <2>1. misfired = {} /\ place[p] = "rename" /\ q \in Processes
    BY <1>9 DEF RenameToQuarantine
  <2>2. CASE q = p
    <3>1. lock = p
      BY <1>9, <2>1, <2>2
    <3>2. place'[q] = "rematch" \/ (q \in hampered' /\ lock' = lock /\ reason[q] # "stale"
                                       /\ place'[q] \in {"failed", "done"})
      BY <1>9, <2>1, <2>2, <3>1 DEF RenameToQuarantine
    <3>3. QED
      BY <1>9, <2>1, <2>2, <3>2 DEF RenameToQuarantine
  <2>3. CASE q # p
    <3>1. place'[q] = place[q]
      BY <1>9, <2>3 DEF RenameToQuarantine
    <3>2. q \in alive => target[p] # q \/ reason[p] # "stale"
      BY <2>1
    <3>3. q \in alive /\ place[q] \in {"match", "rename"} => lock' = q
      BY <1>9, <2>1, <2>3, <3>2 DEF RenameToQuarantine
    <3>4. (~Exists(q) => ~Exists(q)') /\ (q \in hampered => q \in hampered')
      BY <1>9 DEF RenameToQuarantine
    <3>5. QED
      BY <2>1, <3>1, <3>3, <3>4
  <2>4. QED
    BY <2>2, <2>3
<1>10. ASSUME NEW p \in Processes, p \in alive, MatchQuarantine(p) PROVE ReleaseInv'
  BY <1>10 DEF MatchQuarantine, Matches
<1>11. ASSUME NEW p \in Processes, p \in alive, UnlinkQuarantine(p) PROVE ReleaseInv'
  BY <1>11 DEF UnlinkQuarantine
<1>12. ASSUME NEW p \in Processes, p \in alive, RestoreLink(p) PROVE ReleaseInv'
  BY <1>12 DEF RestoreLink
<1>13. ASSUME NEW p \in Processes, p \in alive, RestoreDrop(p) PROVE ReleaseInv'
  BY <1>13 DEF RestoreDrop
<1>14. ASSUME NEW p \in Processes, ProcessDies(p) \/ Exit(p) PROVE ReleaseInv'
  BY <1>14 DEF ProcessDies, Exit
<1>15. CASE Tick
  BY <1>15 DEF Tick
<1>16. CASE UNCHANGED lockVars
  BY <1>16 DEF lockVars
<1>17. QED
  BY <1>1, <1>2, <1>3, <1>4, <1>5, <1>6, <1>7, <1>8, <1>9, <1>10, <1>11, <1>12, <1>13,
     <1>14, <1>15, <1>16 DEF LockNext, Step

\* The inductive invariant holds in every reachable state.
LEMMA LockInductive == LockSpec => []LockIndInv
<1>1. LockIndInv /\ [LockNext]_lockVars => LockIndInv'
  BY LockNextTyped, NextTargetInv, NextQuarantineInv, NextOwnedLockSurvives, NextCanonicalInv,
     NextOneNameInv, NextReleaseInv DEF LockIndInv
<1>2. QED
  BY LockInitially, <1>1, PTL DEF LockSpec

\* No interleaving of takeovers, releases and restores destroys the lock file of a live
\* owner: removeThroughQuarantine unlinks only what it identified again in quarantine.
THEOREM LiveLockIsKept == LockSpec => []OwnedLockSurvives
<1>1. LockIndInv => OwnedLockSurvives
  BY DEF LockIndInv
<1>2. QED
  BY LockInductive, <1>1, PTL

\* Until a rename moves a file its process did not validate, withInstallationLock runs
\* its operation in at most one process.
THEOREM ExclusionHolds == LockSpec => []ExclusionUnlessMisfired
<1>1. LockIndInv => ExclusionUnlessMisfired
  BY NoneAssumption
     DEF LockIndInv, CanonicalInv, ExclusionUnlessMisfired, MutualExclusion, InCritical, Owns
<1>2. QED
  BY LockInductive, <1>1, PTL

\* Until a rename misfires, a process that has returned from withInstallationLock, and whose
\* own removal met no failing call, has left no lock file with its metadata, at the
\* canonical path or in a quarantine.
THEOREM NoLockIsLeft == LockSpec => []ReturnedLeavesNoLock
<1>1. LockIndInv => ReturnedLeavesNoLock
  BY DEF LockIndInv, ReleaseInv, ReturnedLeavesNoLock
<1>2. QED
  BY LockInductive, <1>1, PTL

\* A step that makes a file unreachable is the last step of its dead owner's takeover or
\* of the owner's own removal.
LEMMA UnlinkStep ==
  LockIndInv /\ [LockNext]_lockVars =>
    \A f \in Processes : Exists(f) /\ ~Exists(f)' => f \notin alive \/ place[f] = "unlink"
<1> SUFFICES ASSUME LockIndInv, [LockNext]_lockVars, NEW f \in Processes, Exists(f), ~Exists(f)'
             PROVE  f \notin alive \/ place[f] = "unlink"
  OBVIOUS
<1> USE NoneAssumption DEF LockIndInv, LockTypeOK, File, Exists
<1>1. PICK p \in Processes : p \in alive /\ Step(p)
  <2>1. ASSUME NEW p \in Processes, ProcessDies(p) \/ Exit(p) PROVE FALSE
    BY <2>1 DEF ProcessDies, Exit
  <2>2. ASSUME Tick \/ UNCHANGED lockVars PROVE FALSE
    BY <2>2 DEF Tick, lockVars
  <2>3. QED
    BY <2>1, <2>2 DEF LockNext
<1>2. CASE UnlinkQuarantine(p)
  <2>1. f = quar[p] /\ f = target[p] /\ place[p] = "unlink"
    BY <1>2 DEF UnlinkQuarantine
  <2>2. QED
    BY <2>1 DEF TargetInv, Removing
<1>3. CASE RenameToQuarantine(p)
  BY <1>3 DEF RenameToQuarantine, QuarantineInv, BeforeRename
<1>4. CASE RestoreLink(p) \/ RestoreDrop(p) \/ CreateLock(p)
  BY <1>4 DEF RestoreLink, RestoreDrop, CreateLock
<1>5. CASE \/ Start(p) \/ WriteMetadata(p) \/ VerifyCreated(p) \/ InspectExistingLock(p)
           \/ JudgeLiveness(p) \/ FinishOperation(p) \/ MatchCanonical(p) \/ MatchQuarantine(p)
  BY <1>5 DEF Start, WriteMetadata, VerifyCreated, InspectExistingLock, JudgeLiveness,
              FinishOperation, MatchCanonical, MatchQuarantine
<1>6. QED
  BY <1>1, <1>2, <1>3, <1>4, <1>5 DEF Step

\* A file is removed from the file system only for its dead owner, or by its owner.
THEOREM UnlinksAreJustified == LockSpec => OnlyOwnerOrDeadUnlinked
<1>1. LockIndInv /\ [LockNext]_lockVars =>
        [\A f \in Processes : Exists(f) /\ ~Exists(f)' => f \notin alive \/ place[f] = "unlink"]_lockVars
  BY UnlinkStep
<1>2. QED
  BY LockInductive, <1>1, PTL DEF LockSpec, OnlyOwnerOrDeadUnlinked

-----------------------------------------------------------------------------
(***************************************************************************)
(* Proofs about JournalStore, for any set of operation ids and any         *)
(* capacity: the rows keep their types, they are never inconsistent, and   *)
(* they implement the abstract journal, so that no crash, failed write or  *)
(* compaction loses an operation that was begun and not completed.         *)
(*                                                                         *)
(* The strengthening (PhaseInv) says how far the retirement in progress    *)
(* has come: which of its three rows are still there at each step.         *)
(***************************************************************************)
\* The rows of the journal without the limits on their number: the part of Consistent
\* that a crash could break.
RowsConsistent ==
    /\ \A r, s \in retirements : r = s
    /\ \A r \in retirements : r \in intents => r \in completions
    /\ Finished \subseteq Begun

Rotating == {"remove-intent", "remove-completion", "remove-retirement"}
Marking == {"marker-temp", "marker-link", "marker-unlink"}

PhaseInv ==
    /\ phase \in Rotating => retirements = {retiring}
    /\ phase = "remove-completion" => retiring \notin intents
    /\ phase = "remove-retirement" => retiring \notin intents /\ retiring \notin completions
    /\ phase \in {"marker-temp", "marker-link"} =>
         retirements = {} /\ retiring \in intents /\ retiring \in completions
    /\ phase = "marker-unlink" =>
         retirements = {retiring} /\ retiring \in intents /\ retiring \in completions
    /\ phase \in {"decide", "recheck", "row-temp", "row-link", "row-unlink"} => retirements = {}
    /\ phase \in {"row-temp", "row-link"} /\ kind = "complete" => opId \in Outstanding
    /\ phase \in {"row-temp", "row-link"} /\ kind = "begin" =>
         opId \notin intents /\ Cardinality(intents) < Max
    /\ phase \in Marking \cup {"recheck"} => kind = "begin" /\ opId \notin intents
    /\ phase = "recover" => ~rotated
    /\ phase \in Rotating /\ rotated => kind = "begin" /\ opId \notin intents

\* The operations the rows speak of never outnumber the capacity.
BoundInv ==
    /\ IsFiniteSet(intents \cup retirements)
    /\ Cardinality(intents \cup retirements) <= Max

JournalIndInv == JournalTypeOK /\ RowsConsistent /\ PhaseInv /\ BoundInv

\* An empty journal satisfies the invariant.
LEMMA JournalInitially == JournalInit => JournalIndInv
<1> SUFFICES ASSUME JournalInit PROVE JournalIndInv
  OBVIOUS
<1> USE DEF JournalInit
<1>1. JournalTypeOK
  BY DEF JournalTypeOK, Phases
<1>2. RowsConsistent /\ PhaseInv
  BY DEF RowsConsistent, PhaseInv, Finished, Begun, Outstanding, Rotating, Marking
<1>3. BoundInv
  BY FS_EmptySet, MaxAssumption DEF BoundInv
<1>4. QED
  BY <1>1, <1>2, <1>3 DEF JournalIndInv

\* Every step keeps the state variables in their types.
LEMMA JournalNextTyped == JournalIndInv /\ [JournalNext]_journalVars => JournalTypeOK'
<1> SUFFICES ASSUME JournalIndInv, [JournalNext]_journalVars PROVE JournalTypeOK'
  OBVIOUS
<1> USE NoIdAssumption DEF JournalIndInv, JournalTypeOK, PhaseInv, Phases, Stop, rows, Rotating, Marking, Begun, Finished
<1>1. ASSUME NEW what \in {"begin", "complete"}, NEW id \in Ids, Call(what, id) PROVE JournalTypeOK'
  BY <1>1 DEF Call
<1>2. CASE RecoverRetirements
  BY <1>2 DEF RecoverRetirements
<1>3. CASE RemoveExpectedIntent
  BY <1>3 DEF RemoveExpectedIntent
<1>4. CASE RemoveExpectedCompletion
  BY <1>4 DEF RemoveExpectedCompletion
<1>5. CASE RemoveExpectedRetirement
  BY <1>5 DEF RemoveExpectedRetirement
<1>6. CASE DecideBegin
  BY <1>6 DEF DecideBegin, Compactable
<1>7. CASE RecheckBegin
  BY <1>7 DEF RecheckBegin
<1>8. CASE DecideComplete
  BY <1>8 DEF DecideComplete
<1>9. CASE CreateTemporary
  BY <1>9 DEF CreateTemporary
<1>10. CASE LinkMarker
  BY <1>10 DEF LinkMarker
<1>11. CASE LinkRow
  BY <1>11 DEF LinkRow
<1>12. CASE UnlinkTemporary
  BY <1>12 DEF UnlinkTemporary
<1>13. CASE WriteFails
  BY <1>13 DEF WriteFails
<1>14. CASE Crash
  BY <1>14 DEF Crash
<1>15. CASE UNCHANGED journalVars
  BY <1>15 DEF journalVars
<1>16. QED
  BY <1>1, <1>2, <1>3, <1>4, <1>5, <1>6, <1>7, <1>8, <1>9, <1>10, <1>11, <1>12, <1>13,
     <1>14, <1>15 DEF JournalNext

\* No step leaves rows that readSnapshot takes for corrupt.
LEMMA NextRowsConsistent == JournalIndInv /\ [JournalNext]_journalVars => RowsConsistent'
<1> SUFFICES ASSUME JournalIndInv, [JournalNext]_journalVars PROVE RowsConsistent'
  OBVIOUS
<1> USE NoIdAssumption DEF JournalIndInv, JournalTypeOK, RowsConsistent, PhaseInv, Phases, Stop, rows, Rotating, Marking, Begun, Finished, Outstanding
<1>1. ASSUME NEW what \in {"begin", "complete"}, NEW id \in Ids, Call(what, id) PROVE RowsConsistent'
  BY <1>1 DEF Call
<1>2. CASE RecoverRetirements
  BY <1>2 DEF RecoverRetirements
<1>3. CASE RemoveExpectedIntent
  BY <1>3 DEF RemoveExpectedIntent
<1>4. CASE RemoveExpectedCompletion
  BY <1>4 DEF RemoveExpectedCompletion
<1>5. CASE RemoveExpectedRetirement
  BY <1>5 DEF RemoveExpectedRetirement
<1>6. CASE DecideBegin
  BY <1>6 DEF DecideBegin
<1>7. CASE RecheckBegin
  BY <1>7 DEF RecheckBegin
<1>8. CASE DecideComplete
  BY <1>8 DEF DecideComplete
<1>9. CASE CreateTemporary
  BY <1>9 DEF CreateTemporary
<1>10. CASE LinkMarker
  BY <1>10 DEF LinkMarker
<1>11. CASE LinkRow
  BY <1>11 DEF LinkRow
<1>12. CASE UnlinkTemporary
  BY <1>12 DEF UnlinkTemporary
<1>13. CASE WriteFails
  BY <1>13 DEF WriteFails
<1>14. CASE Crash
  BY <1>14 DEF Crash
<1>15. CASE UNCHANGED journalVars
  BY <1>15 DEF journalVars
<1>16. QED
  BY <1>1, <1>2, <1>3, <1>4, <1>5, <1>6, <1>7, <1>8, <1>9, <1>10, <1>11, <1>12, <1>13,
     <1>14, <1>15 DEF JournalNext

\* Each step of a mutation finds the rows its predecessors left.
LEMMA NextPhaseInv == JournalIndInv /\ [JournalNext]_journalVars => PhaseInv'
<1> SUFFICES ASSUME JournalIndInv, [JournalNext]_journalVars PROVE PhaseInv'
  OBVIOUS
<1> USE NoIdAssumption DEF JournalIndInv, JournalTypeOK, RowsConsistent, PhaseInv, Phases, Stop, rows, Rotating, Marking, Begun, Finished, Outstanding
<1>1. ASSUME NEW what \in {"begin", "complete"}, NEW id \in Ids, Call(what, id) PROVE PhaseInv'
  BY <1>1 DEF Call
<1>2. CASE RecoverRetirements
  BY <1>2 DEF RecoverRetirements
<1>3. CASE RemoveExpectedIntent
  BY <1>3 DEF RemoveExpectedIntent
<1>4. CASE RemoveExpectedCompletion
  BY <1>4 DEF RemoveExpectedCompletion
<1>5. CASE RemoveExpectedRetirement
  BY <1>5 DEF RemoveExpectedRetirement
<1>6. CASE DecideBegin
  <2>1. CASE phase' = "idle" \/ phase' = "marker-temp"
    BY <1>6, <2>1 DEF DecideBegin, Compactable
  <2>2. CASE phase' = "row-temp"
    <3>1. ~AtCapacity /\ ~MustRotate /\ opId \notin Begun
      BY <1>6, <2>2 DEF DecideBegin
    <3>2. Begun = intents /\ retirements = {}
      BY <1>6 DEF DecideBegin
    <3>3. IsFiniteSet(intents) /\ Cardinality(intents) \in Nat
      BY <3>2, FS_CardinalityType DEF BoundInv
    <3>4. Cardinality(intents) < Max
      <4>1. CASE Finished = {}
        BY <3>1, <3>2, <3>3, <4>1, MaxAssumption DEF AtCapacity
      <4>2. CASE Finished # {}
        BY <3>1, <3>2, <3>3, <4>2, MaxAssumption, ThresholdAssumption DEF MustRotate
      <4>3. QED
        BY <4>1, <4>2
    <3>5. QED
      BY <1>6, <2>2, <3>1, <3>2, <3>4 DEF DecideBegin
  <2>3. QED
    BY <1>6, <2>1, <2>2 DEF DecideBegin
<1>7. CASE RecheckBegin
  BY <1>7 DEF RecheckBegin
<1>8. CASE DecideComplete
  BY <1>8 DEF DecideComplete
<1>9. CASE CreateTemporary
  BY <1>9 DEF CreateTemporary
<1>10. CASE LinkMarker
  BY <1>10 DEF LinkMarker
<1>11. CASE LinkRow
  BY <1>11 DEF LinkRow
<1>12. CASE UnlinkTemporary
  BY <1>12 DEF UnlinkTemporary
<1>13. CASE WriteFails
  BY <1>13 DEF WriteFails
<1>14. CASE Crash
  BY <1>14 DEF Crash
<1>15. CASE UNCHANGED journalVars
  BY <1>15 DEF journalVars
<1>16. QED
  BY <1>1, <1>2, <1>3, <1>4, <1>5, <1>6, <1>7, <1>8, <1>9, <1>10, <1>11, <1>12, <1>13,
     <1>14, <1>15 DEF JournalNext

\* No step lets the rows speak of more operations than the capacity.
LEMMA NextBoundInv == JournalIndInv /\ [JournalNext]_journalVars => BoundInv'
<1> SUFFICES ASSUME JournalIndInv, [JournalNext]_journalVars PROVE BoundInv'
  OBVIOUS
<1> DEFINE named == intents \cup retirements
<1>1. IsFiniteSet(named) /\ Cardinality(named) \in Nat /\ Cardinality(named) <= Max
  BY FS_CardinalityType DEF JournalIndInv, BoundInv
<1>2. ASSUME named' \subseteq named PROVE BoundInv'
  <2>1. IsFiniteSet(named') /\ Cardinality(named') <= Cardinality(named)
    BY <1>1, <1>2, FS_Subset
  <2>2. Cardinality(named') \in Nat
    BY <2>1, FS_CardinalityType
  <2>3. QED
    BY <1>1, <2>1, <2>2, MaxAssumption DEF BoundInv
<1>3. CASE LinkRow /\ kind = "begin"
  <2>1. retirements = {} /\ Cardinality(intents) < Max /\ intents' = intents \cup {opId}
        /\ retirements' = retirements
    BY <1>3 DEF LinkRow, JournalIndInv, PhaseInv
  <2>2. named = intents /\ named' = intents \cup {opId}
    BY <2>1
  <2>3. IsFiniteSet(intents) /\ Cardinality(intents) \in Nat
    BY <1>1, <2>2
  <2>4. /\ IsFiniteSet(intents \cup {opId})
        /\ \/ Cardinality(intents \cup {opId}) = Cardinality(intents)
           \/ Cardinality(intents \cup {opId}) = Cardinality(intents) + 1
    BY <2>3, FS_AddElement
  <2>5. QED
    BY <2>1, <2>2, <2>3, <2>4, MaxAssumption DEF BoundInv
<1>4. CASE LinkRow /\ kind # "begin"
  BY <1>2, <1>4 DEF LinkRow
<1>5. CASE LinkMarker
  <2>1. named' \subseteq named
    BY <1>5 DEF LinkMarker, JournalIndInv, PhaseInv
  <2>2. QED
    BY <1>2, <2>1
<1>6. CASE RemoveExpectedIntent \/ RemoveExpectedCompletion \/ RemoveExpectedRetirement
  <2>1. named' \subseteq named
    BY <1>6 DEF RemoveExpectedIntent, RemoveExpectedCompletion, RemoveExpectedRetirement
  <2>2. QED
    BY <1>2, <2>1
<1>7. ASSUME UNCHANGED rows PROVE BoundInv'
  <2>1. named' = named
    BY <1>7 DEF rows
  <2>2. QED
    BY <1>2, <2>1
<1>8. QED
  BY <1>3, <1>4, <1>5, <1>6, <1>7
     DEF JournalNext, journalVars, rows, Call, RecoverRetirements, DecideBegin, RecheckBegin, DecideComplete,
         CreateTemporary, UnlinkTemporary, WriteFails, Crash

\* The inductive invariant holds in every reachable state.
LEMMA JournalInductive == JournalSpec => []JournalIndInv
<1>1. JournalIndInv /\ [JournalNext]_journalVars => JournalIndInv'
  BY JournalNextTyped, NextRowsConsistent, NextPhaseInv, NextBoundInv DEF JournalIndInv
<1>2. QED
  BY JournalInitially, <1>1, PTL DEF JournalSpec

\* The journal's variables stay in their types, for any ids and any capacity.
THEOREM JournalTypeCorrect == JournalSpec => []JournalTypeOK
<1>1. JournalIndInv => JournalTypeOK
  BY DEF JournalIndInv
<1>2. QED
  BY JournalInductive, <1>1, PTL

\* A crash or a failed write at any step of begin, complete or a compaction leaves rows
\* that readSnapshot accepts, as long as it leaves no temporary file.
THEOREM Recoverable == JournalSpec => []RecoverableUnlessTemporary
<1>1. ASSUME JournalIndInv, ~temporary PROVE Readable
  <2> DEFINE named == intents \cup retirements
  <2>1. IsFiniteSet(named) /\ Cardinality(named) \in Nat /\ Cardinality(named) <= Max
    BY <1>1, FS_CardinalityType DEF JournalIndInv, BoundInv
  <2>2. \A S \in SUBSET named :
          IsFiniteSet(S) /\ Cardinality(S) \in Nat /\ Cardinality(S) <= Max
    <3>1. SUFFICES ASSUME NEW S \in SUBSET named
                   PROVE  IsFiniteSet(S) /\ Cardinality(S) \in Nat /\ Cardinality(S) <= Max
      OBVIOUS
    <3>2. IsFiniteSet(S) /\ Cardinality(S) <= Cardinality(named)
      BY <2>1, FS_Subset
    <3>3. Cardinality(S) \in Nat
      BY <3>2, FS_CardinalityType
    <3>4. QED
      BY <2>1, <3>2, <3>3, MaxAssumption
  <2>3. intents \in SUBSET named /\ completions \in SUBSET named /\ Begun \in SUBSET named
    BY <1>1 DEF JournalIndInv, RowsConsistent, Finished, Begun
  <2>4. Cardinality(retirements) \in Nat /\ Cardinality(retirements) <= 1
    <3>1. CASE retirements = {}
      BY <3>1, FS_EmptySet
    <3>2. CASE retirements # {}
      <4>1. PICK r \in retirements : retirements = {r}
        BY <1>1, <3>2 DEF JournalIndInv, RowsConsistent
      <4>2. QED
        BY <4>1, FS_Singleton
    <3>3. QED
      BY <3>1, <3>2
  <2>5. Cardinality(intents) + Cardinality(completions) + Cardinality(retirements) <= 2 * Max + 1
    BY <2>2, <2>3, <2>4, MaxAssumption
  <2>6. Consistent
    BY <1>1, <2>2, <2>3, <2>4 DEF JournalIndInv, RowsConsistent, Consistent
  <2>7. QED
    BY <1>1, <2>5, <2>6 DEF Readable
<1>2. JournalIndInv => RecoverableUnlessTemporary
  BY <1>1 DEF RecoverableUnlessTemporary
<1>3. QED
  BY JournalInductive, <1>2, PTL

(***************************************************************************)
(* Refusals.  A compaction is begun only below the capacity of outstanding *)
(* operations and takes one begun row away, so there is room after it:     *)
(* the hard limit of the second reading refuses nothing.                   *)
(***************************************************************************)
RoomInv ==
    /\ phase \in Marking => rotated
    /\ phase \in {"marker-link", "marker-unlink"} \cup Rotating /\ rotated =>
         Cardinality(intents \ {retiring}) < Max
    /\ phase = "recheck" => Cardinality(intents) < Max

\* Without one of its rows a journal within its capacity is below it.
LEMMA RoomWithout ==
    ASSUME JournalIndInv, NEW id \in intents
    PROVE  Cardinality(intents \ {id}) < Max
<1>1. IsFiniteSet(intents)
  BY FS_Subset DEF JournalIndInv, BoundInv
<1>2. Cardinality(intents) \in Nat /\ Cardinality(intents) <= Max
  <2>1. Cardinality(intents) <= Cardinality(intents \cup retirements)
    BY FS_Subset DEF JournalIndInv, BoundInv
  <2>2. QED
    BY <1>1, <2>1, FS_CardinalityType, MaxAssumption DEF JournalIndInv, BoundInv
<1>3. Cardinality(intents \ {id}) = Cardinality(intents) - 1
  BY <1>1, FS_RemoveElement
<1>4. QED
  BY <1>2, <1>3, MaxAssumption

\* Every step finds the room its predecessors left.
LEMMA NextRoomInv == JournalIndInv /\ RoomInv /\ [JournalNext]_journalVars => RoomInv'
<1> SUFFICES ASSUME JournalIndInv, RoomInv, [JournalNext]_journalVars PROVE RoomInv'
  OBVIOUS
<1> USE DEF RoomInv, Stop, rows, Rotating, Marking
<1>1. ASSUME NEW what \in {"begin", "complete"}, NEW id \in Ids, Call(what, id) PROVE RoomInv'
  BY <1>1 DEF Call
<1>2. CASE RecoverRetirements
  BY <1>2 DEF RecoverRetirements, JournalIndInv, PhaseInv
<1>3. CASE RemoveExpectedIntent
  <2>1. intents' \ {retiring'} = intents \ {retiring}
    BY <1>3 DEF RemoveExpectedIntent
  <2>2. QED
    BY <1>3, <2>1 DEF RemoveExpectedIntent
<1>4. CASE RemoveExpectedCompletion
  BY <1>4 DEF RemoveExpectedCompletion
<1>5. CASE RemoveExpectedRetirement
  <2>1. intents \ {retiring} = intents
    BY <1>5 DEF RemoveExpectedRetirement, JournalIndInv, PhaseInv
  <2>2. QED
    BY <1>5, <2>1 DEF RemoveExpectedRetirement
<1>6. CASE DecideBegin \/ RecheckBegin \/ DecideComplete
  BY <1>6 DEF DecideBegin, RecheckBegin, DecideComplete
<1>7. CASE CreateTemporary
  <2>1. phase = "marker-temp" => Cardinality(intents \ {retiring}) < Max
    BY RoomWithout DEF JournalIndInv, PhaseInv
  <2>2. QED
    BY <1>7, <2>1 DEF CreateTemporary
<1>8. CASE LinkMarker
  BY <1>8 DEF LinkMarker
<1>9. CASE LinkRow
  BY <1>9 DEF LinkRow
<1>10. CASE UnlinkTemporary
  BY <1>10 DEF UnlinkTemporary
<1>11. CASE WriteFails \/ Crash
  BY <1>11 DEF WriteFails, Crash
<1>12. CASE UNCHANGED journalVars
  BY <1>12 DEF journalVars
<1>13. QED
  BY <1>1, <1>2, <1>3, <1>4, <1>5, <1>6, <1>7, <1>8, <1>9, <1>10, <1>11, <1>12 DEF JournalNext

\* begin is refused for lack of room only while MAX_JOURNAL_OPERATION_IDS operations are
\* outstanding, whatever was completed before and whatever interrupted the compaction.
THEOREM RefusedOnlyWhenFull == JournalSpec => NeverRefusedBelowCapacity
<1>1. JournalInit => RoomInv
  BY DEF JournalInit, RoomInv, Marking, Rotating
<1>2. JournalIndInv /\ RoomInv /\ [JournalNext]_journalVars
        => [refused # "capacity" /\ refused' = "capacity" => Cardinality(Outstanding) >= Max]_journalVars
  <2> SUFFICES ASSUME JournalIndInv, RoomInv, JournalNext, refused # "capacity", refused' = "capacity"
               PROVE  Cardinality(Outstanding) >= Max
    OBVIOUS
  <2>1. DecideBegin \/ RecheckBegin
    BY DEF JournalNext, Call, RecoverRetirements, RemoveExpectedIntent, RemoveExpectedCompletion,
           RemoveExpectedRetirement, DecideComplete, CreateTemporary, LinkMarker, LinkRow,
           UnlinkTemporary, WriteFails, Crash, Stop
  <2>2. CASE DecideBegin
    BY <2>2 DEF DecideBegin, Stop, AtCapacity
  <2>3. CASE RecheckBegin
    <3>1. Begun = intents /\ Cardinality(intents) < Max
      BY <2>3 DEF RecheckBegin, RoomInv, JournalIndInv, PhaseInv, Begun
    <3>2. Cardinality(intents) \in Nat
      <4>1. IsFiniteSet(intents)
        BY FS_Subset DEF JournalIndInv, BoundInv
      <4>2. QED
        BY <4>1, FS_CardinalityType
    <3>3. QED
      BY <2>3, <3>1, <3>2, MaxAssumption DEF RecheckBegin, Stop
  <2>4. QED
    BY <2>1, <2>2, <2>3
<1>3. QED
  BY JournalInductive, NextRoomInv, <1>1, <1>2, PTL DEF JournalSpec, NeverRefusedBelowCapacity

\* Only the link of an intent or completion row changes the set of outstanding operations.
LEMMA StepSimulation == JournalIndInv /\ [JournalNext]_journalVars => [Abstract!Next]_(Abstract!vars)
<1> SUFFICES ASSUME JournalIndInv, [JournalNext]_journalVars PROVE Abstract!Next \/ UNCHANGED <<Outstanding, kind, opId>>
  BY DEF Abstract!vars
<1> USE DEF Outstanding, Begun, Finished
<1>1. CASE LinkRow /\ kind = "begin"
  <2>1. /\ opId \in Ids /\ opId \notin intents /\ retirements = {} /\ retirements' = {}
        /\ Cardinality(intents) < Max
        /\ intents' = intents \cup {opId} /\ completions' = completions
    BY <1>1 DEF LinkRow, JournalIndInv, JournalTypeOK, PhaseInv
  <2>2. opId \notin completions
    BY <2>1 DEF JournalIndInv, RowsConsistent
  <2>3. Outstanding' = Outstanding \cup {opId} /\ opId \notin Outstanding
    BY <2>1, <2>2
  <2>4. IsFiniteSet(intents) /\ Cardinality(intents) \in Nat
    <3>1. intents \cup retirements = intents
      BY <2>1
    <3>2. QED
      BY <3>1, FS_CardinalityType DEF JournalIndInv, BoundInv
  <2>5. Outstanding \in SUBSET intents
    OBVIOUS
  <2>6. IsFiniteSet(Outstanding) /\ Cardinality(Outstanding) <= Cardinality(intents)
    BY <2>4, <2>5, FS_Subset
  <2>7. Cardinality(Outstanding) \in Nat
    BY <2>6, FS_CardinalityType
  <2>8. Cardinality(Outstanding) < Max
    BY <2>1, <2>4, <2>6, <2>7, MaxAssumption
  <2>9. Abstract!Cardinality(Outstanding) = Cardinality(Outstanding)
    BY DEF Abstract!Cardinality, Cardinality
  <2>10. Abstract!Begin
    BY <1>1, <2>3, <2>8, <2>9 DEF LinkRow, Abstract!Begin
  <2>11. QED
    BY <2>10 DEF Abstract!Next
<1>2. CASE LinkRow /\ kind # "begin"
  <2>1. /\ kind = "complete" /\ retirements' = retirements
        /\ completions' = completions \cup {opId} /\ intents' = intents
        /\ UNCHANGED <<kind, opId>>
    BY <1>2 DEF LinkRow, JournalIndInv, JournalTypeOK
  <2>2. opId \in Outstanding /\ retirements = {}
    BY <1>2, <2>1 DEF LinkRow, JournalIndInv, PhaseInv
  <2>3. Outstanding' = Outstanding \ {opId}
    BY <2>1, <2>2
  <2>4. QED
    BY <2>1, <2>2, <2>3 DEF Abstract!Next, Abstract!Complete
<1>3. CASE LinkMarker
  BY <1>3 DEF LinkMarker, JournalIndInv, PhaseInv
<1>4. CASE RemoveExpectedIntent \/ RemoveExpectedCompletion \/ RemoveExpectedRetirement
  BY <1>4 DEF RemoveExpectedIntent, RemoveExpectedCompletion, RemoveExpectedRetirement,
              JournalIndInv, RowsConsistent, PhaseInv, Rotating
<1>5. ASSUME NEW what \in {"begin", "complete"}, NEW id \in Ids, Call(what, id)
      PROVE  Abstract!Next
  <2>1. Abstract!Call(what, id)
    BY <1>5 DEF Call, Abstract!Call, JournalIndInv, JournalTypeOK, rows
  <2>2. QED
    BY <2>1 DEF Abstract!Next
<1>6. ASSUME UNCHANGED rows, NEW why, Stop(why) PROVE Abstract!Next
  <2>1. Abstract!Return
    BY <1>6 DEF rows, Stop, Abstract!Return
  <2>2. QED
    BY <2>1 DEF Abstract!Next
<1>7. CASE UNCHANGED rows /\ UNCHANGED <<kind, opId>>
  BY <1>7 DEF rows
<1>8. QED
  BY <1>1, <1>2, <1>3, <1>4, <1>5, <1>6, <1>7
     DEF JournalNext, journalVars, rows, RecoverRetirements, DecideBegin, RecheckBegin, DecideComplete,
         CreateTemporary, UnlinkTemporary, WriteFails, Crash

\* The file rows implement the durable set of begun and not completed operations: no crash,
\* failed write or compaction forgets an outstanding operation or revives a completed one.
THEOREM RefinesJournal == JournalSpec => ImplementsJournal
<1>1. JournalInit => Abstract!Init
  BY DEF JournalInit, Abstract!Init, Outstanding, Begun, Finished
<1>2. QED
  BY JournalInductive, <1>1, StepSimulation, PTL DEF JournalSpec, ImplementsJournal, Abstract!Spec

-----------------------------------------------------------------------------
(***************************************************************************)
(* What the relay serves is what state.json records or the next            *)
(* publication, for any projections and any bounds.  RelayHoldsRecordedOr- *)
(* Next is not inductive: an upload in flight, a stray or a graph state    *)
(* about to be saved could break it.  IndInv says what each of them holds. *)
(***************************************************************************)
\* A stray carries a sequence the worker has used or is about to use again.
StraysAreOld == \A envelope \in strays : envelope.sequence <= known.sequence + 1

\* What a run sends is the next sequence; it is stored once it is acknowledged.
UploadIsNext == pc = "upload" => /\ graph.sequence = known.sequence + 1
                                 /\ answer = "created" => stored = graph

\* What a run saves is what is recorded already, or what the relay holds.
SavedIsServed ==
    pc \in {"finish", "save"} =>
        graph = known \/ (graph.sequence = known.sequence + 1 /\ stored = graph)

IndInv == TypeOK /\ RelayHoldsRecordedOrNext /\ StraysAreOld /\ UploadIsNext /\ SavedIsServed

-----------------------------------------------------------------------------
LEMMA InitTyped == Init => TypeOK
<1> SUFFICES ASSUME Init PROVE TypeOK
  OBVIOUS
<1>1. Unpublished \in Publications
  BY DEF Unpublished, Publications
<1>2. 0 \in 0..MaxTries /\ 0 \in 0..MaxChanges /\ 0 \in 0..MaxFaults
  BY BoundsAssumption
<1>3. known \in Publications /\ stored \in Publications /\ graph \in Publications
  BY <1>1 DEF Init
<1>4. tries \in 0..MaxTries /\ changes \in 0..MaxChanges /\ faults \in 0..MaxFaults
  BY <1>2 DEF Init
<1> QED BY <1>3, <1>4 DEF Init, TypeOK, Steps

\* The type invariant is inductive by itself.
LEMMA StepTyped == TypeOK /\ [Next]_vars => TypeOK'
<1> SUFFICES ASSUME TypeOK, [Next]_vars PROVE TypeOK'
  OBVIOUS
<1> USE BoundsAssumption DEF TypeOK, Steps, recorded, run, bounds
<1>1. ASSUME NEW p \in Projections, ChangeVault(p) PROVE TypeOK'
  BY <1>1 DEF ChangeVault
<1>2. ASSUME NEW busy \in BOOLEAN, StartRun(busy) PROVE TypeOK'
  BY <1>2 DEF StartRun
<1>3. ASSUME NEW complete \in BOOLEAN, Project(complete) PROVE TypeOK'
  BY <1>3 DEF Project
<1>4. CASE Publish
  <2>1. Envelope \in Publications
    BY DEF Envelope, Publications
  <2> QED BY <1>4, <2>1 DEF Publish
<1>5. CASE Store
  BY <1>5 DEF Store, StoreIfNewer
<1>6. ASSUME NEW envelope \in strays, StoreStray(envelope) PROVE TypeOK'
  BY <1>6 DEF StoreStray, StoreIfNewer
<1>7. CASE TakeAnswer
  BY <1>7 DEF TakeAnswer, Retain
<1>8. ASSUME NEW retryable \in BOOLEAN, AttemptFails(retryable) PROVE TypeOK'
  <2>1. faults' \in 0..MaxFaults /\ changes' \in 0..MaxChanges
    BY <1>8 DEF AttemptFails, Fault
  <2>2. strays' \subseteq Publications
    BY <1>8 DEF AttemptFails, Abandon
  <2>3. /\ pc' \in Steps /\ answer' \in {"none", "awaited", "created", "conflict"}
        /\ (answer' # "none" <=> pc' = "upload")
        /\ tries' \in 0..MaxTries /\ graph' \in Publications
    BY <1>8 DEF AttemptFails, CanRetry, Retain
  <2> QED BY <1>8, <2>1, <2>2, <2>3 DEF AttemptFails
<1>9. CASE FinishUnchanged
  BY <1>9 DEF FinishUnchanged
<1>10. CASE OpenFence
  BY <1>10 DEF OpenFence
<1>11. CASE SaveState
  BY <1>11 DEF SaveState
<1>12. CASE CompleteFence
  BY <1>12 DEF CompleteFence
<1>13. CASE Stops
  <2>1. faults' \in 0..MaxFaults /\ changes' \in 0..MaxChanges
    BY <1>13 DEF Stops, Fault
  <2>2. strays' \subseteq Publications
    BY <1>13 DEF Stops, Abandon
  <2> QED BY <1>13, <2>1, <2>2 DEF Stops
<1>14. CASE UNCHANGED vars
  BY <1>14 DEF vars
<1> QED
  BY <1>1, <1>2, <1>3, <1>4, <1>5, <1>6, <1>7, <1>8, <1>9, <1>10, <1>11, <1>12, <1>13, <1>14
     DEF Next, Owner, Run, Relay

\* The publication variables keep their types, for any projections and any bounds.
THEOREM GraphTypeCorrect == Spec => []TypeOK
<1>1. TypeOK /\ [Next]_vars => TypeOK'
  BY StepTyped
<1> QED BY InitTyped, <1>1, PTL DEF Spec

-----------------------------------------------------------------------------
LEMMA InitInv == Init => IndInv
BY InitTyped
   DEF Init, IndInv, Unpublished, RelayHoldsRecordedOrNext, StraysAreOld, UploadIsNext, SavedIsServed

\* A step that leaves both sides' publications, the strays and the graph state alone
\* keeps the invariant if it does not enter the upload or a saving step.
LEMMA StepInv == IndInv /\ [Next]_vars => IndInv'
<1> SUFFICES ASSUME IndInv, [Next]_vars PROVE IndInv'
  OBVIOUS
<1>0. TypeOK /\ TypeOK'
  BY StepTyped DEF IndInv
<1>n. /\ known.sequence \in Nat /\ stored.sequence \in Nat /\ graph.sequence \in Nat
      /\ \A envelope \in strays : envelope.sequence \in Nat
  BY <1>0 DEF TypeOK, Publications
<1> USE DEF IndInv, RelayHoldsRecordedOrNext, StraysAreOld, UploadIsNext, SavedIsServed,
            recorded, run, bounds
<1>1. ASSUME NEW p \in Projections, ChangeVault(p) PROVE IndInv'
  BY <1>0, <1>1 DEF ChangeVault
<1>2. ASSUME NEW busy \in BOOLEAN, StartRun(busy) PROVE IndInv'
  BY <1>0, <1>2 DEF StartRun
<1>3. ASSUME NEW complete \in BOOLEAN, Project(complete) PROVE IndInv'
  BY <1>0, <1>3 DEF Project
<1>4. CASE Publish
  <2>1. CASE projected = known.projection
    BY <1>0, <1>4, <2>1 DEF Publish
  <2>2. CASE projected # known.projection
    <3>1. graph'.sequence = known.sequence + 1 /\ pc' = "upload" /\ answer' = "awaited"
      BY <1>4, <2>2 DEF Publish, Envelope
    <3> QED BY <1>0, <1>4, <3>1 DEF Publish
  <2> QED BY <2>1, <2>2
<1>5. CASE Store
  <2>1. pc = "upload" /\ graph.sequence = known.sequence + 1
    BY <1>0, <1>5 DEF Store, TypeOK
  <2>2. CASE Newer(graph)
    BY <1>0, <1>n, <1>5, <2>1, <2>2 DEF Store, StoreIfNewer
  <2>3. CASE ~Newer(graph)
    BY <1>0, <1>n, <1>5, <2>1, <2>3 DEF Store, StoreIfNewer
  <2> QED BY <2>2, <2>3
<1>6. ASSUME NEW envelope \in strays, StoreStray(envelope) PROVE IndInv'
  \* A stray that is newer finds the relay at the recorded sequence, and then no run
  \* can hold an acknowledged upload.
  <2>1. CASE Newer(envelope)
    <3>1. envelope.sequence = known.sequence + 1 /\ stored.sequence = known.sequence
      BY <1>n, <2>1 DEF Newer
    <3>2. stored' = envelope /\ strays' \subseteq strays
      BY <1>6, <2>1 DEF StoreStray, StoreIfNewer
    <3> QED BY <1>0, <1>n, <1>6, <3>1, <3>2 DEF StoreStray
  <2>2. CASE ~Newer(envelope)
    BY <1>0, <1>6, <2>2 DEF StoreStray, StoreIfNewer
  <2> QED BY <2>1, <2>2
<1>7. CASE TakeAnswer
  BY <1>0, <1>7 DEF TakeAnswer, Retain
<1>8. ASSUME NEW retryable \in BOOLEAN, AttemptFails(retryable) PROVE IndInv'
  <2>1. pc = "upload" /\ graph.sequence = known.sequence + 1 /\ UNCHANGED <<known, stored>>
    BY <1>8 DEF AttemptFails
  <2>2. StraysAreOld'
    BY <1>n, <1>8, <2>1 DEF AttemptFails, Abandon
  <2>3. UploadIsNext' /\ SavedIsServed'
    BY <1>8, <2>1 DEF AttemptFails, Retain
  <2> QED BY <1>0, <2>1, <2>2, <2>3
<1>9. CASE FinishUnchanged
  BY <1>0, <1>9 DEF FinishUnchanged
<1>10. CASE OpenFence
  BY <1>0, <1>10 DEF OpenFence
<1>11. CASE SaveState
  <2>1. graph = known \/ (graph.sequence = known.sequence + 1 /\ stored = graph)
    BY <1>11 DEF SaveState
  <2> QED BY <1>0, <1>n, <1>11, <2>1 DEF SaveState
<1>12. CASE CompleteFence
  BY <1>0, <1>12 DEF CompleteFence
<1>13. CASE Stops
  <2>1. answer = "awaited" => graph.sequence = known.sequence + 1
    BY <1>0 DEF TypeOK
  <2>2. StraysAreOld'
    BY <1>n, <1>13, <2>1 DEF Stops, Abandon
  <2> QED BY <1>0, <1>13, <2>2 DEF Stops
<1>14. CASE UNCHANGED vars
  BY <1>0, <1>14 DEF vars
<1> QED
  BY <1>1, <1>2, <1>3, <1>4, <1>5, <1>6, <1>7, <1>8, <1>9, <1>10, <1>11, <1>12, <1>13, <1>14
     DEF Next, Owner, Run, Relay

\* However uploads are lost, retried or late and wherever runs stop, the relay serves
\* the publication the worker has recorded or the next one, and one projection under
\* each sequence (publisher.ts, bridge_store_graph_snapshot_if_newer).
THEOREM ServedIsRecordedOrNext == Spec => []RelayHoldsRecordedOrNext
<1>1. IndInv => RelayHoldsRecordedOrNext
  BY DEF IndInv
<1>2. IndInv /\ [Next]_vars => IndInv'
  BY StepInv
<1> QED BY InitInv, <1>1, <1>2, PTL DEF Spec
=============================================================================
