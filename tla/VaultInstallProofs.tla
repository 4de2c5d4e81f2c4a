------------------------- MODULE VaultInstallProofs -------------------------
(***************************************************************************)
(* The plugin's directory holds one whole release, and the settings        *)
(* Obsidian saved last are not lost, for any number of installations,      *)
(* artifacts, failures and saved settings, overlapping or not; and what an *)
(* installation answers is what it left. TargetIsWhole is not inductive: a *)
(* tree comes into place from a staging name or from a backup, so IndInv   *)
(* follows both, down to what a recovery may still find of an installation *)
(* that died while it emptied its backup. SettingsInv, on top of it,       *)
(* follows the settings from tree to tree.                                 *)
(***************************************************************************)
EXTENDS VaultInstall, FiniteSetTheorems, TLAPS

Early == {"idle", "recover", "drop", "recheck", "restore", "inspect", "create"}
Holding == {"preserve", "copy", "verify", "check", "move", "activate", "undo", "discard"}
Assembled == {"verify", "check", "move", "activate"}

\* A staging tree exists from its creation on, and is gone once it is activated.
StagingPhase ==
    \A i \in Installs : /\ pc[i] \in Early => staging[i] = NoTree
                        /\ pc[i] = "clean" => staging[i] = NoTree

\* A backup is made by the move.
BackupPhase ==
    \A i \in Installs : backup[i] # NoTree => pc[i] \in {"activate", "undo", "clean", "discard"} \cup Ended

\* Nobody but its installation removes a staging tree that is in use.
StagingHeld == \A i \in Installs : pc[i] \in Holding => staging[i] # NoTree

StagingWhole == \A i \in Installs : pc[i] \in Assembled => Whole(staging[i])

\* A backup loses files only after its successor was activated.
BrokenIsReplaced ==
    \A i \in Installs : backup[i] # NoTree /\ ~Whole(backup[i]) =>
        staging[i] = NoTree /\ pc[i] \in {"clean"} \cup Ended

\* While the directory is away, one of the backups is whole, and stays so.
SomeWhole ==
    \A j \in Installs : target = NoTree /\ backup[j] # NoTree =>
        \E k \in Installs : backup[k] # NoTree /\ Whole(backup[k]) /\ pc[k] # "clean"

\* j has ended and its backup, if it is still there, is whole.
Restorable(j) == pc[j] \in Ended /\ (backup[j] # NoTree => Whole(backup[j]))

\* What a recovery is about to restore is whole; while it still removes a staging tree,
\* that tree may turn out to be the one of the backup's own installation.
RescueIsWhole ==
    \A i \in Installs : \A j \in rescue[i] :
        /\ pc[i] = "drop" => orphan[i] = {j} \/ Restorable(j)
        /\ pc[i] \in {"recheck", "restore"} => Restorable(j)

Undisturbed == /\ StagingHeld /\ StagingWhole /\ BrokenIsReplaced
               /\ SomeWhole /\ RescueIsWhole /\ (target # NoTree => Whole(target))

IndInv == TypeOK /\ StagingPhase /\ BackupPhase /\ (~meddled => Undisturbed)

-----------------------------------------------------------------------------
\* What the operators on trees return.
LEMMA TreesOf ==
    /\ \A tree \in Trees : Hollow(tree) \in Trees /\ Seen(tree) \in Sight
    /\ \A i \in Installs : Fresh(i) \in Trees
    /\ Installed(Missing) \in Trees /\ Installed(0) \in Trees
<1>1. 0 \in Settings
  BY BoundsAssumption DEF Settings
<1>2. ASSUME NEW tree \in Trees PROVE Hollow(tree) \in Trees /\ Seen(tree) \in Sight
  <2>1. Hollow(tree) \in Trees
    BY <1>2 DEF Hollow, Trees
  <2>2. tree.id \in Releases /\ tree.data \in Settings \cup {Missing}
    BY <1>2 DEF Trees
  <2>3. tree # NoTree
    BY <1>2, NoTreeAssumption
  <2>4. Seen(tree) = [id |-> tree.id, data |-> tree.data]
    BY <2>3 DEF Seen
  <2> QED BY <2>1, <2>2, <2>4 DEF Sight
<1>3. ASSUME NEW i \in Installs PROVE Fresh(i) \in Trees
  BY DEF Fresh, Trees, Releases
<1>4. Installed(Missing) \in Trees /\ Installed(0) \in Trees
  BY <1>1 DEF Installed, Trees, Releases
<1> QED BY <1>2, <1>3, <1>4

\* Emptying or removing a tree keeps the others as they are.
LEMMA RemoveTyped ==
    ASSUME NEW trees_ \in [Installs -> Trees \cup {NoTree}], NEW j \in Installs, trees_[j] # NoTree,
           NEW after, after = [trees_ EXCEPT ![j] = IF trees_[j] = Hollow(trees_[j])
                                                      THEN NoTree ELSE Hollow(trees_[j])]
    PROVE  after \in [Installs -> Trees \cup {NoTree}]
<1>1. Hollow(trees_[j]) \in Trees
  BY TreesOf
<1> QED BY <1>1

LEMMA InitTyped == Init => TypeOK
<1> SUFFICES ASSUME Init PROVE TypeOK
  OBVIOUS
<1>1. 0 \in Settings /\ 0 \in 0..MaxEdits /\ 0 \in 0..MaxFaults
  BY BoundsAssumption DEF Settings
<1>2. target \in Trees \cup {NoTree}
  BY TreesOf DEF Init
<1>3. latest \in Settings \cup {Missing}
  BY <1>1 DEF Init
<1> QED BY <1>1, <1>2, <1>3 DEF Init, TypeOK, Steps

\* The type invariant is inductive by itself.
LEMMA StepTyped == TypeOK /\ [Next]_vars => TypeOK'
<1> SUFFICES ASSUME TypeOK, [Next]_vars PROVE TypeOK'
  OBVIOUS
<1> USE DEF trees, own, history, bounds, At, Go
<1>1. CASE SaveSettings
  <2>1. edits' \in Settings /\ edits' \in 0..MaxEdits
    BY <1>1, BoundsAssumption DEF SaveSettings, TypeOK, Settings
  <2>2. target' \in Trees
    BY <1>1, <2>1 DEF SaveSettings, TypeOK, Trees
  <2> QED BY <1>1, <2>1, <2>2 DEF SaveSettings, TypeOK
<1>2. ASSUME NEW i \in Installs, Start(i) PROVE TypeOK'
  BY <1>2 DEF Start, TypeOK, Steps
<1>3. ASSUME NEW i \in Installs, JudgeLeftovers(i) PROVE TypeOK'
  <2>1. pc' \in [Installs -> Steps]
    BY <1>3 DEF JudgeLeftovers, AfterOrphans, TypeOK, Steps, Ended
  <2>2. Present(staging) \subseteq Installs /\ Present(backup) \subseteq Installs
    BY DEF Present
  <2>3. orphan' \in [Installs -> SUBSET Installs] /\ rescue' \in [Installs -> SUBSET Installs]
    BY <1>3, <2>2 DEF JudgeLeftovers, TypeOK
  <2> QED BY <1>3, <2>1, <2>3 DEF JudgeLeftovers, TypeOK
<1>4. ASSUME NEW i \in Installs, DropOrphan(i) PROVE TypeOK'
  <2>1. PICK j \in orphan[i] :
           \/ Go(i, "failed") /\ UNCHANGED <<staging, meddled>>
           \/ /\ staging[j] # NoTree /\ Remove(staging, j)
              /\ Go(i, IF Removed(staging, j) THEN AfterOrphans(rescue[i]) ELSE "drop")
              /\ meddled' = (meddled \/ Running(j))
    BY <1>4 DEF DropOrphan
  <2>2. j \in Installs
    BY DEF TypeOK
  <2>3. staging' \in [Installs -> Trees \cup {NoTree}]
    BY <2>1, <2>2, RemoveTyped DEF Remove, TypeOK
  <2>4. pc' \in [Installs -> Steps] /\ meddled' \in BOOLEAN
    BY <2>1 DEF TypeOK, Steps, Ended, AfterOrphans, Running
  <2> QED BY <1>4, <2>3, <2>4 DEF DropOrphan, TypeOK
<1>5. ASSUME NEW i \in Installs, Recheck(i) PROVE TypeOK'
  BY <1>5 DEF Recheck, TypeOK, Steps, Ended
<1>6. ASSUME NEW i \in Installs, Restore(i) PROVE TypeOK'
  <2>1. meddled' \in BOOLEAN /\ pc' \in [Installs -> Steps]
    BY <1>6 DEF Restore, TypeOK, Steps, Ended, Running
  <2>2. /\ target' \in Trees \cup {NoTree}
        /\ backup' \in [Installs -> Trees \cup {NoTree}]
    BY <1>6 DEF Restore, TypeOK
  <2> QED BY <1>6, <2>1, <2>2 DEF Restore, TypeOK
<1>7. ASSUME NEW i \in Installs, InspectTarget(i) PROVE TypeOK'
  <2>1. Seen(target) \in Sight \cup {NoTree}
    BY TreesOf DEF TypeOK, Seen
  <2> QED BY <1>7, <2>1 DEF InspectTarget, TypeOK, Steps
<1>8. ASSUME NEW i \in Installs, CreateStaging(i) PROVE TypeOK'
  BY <1>8, TreesOf DEF CreateStaging, TypeOK, Steps
<1>9. ASSUME NEW i \in Installs, PreserveSettings(i) PROVE TypeOK'
  <2>1. CASE UNCHANGED staging
    BY <1>9, <2>1 DEF PreserveSettings, TypeOK, Steps
  <2>2. CASE target # NoTree /\ staging[i] # NoTree /\ staging' = [staging EXCEPT ![i].data = target.data]
    <3>1. target \in Trees /\ staging[i] \in Trees
      BY <2>2 DEF TypeOK
    <3>2. [staging[i] EXCEPT !.data = target.data] \in Trees
      BY <3>1 DEF Trees
    <3>3. staging' \in [Installs -> Trees \cup {NoTree}]
      BY <2>2, <3>2 DEF TypeOK
    <3> QED BY <1>9, <3>3 DEF PreserveSettings, TypeOK, Steps
  <2> QED BY <1>9, <2>1, <2>2 DEF PreserveSettings
<1>10. ASSUME NEW i \in Installs, NEW a \in Artifacts, CopyArtifact(i, a) PROVE TypeOK'
  <2>1. CASE UNCHANGED staging
    BY <1>10, <2>1 DEF CopyArtifact, TypeOK, Steps
  <2>2. CASE staging[i] # NoTree /\ staging' = [staging EXCEPT ![i].files[a] = i]
    <3>1. staging[i] \in Trees
      BY <2>2 DEF TypeOK
    <3>2. [staging[i] EXCEPT !.files[a] = i] \in Trees
      BY <3>1 DEF Trees, Releases
    <3>3. staging' \in [Installs -> Trees \cup {NoTree}]
      BY <2>2, <3>2 DEF TypeOK
    <3> QED BY <1>10, <3>3 DEF CopyArtifact, TypeOK, Steps
  <2> QED BY <1>10, <2>1, <2>2 DEF CopyArtifact
<1>11. ASSUME NEW i \in Installs, VerifyStaging(i) PROVE TypeOK'
  BY <1>11 DEF VerifyStaging, TypeOK, Steps
<1>12. ASSUME NEW i \in Installs, CheckTarget(i) PROVE TypeOK'
  BY <1>12 DEF CheckTarget, TypeOK, Steps
<1>13. ASSUME NEW i \in Installs, MoveToBackup(i) PROVE TypeOK'
  BY <1>13 DEF MoveToBackup, Unchanged, TypeOK, Steps
<1>14. ASSUME NEW i \in Installs, Activate(i) PROVE TypeOK'
  BY <1>14 DEF Activate, Escape, AfterActivation, TypeOK, Steps
<1>15. ASSUME NEW i \in Installs, UndoMove(i) PROVE TypeOK'
  BY <1>15 DEF UndoMove, TypeOK, Steps
<1>16. ASSUME NEW i \in Installs, CleanBackup(i) PROVE TypeOK'
  <2>1. backup' \in [Installs -> Trees \cup {NoTree}]
    BY <1>16, RemoveTyped DEF CleanBackup, Remove, TypeOK
  <2> QED BY <1>16, <2>1 DEF CleanBackup, TypeOK, Steps, Ended
<1>17. ASSUME NEW i \in Installs, Discard(i) PROVE TypeOK'
  <2>1. staging' \in [Installs -> Trees \cup {NoTree}]
    BY <1>17, RemoveTyped DEF Discard, Remove, TypeOK
  <2> QED BY <1>17, <2>1 DEF Discard, TypeOK, Steps, Ended
<1>18. ASSUME NEW i \in Installs, CallFails(i) PROVE TypeOK'
  <2>1. ErrorLeadsTo(i) \in Steps
    BY DEF ErrorLeadsTo, Escape, Steps, Ended
  <2>2. faults' \in 0..MaxFaults
    BY <1>18, BoundsAssumption DEF CallFails, Fault, TypeOK
  <2> QED BY <1>18, <2>1, <2>2 DEF CallFails, Fault, TypeOK
<1>19. ASSUME NEW i \in Installs, CreateFails(i) PROVE TypeOK'
  <2>1. faults' \in 0..MaxFaults
    BY <1>19, BoundsAssumption DEF CreateFails, Fault, TypeOK
  <2> QED BY <1>19, <2>1, TreesOf DEF CreateFails, Fault, TypeOK, Steps, Ended
<1>20. ASSUME NEW i \in Installs, Dies(i) PROVE TypeOK'
  <2>1. faults' \in 0..MaxFaults
    BY <1>20, BoundsAssumption DEF Dies, Fault, TypeOK
  <2> QED BY <1>20, <2>1 DEF Dies, Fault, TypeOK, Steps, Ended
<1>21. CASE UNCHANGED vars
  BY <1>21 DEF vars, TypeOK
<1>22. ASSUME NEW i \in Installs, SkipBackup(i) PROVE TypeOK'
  <2>1. faults' \in 0..MaxFaults
    BY <1>22, BoundsAssumption DEF SkipBackup, Fault, TypeOK
  <2> QED BY <1>22, <2>1 DEF SkipBackup, Fault, TypeOK, Steps, Ended
<1> QED
  BY <1>1, <1>2, <1>3, <1>4, <1>5, <1>6, <1>7, <1>8, <1>9, <1>10, <1>11, <1>12, <1>13, <1>14,
     <1>15, <1>16, <1>17, <1>18, <1>19, <1>20, <1>21, <1>22
  DEF Next, Recovery, Building, Replacement, Failure

\* The variables of the installation keep their types for any number of installations,
\* artifacts, failures and saved settings (install-vault.mjs).
THEOREM TypeCorrect == Spec => []TypeOK
BY InitTyped, StepTyped, PTL DEF Spec

-----------------------------------------------------------------------------
LEMMA InitInd == Init => IndInv
<1> SUFFICES ASSUME Init PROVE IndInv
  OBVIOUS
<1>1. TypeOK
  BY InitTyped
<1>2. StagingPhase /\ BackupPhase
  BY DEF Init, StagingPhase, BackupPhase
<1>3. target # NoTree => Whole(target)
  BY DEF Init, Installed, Whole, Releases
<1>4. StagingHeld /\ StagingWhole /\ BrokenIsReplaced /\ SomeWhole /\ RescueIsWhole
  BY DEF Init, StagingHeld, StagingWhole, BrokenIsReplaced, SomeWhole, RescueIsWhole,
         Holding, Assembled
<1> QED BY <1>1, <1>2, <1>3, <1>4 DEF IndInv, Undisturbed

\* Staging trees and backups come and go with the steps of their installation.
LEMMA PhasesKept == TypeOK /\ StagingPhase /\ BackupPhase /\ [Next]_vars
                      => StagingPhase' /\ BackupPhase'
<1> SUFFICES ASSUME TypeOK, StagingPhase, BackupPhase, [Next]_vars
             PROVE  StagingPhase' /\ BackupPhase'
  OBVIOUS
<1> USE DEF StagingPhase, BackupPhase, trees, own, history, bounds, At, Go, Early, Ended
<1>1. CASE SaveSettings \/ UNCHANGED vars
  BY <1>1 DEF SaveSettings, vars
<1>2. ASSUME NEW i \in Installs,
             Start(i) \/ JudgeLeftovers(i) \/ Recheck(i) \/ InspectTarget(i)
             \/ VerifyStaging(i) \/ CheckTarget(i) \/ CallFails(i) \/ SkipBackup(i) \/ Dies(i)
      PROVE  StagingPhase' /\ BackupPhase'
  <2>1. trees' = trees
    BY <1>2 DEF Start, JudgeLeftovers, Recheck, InspectTarget, VerifyStaging, CheckTarget,
                CallFails, SkipBackup, Dies
  <2>2. PICK step : /\ pc' = [pc EXCEPT ![i] = step]
                    /\ step \in Early \cup {"clean"} => pc[i] \in Early /\ step # "clean"
                    /\ pc[i] \in {"activate", "undo", "clean", "discard"} =>
                         step \in {"activate", "undo", "clean", "discard"} \cup Ended
                    /\ pc[i] \notin Ended
    BY <1>2 DEF Start, JudgeLeftovers, Recheck, InspectTarget, VerifyStaging, CheckTarget,
                CallFails, SkipBackup, Dies, Running, ErrorLeadsTo, Escape, AfterOrphans, TypeOK, Steps
  <2> QED BY <2>1, <2>2 DEF TypeOK
<1>3. ASSUME NEW i \in Installs, DropOrphan(i) PROVE StagingPhase' /\ BackupPhase'
  BY <1>3 DEF DropOrphan, Remove, AfterOrphans, TypeOK
<1>4. ASSUME NEW i \in Installs, Restore(i) PROVE StagingPhase' /\ BackupPhase'
  BY <1>4 DEF Restore, TypeOK
<1>5. ASSUME NEW i \in Installs, CreateStaging(i) \/ CreateFails(i)
      PROVE  StagingPhase' /\ BackupPhase'
  BY <1>5 DEF CreateStaging, CreateFails, TypeOK
<1>6. ASSUME NEW i \in Installs, PreserveSettings(i) PROVE StagingPhase' /\ BackupPhase'
  BY <1>6 DEF PreserveSettings, TypeOK
<1>7. ASSUME NEW i \in Installs, NEW a \in Artifacts, CopyArtifact(i, a)
      PROVE  StagingPhase' /\ BackupPhase'
  BY <1>7 DEF CopyArtifact, TypeOK
<1>8. ASSUME NEW i \in Installs, MoveToBackup(i) PROVE StagingPhase' /\ BackupPhase'
  BY <1>8 DEF MoveToBackup, TypeOK
<1>9. ASSUME NEW i \in Installs, Activate(i) PROVE StagingPhase' /\ BackupPhase'
  BY <1>9 DEF Activate, Escape, AfterActivation, TypeOK
<1>10. ASSUME NEW i \in Installs, UndoMove(i) PROVE StagingPhase' /\ BackupPhase'
  BY <1>10 DEF UndoMove, TypeOK
<1>11. ASSUME NEW i \in Installs, CleanBackup(i) PROVE StagingPhase' /\ BackupPhase'
  BY <1>11 DEF CleanBackup, Remove, TypeOK
<1>12. ASSUME NEW i \in Installs, Discard(i) PROVE StagingPhase' /\ BackupPhase'
  BY <1>12 DEF Discard, Remove, TypeOK
<1> QED
  BY <1>1, <1>2, <1>3, <1>4, <1>5, <1>6, <1>7, <1>8, <1>9, <1>10, <1>11, <1>12
  DEF Next, Recovery, Building, Replacement, Failure

-----------------------------------------------------------------------------
\* A step that moves installation i on and touches no tree keeps the trees as they are,
\* if i does not claim more of them than it had.
LEMMA QuietStep ==
    ASSUME TypeOK, Undisturbed, NEW i \in Installs, NEW step, trees' = trees,
           pc[i] \notin Ended, pc' = [pc EXCEPT ![i] = step],
           \A k \in Installs \ {i} : orphan'[k] = orphan[k] /\ rescue'[k] = rescue[k],
           step \in Holding => staging[i] # NoTree,
           step \in Assembled => Whole(staging[i]),
           pc[i] = "clean" => step \in Ended,
           step # "clean",
           \A j \in rescue'[i] : /\ step = "drop" => orphan'[i] = {j} \/ Restorable(j)
                                 /\ step \in {"recheck", "restore"} => Restorable(j)
    PROVE  Undisturbed'
<1>1. target' = target /\ staging' = staging /\ backup' = backup
  BY DEF trees
<1>2. pc'[i] = step /\ \A k \in Installs \ {i} : pc'[k] = pc[k]
  BY DEF TypeOK
<1>3. StagingHeld' /\ StagingWhole'
  BY <1>1, <1>2 DEF Undisturbed, StagingHeld, StagingWhole
<1>4. BrokenIsReplaced'
  BY <1>1, <1>2 DEF Undisturbed, BrokenIsReplaced
<1>5. SomeWhole'
  BY <1>1, <1>2 DEF Undisturbed, SomeWhole
<1>6. \A j \in Installs : Restorable(j) => Restorable(j)'
  BY <1>1, <1>2 DEF Restorable
<1>7. RescueIsWhole'
  <2> SUFFICES ASSUME NEW k \in Installs, NEW j \in rescue'[k]
               PROVE  /\ pc'[k] = "drop" => orphan'[k] = {j} \/ Restorable(j)'
                      /\ pc'[k] \in {"recheck", "restore"} => Restorable(j)'
    BY DEF RescueIsWhole
  <2>1. CASE k = i
    <3>1. Restorable(j) => Restorable(j)'
      BY <1>1, <1>2 DEF Restorable
    <3> QED BY <2>1, <3>1, <1>2
  <2>2. CASE k # i
    BY <2>2, <1>2, <1>6 DEF Undisturbed, RescueIsWhole, TypeOK
  <2> QED BY <2>1, <2>2
<1> QED BY <1>1, <1>3, <1>4, <1>5, <1>7 DEF Undisturbed

\* One tree of a kind, and which.
LEMMA OnlyOne ==
    ASSUME NEW S \in SUBSET Installs, S # {}, Cardinality(S) <= 1
    PROVE  \E j \in Installs : S = {j}
<1>1. IsFiniteSet(S)
  BY FS_Subset, InstallsAssumption
<1>2. Cardinality(S) \in Nat /\ Cardinality(S) # 0
  BY <1>1, FS_CardinalityType, FS_EmptySet
<1>3. Cardinality(S) = 1
  BY <1>2
<1> QED BY <1>1, <1>3, FS_Singleton

\* What recovery accepts as the remains of an interrupted installation can be restored.
LEMMA JudgedRightly ==
    ASSUME TypeOK, StagingPhase, BackupPhase, Undisturbed,
           Recoverable(Present(staging), Present(backup)), NEW j \in Present(backup)
    PROVE  Present(staging) = {j} \/ Restorable(j)
<1>1. target = NoTree /\ Cardinality(Present(backup)) <= 1 /\ Cardinality(Present(staging)) <= 1
  BY DEF Recoverable
<1>2. Present(backup) = {j}
  BY <1>1, OnlyOne DEF Present
<1>3. Whole(backup[j]) /\ pc[j] # "clean"
  BY <1>1, <1>2 DEF Undisturbed, SomeWhole, Present
<1>4. pc[j] \in {"activate", "undo", "discard"} \cup Ended
  BY <1>3 DEF BackupPhase, Present
<1>5. CASE pc[j] \in Ended
  BY <1>3, <1>5 DEF Restorable
<1>6. CASE pc[j] \notin Ended
  <2>1. staging[j] # NoTree
    BY <1>4, <1>6 DEF Undisturbed, StagingHeld, Holding, Present
  <2>2. j \in Present(staging)
    BY <2>1 DEF Present
  <2> QED BY <2>2, <1>1, OnlyOne DEF Present
<1> QED BY <1>5, <1>6

LEMMA UndisturbedKept == IndInv /\ [Next]_vars /\ ~meddled' => Undisturbed'
<1> SUFFICES ASSUME IndInv, [Next]_vars, ~meddled' PROVE Undisturbed'
  OBVIOUS
<1>t. TypeOK /\ StagingPhase /\ BackupPhase /\ TypeOK'
  BY StepTyped DEF IndInv
<1>m. ~meddled
  BY <1>t DEF Next, vars, SaveSettings, Start, Recovery, JudgeLeftovers, DropOrphan, Recheck, Restore,
     Building, InspectTarget, CreateStaging, PreserveSettings, CopyArtifact, VerifyStaging, Replacement,
     CheckTarget, MoveToBackup, Activate, UndoMove, CleanBackup, Discard, Failure, CallFails, CreateFails,
     SkipBackup, Dies, history, TypeOK
<1>u. Undisturbed
  BY <1>m DEF IndInv
<1>p. StagingHeld /\ StagingWhole /\ BrokenIsReplaced /\ SomeWhole /\ RescueIsWhole
      /\ (target # NoTree => Whole(target))
  BY <1>u DEF Undisturbed
<1>n. \A tree \in Trees : tree # NoTree /\ Hollow(tree) # NoTree
  BY TreesOf, NoTreeAssumption
<1>e. ASSUME NEW i \in Installs, NEW step \in Ended, pc[i] \notin Ended, trees' = trees,
             UNCHANGED <<orphan, rescue>>, Go(i, step)
      PROVE  Undisturbed'
  <2>1. step \notin Holding /\ step \notin Assembled /\ step \notin {"clean", "drop", "recheck", "restore"}
    BY <1>e DEF Ended, Holding, Assembled
  <2> QED BY <1>t, <1>u, <1>e, <2>1, QuietStep DEF Go
<1>1. CASE UNCHANGED vars
  BY <1>1, <1>p DEF vars, trees, own, Undisturbed, StagingHeld, StagingWhole, BrokenIsReplaced,
                    SomeWhole, RescueIsWhole, Restorable
<1>2. CASE SaveSettings
  <2>1. UNCHANGED <<staging, backup, pc, orphan, rescue>> /\ target # NoTree /\ target' # NoTree
    BY <1>2, <1>t, <1>n DEF SaveSettings, own, TypeOK, Trees
  <2>2. Whole(target')
    BY <1>2, <1>t, <1>p DEF SaveSettings, TypeOK, Trees, Whole
  <2> QED BY <1>p, <2>1, <2>2 DEF Undisturbed, StagingHeld, StagingWhole, BrokenIsReplaced,
                                  SomeWhole, RescueIsWhole, Restorable
<1>3. ASSUME NEW i \in Installs,
             Start(i) \/ Recheck(i) \/ InspectTarget(i) \/ VerifyStaging(i) \/ CheckTarget(i)
             \/ CallFails(i) \/ SkipBackup(i) \/ Dies(i)
      PROVE  Undisturbed'
  <2>1. UNCHANGED <<orphan, rescue>> /\ trees' = trees /\ pc[i] \notin Ended
    BY <1>3 DEF Start, Recheck, InspectTarget, VerifyStaging, CheckTarget, CallFails, SkipBackup, Dies, own, trees,
                At, Running, Ended
  <2>2. PICK step : /\ pc' = [pc EXCEPT ![i] = step]
                    /\ step \in Holding => pc[i] \in Holding
                    /\ step \in Assembled => pc[i] \in Assembled
                    /\ pc[i] = "clean" => step \in Ended
                    /\ step \notin {"clean", "drop"}
                    /\ step \in {"recheck", "restore"} => pc[i] \in {"recheck", "restore"}
    BY <1>3 DEF Start, Recheck, InspectTarget, VerifyStaging, CheckTarget, CallFails, SkipBackup, Dies, ErrorLeadsTo,
                Escape, At, Go, Running, Ended, Holding, Assembled
  <2>3. step \in Holding => staging[i] # NoTree
    BY <1>p, <2>2 DEF StagingHeld
  <2>4. step \in Assembled => Whole(staging[i])
    BY <1>p, <2>2 DEF StagingWhole
  <2>5. \A j \in rescue'[i] : step \in {"recheck", "restore"} => Restorable(j)
    BY <1>p, <2>1, <2>2 DEF RescueIsWhole
  <2> QED BY <1>t, <1>u, <2>1, <2>2, <2>3, <2>4, <2>5, QuietStep
<1>4. ASSUME NEW i \in Installs, JudgeLeftovers(i) PROVE Undisturbed'
  <2> DEFINE step == pc'[i]
  <2>1. pc[i] = "recover" /\ trees' = trees /\ pc' = [pc EXCEPT ![i] = step]
    BY <1>4, <1>t DEF JudgeLeftovers, At, Go, TypeOK, trees
  <2>2. step \in {"inspect", "refused", "drop", "recheck"}
    BY <1>4, <1>t DEF JudgeLeftovers, Go, AfterOrphans, TypeOK
  <2>3. /\ orphan'[i] = Present(staging) /\ rescue'[i] = Present(backup)
        /\ \A k \in Installs \ {i} : orphan'[k] = orphan[k] /\ rescue'[k] = rescue[k]
    BY <1>4, <1>t DEF JudgeLeftovers, TypeOK
  <2>4. /\ step \in {"drop", "recheck"} => Recoverable(Present(staging), Present(backup))
        /\ step = "recheck" => Present(staging) = {}
    BY <1>4, <1>t DEF JudgeLeftovers, Go, AfterOrphans, TypeOK
  <2>5. \A j \in rescue'[i] : /\ step = "drop" => orphan'[i] = {j} \/ Restorable(j)
                              /\ step \in {"recheck", "restore"} => Restorable(j)
    BY <1>t, <1>u, <2>2, <2>3, <2>4, JudgedRightly
  <2> HIDE DEF step
  <2> QED BY <1>t, <1>u, <2>1, <2>2, <2>3, <2>5, QuietStep DEF Ended, Holding, Assembled
<1>5. ASSUME NEW i \in Installs, DropOrphan(i) PROVE Undisturbed'
  <2>1. pc[i] = "drop" /\ UNCHANGED <<target, backup, orphan, rescue>>
    BY <1>5 DEF DropOrphan, At, own
  <2>2. CASE Go(i, "failed") /\ UNCHANGED staging
    BY <1>e, <2>1, <2>2 DEF trees, Ended
  <2>3. CASE ~(Go(i, "failed") /\ UNCHANGED staging)
    <3>1. PICK j \in orphan[i] :
             /\ staging[j] # NoTree /\ Remove(staging, j)
             /\ Go(i, IF Removed(staging, j) THEN AfterOrphans(rescue[i]) ELSE "drop")
             /\ ~Running(j)
      BY <1>5, <1>t, <2>3 DEF DropOrphan, TypeOK
    <3>2. j \in Installs /\ pc[j] \in Ended /\ j # i
      BY <1>t, <2>1, <3>1 DEF Running, StagingPhase, Early, TypeOK, Ended
    <3>3. /\ \A k \in Installs \ {j} : staging'[k] = staging[k]
          /\ pc'[i] \in {"drop", "inspect", "recheck"}
          /\ \A k \in Installs \ {i} : pc'[k] = pc[k]
      BY <1>t, <3>1 DEF Remove, Go, AfterOrphans, TypeOK
    <3>4. Whole(backup[j]) \/ backup[j] = NoTree
      BY <1>p, <3>1, <3>2 DEF BrokenIsReplaced
    <3>5. StagingHeld' /\ StagingWhole'
      BY <1>p, <3>2, <3>3 DEF StagingHeld, StagingWhole, Holding, Assembled, Ended
    <3>6. BrokenIsReplaced' /\ SomeWhole'
      BY <1>p, <2>1, <3>2, <3>3, <3>4 DEF BrokenIsReplaced, SomeWhole, Ended
    <3>7. \A k \in Installs : Restorable(k) => Restorable(k)'
      BY <2>1, <3>3 DEF Restorable, Ended
    <3>8. Restorable(j)'
      BY <2>1, <3>2, <3>3, <3>4 DEF Restorable
    <3>9. RescueIsWhole'
      BY <1>t, <1>p, <2>1, <3>1, <3>2, <3>3, <3>7, <3>8 DEF RescueIsWhole, TypeOK
    <3> QED BY <1>p, <2>1, <3>5, <3>6, <3>9 DEF Undisturbed
  <2> QED BY <2>2, <2>3
<1>6. ASSUME NEW i \in Installs, Restore(i) PROVE Undisturbed'
  <2>1. pc[i] = "restore" /\ UNCHANGED <<staging, orphan, rescue>>
    BY <1>6 DEF Restore, At, own
  <2>2. CASE Go(i, "failed") /\ UNCHANGED <<target, backup>>
    BY <1>e, <2>1, <2>2 DEF trees, Ended
  <2>3. CASE ~(Go(i, "failed") /\ UNCHANGED <<target, backup>>)
    <3>1. PICK j \in rescue[i] : /\ backup[j] # NoTree /\ target' = backup[j]
                                 /\ backup' = [backup EXCEPT ![j] = NoTree] /\ Go(i, "inspect")
      BY <1>6, <2>3 DEF Restore
    <3>2. j \in Installs /\ Whole(target') /\ target' # NoTree
      BY <1>t, <1>p, <2>1, <3>1 DEF RescueIsWhole, Restorable, TypeOK
    <3>3. /\ \A k \in Installs : backup'[k] # NoTree => backup'[k] = backup[k] /\ k # j
          /\ pc'[i] = "inspect" /\ \A k \in Installs \ {i} : pc'[k] = pc[k]
      BY <1>t, <3>1, <3>2 DEF Go, TypeOK
    <3>4. StagingHeld' /\ StagingWhole'
      BY <1>p, <2>1, <3>3 DEF StagingHeld, StagingWhole, Holding, Assembled
    <3>5. BrokenIsReplaced' /\ SomeWhole'
      BY <1>p, <2>1, <3>2, <3>3 DEF BrokenIsReplaced, SomeWhole, Ended
    <3>6. \A k \in Installs : Restorable(k) => Restorable(k)'
      BY <2>1, <3>3 DEF Restorable, Ended
    <3>7. RescueIsWhole'
      BY <1>t, <1>p, <2>1, <3>3, <3>6 DEF RescueIsWhole, TypeOK
    <3> QED BY <3>2, <3>4, <3>5, <3>7 DEF Undisturbed
  <2> QED BY <2>2, <2>3
<1>7. ASSUME NEW i \in Installs, NEW tree, pc[i] \in {"create"} \cup Holding,
             staging' = [staging EXCEPT ![i] = tree], tree # NoTree \/ pc'[i] \in Ended,
             UNCHANGED <<target, backup, orphan, rescue>>,
             pc' = [pc EXCEPT ![i] = pc'[i]], pc'[i] \in Holding \cup Ended,
             pc'[i] \in Assembled => Whole(tree)
      PROVE  Undisturbed'
  <2>1. /\ staging'[i] = tree /\ \A k \in Installs \ {i} : staging'[k] = staging[k]
        /\ \A k \in Installs \ {i} : pc'[k] = pc[k]
    BY <1>t, <1>7 DEF TypeOK
  <2>2. pc[i] \notin {"clean"} \cup Ended
    BY <1>7 DEF Holding, Ended
  <2>3. StagingHeld' /\ StagingWhole'
    BY <1>p, <1>7, <2>1 DEF StagingHeld, StagingWhole, Holding, Assembled, Ended
  <2>4. BrokenIsReplaced' /\ SomeWhole'
    BY <1>p, <1>7, <2>1, <2>2 DEF BrokenIsReplaced, SomeWhole, Holding, Ended
  <2>5. \A k \in Installs : Restorable(k) => Restorable(k)'
    BY <1>7, <2>1, <2>2 DEF Restorable
  <2>6. RescueIsWhole'
    BY <1>t, <1>p, <1>7, <2>1, <2>5 DEF RescueIsWhole, TypeOK, Holding, Ended
  <2> QED BY <1>p, <1>7, <2>3, <2>4, <2>6 DEF Undisturbed
<1>8. ASSUME NEW i \in Installs, CreateStaging(i) \/ CreateFails(i) PROVE Undisturbed'
  <2>1. Fresh(i) # NoTree
    BY TreesOf, NoTreeAssumption
  <2> QED BY <1>t, <1>7, <1>8, <2>1
          DEF CreateStaging, CreateFails, At, Go, own, Holding, Assembled, Ended, TypeOK
<1>9. ASSUME NEW i \in Installs, NEW step \in {"discard", "copy", "failed"}, pc[i] \in Holding,
             trees' = trees, UNCHANGED <<orphan, rescue>>, Go(i, step)
      PROVE  Undisturbed'
  <2>1. staging[i] # NoTree /\ pc[i] \notin Ended \cup {"clean"} /\ step \notin Assembled
    BY <1>p, <1>9 DEF StagingHeld, Holding, Ended, Assembled
  <2> QED BY <1>t, <1>u, <1>9, <2>1, QuietStep DEF Go
<1>10. ASSUME NEW i \in Installs, PreserveSettings(i) PROVE Undisturbed'
  <2>1. pc[i] \in Holding /\ UNCHANGED <<target, backup, orphan, rescue>>
    BY <1>10 DEF PreserveSettings, At, own, Holding
  <2>2. CASE UNCHANGED staging
    BY <1>9, <1>10, <2>1, <2>2 DEF PreserveSettings, trees
  <2>3. CASE /\ staging[i] # NoTree /\ target # NoTree /\ Go(i, "copy")
             /\ staging' = [staging EXCEPT ![i].data = target.data]
    <3> DEFINE tree == [staging[i] EXCEPT !.data = target.data]
    <3>1. staging[i] \in Trees /\ target \in Trees
      BY <1>t, <2>3 DEF TypeOK
    <3>2. tree \in Trees
      BY <3>1 DEF Trees
    <3>3. tree # NoTree /\ staging' = [staging EXCEPT ![i] = tree]
      BY <2>3, <3>2, NoTreeAssumption
    <3>4. pc' = [pc EXCEPT ![i] = pc'[i]] /\ pc'[i] = "copy"
      BY <1>t, <2>3 DEF Go, TypeOK
    <3> HIDE DEF tree
    <3> QED BY <1>7, <2>1, <3>3, <3>4 DEF Holding, Assembled
  <2> QED BY <1>10, <2>2, <2>3 DEF PreserveSettings
<1>11. ASSUME NEW i \in Installs, NEW a \in Artifacts, CopyArtifact(i, a) PROVE Undisturbed'
  <2>1. pc[i] \in Holding /\ UNCHANGED <<target, backup, orphan, rescue>>
    BY <1>11 DEF CopyArtifact, At, own, Holding
  <2>2. CASE UNCHANGED staging /\ Go(i, "discard")
    BY <1>9, <2>1, <2>2 DEF trees
  <2>3. CASE /\ staging[i] # NoTree /\ staging' = [staging EXCEPT ![i].files[a] = i]
             /\ Go(i, IF \A b \in Artifacts \ {a} : staging[i].files[b] = i THEN "verify" ELSE "copy")
    <3> DEFINE tree == [staging[i] EXCEPT !.files[a] = i]
    <3>1. staging[i] \in Trees
      BY <1>t, <2>3 DEF TypeOK
    <3>2. tree \in Trees
      BY <3>1 DEF Trees, Releases
    <3>3. tree # NoTree /\ staging' = [staging EXCEPT ![i] = tree]
      BY <2>3, <3>2, NoTreeAssumption
    <3>4. pc' = [pc EXCEPT ![i] = pc'[i]] /\ pc'[i] \in {"verify", "copy"}
      BY <1>t, <2>3 DEF Go, TypeOK
    <3>5. ASSUME pc'[i] = "verify" PROVE Whole(tree)
      <4>1. \A b \in Artifacts \ {a} : staging[i].files[b] = i
        BY <1>t, <2>3, <3>5 DEF Go, TypeOK
      <4>2. \A b \in Artifacts : tree.files[b] = i
        BY <3>1, <4>1 DEF Trees
      <4> QED BY <4>2 DEF Whole, Releases
    <3> HIDE DEF tree
    <3> QED BY <1>7, <2>1, <3>3, <3>4, <3>5 DEF Holding, Assembled
  <2> QED BY <1>11, <2>2, <2>3 DEF CopyArtifact
<1>12. ASSUME NEW i \in Installs, MoveToBackup(i) PROVE Undisturbed'
  <2>1. pc[i] = "move" /\ UNCHANGED <<staging, orphan, rescue>>
    BY <1>12 DEF MoveToBackup, At, own
  <2>2. CASE Go(i, "discard") /\ UNCHANGED <<target, backup>>
    BY <1>9, <2>1, <2>2 DEF trees, Holding
  <2>3. CASE /\ target # NoTree /\ backup' = [backup EXCEPT ![i] = target] /\ target' = NoTree
             /\ Go(i, "activate")
    <3>1. /\ backup'[i] = target /\ \A k \in Installs \ {i} : backup'[k] = backup[k]
          /\ pc'[i] = "activate" /\ \A k \in Installs \ {i} : pc'[k] = pc[k]
      BY <1>t, <2>3 DEF Go, TypeOK
    <3>2. StagingHeld' /\ StagingWhole'
      BY <1>p, <2>1, <3>1 DEF StagingHeld, StagingWhole, Holding, Assembled
    <3>3. BrokenIsReplaced'
      BY <1>p, <2>1, <2>3, <3>1 DEF BrokenIsReplaced
    <3>4. SomeWhole'
      BY <1>p, <2>3, <3>1 DEF SomeWhole
    <3>5. \A k \in Installs : Restorable(k) => Restorable(k)'
      BY <2>1, <3>1 DEF Restorable, Ended
    <3>6. RescueIsWhole'
      BY <1>t, <1>p, <2>1, <3>1, <3>5 DEF RescueIsWhole, TypeOK
    <3> QED BY <2>3, <3>2, <3>3, <3>4, <3>6 DEF Undisturbed
  <2> QED BY <1>12, <2>2, <2>3 DEF MoveToBackup
<1>13. ASSUME NEW i \in Installs, Activate(i) PROVE Undisturbed'
  <2>1. pc[i] = "activate" /\ UNCHANGED <<backup, orphan, rescue>>
    BY <1>13 DEF Activate, At, own
  <2>2. CASE Go(i, Escape(i)) /\ UNCHANGED <<target, staging>>
    <3>1. staging[i] # NoTree /\ trees' = trees
      BY <1>p, <2>1, <2>2 DEF StagingHeld, Holding, trees
    <3>2. Escape(i) \in {"discard", "undo"}
      BY DEF Escape
    <3> QED BY <1>t, <1>u, <2>1, <2>2, <3>1, <3>2, QuietStep DEF Go, Ended, Assembled
  <2>3. CASE /\ staging[i] # NoTree /\ target' = staging[i] /\ staging' = [staging EXCEPT ![i] = NoTree]
             /\ Go(i, AfterActivation(i))
    <3>1. /\ staging'[i] = NoTree /\ \A k \in Installs \ {i} : staging'[k] = staging[k]
          /\ pc'[i] = "clean" /\ \A k \in Installs \ {i} : pc'[k] = pc[k]
      BY <1>t, <2>3 DEF Go, AfterActivation, TypeOK
    <3>2. Whole(target') /\ target' # NoTree
      BY <1>p, <2>1, <2>3 DEF StagingWhole, Assembled
    <3>3. StagingHeld' /\ StagingWhole'
      BY <1>p, <2>1, <3>1 DEF StagingHeld, StagingWhole, Holding, Assembled
    <3>4. BrokenIsReplaced' /\ SomeWhole'
      BY <1>p, <2>1, <3>1, <3>2 DEF BrokenIsReplaced, SomeWhole
    <3>5. \A k \in Installs : Restorable(k) => Restorable(k)'
      BY <2>1, <3>1 DEF Restorable, Ended
    <3>6. RescueIsWhole'
      BY <1>t, <1>p, <2>1, <3>1, <3>5 DEF RescueIsWhole, TypeOK
    <3> QED BY <3>2, <3>3, <3>4, <3>6 DEF Undisturbed
  <2> QED BY <1>13, <2>2, <2>3 DEF Activate
<1>14. ASSUME NEW i \in Installs, UndoMove(i) PROVE Undisturbed'
  <2>1. pc[i] = "undo" /\ UNCHANGED <<staging, orphan, rescue>> /\ Go(i, "discard")
    BY <1>14 DEF UndoMove, At, own
  <2>2. CASE UNCHANGED <<target, backup>>
    BY <1>9, <2>1, <2>2 DEF trees, Holding
  <2>3. CASE backup[i] # NoTree /\ target' = backup[i] /\ backup' = [backup EXCEPT ![i] = NoTree]
    <3>1. /\ backup'[i] = NoTree /\ \A k \in Installs \ {i} : backup'[k] = backup[k]
          /\ pc'[i] = "discard" /\ \A k \in Installs \ {i} : pc'[k] = pc[k]
      BY <1>t, <2>1, <2>3 DEF Go, TypeOK
    <3>2. Whole(target') /\ target' # NoTree
      BY <1>p, <2>1, <2>3 DEF BrokenIsReplaced, Ended
    <3>3. StagingHeld' /\ StagingWhole'
      BY <1>p, <2>1, <3>1 DEF StagingHeld, StagingWhole, Holding, Assembled
    <3>4. BrokenIsReplaced' /\ SomeWhole'
      BY <1>p, <2>1, <3>1, <3>2 DEF BrokenIsReplaced, SomeWhole
    <3>5. \A k \in Installs : Restorable(k) => Restorable(k)'
      BY <2>1, <3>1 DEF Restorable, Ended
    <3>6. RescueIsWhole'
      BY <1>t, <1>p, <2>1, <3>1, <3>5 DEF RescueIsWhole, TypeOK
    <3> QED BY <3>2, <3>3, <3>4, <3>6 DEF Undisturbed
  <2> QED BY <1>14, <2>2, <2>3 DEF UndoMove
<1>15. ASSUME NEW i \in Installs, CleanBackup(i) PROVE Undisturbed'
  <2>1. pc[i] = "clean" /\ UNCHANGED <<target, staging, orphan, rescue>> /\ staging[i] = NoTree
    BY <1>15, <1>t DEF CleanBackup, At, own, StagingPhase
  <2>2. CASE UNCHANGED backup /\ Go(i, "installed")
    BY <1>e, <2>1, <2>2 DEF trees, Ended
  <2>3. CASE backup[i] # NoTree /\ Remove(backup, i) /\ Go(i, IF Removed(backup, i) THEN "installed" ELSE "clean")
    <3>1. /\ \A k \in Installs \ {i} : backup'[k] = backup[k]
          /\ pc'[i] \in {"installed", "clean"} /\ \A k \in Installs \ {i} : pc'[k] = pc[k]
      BY <1>t, <2>3 DEF Go, Remove, TypeOK
    <3>2. StagingHeld' /\ StagingWhole'
      BY <1>p, <2>1, <3>1 DEF StagingHeld, StagingWhole, Holding, Assembled
    <3>3. BrokenIsReplaced'
      BY <1>p, <2>1, <3>1 DEF BrokenIsReplaced, Ended
    <3>4. SomeWhole'
      BY <1>p, <2>1, <2>3, <3>1 DEF SomeWhole
    <3>5. \A k \in Installs : Restorable(k) => Restorable(k)'
      BY <2>1, <3>1 DEF Restorable, Ended
    <3>6. RescueIsWhole'
      BY <1>t, <1>p, <2>1, <3>1, <3>5 DEF RescueIsWhole, TypeOK
    <3> QED BY <1>p, <2>1, <3>2, <3>3, <3>4, <3>6 DEF Undisturbed
  <2> QED BY <1>15, <2>2, <2>3 DEF CleanBackup
<1>16. ASSUME NEW i \in Installs, Discard(i) PROVE Undisturbed'
  <2>1. pc[i] \in Holding /\ UNCHANGED <<target, backup, orphan, rescue>>
    BY <1>16 DEF Discard, At, own, Holding
  <2>2. CASE UNCHANGED staging /\ Go(i, "failed")
    BY <1>9, <2>1, <2>2 DEF trees
  <2>3. CASE staging[i] # NoTree /\ Remove(staging, i) /\ Go(i, IF Removed(staging, i) THEN "failed" ELSE "discard")
    <3>1. PICK tree : /\ staging' = [staging EXCEPT ![i] = tree]
                      /\ Removed(staging, i) \/ tree = Hollow(staging[i])
      BY <2>3 DEF Remove, Removed
    <3>2. pc' = [pc EXCEPT ![i] = pc'[i]] /\ pc'[i] = IF Removed(staging, i) THEN "failed" ELSE "discard"
      BY <1>t, <2>3 DEF Go, TypeOK
    <3>3. tree # NoTree \/ pc'[i] \in Ended
      BY <1>t, <1>n, <2>3, <3>1, <3>2 DEF TypeOK, Ended
    <3> QED BY <1>7, <2>1, <3>1, <3>2, <3>3 DEF Holding, Assembled, Ended
  <2> QED BY <1>16, <2>2, <2>3 DEF Discard
<1> QED
  BY <1>1, <1>2, <1>3, <1>4, <1>5, <1>6, <1>8, <1>10, <1>11, <1>12, <1>13, <1>14, <1>15, <1>16
  DEF Next, Recovery, Building, Replacement, Failure

\* IndInv is inductive.
LEMMA StepInd == IndInv /\ [Next]_vars => IndInv'
BY StepTyped, PhasesKept, UndisturbedKept DEF IndInv

\* As long as no recovery takes a running installation's trees for leftovers, the
\* plugin's directory holds all the artifacts of one release, whatever installation,
\* recovery, failure or death came between (install-vault.mjs activateTarget and
\* recoverInterruptedReplacement).
THEOREM PluginIsWhole == Spec => []TargetIsWhole
<1>1. IndInv => TargetIsWhole
  BY DEF IndInv, Undisturbed, TargetIsWhole
<1> QED BY <1>1, InitInd, StepInd, PTL DEF Spec

-----------------------------------------------------------------------------
(***************************************************************************)
(* The second part: the settings and the outcomes. A tree keeps the        *)
(* identity it was created with and its settings only get newer, so what   *)
(* was copied between two comparisons that agree is what they saw; and     *)
(* while installations come one at a time, what is left of one is what its *)
(* successor's recovery can tell apart.                                    *)
(***************************************************************************)
Copied == {"copy", "verify", "check", "move"}
Watching == {"create", "preserve"} \cup Copied

\* Older settings than others; none is oldest.
Older(a, b) == a = Missing \/ (b # Missing /\ a <= b)

Replaced(r) == r \in Installs => pc[r] \in {"clean"} \cup Ended

\* A tree is in one place, and only trees that were activated are anywhere but staged.
Identities ==
    /\ \A i \in Installs : staging[i] # NoTree => staging[i].id = i
    /\ target # NoTree => Replaced(target.id)
    /\ \A i \in Installs : backup[i] # NoTree => /\ Replaced(backup[i].id)
                                                 /\ target # NoTree => target.id # backup[i].id
    /\ \A i, j \in Installs : backup[i] # NoTree /\ backup[j] # NoTree /\ i # j =>
                                backup[i].id # backup[j].id

\* No settings are newer than the last ones saved.
SavedBefore ==
    /\ target # NoTree => Older(target.data, edits)
    /\ \A i \in Installs : /\ staging[i] # NoTree => Older(staging[i].data, edits)
                           /\ backup[i] # NoTree => Older(backup[i].data, edits)
                           /\ expected[i] # NoTree => Older(expected[i].data, edits)

\* What an installation that saw no target has made: nothing is moved or undone for it.
FirstInstall ==
    \A i \in Installs : expected[i] = NoTree /\ pc[i] \in {"create"} \cup Holding =>
        /\ backup[i] = NoTree /\ pc[i] \notin {"move", "undo"}
        /\ staging[i] # NoTree => staging[i].data = Missing

\* How the tree called tree compares with what i saw and copied of it.
Follows(i, tree) ==
    tree.id = expected[i].id =>
        /\ Older(expected[i].data, tree.data)
        /\ ~strayed /\ pc[i] \in Copied => Older(staging[i].data, tree.data)

SettingsGrow ==
    \A i \in Installs : pc[i] \in Watching /\ expected[i] # NoTree =>
        /\ Replaced(expected[i].id)
        /\ target # NoTree => Follows(i, target)
        /\ \A j \in Installs : backup[j] # NoTree /\ Whole(backup[j]) => Follows(i, backup[j])
        /\ ~strayed /\ pc[i] \in Copied => Older(expected[i].data, staging[i].data)

\* A successor is ready to be activated with the settings of the tree moved away for it,
CopyIsExact ==
    \A i \in Installs : pc[i] = "activate" /\ backup[i] # NoTree => staging[i].data = backup[i].data

\* ... so there is always a tree with the latest settings that nobody is emptying.
LatestIsSafe ==
    latest # Missing =>
        \/ target # NoTree /\ target.data = latest
        \/ \E j \in Installs : backup[j] # NoTree /\ pc[j] # "clean" /\ backup[j].data = latest

-----------------------------------------------------------------------------
\* One installation at a time, and at most one tree of a kind.
Alone == \A i, j \in Installs : Running(i) /\ Running(j) => i = j

OneOfAKind == \A i, j \in Installs : /\ staging[i] # NoTree /\ staging[j] # NoTree => i = j
                                     /\ backup[i] # NoTree /\ backup[j] # NoTree => i = j

\* What the recovery that is under way has found is what there is.
Recovering ==
    \A i \in Installs :
        /\ pc[i] \in {"drop", "recheck", "restore"} =>
              rescue[i] = Present(backup) /\ (rescue[i] # {} => target = NoTree)
        /\ pc[i] = "drop" => orphan[i] = Present(staging)
        /\ pc[i] \in {"recheck", "restore"} => Present(staging) = {} /\ rescue[i] # {}

\* Afterwards there are no trees but the installation's own, and the target is as it was seen.
Recovered ==
    \A i \in Installs : pc[i] \in {"inspect", "create", "clean"} \cup Holding =>
        \A j \in Installs \ {i} : staging[j] = NoTree /\ backup[j] = NoTree

Undisputed ==
    \A i \in Installs :
        /\ pc[i] \in Watching => IF expected[i] = NoTree
                                   THEN target = NoTree
                                   ELSE target # NoTree /\ target.id = expected[i].id
        /\ pc[i] = "activate" => target = NoTree /\ (expected[i] # NoTree => backup[i] # NoTree)
        /\ pc[i] = "clean" => target # NoTree

\* A backup beside a target is that of the target's own installation.
BesideSuccessor ==
    \A j \in Installs : backup[j] # NoTree /\ target # NoTree =>
        target.id = j /\ pc[j] \in {"clean", "failed", "dead", "uncleaned"}

\* Nothing ends a refusal: the backup stays.
Refused ==
    \A i \in Installs : pc[i] = "refused" =>
        \E j \in Present(backup) : pc[j] \in {"failed", "dead", "uncleaned"} /\ target # NoTree

InTurn == /\ ~strayed /\ Alone /\ OneOfAKind /\ Recovering /\ Recovered /\ Undisputed
          /\ BesideSuccessor /\ Refused

\* In turn, the target has the latest settings, or its backup while it is away.
LatestInPlace ==
    /\ target # NoTree => target.data = latest
    /\ target = NoTree => /\ latest # Missing => \E j \in Installs : backup[j] # NoTree
                          /\ \A j \in Installs : backup[j] # NoTree => backup[j].data = latest

\* An installation that answered success has left nothing, but for a backup it did not see.
Tidy ==
    \A i \in Installs : /\ pc[i] \in Succeeded => staging[i] = NoTree
                        /\ pc[i] = "installed" => backup[i] = NoTree

SettingsInv == /\ Identities /\ SavedBefore /\ FirstInstall /\ Tidy
               /\ ~meddled => SettingsGrow
               /\ ~meddled /\ ~late /\ ~strayed => CopyIsExact /\ LatestIsSafe
               /\ ~overlapped => InTurn
               /\ ~overlapped /\ ~meddled /\ ~late => LatestInPlace

-----------------------------------------------------------------------------
\* The steps by what they do to the trees. Settings are saved; an installation moves the
\* target away, activates its staging tree, puts a backup back, or takes something off
\* a backup that was replaced; ...
Saved == /\ target # NoTree /\ edits' = edits + 1 /\ latest' = edits'
         /\ target' = [target EXCEPT !.data = edits']
         /\ UNCHANGED <<backup, staging, pc, expected, orphan, rescue, late, meddled, strayed, overlapped>>

Others == UNCHANGED <<expected, orphan, rescue, latest, edits, overlapped>>

MovedAway(i) == /\ pc[i] = "move" /\ pc' = [pc EXCEPT ![i] = "activate"]
                /\ target # NoTree /\ target' = NoTree
                /\ backup' = [backup EXCEPT ![i] = target]
                /\ late' = (late \/ ~Unchanged(i))
                /\ Others /\ UNCHANGED <<staging, strayed, meddled>>

Activated(i) == /\ pc[i] = "activate" /\ pc' = [pc EXCEPT ![i] = "clean"]
                /\ target = NoTree /\ staging[i] # NoTree /\ target' = staging[i]
                /\ staging' = [staging EXCEPT ![i] = NoTree]
                /\ Others /\ UNCHANGED <<backup, late, strayed, meddled>>

PutBack(i, j) == /\ \/ pc[i] = "undo" /\ j = i /\ pc' = [pc EXCEPT ![i] = "discard"] /\ UNCHANGED meddled
                    \/ /\ pc[i] = "restore" /\ j \in rescue[i] /\ pc' = [pc EXCEPT ![i] = "inspect"]
                       /\ meddled' = (meddled \/ Running(j))
                 /\ target = NoTree /\ backup[j] # NoTree /\ target' = backup[j]
                 /\ backup' = [backup EXCEPT ![j] = NoTree]
                 /\ Others /\ UNCHANGED <<staging, late, strayed>>

Emptied(i) == /\ pc[i] = "clean" /\ backup[i] # NoTree
              /\ \/ pc' = pc /\ backup' = [backup EXCEPT ![i] = Hollow(backup[i])]
                 \/ pc' = [pc EXCEPT ![i] = "installed"] /\ backup' = [backup EXCEPT ![i] = NoTree]
              /\ Others /\ UNCHANGED <<target, staging, late, strayed, meddled>>

\* ... a staging tree is made, filled, or removed; ...
Created(i) == /\ pc[i] = "create" /\ pc' \in {[pc EXCEPT ![i] = "preserve"], [pc EXCEPT ![i] = "failed"]}
              /\ staging' = [staging EXCEPT ![i] = Fresh(i)]
              /\ UNCHANGED strayed

Preserved(i) == /\ pc[i] = "preserve" /\ pc' = [pc EXCEPT ![i] = "copy"]
                /\ expected[i] # NoTree /\ target # NoTree /\ staging[i] # NoTree
                /\ staging' = [staging EXCEPT ![i].data = target.data]
                /\ strayed' = (strayed \/ target.id # expected[i].id)

Filled(i) == /\ pc[i] = "copy" /\ pc' \in {pc, [pc EXCEPT ![i] = "verify"]}
             /\ staging[i] # NoTree
             /\ \E a \in Artifacts : staging' = [staging EXCEPT ![i].files[a] = i]
             /\ UNCHANGED strayed

Discarded(i) == /\ pc[i] = "discard" /\ staging[i] # NoTree
                /\ \/ pc' = pc /\ staging' = [staging EXCEPT ![i] = Hollow(staging[i])]
                   \/ pc' = [pc EXCEPT ![i] = "failed"] /\ staging' = [staging EXCEPT ![i] = NoTree]
                /\ UNCHANGED strayed

Dropped(i, j) == /\ pc[i] = "drop" /\ j \in orphan[i] /\ staging[j] # NoTree
                 /\ \/ pc' = pc /\ staging' = [staging EXCEPT ![j] = Hollow(staging[j])]
                    \/ /\ pc' = [pc EXCEPT ![i] = AfterOrphans(rescue[i])]
                       /\ staging' = [staging EXCEPT ![j] = NoTree]
                 /\ meddled' = (meddled \/ Running(j))
                 /\ UNCHANGED strayed

Staged(i) == /\ \/ (Created(i) \/ Preserved(i) \/ Filled(i) \/ Discarded(i)) /\ UNCHANGED meddled
                \/ \E j \in Installs : Dropped(i, j)
             /\ Others /\ UNCHANGED <<target, backup, late>>

\* ... or no tree changes.
Thought(i, step) ==
    \/ pc[i] = "recheck" /\ step = "restore"
    \/ pc[i] = "recheck" /\ step = "refused" /\ ~(target = NoTree /\ \A j \in rescue[i] : backup[j] # NoTree)
    \/ pc[i] = "preserve" /\ step = "copy" /\ expected[i] = NoTree
    \/ pc[i] = "verify" /\ step = "check"
    \/ pc[i] = "check" /\ step = "move" /\ expected[i] # NoTree
    \/ pc[i] = "check" /\ step = "activate" /\ expected[i] = NoTree /\ target = NoTree
    \/ pc[i] = "activate" /\ step = "undo" /\ expected[i] # NoTree
    \/ pc[i] \in Holding /\ step = "discard"
    \/ pc[i] = "clean" /\ step = "installed" /\ backup[i] = NoTree
    \/ pc[i] = "clean" /\ step = "uncleaned"
    \/ Running(i) /\ step \in {"failed", "dead"}

Thinks(i) ==
    /\ UNCHANGED <<target, staging, backup, latest, edits, late, meddled, strayed>>
    /\ \/ /\ pc[i] = "idle" /\ pc' = [pc EXCEPT ![i] = "recover"]
          /\ overlapped' = (overlapped \/ \E j \in Installs : Running(j))
          /\ UNCHANGED <<expected, orphan, rescue>>
       \/ JudgeLeftovers(i) /\ UNCHANGED overlapped
       \/ InspectTarget(i) /\ UNCHANGED overlapped
       \/ /\ \E step \in Steps : Thought(i, step) /\ pc' = [pc EXCEPT ![i] = step]
          /\ UNCHANGED <<expected, orphan, rescue, overlapped>>

LEMMA StepForms ==
    ASSUME TypeOK, [Next]_vars
    PROVE  \/ UNCHANGED vars \/ Saved
           \/ \E i \in Installs : \/ MovedAway(i) \/ Activated(i) \/ Emptied(i) \/ Staged(i) \/ Thinks(i)
                                  \/ \E j \in Installs : PutBack(i, j)
<1> DEFINE Some == \E i \in Installs : \/ MovedAway(i) \/ Activated(i) \/ Emptied(i) \/ Staged(i) \/ Thinks(i)
                                       \/ \E j \in Installs : PutBack(i, j)
<1> USE DEF trees, own, history, bounds, At, Go, Others
<1>1. SaveSettings => Saved
  BY DEF SaveSettings, Saved
<1>s. \A i \in Installs : pc[i] \in Steps /\ orphan[i] \subseteq Installs /\ rescue[i] \subseteq Installs
  BY DEF TypeOK
<1>2. ASSUME NEW i \in Installs, Start(i) \/ JudgeLeftovers(i) \/ InspectTarget(i) PROVE Thinks(i)
  BY <1>2 DEF Start, JudgeLeftovers, InspectTarget, Thinks
<1>3. ASSUME NEW i \in Installs, NEW step \in Steps, Thought(i, step), Go(i, step),
             UNCHANGED <<target, staging, backup, latest, edits, late, meddled, strayed, expected, orphan, rescue, overlapped>>
      PROVE  Thinks(i)
  BY <1>3 DEF Thinks
<1>4. ASSUME NEW i \in Installs, Recheck(i) PROVE Thinks(i)
  BY <1>3, <1>4 DEF Recheck, Thought, Steps, Ended
<1>5. ASSUME NEW i \in Installs, VerifyStaging(i) PROVE Thinks(i)
  BY <1>3, <1>5 DEF VerifyStaging, Thought, Steps, Holding
<1>6. ASSUME NEW i \in Installs, CheckTarget(i) PROVE Thinks(i)
  <2>1. expected[i] = NoTree /\ Unchanged(i) => target = NoTree
    BY TreesOf, NoTreeAssumption DEF Unchanged, Seen, TypeOK
  <2>2. /\ pc[i] = "check"
        /\ \/ Go(i, "discard")
           \/ Go(i, "activate") /\ expected[i] = NoTree /\ target = NoTree
           \/ Go(i, "move") /\ expected[i] # NoTree
    <3>1. CASE ~Unchanged(i)
      BY <1>6, <3>1 DEF CheckTarget
    <3>2. CASE Unchanged(i) /\ expected[i] = NoTree
      BY <1>6, <2>1, <3>2 DEF CheckTarget
    <3>3. CASE Unchanged(i) /\ expected[i] # NoTree
      BY <1>6, <3>3 DEF CheckTarget
    <3> QED BY <3>1, <3>2, <3>3
  <2>3. UNCHANGED <<target, staging, backup, latest, edits, late, meddled, strayed, expected, orphan, rescue, overlapped>>
    BY <1>6 DEF CheckTarget
  <2> QED BY <1>3, <2>2, <2>3 DEF Thought, Steps, Holding
<1>7. ASSUME NEW i \in Installs, CallFails(i) \/ SkipBackup(i) \/ Dies(i) PROVE Thinks(i)
  <2>1. \/ ErrorLeadsTo(i) = "discard" /\ pc[i] \in Holding
        \/ ErrorLeadsTo(i) = "undo" /\ pc[i] = "activate" /\ expected[i] # NoTree
        \/ ErrorLeadsTo(i) = "failed"
    BY <1>s DEF ErrorLeadsTo, Escape, Holding
  <2>2. UNCHANGED <<target, staging, backup, latest, edits, late, meddled, strayed, expected, orphan, rescue, overlapped>>
        /\ Running(i)
    BY <1>7 DEF CallFails, SkipBackup, Dies, Fault, Running, Ended
  <2>3. PICK step \in Steps : Go(i, step) /\ Thought(i, step)
    BY <1>7, <2>1, <2>2 DEF CallFails, SkipBackup, Dies, Thought, Steps, Ended
  <2> QED BY <1>3, <2>2, <2>3
<1>8. ASSUME NEW i \in Installs, DropOrphan(i) PROVE Some
  <2>1. pc[i] = "drop" /\ Running(i)
    BY <1>8 DEF DropOrphan, Running, Ended
  <2>2. CASE Go(i, "failed") /\ UNCHANGED <<staging, meddled>>
    BY <1>3, <1>8, <2>1, <2>2 DEF DropOrphan, Thought, Steps, Ended
  <2>3. CASE ~(Go(i, "failed") /\ UNCHANGED <<staging, meddled>>)
    <3>1. PICK j \in orphan[i] : /\ staging[j] # NoTree /\ Remove(staging, j)
                                 /\ Go(i, IF Removed(staging, j) THEN AfterOrphans(rescue[i]) ELSE "drop")
                                 /\ meddled' = (meddled \/ Running(j))
      BY <1>8, <2>3 DEF DropOrphan
    <3>2. j \in Installs
      BY <1>s, <3>1
    <3>3. pc' = pc \/ Removed(staging, j)
      BY <2>1, <3>1 DEF TypeOK
    <3>4. Dropped(i, j)
      BY <1>8, <2>1, <3>1, <3>3 DEF DropOrphan, Dropped, Remove, Removed
    <3> QED BY <1>8, <3>2, <3>4 DEF DropOrphan, Staged
  <2> QED BY <2>2, <2>3
<1>9. ASSUME NEW i \in Installs, Restore(i) PROVE Some
  <2>1. pc[i] = "restore" /\ Running(i)
    BY <1>9 DEF Restore, Running, Ended
  <2>2. CASE Go(i, "failed") /\ UNCHANGED <<target, backup, meddled>>
    BY <1>3, <1>9, <2>1, <2>2 DEF Restore, Thought, Steps, Ended
  <2>3. CASE ~(Go(i, "failed") /\ UNCHANGED <<target, backup, meddled>>)
    BY <1>s, <1>9, <2>1, <2>3 DEF Restore, PutBack
  <2> QED BY <2>2, <2>3
<1>10. ASSUME NEW i \in Installs, CreateStaging(i) \/ CreateFails(i) PROVE Some
  BY <1>10 DEF CreateStaging, CreateFails, Created, Staged, Fault
<1>11. ASSUME NEW i \in Installs, PreserveSettings(i) PROVE Some
  <2>1. CASE UNCHANGED <<staging, strayed>>
    <3>1. pc[i] = "preserve" /\ \/ Go(i, "copy") /\ expected[i] = NoTree
                                \/ Go(i, "discard")
                                \/ Preserved(i)
      BY <1>11 DEF PreserveSettings, Preserved
    <3> QED BY <1>3, <1>11, <2>1, <3>1 DEF PreserveSettings, Thought, Steps, Holding, Staged
  <2>2. CASE ~UNCHANGED <<staging, strayed>>
    BY <1>11, <2>2 DEF PreserveSettings, Preserved, Staged
  <2> QED BY <2>1, <2>2
<1>12. ASSUME NEW i \in Installs, NEW a \in Artifacts, CopyArtifact(i, a) PROVE Some
  <2>1. pc[i] = "copy"
    BY <1>12 DEF CopyArtifact
  <2>2. CASE UNCHANGED staging /\ Go(i, "discard")
    BY <1>3, <1>12, <2>1, <2>2 DEF CopyArtifact, Thought, Steps, Holding
  <2>3. CASE ~(UNCHANGED staging /\ Go(i, "discard"))
    <3>1. /\ staging[i] # NoTree /\ staging' = [staging EXCEPT ![i].files[a] = i]
          /\ Go(i, "verify") \/ Go(i, "copy")
      BY <1>12, <2>3 DEF CopyArtifact
    <3>2. pc' = pc \/ Go(i, "verify")
      BY <2>1, <3>1 DEF TypeOK
    <3> QED BY <1>12, <2>1, <3>1, <3>2 DEF CopyArtifact, Filled, Staged
  <2> QED BY <2>2, <2>3
<1>13. ASSUME NEW i \in Installs, MoveToBackup(i) PROVE Some
  <2>1. CASE target = NoTree
    BY <1>3, <1>13, <2>1 DEF MoveToBackup, Thought, Steps, Holding
  <2>2. CASE target # NoTree
    BY <1>13, <2>2 DEF MoveToBackup, MovedAway
  <2> QED BY <2>1, <2>2
<1>14. ASSUME NEW i \in Installs, Activate(i) PROVE Some
  <2>1. CASE staging[i] = NoTree \/ target # NoTree
    BY <1>3, <1>14, <2>1 DEF Activate, Escape, Thought, Steps, Holding
  <2>2. CASE ~(staging[i] = NoTree \/ target # NoTree)
    BY <1>14, <2>2 DEF Activate, AfterActivation, Activated
  <2> QED BY <2>1, <2>2
<1>15. ASSUME NEW i \in Installs, UndoMove(i) PROVE Some
  <2>1. CASE target = NoTree /\ backup[i] # NoTree
    BY <1>15, <2>1 DEF UndoMove, PutBack
  <2>2. CASE ~(target = NoTree /\ backup[i] # NoTree)
    BY <1>3, <1>15, <2>2 DEF UndoMove, Thought, Steps, Holding
  <2> QED BY <2>1, <2>2
<1>16. ASSUME NEW i \in Installs, CleanBackup(i) PROVE Some
  <2>1. CASE backup[i] = NoTree
    BY <1>3, <1>16, <2>1 DEF CleanBackup, Thought, Steps, Ended
  <2>2. CASE backup[i] # NoTree
    <3>1. pc[i] = "clean" /\ (pc' = pc \/ Removed(backup, i))
      BY <1>16, <2>2 DEF CleanBackup, TypeOK
    <3> QED BY <1>16, <2>2, <3>1 DEF CleanBackup, Remove, Removed, Emptied
  <2> QED BY <2>1, <2>2
<1>17. ASSUME NEW i \in Installs, Discard(i) PROVE Some
  <2>1. CASE staging[i] = NoTree
    BY <1>3, <1>17, <2>1 DEF Discard, Thought, Steps, Ended, Running
  <2>2. CASE staging[i] # NoTree
    <3>1. pc[i] = "discard" /\ (pc' = pc \/ Removed(staging, i))
      BY <1>17, <2>2 DEF Discard, TypeOK
    <3> QED BY <1>17, <2>2, <3>1 DEF Discard, Remove, Removed, Discarded, Staged
  <2> QED BY <2>1, <2>2
<1> QED
  BY <1>1, <1>2, <1>4, <1>5, <1>6, <1>7, <1>8, <1>9, <1>10, <1>11, <1>12, <1>13, <1>14, <1>15, <1>16, <1>17
  DEF Next, Recovery, Building, Replacement, Failure

-----------------------------------------------------------------------------
\* Being older is an order.
LEMMA Ages ==
    \A a, b, c \in Nat \cup {Missing} :
        /\ Older(a, a)
        /\ Older(a, b) /\ Older(b, c) => Older(a, c)
        /\ Older(a, b) /\ Older(b, a) => a = b
        /\ b # Missing => Older(b, b + 1)
BY InstallsAssumption DEF Older

\* What the operators on trees keep.
LEMMA TreesKeep ==
    ASSUME NEW tree \in Trees
    PROVE  /\ tree # NoTree /\ tree.id \in Releases /\ tree.data \in Nat \cup {Missing}
           /\ Hollow(tree) \in Trees /\ Hollow(tree).id = tree.id /\ Hollow(tree).data = Missing
           /\ ~Whole(Hollow(tree))
           /\ \A data : [tree EXCEPT !.data = data].id = tree.id /\ [tree EXCEPT !.data = data].data = data
           /\ \A a \in Artifacts : \A i : /\ [tree EXCEPT !.files[a] = i].id = tree.id
                                          /\ [tree EXCEPT !.files[a] = i].data = tree.data
           /\ Seen(tree) \in Sight /\ Seen(tree) # NoTree
           /\ Seen(tree).id = tree.id /\ Seen(tree).data = tree.data
<1>1. tree # NoTree /\ Hollow(tree) \in Trees /\ Seen(tree) \in Sight /\ Seen(tree) # NoTree
  BY TreesOf, NoTreeAssumption
<1>2. tree.id \in Releases /\ tree.data \in Nat \cup {Missing}
  BY BoundsAssumption DEF Trees, Settings
<1>3. Hollow(tree).id = tree.id /\ Hollow(tree).data = Missing
  BY DEF Hollow, Trees
<1>4. ~Whole(Hollow(tree))
  <2>1. \A a \in Artifacts : Hollow(tree).files[a] = Missing
    BY DEF Hollow, Trees
  <2>2. Missing \notin Releases
    BY InstallsAssumption DEF Releases
  <2> QED BY <2>1, <2>2, InstallsAssumption DEF Whole
<1>5. \A data : [tree EXCEPT !.data = data].id = tree.id /\ [tree EXCEPT !.data = data].data = data
  BY DEF Trees
<1>6. \A a \in Artifacts : \A i : /\ [tree EXCEPT !.files[a] = i].id = tree.id
                                  /\ [tree EXCEPT !.files[a] = i].data = tree.data
  BY DEF Trees
<1>7. Seen(tree).id = tree.id /\ Seen(tree).data = tree.data
  BY <1>1 DEF Seen
<1> QED BY <1>1, <1>2, <1>3, <1>4, <1>5, <1>6, <1>7

\* Fresh trees have no settings.
LEMMA FreshIs == \A i \in Installs : Fresh(i).id = i /\ Fresh(i).data = Missing /\ Fresh(i) \in Trees
BY TreesOf DEF Fresh

\* A step of one installation ends at most this one; an ended one stays so, and only
\* activation leads to the removal of a backup.
LEMMA PcForms ==
    ASSUME TypeOK, NEW i \in Installs,
           \/ MovedAway(i) \/ Activated(i) \/ Emptied(i) \/ Staged(i) \/ Thinks(i)
           \/ \E j \in Installs : PutBack(i, j)
    PROVE  /\ pc[i] \notin Ended
           /\ \A k \in Installs : k # i => pc'[k] = pc[k]
           /\ pc[i] = "clean" => pc'[i] \in {"clean"} \cup Ended
           /\ pc'[i] = "clean" => pc[i] = "clean" \/ Activated(i)
           /\ pc[i] = "idle" => Thinks(i)
<1> USE DEF TypeOK, Ended
<1>1. CASE MovedAway(i)
  BY <1>1 DEF MovedAway
<1>2. CASE Activated(i)
  BY <1>2 DEF Activated
<1>3. CASE Emptied(i)
  BY <1>3 DEF Emptied
<1>4. CASE Staged(i)
  <2>1. \A k \in Installs : k # i => pc'[k] = pc[k]
    BY <1>4 DEF Staged, Created, Preserved, Filled, Discarded, Dropped
  <2>2. /\ pc[i] \in {"create", "preserve", "copy", "discard", "drop"}
        /\ pc'[i] # "clean"
    BY <1>4 DEF Staged, Created, Preserved, Filled, Discarded, Dropped, AfterOrphans
  <2> QED BY <2>1, <2>2
<1>5. CASE Thinks(i)
  <2>1. PICK step : pc' = [pc EXCEPT ![i] = step] /\ step # "clean" /\ pc[i] \notin Ended
                    /\ (pc[i] = "clean" => step \in Ended)
    <3>1. CASE \E step \in Steps : Thought(i, step) /\ pc' = [pc EXCEPT ![i] = step]
      BY <3>1 DEF Thought, Running, Holding
    <3>2. CASE ~\E step \in Steps : Thought(i, step) /\ pc' = [pc EXCEPT ![i] = step]
      BY <1>5, <3>2 DEF Thinks, JudgeLeftovers, InspectTarget, At, Go, AfterOrphans
    <3> QED BY <3>1, <3>2
  <2> QED BY <1>5, <2>1
<1>6. ASSUME NEW j \in Installs, PutBack(i, j) PROVE /\ pc[i] \in {"undo", "restore"}
                                                     /\ \A k \in Installs : k # i => pc'[k] = pc[k]
                                                     /\ pc'[i] # "clean"
  BY <1>6 DEF PutBack
<1> QED BY <1>1, <1>2, <1>3, <1>4, <1>5, <1>6

\* What was activated once stays so.
LEMMA ReplacedStays ==
    ASSUME TypeOK, [Next]_vars, NEW r, Replaced(r)
    PROVE  Replaced(r)'
<1>1. CASE UNCHANGED vars \/ Saved
  BY <1>1 DEF vars, Saved, Replaced
<1>2. ASSUME NEW i \in Installs,
             \/ MovedAway(i) \/ Activated(i) \/ Emptied(i) \/ Staged(i) \/ Thinks(i)
             \/ \E j \in Installs : PutBack(i, j)
      PROVE  Replaced(r)'
  BY <1>2, PcForms DEF Replaced
<1> QED BY <1>1, <1>2, StepForms

\* What happens to the staging trees.
LEMMA StagedTrees ==
    ASSUME TypeOK, NEW i \in Installs, Staged(i), NEW k \in Installs, staging'[k] # NoTree
    PROVE  \/ staging'[k] = staging[k]
           \/ k = i /\ Created(i) /\ staging'[k] = Fresh(i)
           \/ /\ staging[k] # NoTree /\ staging'[k].id = staging[k].id
              /\ \/ k = i /\ Filled(i) /\ staging'[k].data = staging[k].data
                 \/ k = i /\ Preserved(i) /\ staging'[k].data = target.data
                 \/ k = i /\ Discarded(i) /\ staging'[k].data = Missing
                 \/ Dropped(i, k) /\ staging'[k].data = Missing
<1> USE DEF TypeOK
<1>1. \A j \in Installs : staging[j] # NoTree => staging[j] \in Trees
  OBVIOUS
<1>2. CASE Created(i)
  BY <1>2 DEF Created
<1>3. CASE Preserved(i)
  BY <1>1, <1>3, TreesKeep DEF Preserved
<1>4. CASE Filled(i)
  <2>1. PICK a \in Artifacts : staging' = [staging EXCEPT ![i].files[a] = i]
    BY <1>4 DEF Filled
  <2>2. CASE k = i
    <3>1. staging[i] \in Trees /\ staging'[i] = [staging[i] EXCEPT !.files[a] = i]
      BY <1>4, <2>1 DEF Filled
    <3>2. staging'[i].id = staging[i].id /\ staging'[i].data = staging[i].data
      BY <3>1, TreesKeep
    <3> QED BY <1>4, <2>2, <3>2 DEF Filled
  <2>3. CASE k # i
    BY <2>1, <2>3
  <2> QED BY <2>2, <2>3
<1>5. CASE Discarded(i)
  BY <1>1, <1>5, TreesKeep DEF Discarded
<1>6. ASSUME NEW j \in Installs, Dropped(i, j)
      PROVE  \/ staging'[k] = staging[k]
             \/ /\ k = j /\ staging[k] # NoTree /\ staging'[k].id = staging[k].id /\ staging'[k].data = Missing
  BY <1>1, <1>6, TreesKeep DEF Dropped
<1> QED BY <1>2, <1>3, <1>4, <1>5, <1>6 DEF Staged

-----------------------------------------------------------------------------
LEMMA IdentitiesKept == ASSUME IndInv, Identities, [Next]_vars PROVE Identities'
<1>t. TypeOK /\ BackupPhase
  BY DEF IndInv
<1>r. \A r : Replaced(r) => Replaced(r)'
  BY <1>t, ReplacedStays
<1>i. /\ \A i \in Installs : staging[i] # NoTree => staging[i].id = i
      /\ target # NoTree => Replaced(target.id)
      /\ \A i \in Installs : backup[i] # NoTree => /\ Replaced(backup[i].id)
                                                   /\ target # NoTree => target.id # backup[i].id
      /\ \A i, j \in Installs : backup[i] # NoTree /\ backup[j] # NoTree /\ i # j =>
                                  backup[i].id # backup[j].id
  BY DEF Identities
<1>b. \A i \in Installs : backup[i] # NoTree => backup[i] \in Trees /\ staging[i] \in Trees \cup {NoTree}
  BY <1>t DEF TypeOK
<1> USE DEF Identities
<1>1. CASE UNCHANGED vars
  BY <1>1, <1>i, <1>r DEF vars, trees
<1>2. CASE Saved
  <2>1. target \in Trees
    BY <1>t, <1>2 DEF Saved, TypeOK
  <2>2. target'.id = target.id /\ staging' = staging /\ backup' = backup /\ target # NoTree
    BY <1>2, <2>1, TreesKeep DEF Saved
  <2> QED BY <2>2, <1>i, <1>r
<1>3. ASSUME NEW i \in Installs, MovedAway(i) PROVE Identities'
  <2>1. /\ target # NoTree /\ target' = NoTree /\ staging' = staging
        /\ backup'[i] = target /\ \A k \in Installs : k # i => backup'[k] = backup[k]
    BY <1>t, <1>3 DEF MovedAway, TypeOK
  <2> QED BY <2>1, <1>i, <1>r
<1>4. ASSUME NEW i \in Installs, Activated(i) PROVE Identities'
  <2>1. /\ pc[i] = "activate" /\ pc'[i] = "clean" /\ target' = staging[i] /\ staging[i] # NoTree
        /\ backup' = backup /\ \A k \in Installs : staging'[k] \in {staging[k], NoTree}
    BY <1>t, <1>4 DEF Activated, TypeOK
  <2>2. ~Replaced(i) /\ Replaced(i)'
    BY <2>1 DEF Replaced, Ended
  <2> QED BY <2>1, <2>2, <1>i, <1>r
<1>5. ASSUME NEW i \in Installs, NEW j \in Installs, PutBack(i, j) PROVE Identities'
  <2>1. /\ backup[j] # NoTree /\ target' = backup[j] /\ backup'[j] = NoTree
        /\ \A k \in Installs : k # j => backup'[k] = backup[k]
        /\ staging' = staging
    BY <1>t, <1>5 DEF PutBack, TypeOK
  <2> QED BY <2>1, <1>i, <1>r
<1>6. ASSUME NEW i \in Installs, Emptied(i) PROVE Identities'
  <2>1. backup[i] # NoTree /\ Hollow(backup[i]).id = backup[i].id
    BY <1>b, <1>6, TreesKeep DEF Emptied
  <2>2. /\ target' = target /\ staging' = staging
        /\ \A k \in Installs : backup'[k] # NoTree => backup[k] # NoTree /\ backup'[k].id = backup[k].id
    BY <1>t, <1>6, <2>1 DEF Emptied, TypeOK
  <2> QED BY <2>2, <1>i, <1>r
<1>7. ASSUME NEW i \in Installs, Staged(i) PROVE Identities'
  <2>1. \A k \in Installs : staging'[k] # NoTree => staging'[k].id = k
    BY <1>t, <1>i, <1>7, StagedTrees, FreshIs
  <2>2. target' = target /\ backup' = backup
    BY <1>7 DEF Staged
  <2> QED BY <2>1, <2>2, <1>i, <1>r
<1>8. ASSUME NEW i \in Installs, Thinks(i) PROVE Identities'
  <2>1. target' = target /\ backup' = backup /\ staging' = staging
    BY <1>8 DEF Thinks
  <2> QED BY <2>1, <1>i, <1>r
<1> QED BY <1>t, <1>1, <1>2, <1>3, <1>4, <1>5, <1>6, <1>7, <1>8, StepForms

LEMMA SavedBeforeKept == ASSUME IndInv, SavedBefore, [Next]_vars PROVE SavedBefore'
<1>t. TypeOK /\ BackupPhase
  BY DEF IndInv
<1>n. /\ edits \in Nat /\ \A tree \in Trees : tree # NoTree /\ tree.data \in Nat \cup {Missing}
      /\ edits # Missing
  BY <1>t, BoundsAssumption, InstallsAssumption, TreesKeep DEF TypeOK
<1>x. \A i \in Installs : expected[i] # NoTree => expected[i].data \in Nat \cup {Missing}
  BY <1>t, BoundsAssumption DEF TypeOK, Sight, Settings
<1>y. /\ target # NoTree => target \in Trees
      /\ \A i \in Installs : /\ staging[i] # NoTree => staging[i] \in Trees
                             /\ backup[i] # NoTree => backup[i] \in Trees
  BY <1>t DEF TypeOK
<1>m. Older(Missing, edits)
  BY DEF Older
<1> USE DEF SavedBefore
<1>1. CASE UNCHANGED vars
  BY <1>1 DEF vars, trees, own, bounds
<1>2. CASE Saved
  <2>1. \A a \in Nat \cup {Missing} : Older(a, edits) => Older(a, edits')
    BY <1>n, <1>2, Ages DEF Saved
  <2>2. Older(edits', edits') /\ target'.data = edits'
    BY <1>n, <1>y, <1>2, Ages, TreesKeep DEF Saved
  <2> QED BY <1>2, <1>n, <1>x, <1>y, <2>1, <2>2 DEF Saved
<1>3. ASSUME NEW i \in Installs, MovedAway(i) PROVE SavedBefore'
  BY <1>t, <1>3 DEF MovedAway, Others, TypeOK
<1>4. ASSUME NEW i \in Installs, Activated(i) PROVE SavedBefore'
  BY <1>t, <1>4 DEF Activated, Others, TypeOK
<1>5. ASSUME NEW i \in Installs, NEW j \in Installs, PutBack(i, j) PROVE SavedBefore'
  BY <1>t, <1>5 DEF PutBack, Others, TypeOK
<1>6. ASSUME NEW i \in Installs, Emptied(i) PROVE SavedBefore'
  <2>1. Hollow(backup[i]).data = Missing
    BY <1>y, <1>6, TreesKeep DEF Emptied
  <2> QED BY <1>t, <1>m, <1>6, <2>1 DEF Emptied, Others, TypeOK
<1>7. ASSUME NEW i \in Installs, Staged(i) PROVE SavedBefore'
  <2>1. /\ UNCHANGED <<target, backup, expected, edits>>
        /\ Preserved(i) => target # NoTree
    BY <1>7 DEF Staged, Others, Preserved
  <2>2. \A k \in Installs : staging'[k] # NoTree => Older(staging'[k].data, edits)
    BY <1>t, <1>m, <1>7, <2>1, StagedTrees, FreshIs
  <2> QED BY <2>1, <2>2
<1>8. ASSUME NEW i \in Installs, Thinks(i) PROVE SavedBefore'
  <2>1. UNCHANGED <<target, backup, staging, edits>>
    BY <1>8 DEF Thinks
  <2>2. \A k \in Installs : expected'[k] # NoTree => Older(expected'[k].data, edits)
    <3>1. CASE InspectTarget(i)
      BY <1>t, <1>y, <3>1, TreesKeep DEF InspectTarget, Seen, TypeOK
    <3>2. CASE ~InspectTarget(i)
      BY <1>8, <3>2 DEF Thinks, JudgeLeftovers
    <3> QED BY <3>1, <3>2
  <2> QED BY <2>1, <2>2
<1> QED BY <1>t, <1>1, <1>2, <1>3, <1>4, <1>5, <1>6, <1>7, <1>8, StepForms

LEMMA FirstInstallKept == ASSUME IndInv, FirstInstall, [Next]_vars PROVE FirstInstall'
<1>t. TypeOK /\ StagingPhase /\ BackupPhase
  BY DEF IndInv
<1> DEFINE First(k) == expected[k] = NoTree /\ pc[k] \in {"create"} \cup Holding =>
                         /\ backup[k] = NoTree /\ pc[k] \notin {"move", "undo"}
                         /\ staging[k] # NoTree => staging[k].data = Missing
<1> SUFFICES ASSUME NEW k \in Installs PROVE First(k)'
  BY DEF FirstInstall
<1>f. First(k)
  BY DEF FirstInstall
<1>1. CASE UNCHANGED vars
  BY <1>f, <1>1 DEF vars, trees, own
<1>2. CASE Saved
  BY <1>f, <1>2 DEF Saved
<1>3. ASSUME NEW i \in Installs, MovedAway(i) PROVE First(k)'
  BY <1>t, <1>f, <1>3 DEF MovedAway, Others, TypeOK, Holding
<1>4. ASSUME NEW i \in Installs, Activated(i) PROVE First(k)'
  BY <1>t, <1>f, <1>4 DEF Activated, Others, TypeOK, Holding
<1>5. ASSUME NEW i \in Installs, NEW j \in Installs, PutBack(i, j) PROVE First(k)'
  BY <1>t, <1>f, <1>5 DEF PutBack, Others, TypeOK, Holding
<1>6. ASSUME NEW i \in Installs, Emptied(i) PROVE First(k)'
  BY <1>t, <1>f, <1>6 DEF Emptied, Others, TypeOK, Holding
<1>7. ASSUME NEW i \in Installs, Staged(i) PROVE First(k)'
  <2>1. UNCHANGED <<target, backup, expected>>
    BY <1>7 DEF Staged, Others
  <2>2. /\ pc[k] = "create" => staging[k] = NoTree
        /\ pc'[k] \in {"create"} \cup Holding => pc[k] \in {"create"} \cup Holding
        /\ pc'[k] \in {"move", "undo"} => pc[k] \in {"move", "undo"}
    BY <1>t, <1>7 DEF Staged, Created, Preserved, Filled, Discarded, Dropped, AfterOrphans, Holding,
                      StagingPhase, Early, TypeOK
  <2>3. Preserved(k) => expected[k] # NoTree
    BY DEF Preserved
  <2> QED BY <1>t, <1>f, <1>7, <2>1, <2>2, <2>3, StagedTrees, FreshIs
<1>8. ASSUME NEW i \in Installs, Thinks(i) PROVE First(k)'
  <2>0. UNCHANGED <<target, backup, staging>>
    BY <1>8 DEF Thinks
  <2>1. CASE k # i
    <3>1. pc'[k] = pc[k] /\ expected'[k] = expected[k]
      BY <1>t, <1>8, <2>1 DEF Thinks, JudgeLeftovers, InspectTarget, Go, TypeOK
    <3> QED BY <1>f, <2>0, <3>1
  <2>2. CASE k = i /\ InspectTarget(i)
    <3>1. pc[k] = "inspect" /\ pc'[k] = "create"
      BY <1>t, <2>2 DEF InspectTarget, At, Go, TypeOK
    <3> QED BY <1>t, <2>0, <3>1 DEF StagingPhase, BackupPhase, Early, Ended
  <2>3. CASE k = i /\ ~InspectTarget(i)
    <3>1. expected'[k] = expected[k]
      BY <1>8, <2>3 DEF Thinks, JudgeLeftovers
    <3>2. pc'[k] \in {"create"} \cup Holding /\ expected[k] = NoTree =>
             pc[k] \in {"create"} \cup Holding /\ pc'[k] \notin {"move", "undo"}
      <4>1. CASE \E step \in Steps : Thought(i, step) /\ pc' = [pc EXCEPT ![i] = step]
        BY <1>t, <2>3, <4>1 DEF Thought, Holding, TypeOK
      <4>2. CASE ~\E step \in Steps : Thought(i, step) /\ pc' = [pc EXCEPT ![i] = step]
        BY <1>t, <1>8, <2>3, <4>2 DEF Thinks, JudgeLeftovers, Go, AfterOrphans, Holding, TypeOK
      <4> QED BY <4>1, <4>2
    <3> QED BY <1>f, <2>0, <3>1, <3>2
  <2> QED BY <2>1, <2>2, <2>3
<1> QED BY <1>t, <1>1, <1>2, <1>3, <1>4, <1>5, <1>6, <1>7, <1>8, StepForms

LEMMA TidyKept == ASSUME IndInv, Tidy, [Next]_vars PROVE Tidy'
<1>t. TypeOK /\ StagingPhase /\ BackupPhase
  BY DEF IndInv
<1> DEFINE Left(k) == (pc'[k] \in Succeeded => staging'[k] = NoTree) /\ (pc'[k] = "installed" => backup'[k] = NoTree)
<1> SUFFICES ASSUME NEW k \in Installs, pc'[k] \in Succeeded
             PROVE  Left(k)
  BY DEF Tidy, Succeeded
<1>f. (pc[k] \in Succeeded => staging[k] = NoTree) /\ (pc[k] = "installed" => backup[k] = NoTree)
  BY DEF Tidy
<1>1. CASE UNCHANGED vars
  BY <1>f, <1>1 DEF vars, trees
<1>2. CASE Saved
  BY <1>f, <1>2 DEF Saved
<1>3. ASSUME NEW i \in Installs, MovedAway(i) \/ Activated(i) \/ \E j \in Installs : PutBack(i, j)
      PROVE  Left(k)
  BY <1>t, <1>f, <1>3 DEF MovedAway, Activated, PutBack, TypeOK, Succeeded
<1>4. ASSUME NEW i \in Installs, Emptied(i) PROVE Left(k)
  BY <1>t, <1>f, <1>4 DEF Emptied, TypeOK, StagingPhase, Succeeded
<1>5. ASSUME NEW i \in Installs, Staged(i) PROVE Left(k)
  <2>1. pc[k] = pc'[k] /\ UNCHANGED backup
    BY <1>t, <1>5 DEF Staged, Created, Preserved, Filled, Discarded, Dropped, AfterOrphans, TypeOK, Succeeded
  <2>2. staging[k] = NoTree => staging'[k] = NoTree
    BY <1>t, <1>5, <2>1, StagedTrees DEF Created, Succeeded
  <2> QED BY <1>f, <2>1, <2>2
<1>6. ASSUME NEW i \in Installs, Thinks(i) PROVE Left(k)
  <2>0. UNCHANGED <<target, backup, staging>>
    BY <1>6 DEF Thinks
  <2>1. pc[k] = pc'[k] \/ (pc[k] = "clean" /\ (pc'[k] = "installed" => backup[k] = NoTree))
    <3>1. CASE \E step \in Steps : Thought(i, step) /\ pc' = [pc EXCEPT ![i] = step]
      BY <1>t, <3>1 DEF Thought, TypeOK, Succeeded
    <3>2. CASE ~\E step \in Steps : Thought(i, step) /\ pc' = [pc EXCEPT ![i] = step]
      BY <1>t, <1>6, <3>2 DEF Thinks, JudgeLeftovers, InspectTarget, Go, AfterOrphans, TypeOK, Succeeded
    <3> QED BY <3>1, <3>2
  <2> QED BY <1>t, <1>f, <2>0, <2>1 DEF StagingPhase
<1> QED BY <1>t, <1>1, <1>2, <1>3, <1>4, <1>5, <1>6, StepForms

-----------------------------------------------------------------------------
\* History is not forgotten.
LEMMA HistoryStays ==
    ASSUME TypeOK, [Next]_vars
    PROVE  (late => late') /\ (meddled => meddled') /\ (strayed => strayed') /\ (overlapped => overlapped')
<1> USE DEF TypeOK
<1>1. CASE UNCHANGED vars \/ Saved
  BY <1>1 DEF vars, history, Saved
<1>2. ASSUME NEW i \in Installs, MovedAway(i) \/ Activated(i) \/ Emptied(i) \/ \E j \in Installs : PutBack(i, j)
      PROVE  (late => late') /\ (meddled => meddled') /\ (strayed => strayed') /\ (overlapped => overlapped')
  BY <1>2 DEF MovedAway, Activated, Emptied, PutBack, Others
<1>3. ASSUME NEW i \in Installs, Staged(i)
      PROVE  (late => late') /\ (meddled => meddled') /\ (strayed => strayed') /\ (overlapped => overlapped')
  BY <1>3 DEF Staged, Others, Created, Preserved, Filled, Discarded, Dropped
<1>4. ASSUME NEW i \in Installs, Thinks(i)
      PROVE  (late => late') /\ (meddled => meddled') /\ (strayed => strayed') /\ (overlapped => overlapped')
  BY <1>4 DEF Thinks
<1> QED BY <1>1, <1>2, <1>3, <1>4, StepForms

\* Once the settings are copied, the staging tree keeps them until it is discarded.
LEMMA CopyKept ==
    ASSUME TypeOK, StagingHeld, ~meddled', [Next]_vars, NEW k \in Installs,
           pc[k] \in Copied \cup {"activate"}, pc'[k] \in Copied \cup {"activate"}
    PROVE  staging'[k] # NoTree /\ staging'[k].data = staging[k].data
<1>h. staging[k] # NoTree
  BY DEF StagingHeld, Holding, Copied
<1>1. CASE UNCHANGED vars \/ Saved
  BY <1>h, <1>1 DEF vars, trees, Saved
<1>2. ASSUME NEW i \in Installs, MovedAway(i) \/ Activated(i) \/ Emptied(i) \/ Thinks(i)
                                 \/ \E j \in Installs : PutBack(i, j)
      PROVE  staging'[k] = staging[k]
  BY <1>2 DEF MovedAway, Activated, Emptied, PutBack, Thinks, TypeOK, Copied
<1>3. ASSUME NEW i \in Installs, Staged(i)
      PROVE  staging'[k] # NoTree /\ staging'[k].data = staging[k].data
  <2>1. \A j \in Installs : Dropped(i, j) => j # k
    BY DEF Dropped, Running, Copied, Ended
  <2>2. staging'[k] # NoTree
    <3>1. CASE k = i /\ Filled(i)
      <4>1. PICK a \in Artifacts : staging' = [staging EXCEPT ![k].files[a] = k]
        BY <3>1 DEF Filled
      <4>2. staging[k] \in Trees /\ staging'[k] = [staging[k] EXCEPT !.files[a] = k]
        BY <1>h, <4>1 DEF TypeOK
      <4>3. staging'[k] \in Trees
        BY <4>2 DEF Trees, Releases
      <4> QED BY <4>3, NoTreeAssumption
    <3>2. CASE ~(k = i /\ Filled(i))
      <4>1. staging'[k] = staging[k]
        BY <1>3, <2>1, <3>2 DEF Staged, Created, Preserved, Filled, Discarded, Dropped, TypeOK, Copied
      <4> QED BY <1>h, <4>1
    <3> QED BY <3>1, <3>2
  <2>3. k = i => ~Created(i) /\ ~Preserved(i) /\ ~Discarded(i)
    BY DEF Created, Preserved, Discarded, Copied
  <2> QED BY <1>3, <2>1, <2>2, <2>3, StagedTrees
<1> QED BY <1>h, <1>1, <1>2, <1>3, StepForms

LEMMA SettingsGrowKept ==
    ASSUME IndInv, Identities, SavedBefore, SettingsGrow, [Next]_vars, ~meddled'
    PROVE  SettingsGrow'
<1>t. TypeOK /\ TypeOK' /\ BackupPhase /\ IndInv'
  BY StepInd DEF IndInv
<1>u. ~meddled /\ Undisturbed /\ Undisturbed'
  BY <1>t, HistoryStays DEF IndInv
<1>r. \A r : Replaced(r) => Replaced(r)'
  BY <1>t, ReplacedStays
<1>n. /\ target # NoTree => target \in Trees /\ target.data \in Nat \cup {Missing}
      /\ \A j \in Installs : backup[j] # NoTree => backup[j] \in Trees
      /\ \A j \in Installs : staging[j] # NoTree => staging[j] \in Trees /\ staging[j].data \in Nat \cup {Missing}
      /\ \A j \in Installs : expected[j] # NoTree => expected[j].data \in Nat \cup {Missing}
  BY <1>t, TreesKeep, BoundsAssumption DEF TypeOK, Sight, Settings
<1> SUFFICES ASSUME NEW k \in Installs, pc'[k] \in Watching, expected'[k] # NoTree
             PROVE  /\ Replaced(expected[k].id)'
                    /\ target' # NoTree => Follows(k, target)'
                    /\ \A j \in Installs : backup'[j] # NoTree /\ Whole(backup[j])' => Follows(k, backup[j])'
                    /\ ~strayed' /\ pc'[k] \in Copied => Older(expected'[k].data, staging'[k].data)
  BY DEF SettingsGrow
<1>g. pc[k] \in Watching /\ expected[k] # NoTree =>
        /\ Replaced(expected[k].id)
        /\ target # NoTree => Follows(k, target)
        /\ \A j \in Installs : backup[j] # NoTree /\ Whole(backup[j]) => Follows(k, backup[j])
        /\ ~strayed /\ pc[k] \in Copied => Older(expected[k].data, staging[k].data)
  BY DEF SettingsGrow
<1>s. strayed => strayed'
  BY <1>t, HistoryStays
\* It looks at the target: what it sees is the tree as it is.
<1>1. CASE InspectTarget(k)
  <2>1. /\ target' = target /\ backup' = backup /\ expected'[k] = Seen(target) /\ pc'[k] = "create"
    BY <1>t, <1>1 DEF InspectTarget, Go, trees, TypeOK
  <2>2. target # NoTree /\ expected'[k].id = target.id /\ expected'[k].data = target.data
    BY <1>n, <2>1, TreesKeep DEF Seen
  <2>3. Replaced(target.id) /\ \A j \in Installs : backup[j] # NoTree => backup[j].id # target.id
    BY <2>2 DEF Identities
  <2>4. Follows(k, target)' /\ \A j \in Installs : backup'[j] # NoTree => Follows(k, backup[j])'
    BY <1>n, <2>1, <2>2, <2>3, Ages DEF Follows, Copied
  <2> QED BY <1>r, <2>1, <2>2, <2>3, <2>4 DEF Copied
\* It copies what has the target's name.
<1>2. CASE Preserved(k) /\ Staged(k)
  <2>1. /\ target' = target /\ backup' = backup /\ expected' = expected /\ pc[k] = "preserve"
        /\ target # NoTree /\ staging[k] # NoTree /\ staging' = [staging EXCEPT ![k].data = target.data]
        /\ strayed' = (strayed \/ target.id # expected[k].id)
    BY <1>2 DEF Preserved, Staged, Others
  <2>2. staging'[k].data = target.data
    BY <1>t, <1>n, <2>1, TreesKeep DEF TypeOK
  <2>3. /\ Replaced(expected[k].id) /\ Follows(k, target)
        /\ \A j \in Installs : backup[j] # NoTree /\ Whole(backup[j]) => Follows(k, backup[j])
    BY <1>g, <2>1 DEF Watching
  <2>4. \A j \in Installs : backup[j] # NoTree => backup[j].id # target.id
    BY <2>1 DEF Identities
  <2>5. Follows(k, target)' /\ (~strayed' => Older(expected[k].data, target.data))
    BY <1>n, <2>1, <2>2, <2>3, Ages DEF Follows
  <2>6. \A j \in Installs : backup'[j] # NoTree /\ Whole(backup[j])' => Follows(k, backup[j])'
    BY <2>1, <2>3, <2>4 DEF Follows, Whole
  <2> QED BY <1>r, <2>1, <2>2, <2>3, <2>5, <2>6
\* Otherwise only the trees change.
<1>3. CASE ~InspectTarget(k) /\ ~(Preserved(k) /\ Staged(k))
  <2>1. /\ pc[k] \in Watching /\ expected'[k] = expected[k]
        /\ pc'[k] \in Copied => pc[k] \in Copied \/ (~InspectTarget(k) /\ expected[k] = NoTree)
    <3>1. CASE UNCHANGED vars \/ Saved
      BY <3>1 DEF vars, own, Saved
    <3>2. ASSUME NEW i \in Installs, MovedAway(i) \/ Activated(i) \/ Emptied(i) \/ \E j \in Installs : PutBack(i, j)
          PROVE  pc[k] = pc'[k] /\ expected' = expected
      BY <1>t, <3>2 DEF MovedAway, Activated, Emptied, PutBack, Others, TypeOK, Watching, Copied, Ended
    <3>3. ASSUME NEW i \in Installs, Staged(i)
          PROVE  pc[k] \in Watching /\ expected' = expected /\ (pc'[k] \in Copied => pc[k] \in Copied)
      BY <1>t, <1>3, <3>3 DEF Staged, Others, Created, Preserved, Filled, Discarded, Dropped, AfterOrphans, TypeOK,
                         Watching, Copied
    <3>4. ASSUME NEW i \in Installs, Thinks(i)
          PROVE  /\ pc[k] \in Watching /\ expected'[k] = expected[k]
                 /\ pc'[k] \in Copied => pc[k] \in Copied \/ expected[k] = NoTree
      <4>1. CASE \E step \in Steps : Thought(i, step) /\ pc' = [pc EXCEPT ![i] = step]
        <5>1. InspectTarget(i) => FALSE
          BY <1>t, <4>1 DEF InspectTarget, At, Go, Thought, TypeOK, Holding, Running, Ended
        <5> QED BY <1>t, <3>4, <4>1, <5>1 DEF Thinks, JudgeLeftovers, Thought, TypeOK, Watching, Copied, Ended, Holding
      <4>2. CASE ~\E step \in Steps : Thought(i, step) /\ pc' = [pc EXCEPT ![i] = step]
        <5>1. CASE i = k
          BY <1>t, <1>3, <3>4, <4>2, <5>1 DEF Thinks, JudgeLeftovers, Go, AfterOrphans, TypeOK, Watching, Copied
        <5>2. CASE i # k
          BY <1>t, <3>4, <4>2, <5>2 DEF Thinks, JudgeLeftovers, InspectTarget, Go, TypeOK
        <5> QED BY <5>1, <5>2
      <4> QED BY <4>1, <4>2
    <3> QED BY <1>t, <3>1, <3>2, <3>3, <3>4, StepForms
  <2>2. pc'[k] \in Copied => pc[k] \in Copied /\ staging'[k].data = staging[k].data
    BY <1>t, <1>u, <2>1, CopyKept DEF Undisturbed
  <2>3. /\ Replaced(expected[k].id)
        /\ target # NoTree => Follows(k, target)
        /\ \A j \in Installs : backup[j] # NoTree /\ Whole(backup[j]) => Follows(k, backup[j])
        /\ ~strayed /\ pc[k] \in Copied => Older(expected[k].data, staging[k].data)
    BY <1>g, <2>1
  <2>4. ASSUME NEW tree, Follows(k, tree), NEW after, after = tree \/ (after.id = tree.id /\ after.data = edits' /\ Saved)
        PROVE  after.id = expected'[k].id =>
                 /\ Older(expected'[k].data, after.data)
                 /\ ~strayed' /\ pc'[k] \in Copied => Older(staging'[k].data, after.data)
    <3>1. CASE after = tree
      BY <1>s, <2>1, <2>2, <2>4, <3>1 DEF Follows
    <3>2. CASE after.id = tree.id /\ after.data = edits' /\ Saved
      <4>1. edits \in Nat /\ edits # Missing /\ edits' = edits + 1 /\ edits' \in Nat \cup {Missing}
        BY <1>t, <3>2, BoundsAssumption, InstallsAssumption DEF TypeOK, Saved
      <4>2. Older(expected[k].data, edits) /\ (staging[k] # NoTree => Older(staging[k].data, edits))
        BY <2>1 DEF SavedBefore
      <4>3. pc[k] \in Copied => staging[k] # NoTree
        BY <1>u DEF Undisturbed, StagingHeld, Holding, Copied
      <4>4. /\ Older(expected[k].data, edits')
            /\ pc[k] \in Copied => Older(staging[k].data, edits')
        BY <1>n, <2>1, <4>1, <4>2, <4>3, Ages
      <4> QED BY <2>1, <2>2, <3>2, <4>4
    <3> QED BY <2>4, <3>1, <3>2
  <2>5. Replaced(expected[k].id)' /\ (~strayed' /\ pc'[k] \in Copied => Older(expected'[k].data, staging'[k].data))
    BY <1>r, <1>s, <2>1, <2>2, <2>3
  <2>6. target' # NoTree => Follows(k, target)'
    <3> SUFFICES ASSUME target' # NoTree, target'.id = expected'[k].id
                 PROVE  /\ Older(expected'[k].data, target'.data)
                        /\ ~strayed' /\ pc'[k] \in Copied => Older(staging'[k].data, target'.data)
      BY DEF Follows
    <3>1. CASE target' = target
      BY <2>3, <2>4, <3>1
    <3>2. CASE Saved
      <4>1. target # NoTree /\ target'.id = target.id /\ target'.data = edits'
        BY <1>n, <3>2, TreesKeep DEF Saved
      <4> QED BY <2>3, <2>4, <3>2, <4>1
    <3>3. ASSUME NEW i \in Installs, Activated(i) PROVE FALSE
      <4>1. pc[i] = "activate" /\ target' = staging[i] /\ staging[i] # NoTree
        BY <3>3 DEF Activated
      <4>2. expected[k].id = i
        BY <2>1, <4>1 DEF Identities
      <4> QED BY <2>3, <4>1, <4>2 DEF Replaced, Ended
    <3>4. ASSUME NEW i \in Installs, NEW j \in Installs, PutBack(i, j)
          PROVE  /\ Older(expected'[k].data, target'.data)
                 /\ ~strayed' /\ pc'[k] \in Copied => Older(staging'[k].data, target'.data)
      <4>1. backup[j] # NoTree /\ target' = backup[j] /\ Whole(target')
        BY <1>u, <3>4 DEF PutBack, Undisturbed
      <4>2. Whole(backup[j])
        BY <4>1 DEF Whole
      <4> QED BY <2>3, <2>4, <4>1, <4>2
    <3>5. ASSUME NEW i \in Installs, MovedAway(i) PROVE FALSE
      BY <3>5 DEF MovedAway
    <3> QED BY <1>t, <3>1, <3>2, <3>3, <3>4, <3>5, StepForms DEF vars, trees, Emptied, Staged, Thinks
  <2>7. ASSUME NEW j \in Installs, backup'[j] # NoTree, Whole(backup[j])' PROVE Follows(k, backup[j])'
    <3>1. CASE backup'[j] = backup[j]
      <4>1. Whole(backup[j])
        BY <2>7, <3>1 DEF Whole
      <4> QED BY <2>3, <2>4, <2>7, <3>1, <4>1 DEF Follows
    <3>2. ASSUME NEW i \in Installs, MovedAway(i), i = j PROVE Follows(k, backup[j])'
      <4>1. target # NoTree /\ backup'[j] = target
        BY <1>t, <3>2 DEF MovedAway, TypeOK
      <4> QED BY <2>3, <2>4, <4>1 DEF Follows
    <3>3. ASSUME NEW i \in Installs, Emptied(i), i = j PROVE backup'[j] = backup[j]
      <4>1. backup[j] # NoTree /\ backup'[j] = Hollow(backup[j])
        BY <1>t, <2>7, <3>3 DEF Emptied, TypeOK
      <4>2. ~Whole(Hollow(backup[j]))
        BY <1>n, <4>1, TreesKeep
      <4> QED BY <2>7, <4>1, <4>2 DEF Whole
    <3>4. ASSUME NEW i \in Installs, MovedAway(i) \/ Activated(i) \/ Emptied(i) \/ Staged(i) \/ Thinks(i)
                                     \/ \E l \in Installs : PutBack(i, l)
          PROVE  \/ backup'[j] = backup[j]
                 \/ MovedAway(i) /\ i = j
                 \/ Emptied(i) /\ i = j
      BY <1>t, <2>7, <3>4 DEF MovedAway, Activated, Emptied, Staged, Thinks, PutBack, TypeOK
    <3>5. CASE UNCHANGED vars \/ Saved
      BY <3>1, <3>5 DEF vars, trees, Saved
    <3> QED BY <1>t, <3>1, <3>2, <3>3, <3>4, <3>5, StepForms
  <2> QED BY <2>5, <2>6, <2>7
<1> QED BY <1>1, <1>2, <1>3

LEMMA CopiesKept ==
    ASSUME IndInv, FirstInstall, SettingsGrow, CopyIsExact, LatestIsSafe, [Next]_vars,
           ~meddled, ~late, ~strayed, ~meddled', ~late', ~strayed'
    PROVE  CopyIsExact' /\ LatestIsSafe'
<1>t. TypeOK /\ BackupPhase /\ Undisturbed
  BY DEF IndInv
<1>n. /\ target # NoTree => target \in Trees /\ target.data \in Nat \cup {Missing}
      /\ \A j \in Installs : staging[j] # NoTree => staging[j] \in Trees /\ staging[j].data \in Nat \cup {Missing}
  BY <1>t, TreesKeep DEF TypeOK
\* The move finds the target as it was seen, so the copy in between is of the same settings.
<1>c. ASSUME NEW k \in Installs, pc'[k] = "activate", backup'[k] # NoTree
      PROVE  staging'[k].data = backup'[k].data
  <2>1. CASE MovedAway(k)
    <3>1. pc[k] = "move" /\ target # NoTree /\ backup'[k] = target /\ staging' = staging /\ Unchanged(k)
      BY <1>t, <1>c, <2>1 DEF MovedAway, TypeOK
    <3>2. expected[k] # NoTree /\ expected[k].id = target.id /\ expected[k].data = target.data
      BY <1>n, <3>1, TreesKeep DEF Unchanged
    <3>3. staging[k] # NoTree
      BY <1>t, <3>1 DEF Undisturbed, StagingHeld, Holding
    <3>4. Follows(k, target) /\ Older(expected[k].data, staging[k].data)
      BY <3>1, <3>2 DEF SettingsGrow, Watching, Copied
    <3>5. Older(staging[k].data, target.data) /\ Older(target.data, staging[k].data)
      BY <3>1, <3>2, <3>4 DEF Follows, Copied
    <3> QED BY <1>n, <3>1, <3>3, <3>5, Ages
  <2>2. CASE ~MovedAway(k)
    <3>1. backup'[k] = backup[k] /\ (pc[k] = "activate" \/ (pc[k] = "check" /\ expected[k] = NoTree))
      <4>1. CASE UNCHANGED vars \/ Saved
        BY <1>c, <4>1 DEF vars, trees, Saved
      <4>2. ASSUME NEW i \in Installs, MovedAway(i) \/ Activated(i) \/ Emptied(i) \/ Staged(i)
                                       \/ \E j \in Installs : PutBack(i, j)
            PROVE  backup'[k] = backup[k] /\ pc[k] = "activate"
        BY <1>t, <1>c, <2>2, <4>2 DEF MovedAway, Activated, Emptied, PutBack, Staged, Created, Preserved, Filled,
                                 Discarded, Dropped, AfterOrphans, TypeOK
      <4>3. ASSUME NEW i \in Installs, Thinks(i)
            PROVE  backup'[k] = backup[k] /\ (pc[k] = "activate" \/ (pc[k] = "check" /\ expected[k] = NoTree))
        <5>1. CASE \E step \in Steps : Thought(i, step) /\ pc' = [pc EXCEPT ![i] = step]
          BY <1>t, <1>c, <4>3, <5>1 DEF Thinks, Thought, TypeOK
        <5>2. CASE ~\E step \in Steps : Thought(i, step) /\ pc' = [pc EXCEPT ![i] = step]
          BY <1>t, <1>c, <4>3, <5>2 DEF Thinks, JudgeLeftovers, InspectTarget, Go, AfterOrphans, TypeOK
        <5> QED BY <5>1, <5>2
      <4> QED BY <1>t, <4>1, <4>2, <4>3, StepForms
    <3>2. pc[k] = "activate"
      BY <1>c, <3>1 DEF FirstInstall, Holding
    <3>3. staging'[k].data = staging[k].data
      BY <1>t, <1>c, <3>2, CopyKept DEF Undisturbed
    <3> QED BY <1>c, <3>1, <3>2, <3>3 DEF CopyIsExact
  <2> QED BY <2>1, <2>2
<1>l. ASSUME latest' # Missing
      PROVE  \/ target' # NoTree /\ target'.data = latest'
             \/ \E j \in Installs : backup'[j] # NoTree /\ pc'[j] # "clean" /\ backup'[j].data = latest'
  <2> DEFINE Safe(j) == backup[j] # NoTree /\ pc[j] # "clean" /\ backup[j].data = latest
             There == target # NoTree /\ target.data = latest
  <2>0. latest' = latest => There \/ \E j \in Installs : Safe(j)
    BY <1>l DEF LatestIsSafe
  <2>1. CASE UNCHANGED vars
    BY <2>0, <2>1 DEF vars, trees, history
  <2>2. CASE Saved
    <3>1. target \in Trees /\ target' = [target EXCEPT !.data = edits'] /\ edits' \in Settings /\ latest' = edits'
      BY <1>t, <1>n, <2>2, StepTyped DEF Saved, TypeOK, Settings
    <3>2. target' \in Trees /\ target'.data = latest'
      BY <3>1 DEF Trees
    <3> QED BY <3>2, NoTreeAssumption
  <2>3. ASSUME NEW i \in Installs, MovedAway(i) PROVE There' \/ \E j \in Installs : Safe(j)'
    <3>1. pc[i] = "move" /\ backup[i] = NoTree /\ latest' = latest
      BY <1>t, <2>3 DEF MovedAway, Others, BackupPhase, Ended
    <3>2. CASE There
      <4>1. Safe(i)'
        BY <1>t, <2>3, <3>1, <3>2 DEF MovedAway, TypeOK
      <4> QED BY <4>1
    <3>3. ASSUME NEW j \in Installs, Safe(j) PROVE Safe(j)'
      BY <1>t, <2>3, <3>1, <3>3 DEF MovedAway, TypeOK
    <3> QED BY <2>0, <3>1, <3>2, <3>3
  <2>4. ASSUME NEW i \in Installs, Activated(i) PROVE There' \/ \E j \in Installs : Safe(j)'
    <3>1. /\ pc[i] = "activate" /\ latest' = latest /\ backup' = backup /\ ~There
          /\ target' = staging[i] /\ target' # NoTree
      BY <2>4 DEF Activated, Others
    <3>2. PICK j \in Installs : Safe(j)
      BY <2>0, <3>1
    <3>3. CASE j = i
      <4>1. There'
        BY <3>1, <3>2, <3>3 DEF CopyIsExact
      <4> QED BY <4>1
    <3>4. CASE j # i
      <4>1. Safe(j)'
        BY <1>t, <2>4, <3>1, <3>2, <3>4 DEF Activated, TypeOK
      <4> QED BY <4>1
    <3> QED BY <3>3, <3>4
  <2>5. ASSUME NEW i \in Installs, NEW l \in Installs, PutBack(i, l) PROVE There' \/ \E j \in Installs : Safe(j)'
    <3>1. /\ latest' = latest /\ ~There /\ target' = backup[l] /\ backup[l] # NoTree
          /\ backup' = [backup EXCEPT ![l] = NoTree] /\ pc'[i] # "clean" /\ \A k \in Installs : k # i => pc'[k] = pc[k]
      BY <1>t, <2>5 DEF PutBack, Others, TypeOK
    <3>2. PICK j \in Installs : Safe(j)
      BY <2>0, <3>1
    <3>3. CASE j = l
      BY <3>1, <3>2, <3>3
    <3>4. CASE j # l
      <4>1. Safe(j)'
        BY <1>t, <3>1, <3>2, <3>4 DEF TypeOK
      <4> QED BY <4>1
    <3> QED BY <3>3, <3>4
  <2>6. ASSUME NEW i \in Installs, Emptied(i) PROVE There' \/ \E j \in Installs : Safe(j)'
    <3>1. pc[i] = "clean" /\ latest' = latest /\ target' = target
      BY <2>6 DEF Emptied, Others
    <3>2. ASSUME NEW j \in Installs, Safe(j) PROVE Safe(j)'
      BY <1>t, <2>6, <3>1, <3>2 DEF Emptied, TypeOK
    <3> QED BY <2>0, <3>1, <3>2
  <2>7. ASSUME NEW i \in Installs, Staged(i) \/ Thinks(i) PROVE There' \/ \E j \in Installs : Safe(j)'
    <3>1. latest' = latest /\ target' = target /\ backup' = backup
      BY <2>7 DEF Staged, Others, Thinks
    <3>2. \A k \in Installs : pc'[k] = "clean" => pc[k] = "clean"
      <4>1. ~Activated(i)
        BY <1>t, <2>7 DEF Activated, Staged, Thinks
      <4> QED BY <1>t, <2>7, <4>1, PcForms
    <3>3. ASSUME NEW j \in Installs, Safe(j) PROVE Safe(j)'
      BY <3>1, <3>2, <3>3
    <3> QED BY <2>0, <3>1, <3>3
  <2> QED BY <1>t, <2>1, <2>2, <2>3, <2>4, <2>5, <2>6, <2>7, StepForms
<1> QED BY <1>c, <1>l DEF CopyIsExact, LatestIsSafe

-----------------------------------------------------------------------------
\* In turn, a step is one of the only installation that runs.
LEMMA OneRuns ==
    ASSUME TypeOK, Alone, ~overlapped', [Next]_vars, NEW i \in Installs,
           \/ MovedAway(i) \/ Activated(i) \/ Emptied(i) \/ Staged(i) \/ Thinks(i)
           \/ \E j \in Installs : PutBack(i, j)
    PROVE  \A k \in Installs : k # i => ~Running(k) /\ ~Running(k)' /\ pc'[k] = pc[k]
<1>1. pc[i] \notin Ended /\ \A k \in Installs : k # i => pc'[k] = pc[k]
  BY PcForms
<1>2. CASE Running(i)
  BY <1>1, <1>2 DEF Alone, Running
<1>3. CASE ~Running(i)
  <2>1. pc[i] = "idle" /\ Thinks(i)
    BY <1>1, <1>3, PcForms DEF Running
  <2>2. overlapped' = (overlapped \/ \E j \in Installs : Running(j))
    <3>1. ~\E step \in Steps : Thought(i, step)
      BY <1>3, <2>1 DEF Thought, Holding
    <3> QED BY <2>1, <3>1 DEF Thinks, JudgeLeftovers, InspectTarget, At
  <2> QED BY <1>1, <2>2 DEF Running
<1> QED BY <1>2, <1>3

\* What a step of i does to the steps and trees of the installations, in turn.
LEMMA InTurnKept ==
    ASSUME IndInv, Identities, FirstInstall, InTurn, [Next]_vars, ~overlapped, ~overlapped'
    PROVE  InTurn'
<1>t. TypeOK /\ TypeOK' /\ StagingPhase /\ BackupPhase
  BY StepTyped DEF IndInv
<1>a. ~strayed /\ Alone /\ OneOfAKind /\ Recovering /\ Recovered /\ Undisputed /\ BesideSuccessor /\ Refused
  BY DEF InTurn
<1>n. /\ target # NoTree => target \in Trees
      /\ \A j \in Installs : backup[j] # NoTree => backup[j] \in Trees
      /\ \A j \in Installs : staging[j] # NoTree => staging[j] \in Trees
  BY <1>t DEF TypeOK
<1>1. CASE UNCHANGED vars
  BY <1>a, <1>1 DEF vars, trees, own, history, InTurn, Alone, OneOfAKind, Recovering, Recovered, Undisputed,
                    BesideSuccessor, Refused, Running, Present
<1>2. CASE Saved
  <2>1. /\ UNCHANGED <<backup, staging, pc, expected, orphan, rescue, strayed>>
        /\ target # NoTree /\ target' # NoTree /\ target'.id = target.id
    <3>1. target' = [target EXCEPT !.data = edits'] /\ edits' \in Settings /\ target \in Trees
      BY <1>t, <1>n, <1>2 DEF Saved, TypeOK, Settings
    <3>2. target' \in Trees
      BY <3>1 DEF Trees
    <3> QED BY <1>2, <3>1, <3>2, NoTreeAssumption, TreesKeep DEF Saved
  <2>2. Alone' /\ OneOfAKind' /\ Recovered'
    BY <1>a, <2>1 DEF Alone, OneOfAKind, Recovered, Running
  <2>3. Recovering'
    BY <1>a, <2>1 DEF Recovering, Present
  <2>4. Undisputed' /\ BesideSuccessor' /\ Refused'
    BY <1>a, <2>1 DEF Undisputed, BesideSuccessor, Refused, Present
  <2> QED BY <1>a, <2>1, <2>2, <2>3, <2>4 DEF InTurn
<1>3. ASSUME NEW i \in Installs,
             \/ MovedAway(i) \/ Activated(i) \/ Emptied(i) \/ Staged(i) \/ Thinks(i)
             \/ \E j \in Installs : PutBack(i, j)
      PROVE  InTurn'
  <2>o. /\ \A k \in Installs : k # i => ~Running(k) /\ ~Running(k)' /\ pc'[k] = pc[k]
        /\ pc[i] \notin Ended
    BY <1>t, <1>a, <1>3, OneRuns, PcForms
  <2>al. Alone'
    BY <2>o DEF Alone
  <2>r. \A k \in Installs : k # i => pc[k] \in {"idle"} \cup Ended
    BY <2>o DEF Running
  <2>st. ~strayed'
    <3>1. Preserved(i) => target.id = expected[i].id
      BY <1>a DEF Preserved, Undisputed, Watching
    <3> QED BY <1>a, <1>3, <3>1 DEF MovedAway, Activated, Emptied, PutBack, Staged, Created, Preserved, Filled,
                                  Discarded, Dropped, Thinks
\* It is enough to look at i, the backups and the refusals.
  <2> DEFINE Recovers == /\ pc[i] \in {"drop", "recheck", "restore"} =>
                              rescue[i] = Present(backup) /\ (rescue[i] # {} => target = NoTree)
                         /\ pc[i] = "drop" => orphan[i] = Present(staging)
                         /\ pc[i] \in {"recheck", "restore"} => Present(staging) = {} /\ rescue[i] # {}
             HasRecovered == pc[i] \in {"inspect", "create", "clean"} \cup Holding =>
                               \A j \in Installs \ {i} : staging[j] = NoTree /\ backup[j] = NoTree
             IsUndisputed == /\ pc[i] \in Watching => IF expected[i] = NoTree
                                                        THEN target = NoTree
                                                        ELSE target # NoTree /\ target.id = expected[i].id
                             /\ pc[i] = "activate" => target = NoTree /\ (expected[i] # NoTree => backup[i] # NoTree)
                             /\ pc[i] = "clean" => target # NoTree
  <2>i. Recovers /\ HasRecovered /\ IsUndisputed
    BY <1>a DEF Recovering, Recovered, Undisputed
  <2>q. SUFFICES OneOfAKind' /\ Recovers' /\ HasRecovered' /\ IsUndisputed' /\ BesideSuccessor' /\ Refused'
    <3>1. \A k \in Installs : k # i => pc'[k] \in {"idle"} \cup Ended
      BY <2>o, <2>r
    <3>2. HasRecovered' => Recovered'
      BY <3>1 DEF Recovered, Ended, Holding
    <3>3. Recovers' => Recovering'
      BY <3>1 DEF Recovering, Ended
    <3>4. IsUndisputed' => Undisputed'
      BY <3>1 DEF Undisputed, Ended, Watching, Copied
    <3> QED BY <2>al, <2>st, <3>2, <3>3, <3>4 DEF InTurn
  <2>1. CASE MovedAway(i)
    <3>1. /\ pc[i] = "move" /\ pc'[i] = "activate" /\ target # NoTree /\ target' = NoTree /\ staging' = staging
          /\ backup'[i] = target /\ (\A k \in Installs : k # i => backup'[k] = backup[k]) /\ expected' = expected
      BY <1>t, <2>1 DEF MovedAway, Others, TypeOK
    <3>2. \A j \in Installs \ {i} : staging[j] = NoTree /\ backup[j] = NoTree
      BY <2>i, <3>1 DEF Holding
    <3>3. OneOfAKind' /\ Recovers' /\ HasRecovered' /\ IsUndisputed' /\ BesideSuccessor'
      BY <1>a, <3>1, <3>2 DEF OneOfAKind, BesideSuccessor, Watching, Copied
    <3>4. Refused'
      <4>1. \A k \in Installs : pc[k] # "refused"
        BY <1>a, <3>1, <3>2 DEF Refused, Present
      <4> QED BY <2>o, <3>1, <4>1 DEF Refused
    <3> QED BY <3>3, <3>4
  <2>2. CASE Activated(i)
    <3>1. /\ pc[i] = "activate" /\ pc'[i] = "clean" /\ target = NoTree /\ target' # NoTree /\ target'.id = i
          /\ backup' = backup /\ staging'[i] = NoTree /\ \A k \in Installs : k # i => staging'[k] = staging[k]
      BY <1>t, <2>2 DEF Activated, Identities, TypeOK
    <3>2. \A j \in Installs \ {i} : staging[j] = NoTree /\ backup[j] = NoTree
      BY <2>i, <3>1 DEF Holding
    <3>3. OneOfAKind' /\ Recovers' /\ HasRecovered' /\ IsUndisputed' /\ BesideSuccessor'
      BY <1>a, <3>1, <3>2 DEF OneOfAKind, BesideSuccessor, Watching, Copied
    <3>4. Refused'
      <4>1. \A k \in Installs : pc[k] # "refused"
        BY <1>a, <3>1, <3>2 DEF Refused
      <4> QED BY <2>o, <3>1, <4>1 DEF Refused
    <3> QED BY <3>3, <3>4
  <2>3. CASE Emptied(i)
    <3>1. /\ pc[i] = "clean" /\ pc'[i] \in {"clean", "installed"} /\ target' = target /\ staging' = staging
          /\ backup[i] # NoTree /\ (\A k \in Installs : k # i => backup'[k] = backup[k])
          /\ pc'[i] = "clean" \/ backup'[i] = NoTree
      BY <1>t, <2>3 DEF Emptied, Others, TypeOK
    <3>2. \A j \in Installs \ {i} : staging[j] = NoTree /\ backup[j] = NoTree
      BY <2>i, <3>1
    <3>3. OneOfAKind' /\ Recovers' /\ HasRecovered' /\ IsUndisputed' /\ BesideSuccessor'
      BY <1>a, <2>i, <3>1, <3>2 DEF OneOfAKind, BesideSuccessor, Watching, Copied, Holding
    <3>4. Refused'
      <4>1. \A k \in Installs : pc[k] # "refused"
        BY <1>a, <3>1, <3>2 DEF Refused, Present
      <4> QED BY <2>o, <3>1, <4>1 DEF Refused
    <3> QED BY <3>3, <3>4
  <2>4. ASSUME NEW j \in Installs, PutBack(i, j)
        PROVE  OneOfAKind' /\ Recovers' /\ HasRecovered' /\ IsUndisputed' /\ BesideSuccessor' /\ Refused'
    <3>1. /\ \/ pc[i] = "undo" /\ j = i /\ pc'[i] = "discard"
             \/ pc[i] = "restore" /\ pc'[i] = "inspect"
          /\ target = NoTree /\ backup[j] # NoTree /\ target' = backup[j] /\ staging' = staging
          /\ backup'[j] = NoTree /\ \A k \in Installs : k # j => backup'[k] = backup[k]
      BY <1>t, <2>4 DEF PutBack, Others, TypeOK
    <3>2. \A k \in Installs : backup'[k] = NoTree
      BY <1>a, <3>1 DEF OneOfAKind
    <3>3. \A k \in Installs : k # i => staging[k] = NoTree
      BY <2>i, <3>1 DEF Holding, Present
    <3>4. OneOfAKind' /\ Recovers' /\ HasRecovered' /\ IsUndisputed' /\ BesideSuccessor'
      BY <1>a, <3>1, <3>2, <3>3 DEF OneOfAKind, BesideSuccessor, Watching, Copied, Holding
    <3>5. Refused'
      <4>1. \A k \in Installs : pc[k] # "refused"
        BY <1>a, <3>1 DEF Refused
      <4> QED BY <2>o, <3>1, <4>1 DEF Refused
    <3> QED BY <3>4, <3>5
  <2>5. CASE Staged(i)
    <3>0. target' = target /\ backup' = backup /\ UNCHANGED <<expected, orphan, rescue>>
      BY <2>5 DEF Staged, Others
    <3>b. BesideSuccessor' /\ Refused'
      <4>1. pc[i] \notin {"clean", "failed", "dead", "uncleaned"} /\ pc'[i] # "refused"
        BY <1>t, <2>5 DEF Staged, Created, Preserved, Filled, Discarded, Dropped, AfterOrphans, TypeOK
      <4> QED BY <1>a, <2>o, <3>0, <4>1 DEF BesideSuccessor, Refused, Present
    <3>1. CASE Created(i)
      <4>1. /\ pc[i] = "create" /\ pc'[i] \in {"preserve", "failed"}
            /\ \A k \in Installs : k # i => staging'[k] = staging[k]
        BY <1>t, <3>1 DEF Created, TypeOK
      <4> QED BY <1>a, <2>i, <3>0, <3>b, <4>1 DEF OneOfAKind, Watching, Copied, Holding
    <3>2. CASE Preserved(i) \/ Filled(i) \/ Discarded(i)
      <4>1. /\ pc[i] \in {"preserve", "copy", "discard"}
            /\ pc'[i] \in Holding \cup {"failed"} /\ pc'[i] \notin {"activate", "undo", "preserve"}
            /\ pc'[i] \in Watching => pc[i] \in Watching
            /\ \A k \in Installs : k # i => staging'[k] = staging[k]
        BY <1>t, <3>2 DEF Preserved, Filled, Discarded, TypeOK, Holding, Watching, Copied
      <4>2. \A k \in Installs \ {i} : staging[k] = NoTree /\ backup[k] = NoTree
        BY <2>i, <4>1 DEF Holding
      <4> QED BY <1>a, <2>i, <3>0, <3>b, <4>1, <4>2 DEF OneOfAKind, Holding
    <3>3. ASSUME NEW j \in Installs, Dropped(i, j)
          PROVE  OneOfAKind' /\ Recovers' /\ HasRecovered' /\ IsUndisputed'
      <4>1. /\ pc[i] = "drop" /\ staging[j] # NoTree
            /\ \A k \in Installs : k # j => staging'[k] = staging[k] /\ staging[k] = NoTree
        BY <1>t, <1>a, <3>3 DEF Dropped, TypeOK, OneOfAKind
      <4>2. CASE pc' = pc /\ staging' = [staging EXCEPT ![j] = Hollow(staging[j])]
        <5>1. staging'[j] # NoTree
          BY <1>t, <1>n, <4>1, <4>2, TreesKeep DEF TypeOK
        <5>2. Present(staging') = Present(staging)
          BY <4>1, <5>1 DEF Present
        <5> QED BY <1>a, <2>i, <3>0, <4>1, <4>2, <5>2 DEF OneOfAKind, Watching, Copied, Holding, Present
      <4>3. CASE pc' = [pc EXCEPT ![i] = AfterOrphans(rescue[i])] /\ staging' = [staging EXCEPT ![j] = NoTree]
        <5>1. \A k \in Installs : staging'[k] = NoTree
          BY <1>t, <4>1, <4>3 DEF TypeOK
        <5>2. Present(staging') = {}
          BY <5>1 DEF Present
        <5>3. rescue[i] = Present(backup) /\ (rescue[i] # {} => target = NoTree)
          BY <2>i, <4>1
        <5>4. CASE rescue[i] = {}
          <6>1. pc'[i] = "inspect" /\ \A k \in Installs : backup[k] = NoTree
            BY <1>t, <4>3, <5>3, <5>4 DEF AfterOrphans, Present, TypeOK
          <6> QED BY <1>a, <3>0, <5>1, <6>1 DEF OneOfAKind, Watching, Copied, Holding
        <5>5. CASE rescue[i] # {}
          <6>1. pc'[i] = "recheck"
            BY <1>t, <4>3, <5>5 DEF AfterOrphans, TypeOK
          <6>2. Recovers'
            BY <3>0, <5>2, <5>3, <5>5, <6>1 DEF Present
          <6> QED BY <1>a, <3>0, <5>1, <6>1, <6>2 DEF OneOfAKind, Watching, Copied, Holding
        <5> QED BY <5>4, <5>5
      <4> QED BY <3>3, <4>2, <4>3 DEF Dropped
    <3> QED BY <2>5, <3>b, <3>1, <3>2, <3>3 DEF Staged
  <2>6. CASE Thinks(i)
    <3>0. target' = target /\ backup' = backup /\ staging' = staging
      BY <2>6 DEF Thinks
    <3>k. OneOfAKind'
      BY <1>a, <3>0 DEF OneOfAKind
    <3>1. CASE JudgeLeftovers(i)
      <4>1. /\ pc[i] = "recover" /\ orphan'[i] = Present(staging) /\ rescue'[i] = Present(backup) /\ expected' = expected
            /\ \/ Present(staging) = {} /\ Present(backup) = {} /\ pc'[i] = "inspect"
               \/ /\ Present(staging) \cup Present(backup) # {} /\ ~Recoverable(Present(staging), Present(backup))
                  /\ pc'[i] = "refused"
               \/ Present(staging) # {} /\ Recoverable(Present(staging), Present(backup)) /\ pc'[i] = "drop"
               \/ /\ Present(staging) = {} /\ Recoverable(Present(staging), Present(backup))
                  /\ pc'[i] = "recheck"
        BY <1>t, <3>1 DEF JudgeLeftovers, At, Go, TypeOK
      <4>2. ASSUME NEW S \in SUBSET Installs, \A j, k \in S : j = k
            PROVE  S = {} \/ Cardinality(S) = 1
        <5>1. S # {} => \E j \in Installs : S = {j}
          BY <4>2
        <5> QED BY <5>1, FS_Singleton
      <4>3. /\ Present(staging) = {} \/ Cardinality(Present(staging)) = 1
            /\ Present(backup) = {} \/ Cardinality(Present(backup)) = 1
        BY <1>a, <4>2 DEF OneOfAKind, Present
      <4>4. Cardinality({}) = 0
        BY FS_EmptySet
      <4>5. Recovers' /\ HasRecovered' /\ IsUndisputed'
        <5>1. Present(staging)' = Present(staging) /\ Present(backup)' = Present(backup)
          BY <3>0 DEF Present
        <5>2. Recovers'
          BY <3>0, <4>1, <4>4, <5>1 DEF Recoverable
        <5>3. HasRecovered'
          BY <3>0, <4>1 DEF Present, Holding
        <5> QED BY <4>1, <5>2, <5>3 DEF Watching, Copied
      <4>6. BesideSuccessor'
        BY <1>a, <2>o, <3>0, <4>1 DEF BesideSuccessor
      <4>7. ASSUME pc'[i] = "refused" PROVE \E j \in Present(backup) : pc'[j] \in {"failed", "dead", "uncleaned"} /\ target # NoTree
        <5>1. PICK j \in Present(backup) : target # NoTree
          BY <4>1, <4>3, <4>4, <4>7 DEF Recoverable
        <5>2. j \in Installs /\ pc[j] \in {"clean", "failed", "dead", "uncleaned"}
          BY <1>a, <5>1 DEF BesideSuccessor, Present
        <5>3. j # i /\ pc[j] # "clean"
          BY <2>r, <4>1, <5>2 DEF Ended
        <5> QED BY <2>o, <5>1, <5>2, <5>3
      <4>8. Refused'
        <5> SUFFICES ASSUME NEW k \in Installs, pc'[k] = "refused"
                     PROVE  \E j \in Present(backup) : pc'[j] \in {"failed", "dead", "uncleaned"} /\ target # NoTree
          BY <3>0 DEF Refused, Present
        <5>1. CASE k = i
          BY <4>7, <5>1
        <5>2. CASE k # i
          BY <1>a, <2>o, <4>1, <5>2 DEF Refused, Present
        <5> QED BY <5>1, <5>2
      <4> QED BY <3>k, <4>5, <4>6, <4>8
    <3>2. CASE InspectTarget(i)
      <4>1. pc[i] = "inspect" /\ pc'[i] = "create" /\ expected'[i] = Seen(target)
        BY <1>t, <3>2 DEF InspectTarget, At, Go, TypeOK
      <4>2. IF expected'[i] = NoTree THEN target = NoTree ELSE target # NoTree /\ target.id = expected'[i].id
        BY <1>n, <4>1, TreesKeep DEF Seen
      <4>3. Recovers' /\ HasRecovered' /\ IsUndisputed'
        BY <2>i, <3>0, <4>1, <4>2 DEF Watching, Copied
      <4> QED BY <1>a, <2>o, <3>0, <3>k, <4>1, <4>3 DEF BesideSuccessor, Refused, Present
    <3>3. CASE pc[i] = "idle" /\ pc'[i] = "recover"
      <4>1. Recovers' /\ HasRecovered' /\ IsUndisputed'
        BY <3>3 DEF Watching, Copied, Holding
      <4> QED BY <1>a, <2>o, <3>0, <3>k, <3>3, <4>1 DEF BesideSuccessor, Refused, Present
    <3>4. ASSUME NEW step \in Steps, Thought(i, step), pc' = [pc EXCEPT ![i] = step],
                 UNCHANGED <<expected, orphan, rescue>>
          PROVE  Recovers' /\ HasRecovered' /\ IsUndisputed' /\ BesideSuccessor' /\ Refused'
      <4>1. pc'[i] = step
        BY <1>t, <3>4 DEF TypeOK
      <4>2. pc[i] = "recheck" => target = NoTree /\ \A j \in rescue[i] : backup[j] # NoTree
        BY <2>i DEF Present
      <4>3. step # "refused"
        BY <3>4, <4>2 DEF Thought
      <4>4. Recovers'
        BY <2>i, <3>0, <3>4, <4>1 DEF Thought, Present
      <4>5. HasRecovered'
        BY <2>i, <3>0, <3>4, <4>1 DEF Thought, Holding
      <4>6. IsUndisputed'
        BY <2>i, <3>0, <3>4, <4>1 DEF Thought, Watching, Copied
      <4>7. BesideSuccessor'
        <5>1. pc[i] \in {"clean", "failed", "dead", "uncleaned"} /\ backup[i] # NoTree => step \in {"failed", "dead", "uncleaned"}
          BY <3>4 DEF Thought, Holding, Running, Ended
        <5> QED BY <1>a, <2>o, <3>0, <4>1, <5>1 DEF BesideSuccessor
      <4>8. Refused'
        BY <1>a, <2>o, <3>0, <4>1, <4>3 DEF Refused, Present, Ended
      <4> QED BY <4>4, <4>5, <4>6, <4>7, <4>8
    <3>5. \/ JudgeLeftovers(i) \/ InspectTarget(i)
          \/ pc[i] = "idle" /\ pc'[i] = "recover"
          \/ /\ \E step \in Steps : Thought(i, step) /\ pc' = [pc EXCEPT ![i] = step]
             /\ UNCHANGED <<expected, orphan, rescue>>
      BY <1>t, <2>6 DEF Thinks, TypeOK
    <3> QED BY <3>k, <3>1, <3>2, <3>3, <3>4, <3>5
  <2> QED BY <1>3, <2>1, <2>2, <2>3, <2>4, <2>5, <2>6
<1> QED BY <1>t, <1>1, <1>2, <1>3, StepForms

LEMMA InPlaceKept ==
    ASSUME IndInv, FirstInstall, InTurn, CopyIsExact, LatestInPlace, [Next]_vars, ~meddled, ~late
    PROVE  LatestInPlace'
<1>t. TypeOK /\ TypeOK' /\ BackupPhase
  BY StepTyped DEF IndInv
<1>a. Recovered /\ Undisputed /\ OneOfAKind
  BY DEF InTurn
<1>l. /\ target # NoTree => target.data = latest
      /\ target = NoTree => /\ latest # Missing => \E j \in Installs : backup[j] # NoTree
                            /\ \A j \in Installs : backup[j] # NoTree => backup[j].data = latest
  BY DEF LatestInPlace
<1>1. CASE UNCHANGED vars
  BY <1>l, <1>1 DEF vars, trees, history, LatestInPlace
<1>2. CASE Saved
  <2>1. target \in Trees /\ target' = [target EXCEPT !.data = edits'] /\ edits' \in Settings /\ latest' = edits'
    BY <1>t, <1>2 DEF Saved, TypeOK, Settings
  <2>2. target' \in Trees /\ target'.data = latest'
    BY <2>1 DEF Trees
  <2> QED BY <2>2, NoTreeAssumption DEF LatestInPlace
<1>3. ASSUME NEW i \in Installs, MovedAway(i) PROVE LatestInPlace'
  <2>1. /\ pc[i] = "move" /\ target # NoTree /\ target' = NoTree /\ latest' = latest
        /\ backup'[i] = target /\ \A k \in Installs : k # i => backup'[k] = backup[k]
    BY <1>t, <1>3 DEF MovedAway, Others, TypeOK
  <2>2. \A j \in Installs \ {i} : backup[j] = NoTree
    BY <1>a, <2>1 DEF Recovered, Holding
  <2> QED BY <1>l, <2>1, <2>2 DEF LatestInPlace
<1>4. ASSUME NEW i \in Installs, Activated(i) PROVE LatestInPlace'
  <2>1. /\ pc[i] = "activate" /\ target = NoTree /\ target' = staging[i] /\ staging[i] # NoTree
        /\ latest' = latest
    BY <1>4 DEF Activated, Others
  <2>2. CASE backup[i] # NoTree
    BY <1>l, <2>1, <2>2 DEF CopyIsExact, LatestInPlace
  <2>3. CASE backup[i] = NoTree
    <3>1. \A j \in Installs : backup[j] = NoTree
      BY <1>a, <2>1, <2>3 DEF Recovered, Holding
    <3>2. latest = Missing /\ expected[i] = NoTree
      BY <1>a, <1>l, <2>1, <2>3, <3>1 DEF Undisputed
    <3>3. staging[i].data = Missing
      BY <2>1, <3>2 DEF FirstInstall, Holding
    <3> QED BY <2>1, <3>2, <3>3 DEF LatestInPlace
  <2> QED BY <2>2, <2>3
<1>5. ASSUME NEW i \in Installs, NEW j \in Installs, PutBack(i, j) PROVE LatestInPlace'
  BY <1>l, <1>5 DEF PutBack, Others, LatestInPlace
<1>6. ASSUME NEW i \in Installs, Emptied(i) PROVE LatestInPlace'
  <2>1. target # NoTree /\ target' = target /\ latest' = latest
    BY <1>a, <1>6 DEF Emptied, Others, Undisputed
  <2> QED BY <1>l, <2>1 DEF LatestInPlace
<1>7. ASSUME NEW i \in Installs, Staged(i) \/ Thinks(i) PROVE LatestInPlace'
  BY <1>l, <1>7 DEF Staged, Others, Thinks, LatestInPlace
<1> QED BY <1>t, <1>1, <1>2, <1>3, <1>4, <1>5, <1>6, <1>7, StepForms

-----------------------------------------------------------------------------
LEMMA InitSettings == Init => SettingsInv
<1> SUFFICES ASSUME Init PROVE SettingsInv
  OBVIOUS
<1>1. /\ \A i \in Installs : /\ staging[i] = NoTree /\ backup[i] = NoTree /\ expected[i] = NoTree
                             /\ pc[i] = "idle"
      /\ target # NoTree => target = Installed(latest)
      /\ target = NoTree => latest = Missing
      /\ latest \in {0, Missing} /\ edits = 0 /\ ~strayed
  BY TreesOf, NoTreeAssumption DEF Init, Installed
<1>2. Identities /\ FirstInstall /\ Tidy
  BY <1>1, InstallsAssumption DEF Identities, FirstInstall, Tidy, Installed, Replaced
<1>3. SavedBefore
  BY <1>1 DEF SavedBefore, Installed, Older
<1>4. SettingsGrow /\ CopyIsExact
  BY <1>1 DEF SettingsGrow, CopyIsExact
<1>5. LatestIsSafe /\ LatestInPlace
  BY <1>1 DEF LatestIsSafe, LatestInPlace, Installed
<1>6. Alone /\ OneOfAKind /\ Recovering /\ Recovered
  BY <1>1 DEF Alone, OneOfAKind, Recovering, Recovered, Running, Holding
<1>7. Undisputed /\ BesideSuccessor /\ Refused
  BY <1>1 DEF Undisputed, BesideSuccessor, Refused, Watching, Copied
<1> QED BY <1>1, <1>2, <1>3, <1>4, <1>5, <1>6, <1>7 DEF SettingsInv, InTurn

LEMMA StepSettings == IndInv /\ SettingsInv /\ [Next]_vars => SettingsInv'
<1> SUFFICES ASSUME IndInv, SettingsInv, [Next]_vars PROVE SettingsInv'
  OBVIOUS
<1>h. (late => late') /\ (meddled => meddled') /\ (strayed => strayed') /\ (overlapped => overlapped')
  BY HistoryStays DEF IndInv
<1>s. Identities /\ SavedBefore /\ FirstInstall /\ Tidy
  BY DEF SettingsInv
<1>1. Identities' /\ SavedBefore' /\ FirstInstall' /\ Tidy'
  BY <1>s, IdentitiesKept, SavedBeforeKept, FirstInstallKept, TidyKept
<1>2. ~meddled' => SettingsGrow'
  BY <1>h, <1>s, SettingsGrowKept DEF SettingsInv
<1>3. ~meddled' /\ ~late' /\ ~strayed' => CopyIsExact' /\ LatestIsSafe'
  BY <1>h, <1>s, CopiesKept DEF SettingsInv
<1>4. ~overlapped' => InTurn'
  BY <1>h, <1>s, InTurnKept DEF SettingsInv
<1>5. ~overlapped' /\ ~meddled' /\ ~late' => LatestInPlace'
  <2>1. ~overlapped => InTurn /\ ~strayed
    BY DEF SettingsInv, InTurn
  <2> QED BY <1>h, <1>s, <2>1, InPlaceKept DEF SettingsInv
<1> QED BY <1>1, <1>2, <1>3, <1>4, <1>5 DEF SettingsInv

LEMMA SettingsInductive == Spec => [](IndInv /\ SettingsInv)
<1>1. Init => IndInv /\ SettingsInv
  BY InitInd, InitSettings
<1>2. IndInv /\ SettingsInv /\ [Next]_vars => (IndInv /\ SettingsInv)'
  BY StepInd, StepSettings
<1> QED BY <1>1, <1>2, PTL DEF Spec

\* The settings Obsidian saved last are in the plugin's directory or in a backup, unless
\* they were saved between the last check and the rename, a recovery took the trees of a
\* running installation, or one copied from another directory than it inspected; and when
\* installations came one at a time the directory itself has them (assertTargetUnchanged,
\* copyTechnicalChildren and recoverInterruptedInstallation in install-vault.mjs).
THEOREM SettingsAreKept == Spec => []SettingsSurvive
<1>1. ASSUME IndInv, SettingsInv PROVE SettingsSurvive
  <2>1. ~late /\ ~meddled /\ latest # Missing /\ ~strayed => \E tree \in Kept : tree.data = latest
    BY <1>1 DEF SettingsInv, LatestIsSafe, Kept
  <2>2. ~late /\ ~meddled /\ target # NoTree /\ ~overlapped => target.data = latest
    BY <1>1 DEF SettingsInv, LatestInPlace
  <2> QED BY <2>1, <2>2 DEF SettingsSurvive
<1> QED BY <1>1, SettingsInductive, PTL

\* A successful installation has left nothing behind but a backup it could not look at; one
\* at a time, one is refused only where such an installation, or one that failed or died
\* before its backup was gone, had put its tree in place, and a failed one leaves a backup
\* only there or where the directory is missing.
THEOREM OutcomesAreExact == Spec => []OutcomeIsExact
<1>1. ASSUME IndInv, SettingsInv PROVE OutcomeIsExact
  <2>1. Tidy /\ (~overlapped => BesideSuccessor /\ Refused)
    BY <1>1 DEF SettingsInv, InTurn
  <2>2. \A i \in Installs :
          pc[i] = "refused" /\ ~overlapped =>
            \E j \in Present(backup) : pc[j] \in {"failed", "dead", "uncleaned"} /\ target # NoTree
    BY <2>1 DEF Refused
  <2>3. \A i \in Installs : ~overlapped /\ backup[i] # NoTree => target = NoTree \/ target.id = i
    BY <2>1 DEF BesideSuccessor
  <2> QED BY <2>1, <2>2, <2>3 DEF OutcomeIsExact, Tidy
<1> QED BY <1>1, SettingsInductive, PTL
=============================================================================
