---------------------------- MODULE VaultInstall ----------------------------
(***************************************************************************)
(* scripts/install-vault.mjs: the plugin's directory in the vault is       *)
(* replaced by a staged copy that has the new artifacts and everything     *)
(* else the old directory held, Obsidian's settings of the plugin above    *)
(* all.  An installation first recovers what an interrupted one left, then *)
(* builds its staging tree, compares the old directory a last time, moves  *)
(* it to a backup name, moves the staging tree into its place and removes  *)
(* the backup.  Each call that changes the plugins directory is a step, and *)
(* so is each reading another party may invalidate.  Installations may die *)
(* or have a call fail anywhere, they may overlap (no lock excludes it),   *)
(* and Obsidian saves settings meanwhile.  A staging or backup name        *)
(* carries a fresh UUID, so it is named here by its installation.  Symbolic *)
(* links, modes, sizes and the log file's own checks are left out.         *)
(***************************************************************************)
EXTENDS Naturals, FiniteSets

CONSTANTS Installs,    \* the installations; each is one process and brings a release of its own
          Original,    \* the release installed before
          Artifacts,   \* REQUIRED_ARTIFACTS
          NoTree,      \* no directory of that name
          Missing,     \* no such file in a tree
          MaxEdits,    \* bound: times Obsidian saves the settings
          MaxFaults    \* bound: failed calls and deaths

ASSUME InstallsAssumption ==
    /\ Original \notin Installs /\ Missing \notin Installs /\ Missing # Original
    /\ IsFiniteSet(Installs)
    /\ Artifacts # {}
    /\ Missing \notin Nat

ASSUME BoundsAssumption == MaxEdits \in Nat /\ MaxFaults \in Nat

VARIABLES
    target,     \* the plugin's directory
    staging,    \* the staging tree of each installation
    backup,     \* the backup each installation has moved the target to
    pc,         \* where each installation is
    expected,   \* what inspectExistingTarget saw: the target's identity and settings
    orphan,     \* the staging trees found by recovery
    rescue,     \* the backups found by recovery
    latest,     \* the settings Obsidian saved last
    late,       \* history: settings were saved between the last check and the rename
    meddled,    \* history: a recovery touched a tree of a running installation
    strayed,    \* history: what is kept was copied from another directory than the one inspected
    overlapped, \* history: two installations ran at once
    edits, faults

trees == <<target, staging, backup>>
own == <<expected, orphan, rescue>>
history == <<latest, late, meddled, strayed, overlapped>>
bounds == <<edits, faults>>
vars == <<trees, pc, own, history, bounds>>

Releases == Installs \cup {Original}
Settings == 0..MaxEdits

\* A tree has the identity it was created with, some artifacts and the settings.
Trees == [id : Releases, files : [Artifacts -> Releases \cup {Missing}],
          data : Settings \cup {Missing}]

Sight == [id : Releases, data : Settings \cup {Missing}]

ASSUME NoTreeAssumption == NoTree \notin Trees /\ NoTree \notin Sight

\* "uncleaned" answers success like "installed", but has not looked at its backup.
Succeeded == {"installed", "uncleaned"}
Ended == {"installed", "uncleaned", "failed", "refused", "dead"}
Steps == {"idle", "recover", "drop", "recheck", "restore", "inspect", "create", "preserve",
          "copy", "verify", "check", "move", "activate", "undo", "clean", "discard"} \cup Ended

Running(i) == pc[i] \notin Ended \cup {"idle"}

TypeOK ==
    /\ target \in Trees \cup {NoTree}
    /\ staging \in [Installs -> Trees \cup {NoTree}]
    /\ backup \in [Installs -> Trees \cup {NoTree}]
    /\ pc \in [Installs -> Steps]
    /\ expected \in [Installs -> Sight \cup {NoTree}]
    /\ orphan \in [Installs -> SUBSET Installs]
    /\ rescue \in [Installs -> SUBSET Installs]
    /\ latest \in Settings \cup {Missing}
    /\ late \in BOOLEAN /\ meddled \in BOOLEAN /\ strayed \in BOOLEAN /\ overlapped \in BOOLEAN
    /\ edits \in 0..MaxEdits /\ faults \in 0..MaxFaults

Whole(tree) == \E r \in Releases : \A a \in Artifacts : tree.files[a] = r

Hollow(tree) == [tree EXCEPT !.files = [a \in Artifacts |-> Missing], !.data = Missing]

Fresh(i) == [id |-> i, files |-> [a \in Artifacts |-> Missing], data |-> Missing]

Installed(data) == [id |-> Original, files |-> [a \in Artifacts |-> Original], data |-> data]

Init ==
    /\ target \in {NoTree, Installed(Missing), Installed(0)}
    /\ latest = IF target = Installed(0) THEN 0 ELSE Missing
    /\ staging = [i \in Installs |-> NoTree] /\ backup = staging /\ expected = staging
    /\ pc = [i \in Installs |-> "idle"]
    /\ orphan = [i \in Installs |-> {}] /\ rescue = orphan
    /\ late = FALSE /\ meddled = FALSE /\ strayed = FALSE /\ overlapped = FALSE
    /\ edits = 0 /\ faults = 0

Fault == faults < MaxFaults /\ faults' = faults + 1 /\ UNCHANGED edits

At(i, step) == pc[i] = step
Go(i, step) == pc' = [pc EXCEPT ![i] = step]

\* Obsidian writes data.json into the plugin's directory, by its path.
SaveSettings ==
    /\ target # NoTree /\ edits < MaxEdits
    /\ edits' = edits + 1
    /\ latest' = edits'
    /\ target' = [target EXCEPT !.data = edits']
    /\ UNCHANGED <<staging, backup, pc, own, late, meddled, strayed, overlapped, faults>>

-----------------------------------------------------------------------------
\* The arguments and the new artifacts are looked at before the vault is touched.
Start(i) ==
    /\ At(i, "idle") /\ Go(i, "recover")
    /\ overlapped' = (overlapped \/ \E j \in Installs : Running(j))
    /\ UNCHANGED <<trees, own, latest, late, meddled, strayed, bounds>>

Present(named) == {j \in Installs : named[j] # NoTree}

\* What recovery can tell apart: one staging tree and no backup is an installation
\* that had not moved the target; one backup and no target is one that had.  A
\* target beside a backup, or two of a kind, is refused.
Recoverable(stagings, backups) ==
    IF backups = {} THEN Cardinality(stagings) = 1
                    ELSE /\ target = NoTree
                         /\ Cardinality(backups) = 1 /\ Cardinality(stagings) <= 1

AfterOrphans(backups) == IF backups = {} THEN "inspect" ELSE "recheck"

JudgeLeftovers(i) ==
    LET stagings == Present(staging)
        backups == Present(backup)
    IN /\ At(i, "recover")
       /\ orphan' = [orphan EXCEPT ![i] = stagings]
       /\ rescue' = [rescue EXCEPT ![i] = backups]
       /\ \/ stagings = {} /\ backups = {} /\ Go(i, "inspect")
          \/ stagings \cup backups # {} /\ ~Recoverable(stagings, backups) /\ Go(i, "refused")
          \/ stagings # {} /\ Recoverable(stagings, backups) /\ Go(i, "drop")
          \/ stagings = {} /\ Recoverable(stagings, backups) /\ Go(i, "recheck")
       /\ UNCHANGED <<trees, expected, history, bounds>>

\* A tree is removed file by file: rm({ recursive }) empties it, then it is gone.
Remove(named, j) ==
    named' = [named EXCEPT ![j] = IF named[j] = Hollow(named[j]) THEN NoTree ELSE Hollow(named[j])]

Removed(named, j) == named[j] = Hollow(named[j])

DropOrphan(i) ==
    /\ At(i, "drop")
    /\ \E j \in orphan[i] :
         IF staging[j] = NoTree
           THEN Go(i, "failed") /\ UNCHANGED <<staging, meddled>>
           ELSE /\ Remove(staging, j)
                /\ Go(i, IF Removed(staging, j) THEN AfterOrphans(rescue[i]) ELSE "drop")
                /\ meddled' = (meddled \/ Running(j))
    /\ UNCHANGED <<target, backup, own, latest, late, strayed, overlapped, bounds>>

Recheck(i) ==
    /\ At(i, "recheck")
    /\ Go(i, IF target = NoTree /\ \A j \in rescue[i] : backup[j] # NoTree
               THEN "restore" ELSE "refused")
    /\ UNCHANGED <<trees, own, history, bounds>>

\* A directory is renamed over a missing one only: over another that has entries
\* the call fails.
Restore(i) ==
    /\ At(i, "restore")
    /\ \E j \in rescue[i] :
         IF target = NoTree /\ backup[j] # NoTree
           THEN /\ target' = backup[j]
                /\ backup' = [backup EXCEPT ![j] = NoTree]
                /\ meddled' = (meddled \/ Running(j))
                /\ Go(i, "inspect")
           ELSE Go(i, "failed") /\ UNCHANGED <<target, backup, meddled>>
    /\ UNCHANGED <<staging, own, latest, late, strayed, overlapped, bounds>>

Seen(tree) == IF tree = NoTree THEN NoTree ELSE [id |-> tree.id, data |-> tree.data]

InspectTarget(i) ==
    /\ At(i, "inspect") /\ Go(i, "create")
    /\ expected' = [expected EXCEPT ![i] = Seen(target)]
    /\ UNCHANGED <<trees, orphan, rescue, history, bounds>>

CreateStaging(i) ==
    /\ At(i, "create") /\ Go(i, "preserve")
    /\ staging' = [staging EXCEPT ![i] = Fresh(i)]
    /\ UNCHANGED <<target, backup, own, history, bounds>>

\* copyTechnicalChildren: all but the artifacts is copied from whatever directory
\* has the target's name by now.
PreserveSettings(i) ==
    /\ At(i, "preserve")
    /\ \/ expected[i] = NoTree /\ Go(i, "copy") /\ UNCHANGED <<staging, strayed>>
       \/ /\ expected[i] # NoTree /\ target # NoTree /\ staging[i] # NoTree
          /\ staging' = [staging EXCEPT ![i].data = target.data]
          /\ strayed' = (strayed \/ target.id # expected[i].id)
          /\ Go(i, "copy")
       \/ /\ expected[i] # NoTree /\ (target = NoTree \/ staging[i] = NoTree)
          /\ Go(i, "discard") /\ UNCHANGED <<staging, strayed>>
    /\ UNCHANGED <<target, backup, own, latest, late, meddled, overlapped, bounds>>

\* Created exclusively: a file that is there already is an error.
CopyArtifact(i, a) ==
    /\ At(i, "copy")
    /\ \/ /\ staging[i] # NoTree /\ staging[i].files[a] = Missing
          /\ staging' = [staging EXCEPT ![i].files[a] = i]
          /\ Go(i, IF \A b \in Artifacts \ {a} : staging[i].files[b] = i THEN "verify" ELSE "copy")
       \/ staging[i] = NoTree /\ Go(i, "discard") /\ UNCHANGED staging
    /\ UNCHANGED <<target, backup, own, history, bounds>>

\* synchronizePrivateStagingTree: it looks at what is there, not at what is missing.
VerifyStaging(i) ==
    /\ At(i, "verify") /\ Go(i, IF staging[i] = NoTree THEN "discard" ELSE "check")
    /\ UNCHANGED <<trees, own, history, bounds>>

-----------------------------------------------------------------------------
\* Mutant: the identity of the directory is compared, its settings are not.
SameIdentity(i) ==
    IF expected[i] = NoTree THEN target = NoTree
                            ELSE target # NoTree /\ target.id = expected[i].id

\* assertTargetUnchanged: the same directory with the same settings, or none still.
Unchanged(i) == Seen(target) = expected[i]

CheckTarget(i) ==
    /\ At(i, "check")
    /\ Go(i, IF ~Unchanged(i) THEN "discard"
              ELSE IF expected[i] = NoTree THEN "activate" ELSE "move")
    /\ UNCHANGED <<trees, own, history, bounds>>

MoveToBackup(i) ==
    /\ At(i, "move")
    /\ IF target = NoTree
         THEN Go(i, "discard") /\ UNCHANGED <<target, backup, late>>
         ELSE /\ backup' = [backup EXCEPT ![i] = target] /\ target' = NoTree
              /\ late' = (late \/ ~Unchanged(i))
              /\ Go(i, "activate")
    /\ UNCHANGED <<staging, own, latest, meddled, strayed, overlapped, bounds>>

\* An error before activation undoes the move, if there was one.
Escape(i) == IF expected[i] = NoTree THEN "discard" ELSE "undo"

\* Mutant: the staging tree is put in place without the removal of the backup to follow.
ActivateOnly(i) == "installed"

AfterActivation(i) == "clean"

Activate(i) ==
    /\ At(i, "activate")
    /\ IF staging[i] = NoTree \/ target # NoTree
         THEN Go(i, Escape(i)) /\ UNCHANGED <<target, staging>>
         ELSE /\ target' = staging[i] /\ staging' = [staging EXCEPT ![i] = NoTree]
              /\ Go(i, AfterActivation(i))
    /\ UNCHANGED <<backup, own, history, bounds>>

UndoMove(i) ==
    /\ At(i, "undo") /\ Go(i, "discard")
    /\ IF target = NoTree /\ backup[i] # NoTree
         THEN target' = backup[i] /\ backup' = [backup EXCEPT ![i] = NoTree]
         ELSE UNCHANGED <<target, backup>>
    /\ UNCHANGED <<staging, own, history, bounds>>

CleanBackup(i) ==
    /\ At(i, "clean")
    /\ IF backup[i] = NoTree
         THEN Go(i, "installed") /\ UNCHANGED backup
         ELSE /\ Remove(backup, i)
              /\ Go(i, IF Removed(backup, i) THEN "installed" ELSE "clean")
    /\ UNCHANGED <<target, staging, own, history, bounds>>

\* The lstat before the removal fails: the error is taken for a missing backup.
SkipBackup(i) ==
    /\ At(i, "clean") /\ backup[i] # NoTree /\ ~Removed(backup, i)
    /\ Fault
    /\ Go(i, "uncleaned")
    /\ UNCHANGED <<trees, own, history>>

\* removeTemporary, on the way out of a failed installation.
Discard(i) ==
    /\ At(i, "discard")
    /\ IF staging[i] = NoTree
         THEN Go(i, "failed") /\ UNCHANGED staging
         ELSE /\ Remove(staging, i)
              /\ Go(i, IF Removed(staging, i) THEN "failed" ELSE "discard")
    /\ UNCHANGED <<target, backup, own, history, bounds>>

-----------------------------------------------------------------------------
\* Mutant: an artifact that cannot be copied is left out.
CopyErrorIsSwallowed(i) ==
    CASE pc[i] = "copy" -> "verify"
      [] pc[i] \in {"preserve", "verify", "check", "move", "undo"} -> "discard"
      [] pc[i] = "activate" -> Escape(i)
      [] OTHER -> "failed"

\* Where an error leads from each step: to the undoing and the removal of what the
\* installation knows it has made; errors of these two are swallowed. After the
\* activation they fail the installation, but for the one of SkipBackup.
ErrorLeadsTo(i) ==
    CASE pc[i] \in {"preserve", "copy", "verify", "check", "move", "undo"} -> "discard"
      [] pc[i] = "activate" -> Escape(i)
      [] OTHER -> "failed"

\* A call fails, or the synchronization of the directory after the last one did.
CallFails(i) ==
    /\ Running(i) /\ Fault
    /\ Go(i, ErrorLeadsTo(i))
    /\ UNCHANGED <<trees, own, history>>

\* The staging directory was made, but not given its mode: nobody removes it.
CreateFails(i) ==
    /\ At(i, "create") /\ Fault
    /\ staging' = [staging EXCEPT ![i] = Fresh(i)]
    /\ Go(i, "failed")
    /\ UNCHANGED <<target, backup, own, history>>

Dies(i) ==
    /\ Running(i) /\ Fault
    /\ Go(i, "dead")
    /\ UNCHANGED <<trees, own, history>>

Recovery(i) == JudgeLeftovers(i) \/ DropOrphan(i) \/ Recheck(i) \/ Restore(i)

Building(i) ==
    \/ InspectTarget(i) \/ CreateStaging(i) \/ PreserveSettings(i)
    \/ \E a \in Artifacts : CopyArtifact(i, a)
    \/ VerifyStaging(i)

Replacement(i) ==
    \/ CheckTarget(i) \/ MoveToBackup(i) \/ Activate(i)
    \/ UndoMove(i) \/ CleanBackup(i) \/ Discard(i)

Failure(i) == CallFails(i) \/ CreateFails(i) \/ SkipBackup(i) \/ Dies(i)

Next ==
    \/ SaveSettings
    \/ \E i \in Installs : Start(i) \/ Recovery(i) \/ Building(i) \/ Replacement(i) \/ Failure(i)

Spec == Init /\ [][Next]_vars

-----------------------------------------------------------------------------
Kept == ({target} \cup {backup[i] : i \in Installs}) \ {NoTree}

\* The settings Obsidian saved last are in the plugin's directory, or in a backup
\* while it is away: no crash, failure, retry or second installation loses them - but
\* for settings saved between the last check and the rename, and (there is no lock) for
\* an installation whose trees another one took for leftovers, or that copied from a
\* directory which others put in the place of the one it compares before and after.
\* When installations came one at a time, the directory never shows older settings.
SettingsSurvive ==
    ~late /\ ~meddled =>
        /\ latest # Missing /\ ~strayed => \E tree \in Kept : tree.data = latest
        /\ target # NoTree /\ ~overlapped => target.data = latest

\* The plugin's directory holds the artifacts of one release, all of them: Obsidian
\* never loads half of an installation, whatever was interrupted.
TargetIsWhole == ~meddled /\ target # NoTree => Whole(target)

\* An installation that answers success has left nothing behind, but for a backup that it
\* could not look at.  One at a time, an installation is refused only where an earlier one
\* put its tree in place and then failed, died or skipped its backup before that was gone;
\* and one that failed or died otherwise leaves at most a staging tree, and a backup only
\* where the directory is missing, which the next one recovers from.
OutcomeIsExact ==
    \A i \in Installs :
        /\ pc[i] \in Succeeded => staging[i] = NoTree
        /\ pc[i] = "installed" => backup[i] = NoTree
        /\ pc[i] = "refused" /\ ~overlapped =>
              \E j \in Present(backup) : pc[j] \in {"failed", "dead", "uncleaned"} /\ target # NoTree
        /\ pc[i] \in {"failed", "uncleaned"} /\ ~overlapped /\ backup[i] # NoTree =>
              target = NoTree \/ target.id = i

=============================================================================
