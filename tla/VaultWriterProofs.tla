-------------------------- MODULE VaultWriterProofs --------------------------
(***************************************************************************)
(* Proofs about the vault writer, for every tree of pages, every request   *)
(* and every bound on the owner's edits and on the failures. The invariant *)
(* has three layers: `StepInv` (where the call is and what it holds),      *)
(* `TextInv` (a text that a removal would lose is one that was decided),   *)
(* and, while the owner keeps away, `Layout` (the vault is the one found,  *)
(* but for what the call has done).                                        *)
(***************************************************************************)
EXTENDS VaultWriter, VaultFilesProofs

-----------------------------------------------------------------------------
\* The texts are told apart by who wrote them and where.
LEMMA TextsDiffer ==
  /\ \A x, y \in Paths : Old(x) = Old(y) => x = y
  /\ \A x \in Paths : Old(x) \in Texts /\ Old(x) # New(1) /\ Old(x) # Torn /\ \A n : Old(x) # Mine(n)
  /\ New(1) \in Texts /\ Torn \in Texts /\ New(1) # Torn
  /\ \A n \in 1..MaxEdits : Mine(n) \in Texts
<1>1. \A x, y \in Paths : Old(x) = Old(y) => x = y
  BY PathsAreRecords DEF Old
<1>2. \A x \in Paths : Old(x)[1] = "old"
  BY DEF Old
<1>3. New(1)[1] = "new" /\ Torn[1] = "torn" /\ \A n : Mine(n)[1] = "mine"
  BY DEF New, Torn, Mine
<1> QED BY <1>1, <1>2, <1>3 DEF Texts

-----------------------------------------------------------------------------
(***************************************************************************)
(* Where a call is, and what it then owns. Each kind takes its own steps.  *)
(***************************************************************************)
Forward == {"recheck", "link", "reserve", "shift", "final", "unlink"}
WriteSteps == {"idle", "read", "parents", "temporary", "check", "swap", "unlink temporary",
               "confirm", "cleanup"}
MoveSteps == {"idle", "lock", "source", "undo", "undo shift", "undo file", "undo target",
              "undo unlink", "release"} \union Forward

\* A call takes the steps of its kind; only a move makes changes to undo, and only a
\* write or a creation has a temporary.
Steps ==
  /\ kind = "move" => /\ pc \in MoveSteps \union Answers /\ tmp = None
                      /\ pc \in {"idle", "lock"} => lock # "held"
  /\ kind # "move" => pc \in WriteSteps \union Answers /\ lock # "held" /\ did = Nothing
  /\ pc = "read" => kind = "write"

\* The temporary is made in the step before the last comparison, and removed before the answer.
Temporary ==
  /\ pc \in {"idle", "read", "parents", "temporary", "confirm", "ok"} => tmp = None
  /\ pc = "failed" /\ faults = 0 => tmp = None
  /\ pc \in {"check", "swap"} => tmp # None

\* Nothing is moved onto itself.
Apart ==
  kind = "move" /\ source = destination =>
    did = Nothing /\ pc \notin Forward \union {"undo shift", "undo unlink"}

StepInv == TypeOK /\ Steps /\ Temporary /\ Apart

Replaced == IF kind = "write" THEN {Old(path)} ELSE {}

\* What the next system call would destroy is exposed, or asked for.
DecidedIsCovered == Exposed(vault) \intersect owed \subseteq exposed \union Replaced

\* Until a move has removed the old name, the note is there as long as its owner wants it.
SourceIsThere ==
  kind = "move" /\ Old(path) \in owed /\ ~did.unlinked => TextIs(vault, path, Old(path))

TextInv == DecidedIsCovered /\ SourceIsThere /\ OwnTextsKept

\* What a request names.
LEMMA RequestParts ==
  ASSUME TypeOK
  PROVE  /\ kind \in {"write", "create", "move"} /\ path \in Paths
         /\ source \in Pages /\ destination \in Pages
         /\ kind = "move" => ~path.inside /\ path = Note(source)
BY RequestsAssumption, PathsAreRecords DEF TypeOK, kind, path, source, destination

\* The owner's step gives the note she changes one of her texts or none, and leaves every
\* other text under every name it has.
LEMMA OwnerStep ==
  ASSUME TypeOK, OwnerActs
  PROVE  \E v \in Vaults(Texts), p \in Paths, typed \in SUBSET {Mine(edits + 1)} :
           /\ OwnerDoes(v, p, typed) /\ typed \subseteq TextsIn(v) /\ typed \subseteq Texts
           /\ \A x \in Paths : \A t : TextIs(vault, x, t) =>
                TextIs(v, x, t) \/ (TextIs(vault, p, t) /\ ~TextIs(v, p, t))
<1> DEFINE t0 == Mine(edits + 1)
<1>1. vault \in Vaults(Texts) /\ t0 \in Texts
  BY TextsDiffer, WriterAssumption DEF TypeOK, OwnerActs
<1>2. PICK p \in Paths :
        \/ \E v \in OwnerEdits(vault, p, t0) \union OwnerSaves(vault, p, t0, {tmp}) : OwnerDoes(v, p, {t0})
        \/ \E v \in OwnerDeletes(vault, p) \union OwnerMakesDirectory(vault, p.page, {tmp}) :
             OwnerDoes(v, p, {})
  BY DEF OwnerActs
<1>3. CASE \E v \in OwnerEdits(vault, p, t0) \union OwnerSaves(vault, p, t0, {tmp}) : OwnerDoes(v, p, {t0})
  <2>1. PICK v \in OwnerEdits(vault, p, t0) \union OwnerSaves(vault, p, t0, {tmp}) : OwnerDoes(v, p, {t0})
    BY <1>3
  <2>2. v \in Vaults(Texts) /\ t0 \in TextsIn(v) /\ KeepsBeside(vault, v, p)
    BY <1>1, OwnerWrites
  <2>3. {t0} \in SUBSET {t0} /\ {t0} \subseteq TextsIn(v) /\ {t0} \subseteq Texts
    BY <1>1, <2>2
  <2> QED BY <2>1, <2>2, <2>3 DEF KeepsBeside
<1>4. CASE \E v \in OwnerDeletes(vault, p) \union OwnerMakesDirectory(vault, p.page, {tmp}) :
             OwnerDoes(v, p, {})
  <2>1. PICK v \in OwnerDeletes(vault, p) \union OwnerMakesDirectory(vault, p.page, {tmp}) :
          OwnerDoes(v, p, {})
    BY <1>4
  <2>2. v \in Vaults(Texts) /\ KeepsBeside(vault, v, p)
    BY <1>1, OwnerRemoves
  <2> QED BY <2>1, <2>2 DEF KeepsBeside
<1> QED BY <1>2, <1>3, <1>4

\* A failure of the rollback removes an empty directory or nothing.
LEMMA ReservationRemoved ==
  ASSUME TypeOK, NEW p \in Pages, RemoveReservation(p)
  PROVE  /\ vault' \in Vaults(Texts) /\ vault'.file = vault.file /\ vault'.text = vault.text
         /\ vault'.child = vault.child /\ \A q \in Pages : q # p => vault'.dir[q] = vault.dir[q]
         /\ vault'.dir[p] \in {vault.dir[p], None}
         /\ vault'.dir[p] = None \/ vault'.dir = vault.dir
         /\ ~(did.resv # None /\ Reserved(p)) => vault' = vault
         /\ \A x \in Paths : FileAt(vault', x) = FileAt(vault, x)
<1>1. vault \in Vaults(Texts)
  BY DEF TypeOK
<1>2. CASE did.resv # None /\ Reserved(p)
  <2>1. vault' = PutDirectory(vault, p, None)
    BY <1>2 DEF RemoveReservation
  <2>2. vault.dir[p] # None => vault.child[vault.dir[p]] = None
    BY <1>2 DEF Reserved, EmptyDirectory
  <2> QED BY <1>1, <1>2, <2>1, <2>2, DropDirectory
<1>3. CASE ~(did.resv # None /\ Reserved(p))
  BY <1>1, <1>3 DEF RemoveReservation
<1> QED BY <1>2, <1>3

\* A directory the call makes is empty and takes no name from another.
LEMMA DirectoryMade ==
  ASSUME TypeOK, NEW p \in Pages, NEW more, NoDirectory(vault, p),
         NEW d \in Fresh(vault, more), vault' = PutDirectory(Emptied(vault, d), p, d)
  PROVE  /\ d \in Inodes /\ d \in Inode0 /\ d # None /\ d \notin Held(vault)
         /\ vault' \in Vaults(Texts) /\ vault'.file = vault.file /\ vault'.text = vault.text
         /\ vault'.dir[p] = d /\ \A q \in Pages : q # p => vault'.dir[q] = vault.dir[q]
         /\ vault'.child[d] = None /\ \A e \in Inodes : e # d => vault'.child[e] = vault.child[e]
         /\ \A x \in Paths : FileAt(vault', x) = FileAt(vault, x)
<1>1. vault \in Vaults(Texts)
  BY DEF TypeOK
<1>2. d \in Inodes /\ d # None /\ d \notin Held(vault)
  BY FreshIsFree
<1>3. d \in Inode0
  BY <1>2 DEF Inode0
<1> QED BY <1>1, <1>2, <1>3, NewDirectory

\* What every step of the call does to the vault: a file put at a path or taken from it, a
\* text written aside, a directory made, moved over an empty one, or dropped, or nothing.
LEMMA CallVault ==
  ASSUME StepInv, Process \/ Misfortune
  PROVE  vault' \in Vaults(Texts)
<1> USE DEF StepInv
<1>0. /\ vault \in Vaults(Texts) /\ tmp \in Inode0 /\ seen.file \in Inode0 /\ None \in Inode0
      /\ path \in Paths /\ source \in Pages /\ destination \in Pages /\ Note(destination) \in Paths
  BY RequestParts, NoneIsNoInode, PathsAreRecords DEF TypeOK
<1>1. ASSUME UNCHANGED vault PROVE vault' \in Vaults(Texts)
  BY <1>0, <1>1
<1>2. ASSUME NEW x \in Paths, NEW i \in Inode0, vault' = PutAt(vault, x, i) PROVE vault' \in Vaults(Texts)
  BY <1>0, <1>2, PutAtParts
<1>3. ASSUME NEW i \in Fresh(vault, {}), NEW t \in Texts, vault' = Written(vault, i, t)
      PROVE  vault' \in Vaults(Texts)
  BY <1>0, <1>3, WrittenParts, FreshIsFree
<1>4. ASSUME NEW p \in Pages, NEW more, NEW d \in Fresh(vault, more), NoDirectory(vault, p),
             vault' = PutDirectory(Emptied(vault, d), p, d)
      PROVE  vault' \in Vaults(Texts)
  BY <1>4, DirectoryMade
<1>5. ASSUME NEW p \in Pages, NEW q \in Pages, p # q, Reserved(q), vault' = MoveDirectory(vault, p, q)
      PROVE  vault' \in Vaults(Texts)
  BY <1>0, <1>5, ShiftDirectory DEF Reserved, EmptyDirectory
<1>6. ASSUME NEW p \in Pages, RemoveReservation(p) PROVE vault' \in Vaults(Texts)
  BY <1>6, ReservationRemoved
<1>7. CASE Call \/ WriteStep
  <2>1. ASSUME MakeParents PROVE vault' \in Vaults(Texts)
    <3>1. ~ParentExists(vault, path) => NoDirectory(vault, source)
      BY DEF ParentExists, NoDirectory, source
    <3> QED BY <1>0, <1>1, <1>4, <2>1, <3>1 DEF MakeParents
  <2>2. ASSUME MakeTemporary PROVE vault' \in Vaults(Texts)
    BY <1>3, <2>2, TextsDiffer DEF MakeTemporary
  <2>3. ASSUME RenameOver PROVE vault' \in Vaults(Texts)
    BY <1>0, <1>2, <2>3 DEF RenameOver
  <2>4. ASSUME LinkNew PROVE vault' \in Vaults(Texts)
    BY <1>0, <1>1, <1>2, <2>4 DEF LinkNew
  <2>5. ASSUME Call \/ ReadBaseline \/ CheckTarget \/ UnlinkTemporary \/ Confirm \/ RemoveTemporary
        PROVE  UNCHANGED vault
    BY <2>5 DEF Call, ReadBaseline, CheckTarget, UnlinkTemporary, Confirm, RemoveTemporary, Same
  <2> QED BY <1>1, <1>7, <2>1, <2>2, <2>3, <2>4, <2>5 DEF WriteStep
<1>8. CASE MoveStep
  <2>1. ASSUME TakeLock \/ ReadSource \/ RecheckSource \/ CheckMoved \/ ReleaseLock \/ UndoTarget
        PROVE  UNCHANGED vault
    BY <2>1 DEF TakeLock, ReadSource, RecheckSource, CheckMoved, ReleaseLock, UndoTarget, Same
  <2>2. ASSUME LinkNote PROVE vault' \in Vaults(Texts)
    <3>1. FileAt(vault, path) \in Inode0
      BY <1>0, FileAtTyped
    <3> QED BY <1>0, <1>1, <1>2, <2>2, <3>1 DEF LinkNote
  <2>3. ASSUME ReserveCompanion PROVE vault' \in Vaults(Texts)
    BY <1>0, <1>1, <1>4, <2>3 DEF ReserveCompanion
  <2>4. ASSUME MoveCompanion PROVE vault' \in Vaults(Texts)
    <3>1. pc = "shift" => source # destination
      BY DEF Apart, Steps, TypeOK, WriteSteps, Answers, Forward
    <3> QED BY <1>0, <1>1, <1>5, <2>4, <3>1 DEF MoveCompanion
  <2>5. ASSUME UnlinkSource PROVE vault' \in Vaults(Texts)
    BY <1>0, <1>1, <1>2, <2>5 DEF UnlinkSource, RemoveAt
  <2>6. ASSUME UndoCompanion PROVE vault' \in Vaults(Texts)
    BY <1>0, <1>1, <1>4, <1>6, <2>6 DEF UndoCompanion
  <2>7. ASSUME UndoShift PROVE vault' \in Vaults(Texts)
    <3>1. pc = "undo shift" => source # destination
      BY DEF Apart, Steps, TypeOK, WriteSteps, Answers, Forward
    <3> QED BY <1>0, <1>5, <1>6, <2>7, <3>1 DEF UndoShift
  <2>8. ASSUME UndoUnlink PROVE vault' \in Vaults(Texts)
    BY <1>0, <1>1, <1>2, <2>8 DEF UndoUnlink
  <2>9. ASSUME UnlinkTarget PROVE vault' \in Vaults(Texts)
    BY <1>0, <1>2, <2>9 DEF UnlinkTarget, RemoveAt
  <2> QED BY <1>1, <1>8, <2>1, <2>2, <2>3, <2>4, <2>5, <2>6, <2>7, <2>8, <2>9 DEF MoveStep
<1>9. CASE Misfortune
  <2>1. ASSUME Fails PROVE vault' \in Vaults(Texts)
    <3>1. UNCHANGED vault \/ RemoveReservation(source)
      BY <2>1 DEF Fails
    <3> QED BY <1>0, <1>1, <1>6, <3>1
  <2>2. ASSUME CutTemporary PROVE vault' \in Vaults(Texts)
    BY <1>3, <2>2, TextsDiffer DEF CutTemporary
  <2>3. ASSUME ForgetsDirectory PROVE vault' \in Vaults(Texts)
    BY <1>0, <1>4, <2>3 DEF ForgetsDirectory
  <2>4. ASSUME Dies PROVE UNCHANGED vault
    BY <2>4 DEF Dies
  <2> QED BY <1>1, <1>9, <2>1, <2>2, <2>3, <2>4 DEF Misfortune
<1> QED BY <1>7, <1>8, <1>9 DEF Process

\* The call is the same in the next state.
LEMMA SameRequest ==
  ASSUME request' = request
  PROVE  kind' = kind /\ path' = path /\ source' = source /\ destination' = destination /\ Replaced' = Replaced
BY DEF kind, path, source, destination, Replaced

\* Every step keeps the types and the order of the steps.
LEMMA StepKept ==
  ASSUME StepInv, [Next]_vars
  PROVE  StepInv'
<1>0. /\ kind \in {"write", "create", "move"} /\ path \in Paths /\ source \in Pages /\ destination \in Pages
      /\ None \in Inode0 /\ FileAt(vault, path) \in Inode0 /\ vault.dir[source] \in Inode0
      /\ MaxFaults \in Nat /\ MaxEdits \in Nat
      /\ vault.file[source] \in Inode0
  BY RequestParts, NoneIsNoInode, FileAtTyped, VaultParts, WriterAssumption DEF StepInv, TypeOK
<1>0a. did = Nothing => ~did.linked /\ ~did.moved /\ ~did.unlinked /\ did.resv = None
  BY DEF Nothing
<1>0b. \A i \in Inode0 :
         [did EXCEPT !.resv = i] \in [linked: BOOLEAN, resv: Inode0, moved: BOOLEAN, unlinked: BOOLEAN]
  BY DEF StepInv, TypeOK
<1>0c. /\ edits \in 0..MaxEdits /\ (edits < MaxEdits => edits + 1 \in 0..MaxEdits)
       /\ faults \in 0..MaxFaults /\ (faults < MaxFaults => faults + 1 \in 0..MaxFaults /\ faults + 1 # 0)
  <2>1. edits \in 0..MaxEdits /\ faults \in 0..MaxFaults
    BY DEF StepInv, TypeOK
  <2> QED BY <1>0, <2>1
<1> USE DEF StepInv, TypeOK, Steps, Temporary, Apart, WriteSteps, MoveSteps, Forward, Answers, Running, Undoing
<1>1. CASE UNCHANGED vars
  <2>1. kind' = kind /\ source' = source /\ destination' = destination
    BY <1>1, SameRequest DEF vars
  <2>2. UNCHANGED <<request, vault, pc, answer, tmp, seen, did, lock, edits, faults, owed, exposed, touched>>
    BY <1>1 DEF vars
  <2>31. request' \in Requests /\ vault' \in Vaults(Texts)
    BY <2>2
  <2>32. pc' \in Running \union Answers /\ answer' \in {"ok", "failed"} /\ tmp' \in Inode0
    BY <2>2
  <2>33. seen' \in [file: Inode0, dir: Inode0]
    BY <2>2
  <2>34. did' \in [linked: BOOLEAN, resv: Inode0, moved: BOOLEAN, unlinked: BOOLEAN]
    BY <2>2
  <2>35. lock' \in {"free", "held", "left"}
    BY <2>2
  <2>36. lock' = "held" => kind' = "move" /\ pc' \in Running
    BY <2>1, <2>2
  <2>37. edits' \in 0..MaxEdits /\ faults' \in 0..MaxFaults
    BY <2>2
  <2>38. owed' \subseteq Texts /\ exposed' \subseteq Texts /\ touched' \subseteq Pages
    BY <2>2
  <2>3. TypeOK'
    BY <2>31, <2>32, <2>33, <2>34, <2>35, <2>36, <2>37, <2>38
  <2>4. Steps' /\ Temporary' /\ Apart'
    BY <2>1, <2>2
  <2> QED BY <2>3, <2>4
<1>2. CASE OwnerActs
  <2>1. PICK v \in Vaults(Texts), p \in Paths, typed \in SUBSET {Mine(edits + 1)} :
          OwnerDoes(v, p, typed) /\ typed \subseteq TextsIn(v) /\ typed \subseteq Texts
    BY <1>2, OwnerStep
  <2>2. /\ UNCHANGED <<request, pc, answer, tmp, seen, did, lock, faults>>
        /\ edits' = edits + 1 /\ edits < MaxEdits /\ vault' = v
    BY <1>2, <2>1 DEF OwnerActs, OwnerDoes
  <2>3. kind' = kind /\ source' = source /\ destination' = destination
    BY <2>2, SameRequest
  <2>4. p.page \in Pages
    BY PathsAreRecords
  <2>5. TextsIn(vault) \subseteq Texts
    BY InTextsIn, TextIsTyped
  <2>6. owed' \subseteq Texts /\ exposed' \subseteq Texts /\ touched' \subseteq Pages
    <3>1. Exposed(v) \subseteq TextsIn(v)
      BY DEF Exposed
    <3>2. TextsIn(v) \subseteq Texts
      BY InTextsIn, TextIsTyped
    <3> QED BY <2>1, <2>4, <3>1, <3>2 DEF OwnerDoes
  <2>7. edits' \in 0..MaxEdits
    BY <1>0c, <2>2
  <2>81. request' \in Requests /\ vault' \in Vaults(Texts)
    BY <2>2
  <2>82. pc' \in Running \union Answers /\ answer' \in {"ok", "failed"} /\ tmp' \in Inode0
    BY <2>2
  <2>83. seen' \in [file: Inode0, dir: Inode0]
    BY <2>2
  <2>84. did' \in [linked: BOOLEAN, resv: Inode0, moved: BOOLEAN, unlinked: BOOLEAN]
    BY <2>2
  <2>85. lock' \in {"free", "held", "left"} /\ faults' \in 0..MaxFaults
    BY <2>2
  <2>86. lock' = "held" => kind' = "move" /\ pc' \in Running
    BY <2>2, <2>3
  <2>8. TypeOK'
    BY <2>6, <2>7, <2>81, <2>82, <2>83, <2>84, <2>85, <2>86
  <2>9. Steps' /\ Temporary' /\ Apart'
    BY <2>2, <2>3
  <2> QED BY <2>8, <2>9
<1>3. CASE Process \/ Misfortune
  <2>1. vault' \in Vaults(Texts)
    BY <1>3, CallVault
  <2>2. UNCHANGED <<request, edits, owed, exposed, touched>>
    BY <1>3 DEF Process, Misfortune, Owner
  <2>3. kind' = kind /\ source' = source /\ destination' = destination
    BY <2>2, SameRequest
  <2> USE <1>0, <2>1, <2>2, <2>3
  <2>4. CASE Process
    <3>1. UNCHANGED faults
      BY <2>4 DEF Process
    <3>2. ASSUME NEW d \in Fresh(vault, {}) PROVE d \in Inode0 /\ d # None
      BY FreshIsFree DEF Inode0
    <3>3. CASE Call
      BY <3>1, <3>3 DEF Call, Goto, Same
    <3>4. CASE ReadBaseline
      BY <3>1, <3>4 DEF ReadBaseline, Goto, Throw, Failing
    <3>5. CASE MakeParents
      BY <3>1, <3>5 DEF MakeParents, Goto, Throw, Failing
    <3>6. CASE MakeTemporary
      BY <3>1, <3>2, <3>6 DEF MakeTemporary, Goto
    <3>7. CASE CheckTarget
      BY <3>1, <3>7 DEF CheckTarget, Goto, Throw, Failing, Same
    <3>8. CASE RenameOver
      BY <3>1, <3>8 DEF RenameOver, Goto
    <3>9. CASE LinkNew
      BY <3>1, <3>9 DEF LinkNew, Goto, Throw, Failing
    <3>10. CASE UnlinkTemporary
      BY <3>1, <3>10 DEF UnlinkTemporary, Goto, Throw, Failing
    <3>11. CASE Confirm
      BY <3>1, <3>11 DEF Confirm, Goto, Throw, Failing, Same
    <3>12. CASE RemoveTemporary
      BY <3>1, <3>12 DEF RemoveTemporary, Goto
    <3>13. CASE TakeLock
      BY <3>1, <3>13 DEF TakeLock, Goto
    <3>14. CASE ReadSource
      <4>1. kind = "move" /\ TextIs(vault, path, Old(path)) /\ TargetsFree => source # destination
        BY RequestParts, PathsAreRecords DEF TextIs, TargetsFree, FileAt
      <4>2. seen' \in [file: Inode0, dir: Inode0] /\ UNCHANGED <<answer, tmp, did, lock>>
        BY <3>14 DEF ReadSource, Goto, Throw
      <4>3. kind = "move"
        BY <3>14 DEF ReadSource
      <4>4. pc' \in {"recheck", "undo"} /\ (pc' = "recheck" => source # destination)
        BY <3>14, <4>1, <4>3 DEF ReadSource, Goto, Throw, Failing
      <4>5. source = destination => did = Nothing
        BY <4>3
      <4> QED BY <3>1, <4>2, <4>3, <4>4, <4>5
    <3>15. CASE RecheckSource
      BY <3>1, <3>15 DEF RecheckSource, Goto, Throw, Failing, Same
    <3>16. CASE LinkNote
      BY <3>1, <3>16 DEF LinkNote, Goto, Throw, Failing
    <3>17. CASE ReserveCompanion
      BY <3>1, <3>2, <3>17 DEF ReserveCompanion, Goto, Throw, Failing
    <3>18. CASE MoveCompanion
      BY <3>1, <3>18 DEF MoveCompanion, Goto, Throw, Failing
    <3>19. CASE CheckMoved
      BY <3>1, <3>19 DEF CheckMoved, Goto, Throw, Failing, Same
    <3>20. CASE UnlinkSource
      BY <3>1, <3>20 DEF UnlinkSource, Goto, Throw, Failing
    <3>21. CASE ReleaseLock
      BY <3>1, <3>21 DEF ReleaseLock, Goto
    <3>22. CASE UndoCompanion
      BY <1>0a, <1>0b, <3>1, <3>2, <3>22 DEF UndoCompanion, Goto
    <3>23. CASE UndoShift
      BY <1>0a, <3>1, <3>23 DEF UndoShift, Goto
    <3>24. CASE UndoUnlink
      BY <1>0a, <3>1, <3>24 DEF UndoUnlink, Goto
    <3>25. CASE UndoTarget
      BY <1>0a, <3>1, <3>25 DEF UndoTarget, Goto, Same
    <3>26. CASE UnlinkTarget
      BY <3>1, <3>26 DEF UnlinkTarget
    <3> QED BY <2>4, <3>3, <3>4, <3>5, <3>6, <3>7, <3>8, <3>9, <3>10, <3>11, <3>12, <3>13, <3>14,
               <3>15, <3>16, <3>17, <3>18, <3>19, <3>20, <3>21, <3>22, <3>23, <3>24, <3>25, <3>26
            DEF Process, WriteStep, MoveStep
  <2>5. CASE Misfortune
    <3>1. ASSUME Fault PROVE faults' = faults + 1 /\ faults' \in 0..MaxFaults /\ faults' # 0
      <4>1. faults < MaxFaults /\ faults' = faults + 1
        BY <3>1 DEF Fault
      <4> QED BY <1>0c, <4>1
    <3>2. CASE Fails
      <4>1. UNCHANGED <<tmp, seen, did>> /\ Fault /\ pc \in Running
        BY <3>2 DEF Fails
      <4>2. pc' \in {"failed", "undo", "undo file", "undo target", "release", "cleanup"}
        BY <3>2 DEF Fails, Goto, Throw, Failing
      <4>3. answer' \in {"ok", "failed"} /\ lock' \in {"free", "held", "left"}
        BY <3>2 DEF Fails, Goto, Throw, Failing
      <4>4. lock' = "held" => lock = "held" /\ pc' # "failed"
        BY <3>2 DEF Fails, Goto, Throw, Failing
      <4>5. (kind = "move" => pc' # "cleanup") /\ (kind # "move" => pc' \in {"failed", "cleanup"})
        BY <3>2 DEF Fails, Goto, Throw, Failing
      <4> QED BY <3>1, <4>1, <4>2, <4>3, <4>4, <4>5
    <3>3. CASE CutTemporary
      <4>1. tmp' \in Inode0
        BY <3>3, FreshIsFree DEF CutTemporary, Inode0
      <4> QED BY <3>1, <3>3, <4>1 DEF CutTemporary, Goto, Throw, Failing
    <3>4. CASE ForgetsDirectory
      BY <3>1, <3>4 DEF ForgetsDirectory, Goto
    <3>5. CASE Dies
      <4>1. /\ faults' \in 0..MaxFaults /\ pc' = "down" /\ lock' \in {"free", "left"}
            /\ UNCHANGED <<answer, vault, tmp, seen, did>>
        BY <3>1, <3>5 DEF Dies, Goto
      <4> QED BY <4>1
    <3> QED BY <2>5, <3>2, <3>3, <3>4, <3>5 DEF Misfortune
  <2> QED BY <1>3, <2>4, <2>5
<1> QED BY <1>1, <1>2, <1>3 DEF Next

-----------------------------------------------------------------------------
(***************************************************************************)
(* The texts of the owner: a system call that removes a name is decided    *)
(* only where the text has another one, or was asked for.                  *)
(***************************************************************************)

\* A text is exposed if it has no name beside the one that is decided.
LEMMA ExposedParts ==
  ASSUME NEW v, NEW t
  PROVE  t \in Exposed(v) <=> \E x \in Decided : /\ FileAt(v, x) # None
                                                 /\ t \in TextsIn(v) /\ t \notin TextsIn(RemoveAt(v, x))
BY DEF Exposed

\* What a name's removal loses is what the name held.
LEMMA LostIsHeld ==
  ASSUME NEW v \in Vaults(Texts), NEW x \in Paths, NEW t, t \in TextsIn(v), t \notin TextsIn(RemoveAt(v, x))
  PROVE  TextIs(v, x, t)
BY PutAtKeeps, NoneIsNoInode DEF RemoveAt

\* A note under another name is left by what happens to this one.
LEMMA OtherNoteKept ==
  ASSUME NEW v \in Vaults(Texts), NEW x \in Paths, NEW i \in Inode0, NEW y \in Paths, ~y.inside, y # x,
         NEW t, TextIs(v, y, t)
  PROVE  TextIs(PutAt(v, x, i), y, t)
BY PutAtNames, PutAtParts DEF TextIs

\* The call leaves every text it was not asked to replace a name, if it is not exposed.
LEMMA CallKeepsTexts ==
  ASSUME StepInv, DecidedIsCovered, Process \/ Misfortune,
         NEW t \in owed, t \notin exposed, t \notin Replaced, t \in TextsIn(vault)
  PROVE  t \in TextsIn(vault')
<1>0. /\ vault \in Vaults(Texts) /\ tmp \in Inode0 /\ seen.file \in Inode0 /\ None \in Inode0
      /\ path \in Paths /\ source \in Pages /\ destination \in Pages /\ Note(destination) \in Paths
      /\ TypeOK
  BY RequestParts, NoneIsNoInode, PathsAreRecords DEF TypeOK, StepInv
<1>1. PICK y \in Paths : TextIs(vault, y, t)
  BY InTextsIn
<1>2. ASSUME NEW x \in Decided, x \in Paths, NEW i \in Inode0, vault' = PutAt(vault, x, i)
      PROVE  t \in TextsIn(vault')
  <2>1. t \notin Exposed(vault)
    BY DEF DecidedIsCovered
  <2> QED BY <1>0, <1>2, <2>1, PutAtKeeps, ExposedParts
<1>3. ASSUME NEW x \in Paths, NEW i \in Inode0, FileAt(vault, x) = None, vault' = PutAt(vault, x, i)
      PROVE  t \in TextsIn(vault')
  BY <1>0, <1>3, PutAtKeeps
<1>4. ASSUME NEW i \in Fresh(vault, {}), NEW s \in Texts, vault' = Written(vault, i, s)
      PROVE  t \in TextsIn(vault')
  BY <1>0, <1>1, <1>4, WrittenAside, FreshIsFree, InTextsIn
<1>5. ASSUME NEW p \in Pages, NEW more, NEW d \in Fresh(vault, more), NoDirectory(vault, p),
             vault' = PutDirectory(Emptied(vault, d), p, d)
      PROVE  t \in TextsIn(vault')
  BY <1>0, <1>5, DirectoryMade, SameNames
<1>6. ASSUME NEW p \in Pages, NEW q \in Pages, p # q, Reserved(q), vault' = MoveDirectory(vault, p, q)
      PROVE  t \in TextsIn(vault')
  <2>1. \E x \in Paths : TextIs(vault', x, t)
    BY <1>0, <1>1, <1>6, ShiftDirectory, PathsAreRecords DEF Reserved, EmptyDirectory
  <2> QED BY <2>1, InTextsIn
<1>7. ASSUME NEW p \in Pages, RemoveReservation(p) PROVE t \in TextsIn(vault')
  BY <1>0, <1>7, ReservationRemoved, SameNames
<1>8. ASSUME UNCHANGED vault PROVE t \in TextsIn(vault')
  BY <1>8
<1>9. CASE Call \/ WriteStep
  <2>1. ASSUME MakeParents PROVE t \in TextsIn(vault')
    <3>1. ~ParentExists(vault, path) => NoDirectory(vault, source)
      BY DEF ParentExists, NoDirectory, source
    <3> QED BY <1>0, <1>8, <1>5, <2>1, <3>1 DEF MakeParents
  <2>2. ASSUME MakeTemporary PROVE t \in TextsIn(vault')
    BY <1>4, <2>2, TextsDiffer DEF MakeTemporary
  <2>3. ASSUME RenameOver PROVE t \in TextsIn(vault')
    <3>1. path \in Decided
      BY <2>3 DEF RenameOver, Decided
    <3> QED BY <1>0, <1>2, <2>3, <3>1 DEF RenameOver
  <2>4. ASSUME LinkNew PROVE t \in TextsIn(vault')
    BY <1>0, <1>8, <1>3, <2>4 DEF LinkNew, AbsentAt
  <2>5. ASSUME Call \/ ReadBaseline \/ CheckTarget \/ UnlinkTemporary \/ Confirm \/ RemoveTemporary
        PROVE  UNCHANGED vault
    BY <2>5 DEF Call, ReadBaseline, CheckTarget, UnlinkTemporary, Confirm, RemoveTemporary, Same
  <2> QED BY <1>8, <1>9, <2>1, <2>2, <2>3, <2>4, <2>5 DEF WriteStep
<1>10. CASE MoveStep
  <2>1. ASSUME TakeLock \/ ReadSource \/ RecheckSource \/ CheckMoved \/ ReleaseLock \/ UndoTarget
        PROVE  UNCHANGED vault
    BY <2>1 DEF TakeLock, ReadSource, RecheckSource, CheckMoved, ReleaseLock, UndoTarget, Same
  <2>2. ASSUME LinkNote PROVE t \in TextsIn(vault')
    <3>1. FileAt(vault, path) \in Inode0 /\ FileAt(vault, Note(destination)) = vault.file[destination]
      BY <1>0, FileAtTyped, PathsAreRecords DEF FileAt
    <3> QED BY <1>0, <1>8, <1>3, <2>2, <3>1 DEF LinkNote
  <2>3. ASSUME ReserveCompanion PROVE t \in TextsIn(vault')
    BY <1>0, <1>8, <1>5, <2>3 DEF ReserveCompanion
  <2>4. ASSUME MoveCompanion PROVE t \in TextsIn(vault')
    <3>1. pc = "shift" => source # destination
      BY DEF StepInv, Apart, Steps, TypeOK, WriteSteps, Answers, Forward
    <3> QED BY <1>0, <1>8, <1>6, <2>4, <3>1 DEF MoveCompanion
  <2>5. ASSUME UnlinkSource PROVE t \in TextsIn(vault')
    <3>1. path \in Decided
      BY <2>5 DEF UnlinkSource, Decided
    <3> QED BY <1>0, <1>8, <1>2, <2>5, <3>1 DEF UnlinkSource, RemoveAt
  <2>6. ASSUME UndoCompanion PROVE t \in TextsIn(vault')
    BY <1>0, <1>8, <1>5, <1>7, <2>6 DEF UndoCompanion
  <2>7. ASSUME UndoShift PROVE t \in TextsIn(vault')
    <3>1. pc = "undo shift" => source # destination
      BY DEF StepInv, Apart, Steps, TypeOK, WriteSteps, Answers, Forward
    <3> QED BY <1>0, <1>6, <1>7, <2>7, <3>1 DEF UndoShift
  <2>8. ASSUME UndoUnlink PROVE t \in TextsIn(vault')
    BY <1>0, <1>8, <1>3, <2>8 DEF UndoUnlink
  <2>9. ASSUME UnlinkTarget PROVE t \in TextsIn(vault')
    <3>1. Note(destination) \in Decided
      BY <2>9 DEF UnlinkTarget, Decided
    <3> QED BY <1>0, <1>2, <2>9, <3>1 DEF UnlinkTarget, RemoveAt
  <2> QED BY <1>8, <1>10, <2>1, <2>2, <2>3, <2>4, <2>5, <2>6, <2>7, <2>8, <2>9 DEF MoveStep
<1>11. CASE Misfortune
  <2>1. ASSUME Fails PROVE t \in TextsIn(vault')
    <3>1. UNCHANGED vault \/ RemoveReservation(source)
      BY <2>1 DEF Fails
    <3> QED BY <1>0, <1>8, <1>7, <3>1
  <2>2. ASSUME CutTemporary PROVE t \in TextsIn(vault')
    BY <1>4, <2>2, TextsDiffer DEF CutTemporary
  <2>3. ASSUME ForgetsDirectory PROVE t \in TextsIn(vault')
    BY <1>0, <1>5, <2>3 DEF ForgetsDirectory
  <2>4. ASSUME Dies PROVE UNCHANGED vault
    BY <2>4 DEF Dies
  <2> QED BY <1>8, <1>11, <2>1, <2>2, <2>3, <2>4 DEF Misfortune
<1> QED BY <1>9, <1>10, <1>11 DEF Process

\* A call decides to remove a name only after a comparison that leaves its text another name.
LEMMA CallDecides ==
  ASSUME StepInv, SourceIsThere, Process \/ Misfortune
  PROVE  DecidedIsCovered'
<1>0. /\ vault \in Vaults(Texts) /\ vault' \in Vaults(Texts) /\ None \in Inode0
      /\ path \in Paths /\ source \in Pages /\ destination \in Pages /\ Note(destination) \in Paths
      /\ kind = "move" => ~path.inside /\ path = Note(source)
      /\ kind \in {"write", "create", "move"}
      /\ ~Note(destination).inside /\ Note(destination).page = destination /\ path.page = source
      /\ did = Nothing => ~did.linked
  BY RequestParts, CallVault, NoneIsNoInode, PathsAreRecords DEF TypeOK, StepInv, Nothing, source
<1>1. UNCHANGED <<request, owed, exposed>>
  BY DEF Process, Misfortune, Owner
<1>2. kind' = kind /\ path' = path /\ destination' = destination /\ Replaced' = Replaced
  BY <1>1, SameRequest
<1>3. SUFFICES ASSUME NEW t \in owed, NEW x \in Decided', FileAt(vault', x) # None,
                      t \in TextsIn(vault'), t \notin TextsIn(RemoveAt(vault', x))
               PROVE  t \in Replaced
  <2>1. ASSUME NEW t \in Exposed(vault)'
        PROVE  \E x \in Decided' : /\ FileAt(vault', x) # None
                                   /\ t \in TextsIn(vault') /\ t \notin TextsIn(RemoveAt(vault', x))
    BY <2>1 DEF Exposed
  <2> QED BY <1>1, <1>2, <2>1 DEF DecidedIsCovered
<1>4. CASE CheckTarget
  <2>1. UNCHANGED vault /\ (pc' = "swap" /\ kind = "write" => TextIs(vault, path, Old(path)))
    BY <1>4 DEF CheckTarget, Same, Goto, Throw, Failing, Unchanged
  <2>2. pc' \notin {"unlink", "undo unlink"}
    BY <1>4 DEF CheckTarget, Goto, Throw, Failing
  <2>3. x = path /\ kind = "write" /\ pc' = "swap"
    BY <1>2, <2>2 DEF Decided
  <2>4. TextIs(vault, path, t)
    BY <1>0, <1>3, <2>1, <2>3, LostIsHeld
  <2> QED BY <2>1, <2>3, <2>4 DEF Replaced, TextIs
<1>5. CASE CheckMoved /\ pc' = "unlink"
  <2>1. /\ UNCHANGED vault /\ pc = "final"
        /\ TextIs(vault, path, Old(path)) /\ TextIs(vault, Note(destination), Old(path))
    BY <1>5 DEF CheckMoved, Same, Goto, Throw, Failing, Unchanged
  <2>2. kind = "move" /\ source # destination
    BY <1>0, <2>1 DEF StepInv, Steps, Apart, Forward, WriteSteps, Answers
  <2>3. x = path
    BY <1>2, <1>5 DEF Decided
  <2>4. t = Old(path)
    BY <1>0, <1>3, <2>1, <2>3, LostIsHeld DEF TextIs
  <2>5. TextIs(RemoveAt(vault, path), Note(destination), t)
    BY <1>0, <2>1, <2>2, <2>4, OtherNoteKept DEF RemoveAt
  <2> QED BY <1>0, <1>3, <2>1, <2>3, <2>5, InTextsIn
<1>6. CASE UndoTarget /\ pc' = "undo unlink"
  <2>1. /\ UNCHANGED vault /\ pc = "undo target" /\ did.linked /\ ~did.unlinked
        /\ TextIs(vault, Note(destination), Old(path))
    BY <1>6 DEF UndoTarget, Same, Goto, Unchanged
  <2>2. kind = "move" /\ source # destination
    BY <1>0, <2>1 DEF StepInv, Steps, Apart, Forward, WriteSteps, Answers
  <2>3. x = Note(destination)
    BY <1>2, <1>6 DEF Decided
  <2>4. t = Old(path)
    BY <1>0, <1>3, <2>1, <2>3, LostIsHeld DEF TextIs
  <2>5. TextIs(vault, path, t)
    BY <2>1, <2>2, <2>4 DEF SourceIsThere
  <2>6. TextIs(RemoveAt(vault, Note(destination)), path, t)
    BY <1>0, <2>2, <2>5, OtherNoteKept DEF RemoveAt
  <2> QED BY <1>0, <1>3, <2>1, <2>3, <2>6, InTextsIn
<1>7. ASSUME ~CheckTarget, ~(CheckMoved /\ pc' = "unlink"), ~(UndoTarget /\ pc' = "undo unlink")
      PROVE  pc' \notin {"swap", "unlink", "undo unlink"}
  <2>1. ASSUME Call \/ WriteStep PROVE pc' \notin {"swap", "unlink", "undo unlink"}
    BY <1>0, <1>7, <2>1 DEF Call, WriteStep, ReadBaseline, MakeParents, MakeTemporary, RenameOver,
         LinkNew, UnlinkTemporary, Confirm, RemoveTemporary, Goto, Throw, Failing
  <2>2. ASSUME MoveStep PROVE pc' \notin {"swap", "unlink", "undo unlink"}
    <3>1. answer \in {"ok", "failed"}
      BY DEF StepInv, TypeOK
    <3> QED BY <1>7, <2>2, <3>1 DEF MoveStep, TakeLock, ReadSource, RecheckSource, LinkNote,
         ReserveCompanion, MoveCompanion, CheckMoved, UnlinkSource, ReleaseLock, UndoCompanion,
         UndoShift, UndoUnlink, UndoTarget, UnlinkTarget, Goto, Throw, Failing
  <2>3. ASSUME Misfortune PROVE pc' \notin {"swap", "unlink", "undo unlink"}
    BY <2>3 DEF Misfortune, Fails, CutTemporary, ForgetsDirectory, Dies, Goto, Throw, Failing
  <2> QED BY <2>1, <2>2, <2>3 DEF Process
<1>8. CASE ~CheckTarget /\ ~(CheckMoved /\ pc' = "unlink") /\ ~(UndoTarget /\ pc' = "undo unlink")
  <2>1. Decided' = {}
    BY <1>7, <1>8 DEF Decided
  <2> QED BY <2>1
<1> QED BY <1>4, <1>5, <1>6, <1>8

\* The old name stays until the step that removes it, and comes back with the file it had.
LEMMA CallKeepsSource ==
  ASSUME StepInv, SourceIsThere, Process \/ Misfortune
  PROVE  SourceIsThere'
<1>0. /\ vault \in Vaults(Texts) /\ None \in Inode0 /\ seen.file \in Inode0
      /\ path \in Paths /\ source \in Pages /\ destination \in Pages /\ Note(destination) \in Paths
      /\ kind = "move" => ~path.inside /\ path = Note(source)
      /\ ~Note(destination).inside /\ Note(destination).page = destination /\ path.page = source
      /\ did = Nothing => ~did.linked /\ ~did.unlinked
      /\ FileAt(vault, path) \in Inode0 /\ TypeOK
  BY RequestParts, FileAtTyped, NoneIsNoInode, PathsAreRecords DEF TypeOK, StepInv, Nothing, source
<1>1. UNCHANGED <<request, owed>>
  BY DEF Process, Misfortune, Owner
<1>2. kind' = kind /\ path' = path
  BY <1>1, SameRequest
<1>3. SUFFICES ASSUME kind = "move", Old(path) \in owed, ~did'.unlinked
               PROVE  TextIs(vault', path, Old(path))
  BY <1>1, <1>2 DEF SourceIsThere
<1>4. ASSUME ~did.unlinked,
             \/ UNCHANGED vault
             \/ vault'.text = vault.text /\ \A x \in Paths : ~x.inside => FileAt(vault', x) = FileAt(vault, x)
             \/ source # destination /\ \E i \in Inode0 : vault' = PutAt(vault, Note(destination), i)
      PROVE  TextIs(vault', path, Old(path))
  <2>1. TextIs(vault, path, Old(path))
    BY <1>3, <1>4 DEF SourceIsThere
  <2>2. CASE UNCHANGED vault
    BY <2>1, <2>2
  <2>3. CASE vault'.text = vault.text /\ \A x \in Paths : ~x.inside => FileAt(vault', x) = FileAt(vault, x)
    BY <1>0, <1>3, <2>1, <2>3 DEF TextIs
  <2>4. CASE source # destination /\ \E i \in Inode0 : vault' = PutAt(vault, Note(destination), i)
    BY <1>0, <1>3, <2>1, <2>4, OtherNoteKept
  <2> QED BY <1>4, <2>2, <2>3, <2>4
<1>5. pc \in MoveSteps \union Answers
  BY <1>3 DEF StepInv, Steps
<1>6. pc \in Forward \union {"undo shift", "undo unlink"} => source # destination
  BY <1>3 DEF StepInv, Apart
<1>7. CASE UndoUnlink
  <2>1. CASE UNCHANGED <<vault, did>>
    BY <1>3, <1>4, <2>1
  <2>2. CASE did.unlinked /\ Unchanged(Note(destination)) /\ FileAt(vault, path) = None
             /\ vault' = PutAt(vault, path, seen.file)
    <3>1. ParentExists(vault, path)
      BY <1>0, <1>3 DEF ParentExists
    <3>2. FileAt(vault', path) = seen.file /\ vault'.text = vault.text
      BY <1>0, <2>2, <3>1, PutAtNames, PutAtParts
    <3> QED BY <2>2, <3>2 DEF Unchanged, TextIs
  <2> QED BY <1>7, <2>1, <2>2 DEF UndoUnlink
<1>8. CASE UnlinkSource
  <2>1. did'.unlinked \/ UNCHANGED <<vault, did>>
    BY <1>0, <1>8 DEF UnlinkSource, TypeOK
  <2> QED BY <1>3, <1>4, <2>1
<1>9. CASE LinkNote
  <2>1. did'.unlinked = did.unlinked /\ source # destination
    BY <1>0, <1>6, <1>9 DEF LinkNote, TypeOK, Forward
  <2> QED BY <1>0, <1>3, <1>4, <1>9, <2>1 DEF LinkNote
<1>10. CASE UnlinkTarget
  <2>1. did'.unlinked = did.unlinked /\ source # destination
    BY <1>0, <1>6, <1>10 DEF UnlinkTarget
  <2> QED BY <1>0, <1>3, <1>4, <1>10, <2>1 DEF UnlinkTarget, RemoveAt
<1>11. CASE ReserveCompanion \/ UndoCompanion \/ ForgetsDirectory
  <2>1. did'.unlinked = did.unlinked
    BY <1>0, <1>11 DEF ReserveCompanion, UndoCompanion, ForgetsDirectory, TypeOK
  <2>2. \/ UNCHANGED vault
        \/ RemoveReservation(destination)
        \/ \E p \in Pages : \E d \in Fresh(vault, {}) :
             NoDirectory(vault, p) /\ vault' = PutDirectory(Emptied(vault, d), p, d)
    BY <1>0, <1>11 DEF ReserveCompanion, UndoCompanion, ForgetsDirectory
  <2>3. UNCHANGED vault
        \/ (vault'.text = vault.text /\ \A x \in Paths : FileAt(vault', x) = FileAt(vault, x))
    BY <1>0, <2>2, ReservationRemoved, DirectoryMade
  <2> QED BY <1>3, <1>4, <2>1, <2>3
<1>12. CASE MoveCompanion \/ UndoShift
  <2>1. did'.unlinked = did.unlinked /\ source # destination
    BY <1>0, <1>6, <1>12 DEF MoveCompanion, UndoShift, TypeOK, Forward
  <2>2. \/ UNCHANGED vault
        \/ RemoveReservation(source)
        \/ Reserved(destination) /\ vault' = MoveDirectory(vault, source, destination)
        \/ Reserved(source) /\ vault' = MoveDirectory(vault, destination, source)
    BY <1>0, <1>12 DEF MoveCompanion, UndoShift
  <2>3. UNCHANGED vault
        \/ (vault'.text = vault.text /\ \A x \in Paths : ~x.inside => FileAt(vault', x) = FileAt(vault, x))
    BY <1>0, <2>1, <2>2, ReservationRemoved, ShiftDirectory DEF Reserved, EmptyDirectory
  <2> QED BY <1>3, <1>4, <2>1, <2>3
<1>13. CASE Fails
  <2>1. UNCHANGED did /\ (UNCHANGED vault \/ RemoveReservation(source))
    BY <1>13 DEF Fails, Goto, Throw
  <2>2. UNCHANGED vault
        \/ (vault'.text = vault.text /\ \A x \in Paths : FileAt(vault', x) = FileAt(vault, x))
    BY <1>0, <2>1, ReservationRemoved
  <2> QED BY <1>3, <1>4, <2>1, <2>2
<1>14. CASE Call \/ TakeLock \/ ReadSource \/ RecheckSource \/ CheckMoved \/ ReleaseLock \/ UndoTarget \/ Dies
  <2>1. UNCHANGED <<vault, did>>
    BY <1>14 DEF Call, TakeLock, ReadSource, RecheckSource, CheckMoved, ReleaseLock, UndoTarget, Dies, Same
  <2> QED BY <1>3, <1>4, <2>1
<1>15. ~WriteStep /\ ~CutTemporary
  BY <1>5 DEF MoveSteps, Forward, Answers, WriteStep, ReadBaseline, MakeParents, MakeTemporary, CheckTarget,
     RenameOver, LinkNew, UnlinkTemporary, Confirm, RemoveTemporary, CutTemporary
<1> QED BY <1>7, <1>8, <1>9, <1>10, <1>11, <1>12, <1>13, <1>14, <1>15 DEF Process, Misfortune, MoveStep

\* The invariant of the texts is kept by every step.
LEMMA TextKept ==
  ASSUME StepInv, TextInv, [Next]_vars
  PROVE  TextInv'
<1>1. CASE UNCHANGED vars
  <2>1. UNCHANGED <<request, vault, pc, did, owed, exposed>>
    BY <1>1 DEF vars
  <2>2. kind' = kind /\ path' = path /\ destination' = destination /\ Replaced' = Replaced
    BY <2>1, SameRequest
  <2>3. Decided' = Decided
    BY <2>1, <2>2 DEF Decided
  <2>4. Exposed(vault)' = Exposed(vault)
    BY <2>1, <2>3 DEF Exposed
  <2> QED BY <2>1, <2>2, <2>4 DEF TextInv, DecidedIsCovered, SourceIsThere, OwnTextsKept
<1>2. CASE OwnerActs
  <2>1. PICK v \in Vaults(Texts), p \in Paths, typed \in SUBSET {Mine(edits + 1)} :
           /\ OwnerDoes(v, p, typed) /\ typed \subseteq TextsIn(v)
           /\ \A x \in Paths : \A t : TextIs(vault, x, t) =>
                TextIs(v, x, t) \/ (TextIs(vault, p, t) /\ ~TextIs(v, p, t))
    BY <1>2, OwnerStep DEF StepInv
  <2>2. UNCHANGED <<request, pc, did>> /\ vault' = v /\ exposed' = exposed \union Exposed(v)
        /\ owed' = {t \in owed : TextIs(vault, p, t) => TextIs(v, p, t)} \union typed
    BY <1>2, <2>1 DEF OwnerActs, OwnerDoes
  <2>3. kind' = kind /\ path' = path /\ destination' = destination /\ Replaced' = Replaced
    BY <2>2, SameRequest
  <2>4. DecidedIsCovered'
    <3>1. Decided' = Decided
      BY <2>2, <2>3 DEF Decided
    <3>2. Exposed(vault)' = Exposed(v)
      BY <2>2, <3>1 DEF Exposed
    <3> QED BY <2>2, <3>2 DEF DecidedIsCovered
  <2>5. SourceIsThere'
    <3>1. SUFFICES ASSUME kind = "move", Old(path) \in owed', ~did.unlinked
                   PROVE  TextIs(v, path, Old(path))
      BY <2>2, <2>3 DEF SourceIsThere
    <3>2. path \in Paths
      BY RequestParts DEF StepInv
    <3>3. Old(path) \notin typed
      BY <3>2, TextsDiffer
    <3>4. Old(path) \in owed /\ (TextIs(vault, p, Old(path)) => TextIs(v, p, Old(path)))
      BY <2>2, <3>1, <3>3
    <3> QED BY <2>1, <3>1, <3>2, <3>4 DEF TextInv, SourceIsThere
  <2>6. OwnTextsKept'
    <3>1. SUFFICES ASSUME NEW t \in owed', t \notin exposed, t \notin Replaced
                   PROVE  t \in TextsIn(v)
      BY <2>2, <2>3 DEF OwnTextsKept, Replaced
    <3>2. CASE t \in typed
      BY <2>1, <3>2
    <3>3. CASE t \in owed /\ (TextIs(vault, p, t) => TextIs(v, p, t))
      <4>1. t \in TextsIn(vault)
        BY <3>1, <3>3 DEF TextInv, OwnTextsKept, Replaced
      <4> QED BY <2>1, <3>3, <4>1, InTextsIn
    <3> QED BY <2>2, <3>2, <3>3
  <2> QED BY <2>4, <2>5, <2>6 DEF TextInv
<1>3. CASE Process \/ Misfortune
  <2>1. UNCHANGED <<request, owed, exposed>>
    BY <1>3 DEF Process, Misfortune, Owner
  <2>2. Replaced' = Replaced
    BY <2>1, SameRequest
  <2>3. OwnTextsKept'
    BY <1>3, <2>1, <2>2, CallKeepsTexts DEF TextInv, OwnTextsKept, Replaced
  <2> QED BY <1>3, <2>3, CallDecides, CallKeepsSource DEF TextInv
<1> QED BY <1>1, <1>2, <1>3 DEF Next

-----------------------------------------------------------------------------
(***************************************************************************)
(* The vault at first.                                                     *)
(***************************************************************************)

\* What is where at first: a note has its text, and a companion the text inside it.
LEMMA FirstVault ==
  ASSUME NEW C \in SUBSET Companions
  PROVE  LET v == InitialVault(Present, C)
         IN /\ v \in Vaults(Texts)
            /\ \A p \in Present : TextIs(v, Note(p), Old(Note(p)))
            /\ \A p \in C : TextIs(v, Within(p), Old(Within(p))) /\ v.dir[p] # None
            /\ \A p \in Pages : p \notin Present => v.file[p] = None
            /\ \A p \in Pages : p \notin C => v.dir[p] = None
<1>1. Present \in SUBSET Pages /\ C \in SUBSET Present
  BY WriterAssumption
<1> QED BY <1>1, RoomAssumption, TextsDiffer, InitialIs

\* The invariants hold at first.
LEMMA InitInv ==
  ASSUME Init
  PROVE  StepInv /\ TextInv
<1>1. PICK C \in SUBSET Companions :
        vault = InitialVault(Present, C) /\ owed = {Old(p) : p \in OwnPaths(Present, C)}
  BY DEF Init
<1>2. /\ vault \in Vaults(Texts)
      /\ \A p \in Present : TextIs(vault, Note(p), Old(Note(p)))
      /\ \A p \in C : TextIs(vault, Within(p), Old(Within(p)))
  BY <1>1, FirstVault
<1>3. C \subseteq Pages /\ Present \subseteq Pages /\ MaxEdits \in Nat /\ MaxFaults \in Nat
  BY WriterAssumption
<1>4. OwnPaths(Present, C) \subseteq Paths /\ \A x \in OwnPaths(Present, C) : TextIs(vault, x, Old(x))
  BY <1>2, <1>3, PathsAreRecords DEF OwnPaths
<1>5. owed \subseteq Texts /\ owed \subseteq TextsIn(vault)
  BY <1>1, <1>4, TextsDiffer, InTextsIn
<1>6. TypeOK
  <2>1. edits \in 0..MaxEdits /\ faults \in 0..MaxFaults
    BY <1>3 DEF Init
  <2>2. did \in [linked: BOOLEAN, resv: Inode0, moved: BOOLEAN, unlinked: BOOLEAN]
    BY NoneIsNoInode DEF Init, Nothing
  <2> QED BY <1>2, <1>5, <2>1, <2>2, NoneIsNoInode DEF Init, TypeOK, Answers
<1>7. Steps /\ Temporary /\ Apart
  BY DEF Init, Steps, Temporary, Apart, MoveSteps, WriteSteps, Forward, Answers
<1>8. DecidedIsCovered
  <2>1. Decided = {}
    BY DEF Init, Decided
  <2> QED BY <2>1 DEF DecidedIsCovered, Exposed
<1>9. SourceIsThere
  <2>1. path \in Paths
    BY <1>6, RequestParts
  <2>2. ASSUME NEW x \in OwnPaths(Present, C), Old(path) = Old(x) PROVE path = x
    BY <1>4, <2>1, <2>2, TextsDiffer
  <2> QED BY <1>1, <1>4, <2>2 DEF SourceIsThere
<1> QED BY <1>5, <1>6, <1>7, <1>8, <1>9 DEF StepInv, TextInv, OwnTextsKept

\* Every reachable state keeps both invariants.
LEMMA BothInvariant == Spec => [](StepInv /\ TextInv)
<1>1. Init => StepInv /\ TextInv
  BY InitInv
<1>2. (StepInv /\ TextInv) /\ [Next]_vars => (StepInv /\ TextInv)'
  BY StepKept, TextKept
<1> QED BY <1>1, <1>2, PTL DEF Spec

\* Type correctness, and the move lock is the call's only while a move runs.
THEOREM TypeCorrect == Spec => []TypeOK
<1>1. StepInv /\ TextInv => TypeOK
  BY DEF StepInv
<1> QED BY <1>1, BothInvariant, PTL

\* No text of the owner is destroyed by a call that succeeds, fails, is undone or dies, but
\* the one a write was asked to replace and one she left exposed to a decided system call.
THEOREM NoTextIsLost == Spec => []OwnTextsKept
<1>1. StepInv /\ TextInv => OwnTextsKept
  BY DEF TextInv
<1> QED BY <1>1, BothInvariant, PTL

-----------------------------------------------------------------------------
(***************************************************************************)
(* While the owner keeps away, the vault is the one the call found, but    *)
(* for what the call has done.                                             *)
(***************************************************************************)
Before == InitialVault(Present, {p \in Pages : Old(Within(p)) \in owed})

StartInv == touched = {} =>
  \E C \in SUBSET Companions : owed = {Old(p) : p \in OwnPaths(Present, C)}

\* A write or a creation has not touched the note yet, or has put the new text there.
WriteLayout ==
  kind # "move" =>
    /\ FileAt(vault, path) = FileAt(Before, path) \/ TextIs(vault, path, New(1))
    /\ pc \in {"check", "swap"} => vault.text[tmp] = New(1)
    /\ pc = "swap" /\ kind = "write" => FileAt(vault, path) # None
    /\ pc = "ok" => TextIs(vault, path, New(1))

\* A move knows the note and the companion it found, and found both new names free.
Found ==
  pc \in Forward \/ did.linked =>
    /\ seen = [file |-> Before.file[source], dir |-> Before.dir[source]]
    /\ source # destination /\ Before.file[source] # None
    /\ Before.file[destination] = None /\ Before.dir[destination] = None

\* What it has done rests on the second name of the note.
Sequenced ==
  /\ did.moved \/ did.unlinked \/ did.resv # None \/ pc \in {"reserve", "shift", "final", "unlink"} => did.linked
  /\ pc \in {"idle", "lock", "source", "recheck", "link"} => did = Nothing
  /\ pc \in {"reserve", "shift"} => ~did.moved /\ ~did.unlinked
  /\ pc \in {"final", "unlink"} => ~did.unlinked /\ (did.moved <=> seen.dir # None)
  /\ pc \in {"undo shift", "undo unlink"} => did.linked
  /\ pc = "undo unlink" => ~did.unlinked /\ ~did.moved

\* The names of the note.
Names ==
  /\ \A p \in Pages \ {source, destination} : vault.file[p] = Before.file[p]
  /\ vault.text = Before.text
  /\ source # destination => vault.file[source] = IF did.unlinked THEN None ELSE Before.file[source]
  /\ ~did.linked => vault.file = Before.file
  /\ did.linked => \/ vault.file[destination] = Before.file[source]
                   \/ /\ vault.file[destination] = None /\ ~did.unlinked /\ ~did.moved
                      /\ pc \in {"release", "failed", "down"} /\ answer = "failed"

Vacant(d) == d # None /\ vault.child[d] = None

\* The names of the companion, which keeps its contents.
CompanionNames ==
  /\ Before.dir[source] # None => vault.child[Before.dir[source]] = Before.child[Before.dir[source]]
  /\ ~did.linked => vault.dir = Before.dir
  /\ ~did.moved => /\ vault.dir[source] = Before.dir[source]
                   /\ vault.dir[destination] = Before.dir[destination] \/ Vacant(vault.dir[destination])
  /\ did.moved => /\ vault.dir[destination] = Before.dir[source] /\ Before.dir[source] # None
                  /\ pc \in {"final", "unlink"} => vault.dir[source] = None
  /\ pc = "reserve" => vault.dir[destination] = None
  /\ pc = "shift" => seen.dir # None /\ vault.dir[destination] = did.resv /\ Vacant(did.resv)
  /\ pc \in {"final", "unlink"} => vault.dir[source] = None /\ vault.dir[destination] = seen.dir
  /\ pc = "undo shift" => did.resv # None /\ did.moved
  /\ did.unlinked /\ ~did.moved /\ Before.dir[source] # None => did.resv # None

IsMoved ==
  /\ TextIs(vault, Note(destination), Old(path)) /\ FileAt(vault, path) = None
  /\ vault.dir[destination] = Before.dir[source] /\ NoDirectory(vault, source)

IsUnmoved ==
  /\ vault.file = Before.file /\ vault.dir[source] = Before.dir[source]
  /\ \/ vault.dir[destination] = Before.dir[destination]
     \/ EmptyDirectory(vault, vault.dir[destination])

\* A failure comes before the undoing of anything, and one that is the only one is undone.
UndoneExactly ==
  /\ did.linked /\ pc \in Undoing /\ ~(pc = "release" /\ answer = "ok") => faults > 0
  /\ (pc = "release" /\ answer = "ok") \/ pc = "ok" => IsMoved
  /\ faults <= 1 =>
       /\ pc = "undo" /\ did.moved => vault.dir[source] = None
       /\ pc = "undo shift" => vault.dir[source] = did.resv /\ Vacant(did.resv)
       /\ pc \in {"undo file", "undo target", "undo unlink"} => ~did.moved
       /\ pc \in {"undo target", "undo unlink"} => ~did.unlinked
       /\ pc = "release" /\ answer = "failed" => IsUnmoved
       /\ pc = "failed" => IsUnmoved \/ (IsMoved /\ faults = 1 /\ lock # "held")

MoveLayout == kind = "move" => Found /\ Sequenced /\ Names /\ CompanionNames /\ UndoneExactly

Layout == touched = {} => WriteLayout /\ MoveLayout

\* The vault the call found, as long as the owner keeps away.
LEMMA BeforeParts ==
  ASSUME TypeOK, StartInv, touched = {}
  PROVE  /\ Before \in Vaults(Texts)
         /\ \A p \in Pages : Before.file[p] # None => TextIs(Before, Note(p), Old(Note(p)))
         /\ \A p \in Pages : Before.dir[p] # None => TextIs(Before, Within(p), Old(Within(p)))
         /\ \A p \in Pages : Old(Note(p)) \in owed => Before.file[p] # None
         /\ \A p \in Pages : Old(Within(p)) \in owed => Before.dir[p] # None
<1>1. PICK C \in SUBSET Companions : owed = {Old(p) : p \in OwnPaths(Present, C)}
  BY DEF StartInv
<1>2. C \subseteq Pages /\ C \subseteq Present /\ Present \subseteq Pages
  BY WriterAssumption
<1>3. OwnPaths(Present, C) \subseteq Paths
  BY <1>2, PathsAreRecords DEF OwnPaths
<1>4. \A x \in Paths : Old(x) \in owed <=> x \in OwnPaths(Present, C)
  BY <1>1, <1>3, TextsDiffer
<1>5. \A p \in Pages : /\ Note(p) \in OwnPaths(Present, C) <=> p \in Present
                       /\ Within(p) \in OwnPaths(Present, C) <=> p \in C
  BY DEF OwnPaths, Note, Within
<1>6. {p \in Pages : Old(Within(p)) \in owed} = C
  BY <1>2, <1>4, <1>5, PathsAreRecords
<1>7. Before = InitialVault(Present, C)
  BY <1>6 DEF Before
<1>8. /\ Before \in Vaults(Texts)
      /\ \A p \in Present : TextIs(Before, Note(p), Old(Note(p)))
      /\ \A p \in C : TextIs(Before, Within(p), Old(Within(p))) /\ Before.dir[p] # None
      /\ \A p \in Pages : p \notin Present => Before.file[p] = None
      /\ \A p \in Pages : p \notin C => Before.dir[p] = None
  BY <1>7, FirstVault
<1>9. \A p \in Pages : FileAt(Before, Note(p)) = Before.file[p]
  BY PathsAreRecords DEF FileAt
<1> QED BY <1>2, <1>4, <1>5, <1>8, <1>9, PathsAreRecords DEF TextIs

\* What the owner has not touched is what she had at first.
LEMMA StartKept ==
  ASSUME StepInv, StartInv, [Next]_vars
  PROVE  StartInv' /\ (touched' = {} => touched = {} /\ owed' = owed /\ Before' = Before)
<1>1. CASE OwnerActs
  <2>1. touched' # {}
    BY <1>1 DEF OwnerActs, OwnerDoes
  <2> QED BY <2>1 DEF StartInv
<1>2. CASE (Process \/ Misfortune) \/ UNCHANGED vars
  <2>1. UNCHANGED <<owed, touched>>
    BY <1>2 DEF Process, Misfortune, Owner, vars
  <2> QED BY <2>1 DEF StartInv, Before
<1> QED BY <1>1, <1>2 DEF Next

\* A write or a creation changes the note by putting the new text there, whole.
LEMMA WriteLayoutKept ==
  ASSUME StepInv, WriteLayout, Process \/ Misfortune, Before' = Before
  PROVE  WriteLayout'
<1>0. /\ vault \in Vaults(Texts) /\ tmp \in Inode0 /\ None \in Inode0 /\ path \in Paths
      /\ source \in Pages /\ kind \in {"write", "create", "move"} /\ New(1) \in Texts /\ Torn \in Texts
      /\ TypeOK
  BY RequestParts, NoneIsNoInode, TextsDiffer DEF TypeOK, StepInv
<1>1. kind' = kind /\ path' = path
  BY SameRequest DEF Process, Misfortune, Owner
<1>2. SUFFICES ASSUME kind # "move"
               PROVE  /\ FileAt(vault', path) = FileAt(Before, path) \/ TextIs(vault', path, New(1))
                      /\ pc' \in {"check", "swap"} => vault'.text[tmp'] = New(1)
                      /\ pc' = "swap" /\ kind = "write" => FileAt(vault', path) # None
                      /\ pc' = "ok" => TextIs(vault', path, New(1))
  BY <1>1 DEF WriteLayout
<1>3. /\ FileAt(vault, path) = FileAt(Before, path) \/ TextIs(vault, path, New(1))
      /\ pc \in {"check", "swap"} => vault.text[tmp] = New(1)
      /\ pc = "swap" /\ kind = "write" => FileAt(vault, path) # None
      /\ pc = "ok" => TextIs(vault, path, New(1))
  BY <1>2 DEF WriteLayout
<1>4. pc \in WriteSteps \union Answers
  BY <1>2 DEF StepInv, Steps
<1>5. ASSUME NEW i \in Fresh(vault, {}), NEW s \in Texts, vault' = Written(vault, i, s)
      PROVE  /\ FileAt(vault', path) = FileAt(Before, path) \/ TextIs(vault', path, New(1))
             /\ vault'.text[i] = s
  BY <1>0, <1>3, <1>5, WrittenAside, WrittenParts, FreshIsFree
<1>6. pc = "swap" => tmp # None /\ tmp \in Inodes
  BY <1>0, NoneIsNoInode DEF StepInv, Temporary
<1>7. CASE MakeTemporary
  <2>1. PICK i \in Fresh(vault, {}) : tmp' = i /\ vault' = Written(vault, i, New(1))
    BY <1>7 DEF MakeTemporary
  <2>2. pc' = "check"
    BY <1>7 DEF MakeTemporary, Goto
  <2> QED BY <1>0, <1>5, <2>1, <2>2
<1>8. CASE CutTemporary
  <2>1. PICK i \in Fresh(vault, {}) : tmp' = i /\ vault' = Written(vault, i, Torn)
    BY <1>8 DEF CutTemporary
  <2>2. pc' \in {"cleanup", "down"}
    BY <1>2, <1>8 DEF CutTemporary, Goto, Throw, Failing
  <2> QED BY <1>0, <1>5, <2>1, <2>2
<1>9. CASE MakeParents
  <2>1. ~ParentExists(vault, path) => NoDirectory(vault, source)
    BY DEF ParentExists, NoDirectory, source
  <2>2. vault'.text = vault.text /\ FileAt(vault', path) = FileAt(vault, path)
    BY <1>0, <1>9, <2>1, DirectoryMade DEF MakeParents
  <2>3. pc' \in {"temporary", "cleanup"}
    BY <1>2, <1>9 DEF MakeParents, Goto, Throw, Failing
  <2> QED BY <1>3, <2>2, <2>3 DEF TextIs
<1>10. CASE RenameOver \/ (LinkNew /\ AbsentAt(vault, path))
  <2>1. pc = "swap" /\ vault' = PutAt(vault, path, tmp) /\ ParentExists(vault, path)
    BY <1>3, <1>10 DEF RenameOver, LinkNew, AbsentAt, ParentExists, FileAt
  <2>2. FileAt(vault', path) = tmp /\ vault'.text = vault.text
    BY <1>0, <2>1, PutAtNames, PutAtParts
  <2>3. TextIs(vault', path, New(1))
    BY <1>3, <1>6, <2>1, <2>2 DEF TextIs
  <2>4. pc' \in {"confirm", "unlink temporary"}
    BY <1>10 DEF RenameOver, LinkNew, Goto, Throw, Failing
  <2> QED BY <2>3, <2>4
<1>11. CASE LinkNew /\ ~AbsentAt(vault, path)
  <2>1. UNCHANGED vault /\ pc' = "cleanup"
    BY <1>2, <1>11 DEF LinkNew, Goto, Throw, Failing
  <2> QED BY <1>3, <2>1
<1>12. CASE CheckTarget
  <2>1. UNCHANGED <<vault, tmp>> /\ pc = "check" /\ pc' \in {"swap", "cleanup"}
    BY <1>2, <1>12 DEF CheckTarget, Same, Goto, Throw, Failing
  <2>2. pc' = "swap" /\ kind = "write" => FileAt(vault, path) # None
    BY <1>2, <1>12 DEF CheckTarget, Goto, Throw, Failing, Unchanged, TextIs
  <2> QED BY <1>3, <2>1, <2>2
<1>13. CASE Confirm
  <2>1. UNCHANGED vault /\ pc' \in {"ok", "cleanup"}
    BY <1>2, <1>13 DEF Confirm, Same, Goto, Throw, Failing
  <2>2. pc' = "ok" => TextIs(vault, path, New(1))
    BY <1>2, <1>13 DEF Confirm, Goto, Throw, Failing
  <2> QED BY <1>3, <2>1, <2>2
<1>14. CASE Call \/ ReadBaseline \/ UnlinkTemporary \/ RemoveTemporary \/ Fails \/ Dies
  <2>1. UNCHANGED vault
    BY <1>4, <1>14 DEF Call, ReadBaseline, UnlinkTemporary, RemoveTemporary, Fails, Dies, Same,
       WriteSteps, Answers
  <2>2. pc' \notin {"check", "swap", "ok"}
    BY <1>0, <1>2, <1>4, <1>14 DEF Call, ReadBaseline, UnlinkTemporary, RemoveTemporary, Fails, Dies,
       Goto, Throw, Failing, WriteSteps, Answers
  <2> QED BY <1>3, <2>1, <2>2
<1>15. ~MoveStep /\ ~ForgetsDirectory
  BY <1>4 DEF MoveStep, TakeLock, ReadSource, RecheckSource, LinkNote, ReserveCompanion, MoveCompanion,
     CheckMoved, UnlinkSource, ReleaseLock, UndoCompanion, UndoShift, UndoUnlink, UndoTarget, UnlinkTarget,
     ForgetsDirectory, WriteSteps, Answers
<1> QED BY <1>7, <1>8, <1>9, <1>10, <1>11, <1>12, <1>13, <1>14, <1>15 DEF Process, Misfortune, WriteStep

\* A move never writes a file.
LEMMA MoveWritesNothing ==
  ASSUME StepInv, kind = "move", Process \/ Misfortune
  PROVE  vault'.text = vault.text
<1>0. /\ vault \in Vaults(Texts) /\ seen.file \in Inode0 /\ None \in Inode0
      /\ path \in Paths /\ source \in Pages /\ destination \in Pages /\ Note(destination) \in Paths
      /\ FileAt(vault, path) \in Inode0 /\ TypeOK
  BY RequestParts, FileAtTyped, NoneIsNoInode, PathsAreRecords DEF TypeOK, StepInv
<1>1. pc \in MoveSteps \union Answers /\ (pc \in Forward \union {"undo shift", "undo unlink"} => source # destination)
  BY DEF StepInv, Steps, Apart
<1>2. \/ UNCHANGED vault
      \/ \E x \in Paths : \E i \in Inode0 : vault' = PutAt(vault, x, i)
      \/ \E p \in Pages : \E d \in Fresh(vault, {}) :
           NoDirectory(vault, p) /\ vault' = PutDirectory(Emptied(vault, d), p, d)
      \/ \E p \in Pages : RemoveReservation(p)
      \/ \E p \in Pages, q \in Pages : p # q /\ Reserved(q) /\ vault' = MoveDirectory(vault, p, q)
  <2>1. CASE Call \/ TakeLock \/ ReadSource \/ RecheckSource \/ CheckMoved \/ ReleaseLock \/ UndoTarget \/ Dies
    BY <2>1 DEF Call, TakeLock, ReadSource, RecheckSource, CheckMoved, ReleaseLock, UndoTarget, Dies, Same
  <2>2. CASE LinkNote \/ UnlinkSource \/ UndoUnlink \/ UnlinkTarget
    BY <1>0, <2>2 DEF LinkNote, UnlinkSource, UndoUnlink, UnlinkTarget, RemoveAt
  <2>3. CASE ReserveCompanion \/ UndoCompanion \/ ForgetsDirectory
    BY <1>0, <2>3 DEF ReserveCompanion, UndoCompanion, ForgetsDirectory
  <2>4. CASE MoveCompanion \/ UndoShift
    BY <1>0, <1>1, <2>4 DEF MoveCompanion, UndoShift, Forward
  <2>5. CASE Fails
    BY <1>0, <2>5 DEF Fails
  <2>6. ~WriteStep /\ ~CutTemporary
    BY <1>1 DEF MoveSteps, Forward, Answers, WriteStep, ReadBaseline, MakeParents, MakeTemporary, CheckTarget,
       RenameOver, LinkNew, UnlinkTemporary, Confirm, RemoveTemporary, CutTemporary
  <2> QED BY <2>1, <2>2, <2>3, <2>4, <2>5, <2>6 DEF Process, Misfortune, MoveStep
<1>3. CASE UNCHANGED vault
  BY <1>3
<1>4. CASE \E x \in Paths : \E i \in Inode0 : vault' = PutAt(vault, x, i)
  <2>1. PICK x \in Paths, i \in Inode0 : vault' = PutAt(vault, x, i)
    BY <1>4
  <2> QED BY <1>0, <2>1, PutAtParts
<1>5. CASE \E p \in Pages : \E d \in Fresh(vault, {}) :
             NoDirectory(vault, p) /\ vault' = PutDirectory(Emptied(vault, d), p, d)
  BY <1>0, <1>5, DirectoryMade
<1>6. CASE \E p \in Pages : RemoveReservation(p)
  BY <1>0, <1>6, ReservationRemoved
<1>7. CASE \E p \in Pages, q \in Pages : p # q /\ Reserved(q) /\ vault' = MoveDirectory(vault, p, q)
  BY <1>0, <1>7, ShiftDirectory DEF Reserved, EmptyDirectory
<1> QED BY <1>2, <1>3, <1>4, <1>5, <1>6, <1>7

\* What the names of a vault say of a move.
LEMMA MoveNames ==
  ASSUME TypeOK, StartInv, touched = {}, kind = "move",
         NEW v \in Vaults(Texts), v.text = Before.text
  PROVE  /\ FileAt(v, path) = v.file[source] /\ FileAt(v, Note(destination)) = v.file[destination]
         /\ v.file[source] = Before.file[source] /\ Before.file[source] # None => TextIs(v, path, Old(path))
         /\ v.file[destination] = Before.file[source] /\ Before.file[source] # None =>
              TextIs(v, Note(destination), Old(path))
         /\ (\A p \in Pages : v.file[p] = Before.file[p]) => v.file = Before.file
<1>1. path = Note(source) /\ source \in Pages /\ destination \in Pages
  BY RequestParts
<1>2. /\ Before \in Vaults(Texts)
      /\ Before.file[source] # None => TextIs(Before, Note(source), Old(Note(source)))
  BY <1>1, BeforeParts
<1>3. \A w : \A p \in Pages : FileAt(w, Note(p)) = w.file[p]
  BY PathsAreRecords DEF FileAt
<1>4. v.file \in [Pages -> Inode0] /\ Before.file \in [Pages -> Inode0]
  BY <1>2, VaultParts
<1>5. (\A p \in Pages : v.file[p] = Before.file[p]) => v.file = Before.file
  BY <1>4
<1> QED BY <1>1, <1>2, <1>3, <1>5 DEF TextIs

\* A note's new name.
LEMMA NotePut ==
  ASSUME NEW v \in Vaults(Texts), NEW p \in Pages, NEW i \in Inode0
  PROVE  LET w == PutAt(v, Note(p), i)
         IN /\ w.dir = v.dir /\ w.child = v.child /\ w.file[p] = i
            /\ \A q \in Pages : q # p => w.file[q] = v.file[q]
<1>1. Note(p) \in Paths /\ ~Note(p).inside /\ Note(p).page = p
  BY PathsAreRecords
<1> QED BY <1>1, PutNoteParts

\* While the owner keeps away, a move and its undoing go from one known layout to the next.
LEMMA MoveLayoutKept ==
  ASSUME StepInv, StartInv, touched = {}, MoveLayout, Process \/ Misfortune, Before' = Before
  PROVE  MoveLayout'
<1>0. /\ vault \in Vaults(Texts) /\ vault' \in Vaults(Texts) /\ seen.file \in Inode0 /\ None \in Inode0
      /\ path \in Paths /\ source \in Pages /\ destination \in Pages /\ Note(destination) \in Paths
      /\ FileAt(vault, path) \in Inode0 /\ TypeOK /\ Before \in Vaults(Texts)
      /\ did \in [linked: BOOLEAN, resv: Inode0, moved: BOOLEAN, unlinked: BOOLEAN]
      /\ faults \in Nat
  BY RequestParts, FileAtTyped, NoneIsNoInode, PathsAreRecords, CallVault, BeforeParts, WriterAssumption
     DEF TypeOK, StepInv
<1>1. kind' = kind /\ path' = path /\ source' = source /\ destination' = destination
  BY SameRequest DEF Process, Misfortune, Owner
<1>2. SUFFICES ASSUME kind = "move"
               PROVE  Found' /\ Sequenced' /\ Names' /\ CompanionNames' /\ UndoneExactly'
  BY <1>1 DEF MoveLayout
<1>3. Found /\ Sequenced /\ Names /\ CompanionNames /\ UndoneExactly
  BY <1>2 DEF MoveLayout
<1>4. vault'.text = vault.text /\ vault.text = Before.text
  BY <1>2, <1>3, MoveWritesNothing DEF Names
<1>5. /\ FileAt(vault, path) = vault.file[source] /\ FileAt(vault, Note(destination)) = vault.file[destination]
      /\ vault.file[source] = Before.file[source] /\ Before.file[source] # None => TextIs(vault, path, Old(path))
      /\ vault.file[destination] = Before.file[source] /\ Before.file[source] # None =>
           TextIs(vault, Note(destination), Old(path))
  BY <1>0, <1>2, <1>4, MoveNames
<1>6. /\ FileAt(vault', path) = vault'.file[source]
      /\ vault'.file[destination] = Before.file[source] /\ Before.file[source] # None =>
           TextIs(vault', Note(destination), Old(path))
      /\ (\A p \in Pages : vault'.file[p] = Before.file[p]) => vault'.file = Before.file
  BY <1>0, <1>2, <1>4, MoveNames
<1>7. path = Note(source) /\ ~path.inside /\ path.page = source
      /\ ~Note(destination).inside /\ Note(destination).page = destination
  BY <1>0, <1>2, RequestParts, PathsAreRecords
<1>8. pc \in MoveSteps \union Answers
  BY <1>2 DEF StepInv, Steps
<1>9. /\ source = destination => did = Nothing /\ pc \notin Forward \union {"undo shift", "undo unlink"}
      /\ did = Nothing => ~did.linked /\ ~did.moved /\ ~did.unlinked /\ did.resv = None
  <2>1. source = destination => did = Nothing /\ pc \notin Forward \union {"undo shift", "undo unlink"}
    BY <1>2 DEF StepInv, Apart
  <2>2. did = Nothing => ~did.linked /\ ~did.moved /\ ~did.unlinked /\ did.resv = None
    BY DEF Nothing
  <2> QED BY <2>1, <2>2
\* What is said of an outcome, in names.
<1>10. ASSUME vault'.file[destination] = Before.file[source], Before.file[source] # None,
              vault'.file[source] = None, vault'.dir[destination] = Before.dir[source], vault'.dir[source] = None
       PROVE  IsMoved'
  BY <1>1, <1>6, <1>10 DEF IsMoved, NoDirectory
<1>11. ASSUME \A p \in Pages : vault'.file[p] = Before.file[p],
              vault'.dir[source] = Before.dir[source],
              \/ vault'.dir[destination] = Before.dir[destination]
              \/ vault'.child[vault'.dir[destination]] = None
       PROVE  IsUnmoved'
  BY <1>1, <1>6, <1>11 DEF IsUnmoved, EmptyDirectory
<1>12. IsMoved => vault.dir[source] = None /\ vault.dir[destination] = Before.dir[source] /\ vault.file[source] = None
  BY <1>5 DEF IsMoved, NoDirectory
<1>13. UNCHANGED vault => (IsMoved' <=> IsMoved) /\ (IsUnmoved' <=> IsUnmoved)
  BY <1>1 DEF IsMoved, IsUnmoved
<1>14. ~did.linked => IsUnmoved
  BY <1>3 DEF IsUnmoved, Names, CompanionNames
<1>15. Before.dir[source] # None => Before.dir[source] \in Held(vault) /\ Before.dir[source] \in Inodes
  <2>1. Before.dir[source] \in {vault.dir[source], vault.dir[destination]}
    BY <1>3 DEF CompanionNames
  <2>2. Before.dir[source] \in Inode0
    BY <1>0, VaultParts
  <2> QED BY <1>0, <2>1, <2>2, HeldByNames, NoneIsNoInode
\* A directory made at a name that has none.
<1>16. ASSUME NEW p \in Pages, NEW d \in Fresh(vault, {}), NoDirectory(vault, p),
              vault' = PutDirectory(Emptied(vault, d), p, d)
       PROVE  /\ d \in Inode0 /\ d # None /\ vault'.file = vault.file
              /\ vault'.dir[p] = d /\ \A q \in Pages : q # p => vault'.dir[q] = vault.dir[q]
              /\ vault'.child[d] = None
              /\ Before.dir[source] # None =>
                   vault'.child[Before.dir[source]] = vault.child[Before.dir[source]]
  BY <1>0, <1>15, <1>16, DirectoryMade
<1>17. did.linked => /\ seen.file = Before.file[source] /\ seen.dir = Before.dir[source]
                     /\ source # destination /\ Before.file[source] # None
                     /\ Before.file[destination] = None /\ Before.dir[destination] = None
  BY <1>3 DEF Found
<1>18. did.linked /\ pc \notin {"release", "failed", "down"} =>
         vault.file[destination] = Before.file[source] /\ Unchanged(Note(destination))
  <2>1. did.linked /\ pc \notin {"release", "failed", "down"} => vault.file[destination] = Before.file[source]
    BY <1>3 DEF Names
  <2> QED BY <1>5, <1>17, <2>1 DEF Unchanged
<1>19. ASSUME NEW p \in Pages, NEW i \in Inode0, vault' = PutAt(vault, Note(p), i)
       PROVE  /\ vault'.dir = vault.dir /\ vault'.child = vault.child /\ vault'.file[p] = i
              /\ \A q \in Pages : q # p => vault'.file[q] = vault.file[q]
  BY <1>0, <1>19, NotePut
<1>20. ASSUME NEW p \in Pages, NEW q \in Pages, p # q, vault.child[vault.dir[q]] = None,
               vault' = MoveDirectory(vault, p, q)
        PROVE  /\ vault'.file = vault.file /\ vault'.child = vault.child
               /\ vault'.dir[p] = None /\ vault'.dir[q] = vault.dir[p]
  BY <1>0, <1>20, ShiftDirectory
<1>21. ASSUME did'.linked, source # destination, vault'.file[destination] = Before.file[source],
               \A p \in Pages : p \notin {source, destination} => vault'.file[p] = vault.file[p],
               did'.unlinked => vault'.file[source] = None,
               ~did'.unlinked => vault'.file[source] = Before.file[source]
        PROVE  Names'
  <2>1. \A p \in Pages \ {source, destination} : vault'.file[p] = Before.file[p]
    BY <1>3, <1>21 DEF Names
  <2> QED BY <1>1, <1>4, <1>21, <2>1 DEF Names
<1>22. /\ source # destination /\ did.unlinked => vault.file[source] = None
       /\ source # destination /\ ~did.unlinked => vault.file[source] = Before.file[source]
  BY <1>3 DEF Names
<1>23. /\ faults' <= 1 => faults <= 1
       /\ faults > 0 => faults' > 0
       /\ Fault => faults' > 0 /\ (faults > 0 => ~(faults' <= 1)) /\ (faults' <= 1 => faults' = 1)
  <2>1. faults' = faults \/ faults' = faults + 1
    BY DEF Process, Misfortune, Fails, CutTemporary, ForgetsDirectory, Dies, Fault
  <2>2. Fault => faults' = faults + 1
    BY DEF Fault
  <2>3. faults \in Nat
    BY <1>0
  <2> QED BY <2>1, <2>2, <2>3
<1>24. CASE Call
  <2>1. pc = "idle" /\ pc' = "lock" /\ UNCHANGED <<vault, did, seen, answer>>
    BY <1>24, <1>2 DEF Call, Goto, Same
  <2>2. Found'
    BY <1>0, <1>1, <1>3, <1>9, <1>24, <2>1 DEF Found, Sequenced, Forward
  <2>3. Sequenced'
    BY <1>0, <1>1, <1>3, <1>9, <1>24, <2>1 DEF Found, Sequenced, CompanionNames, Forward
  <2>4. Names'
    BY <1>0, <1>1, <1>3, <1>9, <1>24, <2>1, <1>4, <1>6, <1>18 DEF Found, Sequenced, Names, Forward
  <2>5. CompanionNames'
    BY <1>0, <1>1, <1>3, <1>9, <1>24, <2>1 DEF Found, Sequenced, CompanionNames, Vacant, Forward
  <2>6. UndoneExactly'
    BY <1>0, <1>1, <1>3, <1>9, <1>24, <2>1, <1>10, <1>11, <1>12, <1>13, <1>14, <1>23, <2>3, <2>4
       DEF Found, Sequenced, Names, CompanionNames, UndoneExactly, Vacant, Undoing, Forward
  <2> QED BY <2>2, <2>3, <2>4, <2>5, <2>6
<1>25. CASE TakeLock
  <2>1. pc = "lock" /\ pc' \in {"source", "failed"} /\ UNCHANGED <<vault, did, seen, answer>>
    BY <1>25 DEF TakeLock, Goto
  <2>2. Found'
    BY <1>0, <1>1, <1>3, <1>9, <1>25, <2>1 DEF Found, Sequenced, Forward
  <2>3. Sequenced'
    BY <1>0, <1>1, <1>3, <1>9, <1>25, <2>1 DEF Found, Sequenced, CompanionNames, Forward
  <2>4. Names'
    BY <1>0, <1>1, <1>3, <1>9, <1>25, <2>1, <1>4, <1>6, <1>18 DEF Found, Sequenced, Names, Forward
  <2>5. CompanionNames'
    BY <1>0, <1>1, <1>3, <1>9, <1>25, <2>1 DEF Found, Sequenced, CompanionNames, Vacant, Forward
  <2>6. UndoneExactly'
    BY <1>0, <1>1, <1>3, <1>9, <1>25, <2>1, <1>10, <1>11, <1>12, <1>13, <1>14, <1>23, <2>3, <2>4
       DEF Found, Sequenced, Names, CompanionNames, UndoneExactly, Vacant, Undoing, Forward
  <2> QED BY <2>2, <2>3, <2>4, <2>5, <2>6
<1>26. CASE ReadSource /\ pc' = "recheck"
  <2>1. pc = "source" /\ UNCHANGED <<vault, did, answer>>
    BY <1>26 DEF ReadSource, Goto, Throw
  <2>2. /\ seen' = [file |-> vault.file[source], dir |-> vault.dir[source]] /\ vault.file[source] # None
        /\ vault.file[destination] = None /\ vault.dir[destination] = None
    BY <1>26, <1>2, <1>5 DEF ReadSource, Goto, Throw, Failing, TargetsFree, NoDirectory, TextIs
  <2>3. source # destination /\ did = Nothing /\ vault.file = Before.file /\ vault.dir = Before.dir
    BY <1>26, <1>3, <1>9, <2>1, <2>2 DEF Sequenced, Names, CompanionNames
  <2>4. Found'
    BY <1>0, <1>1, <1>3, <1>9, <1>26, <2>1, <2>2, <2>3 DEF Found, Sequenced, Forward
  <2>5. Sequenced'
    BY <1>0, <1>1, <1>3, <1>9, <1>26, <2>1, <2>2, <2>3 DEF Found, Sequenced, CompanionNames, Forward
  <2>6. Names'
    BY <1>0, <1>1, <1>3, <1>9, <1>26, <2>1, <2>2, <2>3, <1>4, <1>6, <1>18 DEF Found, Sequenced, Names, Forward
  <2>7. CompanionNames'
    BY <1>0, <1>1, <1>3, <1>9, <1>26, <2>1, <2>2, <2>3 DEF Found, Sequenced, CompanionNames, Vacant, Forward
  <2>8. UndoneExactly'
    BY <1>0, <1>1, <1>3, <1>9, <1>26, <2>1, <2>2, <2>3, <1>10, <1>11, <1>12, <1>13, <1>14, <1>23, <2>5, <2>6
       DEF Found, Sequenced, Names, CompanionNames, UndoneExactly, Vacant, Undoing, Forward
  <2> QED BY <2>4, <2>5, <2>6, <2>7, <2>8
<1>27. CASE (ReadSource \/ RecheckSource \/ LinkNote) /\ pc' = "undo"
  <2>1. pc \in {"source", "recheck", "link"} /\ UNCHANGED <<vault, did, seen, answer>>
    BY <1>27, <1>2 DEF ReadSource, RecheckSource, LinkNote, Goto, Throw, Failing, Same
  <2>2. Found'
    BY <1>0, <1>1, <1>3, <1>9, <1>27, <2>1 DEF Found, Sequenced, Forward
  <2>3. Sequenced'
    BY <1>0, <1>1, <1>3, <1>9, <1>27, <2>1 DEF Found, Sequenced, CompanionNames, Forward
  <2>4. Names'
    BY <1>0, <1>1, <1>3, <1>9, <1>27, <2>1, <1>4, <1>6, <1>18 DEF Found, Sequenced, Names, Forward
  <2>5. CompanionNames'
    BY <1>0, <1>1, <1>3, <1>9, <1>27, <2>1 DEF Found, Sequenced, CompanionNames, Vacant, Forward
  <2>6. UndoneExactly'
    BY <1>0, <1>1, <1>3, <1>9, <1>27, <2>1, <1>10, <1>11, <1>12, <1>13, <1>14, <1>23, <2>3, <2>4
       DEF Found, Sequenced, Names, CompanionNames, UndoneExactly, Vacant, Undoing, Forward
  <2> QED BY <2>2, <2>3, <2>4, <2>5, <2>6
<1>28. CASE RecheckSource /\ pc' = "link"
  <2>1. pc = "recheck" /\ UNCHANGED <<vault, did, seen, answer>>
    BY <1>28 DEF RecheckSource, Goto, Throw, Failing, Same
  <2>2. Found'
    BY <1>0, <1>1, <1>3, <1>9, <1>28, <2>1 DEF Found, Sequenced, Forward
  <2>3. Sequenced'
    BY <1>0, <1>1, <1>3, <1>9, <1>28, <2>1 DEF Found, Sequenced, CompanionNames, Forward
  <2>4. Names'
    BY <1>0, <1>1, <1>3, <1>9, <1>28, <2>1, <1>4, <1>6, <1>18 DEF Found, Sequenced, Names, Forward
  <2>5. CompanionNames'
    BY <1>0, <1>1, <1>3, <1>9, <1>28, <2>1 DEF Found, Sequenced, CompanionNames, Vacant, Forward
  <2>6. UndoneExactly'
    BY <1>0, <1>1, <1>3, <1>9, <1>28, <2>1, <1>10, <1>11, <1>12, <1>13, <1>14, <1>23, <2>3, <2>4
       DEF Found, Sequenced, Names, CompanionNames, UndoneExactly, Vacant, Undoing, Forward
  <2> QED BY <2>2, <2>3, <2>4, <2>5, <2>6
<1>29. CASE LinkNote /\ pc' # "undo"
  <2>1. /\ pc = "link" /\ pc' = "reserve" /\ did' = [did EXCEPT !.linked = TRUE] /\ UNCHANGED <<seen, answer>>
        /\ vault.file[destination] = None /\ vault' = PutAt(vault, Note(destination), vault.file[source])
        /\ vault.file[source] \in Inode0
    BY <1>29, <1>0, <1>2, <1>5 DEF LinkNote, Goto, Throw, Failing
  <2>2. /\ vault'.dir = vault.dir /\ vault'.child = vault.child /\ vault'.file[destination] = vault.file[source]
        /\ \A p \in Pages : p # destination => vault'.file[p] = vault.file[p]
    BY <1>0, <1>19, <2>1
  <2>3. /\ did'.linked /\ (did'.moved <=> did.moved) /\ (did'.unlinked <=> did.unlinked) /\ did'.resv = did.resv
        /\ did = Nothing /\ source # destination
    BY <1>29, <1>0, <1>3, <1>9, <2>1 DEF Sequenced, Forward
  <2>4. vault.file = Before.file /\ vault.dir = Before.dir
    BY <1>29, <1>3, <1>9, <2>3 DEF Names, CompanionNames
  <2>5. Found'
    BY <1>0, <1>1, <1>3, <1>9, <1>29, <2>1, <2>2, <2>3, <2>4 DEF Found, Sequenced, Forward
  <2>6. Sequenced'
    BY <1>0, <1>1, <1>3, <1>9, <1>29, <2>1, <2>2, <2>3, <2>4 DEF Found, Sequenced, CompanionNames, Forward
  <2>7. Names'
    BY <1>0, <1>1, <1>3, <1>9, <1>29, <2>1, <2>2, <2>3, <2>4, <1>4, <1>6, <1>18 DEF Found, Sequenced, Names, Forward
  <2>8. CompanionNames'
    BY <1>0, <1>1, <1>3, <1>9, <1>29, <2>1, <2>2, <2>3, <2>4 DEF Found, Sequenced, CompanionNames, Vacant, Forward
  <2>9. UndoneExactly'
    BY <1>0, <1>1, <1>3, <1>9, <1>29, <2>1, <2>2, <2>3, <2>4, <1>10, <1>11, <1>12, <1>13, <1>14, <1>23, <2>6, <2>7
       DEF Found, Sequenced, Names, CompanionNames, UndoneExactly, Vacant, Undoing, Forward
  <2> QED BY <2>5, <2>6, <2>7, <2>8, <2>9
<1>30. CASE ReserveCompanion /\ seen.dir = None
  <2>1. /\ did.linked /\ ~did.moved /\ ~did.unlinked /\ source # destination /\ pc = "reserve"
        /\ seen = [file |-> Before.file[source], dir |-> Before.dir[source]]
        /\ Before.file[source] # None /\ vault.file[destination] = Before.file[source]
        /\ vault.dir[source] = seen.dir /\ NoDirectory(vault, destination)
    BY <1>30, <1>3 DEF ReserveCompanion, Sequenced, Found, Forward, Names, CompanionNames, NoDirectory
  <2>2. Unchanged(Note(destination)) /\ CompanionSeen
    BY <1>30, <1>5, <2>1 DEF Unchanged, CompanionSeen
  <2>3. pc' = "final" /\ UNCHANGED <<vault, did, seen, answer>>
    BY <1>30, <2>1, <2>2 DEF ReserveCompanion, Goto
  <2>4. Found'
    BY <1>0, <1>1, <1>3, <1>9, <1>30, <2>1, <2>2, <2>3 DEF Found, Sequenced, Forward
  <2>5. Sequenced'
    BY <1>0, <1>1, <1>3, <1>9, <1>30, <2>1, <2>2, <2>3 DEF Found, Sequenced, CompanionNames, Forward
  <2>6. Names'
    BY <1>0, <1>1, <1>3, <1>9, <1>30, <2>1, <2>2, <2>3, <1>4, <1>6, <1>18 DEF Found, Sequenced, Names, Forward
  <2>7. CompanionNames'
    BY <1>0, <1>1, <1>3, <1>9, <1>30, <2>1, <2>2, <2>3 DEF Found, Sequenced, CompanionNames, Vacant, Forward
  <2>8. UndoneExactly'
    BY <1>0, <1>1, <1>3, <1>9, <1>30, <2>1, <2>2, <2>3, <1>10, <1>11, <1>12, <1>13, <1>14, <1>23, <2>5, <2>6
       DEF Found, Sequenced, Names, CompanionNames, UndoneExactly, Vacant, Undoing, Forward
  <2> QED BY <2>4, <2>5, <2>6, <2>7, <2>8
<1>31. CASE ReserveCompanion /\ seen.dir # None
  <2>1. /\ did.linked /\ ~did.moved /\ ~did.unlinked /\ source # destination /\ pc = "reserve"
        /\ seen = [file |-> Before.file[source], dir |-> Before.dir[source]]
        /\ Before.file[source] # None /\ vault.file[destination] = Before.file[source]
        /\ vault.dir[source] = seen.dir /\ NoDirectory(vault, destination)
    BY <1>31, <1>3 DEF ReserveCompanion, Sequenced, Found, Forward, Names, CompanionNames, NoDirectory
  <2>2. Unchanged(Note(destination)) /\ CompanionSeen
    BY <1>31, <1>5, <2>1 DEF Unchanged, CompanionSeen
  <2>3. PICK d \in Fresh(vault, {}) :
        /\ vault' = PutDirectory(Emptied(vault, d), destination, d) /\ did' = [did EXCEPT !.resv = d]
        /\ pc' = "shift" /\ UNCHANGED <<seen, answer>>
    BY <1>31, <2>1, <2>2 DEF ReserveCompanion, Goto
  <2>4. /\ d \in Inode0 /\ d # None /\ vault'.file = vault.file
        /\ vault'.dir[destination] = d /\ vault'.dir[source] = vault.dir[source] /\ vault'.child[d] = None
        /\ Before.dir[source] # None => vault'.child[Before.dir[source]] = vault.child[Before.dir[source]]
    BY <1>31, <1>0, <1>16, <2>1, <2>3
  <2>5. did'.linked /\ ~did'.moved /\ ~did'.unlinked /\ did'.resv = d
    BY <1>31, <1>0, <2>1, <2>3
  <2>6. Found'
    BY <1>0, <1>1, <1>3, <1>9, <1>31, <2>1, <2>2, <2>3, <2>4, <2>5 DEF Found, Sequenced, Forward
  <2>7. Sequenced'
    BY <1>0, <1>1, <1>3, <1>9, <1>31, <2>1, <2>2, <2>3, <2>4, <2>5 DEF Found, Sequenced, CompanionNames, Forward
  <2>8. Names'
    BY <1>0, <1>1, <1>3, <1>9, <1>31, <2>1, <2>2, <2>3, <2>4, <2>5, <1>4, <1>6, <1>18 DEF Found, Sequenced, Names, Forward
  <2>9. CompanionNames'
    BY <1>0, <1>1, <1>3, <1>9, <1>31, <2>1, <2>2, <2>3, <2>4, <2>5 DEF Found, Sequenced, CompanionNames, Vacant, Forward
  <2>10. UndoneExactly'
    BY <1>0, <1>1, <1>3, <1>9, <1>31, <2>1, <2>2, <2>3, <2>4, <2>5, <1>10, <1>11, <1>12, <1>13, <1>14, <1>23, <2>7, <2>8
       DEF Found, Sequenced, Names, CompanionNames, UndoneExactly, Vacant, Undoing, Forward
  <2> QED BY <2>6, <2>7, <2>8, <2>9, <2>10
<1>32. CASE MoveCompanion
  <2>1. /\ did.linked /\ ~did.moved /\ ~did.unlinked /\ source # destination /\ pc = "shift"
        /\ seen = [file |-> Before.file[source], dir |-> Before.dir[source]] /\ Before.dir[source] # None
        /\ vault.dir[source] = seen.dir /\ vault.dir[destination] = did.resv
        /\ did.resv # None /\ vault.child[did.resv] = None
    BY <1>32, <1>3 DEF MoveCompanion, Sequenced, Found, Forward, CompanionNames, Vacant
  <2>2. CompanionSeen /\ Reserved(destination)
    BY <1>32, <2>1 DEF CompanionSeen, Reserved, EmptyDirectory
  <2>3. /\ vault' = MoveDirectory(vault, source, destination) /\ did' = [did EXCEPT !.moved = TRUE]
        /\ pc' = "final" /\ UNCHANGED <<seen, answer>>
    BY <1>32, <2>2 DEF MoveCompanion, Goto
  <2>4. /\ vault'.file = vault.file /\ vault'.child = vault.child
        /\ vault'.dir[source] = None /\ vault'.dir[destination] = vault.dir[source]
    BY <1>0, <2>1, <2>3, ShiftDirectory
  <2>5. did'.linked /\ did'.moved /\ ~did'.unlinked /\ did'.resv = did.resv
    BY <1>32, <1>0, <2>1, <2>3
  <2>6. Found'
    BY <1>0, <1>1, <1>3, <1>9, <1>32, <2>1, <2>2, <2>3, <2>4, <2>5 DEF Found, Sequenced, Forward
  <2>7. Sequenced'
    BY <1>0, <1>1, <1>3, <1>9, <1>32, <2>1, <2>2, <2>3, <2>4, <2>5 DEF Found, Sequenced, CompanionNames, Forward
  <2>8. Names'
    BY <1>0, <1>1, <1>3, <1>9, <1>32, <2>1, <2>2, <2>3, <2>4, <2>5, <1>4, <1>6, <1>18 DEF Found, Sequenced, Names, Forward
  <2>9. CompanionNames'
    BY <1>0, <1>1, <1>3, <1>9, <1>32, <2>1, <2>2, <2>3, <2>4, <2>5 DEF Found, Sequenced, CompanionNames, Vacant, Forward
  <2>10. UndoneExactly'
    BY <1>0, <1>1, <1>3, <1>9, <1>32, <2>1, <2>2, <2>3, <2>4, <2>5, <1>10, <1>11, <1>12, <1>13, <1>14, <1>23, <2>7, <2>8
       DEF Found, Sequenced, Names, CompanionNames, UndoneExactly, Vacant, Undoing, Forward
  <2> QED BY <2>6, <2>7, <2>8, <2>9, <2>10
<1>33. CASE CheckMoved
  <2>1. /\ did.linked /\ ~did.unlinked /\ source # destination /\ pc = "final"
        /\ seen = [file |-> Before.file[source], dir |-> Before.dir[source]]
        /\ Before.file[source] # None /\ vault.file[destination] = Before.file[source]
        /\ vault.file[source] = Before.file[source]
        /\ vault.dir[source] = None /\ vault.dir[destination] = seen.dir
    BY <1>33, <1>3 DEF CheckMoved, Sequenced, Found, Forward, Names, CompanionNames
  <2>2. /\ Unchanged(Note(destination)) /\ Unchanged(path)
        /\ vault.dir[destination] = seen.dir /\ NoDirectory(vault, source)
    BY <1>33, <1>5, <2>1 DEF Unchanged, NoDirectory
  <2>3. pc' = "unlink" /\ UNCHANGED <<vault, did, seen, answer>>
    BY <1>33, <2>2 DEF CheckMoved, Goto, Same
  <2>4. Found'
    BY <1>0, <1>1, <1>3, <1>9, <1>33, <2>1, <2>2, <2>3 DEF Found, Sequenced, Forward
  <2>5. Sequenced'
    BY <1>0, <1>1, <1>3, <1>9, <1>33, <2>1, <2>2, <2>3 DEF Found, Sequenced, CompanionNames, Forward
  <2>6. Names'
    BY <1>0, <1>1, <1>3, <1>9, <1>33, <2>1, <2>2, <2>3, <1>4, <1>6, <1>18 DEF Found, Sequenced, Names, Forward
  <2>7. CompanionNames'
    BY <1>0, <1>1, <1>3, <1>9, <1>33, <2>1, <2>2, <2>3 DEF Found, Sequenced, CompanionNames, Vacant, Forward
  <2>8. UndoneExactly'
    BY <1>0, <1>1, <1>3, <1>9, <1>33, <2>1, <2>2, <2>3, <1>10, <1>11, <1>12, <1>13, <1>14, <1>23, <2>5, <2>6
       DEF Found, Sequenced, Names, CompanionNames, UndoneExactly, Vacant, Undoing, Forward
  <2> QED BY <2>4, <2>5, <2>6, <2>7, <2>8
<1>34. CASE UnlinkSource
  <2>1. /\ did.linked /\ ~did.unlinked /\ source # destination /\ pc = "unlink"
        /\ Before.file[source] # None /\ vault.file[destination] = Before.file[source]
        /\ vault.file[source] = Before.file[source] /\ seen.dir = Before.dir[source]
        /\ vault.dir[source] = None /\ vault.dir[destination] = Before.dir[source]
        /\ did.moved <=> Before.dir[source] # None
    BY <1>34, <1>3 DEF UnlinkSource, Sequenced, Found, Forward, Names, CompanionNames
  <2>2. /\ vault' = PutAt(vault, Note(source), None) /\ did' = [did EXCEPT !.unlinked = TRUE]
        /\ pc' = "release" /\ answer' = "ok" /\ UNCHANGED seen
    BY <1>34, <1>5, <1>7, <2>1 DEF UnlinkSource, RemoveAt
  <2>3. /\ vault'.dir = vault.dir /\ vault'.child = vault.child /\ vault'.file[source] = None
        /\ \A p \in Pages : p # source => vault'.file[p] = vault.file[p]
    BY <1>0, <1>19, <2>2
  <2>4. did'.linked /\ (did'.moved <=> did.moved) /\ did'.unlinked /\ did'.resv = did.resv
    BY <1>34, <1>0, <2>1, <2>2
  <2>5. Found'
    BY <1>0, <1>1, <1>3, <1>9, <1>34, <2>1, <2>2, <2>3, <2>4 DEF Found, Sequenced, Forward
  <2>6. Sequenced'
    BY <1>0, <1>1, <1>3, <1>9, <1>34, <2>1, <2>2, <2>3, <2>4 DEF Found, Sequenced, CompanionNames, Forward
  <2>7. Names'
    BY <1>0, <1>1, <1>3, <1>9, <1>34, <2>1, <2>2, <2>3, <2>4, <1>4, <1>6, <1>18 DEF Found, Sequenced, Names, Forward
  <2>8. CompanionNames'
    BY <1>0, <1>1, <1>3, <1>9, <1>34, <2>1, <2>2, <2>3, <2>4 DEF Found, Sequenced, CompanionNames, Vacant, Forward
  <2>9. UndoneExactly'
    BY <1>0, <1>1, <1>3, <1>9, <1>34, <2>1, <2>2, <2>3, <2>4, <1>10, <1>11, <1>12, <1>13, <1>14, <1>23, <2>6, <2>7
       DEF Found, Sequenced, Names, CompanionNames, UndoneExactly, Vacant, Undoing, Forward
  <2> QED BY <2>5, <2>6, <2>7, <2>8, <2>9
<1>35. CASE ReleaseLock
  <2>1. /\ pc = "release" /\ pc' = answer /\ answer \in {"ok", "failed"}
        /\ UNCHANGED <<vault, did, seen, answer>>
    BY <1>35, <1>0 DEF ReleaseLock, Goto, TypeOK
  <2>2. Found'
    BY <1>0, <1>1, <1>3, <1>9, <1>35, <2>1 DEF Found, Sequenced, Forward
  <2>3. Sequenced'
    BY <1>0, <1>1, <1>3, <1>9, <1>35, <2>1 DEF Found, Sequenced, CompanionNames, Forward
  <2>4. Names'
    BY <1>0, <1>1, <1>3, <1>9, <1>35, <2>1, <1>4, <1>6, <1>18 DEF Found, Sequenced, Names, Forward
  <2>5. CompanionNames'
    BY <1>0, <1>1, <1>3, <1>9, <1>35, <2>1 DEF Found, Sequenced, CompanionNames, Vacant, Forward
  <2>6. UndoneExactly'
    BY <1>0, <1>1, <1>3, <1>9, <1>35, <2>1, <1>10, <1>11, <1>12, <1>13, <1>14, <1>23, <2>3, <2>4
       DEF Found, Sequenced, Names, CompanionNames, UndoneExactly, Vacant, Undoing, Forward
  <2> QED BY <2>2, <2>3, <2>4, <2>5, <2>6
<1>36. CASE UndoCompanion /\ ~did.moved
  <2>1. pc = "undo" /\ pc' = "undo file" /\ RemoveReservation(destination) /\ UNCHANGED <<did, seen, answer>>
    BY <1>36 DEF UndoCompanion, Goto
  <2>2. /\ vault'.file = vault.file /\ vault'.child = vault.child /\ vault'.dir[destination] \in {vault.dir[destination], None}
        /\ source # destination => vault'.dir[source] = vault.dir[source]
        /\ did.resv = None => vault' = vault
    BY <1>36, <1>0, <2>1, ReservationRemoved
  <2>3. ~did.linked \/ source = destination => vault' = vault
    BY <1>36, <1>3, <1>9, <2>2 DEF Sequenced
  <2>4. Found'
    BY <1>0, <1>1, <1>3, <1>9, <1>36, <2>1, <2>2, <2>3 DEF Found, Sequenced, Forward
  <2>5. Sequenced'
    BY <1>0, <1>1, <1>3, <1>9, <1>36, <2>1, <2>2, <2>3 DEF Found, Sequenced, CompanionNames, Forward
  <2>6. Names'
    BY <1>0, <1>1, <1>3, <1>9, <1>36, <2>1, <2>2, <2>3, <1>4, <1>6, <1>18 DEF Found, Sequenced, Names, Forward
  <2>7. CompanionNames'
    BY <1>0, <1>1, <1>3, <1>9, <1>36, <2>1, <2>2, <2>3 DEF Found, Sequenced, CompanionNames, Vacant, Forward
  <2>8. UndoneExactly'
    BY <1>0, <1>1, <1>3, <1>9, <1>36, <2>1, <2>2, <2>3, <1>10, <1>11, <1>12, <1>13, <1>14, <1>23, <2>5, <2>6
       DEF Found, Sequenced, Names, CompanionNames, UndoneExactly, Vacant, Undoing, Forward
  <2> QED BY <2>4, <2>5, <2>6, <2>7, <2>8
<1>37. CASE UndoCompanion /\ did.moved /\ vault.dir[destination] = seen.dir /\ NoDirectory(vault, source)
  <2>1. PICK d \in Fresh(vault, {}) :
        /\ vault' = PutDirectory(Emptied(vault, d), source, d) /\ did' = [did EXCEPT !.resv = d]
        /\ pc = "undo" /\ pc' = "undo shift" /\ UNCHANGED <<seen, answer>>
    BY <1>37 DEF UndoCompanion, Goto
  <2>2. did.linked /\ did.moved /\ source # destination
    BY <1>37, <1>3, <1>9 DEF Sequenced
  <2>3. /\ d \in Inode0 /\ d # None /\ vault'.file = vault.file
        /\ vault'.dir[source] = d /\ vault'.dir[destination] = vault.dir[destination] /\ vault'.child[d] = None
        /\ Before.dir[source] # None => vault'.child[Before.dir[source]] = vault.child[Before.dir[source]]
    BY <1>37, <1>0, <1>16, <2>1, <2>2
  <2>4. did'.linked /\ did'.moved /\ (did'.unlinked <=> did.unlinked) /\ did'.resv = d
    BY <1>37, <1>0, <2>1, <2>2, <2>3
  <2>5. Found'
    BY <1>0, <1>1, <1>3, <1>9, <1>37, <2>1, <2>2, <2>3, <2>4 DEF Found, Sequenced, Forward
  <2>6. Sequenced'
    BY <1>0, <1>1, <1>3, <1>9, <1>37, <2>1, <2>2, <2>3, <2>4 DEF Found, Sequenced, CompanionNames, Forward
  <2>7. Names'
    <3>1. did'.linked /\ source # destination /\ vault'.file[destination] = Before.file[source]
      BY <1>0, <1>18, <1>37, <2>1, <2>2, <2>3, <2>4
    <3>2. \A p \in Pages : p \notin {source, destination} => vault'.file[p] = vault.file[p]
      BY <2>1, <2>2, <2>3, <2>4
    <3>3. /\ did'.unlinked => vault'.file[source] = None
          /\ ~did'.unlinked => vault'.file[source] = Before.file[source]
      BY <1>22, <2>1, <2>2, <2>3, <2>4
    <3> QED BY <1>21, <3>1, <3>2, <3>3
  <2>8. CompanionNames'
    BY <1>0, <1>1, <1>3, <1>9, <1>37, <2>1, <2>2, <2>3, <2>4 DEF Found, Sequenced, CompanionNames, Vacant, Forward
  <2>9. UndoneExactly'
    BY <1>0, <1>1, <1>3, <1>9, <1>37, <2>1, <2>2, <2>3, <2>4, <1>10, <1>11, <1>12, <1>13, <1>14, <1>23, <2>6, <2>7
       DEF Found, Sequenced, Names, CompanionNames, UndoneExactly, Vacant, Undoing, Forward
  <2> QED BY <2>5, <2>6, <2>7, <2>8, <2>9
<1>38. CASE UndoCompanion /\ did.moved /\ ~(vault.dir[destination] = seen.dir /\ NoDirectory(vault, source))
  <2>1. pc = "undo" /\ pc' = "undo file" /\ UNCHANGED <<vault, did, seen, answer>>
    BY <1>38 DEF UndoCompanion, Goto
  <2>2. did.linked /\ did.moved /\ source # destination
    BY <1>38, <1>3, <1>9 DEF Sequenced
  <2>3. vault.dir[destination] = seen.dir /\ ~NoDirectory(vault, source)
    BY <1>38, <1>3, <1>17, <2>2 DEF CompanionNames
  <2>4. ~(faults <= 1)
    BY <1>38, <1>3, <2>1, <2>2, <2>3 DEF UndoneExactly, NoDirectory
  <2>5. Found'
    BY <1>0, <1>1, <1>3, <1>9, <1>38, <2>1, <2>2, <2>3, <2>4 DEF Found, Sequenced, Forward
  <2>6. Sequenced'
    BY <1>0, <1>1, <1>3, <1>9, <1>38, <2>1, <2>2, <2>3, <2>4 DEF Found, Sequenced, CompanionNames, Forward
  <2>7. Names'
    BY <1>0, <1>1, <1>3, <1>9, <1>38, <2>1, <2>2, <2>3, <2>4, <1>4, <1>6, <1>18 DEF Found, Sequenced, Names, Forward
  <2>8. CompanionNames'
    BY <1>0, <1>1, <1>3, <1>9, <1>38, <2>1, <2>2, <2>3, <2>4 DEF Found, Sequenced, CompanionNames, Vacant, Forward
  <2>9. UndoneExactly'
    BY <1>0, <1>1, <1>3, <1>9, <1>38, <2>1, <2>2, <2>3, <2>4, <1>10, <1>11, <1>12, <1>13, <1>14, <1>23, <2>6, <2>7
       DEF Found, Sequenced, Names, CompanionNames, UndoneExactly, Vacant, Undoing, Forward
  <2> QED BY <2>5, <2>6, <2>7, <2>8, <2>9
<1>39. CASE UndoShift /\ vault.dir[destination] = seen.dir /\ Reserved(source)
  <2>1. /\ pc = "undo shift" /\ pc' = "undo file" /\ vault' = MoveDirectory(vault, destination, source)
        /\ did' = [did EXCEPT !.moved = FALSE] /\ UNCHANGED <<seen, answer>>
    BY <1>39 DEF UndoShift, Goto
  <2>2. /\ did.linked /\ did.moved /\ did.resv # None /\ source # destination /\ Before.dir[destination] = None
        /\ vault.dir[destination] = Before.dir[source] /\ vault.dir[source] = did.resv /\ vault.child[did.resv] = None
    BY <1>39, <1>3, <2>1 DEF Sequenced, Found, CompanionNames, Reserved, EmptyDirectory
  <2>3. destination # source /\ vault.child[vault.dir[source]] = None
    BY <2>2
  <2>4. /\ vault'.file = vault.file /\ vault'.child = vault.child
        /\ vault'.dir[destination] = None /\ vault'.dir[source] = vault.dir[destination]
    BY <1>0, <1>20, <2>1, <2>3
  <2>5. did'.linked /\ ~did'.moved /\ (did'.unlinked <=> did.unlinked) /\ did'.resv = did.resv
    BY <1>39, <1>0, <2>1, <2>2
  <2>6. Found'
    BY <1>0, <1>1, <1>3, <1>9, <1>39, <2>1, <2>2, <2>3, <2>4, <2>5 DEF Found, Sequenced, Forward
  <2>7. Sequenced'
    BY <1>0, <1>1, <1>3, <1>9, <1>39, <2>1, <2>2, <2>3, <2>4, <2>5 DEF Found, Sequenced, CompanionNames, Forward
  <2>8. Names'
    <3>1. did'.linked /\ source # destination /\ vault'.file[destination] = Before.file[source]
      BY <1>0, <1>18, <1>39, <2>1, <2>2, <2>3, <2>4, <2>5
    <3>2. \A p \in Pages : p \notin {source, destination} => vault'.file[p] = vault.file[p]
      BY <2>1, <2>2, <2>3, <2>4, <2>5
    <3>3. /\ did'.unlinked => vault'.file[source] = None
          /\ ~did'.unlinked => vault'.file[source] = Before.file[source]
      BY <1>22, <2>1, <2>2, <2>3, <2>4, <2>5
    <3> QED BY <1>21, <3>1, <3>2, <3>3
  <2>9. CompanionNames'
    BY <1>0, <1>1, <1>3, <1>9, <1>39, <2>1, <2>2, <2>3, <2>4, <2>5 DEF Found, Sequenced, CompanionNames, Vacant, Forward
  <2>10. UndoneExactly'
    BY <1>0, <1>1, <1>3, <1>9, <1>39, <2>1, <2>2, <2>3, <2>4, <2>5, <1>10, <1>11, <1>12, <1>13, <1>14, <1>23, <2>7, <2>8
       DEF Found, Sequenced, Names, CompanionNames, UndoneExactly, Vacant, Undoing, Forward
  <2> QED BY <2>6, <2>7, <2>8, <2>9, <2>10
<1>40. CASE UndoShift /\ ~(vault.dir[destination] = seen.dir /\ Reserved(source))
  <2>1. pc = "undo shift" /\ pc' = "undo file" /\ RemoveReservation(source) /\ UNCHANGED <<did, seen, answer>>
    BY <1>40 DEF UndoShift, Goto
  <2>2. /\ did.linked /\ did.moved /\ did.resv # None /\ source # destination
        /\ vault.dir[destination] = Before.dir[source] /\ seen.dir = Before.dir[source]
    BY <1>40, <1>3, <1>17, <2>1 DEF Sequenced, CompanionNames
  <2>3. ~(faults <= 1)
    BY <1>40, <1>3, <2>1, <2>2 DEF UndoneExactly, Reserved, EmptyDirectory, Vacant
  <2>4. /\ vault'.file = vault.file /\ vault'.child = vault.child
        /\ vault'.dir[destination] = vault.dir[destination]
    BY <1>40, <1>0, <2>1, <2>2, ReservationRemoved
  <2>5. Found'
    BY <1>0, <1>1, <1>3, <1>9, <1>40, <2>1, <2>2, <2>3, <2>4 DEF Found, Sequenced, Forward
  <2>6. Sequenced'
    BY <1>0, <1>1, <1>3, <1>9, <1>40, <2>1, <2>2, <2>3, <2>4 DEF Found, Sequenced, CompanionNames, Forward
  <2>7. Names'
    BY <1>0, <1>1, <1>3, <1>9, <1>40, <2>1, <2>2, <2>3, <2>4, <1>4, <1>6, <1>18 DEF Found, Sequenced, Names, Forward
  <2>8. CompanionNames'
    BY <1>0, <1>1, <1>3, <1>9, <1>40, <2>1, <2>2, <2>3, <2>4 DEF Found, Sequenced, CompanionNames, Vacant, Forward
  <2>9. UndoneExactly'
    BY <1>0, <1>1, <1>3, <1>9, <1>40, <2>1, <2>2, <2>3, <2>4, <1>10, <1>11, <1>12, <1>13, <1>14, <1>23, <2>6, <2>7
       DEF Found, Sequenced, Names, CompanionNames, UndoneExactly, Vacant, Undoing, Forward
  <2> QED BY <2>5, <2>6, <2>7, <2>8, <2>9
<1>41. CASE UndoUnlink /\ did.unlinked /\ Unchanged(Note(destination)) /\ FileAt(vault, path) = None
  <2>1. /\ pc = "undo file" /\ pc' = "undo target" /\ vault' = PutAt(vault, Note(source), seen.file)
        /\ did' = [did EXCEPT !.unlinked = FALSE] /\ UNCHANGED <<seen, answer>>
    BY <1>41, <1>7 DEF UndoUnlink, Goto
  <2>2. did.linked /\ did.unlinked
    BY <1>41, <1>3 DEF Sequenced
  <2>3. /\ source # destination /\ seen.file = Before.file[source]
        /\ vault.file[destination] = Before.file[source]
    BY <1>41, <1>17, <1>18, <2>1, <2>2
  <2>4. /\ vault'.dir = vault.dir /\ vault'.child = vault.child /\ vault'.file[source] = seen.file
        /\ \A p \in Pages : p # source => vault'.file[p] = vault.file[p]
    BY <1>0, <1>19, <2>1
  <2>5. did'.linked /\ (did'.moved <=> did.moved) /\ ~did'.unlinked /\ did'.resv = did.resv
    BY <1>41, <1>0, <2>1, <2>2
  <2>6. Found'
    BY <1>0, <1>1, <1>3, <1>9, <1>41, <2>1, <2>2, <2>3, <2>4, <2>5 DEF Found, Sequenced, Forward
  <2>7. Sequenced'
    BY <1>0, <1>1, <1>3, <1>9, <1>41, <2>1, <2>2, <2>3, <2>4, <2>5 DEF Found, Sequenced, CompanionNames, Forward
  <2>8. Names'
    <3>1. did'.linked /\ source # destination /\ vault'.file[destination] = Before.file[source]
      BY <1>0, <1>18, <1>41, <2>1, <2>2, <2>3, <2>4, <2>5
    <3>2. \A p \in Pages : p \notin {source, destination} => vault'.file[p] = vault.file[p]
      BY <2>1, <2>2, <2>3, <2>4, <2>5
    <3>3. /\ did'.unlinked => vault'.file[source] = None
          /\ ~did'.unlinked => vault'.file[source] = Before.file[source]
      BY <1>22, <2>1, <2>2, <2>3, <2>4, <2>5
    <3> QED BY <1>21, <3>1, <3>2, <3>3
  <2>9. CompanionNames'
    BY <1>0, <1>1, <1>3, <1>9, <1>41, <2>1, <2>2, <2>3, <2>4, <2>5 DEF Found, Sequenced, CompanionNames, Vacant, Forward
  <2>10. UndoneExactly'
    BY <1>0, <1>1, <1>3, <1>9, <1>41, <2>1, <2>2, <2>3, <2>4, <2>5, <1>10, <1>11, <1>12, <1>13, <1>14, <1>23, <2>7, <2>8
       DEF Found, Sequenced, Names, CompanionNames, UndoneExactly, Vacant, Undoing, Forward
  <2> QED BY <2>6, <2>7, <2>8, <2>9, <2>10
<1>42. CASE UndoUnlink /\ ~(did.unlinked /\ Unchanged(Note(destination)) /\ FileAt(vault, path) = None)
  <2>1. pc = "undo file" /\ pc' = "undo target" /\ UNCHANGED <<vault, did, seen, answer>>
    BY <1>42 DEF UndoUnlink, Goto
  <2>2. did.unlinked => did.linked
    BY <1>42, <1>3 DEF Sequenced
  <2>3. did.unlinked => FileAt(vault, path) = None
    BY <1>42, <1>3, <1>5, <1>17, <2>2 DEF Names
  <2>4. ~did.unlinked
    BY <1>42, <1>18, <2>1, <2>2, <2>3
  <2>5. Found'
    BY <1>0, <1>1, <1>3, <1>9, <1>42, <2>1, <2>2, <2>3, <2>4 DEF Found, Sequenced, Forward
  <2>6. Sequenced'
    BY <1>0, <1>1, <1>3, <1>9, <1>42, <2>1, <2>2, <2>3, <2>4 DEF Found, Sequenced, CompanionNames, Forward
  <2>7. Names'
    BY <1>0, <1>1, <1>3, <1>9, <1>42, <2>1, <2>2, <2>3, <2>4, <1>4, <1>6, <1>18 DEF Found, Sequenced, Names, Forward
  <2>8. CompanionNames'
    BY <1>0, <1>1, <1>3, <1>9, <1>42, <2>1, <2>2, <2>3, <2>4 DEF Found, Sequenced, CompanionNames, Vacant, Forward
  <2>9. UndoneExactly'
    BY <1>0, <1>1, <1>3, <1>9, <1>42, <2>1, <2>2, <2>3, <2>4, <1>10, <1>11, <1>12, <1>13, <1>14, <1>23, <2>6, <2>7
       DEF Found, Sequenced, Names, CompanionNames, UndoneExactly, Vacant, Undoing, Forward
  <2> QED BY <2>5, <2>6, <2>7, <2>8, <2>9
<1>43. CASE UndoTarget
  <2>1. pc = "undo target" /\ UNCHANGED <<vault, did, seen>>
    BY <1>43 DEF UndoTarget, Same
  <2>2. did.linked /\ ~did.moved /\ ~did.unlinked => Unchanged(Note(destination)) /\ source # destination
    BY <1>43, <1>17, <1>18, <2>1
  <2>3. \/ pc' = "undo unlink" /\ answer' = answer /\ did.linked /\ ~did.moved /\ ~did.unlinked
        \/ pc' = "release" /\ answer' = "failed" /\ ~(did.linked /\ ~did.moved /\ ~did.unlinked)
    BY <1>43, <2>2 DEF UndoTarget, Goto
  <2>4. Found'
    BY <1>0, <1>1, <1>3, <1>9, <1>43, <2>1, <2>2, <2>3 DEF Found, Sequenced, Forward
  <2>5. Sequenced'
    BY <1>0, <1>1, <1>3, <1>9, <1>43, <2>1, <2>2, <2>3 DEF Found, Sequenced, CompanionNames, Forward
  <2>6. Names'
    BY <1>0, <1>1, <1>3, <1>9, <1>43, <2>1, <2>2, <2>3, <1>4, <1>6, <1>18 DEF Found, Sequenced, Names, Forward
  <2>7. CompanionNames'
    BY <1>0, <1>1, <1>3, <1>9, <1>43, <2>1, <2>2, <2>3 DEF Found, Sequenced, CompanionNames, Vacant, Forward
  <2>8. UndoneExactly'
    BY <1>0, <1>1, <1>3, <1>9, <1>43, <2>1, <2>2, <2>3, <1>10, <1>11, <1>12, <1>13, <1>14, <1>23, <2>5, <2>6
       DEF Found, Sequenced, Names, CompanionNames, UndoneExactly, Vacant, Undoing, Forward
  <2> QED BY <2>4, <2>5, <2>6, <2>7, <2>8
<1>44. CASE UnlinkTarget
  <2>1. /\ pc = "undo unlink" /\ pc' = "release" /\ answer' = "failed" /\ UNCHANGED <<did, seen>>
        /\ vault' = PutAt(vault, Note(destination), None)
    BY <1>44 DEF UnlinkTarget, RemoveAt
  <2>2. /\ did.linked /\ ~did.moved /\ ~did.unlinked /\ source # destination
        /\ Before.file[destination] = None /\ vault.file[source] = Before.file[source]
    BY <1>44, <1>3, <2>1 DEF Sequenced, Found, Names
  <2>3. /\ vault'.dir = vault.dir /\ vault'.child = vault.child /\ vault'.file[destination] = None
        /\ \A p \in Pages : p # destination => vault'.file[p] = vault.file[p]
    BY <1>0, <1>19, <2>1
  <2>4. \A p \in Pages : vault'.file[p] = Before.file[p]
    BY <1>44, <1>3, <2>2, <2>3 DEF Names
  <2>5. Found'
    BY <1>0, <1>1, <1>3, <1>9, <1>44, <2>1, <2>2, <2>3, <2>4 DEF Found, Sequenced, Forward
  <2>6. Sequenced'
    BY <1>0, <1>1, <1>3, <1>9, <1>44, <2>1, <2>2, <2>3, <2>4 DEF Found, Sequenced, CompanionNames, Forward
  <2>7. Names'
    BY <1>0, <1>1, <1>3, <1>9, <1>44, <2>1, <2>2, <2>3, <2>4, <1>4, <1>6, <1>18 DEF Found, Sequenced, Names, Forward
  <2>8. CompanionNames'
    BY <1>0, <1>1, <1>3, <1>9, <1>44, <2>1, <2>2, <2>3, <2>4 DEF Found, Sequenced, CompanionNames, Vacant, Forward
  <2>9. UndoneExactly'
    BY <1>0, <1>1, <1>3, <1>9, <1>44, <2>1, <2>2, <2>3, <2>4, <1>10, <1>11, <1>12, <1>13, <1>14, <1>23, <2>6, <2>7
       DEF Found, Sequenced, Names, CompanionNames, UndoneExactly, Vacant, Undoing, Forward
  <2> QED BY <2>5, <2>6, <2>7, <2>8, <2>9
<1>45. CASE Fails /\ pc # "undo shift"
  <2>1. /\ UNCHANGED <<vault, did, seen>> /\ pc \in Running /\ Fault
        /\ pc # "cleanup"
    BY <1>45, <1>8 DEF Fails, Goto, Throw, MoveSteps, Forward, Answers
  <2>2. pc' \in {"failed", "undo", "undo file", "undo target", "release"}
    BY <1>45, <1>2, <2>1 DEF Fails, Goto, Throw, Failing
  <2>3. /\ pc' = "failed" => pc = "lock" \/ (pc = "release" /\ answer = "failed")
             \/ (pc = "release" /\ answer = "ok" /\ lock' \in {"left", "free"})
        /\ pc' = "undo" => pc \in Forward \union {"source"} \/ (pc = "release" /\ answer = "ok")
    BY <1>45, <1>0, <1>2, <1>8 DEF Fails, Goto, Throw, Failing, MoveSteps, Forward, Answers, TypeOK, Running, Undoing
  <2>4. /\ pc' = "undo file" => pc = "undo"
        /\ pc' = "undo target" => pc = "undo file"
        /\ pc' = "release" => pc \in {"undo target", "undo unlink"} /\ answer' = "failed"
        /\ pc' # "release" => answer' = answer
    BY <1>45, <1>0, <1>2, <1>8 DEF Fails, Goto, Throw, Failing, MoveSteps, Forward, Answers, Running, Undoing
  <2>5. Found'
    BY <1>0, <1>1, <1>3, <1>9, <1>45, <2>1, <2>2, <2>3, <2>4 DEF Found, Sequenced, Forward
  <2>6. Sequenced'
    BY <1>0, <1>1, <1>3, <1>9, <1>45, <2>1, <2>2, <2>3, <2>4 DEF Found, Sequenced, CompanionNames, Forward
  <2>7. Names'
    BY <1>0, <1>1, <1>3, <1>9, <1>45, <2>1, <2>2, <2>3, <2>4, <1>4, <1>6, <1>18 DEF Found, Sequenced, Names, Forward
  <2>8. CompanionNames'
    BY <1>0, <1>1, <1>3, <1>9, <1>45, <2>1, <2>2, <2>3, <2>4 DEF Found, Sequenced, CompanionNames, Vacant, Forward
  <2>10. IsMoved /\ faults' <= 1 /\ lock' \in {"left", "free"} => IsMoved' /\ faults' = 1 /\ lock' # "held"
    BY <1>0, <1>1, <1>3, <1>9, <1>45, <2>1, <2>2, <1>10, <1>11, <1>12, <1>13, <1>14, <1>23
  <2>9. UndoneExactly'
    BY <1>0, <1>1, <1>3, <1>9, <1>45, <2>1, <2>2, <2>3, <2>4, <1>10, <1>11, <1>12, <1>13, <1>14, <1>23, <2>6, <2>7, <2>10
       DEF Found, Sequenced, Names, CompanionNames, UndoneExactly, Vacant, Undoing, Forward
  <2> QED BY <2>5, <2>6, <2>7, <2>8, <2>9
<1>46. CASE Fails /\ pc = "undo shift"
  <2>1. /\ RemoveReservation(source) /\ pc' = "undo file" /\ UNCHANGED <<did, seen, answer>> /\ Fault
    BY <1>46 DEF Fails, Goto
  <2>2. /\ did.linked /\ did.moved /\ did.resv # None /\ source # destination /\ faults > 0
        /\ vault.dir[destination] = Before.dir[source]
    BY <1>46, <1>3 DEF Sequenced, Found, CompanionNames, UndoneExactly, Undoing
  <2>3. /\ vault'.file = vault.file /\ vault'.child = vault.child
        /\ vault'.dir[destination] = vault.dir[destination]
    BY <1>46, <1>0, <2>1, <2>2, ReservationRemoved
  <2>4. Found'
    BY <1>0, <1>1, <1>3, <1>9, <1>46, <2>1, <2>2, <2>3 DEF Found, Sequenced, Forward
  <2>5. Sequenced'
    BY <1>0, <1>1, <1>3, <1>9, <1>46, <2>1, <2>2, <2>3 DEF Found, Sequenced, CompanionNames, Forward
  <2>6. Names'
    BY <1>0, <1>1, <1>3, <1>9, <1>46, <2>1, <2>2, <2>3, <1>4, <1>6, <1>18 DEF Found, Sequenced, Names, Forward
  <2>7. CompanionNames'
    BY <1>0, <1>1, <1>3, <1>9, <1>46, <2>1, <2>2, <2>3 DEF Found, Sequenced, CompanionNames, Vacant, Forward
  <2>8. UndoneExactly'
    BY <1>0, <1>1, <1>3, <1>9, <1>46, <2>1, <2>2, <2>3, <1>10, <1>11, <1>12, <1>13, <1>14, <1>23, <2>5, <2>6
       DEF Found, Sequenced, Names, CompanionNames, UndoneExactly, Vacant, Undoing, Forward
  <2> QED BY <2>4, <2>5, <2>6, <2>7, <2>8
<1>47. CASE ForgetsDirectory /\ pc = "reserve"
  <2>1. PICK d \in Fresh(vault, {}) :
        /\ vault' = PutDirectory(Emptied(vault, d), destination, d) /\ NoDirectory(vault, destination)
        /\ UNCHANGED <<did, seen, answer>>
    BY <1>47 DEF ForgetsDirectory, Goto
  <2>2. /\ did.linked /\ ~did.moved /\ ~did.unlinked /\ source # destination /\ pc' = "undo" /\ Fault
    BY <1>47, <1>3 DEF ForgetsDirectory, Sequenced, Found, Goto
  <2>3. /\ d \in Inode0 /\ d # None /\ vault'.file = vault.file
        /\ vault'.dir[destination] = d /\ vault'.dir[source] = vault.dir[source] /\ vault'.child[d] = None
        /\ Before.dir[source] # None => vault'.child[Before.dir[source]] = vault.child[Before.dir[source]]
    BY <1>47, <1>0, <1>16, <2>1, <2>2
  <2>4. faults' > 0
    BY <1>23, <2>2
  <2>5. Found'
    BY <1>0, <1>1, <1>3, <1>9, <1>47, <2>1, <2>2, <2>3, <2>4 DEF Found, Sequenced, Forward
  <2>6. Sequenced'
    BY <1>0, <1>1, <1>3, <1>9, <1>47, <2>1, <2>2, <2>3, <2>4 DEF Found, Sequenced, CompanionNames, Forward
  <2>7. Names'
    BY <1>0, <1>1, <1>3, <1>9, <1>47, <2>1, <2>2, <2>3, <2>4, <1>4, <1>6, <1>18 DEF Found, Sequenced, Names, Forward
  <2>8. CompanionNames'
    BY <1>0, <1>1, <1>3, <1>9, <1>47, <2>1, <2>2, <2>3, <2>4 DEF Found, Sequenced, CompanionNames, Vacant, Forward
  <2>9. UndoneExactly'
    BY <1>0, <1>1, <1>3, <1>9, <1>47, <2>1, <2>2, <2>3, <2>4, <1>10, <1>11, <1>12, <1>13, <1>14, <1>23, <2>6, <2>7
       DEF Found, Sequenced, Names, CompanionNames, UndoneExactly, Vacant, Undoing, Forward
  <2> QED BY <2>5, <2>6, <2>7, <2>8, <2>9
<1>48. CASE ForgetsDirectory /\ pc = "undo"
  <2>1. pc' = "undo file" /\ did.moved /\ Fault
    BY <1>48 DEF ForgetsDirectory, Goto
  <2>2. PICK d \in Fresh(vault, {}) :
        /\ vault' = PutDirectory(Emptied(vault, d), source, d) /\ NoDirectory(vault, source)
        /\ UNCHANGED <<did, seen, answer>>
    BY <1>48 DEF ForgetsDirectory, Goto
  <2>3. /\ did.linked /\ did.moved /\ source # destination /\ faults > 0
    BY <1>48, <1>3, <2>1 DEF Sequenced, Found, UndoneExactly, Undoing
  <2>4. /\ d \in Inode0 /\ d # None /\ vault'.file = vault.file
        /\ vault'.dir[source] = d /\ vault'.dir[destination] = vault.dir[destination] /\ vault'.child[d] = None
        /\ Before.dir[source] # None => vault'.child[Before.dir[source]] = vault.child[Before.dir[source]]
    BY <1>48, <1>0, <1>16, <2>2, <2>3
  <2>5. ~(faults' <= 1)
    BY <1>23, <2>1, <2>3
  <2>6. Found'
    BY <1>0, <1>1, <1>3, <1>9, <1>48, <2>1, <2>2, <2>3, <2>4, <2>5 DEF Found, Sequenced, Forward
  <2>7. Sequenced'
    BY <1>0, <1>1, <1>3, <1>9, <1>48, <2>1, <2>2, <2>3, <2>4, <2>5 DEF Found, Sequenced, CompanionNames, Forward
  <2>8. Names'
    <3>1. did'.linked /\ source # destination /\ vault'.file[destination] = Before.file[source]
      BY <1>0, <1>18, <1>48, <2>1, <2>2, <2>3, <2>4, <2>5
    <3>2. \A p \in Pages : p \notin {source, destination} => vault'.file[p] = vault.file[p]
      BY <2>1, <2>2, <2>3, <2>4, <2>5
    <3>3. /\ did'.unlinked => vault'.file[source] = None
          /\ ~did'.unlinked => vault'.file[source] = Before.file[source]
      BY <1>22, <2>1, <2>2, <2>3, <2>4, <2>5
    <3> QED BY <1>21, <3>1, <3>2, <3>3
  <2>9. CompanionNames'
    BY <1>0, <1>1, <1>3, <1>9, <1>48, <2>1, <2>2, <2>3, <2>4, <2>5 DEF Found, Sequenced, CompanionNames, Vacant, Forward
  <2>10. UndoneExactly'
    BY <1>0, <1>1, <1>3, <1>9, <1>48, <2>1, <2>2, <2>3, <2>4, <2>5, <1>10, <1>11, <1>12, <1>13, <1>14, <1>23, <2>7, <2>8
       DEF Found, Sequenced, Names, CompanionNames, UndoneExactly, Vacant, Undoing, Forward
  <2> QED BY <2>6, <2>7, <2>8, <2>9, <2>10
<1>49. CASE Dies
  <2>1. pc' = "down" /\ UNCHANGED <<vault, did, seen, answer>>
    BY <1>49 DEF Dies, Goto
  <2>2. Found'
    BY <1>0, <1>1, <1>3, <1>9, <1>49, <2>1 DEF Found, Sequenced, Forward
  <2>3. Sequenced'
    BY <1>0, <1>1, <1>3, <1>9, <1>49, <2>1 DEF Found, Sequenced, CompanionNames, Forward
  <2>4. Names'
    BY <1>0, <1>1, <1>3, <1>9, <1>49, <2>1, <1>4, <1>6, <1>18 DEF Found, Sequenced, Names, Forward
  <2>5. CompanionNames'
    BY <1>0, <1>1, <1>3, <1>9, <1>49, <2>1 DEF Found, Sequenced, CompanionNames, Vacant, Forward
  <2>6. UndoneExactly'
    BY <1>0, <1>1, <1>3, <1>9, <1>49, <2>1, <1>10, <1>11, <1>12, <1>13, <1>14, <1>23, <2>3, <2>4
       DEF Found, Sequenced, Names, CompanionNames, UndoneExactly, Vacant, Undoing, Forward
  <2> QED BY <2>2, <2>3, <2>4, <2>5, <2>6
<1>50. ~WriteStep /\ ~CutTemporary
  BY <1>8 DEF MoveSteps, Forward, Answers, WriteStep, ReadBaseline, MakeParents, MakeTemporary, CheckTarget,
     RenameOver, LinkNew, UnlinkTemporary, Confirm, RemoveTemporary, CutTemporary
<1>51. /\ ReadSource => pc' \in {"recheck", "undo"}
       /\ RecheckSource => pc' \in {"link", "undo"}
       /\ ForgetsDirectory => pc \in {"reserve", "undo"}
  BY <1>2 DEF ReadSource, RecheckSource, ForgetsDirectory, Goto, Throw, Failing
<1> QED BY <1>24, <1>25, <1>26, <1>27, <1>28, <1>29, <1>30, <1>31, <1>32, <1>33, <1>34,
           <1>35, <1>36, <1>37, <1>38, <1>39, <1>40, <1>41, <1>42, <1>43, <1>44, <1>45,
           <1>46, <1>47, <1>48, <1>49, <1>50, <1>51
        DEF Process, Misfortune, MoveStep

\* The layout is kept by every step.
LEMMA LayoutKept ==
  ASSUME StepInv, StartInv, Layout, [Next]_vars
  PROVE  StartInv' /\ Layout'
<1>1. StartInv'
  BY StartKept
<1>2. ASSUME touched' = {} PROVE WriteLayout' /\ MoveLayout'
  <2>1. touched = {} /\ Before' = Before /\ WriteLayout /\ MoveLayout
    BY <1>2, StartKept DEF Layout
  <2>2. CASE Process \/ Misfortune
    BY <2>1, <2>2, WriteLayoutKept, MoveLayoutKept
  <2>3. CASE OwnerActs
    BY <1>2, <2>3 DEF OwnerActs, OwnerDoes
  <2>4. CASE UNCHANGED vars
    <3>1. UNCHANGED <<request, vault, pc, answer, tmp, seen, did, lock, faults>>
      BY <2>4 DEF vars
    <3>2. kind' = kind /\ path' = path /\ source' = source /\ destination' = destination
      BY <3>1, SameRequest
    <3>3. WriteLayout'
      BY <2>1, <3>1, <3>2 DEF WriteLayout
    <3>4. MoveLayout'
      BY <2>1, <3>1, <3>2 DEF MoveLayout, Found, Sequenced, Names, CompanionNames, UndoneExactly,
         IsMoved, IsUnmoved, Vacant
    <3> QED BY <3>3, <3>4
  <2> QED BY <2>2, <2>3, <2>4 DEF Next
<1> QED BY <1>1, <1>2 DEF Layout

\* The layout holds at first: the vault is the one the call found.
LEMMA InitLayout ==
  ASSUME Init
  PROVE  StartInv /\ Layout
<1>1. PICK C \in SUBSET Companions :
        vault = InitialVault(Present, C) /\ owed = {Old(p) : p \in OwnPaths(Present, C)}
  BY DEF Init
<1>2. C \subseteq Pages /\ C \subseteq Present /\ Present \subseteq Pages
  BY WriterAssumption
<1>3. OwnPaths(Present, C) \subseteq Paths
  BY <1>2, PathsAreRecords DEF OwnPaths
<1>4. \A p \in Pages : Old(Within(p)) \in owed <=> p \in C
  <2>1. \A x \in Paths : Old(x) \in owed <=> x \in OwnPaths(Present, C)
    BY <1>1, <1>3, TextsDiffer
  <2>2. \A p \in Pages : Within(p) \in OwnPaths(Present, C) <=> p \in C
    BY DEF OwnPaths, Note, Within
  <2> QED BY <2>1, <2>2, PathsAreRecords
<1>5. {p \in Pages : Old(Within(p)) \in owed} = C
  BY <1>2, <1>4
<1>6. vault = Before
  BY <1>1, <1>5 DEF Before
<1>7. StartInv
  BY <1>1 DEF StartInv
<1>8. did = Nothing /\ pc = "idle" /\ ~did.linked /\ ~did.moved /\ ~did.unlinked /\ did.resv = None
  BY DEF Init, Nothing
<1>9. WriteLayout
  BY <1>6, <1>8 DEF WriteLayout
<1>10. MoveLayout
  BY <1>6, <1>8 DEF MoveLayout, Found, Sequenced, Names, CompanionNames, UndoneExactly, Forward, Undoing
<1> QED BY <1>7, <1>9, <1>10 DEF Layout

\* Every reachable state has the layout.
LEMMA LayoutInvariant == Spec => [](StepInv /\ TextInv /\ StartInv /\ Layout)
<1>1. Init => StepInv /\ TextInv /\ StartInv /\ Layout
  BY InitInv, InitLayout
<1>2. (StepInv /\ TextInv /\ StartInv /\ Layout) /\ [Next]_vars => (StepInv /\ TextInv /\ StartInv /\ Layout)'
  BY StepKept, TextKept, LayoutKept
<1> QED BY <1>1, <1>2, PTL DEF Spec

\* An answer is the truth: "ok" is the new text or the page under its new name alone, a
\* failed write or creation left the old state or the complete new text, and a move that
\* failed after one failure at most is undone, or complete and its release of the lock failed.
THEOREM AnswersAreExact == Spec => []OutcomeIsExact
<1>1. ASSUME StepInv, Layout
      PROVE  OutcomeIsExact
  <2>1. SUFFICES ASSUME touched = {}
                 PROVE  /\ pc = "ok" => IF kind = "move" THEN IsMoved ELSE TextIs(vault, path, New(1))
                        /\ pc = "failed" /\ kind = "move" /\ faults <= 1 =>
                             IsUnmoved \/ (IsMoved /\ faults = 1 /\ lock # "held")
                        /\ pc = "failed" /\ kind # "move" =>
                             TextIs(vault, path, New(1)) \/ FileAt(vault, path) = FileAt(Before, path)
                        /\ pc \in {"ok", "failed"} /\ faults = 0 => tmp = None /\ lock # "held"
    BY DEF OutcomeIsExact, IsMoved, IsUnmoved, Before
  <2>2. WriteLayout /\ MoveLayout
    BY <1>1, <2>1 DEF Layout
  <2>3. pc \in {"ok", "failed"} /\ faults = 0 => tmp = None /\ lock # "held"
    BY <1>1 DEF StepInv, TypeOK, Temporary, Running, Undoing
  <2> QED BY <2>2, <2>3 DEF WriteLayout, MoveLayout, UndoneExactly
<1> QED BY <1>1, LayoutInvariant, PTL

\* While the owner keeps away, note and companion are complete under the old or under the new
\* name at every moment, but in the undoing of a move that had removed the old name.
THEOREM PageStaysWhole == Spec => []OneNameIsComplete
<1>1. ASSUME StepInv, StartInv, Layout
      PROVE  OneNameIsComplete
  <2> DEFINE companion == IF Old(Within(source)) \in owed THEN {Old(Within(source))} ELSE {}
             complete(p) == /\ TextIs(vault, Note(p), Old(path))
                            /\ \A t \in companion : TextIs(vault, Within(p), t)
  <2>1. SUFFICES ASSUME touched = {}, kind = "move", Old(path) \in owed
                 PROVE  complete(source) \/ complete(destination)
                          \/ (did.unlinked /\ did.resv # None /\ ~did.moved)
    BY DEF OneNameIsComplete
  <2>2. Found /\ Sequenced /\ Names /\ CompanionNames
    BY <1>1, <2>1 DEF Layout, MoveLayout
  <2>3. path = Note(source) /\ source \in Pages /\ destination \in Pages /\ TypeOK
    BY <1>1, <2>1, RequestParts DEF StepInv
  <2>4. /\ Before.file[source] # None /\ TextIs(Before, Note(source), Old(path))
        /\ Before.dir[source] # None => TextIs(Before, Within(source), Old(Within(source)))
        /\ Old(Within(source)) \in owed => Before.dir[source] # None
    BY <1>1, <2>1, <2>3, BeforeParts
  <2>5. vault.text = Before.text
    BY <2>2 DEF Names
  <2>6. \A v : \A p \in Pages :
          /\ FileAt(v, Note(p)) = v.file[p]
          /\ v.dir[p] # None => FileAt(v, Within(p)) = v.child[v.dir[p]]
    BY PathsAreRecords DEF FileAt
  \* A page that has the file and the directory of the old name is complete.
  <2>7. ASSUME NEW p \in Pages, vault.file[p] = Before.file[source],
               Before.dir[source] # None => vault.dir[p] = Before.dir[source]
        PROVE  complete(p)
    <3>1. TextIs(vault, Note(p), Old(path))
      BY <2>3, <2>4, <2>5, <2>6, <2>7 DEF TextIs
    <3>2. ASSUME NEW t \in companion PROVE TextIs(vault, Within(p), t)
      <4>1. t = Old(Within(source)) /\ Before.dir[source] # None
        BY <2>4
      <4>2. vault.child[Before.dir[source]] = Before.child[Before.dir[source]]
        BY <2>2, <4>1 DEF CompanionNames
      <4>3. FileAt(vault, Within(p)) = FileAt(Before, Within(source))
        BY <2>3, <2>6, <2>7, <4>1, <4>2
      <4> QED BY <2>4, <2>5, <4>1, <4>3 DEF TextIs
    <3> QED BY <3>1, <3>2
  <2>8. CASE ~did.unlinked /\ ~did.moved
    <3>1. vault.file[source] = Before.file[source]
      <4>1. CASE source # destination
        BY <2>2, <2>8, <4>1 DEF Names
      <4>2. CASE source = destination
        BY <2>2, <4>2 DEF Names, Found
      <4> QED BY <4>1, <4>2
    <3>2. vault.dir[source] = Before.dir[source]
      BY <2>2, <2>8 DEF CompanionNames
    <3> QED BY <2>3, <2>7, <3>1, <3>2
  <2>9. CASE did.moved \/ did.unlinked
    <3>1. did.linked
      BY <2>2, <2>9 DEF Sequenced
    <3>2. vault.file[destination] = Before.file[source]
      BY <2>2, <2>9, <3>1 DEF Names
    <3>3. CASE did.moved
      <4>1. vault.dir[destination] = Before.dir[source]
        BY <2>2, <3>3 DEF CompanionNames
      <4> QED BY <2>3, <2>7, <3>2, <4>1
    <3>4. CASE ~did.moved /\ Before.dir[source] = None
      BY <2>3, <2>7, <3>2, <3>4
    <3>5. CASE ~did.moved /\ Before.dir[source] # None
      BY <2>2, <2>9, <3>5 DEF CompanionNames
    <3> QED BY <3>3, <3>4, <3>5
  <2> QED BY <2>8, <2>9
<1> QED BY <1>1, LayoutInvariant, PTL

=============================================================================
