------------------------ MODULE CortexTransactionProofs ------------------------
(***************************************************************************)
(* Proofs about the transaction store, for every set of transactions, any  *)
(* number of pages, and every bound on the owner's edits and on failures.  *)
(* The invariant has layers: `TypeInv` (where the process is, and what the *)
(* manifest and the private files are then), `TextInv` (a text that is     *)
(* owed is in the vault or in a complete preimage), `WindowInv` (what a    *)
(* process that is about to change a name knows of it), `WhereInv` and     *)
(* `LinkedInv` (every text is where it was or where a move that is done or *)
(* under way took it), `EndInv` (what an answer says of the manifest) and  *)
(* `StraightInv` (while the owner changes nothing, a text is lost only to  *)
(* a write that replaces it, and a page that a move left stays empty).     *)
(***************************************************************************)
EXTENDS CortexTransaction, VaultFilesProofs, FiniteSetTheorems, WellFoundedInduction

-----------------------------------------------------------------------------
(***************************************************************************)
(* The invariants.                                                         *)
(***************************************************************************)
\* What the parser accepts, and what the steps that need a file of the intent rely on:
\* a pending move has one, and so has a write that is being restored.
Manifests ==
  [phase: Phases \union {"absent", "torn"}, done: 0..Len(plan), pend: Operations, rb: Operations,
   post: [Members -> [f: Inode0, d: Inode0]], restored: [Members -> Inode0]]

Sound(m) ==
  /\ m \in Manifests /\ ManifestFacts(m)
  /\ m.pend # NoOperation /\ Kind(m.done + 1) = "move" => m.pend.post # None
  /\ m.rb # NoOperation /\ Kind(m.done) = "write" => m.rb.post # None

Transactions ==
  [made: BOOLEAN, man: Manifests, temp: BOOLEAN, pre: [Members -> {"absent", "torn", "whole"}],
   staged: Inode0, back: Inode0, resv: Inode0]

Whole(t) == \A k \in NeedsPreimage : t.pre[k] = "whole"

\* What the position of the process says of the manifest: its phase,
Phased(q, m) ==
  /\ q \in {"idle"} \union Preparing => m = NoManifest
  /\ q = "publish" => m.phase = "prepared"
  /\ q \in (Publishing \ {"publish"}) \union {"finish", "promote"} => m.phase = "publishing"
  /\ q = "undo" => m.phase \in Phases
  /\ q = "drop" => m.phase \in Phases \ {"rolling-back"}
  /\ q \in {"resume", "reverse", "intent", "progress"} => m.phase = "rolling-back"

\* the operation on the way forward and the staged file,
Forward(q, t) ==
  LET m == t.man
  IN /\ q = "member" => m.pend = NoOperation
     /\ q \in {"stage", "ready", "swap", "unlink"} => m.pend # NoOperation /\ Kind(m.done + 1) # "move"
     /\ q \in {"moving", "finish"} => m.pend # NoOperation /\ Kind(m.done + 1) = "move"
     /\ q \in {"unlink", "complete", "promote"} => m.pend # NoOperation
     /\ q \in {"unlink", "complete"} => m.pend.post # None
     /\ q = "ready" => t.staged # None
     /\ q = "swap" => m.pend.post = t.staged /\ t.staged # None

\* the operation on the way back,
Back(q, t) ==
  LET m == t.man
  IN /\ q = "intent" => m.rb = NoOperation /\ m.done > 0 /\ Kind(m.done) = "write" /\ t.back # None
     /\ q \in {"reverse", "progress"} => m.rb # NoOperation
     /\ q = "reverse" => Kind(m.done) = "move"

\* and the preimages.
Preimages(q, t) ==
  /\ q \in {"idle", "directory", "preimages"} => \A k \in Members : t.pre[k] # "torn"
  /\ q \in {"manifest"} \union Publishing \union (Undoing \ {"undo", "clean"}) => Whole(t)

Located(q, t) == Phased(q, t.man) /\ Forward(q, t) /\ Back(q, t) /\ Preimages(q, t)

\* The directory that reserves a name is not in the vault yet.
Aside(v, t) == t.resv # None => t.resv \notin Held(v) \union {t.staged, t.back}

\* Process, vault and private directory fit together.
Fits(q, v, t) ==
  /\ q \in Running \union Answers
  /\ v \in Vaults(Texts) /\ t \in Transactions /\ Sound(t.man)
  /\ Located(q, t) /\ Aside(v, t)

TypeInv ==
  /\ plan \in Plans /\ Fits(pc, vault, tx)
  /\ lock \in {"free", "held", "left"} /\ edits \in 0..MaxEdits /\ faults \in 0..MaxFaults
  /\ window \in {"closed", "open", "raced"} /\ owed \subseteq Texts /\ touched \subseteq Pages

\* A text that a complete preimage holds.
Saved(tr, t) == \E k \in NeedsPreimage : tr.pre[k] = "whole" /\ t = Expected(k)

\* A text that is owed is in the vault, or it is the text of a preimage that is complete;
\* before there is a manifest and after it is gone, it is in the vault.
TextInv ==
  /\ \A k \in Members : New(k) \notin owed
  /\ \A t \in owed : t \in TextsIn(vault) \/ Saved(tx, t)
  /\ pc \in {"idle", "clean"} \union Preparing => owed \subseteq TextsIn(vault)

\* Between the comparison and the call: the comparison holds until the owner acts, and what
\* is owed and has no name but the one that is replaced or removed is in a preimage.
WindowInv ==
  /\ window # "closed" => pc \in {"swap", "resume", "moving", "finish", "reverse"}
  /\ window = "open" => Compared
  /\ window = "raced" => touched # {}
  /\ window # "closed" /\ Moving /\ Operation.stage = "companion-reserved" => tx.resv # None
  /\ window # "closed" =>
       \A path \in Affected : \A t \in OnlyAt(vault, path) : t \in owed => Saved(tx, t)

-----------------------------------------------------------------------------
(***************************************************************************)
(* The plan and the texts.                                                 *)
(***************************************************************************)
\* A plan has members, and a move has two ends.
LEMMA PlanParts ==
  ASSUME plan \in Plans
  PROVE  /\ Len(plan) \in Nat \ {0} /\ Members \subseteq Nat /\ IsFiniteSet(Members)
         /\ \A k \in Nat : k \in Members <=> 1 <= k /\ k <= Len(plan)
         /\ \A k \in Members :
              /\ Kind(k) \in {"write", "create", "move"}
              /\ plan[k].path \in Paths /\ plan[k].to \in Pages /\ plan[k].path.page \in Pages
              /\ Kind(k) = "move" => plan[k].path = Note(plan[k].path.page) /\ plan[k].path.page # plan[k].to
<1>1. plan \in Seq(Requests) /\ plan # <<>>
  BY PlansAssumption
<1>2. Len(plan) \in Nat \ {0} /\ \A k \in Members : plan[k] \in Requests
  BY <1>1 DEF Members
<1>3. \A r \in Requests : /\ r.kind \in {"write", "create", "move"}
                          /\ r.path \in Paths /\ r.to \in Pages
                          /\ r.kind = "move" => ~r.path.inside /\ r.path.page # r.to
  BY DEF Requests
<1>4. IsFiniteSet(Members)
  BY <1>2, FS_Interval DEF Members
<1> QED BY <1>2, <1>3, <1>4, PathsAreRecords DEF Members, Kind

\* A set of numbers has a least one.
LEMMA LeastExists ==
  ASSUME NEW S \in SUBSET Nat, S # {}
  PROVE  \E i \in S : \A j \in S : i <= j
<1>1. IsWellFoundedOn(OpToRel(<, Nat), Nat)
  BY NatLessThanWellFounded
<1>2. PICK i \in S : \A j \in S : ~(<<j, i>> \in OpToRel(<, Nat))
  BY <1>1, WFMin
<1>3. \A j \in S : ~(j < i)
  BY <1>2 DEF OpToRel
<1> QED BY <1>3

\* The texts a transaction knows.
LEMMA TextsParts ==
  /\ Torn \in Texts /\ \A x \in Paths : Old(x) \in Texts
  /\ \A k \in Members : New(k) \in Texts
  /\ \A n \in 1..MaxEdits : Mine(n) \in Texts
BY DEF Texts

\* What the owner writes is never what the transaction writes.
LEMMA TextsDiffer ==
  \A k : (\A x : New(k) # Old(x)) /\ (\A n : New(k) # Mine(n))
BY DEF New, Old, Mine

\* The text a member expects is one the owner's notes had at first.
LEMMA ExpectedTyped ==
  ASSUME plan \in Plans, NEW k \in Members
  PROVE  /\ BeforeMoves(k, plan[k].path) \in Paths /\ Expected(k) \in Texts
         /\ \E x \in Paths : Expected(k) = Old(x)
<1> DEFINE path == plan[k].path
           moves == {j \in 1..(k - 1) : Kind(j) = "move" /\ plan[j].to = path.page}
<1>1. path \in Paths /\ k \in Nat /\ moves \subseteq Nat
  BY PlanParts
<1>2. BeforeMoves(k, path) \in Paths
  <2>1. CASE moves = {}
    BY <1>1, <2>1 DEF BeforeMoves
  <2>2. CASE moves # {}
    <3>1. \E j \in moves : \A i \in moves : i <= j
      <4>1. PICK S : S = {n \in Nat : n <= k /\ k - n \in moves}
        OBVIOUS
      <4>2. S \subseteq Nat /\ S # {}
        <5>1. PICK j \in moves : TRUE
          BY <2>2
        <5>2. k - j \in Nat /\ k - j <= k /\ k - (k - j) = j
          BY <1>1, <5>1
        <5> QED BY <4>1, <5>1, <5>2
      <4>3. PICK n \in S : \A i \in S : n <= i
        BY <4>2, LeastExists
      <4>4. k - n \in moves
        BY <4>1, <4>3
      <4>5. ASSUME NEW i \in moves PROVE i <= k - n
        <5>1. k - i \in Nat /\ k - i <= k /\ k - (k - i) = i
          BY <1>1, <4>5
        <5>2. k - i \in S
          BY <4>1, <5>1
        <5> QED BY <1>1, <4>1, <4>3, <4>5, <5>1, <5>2
      <4> QED BY <4>4, <4>5
    <3>2. PICK j \in moves : j = CHOOSE x \in moves : \A i \in moves : i <= x
      BY <3>1
    <3>3. j \in Members /\ plan[j].path.page \in Pages
      BY <1>1, PlanParts
    <3>4. BeforeMoves(k, path) = [path EXCEPT !.page = plan[j].path.page]
      BY <2>2, <3>2 DEF BeforeMoves
    <3> QED BY <1>1, <3>3, <3>4 DEF Paths
  <2> QED BY <2>1, <2>2
<1> QED BY <1>2, TextsParts DEF Expected

-----------------------------------------------------------------------------
(***************************************************************************)
(* The manifest.                                                           *)
(***************************************************************************)
\* The parts of a manifest and of a private directory.
LEMMA ManifestParts ==
  ASSUME NEW m \in Manifests
  PROVE  /\ m.phase \in Phases \union {"absent", "torn"} /\ m.done \in 0..Len(plan)
         /\ m.pend \in Operations /\ m.rb \in Operations
         /\ m.post \in [Members -> [f: Inode0, d: Inode0]] /\ m.restored \in [Members -> Inode0]
BY DEF Manifests

LEMMA TransactionParts ==
  ASSUME NEW t \in Transactions
  PROVE  /\ t.made \in BOOLEAN /\ t.man \in Manifests /\ t.temp \in BOOLEAN
         /\ t.pre \in [Members -> {"absent", "torn", "whole"}]
         /\ t.staged \in Inode0 /\ t.back \in Inode0 /\ t.resv \in Inode0
BY DEF Transactions

LEMMA OperationParts ==
  /\ NoOperation \in Operations /\ NoOperation.stage = "none"
  /\ NoOperation.pre = None /\ NoOperation.post = None
  /\ NoOperation.comp = None /\ NoOperation.resv = None
  /\ \A op \in Operations :
       /\ op.stage \in Stages \union {"none", "reserved", "ready", "restore"}
       /\ op.pre \in Inode0 /\ op.post \in Inode0 /\ op.comp \in Inode0 /\ op.resv \in Inode0
BY NoneIsNoInode DEF Operations, NoOperation

\* The first manifest, none, and one that was cut short.
LEMMA FirstManifests ==
  ASSUME plan \in Plans
  PROVE  /\ Sound(Prepared) /\ Sound(NoManifest) /\ Sound(TornManifest)
         /\ Prepared.phase = "prepared" /\ Prepared.pend = NoOperation /\ Prepared.rb = NoOperation
         /\ NoManifest.phase = "absent" /\ TornManifest.phase = "torn"
<1>1. NoIdentity \in [f: Inode0, d: Inode0] /\ NoIdentity.f = None
  BY NoneIsNoInode DEF NoIdentity
<1> DEFINE post == [k \in Members |-> NoIdentity]
           restored == [k \in Members |-> None]
<1>2. post \in [Members -> [f: Inode0, d: Inode0]] /\ \A k \in Members : post[k].f = None
  BY <1>1
<1>3. restored \in [Members -> Inode0] /\ \A k \in Members : restored[k] = None
  BY NoneIsNoInode
<1>4. Prepared = [phase |-> "prepared", done |-> 0, pend |-> NoOperation, rb |-> NoOperation,
                  post |-> post, restored |-> restored]
  BY DEF Prepared
<1> HIDE DEF post, restored
<1>5. ASSUME NEW m, NEW ph \in {"prepared", "absent", "torn"}, m = [Prepared EXCEPT !.phase = ph]
      PROVE  Sound(m) /\ m.phase = ph /\ m.pend = NoOperation /\ m.rb = NoOperation
  <2>1. m = [phase |-> ph, done |-> 0, pend |-> NoOperation, rb |-> NoOperation,
             post |-> post, restored |-> restored]
    BY <1>4, <1>5
  <2>2. m \in Manifests
    BY <1>2, <1>3, <2>1, PlanParts, OperationParts DEF Manifests, Phases
  <2>3. \A k \in Members : ~(k <= 0)
    BY PlanParts
  <2>4. ManifestFacts(m)
    BY <1>2, <1>3, <2>1, <2>3, PlanParts DEF ManifestFacts
  <2> QED BY <2>1, <2>2, <2>4 DEF Sound
<1>6. Prepared = [Prepared EXCEPT !.phase = "prepared"]
  BY <1>4
<1> QED BY <1>5, <1>6 DEF NoManifest, TornManifest

\* Publishing starts with nothing done.
LEMMA PublishingSound ==
  ASSUME plan \in Plans, NEW m, Sound(m), m.phase = "prepared"
  PROVE  LET n == [m EXCEPT !.phase = "publishing"]
         IN Sound(n) /\ n.phase = "publishing" /\ n.pend = NoOperation
<1>1. PICK n : n = [m EXCEPT !.phase = "publishing"]
  OBVIOUS
<1>2. /\ n.phase = "publishing" /\ n.done = m.done /\ n.pend = m.pend /\ n.rb = m.rb
      /\ n.post = m.post /\ n.restored = m.restored /\ n \in Manifests
  BY <1>1 DEF Sound, Manifests, Phases
<1>3. m.done = 0 /\ m.pend = NoOperation /\ m.rb = NoOperation /\ ManifestFacts(m)
  BY DEF Sound, ManifestFacts
<1>4. ManifestFacts(n)
  BY <1>2, <1>3, PlanParts DEF ManifestFacts
<1> QED BY <1>1, <1>2, <1>3, <1>4 DEF Sound

\* An operation on the way forward is recorded.
LEMMA PendingSound ==
  ASSUME plan \in Plans, NEW m, Sound(m), m.phase = "publishing", NEW op \in Operations,
         op # NoOperation,
         Kind(m.done + 1) = "move" => OperationFacts(op) /\ op.post # None,
         Kind(m.done + 1) # "move" => (op.stage = "ready" <=> op.post # None)
  PROVE  LET n == [m EXCEPT !.pend = op]
         IN Sound(n) /\ n.phase = "publishing" /\ n.pend = op /\ n.done = m.done /\ n.rb = m.rb
<1>1. PICK n : n = [m EXCEPT !.pend = op]
  OBVIOUS
<1>2. /\ n.phase = m.phase /\ n.done = m.done /\ n.pend = op /\ n.rb = m.rb
      /\ n.post = m.post /\ n.restored = m.restored /\ n \in Manifests
  BY <1>1 DEF Sound, Manifests
<1>3. ManifestFacts(m) /\ m.rb = NoOperation
  BY DEF Sound, ManifestFacts
<1>4. ManifestFacts(n)
  BY <1>2, <1>3 DEF ManifestFacts
<1> QED BY <1>1, <1>2, <1>3, <1>4 DEF Sound

\* A member is completed: the transaction goes on or is committed.
LEMMA CompletionSound ==
  ASSUME plan \in Plans, Sound(man), man.phase = "publishing", man.pend.post # None
  PROVE  /\ Sound(WithCompletion) /\ WithCompletion.pend = NoOperation
         /\ WithCompletion.phase = IF Coming = Len(plan) THEN "committed" ELSE "publishing"
<1>1. /\ man \in Manifests /\ ManifestFacts(man) /\ man.done < Len(plan) /\ man.rb = NoOperation
      /\ Len(plan) \in Nat /\ man.done \in Nat
  BY ManifestParts, PlanParts DEF Sound, ManifestFacts
<1>2. Coming \in Members /\ Coming \in 0..Len(plan) /\ Coming = man.done + 1
  BY <1>1, PlanParts DEF Coming
<1> DEFINE id == [f |-> man.pend.post, d |-> man.pend.comp]
           post == [man.post EXCEPT ![Coming] = id]
<1>3. id \in [f: Inode0, d: Inode0] /\ id.f # None
  BY <1>1, ManifestParts, OperationParts
<1>4. /\ post \in [Members -> [f: Inode0, d: Inode0]]
      /\ post[Coming] = id /\ \A k \in Members : k # Coming => post[k] = man.post[k]
  <2>1. man.post \in [Members -> [f: Inode0, d: Inode0]]
    BY <1>1, ManifestParts
  <2> HIDE DEF id
  <2> QED BY <1>2, <1>3, <2>1
<1>5. PICK n : n = WithCompletion
  OBVIOUS
<1>6. n = [man EXCEPT !.phase = IF Coming = Len(plan) THEN "committed" ELSE "publishing",
                      !.done = Coming, !.pend = NoOperation, !.post = post]
  BY <1>1, <1>5 DEF WithCompletion, Manifests
<1> HIDE DEF id, post
<1>7. /\ n.phase = IF Coming = Len(plan) THEN "committed" ELSE "publishing"
      /\ n.done = Coming /\ n.pend = NoOperation /\ n.rb = NoOperation
      /\ n.post = post /\ n.restored = man.restored
      /\ n \in Manifests
  BY <1>1, <1>2, <1>4, <1>6, OperationParts DEF Manifests, Phases
<1>8. \A k \in Members : man.restored[k] = None
  BY <1>1 DEF ManifestFacts
<1>9. \A k \in Members : k <= Coming <=> (k <= man.done \/ k = Coming)
  BY <1>1, <1>2, PlanParts
<1>10. \A k \in Members : (k <= Coming) <=> (post[k].f # None)
  BY <1>1, <1>3, <1>4, <1>9 DEF ManifestFacts
<1>11. n.phase = "publishing" => Coming < Len(plan)
  BY <1>1, <1>2, <1>7
<1>12. ManifestFacts(n)
  BY <1>2, <1>7, <1>8, <1>10, <1>11 DEF ManifestFacts
<1> QED BY <1>5, <1>7, <1>12 DEF Sound

\* Rolling back starts from any manifest that does not roll back yet.
LEMMA RollingBackSound ==
  ASSUME plan \in Plans, NEW m, Sound(m), m.phase \in Phases
  PROVE  LET n == WithRollingBack(m)
         IN Sound(n) /\ n.phase = "rolling-back"
<1>1. PICK n : n = WithRollingBack(m)
  OBVIOUS
<1>2. /\ n.phase = "rolling-back" /\ n.done = m.done /\ n.pend = NoOperation /\ n.rb = m.rb
      /\ n.post = m.post /\ n.restored = m.restored /\ n \in Manifests
  BY <1>1, OperationParts DEF WithRollingBack, Sound, Manifests, Phases
<1>3. ManifestFacts(m)
  BY DEF Sound
<1>4. ManifestFacts(n)
  BY <1>2, <1>3 DEF ManifestFacts
<1> QED BY <1>1, <1>2, <1>4 DEF Sound

\* An operation on the way back is recorded.
LEMMA BackwardSound ==
  ASSUME plan \in Plans, NEW m, Sound(m), m.phase = "rolling-back", NEW op \in Operations,
         ManifestFacts([m EXCEPT !.rb = op]), Kind(m.done) = "write" => op.post # None
  PROVE  LET n == [m EXCEPT !.rb = op]
         IN Sound(n) /\ n.phase = "rolling-back" /\ n.rb = op /\ n.done = m.done
<1>1. PICK n : n = [m EXCEPT !.rb = op]
  OBVIOUS
<1>2. /\ n.phase = m.phase /\ n.done = m.done /\ n.pend = m.pend /\ n.rb = op
      /\ n.post = m.post /\ n.restored = m.restored /\ n \in Manifests
  BY <1>1 DEF Sound, Manifests
<1>3. m.pend = NoOperation
  BY DEF Sound, ManifestFacts
<1> QED BY <1>1, <1>2, <1>3 DEF Sound

\* A later stage of a move that is undone.
LEMMA BackwardStageSound ==
  ASSUME plan \in Plans, NEW m, Sound(m), m.rb # NoOperation, Kind(m.done) = "move",
         NEW op \in Operations, OperationFacts(op), op.pre = m.rb.pre, op.comp = m.rb.comp
  PROVE  LET n == [m EXCEPT !.rb = op]
         IN Sound(n) /\ n.phase = "rolling-back" /\ n.rb = op /\ n.done = m.done
<1>1. PICK n : n = [m EXCEPT !.rb = op]
  OBVIOUS
<1>2. /\ n.phase = m.phase /\ n.done = m.done /\ n.pend = m.pend /\ n.rb = op
      /\ n.post = m.post /\ n.restored = m.restored /\ n \in Manifests
  BY <1>1 DEF Sound, Manifests
<1>3. ManifestFacts(m) /\ m.phase = "rolling-back"
  BY DEF Sound, ManifestFacts
<1>4. ManifestFacts(n)
  BY <1>2, <1>3 DEF ManifestFacts
<1> QED BY <1>1, <1>3, <1>4, BackwardSound

\* A member is undone.
LEMMA ProgressSound ==
  ASSUME plan \in Plans, Sound(man), man.rb # NoOperation
  PROVE  Sound(WithProgress) /\ WithProgress.phase = "rolling-back" /\ WithProgress.rb = NoOperation
<1>1. /\ man \in Manifests /\ ManifestFacts(man) /\ man.phase = "rolling-back" /\ man.done > 0
      /\ man.pend = NoOperation /\ man.done \in 0..Len(plan) /\ Len(plan) \in Nat
      /\ Going = man.done
  BY ManifestParts, PlanParts DEF Sound, ManifestFacts, Going
<1>2. Going \in Members /\ Going - 1 \in 0..Len(plan) /\ Going - 1 < Len(plan) /\ Going \in Nat
  BY <1>1, PlanParts
<1> DEFINE k == Going
           brought == {j \in 1..(k - 1) : Kind(j) = "move" /\ Note(plan[j].to) = plan[k].path}
           latest == {j \in brought : \A i \in brought : i <= j}
           post == [j \in Members |-> IF j = k THEN NoIdentity
                                      ELSE IF Kind(k) = "write" /\ j \in latest
                                      THEN [man.post[j] EXCEPT !.f = man.rb.post]
                                      ELSE man.post[j]]
           restored == IF Kind(k) = "write" THEN [man.restored EXCEPT ![k] = man.rb.post]
                       ELSE man.restored
<1>3. /\ man.post \in [Members -> [f: Inode0, d: Inode0]] /\ man.restored \in [Members -> Inode0]
      /\ man.rb.post \in Inode0 /\ (Kind(k) = "write" => man.rb.post # None)
  BY <1>1, ManifestParts, OperationParts DEF Sound
<1>4. NoIdentity \in [f: Inode0, d: Inode0] /\ NoIdentity.f = None
  BY NoneIsNoInode DEF NoIdentity
<1>5. \A j \in Members : j \in latest => j <= k - 1
  BY <1>2
<1>6. ASSUME NEW j \in Members
      PROVE  /\ post[j] \in [f: Inode0, d: Inode0]
             /\ (j <= k - 1) <=> (post[j].f # None)
  <2>1. CASE j = k
    BY <1>2, <1>4, <2>1
  <2>2. CASE j # k /\ Kind(k) = "write" /\ j \in latest
    <3>1. post[j] = [man.post[j] EXCEPT !.f = man.rb.post]
      BY <2>2
    <3>2. post[j] \in [f: Inode0, d: Inode0] /\ post[j].f = man.rb.post
      BY <1>3, <3>1
    <3> QED BY <1>3, <1>5, <2>2, <3>2
  <2>3. CASE j # k /\ ~(Kind(k) = "write" /\ j \in latest)
    <3>1. post[j] = man.post[j] /\ man.post[j] \in [f: Inode0, d: Inode0]
      BY <1>3, <2>3
    <3>2. (j <= man.done) <=> (man.post[j].f # None)
      BY <1>1 DEF ManifestFacts
    <3>3. j \in Nat
      BY PlanParts
    <3> QED BY <1>1, <1>2, <2>3, <3>1, <3>2, <3>3
  <2> QED BY <2>1, <2>2, <2>3
<1>7. post \in [Members -> [f: Inode0, d: Inode0]] /\ restored \in [Members -> Inode0]
  BY <1>3, <1>6
<1>8. PICK ps \in [Members -> [f: Inode0, d: Inode0]] :
        ps = post /\ \A j \in Members : (j <= k - 1) <=> (ps[j].f # None)
  BY <1>6, <1>7
<1>9. PICK rs \in [Members -> Inode0] :
        rs = restored /\ \A j \in Members : rs[j] # None =>
                             (j = k /\ Kind(k) = "write") \/ man.restored[j] # None
  BY <1>3, <1>7
<1>10. PICK n : n = WithProgress
  OBVIOUS
<1>11. n = [man EXCEPT !.done = k - 1, !.rb = NoOperation, !.post = ps, !.restored = rs]
  BY <1>8, <1>9, <1>10 DEF WithProgress
<1>12. /\ n.phase = man.phase /\ n.done = k - 1 /\ n.pend = man.pend /\ n.rb = NoOperation
       /\ n.post = ps /\ n.restored = rs /\ n \in Manifests
  BY <1>1, <1>2, <1>11, OperationParts DEF Manifests
<1>13. ASSUME NEW j \in Members, rs[j] # None
       PROVE  ps[j].f = None /\ Kind(j) = "write"
  <2>1. CASE j = k /\ Kind(k) = "write"
    BY <1>2, <1>8, <2>1
  <2>2. CASE man.restored[j] # None
    <3>1. man.post[j].f = None /\ Kind(j) = "write"
      BY <1>1, <2>2 DEF ManifestFacts
    <3>2. ~(j <= man.done) /\ j \in Nat
      BY <1>1, <3>1, PlanParts DEF ManifestFacts
    <3> QED BY <1>1, <1>2, <1>8, <3>1, <3>2
  <2> QED BY <1>9, <1>13, <2>1, <2>2
<1>14. ManifestFacts(n)
  BY <1>1, <1>2, <1>8, <1>12, <1>13 DEF ManifestFacts
<1> QED BY <1>1, <1>10, <1>12, <1>14 DEF Sound

-----------------------------------------------------------------------------
(***************************************************************************)
(* The layouts of a move, and the stages that may follow.                  *)
(***************************************************************************)
\* What each layout that a step starts from says of the names.
LEMMA LayoutMeans ==
  ASSUME NEW k, NEW back, NEW op
  PROVE  LET layout == Layout(k, back, op)
             from == From(k, back)
             to == To(k, back)
             source == TextIs(vault, Note(from), Expected(k)) /\ vault.file[from] = op.pre
             target == TextIs(vault, Note(to), Expected(k)) /\ vault.file[to] = op.post
         IN /\ layout = "old" =>
                 source /\ vault.file[to] = None /\ tx.resv = None
            /\ layout = "target-linked" =>
                 source /\ target /\ tx.resv = None
            /\ layout = "private-reserved" =>
                 /\ source /\ target /\ vault.dir[from] = op.comp /\ NoDirectory(vault, to)
                 /\ op.comp # None /\ tx.resv # None
                 /\ tx.resv = op.resv \/ (op.stage = "companion-reserve" /\ op.resv = None)
            /\ layout = "companion-reserved" =>
                 /\ source /\ target /\ vault.dir[from] = op.comp /\ tx.resv = None
                 /\ op.resv # None /\ vault.dir[to] = op.resv /\ EmptyDirectory(vault, op.resv)
            /\ layout = "companion-moved" =>
                 source /\ target /\ tx.resv = None
<1> DEFINE from == From(k, back)
           to == To(k, back)
           source == TextIs(vault, Note(from), Expected(k)) /\ vault.file[from] = op.pre
           target == TextIs(vault, Note(to), Expected(k)) /\ vault.file[to] = op.post
           linked == source /\ target
           stays == vault.dir[from] = op.comp
           unnamed == NoDirectory(vault, to)
           private == tx.resv # None
           ours == private /\ (tx.resv = op.resv \/ (op.stage = "companion-reserve" /\ op.resv = None))
           shown == op.resv # None /\ vault.dir[to] = op.resv /\ EmptyDirectory(vault, op.resv)
           arrived == NoDirectory(vault, from) /\ vault.dir[to] = op.comp
           old == source /\ vault.file[to] = None /\ stays /\ unnamed /\ ~private
           tl == linked /\ stays /\ unnamed /\ ~private
           pr == linked /\ stays /\ unnamed /\ op.comp # None /\ ours
           cr == linked /\ stays /\ shown /\ ~private
           cm == linked /\ arrived /\ op.comp # None /\ ~private
           pb == vault.file[from] = None /\ target /\ arrived /\ ~private
<1>1. Layout(k, back, op) =
        CASE old -> "old" [] tl -> "target-linked" [] pr -> "private-reserved"
          [] cr -> "companion-reserved" [] cm -> "companion-moved" [] pb -> "published"
          [] OTHER -> "unknown"
  BY DEF Layout
<1> HIDE DEF old, tl, pr, cr, cm, pb
<1>2. /\ Layout(k, back, op) = "old" => old
      /\ Layout(k, back, op) = "target-linked" => tl
      /\ Layout(k, back, op) = "private-reserved" => pr
      /\ Layout(k, back, op) = "companion-reserved" => cr
      /\ Layout(k, back, op) = "companion-moved" => cm
  BY <1>1
<1> USE DEF old, tl, pr, cr, cm, pb
<1> QED BY <1>2

\* The stage that follows, and the layout it is recorded in.
LEMMA NextStageIs ==
  ASSUME NEW stage \in NextStage
  PROVE  \/ Operation.stage = "pre-link" /\ stage = "target-linked"
         \/ Operation.stage = "target-linked" /\ Operation.comp = None /\ stage = "source-unlinked"
         \/ Operation.stage = "target-linked" /\ Operation.comp # None /\ stage = "companion-reserve"
         \/ /\ Operation.stage = "companion-reserve" /\ stage = "companion-reserved"
            /\ CurrentLayout = "private-reserved"
         \/ Operation.stage = "companion-reserved" /\ stage = "companion-moved"
         \/ Operation.stage = "companion-moved" /\ stage = "source-unlinked"
<1> DEFINE linked == IF Operation.comp = None THEN "source-unlinked" ELSE "companion-reserve"
           table == {<<"old", "pre-link", "target-linked">>,
                     <<"target-linked", "target-linked", linked>>,
                     <<"private-reserved", "companion-reserve", "companion-reserved">>,
                     <<"companion-reserved", "companion-reserved", "companion-moved">>,
                     <<"companion-moved", "companion-moved", "source-unlinked">>}
<1>1. NextStage = {row[3] : row \in {r \in table : r[1] = CurrentLayout /\ r[2] = Operation.stage}}
  BY DEF NextStage
<1>2. PICK row \in table : row[1] = CurrentLayout /\ row[2] = Operation.stage /\ row[3] = stage
  BY <1>1
<1> QED BY <1>2

-----------------------------------------------------------------------------
(***************************************************************************)
(* What a step has to establish.                                           *)
(***************************************************************************)
\* The invariant gives what the parser and the type invariant demand.
LEMMA TypeInvParts ==
  ASSUME TypeInv
  PROVE  /\ plan \in Plans /\ vault \in Vaults(Texts) /\ tx \in Transactions /\ man = tx.man
         /\ man \in Manifests /\ Sound(man) /\ ManifestFacts(man)
         /\ Located(pc, tx) /\ Phased(pc, man) /\ Forward(pc, tx) /\ Back(pc, tx) /\ Preimages(pc, tx)
         /\ Aside(vault, tx)
         /\ Coming = man.done + 1 /\ Going = man.done /\ man.done \in 0..Len(plan)
         /\ man.done < Len(plan) => Coming \in Members
         /\ man.done > 0 => Going \in Members
<1>1. /\ plan \in Plans /\ vault \in Vaults(Texts) /\ tx \in Transactions /\ man = tx.man
      /\ Sound(man) /\ Located(pc, tx) /\ Aside(vault, tx)
  BY DEF TypeInv, Fits, man
<1>2. man \in Manifests /\ ManifestFacts(man) /\ man.done \in 0..Len(plan)
  BY <1>1, ManifestParts DEF Sound
<1>3. Len(plan) \in Nat /\ \A k \in Nat : k \in Members <=> 1 <= k /\ k <= Len(plan)
  BY <1>1, PlanParts
<1> QED BY <1>1, <1>2, <1>3 DEF Located, Coming, Going

\* A process that has answered demands nothing of the manifest.
LEMMA AtRest ==
  ASSUME NEW v \in Vaults(Texts), NEW t \in Transactions, Sound(t.man), Aside(v, t),
         NEW q \in {"down", "attention", "committed", "rolled-back", "nothing"}
  PROVE  Fits(q, v, t)
BY DEF Fits, Located, Phased, Forward, Back, Preimages, Running, Preparing, Publishing, Undoing, Answers

\* An exception is caught where the manifest is one to undo, or ends the call.
LEMMA CaughtFits ==
  ASSUME NEW v \in Vaults(Texts), NEW t \in Transactions, Sound(t.man), Aside(v, t), Caught,
         lock \in {"free", "held", "left"},
         pc \in Publishing => t.man.phase \in Phases
  PROVE  Fits(pc', v, t) /\ lock' \in {"free", "held", "left"}
<1>1. CASE pc \in Publishing
  BY <1>1 DEF Caught, Fits, Located, Phased, Forward, Back, Preimages, Running, Preparing, Publishing,
              Undoing, Answers
<1>2. CASE pc \notin Publishing
  BY <1>2, AtRest DEF Caught
<1> QED BY <1>1, <1>2

\* What every step keeps of the process's own variables.
Kept == /\ plan' = plan /\ edits' = edits /\ owed' = owed /\ touched' = touched
        /\ lock' \in {"free", "held", "left"} /\ faults' \in 0..MaxFaults
        /\ Fits(pc', vault', tx')

\* An exception or an answer changes neither the vault nor the private directory.
LEMMA ThrowsKeeps ==
  ASSUME TypeInv, Throws, Owner
  PROVE  Kept
<1>1. Phased(pc, man) /\ (pc \in Publishing => man.phase \in Phases)
  BY TypeInvParts DEF Phased, Publishing, Phases
<1>2. Fits(pc', vault, tx) /\ lock' \in {"free", "held", "left"}
  BY <1>1, TypeInvParts, CaughtFits DEF Throws, TypeInv
<1> QED BY <1>2 DEF Throws, Owner, Kept, TypeInv

LEMMA EndKeeps ==
  ASSUME TypeInv, Owner, vault' = vault, tx' \in Transactions, Sound(tx'.man), Aside(vault, tx'),
         NEW answer \in {"attention", "committed", "rolled-back", "nothing"}, End(answer)
  PROVE  Kept
<1>1. pc' \in {"attention", "committed", "rolled-back", "nothing"}
  BY DEF End
<1>2. Fits(pc', vault', tx')
  BY <1>1, TypeInvParts, AtRest
<1>3. lock' \in {"free", "held", "left"} /\ faults' \in 0..MaxFaults
  BY TransactionAssumption DEF End, TypeInv
<1> QED BY <1>2, <1>3 DEF Owner, Kept

LEMMA GotoKeeps ==
  ASSUME TypeInv, Owner, NEW q, Goto(q), Fits(q, vault', tx')
  PROVE  Kept
BY DEF Goto, Owner, Kept, TypeInv

\* A step that keeps the reservation and the vault keeps it aside.
LEMMA AsideSame ==
  ASSUME TypeInv, NEW t \in Transactions, t.resv = tx.resv,
         t.staged \in {tx.staged, None}, t.back \in {tx.back, None}
  PROVE  Aside(vault, t)
BY TypeInvParts DEF Aside

-----------------------------------------------------------------------------
(***************************************************************************)
(* Applying: every step keeps the invariant.                               *)
(***************************************************************************)
\* A manifest is rewritten.
LEMMA PersistParts ==
  ASSUME TypeInv, NEW m, Sound(m), Persist(m)
  PROVE  /\ tx' \in Transactions /\ tx'.man = m /\ Sound(tx'.man) /\ Aside(vault, tx')
         /\ tx'.pre = tx.pre /\ tx'.staged = tx.staged /\ tx'.back = tx.back
<1>1. tx \in Transactions /\ m \in Manifests
  BY TypeInvParts DEF Sound
<1>2. tx' = [tx EXCEPT !.man = m]
  BY DEF Persist
<1>3. /\ tx' \in Transactions /\ tx'.man = m /\ tx'.pre = tx.pre
      /\ tx'.staged = tx.staged /\ tx'.back = tx.back /\ tx'.resv = tx.resv
  BY <1>1, <1>2 DEF Transactions
<1> QED BY <1>3, AsideSame

LEMMA BeginKeeps == ASSUME TypeInv, Owner, Begin PROVE Kept
<1>1. CASE pc' = "directory" /\ lock' = "held" /\ UNCHANGED faults
  <2>1. Fits("directory", vault, tx)
    BY TypeInvParts DEF Begin, Fits, Located, Phased, Forward, Back, Preimages, Running, Preparing,
                        Publishing, Undoing
  <2> QED BY <1>1, <2>1 DEF Begin, Owner, Kept, TypeInv
<1>2. CASE End("attention")
  BY <1>2, TypeInvParts, EndKeeps DEF Begin
<1> QED BY <1>1, <1>2 DEF Begin

LEMMA MakeDirectoryKeeps == ASSUME TypeInv, Owner, MakeDirectory PROVE Kept
<1>1. PICK q \in {"manifest", "preimages"} :
        Goto(q) /\ (q = "manifest" => NeedsPreimage = {})
  BY DEF MakeDirectory
<1>2. /\ tx' \in Transactions /\ tx'.man = man /\ tx'.pre = tx.pre
      /\ tx'.staged = tx.staged /\ tx'.back = tx.back /\ tx'.resv = tx.resv
  BY TypeInvParts DEF MakeDirectory, Transactions
<1>3. Located(q, tx')
  BY <1>1, <1>2, TypeInvParts DEF MakeDirectory, Located, Phased, Forward, Back, Preimages, Whole,
                                  Preparing, Publishing, Undoing
<1>4. Fits(q, vault', tx')
  BY <1>2, <1>3, TypeInvParts, AsideSame DEF MakeDirectory, Fits, Running, Preparing
<1> QED BY <1>1, <1>4, GotoKeeps

\* The last preimage completes them.
LEMMA SavePreimageKeeps == ASSUME TypeInv, Owner, SavePreimage PROVE Kept
<1>1. PICK k : k = CHOOSE j \in Unsaved : \A i \in Unsaved : j <= i
  OBVIOUS
<1>2. PICK q \in {"manifest", "preimages"} :
        Goto(q) /\ (q = "manifest" => Cardinality(Unsaved) = 1)
  BY DEF SavePreimage
<1>3. pc = "preimages" /\ tx' = [tx EXCEPT !.pre[k] = "whole"] /\ vault' = vault
  BY <1>1 DEF SavePreimage
<1>4. tx.pre \in [Members -> {"absent", "torn", "whole"}] /\ \A j \in Members : tx.pre[j] # "torn"
  BY <1>3, TypeInvParts, TransactionParts DEF Preimages
<1>5. PICK pre : pre = [tx.pre EXCEPT ![k] = "whole"]
  OBVIOUS
<1>6. /\ pre \in [Members -> {"absent", "torn", "whole"}]
      /\ \A j \in Members : pre[j] # "torn" /\ (pre[j] = "whole" <=> (j = k \/ tx.pre[j] = "whole"))
  BY <1>4, <1>5
<1>7. tx' = [tx EXCEPT !.pre = pre]
  BY <1>3, <1>5, TypeInvParts DEF Transactions
<1>8. /\ tx' \in Transactions /\ tx'.man = man /\ tx'.pre = pre
      /\ tx'.staged = tx.staged /\ tx'.back = tx.back /\ tx'.resv = tx.resv
  BY <1>6, <1>7, TypeInvParts DEF Transactions
<1>9. ASSUME q = "manifest" PROVE Whole(tx')
  <2>1. Unsaved \subseteq Members /\ IsFiniteSet(Unsaved)
    BY TypeInvParts, PlanParts, FS_Subset DEF Unsaved, NeedsPreimage
  <2>2. PICK x : Unsaved = {x}
    BY <1>2, <1>9, <2>1, FS_Singleton
  <2>3. x \in Nat
    BY <2>1, <2>2, TypeInvParts, PlanParts
  <2>4. k = x
    BY <1>1, <2>2, <2>3
  <2>5. \A j \in NeedsPreimage : j \in Members /\ (tx.pre[j] = "absent" <=> j \in Unsaved)
    BY DEF Unsaved, NeedsPreimage
  <2>6. \A j \in NeedsPreimage : tx.pre[j] = "whole" \/ j = k
    BY <1>4, <2>2, <2>4, <2>5
  <2> QED BY <1>6, <1>8, <2>5, <2>6 DEF Whole
<1>10. Located(q, tx')
  BY <1>3, <1>6, <1>8, <1>9, TypeInvParts DEF Located, Phased, Forward, Back, Preimages,
                                              Preparing, Publishing, Undoing
<1>11. Fits(q, vault', tx')
  BY <1>3, <1>8, <1>10, TypeInvParts, AsideSame DEF Fits, Running, Preparing
<1> QED BY <1>2, <1>11, GotoKeeps

LEMMA CreateManifestKeeps == ASSUME TypeInv, Owner, CreateManifest PROVE Kept
<1>1. pc = "manifest" /\ Persist(Prepared) /\ Goto("publish") /\ vault' = vault
  BY DEF CreateManifest
<1>2. Sound(Prepared) /\ Prepared.phase = "prepared"
  BY TypeInvParts, FirstManifests
<1>3. tx' \in Transactions /\ tx'.man = Prepared /\ Sound(tx'.man) /\ Aside(vault, tx') /\ tx'.pre = tx.pre
  BY <1>1, <1>2, PersistParts
<1>4. Whole(tx')
  BY <1>1, <1>3, TypeInvParts DEF Preimages, Whole
<1>5. Located("publish", tx')
  BY <1>2, <1>3, <1>4 DEF Located, Phased, Forward, Back, Preimages, Preparing, Publishing, Undoing
<1> QED BY <1>1, <1>3, <1>5, TypeInvParts, GotoKeeps DEF Fits, Running, Publishing

LEMMA StartPublishingKeeps == ASSUME TypeInv, Owner, StartPublishing PROVE Kept
<1> DEFINE m == [man EXCEPT !.phase = "publishing"]
<1>1. pc = "publish" /\ Persist(m) /\ Goto("member") /\ vault' = vault
  BY DEF StartPublishing
<1>2. Sound(m) /\ m.phase = "publishing" /\ m.pend = NoOperation
  BY <1>1, TypeInvParts, PublishingSound DEF Phased
<1> HIDE DEF m
<1>3. tx' \in Transactions /\ tx'.man = m /\ Sound(tx'.man) /\ Aside(vault, tx') /\ tx'.pre = tx.pre
  BY <1>1, <1>2, PersistParts
<1>4. Whole(tx')
  BY <1>1, <1>3, TypeInvParts DEF Preimages, Whole, Publishing
<1>5. Located("member", tx')
  BY <1>2, <1>3, <1>4 DEF Located, Phased, Forward, Back, Preimages, Preparing, Publishing, Undoing
<1> QED BY <1>1, <1>3, <1>5, TypeInvParts, GotoKeeps DEF Fits, Running, Publishing

LEMMA ReserveMemberKeeps == ASSUME TypeInv, Owner, ReserveMember PROVE Kept
<1> DEFINE k == Coming
           at == FileAt(vault, plan[k].path)
           intent == IF Kind(k) = "move"
                     THEN [stage |-> "pre-link", pre |-> at, post |-> at,
                           comp |-> vault.dir[plan[k].path.page], resv |-> None]
                     ELSE [NoOperation EXCEPT !.stage = "reserved", !.pre = at]
           m == [man EXCEPT !.pend = intent]
<1>1. pc = "member"
  BY DEF ReserveMember
<1>2. CASE Throws
  BY <1>2, ThrowsKeeps
<1>3. CASE Precondition(k) /\ Persist(m) /\ Goto(IF Kind(k) = "move" THEN "moving" ELSE "stage") /\ vault' = vault
  <2>1. man.phase = "publishing" /\ k \in Members /\ k = man.done + 1
    BY <1>1, TypeInvParts DEF Phased, Publishing, ManifestFacts
  <2>2. at \in Inode0 /\ vault.dir[plan[k].path.page] \in Inode0
    BY <2>1, TypeInvParts, PlanParts, FileAtTyped, VaultParts
  <2>3. CASE Kind(k) = "move"
    <3>1. intent = [stage |-> "pre-link", pre |-> at, post |-> at,
                    comp |-> vault.dir[plan[k].path.page], resv |-> None]
      BY <2>3
    <3>2. TextIs(vault, plan[k].path, Expected(k))
      BY <1>3, <2>3 DEF Precondition
    <3>3. at # None
      BY <3>2 DEF TextIs
    <3> HIDE DEF at, intent
    <3>4. /\ intent.stage = "pre-link" /\ intent.pre = at /\ intent.post = at
          /\ intent.comp \in Inode0 /\ intent.resv = None /\ intent \in Operations
      BY <2>2, <3>1, NoneIsNoInode DEF Operations, Stages
    <3>5. /\ intent \in Operations /\ intent # NoOperation /\ intent.post # None
          /\ OperationFacts(intent)
      BY <3>3, <3>4, OperationParts DEF Stages, OperationFacts
    <3>6. Sound(m) /\ m.phase = "publishing" /\ m.pend = intent /\ m.done = man.done
      BY <2>1, <2>3, <3>5, TypeInvParts, PendingSound
    <3> HIDE DEF m
    <3>7. /\ tx' \in Transactions /\ tx'.man = m /\ Sound(tx'.man) /\ Aside(vault, tx')
          /\ tx'.pre = tx.pre
      BY <1>3, <3>6, PersistParts
    <3>8. Whole(tx')
      BY <1>1, <3>7, TypeInvParts DEF Preimages, Whole, Publishing
    <3>9. Located("moving", tx')
      BY <2>1, <2>3, <3>5, <3>6, <3>7, <3>8 DEF Located, Phased, Forward, Back, Preimages, Preparing,
                                               Publishing, Undoing
    <3> QED BY <1>3, <2>3, <3>7, <3>9, TypeInvParts, GotoKeeps DEF Fits, Running, Publishing
  <2>4. CASE Kind(k) # "move"
    <3>1. intent = [stage |-> "reserved", pre |-> at, post |-> None, comp |-> None, resv |-> None]
      BY <2>4 DEF NoOperation
    <3> HIDE DEF at
    <3>2. /\ intent \in Operations /\ intent # NoOperation /\ intent.post = None
          /\ intent.stage # "ready"
      BY <2>2, <3>1, OperationParts, NoneIsNoInode DEF Operations
    <3> HIDE DEF intent
    <3>3. Sound(m) /\ m.phase = "publishing" /\ m.pend = intent /\ m.done = man.done
      BY <2>1, <2>4, <3>2, TypeInvParts, PendingSound
    <3> HIDE DEF m
    <3>4. /\ tx' \in Transactions /\ tx'.man = m /\ Sound(tx'.man) /\ Aside(vault, tx')
          /\ tx'.pre = tx.pre
      BY <1>3, <3>3, PersistParts
    <3>5. Whole(tx')
      BY <1>1, <3>4, TypeInvParts DEF Preimages, Whole, Publishing
    <3>6. Located("stage", tx')
      BY <2>1, <2>4, <3>2, <3>3, <3>4, <3>5 DEF Located, Phased, Forward, Back, Preimages, Preparing,
                                               Publishing, Undoing
    <3> QED BY <1>3, <2>4, <3>4, <3>6, TypeInvParts, GotoKeeps DEF Fits, Running, Publishing
  <2> QED BY <2>3, <2>4
<1> QED BY <1>2, <1>3 DEF ReserveMember

\* A fresh inode is nobody's.
LEMMA FreshHere ==
  ASSUME NEW i \in Fresh(vault, Private)
  PROVE  /\ i \in Inodes /\ i \in Inode0 /\ i # None /\ i \notin Held(vault)
         /\ i \notin {tx.staged, tx.back, tx.resv}
<1>1. i \in Inodes /\ i # None /\ i \notin Held(vault) /\ i \notin Private
  BY FreshIsFree
<1> QED BY <1>1 DEF Private, Inode0

\* A private file is written: the staged one of a member,
LEMMA StagedParts ==
  ASSUME TypeInv, NEW i \in Fresh(vault, Private), NEW t \in Texts,
         vault' = Written(vault, i, t), tx' = [tx EXCEPT !.staged = i]
  PROVE  /\ vault' \in Vaults(Texts) /\ tx' \in Transactions /\ Aside(vault', tx')
         /\ tx'.man = man /\ tx'.pre = tx.pre /\ tx'.staged = i /\ tx'.back = tx.back
<1>1. i \in Inodes /\ i \in Inode0 /\ i \notin {tx.staged, tx.back, tx.resv}
  BY FreshHere
<1>2. /\ tx' \in Transactions /\ tx'.man = man /\ tx'.pre = tx.pre
      /\ tx'.staged = i /\ tx'.back = tx.back /\ tx'.resv = tx.resv
  BY <1>1, TypeInvParts DEF Transactions
<1>3. vault' \in Vaults(Texts) /\ Held(vault') = Held(vault)
  BY <1>1, TypeInvParts, WrittenParts, WrittenHeld
<1>4. Aside(vault', tx')
  BY <1>1, <1>2, <1>3, TypeInvParts DEF Aside
<1> QED BY <1>2, <1>3, <1>4

\* or the one that restores a note.
LEMMA RestoringParts ==
  ASSUME TypeInv, NEW i \in Fresh(vault, Private), NEW t \in Texts,
         vault' = Written(vault, i, t), tx' = [tx EXCEPT !.back = i]
  PROVE  /\ vault' \in Vaults(Texts) /\ tx' \in Transactions /\ Aside(vault', tx')
         /\ tx'.man = man /\ tx'.pre = tx.pre /\ tx'.staged = tx.staged /\ tx'.back = i
<1>1. i \in Inodes /\ i \in Inode0 /\ i \notin {tx.staged, tx.back, tx.resv}
  BY FreshHere
<1>2. /\ tx' \in Transactions /\ tx'.man = man /\ tx'.pre = tx.pre
      /\ tx'.staged = tx.staged /\ tx'.back = i /\ tx'.resv = tx.resv
  BY <1>1, TypeInvParts DEF Transactions
<1>3. vault' \in Vaults(Texts) /\ Held(vault') = Held(vault)
  BY <1>1, TypeInvParts, WrittenParts, WrittenHeld
<1>4. Aside(vault', tx')
  BY <1>1, <1>2, <1>3, TypeInvParts DEF Aside
<1> QED BY <1>2, <1>3, <1>4

\* Where a member is under way.
LEMMA MemberUnderWay ==
  ASSUME TypeInv, man.phase = "publishing"
  PROVE  /\ Coming \in Members /\ Coming = man.done + 1 /\ plan[Coming].path \in Paths
         /\ Kind(Coming) \in {"write", "create", "move"} /\ New(Coming) \in Texts
         /\ Kind(Coming) = "move" /\ man.pend # NoOperation => man.pend.post # None
<1>1. Coming \in Members /\ Coming = man.done + 1
  BY TypeInvParts DEF ManifestFacts
<1>2. Kind(Coming) = "move" /\ man.pend # NoOperation => man.pend.post # None
  BY <1>1, TypeInvParts DEF Sound
<1> QED BY <1>1, <1>2, TypeInvParts, PlanParts, TextsParts

LEMMA StageMemberKeeps == ASSUME TypeInv, Owner, StageMember PROVE Kept
<1>1. CASE Throws
  BY <1>1, ThrowsKeeps
<1>2. CASE Goto("ready") /\ \E i \in Fresh(vault, Private) :
              tx' = [tx EXCEPT !.staged = i] /\ vault' = Written(vault, i, New(Coming))
  <2>1. PICK i \in Fresh(vault, Private) :
          tx' = [tx EXCEPT !.staged = i] /\ vault' = Written(vault, i, New(Coming))
    BY <1>2
  <2>2. pc = "stage" /\ man.phase = "publishing"
    BY TypeInvParts DEF StageMember, Phased, Publishing
  <2>3. /\ vault' \in Vaults(Texts) /\ tx' \in Transactions /\ Aside(vault', tx')
        /\ tx'.man = man /\ tx'.pre = tx.pre /\ tx'.staged = i
    BY <2>1, <2>2, MemberUnderWay, StagedParts
  <2>4. i # None
    BY FreshHere
  <2>5. Located("ready", tx')
    BY <2>2, <2>3, <2>4, TypeInvParts DEF Located, Phased, Forward, Back, Preimages, Whole, Preparing,
                                          Publishing, Undoing
  <2>6. Fits("ready", vault', tx')
    BY <2>3, <2>5, TypeInvParts DEF Fits, Running, Publishing
  <2> QED BY <1>2, <2>6, GotoKeeps
<1> QED BY <1>1, <1>2 DEF StageMember

LEMMA ReadyMemberKeeps == ASSUME TypeInv, Owner, ReadyMember PROVE Kept
<1> DEFINE m == [man EXCEPT !.pend.stage = "ready", !.pend.post = tx.staged]
<1>1. pc = "ready" /\ Persist(m) /\ Goto("swap") /\ vault' = vault
  BY DEF ReadyMember
<1>2. /\ man.phase = "publishing" /\ man.pend # NoOperation /\ Kind(man.done + 1) # "move"
      /\ tx.staged # None /\ tx.staged \in Inode0 /\ man.pend \in Operations
  BY <1>1, TypeInvParts, ManifestParts, TransactionParts DEF Phased, Forward, Publishing
<1>3. PICK op : op = [man.pend EXCEPT !.stage = "ready", !.post = tx.staged]
  OBVIOUS
<1>4. op \in Operations /\ op.stage = "ready" /\ op.post = tx.staged /\ op # NoOperation
  BY <1>2, <1>3, OperationParts DEF Operations
<1>5. m = [man EXCEPT !.pend = op]
  BY <1>3, TypeInvParts DEF Manifests, Operations
<1> HIDE DEF m
<1>6. Sound(m) /\ m.phase = "publishing" /\ m.pend = op /\ m.done = man.done
  BY <1>2, <1>4, <1>5, TypeInvParts, PendingSound
<1>7. /\ tx' \in Transactions /\ tx'.man = m /\ Sound(tx'.man) /\ Aside(vault, tx')
      /\ tx'.pre = tx.pre /\ tx'.staged = tx.staged
  BY <1>1, <1>6, PersistParts
<1>8. Located("swap", tx')
  BY <1>1, <1>2, <1>4, <1>6, <1>7, TypeInvParts DEF Located, Phased, Forward, Back, Preimages, Whole,
                                                    Preparing, Publishing, Undoing
<1> QED BY <1>1, <1>7, <1>8, TypeInvParts, GotoKeeps DEF Fits, Running, Publishing

\* Installing the staged file, by a rename or a link.
LEMMA InstallParts ==
  ASSUME TypeInv, pc = "swap", Kind(Coming) # "move",
         vault' = PutAt(vault, plan[Coming].path, tx.staged)
  PROVE  /\ man.phase = "publishing" /\ man.pend # NoOperation /\ Whole(tx)
         /\ man.pend.post = tx.staged /\ tx.staged # None
         /\ vault' \in Vaults(Texts)
         /\ tx.resv # None => tx.resv \notin Held(vault') \union {tx.staged, tx.back}
<1>1. /\ man.phase = "publishing" /\ man.pend # NoOperation
      /\ man.pend.post = tx.staged /\ tx.staged # None
  BY TypeInvParts DEF Phased, Forward, Publishing
<1>2. tx.staged \in Inode0 /\ plan[Coming].path \in Paths /\ Whole(tx)
  BY <1>1, TypeInvParts, TransactionParts, MemberUnderWay DEF Preimages, Publishing
<1>3. vault' \in Vaults(Texts) /\ Held(vault') \subseteq Held(vault) \union {tx.staged}
  BY <1>2, TypeInvParts, PutAtParts, PutAtHeld
<1> QED BY <1>1, <1>2, <1>3, TypeInvParts DEF Aside

LEMMA RefuseSwapKeeps == ASSUME TypeInv, Owner, RefuseSwap PROVE Kept
BY ThrowsKeeps DEF RefuseSwap

LEMMA SwapMemberKeeps == ASSUME TypeInv, Owner, SwapMember PROVE Kept
<1>1. CASE Throws
  BY <1>1, ThrowsKeeps
<1>2. CASE /\ vault' = PutAt(vault, plan[Coming].path, tx.staged)
           /\ tx' = [tx EXCEPT !.staged = None] /\ Goto("complete")
  <2>1. pc = "swap" /\ Kind(Coming) = "write"
    BY DEF SwapMember
  <2>2. /\ man.phase = "publishing" /\ man.pend # NoOperation /\ Whole(tx)
        /\ man.pend.post = tx.staged /\ tx.staged # None /\ vault' \in Vaults(Texts)
        /\ tx.resv # None => tx.resv \notin Held(vault') \union {tx.staged, tx.back}
    BY <1>2, <2>1, InstallParts
  <2>3. /\ tx' \in Transactions /\ tx'.man = man /\ tx'.pre = tx.pre
        /\ tx'.staged = None /\ tx'.back = tx.back /\ tx'.resv = tx.resv
    BY <1>2, TypeInvParts, NoneIsNoInode DEF Transactions
  <2>4. Aside(vault', tx')
    BY <2>2, <2>3 DEF Aside
  <2>5. Located("complete", tx')
    BY <2>1, <2>2, <2>3, TypeInvParts DEF Located, Phased, Forward, Back, Preimages, Whole, Preparing,
                                          Publishing, Undoing
  <2>6. Fits("complete", vault', tx')
    BY <2>2, <2>3, <2>4, <2>5, TypeInvParts DEF Fits, Running, Publishing
  <2> QED BY <1>2, <2>6, GotoKeeps
<1> QED BY <1>1, <1>2 DEF SwapMember

LEMMA LinkMemberKeeps == ASSUME TypeInv, Owner, LinkMember PROVE Kept
<1>1. CASE Throws
  BY <1>1, ThrowsKeeps
<1>2. CASE vault' = PutAt(vault, plan[Coming].path, tx.staged) /\ tx' = tx /\ Goto("unlink")
  <2>1. pc = "swap" /\ Kind(Coming) = "create"
    BY DEF LinkMember
  <2>2. /\ man.phase = "publishing" /\ man.pend # NoOperation /\ Whole(tx)
        /\ man.pend.post = tx.staged /\ tx.staged # None /\ vault' \in Vaults(Texts)
        /\ tx.resv # None => tx.resv \notin Held(vault') \union {tx.staged, tx.back}
    BY <1>2, <2>1, InstallParts
  <2>3. Aside(vault', tx)
    BY <2>2 DEF Aside
  <2>4. Located("unlink", tx)
    BY <2>1, <2>2, TypeInvParts DEF Located, Phased, Forward, Back, Preimages, Whole, Preparing,
                                    Publishing, Undoing
  <2>5. Fits("unlink", vault', tx')
    BY <1>2, <2>2, <2>3, <2>4, TypeInvParts DEF Fits, Running, Publishing
  <2> QED BY <1>2, <2>5, GotoKeeps
<1> QED BY <1>1, <1>2 DEF LinkMember

LEMMA UnlinkStagedKeeps == ASSUME TypeInv, Owner, UnlinkStaged PROVE Kept
<1>1. /\ pc = "unlink" /\ man.phase = "publishing" /\ man.pend # NoOperation /\ man.pend.post # None
      /\ Whole(tx)
  BY TypeInvParts DEF UnlinkStaged, Phased, Forward, Preimages, Publishing
<1>2. /\ tx' \in Transactions /\ tx'.man = man /\ tx'.pre = tx.pre
      /\ tx'.staged = None /\ tx'.back = tx.back /\ tx'.resv = tx.resv
  BY TypeInvParts, NoneIsNoInode DEF UnlinkStaged, Transactions
<1>3. Located("complete", tx')
  BY <1>1, <1>2, TypeInvParts DEF Located, Phased, Forward, Back, Preimages, Whole, Preparing,
                                  Publishing, Undoing
<1>4. Fits("complete", vault', tx')
  BY <1>2, <1>3, TypeInvParts, AsideSame DEF UnlinkStaged, Fits, Running, Publishing
<1> QED BY <1>4, GotoKeeps DEF UnlinkStaged

LEMMA CompleteMemberKeeps == ASSUME TypeInv, Owner, CompleteMember PROVE Kept
<1>1. /\ pc = "complete" /\ man.phase = "publishing" /\ man.pend.post # None /\ Whole(tx)
      /\ Persist(WithCompletion) /\ vault' = vault
  BY TypeInvParts DEF CompleteMember, Phased, Forward, Preimages, Publishing
<1>2. /\ Sound(WithCompletion) /\ WithCompletion.pend = NoOperation
      /\ WithCompletion.phase = IF Coming = Len(plan) THEN "committed" ELSE "publishing"
  BY <1>1, TypeInvParts, CompletionSound
<1>3. /\ tx' \in Transactions /\ tx'.man = WithCompletion /\ Sound(tx'.man) /\ Aside(vault, tx')
      /\ tx'.pre = tx.pre
  BY <1>1, <1>2, PersistParts
<1>4. CASE End("committed")
  BY <1>1, <1>3, <1>4, EndKeeps
<1>5. CASE Coming # Len(plan) /\ Goto("member")
  <2>1. Located("member", tx')
    BY <1>1, <1>2, <1>3, <1>5 DEF Located, Phased, Forward, Back, Preimages, Whole, Preparing,
                                  Publishing, Undoing
  <2> QED BY <1>1, <1>3, <1>5, <2>1, TypeInvParts, GotoKeeps DEF Fits, Running, Publishing
<1> QED BY <1>4, <1>5 DEF CompleteMember

-----------------------------------------------------------------------------
(***************************************************************************)
(* The steps of a move.                                                    *)
(***************************************************************************)
\* Who moves, between two pages, and with which intent.
LEMMA MoverParts ==
  ASSUME TypeInv, Moving
  PROVE  /\ Mover \in Members /\ Kind(Mover) = "move" /\ Whole(tx)
         /\ Operation \in Operations /\ Operation # NoOperation /\ OperationFacts(Operation)
         /\ From(Mover, Backward) \in Pages /\ To(Mover, Backward) \in Pages
         /\ From(Mover, Backward) # To(Mover, Backward)
         /\ ~Backward => /\ pc \in {"moving", "finish"} /\ man.phase = "publishing"
                         /\ Operation = man.pend /\ Kind(man.done + 1) = "move"
                         /\ man.pend.post # None
         /\ Backward => /\ pc = "reverse" /\ man.phase = "rolling-back"
                        /\ Operation = man.rb /\ Kind(man.done) = "move" /\ man.rb # NoOperation
<1>1. CASE pc \in {"moving", "finish"}
  <2>1. /\ ~Backward /\ man.phase = "publishing" /\ man.pend # NoOperation
        /\ Kind(man.done + 1) = "move" /\ Whole(tx)
    BY <1>1, TypeInvParts DEF Backward, Phased, Forward, Preimages, Publishing, Undoing
  <2>2. /\ Mover = Coming /\ Operation = man.pend /\ Coming \in Members /\ man.pend.post # None
        /\ Kind(Coming) = "move" /\ man.pend \in Operations /\ OperationFacts(man.pend)
    BY <2>1, TypeInvParts, MemberUnderWay, ManifestParts DEF Mover, Operation, ManifestFacts
  <2> QED BY <1>1, <2>1, <2>2, TypeInvParts, PlanParts DEF From, To
<1>2. CASE pc = "reverse"
  <2>1. /\ Backward /\ man.phase = "rolling-back" /\ man.rb # NoOperation
        /\ Kind(man.done) = "move" /\ Whole(tx)
    BY <1>2, TypeInvParts DEF Backward, Phased, Back, Preimages, Publishing, Undoing
  <2>2. /\ Mover = Going /\ Operation = man.rb /\ Going \in Members /\ Kind(Going) = "move"
        /\ man.rb \in Operations /\ OperationFacts(man.rb)
    BY <2>1, TypeInvParts, ManifestParts DEF Mover, Operation, ManifestFacts
  <2> QED BY <1>2, <2>1, <2>2, TypeInvParts, PlanParts DEF From, To
<1> QED BY <1>1, <1>2 DEF Moving

\* A step of a move that keeps the manifest and the preimages keeps its place.
LEMMA MovingOn ==
  ASSUME TypeInv, Owner, Moving, Goto(pc), vault' \in Vaults(Texts), Aside(vault', tx'),
         tx' \in Transactions, Sound(tx'.man), tx'.pre = tx.pre, tx'.man.phase = man.phase,
         tx'.man.done = man.done,
         ~Backward => tx'.man.pend # NoOperation, Backward => tx'.man.rb # NoOperation
  PROVE  Kept
<1>1. Located(pc, tx')
  BY MoverParts, TypeInvParts DEF Moving, Backward, Located, Phased, Forward, Back, Preimages, Whole,
                                  Preparing, Publishing, Undoing
<1>2. pc \in Running
  BY DEF Moving, Running, Publishing, Undoing
<1> QED BY <1>1, <1>2, GotoKeeps DEF Fits, Running

LEMMA RecordStageKeeps == ASSUME TypeInv, Owner, RecordStage PROVE Kept
<1>1. Moving /\ Goto(pc) /\ vault' = vault
  BY DEF RecordStage
<1> DEFINE resv(stage) == IF stage = "companion-reserved" THEN tx.resv ELSE Operation.resv
           next(stage) == [Operation EXCEPT !.stage = stage, !.resv = resv(stage)]
<1>2. PICK stage \in NextStage : Persist(WithOperation(next(stage)))
  BY DEF RecordStage
<1>3. PICK r \in Inode0 : r = resv(stage)
  BY <1>1, TypeInvParts, TransactionParts, MoverParts, OperationParts
<1>4. PICK op : op = next(stage)
  OBVIOUS
<1>5. Operation \in Operations /\ OperationFacts(Operation)
  BY <1>1, MoverParts
<1>6. \/ Operation.stage = "pre-link" /\ stage = "target-linked"
      \/ Operation.stage = "target-linked" /\ Operation.comp = None /\ stage = "source-unlinked"
      \/ Operation.stage = "target-linked" /\ Operation.comp # None /\ stage = "companion-reserve"
      \/ /\ Operation.stage = "companion-reserve" /\ stage = "companion-reserved"
         /\ CurrentLayout = "private-reserved"
      \/ Operation.stage = "companion-reserved" /\ stage = "companion-moved"
      \/ Operation.stage = "companion-moved" /\ stage = "source-unlinked"
  BY NextStageIs
<1>7. stage \in Stages
  BY <1>6 DEF Stages
<1>8. op = [Operation EXCEPT !.stage = stage, !.resv = r]
  BY <1>3, <1>4
<1>9. /\ op \in Operations /\ op.stage = stage /\ op.resv = r
      /\ op.pre = Operation.pre /\ op.post = Operation.post /\ op.comp = Operation.comp
  BY <1>5, <1>7, <1>8 DEF Operations
<1>10. CurrentLayout = "private-reserved" => Operation.comp # None /\ tx.resv # None /\ tx.resv # Operation.comp
  <2>1. SUFFICES ASSUME CurrentLayout = "private-reserved"
                 PROVE  Operation.comp # None /\ tx.resv # None /\ tx.resv # Operation.comp
    OBVIOUS
  <2>2. Operation.comp # None /\ tx.resv # None /\ vault.dir[From(Mover, Backward)] = Operation.comp
    BY <2>1, LayoutMeans DEF CurrentLayout
  <2>3. Operation.comp \in Held(vault)
    BY <1>1, <2>2, MoverParts, TypeInvParts, HeldByNames
  <2> QED BY <2>2, <2>3, TypeInvParts DEF Aside
<1>11. OperationFacts(op)
  <2>1. Operation.comp # None /\ Operation.stage = "companion-reserved"
          => Operation.resv # None /\ Operation.resv # Operation.comp
    BY <1>5 DEF OperationFacts
  <2> QED BY <1>3, <1>5, <1>6, <1>9, <1>10 DEF OperationFacts, Stages
<1>12. op # NoOperation
  BY <1>7, <1>9, OperationParts DEF Stages
<1>13. CASE ~Backward
  <2>1. /\ man.phase = "publishing" /\ Operation = man.pend /\ Kind(man.done + 1) = "move"
        /\ man.pend.post # None
    BY <1>1, <1>13, MoverParts
  <2> DEFINE m == [man EXCEPT !.pend = op]
  <2>2. Sound(m) /\ m.phase = "publishing" /\ m.pend = op /\ m.done = man.done /\ m.rb = man.rb
    BY <1>9, <1>11, <1>12, <2>1, TypeInvParts, PendingSound
  <2>3. Persist(m)
    BY <1>2, <1>4, <1>13 DEF WithOperation
  <2> HIDE DEF m
  <2>4. tx' \in Transactions /\ tx'.man = m /\ Sound(tx'.man) /\ Aside(vault, tx') /\ tx'.pre = tx.pre
    BY <2>2, <2>3, PersistParts
  <2> QED BY <1>1, <1>12, <1>13, <2>1, <2>2, <2>4, TypeInvParts, MovingOn
<1>14. CASE Backward
  <2>1. man.phase = "rolling-back" /\ Operation = man.rb /\ Kind(man.done) = "move" /\ man.rb # NoOperation
    BY <1>1, <1>14, MoverParts
  <2> DEFINE m == [man EXCEPT !.rb = op]
  <2>2. Sound(m) /\ m.phase = "rolling-back" /\ m.rb = op /\ m.done = man.done
    BY <1>9, <1>11, <2>1, TypeInvParts, BackwardStageSound
  <2>3. Persist(m)
    BY <1>2, <1>4, <1>14 DEF WithOperation
  <2> HIDE DEF m
  <2>4. tx' \in Transactions /\ tx'.man = m /\ Sound(tx'.man) /\ Aside(vault, tx') /\ tx'.pre = tx.pre
    BY <2>2, <2>3, PersistParts
  <2> QED BY <1>1, <1>12, <1>14, <2>1, <2>2, <2>4, TypeInvParts, MovingOn
<1> QED BY <1>13, <1>14

\* A link, or the unlink of the old name.
LEMMA LinkTargetKeeps == ASSUME TypeInv, Owner, LinkTarget PROVE Kept
<1> DEFINE source == Note(From(Mover, Backward))
           target == Note(To(Mover, Backward))
<1>1. CASE Throws
  BY <1>1, ThrowsKeeps
<1>2. CASE /\ FileAt(vault, source) # None /\ vault' = PutAt(vault, target, FileAt(vault, source))
           /\ Goto(pc) /\ tx' = tx
  <2>1. Moving
    BY DEF LinkTarget
  <2>2. /\ source \in Paths /\ target \in Paths
        /\ (~Backward => man.pend # NoOperation) /\ (Backward => man.rb # NoOperation)
    BY <2>1, MoverParts, PathsAreRecords, OperationParts
  <2>3. FileAt(vault, source) \in Inode0 /\ FileAt(vault, source) \in Held(vault)
    BY <1>2, <2>2, TypeInvParts, FileAtTyped, HeldByNames
  <2>4. vault' \in Vaults(Texts) /\ Held(vault') \subseteq Held(vault)
    BY <1>2, <2>2, <2>3, TypeInvParts, PutAtParts, PutAtHeld
  <2>5. Aside(vault', tx')
    BY <1>2, <2>4, TypeInvParts DEF Aside
  <2> QED BY <1>2, <2>1, <2>2, <2>4, <2>5, TypeInvParts, MovingOn
<1> QED BY <1>1, <1>2 DEF LinkTarget

LEMMA UnlinkSourceKeeps == ASSUME TypeInv, Owner, UnlinkSource PROVE Kept
<1> DEFINE source == Note(From(Mover, Backward))
<1>1. CASE Throws
  BY <1>1, ThrowsKeeps
<1>2. CASE vault' = PutAt(vault, source, None) /\ Goto(pc) /\ tx' = tx
  <2>1. Moving
    BY DEF UnlinkSource
  <2>2. /\ source \in Paths /\ None \in Inode0
        /\ (~Backward => man.pend # NoOperation) /\ (Backward => man.rb # NoOperation)
    BY <2>1, MoverParts, PathsAreRecords, NoneIsNoInode
  <2>3. vault' \in Vaults(Texts) /\ Held(vault') \subseteq Held(vault) \union {None}
    BY <1>2, <2>2, TypeInvParts, PutAtParts, PutAtHeld
  <2>4. Aside(vault', tx')
    BY <1>2, <2>3, TypeInvParts DEF Aside
  <2> QED BY <1>2, <2>1, <2>2, <2>3, <2>4, TypeInvParts, MovingOn
<1> QED BY <1>1, <1>2 DEF UnlinkSource, RemoveAt

LEMMA MakeReservationKeeps == ASSUME TypeInv, Owner, MakeReservation PROVE Kept
<1>1. Moving /\ Goto(pc)
  BY DEF MakeReservation
<1>2. PICK d \in Fresh(vault, Private) : tx' = [tx EXCEPT !.resv = d] /\ vault' = Emptied(vault, d)
  BY DEF MakeReservation
<1>3. d \in Inodes /\ d \in Inode0 /\ d \notin Held(vault) /\ d \notin {tx.staged, tx.back, tx.resv}
  BY FreshHere
<1>4. /\ tx' \in Transactions /\ tx'.man = man /\ tx'.pre = tx.pre
      /\ tx'.staged = tx.staged /\ tx'.back = tx.back /\ tx'.resv = d
  BY <1>2, <1>3, TypeInvParts DEF Transactions
<1>5. vault' \in Vaults(Texts) /\ Held(vault') = Held(vault)
  BY <1>2, <1>3, TypeInvParts, EmptiedParts
<1>6. Aside(vault', tx')
  BY <1>3, <1>4, <1>5 DEF Aside
<1>7. (~Backward => man.pend # NoOperation) /\ (Backward => man.rb # NoOperation)
  BY <1>1, MoverParts, OperationParts
<1> QED BY <1>1, <1>4, <1>5, <1>6, <1>7, TypeInvParts, MovingOn

LEMMA ShowReservationKeeps == ASSUME TypeInv, Owner, ShowReservation PROVE Kept
<1>1. CASE Throws
  BY <1>1, ThrowsKeeps
<1>2. CASE /\ tx' = [tx EXCEPT !.resv = None] /\ Goto(pc)
           /\ vault' = PutDirectory(vault, To(Mover, Backward), tx.resv)
  <2>1. Moving
    BY DEF ShowReservation
  <2>2. /\ tx' \in Transactions /\ tx'.man = man /\ tx'.pre = tx.pre /\ tx'.resv = None
    BY <1>2, TypeInvParts, NoneIsNoInode DEF Transactions
  <2>3. vault' \in Vaults(Texts)
    BY <1>2, TypeInvParts, TransactionParts DEF PutDirectory, Vaults
  <2>4. /\ Aside(vault', tx')
        /\ (~Backward => man.pend # NoOperation) /\ (Backward => man.rb # NoOperation)
    BY <2>1, <2>2, MoverParts, OperationParts DEF Aside
  <2> QED BY <1>2, <2>1, <2>2, <2>3, <2>4, TypeInvParts, MovingOn
<1> QED BY <1>1, <1>2 DEF ShowReservation

LEMMA MoveCompanionKeeps == ASSUME TypeInv, Owner, MoveCompanion PROVE Kept
<1>1. /\ Moving /\ Goto(pc) /\ tx' = tx /\ CurrentLayout = "companion-reserved"
      /\ vault' = MoveDirectory(vault, From(Mover, Backward), To(Mover, Backward))
  BY DEF MoveCompanion
<1>2. /\ tx.resv = None /\ vault.dir[To(Mover, Backward)] = Operation.resv
      /\ EmptyDirectory(vault, Operation.resv)
  BY <1>1, LayoutMeans DEF CurrentLayout
<1>3. vault' \in Vaults(Texts)
  BY <1>1, <1>2, MoverParts, TypeInvParts, ShiftDirectory DEF EmptyDirectory
<1>4. /\ Aside(vault', tx')
      /\ (~Backward => man.pend # NoOperation) /\ (Backward => man.rb # NoOperation)
  BY <1>1, <1>2, MoverParts, OperationParts DEF Aside
<1> QED BY <1>1, <1>3, <1>4, TypeInvParts, MovingOn

LEMMA FinishMoveKeeps == ASSUME TypeInv, Owner, FinishMove PROVE Kept
<1>1. Moving /\ vault' = vault /\ tx' = tx
  BY DEF FinishMove
<1>2. /\ Whole(tx)
      /\ pc \in {"moving", "finish"} => /\ man.pend # NoOperation /\ man.pend.post # None
                                         /\ man.phase = "publishing"
      /\ pc = "reverse" => man.rb # NoOperation /\ man.phase = "rolling-back"
  BY <1>1, MoverParts, OperationParts DEF Backward, Moving
<1>3. CASE pc = "moving" /\ Goto("complete")
  <2>1. Located("complete", tx)
    BY <1>2, <1>3, TypeInvParts DEF Located, Phased, Forward, Back, Preimages, Preparing, Publishing, Undoing
  <2> QED BY <1>1, <1>3, <2>1, TypeInvParts, GotoKeeps DEF Fits, Running, Publishing
<1>4. CASE pc = "finish" /\ Goto("promote")
  <2>1. Located("promote", tx)
    BY <1>2, <1>4, TypeInvParts DEF Located, Phased, Forward, Back, Preimages, Preparing, Publishing, Undoing
  <2> QED BY <1>1, <1>4, <2>1, TypeInvParts, GotoKeeps DEF Fits, Running, Undoing
<1>5. CASE pc = "reverse" /\ Goto("progress")
  <2>1. Located("progress", tx)
    BY <1>2, <1>5, TypeInvParts DEF Located, Phased, Forward, Back, Preimages, Preparing, Publishing, Undoing
  <2> QED BY <1>1, <1>5, <2>1, TypeInvParts, GotoKeeps DEF Fits, Running, Undoing
<1>6. CASE End("attention")
  BY <1>1, <1>6, TypeInvParts, EndKeeps
<1>7. \/ pc = "moving" /\ Goto("complete")
      \/ pc = "finish" /\ Goto("promote")
      \/ pc = "reverse" /\ Goto("progress")
      \/ End("attention")
  <2>1. pc \in {"moving", "finish", "reverse"}
    BY <1>1 DEF Moving
  <2> QED BY <2>1 DEF FinishMove
<1> QED BY <1>3, <1>4, <1>5, <1>6, <1>7

LEMMA RefuseMoveKeeps == ASSUME TypeInv, Owner, RefuseMove PROVE Kept
BY ThrowsKeeps DEF RefuseMove

-----------------------------------------------------------------------------
(***************************************************************************)
(* Rolling back: every step keeps the invariant.                           *)
(***************************************************************************)
LEMMA StartUndoKeeps == ASSUME TypeInv, Owner, StartUndo PROVE Kept
<1>1. pc = "undo" /\ vault' = vault /\ tx' = tx
  BY DEF StartUndo
<1>2. CASE End("attention")
  BY <1>1, <1>2, TypeInvParts, EndKeeps
<1>3. CASE MayUndo /\ Goto(IF man.phase = "rolling-back" THEN "resume"
                           ELSE IF PendingState = "published" THEN "promote"
                           ELSE IF PendingState \in {"none", "old"} THEN "drop"
                           ELSE "finish")
  <2>1. Whole(tx) /\ man.phase \in Phases
    BY <1>1, <1>3, TypeInvParts DEF MayUndo, ArtifactsOK, Whole, Phased
  <2>2. man.phase # "rolling-back" => PendingState # "unknown"
    BY <1>3 DEF MayUndo
  <2>3. man.pend # NoOperation => man.phase = "publishing"
    BY TypeInvParts DEF ManifestFacts
  <2>4. /\ PendingState \notin {"none"} => man.pend # NoOperation
        /\ PendingState \notin {"none", "old", "published", "unknown"} => Kind(Coming) = "move"
    BY DEF PendingState
  <2>5. CASE man.phase = "rolling-back"
    <3>1. Located("resume", tx) /\ Goto("resume")
      BY <1>3, <2>1, <2>5, TypeInvParts DEF Located, Phased, Forward, Back, Preimages, Preparing,
                                            Publishing, Undoing
    <3> QED BY <1>1, <3>1, TypeInvParts, GotoKeeps DEF Fits, Running, Undoing
  <2>6. CASE man.phase # "rolling-back" /\ PendingState = "published"
    <3>1. Located("promote", tx) /\ Goto("promote")
      BY <1>3, <2>1, <2>3, <2>4, <2>6, TypeInvParts DEF Located, Phased, Forward, Back, Preimages,
                                                        Preparing, Publishing, Undoing
    <3> QED BY <1>1, <3>1, TypeInvParts, GotoKeeps DEF Fits, Running, Undoing
  <2>7. CASE man.phase # "rolling-back" /\ PendingState \in {"none", "old"}
    <3>1. Located("drop", tx) /\ Goto("drop")
      BY <1>3, <2>1, <2>7, TypeInvParts DEF Located, Phased, Forward, Back, Preimages, Preparing,
                                            Publishing, Undoing
    <3> QED BY <1>1, <3>1, TypeInvParts, GotoKeeps DEF Fits, Running, Undoing
  <2>8. CASE man.phase # "rolling-back" /\ PendingState \notin {"none", "old", "published"}
    <3>1. /\ man.pend # NoOperation /\ Kind(man.done + 1) = "move" /\ man.phase = "publishing"
          /\ Goto("finish")
      BY <1>3, <2>2, <2>3, <2>4, <2>8, TypeInvParts
    <3>2. Located("finish", tx)
      BY <2>1, <3>1, TypeInvParts DEF Located, Phased, Forward, Back, Preimages, Preparing,
                                      Publishing, Undoing
    <3> QED BY <1>1, <3>1, <3>2, TypeInvParts, GotoKeeps DEF Fits, Running, Undoing
  <2> QED BY <2>5, <2>6, <2>7, <2>8
<1> QED BY <1>2, <1>3 DEF StartUndo

LEMMA DropStagedKeeps == ASSUME TypeInv, Owner, DropStaged PROVE Kept
<1>1. pc \in {"drop", "promote"} /\ tx' = [tx EXCEPT !.staged = None] /\ Goto(pc) /\ vault' = vault
  BY DEF DropStaged
<1>2. /\ tx' \in Transactions /\ tx'.man = man /\ tx'.pre = tx.pre
      /\ tx'.staged = None /\ tx'.back = tx.back /\ tx'.resv = tx.resv
  BY <1>1, TypeInvParts, NoneIsNoInode DEF Transactions
<1>3. Located(pc, tx')
  BY <1>1, <1>2, TypeInvParts DEF Located, Phased, Forward, Back, Preimages, Whole, Preparing,
                                  Publishing, Undoing
<1>4. Fits(pc, vault', tx')
  BY <1>1, <1>2, <1>3, TypeInvParts, AsideSame DEF Fits, Running, Undoing
<1> QED BY <1>1, <1>4, GotoKeeps

\* A manifest that rolls back is where the process resumes.
LEMMA ResumesFits ==
  ASSUME TypeInv, Owner, NEW m, Sound(m), m.phase = "rolling-back", Persist(m), Goto("resume"),
         vault' = vault, Whole(tx)
  PROVE  Kept
<1>1. tx' \in Transactions /\ tx'.man = m /\ Sound(tx'.man) /\ Aside(vault, tx') /\ tx'.pre = tx.pre
  BY PersistParts
<1>2. Located("resume", tx')
  BY <1>1 DEF Located, Phased, Forward, Back, Preimages, Whole, Preparing, Publishing, Undoing
<1> QED BY <1>1, <1>2, TypeInvParts, GotoKeeps DEF Fits, Running, Undoing

LEMMA RollBackRecordedKeeps == ASSUME TypeInv, Owner, RollBackRecorded PROVE Kept
<1>1. /\ pc = "drop" /\ Persist(WithRollingBack(man)) /\ Goto("resume") /\ vault' = vault
      /\ man.phase \in Phases /\ Whole(tx)
  BY TypeInvParts DEF RollBackRecorded, Phased, Preimages, Publishing, Undoing
<1>2. Sound(WithRollingBack(man)) /\ WithRollingBack(man).phase = "rolling-back"
  BY <1>1, TypeInvParts, RollingBackSound
<1> QED BY <1>1, <1>2, ResumesFits

LEMMA PromoteKeeps == ASSUME TypeInv, Owner, Promote PROVE Kept
<1> DEFINE published == IF Kind(Coming) = "move" THEN Layout(Coming, FALSE, man.pend) = "published"
                        ELSE PublishedFile
<1>1. /\ pc = "promote" /\ man.phase = "publishing" /\ man.pend # NoOperation /\ Whole(tx)
  BY TypeInvParts DEF Promote, Phased, Forward, Preimages, Publishing, Undoing
<1>2. CASE Throws
  BY <1>2, ThrowsKeeps
<1>3. CASE published /\ Persist(WithRollingBack(WithCompletion)) /\ Goto("resume") /\ vault' = vault
  <2>1. man.pend.post # None
    <3>1. CASE Kind(Coming) = "move"
      BY <1>1, <3>1, MemberUnderWay
    <3>2. CASE Kind(Coming) # "move"
      BY <1>1, <1>3, <3>2, TypeInvParts DEF PublishedFile, ManifestFacts
    <3> QED BY <3>1, <3>2
  <2>2. Sound(WithCompletion) /\ WithCompletion.phase \in Phases
    BY <1>1, <2>1, TypeInvParts, CompletionSound DEF Phases
  <2>3. /\ Sound(WithRollingBack(WithCompletion))
        /\ WithRollingBack(WithCompletion).phase = "rolling-back"
    BY <2>2, TypeInvParts, RollingBackSound
  <2> QED BY <1>1, <1>3, <2>3, ResumesFits
<1> QED BY <1>2, <1>3 DEF Promote

LEMMA DropUncheckpointedKeeps == ASSUME TypeInv, Owner, DropUncheckpointed PROVE Kept
<1>1. /\ pc = "resume" /\ tx' = [tx EXCEPT !.back = None] /\ Goto("resume") /\ vault' = vault
      /\ man.phase = "rolling-back" /\ Whole(tx)
  BY TypeInvParts DEF DropUncheckpointed, Resuming, Phased, Preimages, Publishing, Undoing
<1>2. /\ tx' \in Transactions /\ tx'.man = man /\ tx'.pre = tx.pre
      /\ tx'.staged = tx.staged /\ tx'.back = None /\ tx'.resv = tx.resv
  BY <1>1, TypeInvParts, NoneIsNoInode DEF Transactions
<1>3. Located("resume", tx')
  BY <1>1, <1>2, TypeInvParts DEF Located, Phased, Forward, Back, Preimages, Whole, Preparing,
                                  Publishing, Undoing
<1>4. Fits("resume", vault', tx')
  BY <1>1, <1>2, <1>3, TypeInvParts, AsideSame DEF Fits, Running, Undoing
<1> QED BY <1>1, <1>4, GotoKeeps

\* What a process that resumes has.
LEMMA ResumingParts ==
  ASSUME TypeInv, Resuming
  PROVE  /\ pc = "resume" /\ man.phase = "rolling-back" /\ Whole(tx)
         /\ man.done > 0 =>
              /\ Going \in Members /\ Going = man.done /\ plan[Going].path \in Paths
              /\ Kind(Going) \in {"write", "create", "move"} /\ Expected(Going) \in Texts
         /\ man.rb # NoOperation => man.done > 0
<1>1. pc = "resume" /\ man.phase = "rolling-back" /\ Whole(tx)
  BY TypeInvParts DEF Resuming, Phased, Preimages, Publishing, Undoing
<1>2. man.rb # NoOperation => man.done > 0
  BY TypeInvParts DEF ManifestFacts
<1> QED BY <1>1, <1>2, TypeInvParts, PlanParts, ExpectedTyped

LEMMA StageBackKeeps == ASSUME TypeInv, Owner, StageBack PROVE Kept
<1>1. /\ Resuming /\ man.rb = NoOperation /\ man.done > 0 /\ Kind(Going) = "write" /\ Goto("intent")
  BY DEF StageBack, Ready
<1>2. PICK i \in Fresh(vault, Private) :
        tx' = [tx EXCEPT !.back = i] /\ vault' = Written(vault, i, Expected(Going))
  BY DEF StageBack
<1>3. man.phase = "rolling-back" /\ Whole(tx) /\ Expected(Going) \in Texts
  BY <1>1, ResumingParts
<1>4. /\ vault' \in Vaults(Texts) /\ tx' \in Transactions /\ Aside(vault', tx')
      /\ tx'.man = man /\ tx'.pre = tx.pre /\ tx'.back = i
  BY <1>2, <1>3, RestoringParts
<1>5. i # None
  BY FreshHere
<1>6. Located("intent", tx')
  BY <1>1, <1>3, <1>4, <1>5, TypeInvParts DEF Located, Phased, Forward, Back, Preimages, Whole, Preparing,
                                              Publishing, Undoing
<1>7. Fits("intent", vault', tx')
  BY <1>4, <1>6, TypeInvParts DEF Fits, Running, Undoing
<1> QED BY <1>1, <1>7, GotoKeeps

LEMMA RecordBackIntentKeeps == ASSUME TypeInv, Owner, RecordBackIntent PROVE Kept
<1> DEFINE m == [man EXCEPT !.rb = BackIntent]
<1>1. CASE Throws
  BY <1>1, ThrowsKeeps
<1>2. CASE ManifestFacts(m) /\ Persist(m) /\ Goto("resume") /\ vault' = vault
  <2>1. /\ man.phase = "rolling-back" /\ Whole(tx) /\ man.done > 0
        /\ Kind(Going) = "write" => tx.back # None
    <3>1. CASE pc = "intent"
      BY <3>1, TypeInvParts DEF Phased, Back, Preimages, Publishing, Undoing
    <3>2. CASE Ready /\ man.done > 0 /\ Kind(Going) # "write"
      BY <3>2, ResumingParts DEF Ready
    <3> QED BY <3>1, <3>2 DEF RecordBackIntent
  <2>2. Going \in Members /\ Going = man.done /\ plan[Going].to \in Pages
    BY <2>1, TypeInvParts, PlanParts
  <2>3. /\ vault.file[plan[Going].to] \in Inode0
        /\ man.post[Going].f \in Inode0 /\ man.post[Going].d \in Inode0 /\ tx.back \in Inode0
    BY <2>2, TypeInvParts, VaultParts, ManifestParts, TransactionParts
  <2>4. BackIntent \in Operations /\ (Kind(Going) = "write" => BackIntent.post # None)
    <3>1. CASE Kind(Going) = "move"
      <4>1. BackIntent = [stage |-> "pre-link", pre |-> vault.file[plan[Going].to],
                          post |-> vault.file[plan[Going].to], comp |-> man.post[Going].d, resv |-> None]
        BY <3>1 DEF BackIntent
      <4> QED BY <2>3, <3>1, <4>1, NoneIsNoInode DEF Operations, Stages
    <3>2. CASE Kind(Going) # "move"
      <4>1. BackIntent = [stage |-> "restore", pre |-> man.post[Going].f, post |-> tx.back,
                          comp |-> None, resv |-> None]
        BY <3>2 DEF BackIntent, NoOperation
      <4> QED BY <2>1, <2>3, <4>1, NoneIsNoInode DEF Operations
    <3> QED BY <3>1, <3>2
  <2>5. Sound(m) /\ m.phase = "rolling-back"
    BY <1>2, <2>1, <2>2, <2>4, TypeInvParts, BackwardSound
  <2> QED BY <1>2, <2>1, <2>5, ResumesFits
<1> QED BY <1>1, <1>2 DEF RecordBackIntent

LEMMA CleanUpKeeps == ASSUME TypeInv, Owner, CleanUp PROVE Kept
<1>1. Located("clean", tx)
  BY DEF Located, Phased, Forward, Back, Preimages, Preparing, Publishing, Undoing
<1>2. Fits("clean", vault', tx')
  BY <1>1, TypeInvParts DEF CleanUp, Fits, Running, Undoing
<1> QED BY <1>2, GotoKeeps DEF CleanUp

\* A member that is undone.
LEMMA ProgressFits ==
  ASSUME TypeInv, Owner, Resuming, man.rb # NoOperation, Goto("progress"),
         vault' \in Vaults(Texts), tx' \in Transactions, tx'.man = man, tx'.pre = tx.pre,
         Aside(vault', tx')
  PROVE  Kept
<1>1. Located("progress", tx')
  BY ResumingParts, TypeInvParts DEF Located, Phased, Forward, Back, Preimages, Whole, Preparing,
                                     Publishing, Undoing
<1> QED BY <1>1, TypeInvParts, GotoKeeps DEF Fits, Running, Undoing

LEMMA FindRestoredKeeps == ASSUME TypeInv, Owner, FindRestored PROVE Kept
<1>1. Resuming /\ man.rb # NoOperation
  BY DEF FindRestored, Restoring
<1>2. CASE Goto("progress") /\ vault' = vault /\ tx' = tx
  BY <1>1, <1>2, TypeInvParts, ProgressFits
<1>3. CASE Throws
  BY <1>3, ThrowsKeeps
<1> QED BY <1>2, <1>3 DEF FindRestored

LEMMA RestoreWriteKeeps == ASSUME TypeInv, Owner, RestoreWrite PROVE Kept
<1>1. Resuming /\ man.rb # NoOperation
  BY DEF RestoreWrite, Restoring
<1>2. CASE /\ vault' = PutAt(vault, plan[Going].path, tx.back) /\ tx' = [tx EXCEPT !.back = None]
           /\ Goto("progress")
  <2>1. tx.back \in Inode0 /\ plan[Going].path \in Paths
    BY <1>1, TypeInvParts, TransactionParts, ResumingParts
  <2>2. vault' \in Vaults(Texts) /\ Held(vault') \subseteq Held(vault) \union {tx.back}
    BY <1>2, <2>1, TypeInvParts, PutAtParts, PutAtHeld
  <2>3. /\ tx' \in Transactions /\ tx'.man = man /\ tx'.pre = tx.pre
        /\ tx'.staged = tx.staged /\ tx'.back = None /\ tx'.resv = tx.resv
    BY <1>2, TypeInvParts, NoneIsNoInode DEF Transactions
  <2>4. Aside(vault', tx')
    BY <2>2, <2>3, TypeInvParts DEF Aside
  <2> QED BY <1>1, <1>2, <2>2, <2>3, <2>4, ProgressFits
<1>3. CASE Throws
  BY <1>3, ThrowsKeeps
<1> QED BY <1>2, <1>3 DEF RestoreWrite

LEMMA RestoreCreateKeeps == ASSUME TypeInv, Owner, RestoreCreate PROVE Kept
<1>1. Resuming /\ man.rb # NoOperation
  BY DEF RestoreCreate, Restoring
<1>2. CASE vault' = PutAt(vault, plan[Going].path, None) /\ tx' = tx /\ Goto("progress")
  <2>1. None \in Inode0 /\ plan[Going].path \in Paths
    BY <1>1, NoneIsNoInode, ResumingParts
  <2>2. vault' \in Vaults(Texts) /\ Held(vault') \subseteq Held(vault) \union {None}
    BY <1>2, <2>1, TypeInvParts, PutAtParts, PutAtHeld
  <2>3. Aside(vault', tx')
    BY <1>2, <2>2, TypeInvParts DEF Aside
  <2> QED BY <1>1, <1>2, <2>2, <2>3, TypeInvParts, ProgressFits
<1>3. CASE Throws
  BY <1>3, ThrowsKeeps
<1> QED BY <1>2, <1>3 DEF RestoreCreate, RemoveAt

LEMMA RestoreMoveKeeps == ASSUME TypeInv, Owner, RestoreMove PROVE Kept
<1>1. /\ Resuming /\ man.rb # NoOperation /\ Kind(man.done) = "move" /\ Goto("reverse")
      /\ vault' = vault /\ tx' = tx
  BY TypeInvParts DEF RestoreMove, Restoring
<1>2. Located("reverse", tx)
  BY <1>1, ResumingParts, TypeInvParts DEF Located, Phased, Forward, Back, Preimages, Preparing,
                                           Publishing, Undoing
<1> QED BY <1>1, <1>2, TypeInvParts, GotoKeeps DEF Fits, Running, Undoing

LEMMA RecordProgressKeeps == ASSUME TypeInv, Owner, RecordProgress PROVE Kept
<1>1. /\ pc = "progress" /\ Persist(WithProgress) /\ Goto("resume") /\ vault' = vault
      /\ man.rb # NoOperation /\ Whole(tx)
  BY TypeInvParts DEF RecordProgress, Back, Preimages, Publishing, Undoing
<1>2. Sound(WithProgress) /\ WithProgress.phase = "rolling-back"
  BY <1>1, TypeInvParts, ProgressSound
<1> QED BY <1>1, <1>2, ResumesFits

LEMMA RefuseResumeKeeps == ASSUME TypeInv, Owner, RefuseResume PROVE Kept
BY ThrowsKeeps DEF RefuseResume

\* The empty private directory.
LEMMA NoTransactionParts ==
  ASSUME TypeInv
  PROVE  /\ NoTransaction \in Transactions /\ Sound(NoTransaction.man) /\ Aside(vault, NoTransaction)
         /\ NoTransaction.man = NoManifest /\ NoTransaction.resv = None
         /\ \A k \in Members : NoTransaction.pre[k] = "absent"
<1>1. Sound(NoManifest) /\ NoManifest \in Manifests
  BY TypeInvParts, FirstManifests DEF Sound
<1>2. NoTransaction \in Transactions
  BY <1>1, NoneIsNoInode DEF NoTransaction, Transactions
<1> QED BY <1>1, <1>2 DEF NoTransaction, Aside

LEMMA RemoveArtifactKeeps == ASSUME TypeInv, Owner, RemoveArtifact PROVE Kept
<1> DEFINE left == {k \in NeedsPreimage : tx.pre[k] # "absent"}
<1>0. pc = "clean" /\ vault' = vault
  BY DEF RemoveArtifact
<1>1. \A t : Located("clean", t)
  BY DEF Located, Phased, Forward, Back, Preimages, Preparing, Publishing, Undoing
<1>2. CASE Goto("clean") /\ tx' = [tx EXCEPT !.pre[CHOOSE k \in left : \A j \in left : k <= j] = "absent"]
  <2>1. PICK k : tx' = [tx EXCEPT !.pre[k] = "absent"]
    BY <1>2
  <2>2. PICK pre : pre = [tx.pre EXCEPT ![k] = "absent"]
    OBVIOUS
  <2>3. pre \in [Members -> {"absent", "torn", "whole"}]
    BY <2>2, TypeInvParts, TransactionParts
  <2>4. tx' = [tx EXCEPT !.pre = pre]
    BY <2>1, <2>2, TypeInvParts DEF Transactions
  <2>5. /\ tx' \in Transactions /\ tx'.man = man
        /\ tx'.staged = tx.staged /\ tx'.back = tx.back /\ tx'.resv = tx.resv
    BY <2>3, <2>4, TypeInvParts DEF Transactions
  <2>6. Fits("clean", vault', tx')
    BY <1>0, <1>1, <2>5, TypeInvParts, AsideSame DEF Fits, Running, Undoing
  <2> QED BY <1>2, <2>6, GotoKeeps
<1>3. CASE Persist(NoManifest) /\ Goto("clean")
  <2>1. Sound(NoManifest)
    BY TypeInvParts, FirstManifests
  <2>2. tx' \in Transactions /\ Sound(tx'.man) /\ Aside(vault, tx')
    BY <1>3, <2>1, PersistParts
  <2>3. Fits("clean", vault', tx')
    BY <1>0, <1>1, <2>2, TypeInvParts DEF Fits, Running, Undoing
  <2> QED BY <1>3, <2>3, GotoKeeps
<1>4. CASE tx' = NoTransaction /\ End("rolled-back")
  BY <1>0, <1>4, NoTransactionParts, EndKeeps
<1> QED BY <1>2, <1>3, <1>4 DEF RemoveArtifact

-----------------------------------------------------------------------------
(***************************************************************************)
(* Recovery, misfortunes and the owner keep the invariant.                 *)
(***************************************************************************)
\* What a recovery finds, and when it goes on to undo.
LEMMA FindingIs ==
  ASSUME TypeInv
  PROVE  /\ RecoveryFinds \in {"nothing", "attention", "committed", "undo"}
         /\ RecoveryFinds = "undo" => tx.made /\ man.phase \in Phases \ {"committed"}
         /\ RecoveryFinds = "committed" => man.phase = "committed" /\ ArtifactsOK /\ CommittedHolds
<1>1. man.phase \in Phases \union {"absent", "torn"} /\ tx.made \in BOOLEAN
  BY TypeInvParts, ManifestParts, TransactionParts
<1>2. CASE ~tx.made
  BY <1>2 DEF RecoveryFinds
<1>3. CASE tx.made /\ man.phase \in {"absent", "torn"}
  BY <1>3 DEF RecoveryFinds
<1>4. CASE tx.made /\ man.phase = "committed"
  BY <1>4 DEF RecoveryFinds
<1>5. CASE tx.made /\ man.phase = "prepared" /\ ~RemainingPreconditions(1)
  BY <1>5 DEF RecoveryFinds
<1>6. CASE /\ tx.made /\ man.phase \notin {"absent", "torn"}
           /\ man.phase # "committed" /\ ~(man.phase = "prepared" /\ ~RemainingPreconditions(1))
  <2>1. RecoveryFinds = "undo"
    BY <1>6 DEF RecoveryFinds
  <2> QED BY <1>1, <1>6, <2>1
<1> QED BY <1>1, <1>2, <1>3, <1>4, <1>5, <1>6

LEMMA RecoverKeeps == ASSUME TypeInv, Owner, Recover PROVE Kept
<1>1. vault' = vault /\ tx' = tx
  BY DEF Recover
<1>2. CASE RecoveryFinds # "undo"
  BY <1>1, <1>2, FindingIs, TypeInvParts, EndKeeps DEF Recover
<1>3. CASE RecoveryFinds = "undo"
  <2>1. man.phase \in Phases /\ pc' = "undo" /\ lock' = "held" /\ UNCHANGED faults
    BY <1>3, FindingIs DEF Recover
  <2>2. Located("undo", tx)
    BY <2>1, TypeInvParts DEF Located, Phased, Forward, Back, Preimages, Preparing, Publishing, Undoing
  <2>3. Fits(pc', vault', tx')
    BY <1>1, <2>1, <2>2, TypeInvParts DEF Fits, Running, Undoing
  <2> QED BY <2>1, <2>3 DEF Kept, Owner, TypeInv
<1> QED BY <1>2, <1>3

LEMMA OwnerClearsLockKeeps == ASSUME TypeInv, Owner, OwnerClearsLock PROVE Kept
BY DEF OwnerClearsLock, Owner, Kept, TypeInv

\* A crash, wherever it happens, leaves what a recovery reads.
LEMMA DiesKeeps ==
  ASSUME TypeInv, Owner, Fault, Dies, vault' \in Vaults(Texts), tx' \in Transactions,
         Sound(tx'.man), Aside(vault', tx')
  PROVE  Kept
<1>1. Fits(pc', vault', tx') /\ lock' \in {"free", "held", "left"}
  BY AtRest DEF Dies
<1>2. faults' \in 0..MaxFaults
  BY TransactionAssumption DEF Fault, TypeInv
<1> QED BY <1>1, <1>2 DEF Kept, Owner

LEMMA FailsKeeps == ASSUME TypeInv, Owner, Fails PROVE Kept
<1>1. Phased(pc, man) /\ (pc \in Publishing => man.phase \in Phases)
  BY TypeInvParts DEF Phased, Publishing, Phases
<1>2. Fits(pc', vault, tx) /\ lock' \in {"free", "held", "left"}
  BY <1>1, TypeInvParts, CaughtFits DEF Fails, TypeInv
<1>3. faults' \in 0..MaxFaults
  BY TransactionAssumption DEF Fails, Fault, TypeInv
<1> QED BY <1>2, <1>3 DEF Fails, Owner, Kept

LEMMA CrashKeeps == ASSUME TypeInv, Owner, Crash PROVE Kept
BY TypeInvParts, DiesKeeps DEF Crash

LEMMA CrashInPersistKeeps == ASSUME TypeInv, Owner, CrashInPersist PROVE Kept
<1>1. /\ tx' \in Transactions /\ tx'.man = man
      /\ tx'.staged = tx.staged /\ tx'.back = tx.back /\ tx'.resv = tx.resv
  BY TypeInvParts DEF CrashInPersist, Transactions
<1>2. Aside(vault, tx')
  BY <1>1, AsideSame
<1> QED BY <1>1, <1>2, TypeInvParts, DiesKeeps DEF CrashInPersist

\* What a private file that is cut short leaves.
LEMMA CutParts ==
  ASSUME TypeInv, CutPrivateFile
  PROVE  /\ vault' \in Vaults(Texts) /\ tx' \in Transactions /\ Sound(tx'.man) /\ Aside(vault', tx')
         /\ pc \in Publishing => tx'.man.phase \in Phases
<1> DEFINE k == CHOOSE j \in Unsaved : \A n \in Unsaved : j <= n
<1>1. CASE pc = "preimages"
  <2>1. tx' = [tx EXCEPT !.pre[k] = "torn"] /\ vault' = vault
    BY <1>1 DEF CutPrivateFile, Ready, Resuming
  <2>2. PICK pre : pre = [tx.pre EXCEPT ![k] = "torn"]
    OBVIOUS
  <2>3. pre \in [Members -> {"absent", "torn", "whole"}]
    BY <2>2, TypeInvParts, TransactionParts
  <2>4. tx' = [tx EXCEPT !.pre = pre]
    BY <2>1, <2>2, TypeInvParts DEF Transactions
  <2>5. /\ tx' \in Transactions /\ tx'.man = man
        /\ tx'.staged = tx.staged /\ tx'.back = tx.back /\ tx'.resv = tx.resv
    BY <2>3, <2>4, TypeInvParts DEF Transactions
  <2> QED BY <1>1, <2>1, <2>5, TypeInvParts, AsideSame DEF Publishing
<1>2. CASE pc = "manifest"
  <2>1. Persist(TornManifest) /\ vault' = vault
    BY <1>2 DEF CutPrivateFile, Ready, Resuming
  <2>2. Sound(TornManifest)
    BY TypeInvParts, FirstManifests
  <2> QED BY <1>2, <2>1, <2>2, TypeInvParts, PersistParts DEF Publishing
<1>3. CASE pc = "stage"
  <2>1. PICK i \in Fresh(vault, Private) :
          tx' = [tx EXCEPT !.staged = i] /\ vault' = Written(vault, i, Torn)
    BY <1>3 DEF CutPrivateFile, Ready, Resuming
  <2>2. man.phase = "publishing"
    BY <1>3, TypeInvParts DEF Phased, Publishing
  <2> QED BY <2>1, <2>2, StagedParts, TextsParts, TypeInvParts DEF Phases
<1>4. CASE pc \notin {"preimages", "manifest", "stage"}
  <2>1. Ready /\ \E i \in Fresh(vault, Private) :
          tx' = [tx EXCEPT !.back = i] /\ vault' = Written(vault, i, Torn)
    BY <1>4 DEF CutPrivateFile
  <2>2. PICK i \in Fresh(vault, Private) :
          tx' = [tx EXCEPT !.back = i] /\ vault' = Written(vault, i, Torn)
    BY <2>1
  <2>3. pc \notin Publishing
    BY <2>1 DEF Ready, Resuming, Publishing
  <2> QED BY <2>2, <2>3, RestoringParts, TextsParts, TypeInvParts
<1> QED BY <1>1, <1>2, <1>3, <1>4

LEMMA CutsArtifactKeeps == ASSUME TypeInv, Owner, CutsArtifact PROVE Kept
<1>1. /\ vault' \in Vaults(Texts) /\ tx' \in Transactions /\ Sound(tx'.man) /\ Aside(vault', tx')
      /\ pc \in Publishing => tx'.man.phase \in Phases
  BY CutParts DEF CutsArtifact
<1>2. CASE Caught
  <2>1. Fits(pc', vault', tx') /\ lock' \in {"free", "held", "left"}
    BY <1>1, <1>2, CaughtFits DEF TypeInv
  <2>2. faults' \in 0..MaxFaults
    BY TransactionAssumption DEF CutsArtifact, Fault, TypeInv
  <2> QED BY <2>1, <2>2 DEF Owner, Kept
<1>3. CASE Dies
  BY <1>1, <1>3, DiesKeeps DEF CutsArtifact
<1> QED BY <1>2, <1>3 DEF CutsArtifact

LEMMA FailsAfterCommitKeeps == ASSUME TypeInv, Owner, FailsAfterCommit PROVE Kept
<1>1. /\ pc = "complete" /\ man.phase = "publishing" /\ man.pend.post # None
      /\ Persist(WithCompletion) /\ vault' = vault /\ pc' = "undo" /\ lock' = lock
  BY TypeInvParts DEF FailsAfterCommit, Phased, Forward, Publishing
<1>2. Sound(WithCompletion) /\ WithCompletion.phase \in Phases
  BY <1>1, TypeInvParts, CompletionSound DEF Phases
<1>3. tx' \in Transactions /\ tx'.man = WithCompletion /\ Sound(tx'.man) /\ Aside(vault, tx')
  BY <1>1, <1>2, PersistParts
<1>4. Located("undo", tx')
  BY <1>2, <1>3 DEF Located, Phased, Forward, Back, Preimages, Preparing, Publishing, Undoing
<1>5. Fits(pc', vault', tx')
  BY <1>1, <1>3, <1>4, TypeInvParts DEF Fits, Running, Undoing
<1>6. faults' \in 0..MaxFaults /\ lock' \in {"free", "held", "left"}
  BY <1>1, TransactionAssumption DEF FailsAfterCommit, Fault, TypeInv
<1> QED BY <1>5, <1>6 DEF Owner, Kept

LEMMA FailsToLockKeeps == ASSUME TypeInv, Owner, FailsToLock PROVE Kept
<1>1. Fits(pc', vault', tx')
  BY TypeInvParts, AtRest DEF FailsToLock
<1>2. faults' \in 0..MaxFaults
  BY TransactionAssumption DEF FailsToLock, Fault, TypeInv
<1> QED BY <1>1, <1>2 DEF FailsToLock, Owner, Kept

\* Every step but the owner's is one of these.
LEMMA StepKeeps ==
  ASSUME TypeInv, Process \/ LookLast \/ Misfortune \/ ((Recover \/ OwnerClearsLock) /\ Owner)
  PROVE  Kept
<1>1. CASE Apply /\ Owner
  BY <1>1, BeginKeeps, MakeDirectoryKeeps, SavePreimageKeeps, CreateManifestKeeps, StartPublishingKeeps,
     ReserveMemberKeeps, StageMemberKeeps, ReadyMemberKeeps, RefuseSwapKeeps, LinkMemberKeeps,
     UnlinkStagedKeeps, CompleteMemberKeeps DEF Apply
<1>2. CASE MoveStep /\ Owner
  BY <1>2, RecordStageKeeps, MakeReservationKeeps, MoveCompanionKeeps, FinishMoveKeeps,
     RefuseMoveKeeps DEF MoveStep
<1>3. CASE Undo /\ Owner
  BY <1>3, StartUndoKeeps, DropStagedKeeps, RollBackRecordedKeeps, PromoteKeeps, DropUncheckpointedKeeps,
     StageBackKeeps, RecordBackIntentKeeps, CleanUpKeeps, FindRestoredKeeps, RestoreMoveKeeps,
     RecordProgressKeeps, RefuseResumeKeeps, RemoveArtifactKeeps DEF Undo
<1>4. CASE Misfortune
  BY <1>4, FailsKeeps, CutsArtifactKeeps, FailsAfterCommitKeeps, FailsToLockKeeps, CrashKeeps,
     CrashInPersistKeeps DEF Misfortune
<1>5. CASE Call /\ Owner
  BY <1>5, SwapMemberKeeps, LinkTargetKeeps, ShowReservationKeeps, UnlinkSourceKeeps, RestoreWriteKeeps,
     RestoreCreateKeeps DEF Call
<1>6. CASE NoticeOwner /\ Owner
  BY <1>6, ThrowsKeeps DEF NoticeOwner
<1>7. CASE LookLast
  BY <1>7 DEF LookLast, Compare, Kept, Owner, TypeInv
<1> QED BY <1>1, <1>2, <1>3, <1>4, <1>5, <1>6, <1>7, RecoverKeeps, OwnerClearsLockKeeps DEF Process

\* What the owner does to the vault.
LEMMA OwnerParts ==
  ASSUME TypeInv, OwnerActs
  PROVE  /\ plan' = plan /\ tx' = tx /\ pc' = pc /\ lock' = lock /\ faults' = faults
         /\ edits' = edits + 1 /\ edits' \in 0..MaxEdits /\ pc # "idle"
         /\ vault' \in Vaults(Texts) /\ Aside(vault', tx) /\ touched' \subseteq Pages
         /\ \E typed \in {{}, {Mine(edits + 1)}} :
              /\ typed \subseteq TextsIn(vault')
              /\ owed' = ({t \in owed : t \in TextsIn(vault) => t \in TextsIn(vault')} \union typed)
                            \ Exposed(vault')
         /\ window' = IF window = "closed" THEN "closed" ELSE "raced"
         /\ Mine(edits + 1) \in Texts
<1> DEFINE t0 == Mine(edits + 1)
<1>1. edits + 1 \in 1..MaxEdits /\ t0 \in Texts
  <2>1. edits + 1 \in 1..MaxEdits
    BY TransactionAssumption DEF OwnerActs, TypeInv
  <2> QED BY <2>1, TextsParts
<1>2. PICK x \in Paths :
        \/ \E v \in OwnerEdits(vault, x, t0) \union OwnerSaves(vault, x, t0, Private) :
             OwnerDoes(v, x, {t0})
        \/ \E v \in OwnerDeletes(vault, x) : OwnerDoes(v, x, {})
        \/ /\ FileAt(vault, x) # None
           /\ \E v \in OwnerSaves(vault, x, vault.text[FileAt(vault, x)], Private) : OwnerDoes(v, x, {})
        \/ \E v \in OwnerMakesDirectory(vault, x.page, Private) : x.inside /\ OwnerDoes(v, x, {})
  BY DEF OwnerActs
<1>3. PICK s, v, typed :
        /\ s \in Texts /\ typed \in {{}, {t0}} /\ OwnerDoes(v, x, typed)
        /\ \/ v \in OwnerEdits(vault, x, s) \union OwnerSaves(vault, x, s, Private) /\ (typed = {} \/ s = t0)
           \/ v \in OwnerDeletes(vault, x) \union OwnerMakesDirectory(vault, x.page, Private) /\ typed = {}
  <2>1. CASE \E v \in OwnerEdits(vault, x, t0) \union OwnerSaves(vault, x, t0, Private) :
               OwnerDoes(v, x, {t0})
    BY <1>1, <2>1
  <2>2. CASE \E v \in OwnerDeletes(vault, x) \union OwnerMakesDirectory(vault, x.page, Private) :
               OwnerDoes(v, x, {})
    BY <1>1, <2>2
  <2>3. CASE /\ FileAt(vault, x) # None
             /\ \E v \in OwnerSaves(vault, x, vault.text[FileAt(vault, x)], Private) : OwnerDoes(v, x, {})
    <3>1. vault.text[FileAt(vault, x)] \in Texts
      BY <2>3, TypeInvParts, FileAtTyped, VaultParts, NoneIsNoInode
    <3> QED BY <2>3, <3>1
  <2> QED BY <1>2, <2>1, <2>2, <2>3
<1>4. vault' = v /\ v \in Vaults(Texts) /\ typed \subseteq TextsIn(v)
  BY <1>3, TypeInvParts, OwnerWrites, OwnerRemoves DEF OwnerDoes
<1>5. Aside(v, tx)
  <2>1. SUFFICES ASSUME tx.resv # None, tx.resv \in Held(v) PROVE tx.resv \in Held(vault)
    BY TypeInvParts DEF Aside
  <2>2. tx.resv \in Private
    BY <2>1 DEF Private
  <2> QED BY <1>3, <2>1, <2>2, TypeInvParts, OwnerTakesNone
<1>6. touched' \subseteq Pages
  BY <1>3, PathsAreRecords DEF OwnerDoes, TypeInv
<1>7. edits' = edits + 1 /\ edits' \in 0..MaxEdits
  BY <1>1, <1>3, TransactionAssumption DEF OwnerDoes
<1> QED BY <1>1, <1>3, <1>4, <1>5, <1>6, <1>7 DEF OwnerDoes, OwnerActs

-----------------------------------------------------------------------------
(***************************************************************************)
(* Type correctness.                                                       *)
(***************************************************************************)
\* The plan is the same later, and so is what depends on it alone.
LEMMA SamePlan ==
  ASSUME plan' = plan, NEW q, NEW v, NEW t
  PROVE  Fits(q, v, t)' <=> Fits(q, v, t)
<1>1. Members' = Members /\ Manifests' = Manifests
  BY DEF Members, Manifests
<1>2. Transactions' = Transactions /\ Texts' = Texts /\ NeedsPreimage' = NeedsPreimage
  BY <1>1 DEF Transactions, Texts, NeedsPreimage, Kind
<1>3. NoManifest' = NoManifest
  BY <1>1 DEF NoManifest, Prepared
<1> QED BY <1>1, <1>2, <1>3 DEF Fits, Sound, ManifestFacts, Kind, Located, Phased, Forward, Back,
                                Preimages, Whole

LEMMA InitTyped ==
  ASSUME Init
  PROVE  TypeInv /\ TextInv
<1>1. PICK C \in SUBSET Companions :
        vault = InitialVault(Present, C) /\ owed = {Old(path) : path \in OwnPaths(Present, C)}
  BY DEF Init
<1>2. /\ plan \in Plans /\ tx = NoTransaction /\ pc = "idle" /\ lock = "free"
      /\ edits = 0 /\ faults = 0 /\ touched = {} /\ window = "closed"
  BY DEF Init
<1>3. Present \in SUBSET Pages /\ C \in SUBSET Present
  BY TransactionAssumption
<1>4. /\ vault \in Vaults(Texts)
      /\ \A p \in Present : TextIs(vault, Note(p), Old(Note(p)))
      /\ \A p \in C : TextIs(vault, Within(p), Old(Within(p)))
  BY <1>1, <1>3, TextsParts, RoomAssumption, InitialIs
<1>5. ASSUME NEW t \in owed
      PROVE  t \in TextsIn(vault) /\ t \in Texts /\ \A k : New(k) # t
  <2>1. PICK x \in OwnPaths(Present, C) : t = Old(x)
    BY <1>1
  <2>2. x \in Paths /\ TextIs(vault, x, Old(x))
    BY <1>3, <1>4, <2>1, PathsAreRecords DEF OwnPaths
  <2> QED BY <2>1, <2>2, InTextsIn, TextsParts, TextsDiffer
<1>6. Sound(NoManifest) /\ NoManifest \in Manifests
  BY <1>2, FirstManifests DEF Sound
<1>7. /\ tx \in Transactions /\ tx.man = NoManifest /\ tx.resv = None
      /\ \A k \in Members : tx.pre[k] = "absent"
  <2>1. tx \in Transactions
    BY <1>2, <1>6, NoneIsNoInode DEF NoTransaction, Transactions
  <2> QED BY <1>2, <2>1 DEF NoTransaction
<1>8. Located(pc, tx)
  BY <1>2, <1>7 DEF Located, Phased, Forward, Back, Preimages, Preparing, Publishing, Undoing
<1>9. Fits(pc, vault, tx)
  BY <1>2, <1>4, <1>6, <1>7, <1>8 DEF Fits, Aside, Answers
<1>10. TypeInv
  BY <1>2, <1>5, <1>9, TransactionAssumption DEF TypeInv
<1>11. TextInv
  BY <1>5 DEF TextInv
<1> QED BY <1>10, <1>11

\* What a step established holds of the new state.
LEMMA KeptTyped ==
  ASSUME TypeInv, plan' = plan, Fits(pc', vault', tx'), lock' \in {"free", "held", "left"},
         edits' \in 0..MaxEdits, faults' \in 0..MaxFaults, owed' \subseteq Texts, touched' \subseteq Pages,
         window' \in {"closed", "open", "raced"}
  PROVE  TypeInv'
<1>1. Fits(pc, vault, tx)'
  BY SamePlan
<1>2. Texts' = Texts /\ plan' \in Plans
  BY DEF Texts, Members, TypeInv
<1> QED BY <1>1, <1>2 DEF TypeInv

LEMMA StepTyped ==
  ASSUME TypeInv, [Next]_vars
  PROVE  TypeInv'
<1>1. CASE UNCHANGED vars
  BY <1>1, KeptTyped DEF TypeInv, vars
<1>2. CASE Process \/ LookLast \/ Misfortune \/ ((Recover \/ OwnerClearsLock) /\ UNCHANGED window /\ Owner)
  <2>1. Kept
    BY <1>2, StepKeeps
  <2>2. window' \in {"closed", "open", "raced"}
    BY <1>2 DEF Process, LookLast, Misfortune, TypeInv
  <2> QED BY <2>1, <2>2, KeptTyped DEF Kept, TypeInv
<1>3. CASE OwnerActs
  <2>1. /\ plan' = plan /\ tx' = tx /\ pc' = pc /\ lock' = lock /\ faults' = faults
        /\ edits' \in 0..MaxEdits /\ vault' \in Vaults(Texts) /\ Aside(vault', tx)
        /\ touched' \subseteq Pages /\ window' \in {"closed", "open", "raced"}
    BY <1>3, OwnerParts
  <2>2. owed' \subseteq Texts
    BY <1>3, OwnerParts DEF TypeInv
  <2>3. Fits(pc', vault', tx')
    BY <2>1 DEF TypeInv, Fits
  <2> QED BY <2>1, <2>2, <2>3, KeptTyped DEF TypeInv
<1> QED BY <1>1, <1>2, <1>3 DEF Next

\* The manifest on the disk is one the parser accepts, unless it is cut short, and
\* everything else is what the code takes it for.
THEOREM TypeCorrect == Spec => []TypeOK
<1>1. Init => TypeInv
  BY InitTyped
<1>2. TypeInv /\ [Next]_vars => TypeInv'
  BY StepTyped
<1>3. TypeInv => TypeOK
  <2>1. SUFFICES ASSUME TypeInv PROVE TypeOK
    OBVIOUS
  <2> QED BY <2>1, TypeInvParts, ManifestParts, TransactionParts DEF TypeOK, TypeInv, Fits
<1> QED BY <1>1, <1>2, <1>3, PTL DEF Spec

-----------------------------------------------------------------------------
(***************************************************************************)
(* No text of the owner is destroyed.                                      *)
(***************************************************************************)
\* Before the manifest and while the files of a finished rollback are removed.
Bare(q) == q \in {"idle", "clean"} \union Preparing

\* What a step has to establish of the texts.
LEMMA TextKept ==
  ASSUME TypeInv, TextInv, plan' = plan, \A k \in Members : New(k) \notin owed',
         \A t \in owed' : t \in TextsIn(vault') \/ Saved(tx', t),
         Bare(pc') => owed' \subseteq TextsIn(vault')
  PROVE  TextInv'
<1>1. /\ Members' = Members /\ NeedsPreimage' = NeedsPreimage
      /\ \A k \in NeedsPreimage : Expected(k)' = Expected(k)
  BY DEF Members, NeedsPreimage, Kind, Expected, BeforeMoves
<1>2. TextsIn(vault)' = TextsIn(vault')
  BY DEF TextsIn
<1> QED BY <1>1, <1>2 DEF TextInv, Saved, Bare, New

\* A step of the process keeps the texts when it keeps those in the vault, or has them saved.
LEMMA ProcessText ==
  ASSUME TypeInv, TextInv, Owner, tx'.pre = tx.pre,
         \A t \in owed : t \in TextsIn(vault) => t \in TextsIn(vault') \/ Saved(tx, t),
         Bare(pc') => Bare(pc) /\ vault' = vault
  PROVE  TextInv'
<1>1. ASSUME NEW t \in owed PROVE t \in TextsIn(vault') \/ Saved(tx', t)
  BY <1>1 DEF TextInv, Saved
<1>2. Bare(pc') => owed \subseteq TextsIn(vault')
  BY DEF TextInv, Bare
<1> QED BY <1>1, <1>2, TextKept DEF Owner, TextInv

\* A step that changes neither the vault nor the preimages.
LEMMA QuietText ==
  ASSUME TypeInv, TextInv, Owner, vault' = vault, tx'.pre = tx.pre, Bare(pc') => Bare(pc)
  PROVE  TextInv'
BY ProcessText

\* An answer or an exception leads to none of the bare positions.
LEMMA NotBare ==
  /\ \A q \in {"undo", "down", "attention", "committed", "rolled-back", "nothing"} : ~Bare(q)
  /\ \A q \in Publishing \union (Undoing \ {"clean"}) : ~Bare(q)
BY DEF Bare, Preparing, Publishing, Undoing

LEMMA CaughtNotBare == ASSUME Caught PROVE ~Bare(pc')
BY NotBare DEF Caught

LEMMA EndNotBare ==
  ASSUME NEW answer \in {"attention", "committed", "rolled-back", "nothing"}, End(answer)
  PROVE  ~Bare(pc')
BY NotBare DEF End

LEMMA ThrowsText == ASSUME TypeInv, TextInv, Owner, Throws PROVE TextInv'
BY CaughtNotBare, QuietText DEF Throws

\* A private file is written beside the vault.
LEMMA BesideText ==
  ASSUME TypeInv, NEW i \in Fresh(vault, Private), NEW t \in Texts,
         vault' = Written(vault, i, t), NEW s \in TextsIn(vault)
  PROVE  s \in TextsIn(vault')
<1>1. i \in Inodes /\ i \notin Held(vault)
  BY FreshHere
<1>2. PICK x \in Paths : TextIs(vault, x, s)
  BY InTextsIn
<1>3. TextIs(vault', x, s)
  BY <1>1, <1>2, TypeInvParts, WrittenAside
<1> QED BY <1>3, InTextsIn

-----------------------------------------------------------------------------
(***************************************************************************)
(* The steps that change the vault.                                        *)
(***************************************************************************)
LEMMA StageMemberText == ASSUME TypeInv, TextInv, Owner, StageMember PROVE TextInv'
<1>1. CASE Throws
  BY <1>1, ThrowsText
<1>2. CASE Goto("ready") /\ \E i \in Fresh(vault, Private) :
              tx' = [tx EXCEPT !.staged = i] /\ vault' = Written(vault, i, New(Coming))
  <2>1. PICK i \in Fresh(vault, Private) :
          tx' = [tx EXCEPT !.staged = i] /\ vault' = Written(vault, i, New(Coming))
    BY <1>2
  <2>2. New(Coming) \in Texts
    BY TypeInvParts, MemberUnderWay DEF StageMember, Phased, Publishing
  <2>3. tx'.pre = tx.pre
    BY <2>1, <2>2, StagedParts
  <2>4. ~Bare(pc')
    BY <1>2, NotBare DEF Goto, Publishing
  <2> QED BY <2>1, <2>2, <2>3, <2>4, BesideText, ProcessText
<1> QED BY <1>1, <1>2 DEF StageMember

\* What a call replaces or removes is in a preimage, unless the owner left it exposed.
LEMMA OverwrittenIsSaved ==
  ASSUME TypeInv, WindowInv, window # "closed", NEW x \in Paths, x \in Affected, NEW i \in Inode0,
         vault' = PutAt(vault, x, i), NEW t \in owed, t \in TextsIn(vault), t \notin TextsIn(vault')
  PROVE  Saved(tx, t)
<1>1. FileAt(vault, x) # None /\ t \notin TextsIn(RemoveAt(vault, x))
  BY TypeInvParts, PutAtKeeps
<1>2. t \in OnlyAt(vault, x)
  BY <1>1 DEF OnlyAt
<1> QED BY <1>2 DEF WindowInv

\* What a write replaces is the text that its preimage holds.
LEMMA SwapMemberText == ASSUME TypeInv, TextInv, WindowInv, window # "closed", Owner, SwapMember PROVE TextInv'
<1>1. CASE Throws
  BY <1>1, ThrowsText
<1>2. CASE /\ vault' = PutAt(vault, plan[Coming].path, tx.staged)
           /\ tx' = [tx EXCEPT !.staged = None] /\ Goto("complete")
  <2>1. pc = "swap" /\ man.phase = "publishing" /\ Kind(Coming) # "move"
    BY TypeInvParts DEF SwapMember, Phased, Forward, Publishing
  <2>2. plan[Coming].path \in Paths /\ tx.staged \in Inode0
    BY <2>1, TypeInvParts, TransactionParts, MemberUnderWay
  <2>3. ASSUME NEW t \in owed, t \in TextsIn(vault), t \notin TextsIn(vault') PROVE Saved(tx, t)
    <3>1. plan[Coming].path \in Affected
      BY <2>1 DEF Affected, Moving
    <3> QED BY <1>2, <2>2, <2>3, <3>1, OverwrittenIsSaved
  <2>4. tx'.pre = tx.pre /\ ~Bare(pc')
    BY <1>2, NotBare, TypeInvParts DEF Goto, Publishing, Transactions
  <2> QED BY <2>3, <2>4, ProcessText
<1> QED BY <1>1, <1>2 DEF SwapMember

\* A link takes no name away.
LEMMA LinkMemberText == ASSUME TypeInv, TextInv, Owner, LinkMember PROVE TextInv'
<1>1. CASE Throws
  BY <1>1, ThrowsText
<1>2. CASE /\ PendingPrecondition(Coming) /\ vault' = PutAt(vault, plan[Coming].path, tx.staged)
           /\ tx' = tx /\ Goto("unlink")
  <2>1. pc = "swap" /\ man.phase = "publishing" /\ Kind(Coming) = "create"
    BY TypeInvParts DEF LinkMember, Phased, Publishing
  <2>2. plan[Coming].path \in Paths /\ tx.staged \in Inode0
    BY <2>1, TypeInvParts, TransactionParts, MemberUnderWay
  <2>3. FileAt(vault, plan[Coming].path) = None
    BY <1>2, <2>1 DEF PendingPrecondition, Precondition, AbsentAt
  <2>4. \A t \in TextsIn(vault) : t \in TextsIn(vault')
    BY <1>2, <2>2, <2>3, TypeInvParts, PutAtKeeps
  <2>5. ~Bare(pc')
    BY <1>2, NotBare DEF Goto, Publishing
  <2> QED BY <1>2, <2>4, <2>5, ProcessText
<1> QED BY <1>1, <1>2 DEF LinkMember

\* No step of a move loses a text.
LosesNoText == tx'.pre = tx.pre /\ \A t \in TextsIn(vault) : t \in TextsIn(vault')

LEMMA LinkTargetHolds == ASSUME TypeInv, LinkTarget PROVE LosesNoText
<1> DEFINE source == Note(From(Mover, Backward))
           target == Note(To(Mover, Backward))
<1>1. CASE Throws
  BY <1>1 DEF Throws, LosesNoText
<1>2. CASE /\ FileAt(vault, target) = None /\ tx' = tx
           /\ vault' = PutAt(vault, target, FileAt(vault, source))
  <2>1. Moving
    BY DEF LinkTarget
  <2>2. source \in Paths /\ target \in Paths /\ FileAt(vault, source) \in Inode0
    BY <2>1, TypeInvParts, MoverParts, PathsAreRecords, FileAtTyped
  <2>3. \A t \in TextsIn(vault) : t \in TextsIn(vault')
    BY <1>2, <2>2, TypeInvParts, PutAtKeeps
  <2> QED BY <1>2, <2>3 DEF LosesNoText
<1> QED BY <1>1, <1>2 DEF LinkTarget

LEMMA MakeReservationHolds == ASSUME TypeInv, MakeReservation PROVE LosesNoText
<1>1. Moving /\ Goto(pc)
  BY DEF MakeReservation
<1>2. PICK d \in Fresh(vault, Private) : tx' = [tx EXCEPT !.resv = d] /\ vault' = Emptied(vault, d)
  BY DEF MakeReservation
<1>3. d \in Inodes /\ d \notin Held(vault)
  BY FreshHere
<1>4. vault'.text = vault.text /\ \A x \in Paths : FileAt(vault', x) = FileAt(vault, x)
  BY <1>2, <1>3, TypeInvParts, EmptiedParts
<1>5. TextsIn(vault') = TextsIn(vault)
  BY <1>4, SameNames
<1>6. tx'.pre = tx.pre
  BY <1>2, TypeInvParts DEF Transactions
<1> QED BY <1>5, <1>6 DEF LosesNoText

LEMMA ShowReservationHolds == ASSUME TypeInv, ShowReservation PROVE LosesNoText
<1> DEFINE to == To(Mover, Backward)
<1>1. CASE Throws
  BY <1>1 DEF Throws, LosesNoText
<1>2. CASE /\ vault.dir[to] = None \/ EmptyDirectory(vault, vault.dir[to])
           /\ vault' = PutDirectory(vault, to, tx.resv) /\ tx' = [tx EXCEPT !.resv = None]
  <2>1. to \in Pages
    BY MoverParts DEF ShowReservation
  <2>2. /\ vault'.file = vault.file /\ vault'.child = vault.child /\ vault'.text = vault.text
        /\ \A p \in Pages : p # to => vault'.dir[p] = vault.dir[p]
    BY <1>2, <2>1, TypeInvParts, VaultParts DEF PutDirectory, Vaults
  <2>3. ASSUME NEW x \in Paths, NEW t, TextIs(vault, x, t) PROVE TextIs(vault', x, t)
    <3>1. x.page \in Pages /\ ~(x.inside /\ x.page = to)
      BY <1>2, <2>3, PathsAreRecords DEF TextIs, FileAt, EmptyDirectory
    <3>2. FileAt(vault', x) = FileAt(vault, x)
      BY <2>2, <3>1 DEF FileAt
    <3> QED BY <2>2, <2>3, <3>2 DEF TextIs
  <2>4. \A t \in TextsIn(vault) : t \in TextsIn(vault')
    BY <2>3, InTextsIn
  <2>5. tx'.pre = tx.pre
    BY <1>2, TypeInvParts DEF Transactions
  <2> QED BY <2>4, <2>5 DEF LosesNoText
<1> QED BY <1>1, <1>2 DEF ShowReservation

LEMMA MoveCompanionHolds == ASSUME TypeInv, MoveCompanion PROVE LosesNoText
<1> DEFINE from == From(Mover, Backward)
           to == To(Mover, Backward)
<1>1. /\ Moving /\ Goto(pc) /\ tx' = tx /\ CurrentLayout = "companion-reserved"
      /\ vault' = MoveDirectory(vault, from, to)
  BY DEF MoveCompanion
<1>2. vault.dir[to] = Operation.resv /\ EmptyDirectory(vault, Operation.resv)
  BY <1>1, LayoutMeans DEF CurrentLayout
<1>3. from \in Pages /\ to \in Pages /\ from # to
  BY <1>1, MoverParts
<1>4. ASSUME NEW t \in TextsIn(vault) PROVE t \in TextsIn(vault')
  <2>1. PICK x \in Paths : TextIs(vault, x, t)
    BY <1>4, InTextsIn
  <2>2. TextIs(vault', IF x = Within(from) THEN Within(to) ELSE x, t)
    BY <1>1, <1>2, <1>3, <2>1, TypeInvParts, ShiftDirectory DEF EmptyDirectory
  <2>3. (IF x = Within(from) THEN Within(to) ELSE x) \in Paths
    BY <1>3, PathsAreRecords
  <2> QED BY <2>2, <2>3, InTextsIn
<1> QED BY <1>1, <1>4 DEF LosesNoText

LEMMA MovingText ==
  ASSUME TypeInv, TextInv, Owner, LinkTarget \/ MakeReservation \/ ShowReservation \/ MoveCompanion
  PROVE  TextInv'
<1>1. Moving
  BY DEF LinkTarget, MakeReservation, ShowReservation, MoveCompanion
<1>2. CASE Throws
  BY <1>2, ThrowsText
<1>3. CASE Goto(pc)
  <2>1. ~Bare(pc')
    BY <1>1, <1>3, NotBare DEF Moving, Goto, Publishing, Undoing
  <2>2. LosesNoText
    BY LinkTargetHolds, MakeReservationHolds, ShowReservationHolds, MoveCompanionHolds
  <2> QED BY <2>1, <2>2, ProcessText DEF LosesNoText
<1> QED BY <1>2, <1>3 DEF LinkTarget, MakeReservation, ShowReservation, MoveCompanion

LEMMA UnlinkSourceText ==
  ASSUME TypeInv, TextInv, WindowInv, window # "closed", Owner, UnlinkSource PROVE TextInv'
<1> DEFINE source == Note(From(Mover, Backward))
<1>1. CASE Throws
  BY <1>1, ThrowsText
<1>2. CASE vault' = PutAt(vault, source, None) /\ Goto(pc) /\ tx' = tx
  <2>1. Moving /\ source \in Paths /\ None \in Inode0
    BY MoverParts, PathsAreRecords, NoneIsNoInode DEF UnlinkSource
  <2>2. source \in Affected
    BY <2>1 DEF Affected, UnlinkSource, Moving
  <2>3. \A t \in owed : t \in TextsIn(vault) => t \in TextsIn(vault') \/ Saved(tx, t)
    BY <1>2, <2>1, <2>2, OverwrittenIsSaved
  <2>4. ~Bare(pc')
    BY <1>2, <2>1, NotBare DEF Moving, Goto, Publishing, Undoing
  <2> QED BY <1>2, <2>3, <2>4, ProcessText
<1> QED BY <1>1, <1>2 DEF UnlinkSource, RemoveAt

LEMMA StageBackText == ASSUME TypeInv, TextInv, Owner, StageBack PROVE TextInv'
<1>1. Resuming /\ man.done > 0 /\ Goto("intent")
  BY DEF StageBack, Ready
<1>2. PICK i \in Fresh(vault, Private) :
        tx' = [tx EXCEPT !.back = i] /\ vault' = Written(vault, i, Expected(Going))
  BY DEF StageBack
<1>3. Expected(Going) \in Texts
  BY <1>1, ResumingParts
<1>4. tx'.pre = tx.pre /\ ~Bare(pc')
  BY <1>1, <1>2, <1>3, RestoringParts, NotBare DEF Goto, Undoing
<1> QED BY <1>2, <1>3, <1>4, BesideText, ProcessText

LEMMA RestoreWriteText ==
  ASSUME TypeInv, TextInv, WindowInv, window # "closed", Owner, RestoreWrite PROVE TextInv'
<1>1. Resuming /\ man.rb # NoOperation /\ pc = "resume"
  BY DEF RestoreWrite, Restoring, Resuming
<1>2. CASE Throws
  BY <1>2, ThrowsText
<1>3. CASE /\ vault' = PutAt(vault, plan[Going].path, tx.back)
           /\ tx' = [tx EXCEPT !.back = None] /\ Goto("progress")
  <2>1. plan[Going].path \in Paths /\ plan[Going].path \in Affected
    BY <1>1, ResumingParts DEF Affected, Moving
  <2>2. tx.back \in Inode0 /\ tx'.pre = tx.pre /\ ~Bare(pc')
    BY <1>3, TypeInvParts, TransactionParts, NotBare DEF Transactions, Goto, Undoing
  <2>3. \A t \in owed : t \in TextsIn(vault) => t \in TextsIn(vault') \/ Saved(tx, t)
    BY <1>3, <2>1, <2>2, OverwrittenIsSaved
  <2> QED BY <2>2, <2>3, ProcessText
<1> QED BY <1>2, <1>3 DEF RestoreWrite

LEMMA RestoreCreateText ==
  ASSUME TypeInv, TextInv, WindowInv, window # "closed", Owner, RestoreCreate PROVE TextInv'
<1>1. Resuming /\ man.rb # NoOperation /\ pc = "resume"
  BY DEF RestoreCreate, Restoring, Resuming
<1>2. CASE Throws
  BY <1>2, ThrowsText
<1>3. CASE vault' = PutAt(vault, plan[Going].path, None) /\ tx' = tx /\ Goto("progress")
  <2>1. plan[Going].path \in Paths /\ plan[Going].path \in Affected /\ None \in Inode0
    BY <1>1, ResumingParts, NoneIsNoInode DEF Affected, Moving
  <2>2. ~Bare(pc')
    BY <1>3, NotBare DEF Goto, Undoing
  <2>3. \A t \in owed : t \in TextsIn(vault) => t \in TextsIn(vault') \/ Saved(tx, t)
    BY <1>3, <2>1, OverwrittenIsSaved
  <2> QED BY <1>3, <2>2, <2>3, ProcessText
<1> QED BY <1>2, <1>3 DEF RestoreCreate, RemoveAt

-----------------------------------------------------------------------------
(***************************************************************************)
(* The steps that change no name.                                          *)
(***************************************************************************)
\* Where the vault holds every text that is owed, the private files may change at will.
LEMMA BareText ==
  ASSUME TypeInv, TextInv, Owner, vault' = vault, Bare(pc)
  PROVE  TextInv'
<1>1. owed \subseteq TextsIn(vault)
  BY DEF TextInv, Bare
<1> QED BY <1>1, TextKept DEF Owner, TextInv

PreSame == vault' = vault /\ tx'.pre = tx.pre /\ ~Bare(pc')

\* A step that rewrites the manifest, drops a private file or changes nothing.
LEMMA PreParts ==
  ASSUME TypeInv, vault' = vault, ~Bare(pc'),
         \/ tx' = tx \/ (\E m : Persist(m)) \/ tx' = [tx EXCEPT !.staged = None]
         \/ tx' = [tx EXCEPT !.back = None] \/ tx' = [tx EXCEPT !.temp = TRUE]
  PROVE  PreSame
BY TypeInvParts DEF Transactions, Persist, PreSame

\* A step goes on, ends or fails.
LEMMA GoesOn ==
  /\ \A q : Goto(q) /\ q \in Publishing \union (Undoing \ {"clean"}) => ~Bare(pc')
  /\ \A q \in {"attention", "committed", "rolled-back", "nothing"} : End(q) => ~Bare(pc')
  /\ Caught => ~Bare(pc')
BY NotBare, CaughtNotBare, EndNotBare DEF Goto

LEMMA ApplyQuiet ==
  ASSUME TypeInv,
         StartPublishing \/ ReserveMember \/ ReadyMember \/ RefuseSwap \/ UnlinkStaged \/ CompleteMember
  PROVE  PreSame
<1>1. CASE StartPublishing
  BY <1>1, PreParts, GoesOn DEF StartPublishing, Publishing
<1>2. CASE ReserveMember
  <2>1. ~Bare(pc')
    BY <1>2, GoesOn DEF ReserveMember, Throws, Publishing
  <2> QED BY <1>2, <2>1, PreParts DEF ReserveMember, Throws
<1>3. CASE ReadyMember
  BY <1>3, PreParts, GoesOn DEF ReadyMember, Publishing
<1>4. CASE UnlinkStaged
  BY <1>4, PreParts, GoesOn DEF UnlinkStaged, Publishing
<1>5. CASE CompleteMember
  <2>1. ~Bare(pc')
    BY <1>5, GoesOn DEF CompleteMember, Publishing
  <2> QED BY <1>5, <2>1, PreParts DEF CompleteMember
<1>6. CASE RefuseSwap
  BY <1>6, PreParts, GoesOn DEF RefuseSwap, Throws
<1> QED BY <1>1, <1>2, <1>3, <1>4, <1>5, <1>6

LEMMA MoveQuiet ==
  ASSUME TypeInv, RecordStage \/ FinishMove \/ RefuseMove
  PROVE  PreSame
<1>1. Moving => pc \in Publishing \union (Undoing \ {"clean"})
  BY DEF Moving, Publishing, Undoing
<1>2. CASE RecordStage
  <2>1. ~Bare(pc')
    BY <1>1, <1>2, GoesOn DEF RecordStage
  <2> QED BY <1>2, <2>1, PreParts DEF RecordStage
<1>3. CASE FinishMove
  <2>1. ~Bare(pc')
    BY <1>3, GoesOn DEF FinishMove, Moving, Publishing, Undoing
  <2> QED BY <1>3, <2>1, PreParts DEF FinishMove
<1>4. CASE RefuseMove
  BY <1>4, PreParts, GoesOn DEF RefuseMove, Throws
<1> QED BY <1>2, <1>3, <1>4

LEMMA UndoQuiet ==
  ASSUME TypeInv,
         \/ StartUndo \/ DropStaged \/ RollBackRecorded \/ Promote \/ DropUncheckpointed
         \/ RecordBackIntent \/ FindRestored \/ RestoreMove \/ RecordProgress \/ RefuseResume
  PROVE  PreSame
<1>1. CASE StartUndo
  <2>1. ~Bare(pc')
    BY <1>1, GoesOn DEF StartUndo, Undoing
  <2> QED BY <1>1, <2>1, PreParts DEF StartUndo
<1>2. CASE DropStaged
  BY <1>2, PreParts, GoesOn DEF DropStaged, Undoing
<1>3. CASE RollBackRecorded
  BY <1>3, PreParts, GoesOn DEF RollBackRecorded, Undoing
<1>4. CASE Promote
  <2>1. ~Bare(pc')
    BY <1>4, GoesOn DEF Promote, Throws, Undoing
  <2> QED BY <1>4, <2>1, PreParts DEF Promote, Throws
<1>5. CASE DropUncheckpointed
  BY <1>5, PreParts, GoesOn DEF DropUncheckpointed, Undoing
<1>6. CASE RecordBackIntent
  <2>1. ~Bare(pc')
    BY <1>6, GoesOn DEF RecordBackIntent, Throws, Undoing
  <2> QED BY <1>6, <2>1, PreParts DEF RecordBackIntent, Throws
<1>7. CASE RestoreMove
  BY <1>7, PreParts, GoesOn DEF RestoreMove, Undoing
<1>8. CASE RecordProgress
  BY <1>8, PreParts, GoesOn DEF RecordProgress, Undoing
<1>9. CASE RefuseResume
  BY <1>9, PreParts, GoesOn DEF RefuseResume, Throws
<1>10. CASE FindRestored
  <2>1. vault' = vault /\ tx' = tx /\ (Goto("progress") \/ Throws)
    BY <1>10 DEF FindRestored, Throws
  <2>2. ~Bare(pc')
    BY <2>1, GoesOn DEF Throws, Undoing
  <2> QED BY <2>1, <2>2, PreParts
<1> QED BY <1>1, <1>2, <1>3, <1>4, <1>5, <1>6, <1>7, <1>8, <1>9, <1>10

LEMMA FaultQuiet ==
  ASSUME TypeInv,
         Recover \/ NoticeOwner \/ Fails \/ FailsAfterCommit \/ FailsToLock \/ Crash \/ CrashInPersist
  PROVE  PreSame
<1>1. CASE Recover
  <2>1. ~Bare(pc')
    BY <1>1, FindingIs, GoesOn, NotBare DEF Recover
  <2> QED BY <1>1, <2>1, PreParts DEF Recover
<1>2. CASE Fails
  BY <1>2, PreParts, GoesOn DEF Fails
<1>3. CASE FailsAfterCommit
  BY <1>3, PreParts, NotBare DEF FailsAfterCommit
<1>4. CASE FailsToLock
  BY <1>4, PreParts, NotBare DEF FailsToLock
<1>5. CASE Crash
  BY <1>5, PreParts, NotBare DEF Crash, Dies
<1>6. CASE CrashInPersist
  BY <1>6, PreParts, NotBare DEF CrashInPersist, Dies
<1>7. CASE NoticeOwner
  BY <1>7, PreParts, GoesOn DEF NoticeOwner, Throws
<1> QED BY <1>1, <1>2, <1>3, <1>4, <1>5, <1>6, <1>7

\* The rollback removes its files only when every note is back: the text of each preimage
\* is in the vault.
LEMMA CleanUpText == ASSUME TypeInv, TextInv, Owner, CleanUp PROVE TextInv'
<1>1. Resuming /\ SnapshotHolds /\ man.done = 0 /\ vault' = vault /\ tx' = tx
  BY DEF CleanUp, Ready
<1>2. RemainingPreconditions(1) /\ plan \in Plans
  BY <1>1, TypeInvParts DEF SnapshotHolds
<1>3. ASSUME NEW k \in NeedsPreimage PROVE Expected(k) \in TextsIn(vault)
  <2>1. k \in Members /\ k \in 1..Len(plan) /\ Kind(k) \in {"write", "move"}
    BY <1>2, PlanParts DEF NeedsPreimage, Members
  <2>2. plan[k].path \in Paths /\ BeforeMoves(k, plan[k].path) \in Paths
    BY <1>2, <2>1, PlanParts, ExpectedTyped
  <2>3. \E x \in Paths : TextIs(vault, x, Expected(k))
    BY <1>2, <2>1, <2>2 DEF RemainingPreconditions, PreimageSourceIs, Precondition
  <2> QED BY <2>3, InTextsIn
<1>4. owed \subseteq TextsIn(vault)
  BY <1>3 DEF TextInv, Saved
<1> QED BY <1>1, <1>4, TextKept DEF Owner, TextInv

\* A private file that is cut short is no preimage of a transaction that has a manifest.
LEMMA CutsArtifactText == ASSUME TypeInv, TextInv, Owner, CutsArtifact PROVE TextInv'
<1>1. ~Bare(pc')
  BY CaughtNotBare, NotBare DEF CutsArtifact, Dies
<1>2. CASE pc \in {"preimages", "manifest"} /\ vault' = vault
  BY <1>2, BareText DEF Bare, Preparing
<1>3. CASE \E i \in Fresh(vault, Private) :
             /\ tx' = [tx EXCEPT !.staged = i] \/ tx' = [tx EXCEPT !.back = i]
             /\ vault' = Written(vault, i, Torn)
  <2>1. tx'.pre = tx.pre
    BY <1>3, TypeInvParts DEF Transactions
  <2> QED BY <1>1, <1>3, <2>1, BesideText, ProcessText, TextsParts
<1> QED BY <1>2, <1>3 DEF CutsArtifact, CutPrivateFile

\* The owner removes what she removes; the process destroys nothing by that.
LEMMA OwnerText == ASSUME TypeInv, TextInv, OwnerActs PROVE TextInv'
<1>1. PICK typed \in {{}, {Mine(edits + 1)}} :
        /\ typed \subseteq TextsIn(vault')
        /\ owed' = ({t \in owed : t \in TextsIn(vault) => t \in TextsIn(vault')} \union typed)
                      \ Exposed(vault')
  BY OwnerParts
<1>2. plan' = plan /\ tx' = tx /\ pc' = pc
  BY OwnerParts
<1>3. \A k \in Members : New(k) \notin owed'
  BY <1>1, TextsDiffer DEF TextInv
<1>4. \A t \in owed' : t \in TextsIn(vault') \/ Saved(tx', t)
  BY <1>1, <1>2 DEF TextInv, Saved
<1>5. Bare(pc') => owed' \subseteq TextsIn(vault')
  BY <1>1, <1>2 DEF TextInv, Bare
<1> QED BY <1>2, <1>3, <1>4, <1>5, TextKept

-----------------------------------------------------------------------------
LEMMA StepText ==
  ASSUME TypeInv, TextInv, WindowInv, [Next]_vars
  PROVE  TextInv'
<1>1. CASE UNCHANGED vars
  BY <1>1, TextKept DEF vars, TextInv, Saved, Bare
<1>2. CASE PreSame /\ Owner
  BY <1>2, QuietText DEF PreSame
<1>3. CASE Apply /\ Owner
  <2>1. CASE Begin \/ MakeDirectory \/ SavePreimage \/ CreateManifest
    BY <1>3, <2>1, BareText DEF Begin, MakeDirectory, SavePreimage, CreateManifest, Bare, Preparing
  <2> QED BY <1>2, <1>3, <2>1, ApplyQuiet, StageMemberText, LinkMemberText DEF Apply
<1>4. CASE MoveStep /\ Owner
  BY <1>2, <1>4, MoveQuiet, MovingText DEF MoveStep
<1>5. CASE Undo /\ Owner
  <2>1. CASE RemoveArtifact
    BY <1>5, <2>1, BareText DEF RemoveArtifact, Bare
  <2> QED BY <1>2, <1>5, <2>1, UndoQuiet, StageBackText, CleanUpText DEF Undo
<1>6. CASE Call /\ window # "closed" /\ Owner
  BY <1>6, SwapMemberText, MovingText, UnlinkSourceText, RestoreWriteText, RestoreCreateText DEF Call
<1>7. CASE Misfortune
  BY <1>2, <1>7, FaultQuiet, CutsArtifactText DEF Misfortune
<1>8. CASE (Recover \/ NoticeOwner) /\ Owner
  BY <1>2, <1>8, FaultQuiet
<1>9. CASE LookLast
  <2>1. vault' = vault /\ tx' = tx /\ pc' = pc /\ Owner
    BY <1>9 DEF LookLast, Compare
  <2> QED BY <2>1, QuietText
<1>10. CASE OwnerClearsLock /\ Owner
  BY <1>10, QuietText DEF OwnerClearsLock
<1>11. CASE OwnerActs
  BY <1>11, OwnerText
<1> QED BY <1>1, <1>3, <1>4, <1>5, <1>6, <1>7, <1>8, <1>9, <1>10, <1>11 DEF Next, Process

-----------------------------------------------------------------------------
(***************************************************************************)
(* The window.                                                             *)
(***************************************************************************)
\* What a comparison has found, by the call that follows it.
LEMMA ComparedIs ==
  ASSUME Compared
  PROVE  /\ pc \in {"swap", "resume", "moving", "finish", "reverse"}
         /\ pc = "swap" => Kind(Coming) = "write" /\ PendingPrecondition(Coming)
         /\ pc = "resume" => Resuming /\ man.rb # NoOperation /\ AtNew
         /\ Moving /\ Operation.stage = "target-linked" => CurrentLayout = "old"
         /\ Moving /\ Operation.stage = "companion-reserved" => CurrentLayout = "private-reserved"
         /\ Moving /\ Operation.stage = "source-unlinked" =>
              CurrentLayout \in {"target-linked", "companion-moved"}
BY DEF Compared, Moving, Overwritable, Removable, Restoring, Resuming

\* Where the process and its files are the same, so is what it is about to change.
LEMMA SameWindow ==
  ASSUME plan' = plan, pc' = pc, tx' = tx
  PROVE  /\ Affected' = Affected /\ Moving' = Moving /\ Operation' = Operation
         /\ \A t : Saved(tx, t)' <=> Saved(tx, t)
         /\ \A v, path : OnlyAt(v, path)' = OnlyAt(v, path)
         /\ vault' = vault => (Compared' <=> Compared)
<1>1. man' = man /\ Coming' = Coming /\ Going' = Going /\ Backward' = Backward /\ Moving' = Moving
  BY DEF man, Coming, Going, Backward, Moving
<1>2. Mover' = Mover /\ Operation' = Operation /\ Members' = Members
  BY <1>1 DEF Mover, Operation, Members
<1>3. \A k, b : From(k, b)' = From(k, b) /\ To(k, b)' = To(k, b)
  BY DEF From, To
<1>4. \A k : Kind(k)' = Kind(k) /\ Expected(k)' = Expected(k)
  BY DEF Kind, Expected, BeforeMoves
<1>5. Affected' = Affected
  BY <1>1, <1>2, <1>3 DEF Affected
<1>6. \A t : Saved(tx, t)' <=> Saved(tx, t)
  BY <1>2, <1>4 DEF Saved, NeedsPreimage
<1>7. ASSUME vault' = vault PROVE Compared' <=> Compared
  <2>1. CurrentLayout' = CurrentLayout
    BY <1>1, <1>2, <1>3, <1>4, <1>7 DEF CurrentLayout, Layout
  <2>2. PendingPrecondition(Coming)' <=> PendingPrecondition(Coming)
    BY <1>1, <1>4, <1>7 DEF PendingPrecondition, Precondition
  <2>3. ArtifactsOK' <=> ArtifactsOK
    <3>1. NeedsPreimage' = NeedsPreimage
      BY <1>2, <1>4 DEF NeedsPreimage
    <3>2. \A k, r : Postcondition(k, r)' <=> Postcondition(k, r)
      BY <1>1, <1>2, <1>4, <1>7 DEF Postcondition, Moved
    <3>3. Uncheckpointed' <=> Uncheckpointed
      BY <1>1, <1>4 DEF Uncheckpointed
    <3> QED BY <1>1, <1>4, <1>7, <3>1, <3>2, <3>3 DEF ArtifactsOK, StagedOK, BackOK, ReservationOK
  <2>4. (Overwritable' <=> Overwritable) /\ (Removable' <=> Removable)
    BY <1>1, <1>4, <1>7, <2>3 DEF Overwritable, Removable, Restoring, Resuming, AtNew
  <2> QED BY <1>1, <1>2, <1>4, <2>1, <2>2, <2>4 DEF Compared
<1> QED BY <1>1, <1>2, <1>5, <1>6, <1>7 DEF OnlyAt

LEMMA InitWindow == ASSUME Init PROVE WindowInv
BY DEF Init, WindowInv

\* The text that a comparison has found is that of a preimage, or of the transaction.
LEMMA FoundIsSaved ==
  ASSUME TypeInv, TextInv, Compared, NEW path \in Affected, NEW t \in OnlyAt(vault, path), t \in owed
  PROVE  Saved(tx, t)
<1>1. FileAt(vault, path) # None /\ t \in TextsIn(vault) /\ t \notin TextsIn(RemoveAt(vault, path))
  BY DEF OnlyAt
<1>2. None \in Inode0
  BY NoneIsNoInode
<1>3. path \in Paths => TextIs(vault, path, t)
  BY <1>1, <1>2, TypeInvParts, PutAtKeeps DEF RemoveAt
<1>4. CASE pc = "swap"
  <2>1. path = plan[Coming].path /\ Kind(Coming) = "write" /\ Precondition(Coming)
    BY <1>4, ComparedIs DEF Affected, Moving, PendingPrecondition
  <2>2. Coming \in Members /\ path \in Paths /\ Whole(tx)
    BY <1>4, <2>1, TypeInvParts, MemberUnderWay DEF Phased, Forward, Preimages, Publishing
  <2>3. t = Expected(Coming)
    BY <1>3, <2>1, <2>2 DEF Precondition, TextIs
  <2> QED BY <2>1, <2>2, <2>3 DEF Saved, Whole, NeedsPreimage
<1>5. CASE pc = "resume"
  <2>1. Resuming /\ man.rb # NoOperation /\ path = plan[Going].path /\ TextIs(vault, path, New(Going))
    BY <1>5, ComparedIs DEF Affected, Moving, AtNew
  <2>2. path \in Paths /\ Going \in Members
    BY <2>1, ResumingParts
  <2>3. t = New(Going)
    BY <1>3, <2>1, <2>2 DEF TextIs
  <2> QED BY <2>2, <2>3 DEF TextInv
<1>6. CASE Moving
  <2>1. Operation.stage = "source-unlinked" /\ path = Note(From(Mover, Backward))
    BY <1>6 DEF Affected, Moving
  <2>2. TextIs(vault, path, Expected(Mover))
    BY <1>6, <2>1, ComparedIs, LayoutMeans DEF CurrentLayout
  <2>3. path \in Paths /\ Mover \in Members /\ Kind(Mover) = "move" /\ Whole(tx)
    BY <1>6, <2>1, MoverParts, PathsAreRecords
  <2>4. t = Expected(Mover)
    BY <1>3, <2>2, <2>3 DEF TextIs
  <2> QED BY <2>3, <2>4 DEF Saved, Whole, NeedsPreimage
<1> QED BY <1>4, <1>5, <1>6, ComparedIs DEF Moving

\* A process compares and calls, and the owner leaves exposed what she leaves exposed.
LEMMA StepWindow ==
  ASSUME TypeInv, TextInv, WindowInv, [Next]_vars
  PROVE  WindowInv'
<1>1. CASE window' = "closed"
  BY <1>1 DEF WindowInv
<1>2. CASE UNCHANGED vars
  <2>1. /\ plan' = plan /\ pc' = pc /\ tx' = tx /\ vault' = vault /\ window' = window
        /\ touched' = touched /\ owed' = owed
    BY <1>2 DEF vars
  <2> QED BY <2>1, SameWindow DEF WindowInv
<1>3. CASE LookLast
  <2>1. /\ plan' = plan /\ pc' = pc /\ tx' = tx /\ vault' = vault /\ window' = "open"
        /\ owed' = owed /\ Compared
    BY <1>3 DEF LookLast, Compare, Owner
  <2>2. Moving /\ Operation.stage = "companion-reserved" => tx.resv # None
    BY <2>1, ComparedIs, LayoutMeans DEF CurrentLayout
  <2> QED BY <2>1, <2>2, ComparedIs, FoundIsSaved, SameWindow DEF WindowInv
<1>4. CASE OwnerActs /\ window # "closed"
  <2>1. /\ plan' = plan /\ pc' = pc /\ tx' = tx /\ window' = "raced" /\ touched' # {}
    BY <1>4, OwnerParts DEF OwnerActs, OwnerDoes
  <2>2. ASSUME NEW path \in Affected, NEW t \in OnlyAt(vault', path), t \in owed' PROVE Saved(tx, t)
    <3>1. t \notin Exposed(vault')
      BY <1>4, <2>2, OwnerParts
    <3>2. t \in OnlyAt(vault, path) /\ t \in owed
      BY <1>4, <2>2, <3>1 DEF Exposed
    <3> QED BY <1>4, <2>2, <3>2 DEF WindowInv
  <2> QED BY <1>4, <2>1, <2>2, SameWindow DEF WindowInv
<1>5. CASE (Recover \/ OwnerClearsLock) /\ UNCHANGED window
  <2>1. pc \notin {"swap", "resume", "moving", "finish", "reverse"}
    BY <1>5 DEF Recover, OwnerClearsLock, Resting, Running, Publishing, Undoing
  <2>2. window = "closed"
    BY <2>1 DEF WindowInv
  <2> QED BY <1>1, <1>5, <2>2
<1>6. CASE OwnerActs /\ window = "closed"
  BY <1>1, <1>6, OwnerParts
<1> QED BY <1>1, <1>2, <1>3, <1>4, <1>5, <1>6 DEF Next, Process, Misfortune

\* No text the owner wrote is destroyed, wherever applying, recovering or rolling back fails
\* or dies, and whatever she edits meanwhile, but one she exposed to a call whose comparison
\* was over. A preimage is removed only when every note is back at its name, and what a write
\* or a move takes away is saved or still there.
THEOREM NoTextIsDestroyed == Spec => []EveryTextKept
<1>1. Init => TypeInv /\ TextInv /\ WindowInv
  BY InitTyped, InitWindow
<1>2. TypeInv /\ TextInv /\ WindowInv /\ [Next]_vars => (TypeInv /\ TextInv /\ WindowInv)'
  BY StepTyped, StepText, StepWindow
<1>3. TextInv => EveryTextKept
  BY DEF TextInv, Saved, EveryTextKept
<1> QED BY <1>1, <1>2, <1>3, PTL DEF Spec

-----------------------------------------------------------------------------
(***************************************************************************)
(* Every change of a name is announced by the manifest on the disk.        *)
(***************************************************************************)
Logged ==
  /\ Renamed(Pages, vault.file, vault'.file)
  /\ Renamed(Pages, vault.dir, vault'.dir)
  /\ Renamed({vault.dir[p] : p \in Pages} \ {None}, vault.child, vault'.child)

\* What an intent names.
LEMMA IntendedIs ==
  /\ None \in Intended
  /\ \A op \in {man.pend, man.rb} : {op.pre, op.post, op.comp, op.resv} \subseteq Intended
<1>1. ASSUME NEW op \in {man.pend, man.rb}, NEW field \in {"pre", "post", "comp", "resv"}
      PROVE  op[field] \in Intended
  BY <1>1 DEF Intended
<1>2. None \in Intended
  BY DEF Intended
<1> QED BY <1>1, <1>2

\* A step that changes no name of the vault, but a text or a private directory.
LEMMA NamesSame ==
  ASSUME TypeInv, vault'.file = vault.file, vault'.dir = vault.dir,
         \A d \in Held(vault) : vault'.child[d] = vault.child[d]
  PROVE  Logged
BY TypeInvParts, HeldByNames DEF Logged, Renamed

LEMMA WrittenLogged ==
  ASSUME TypeInv, NEW i \in Fresh(vault, Private), NEW t \in Texts, vault' = Written(vault, i, t)
  PROVE  Logged
<1>1. i \in Inodes
  BY FreshHere
<1>2. vault'.file = vault.file /\ vault'.dir = vault.dir /\ vault'.child = vault.child
  BY <1>1, TypeInvParts, WrittenParts
<1> QED BY <1>2, NamesSame

\* A file is put at a path, from and to an inode that is announced.
LEMMA PutLogged ==
  ASSUME TypeInv, NEW x \in Paths, NEW i \in Inode0, vault' = PutAt(vault, x, i),
         i \in Intended, FileAt(vault, x) \in Intended
  PROVE  Logged
<1>1. CASE ~x.inside
  <2>1. /\ vault'.dir = vault.dir /\ vault'.child = vault.child /\ vault'.file[x.page] = i
        /\ \A p \in Pages : p # x.page => vault'.file[p] = vault.file[p]
    BY <1>1, TypeInvParts, PutNoteParts
  <2> QED BY <1>1, <2>1 DEF Logged, Renamed, FileAt
<1>2. CASE x.inside
  <2>1. /\ vault'.dir = vault.dir /\ vault'.file = vault.file
        /\ vault.dir[x.page] # None => vault'.child[vault.dir[x.page]] = i
        /\ \A d \in Inodes : d # vault.dir[x.page] => vault'.child[d] = vault.child[d]
    BY <1>2, TypeInvParts, PutWithinParts
  <2>2. {vault.dir[p] : p \in Pages} \ {None} \subseteq Inodes
    BY TypeInvParts, VaultParts, NoneIsNoInode
  <2>3. ASSUME NEW d \in {vault.dir[p] : p \in Pages} \ {None}, vault'.child[d] # vault.child[d]
        PROVE  vault'.child[d] = i /\ vault.child[d] = FileAt(vault, x)
    BY <1>2, <2>1, <2>2, <2>3 DEF FileAt
  <2> QED BY <2>1, <2>3 DEF Logged, Renamed
<1> QED BY <1>1, <1>2

\* A file goes to the name of a member, or from it, by the intent of the member.
LEMMA MemberLogged ==
  ASSUME TypeInv, pc = "swap", Kind(Coming) \in {"write", "create"}, PendingPrecondition(Coming),
         vault' = PutAt(vault, plan[Coming].path, tx.staged)
  PROVE  Logged
<1>1. man.pend.post = tx.staged /\ man.phase = "publishing"
  BY TypeInvParts DEF Phased, Forward, Publishing
<1>2. /\ plan[Coming].path \in Paths /\ tx.staged \in Inode0
  BY <1>1, TypeInvParts, TransactionParts, MemberUnderWay
<1>3. FileAt(vault, plan[Coming].path) \in {None, man.pend.pre}
  BY <1>2 DEF PendingPrecondition, Precondition, AbsentAt
<1> QED BY <1>1, <1>2, <1>3, IntendedIs, PutLogged

LEMMA SwapMemberLogged == ASSUME TypeInv, Compared, SwapMember PROVE Logged
<1>1. CASE vault' = vault
  BY <1>1, NamesSame
<1>2. CASE vault' = PutAt(vault, plan[Coming].path, tx.staged)
  BY <1>2, ComparedIs, MemberLogged DEF SwapMember
<1> QED BY <1>1, <1>2 DEF SwapMember, Throws

LEMMA LinkMemberLogged == ASSUME TypeInv, LinkMember PROVE Logged
<1>1. CASE vault' = vault
  BY <1>1, NamesSame
<1>2. CASE PendingPrecondition(Coming) /\ vault' = PutAt(vault, plan[Coming].path, tx.staged)
  BY <1>2, MemberLogged DEF LinkMember
<1> QED BY <1>1, <1>2 DEF LinkMember, Throws

\* The ends of a move and the inodes its intent names.
LEMMA MoveIntended ==
  ASSUME TypeInv, Moving
  PROVE  LET from == From(Mover, Backward)
             to == To(Mover, Backward)
         IN /\ from \in Pages /\ to \in Pages /\ from # to /\ Operation \in Operations
            /\ Note(from) \in Paths /\ Note(to) \in Paths
            /\ FileAt(vault, Note(from)) = vault.file[from] /\ FileAt(vault, Note(to)) = vault.file[to]
            /\ {Operation.pre, Operation.post, Operation.comp, Operation.resv, None} \subseteq Intended
<1>1. {Operation.pre, Operation.post, Operation.comp, Operation.resv, None} \subseteq Intended
  BY IntendedIs DEF Operation
<1> QED BY <1>1, MoverParts, PathsAreRecords DEF FileAt

LEMMA MakeReservationLogged == ASSUME TypeInv, MakeReservation PROVE Logged
<1>1. PICK d \in Fresh(vault, Private) : vault' = Emptied(vault, d)
  BY DEF MakeReservation
<1>2. d \in Inodes /\ d \notin Held(vault)
  BY FreshHere
<1>3. /\ vault'.file = vault.file /\ vault'.dir = vault.dir
      /\ \A e \in Inodes : e # d => vault'.child[e] = vault.child[e]
  BY <1>1, <1>2, TypeInvParts, EmptiedParts
<1>4. {vault.dir[p] : p \in Pages} \ {None} \subseteq Inodes \ {d}
  BY <1>2, TypeInvParts, VaultParts, NoneIsNoInode, HeldByNames
<1> QED BY <1>3, <1>4 DEF Logged, Renamed

LEMMA MoveCompanionLogged == ASSUME TypeInv, MoveCompanion PROVE Logged
<1> DEFINE from == From(Mover, Backward)
           to == To(Mover, Backward)
<1>1. Moving /\ CurrentLayout = "companion-reserved" /\ vault' = MoveDirectory(vault, from, to)
  BY DEF MoveCompanion
<1>2. /\ from \in Pages /\ to \in Pages /\ from # to
      /\ {Operation.comp, Operation.resv, None} \subseteq Intended
  BY <1>1, MoveIntended
<1>3. /\ vault.dir[from] = Operation.comp /\ vault.dir[to] = Operation.resv
      /\ EmptyDirectory(vault, Operation.resv)
  BY <1>1, LayoutMeans DEF CurrentLayout
<1>4. /\ vault'.file = vault.file /\ vault'.child = vault.child
      /\ vault'.dir[from] = None /\ vault'.dir[to] = vault.dir[from]
      /\ \A p \in Pages : p \notin {from, to} => vault'.dir[p] = vault.dir[p]
  BY <1>1, <1>2, <1>3, TypeInvParts, ShiftDirectory DEF EmptyDirectory
<1> QED BY <1>2, <1>3, <1>4 DEF Logged, Renamed

LEMMA MoveLogged == ASSUME TypeInv, MoveStep PROVE Logged
<1>1. CASE vault' = vault
  BY <1>1, NamesSame
<1> QED BY <1>1, MakeReservationLogged, MoveCompanionLogged
        DEF MoveStep, RecordStage, FinishMove, RefuseMove, Throws

LEMMA LinkTargetLogged == ASSUME TypeInv, Compared, LinkTarget PROVE Logged
<1> DEFINE from == From(Mover, Backward)
           to == To(Mover, Backward)
<1>1. CASE vault' = vault
  BY <1>1, NamesSame
<1>2. CASE vault' = PutAt(vault, Note(to), FileAt(vault, Note(from)))
  <2>1. Moving /\ CurrentLayout = "old"
    BY ComparedIs DEF LinkTarget
  <2>2. vault.file[from] = Operation.pre /\ vault.file[to] = None
    BY <2>1, LayoutMeans DEF CurrentLayout
  <2>3. Operation.pre \in Inode0
    BY <2>1, MoveIntended, OperationParts
  <2> QED BY <1>2, <2>1, <2>2, <2>3, MoveIntended, PutLogged
<1> QED BY <1>1, <1>2 DEF LinkTarget, Throws

LEMMA ShowReservationLogged == ASSUME TypeInv, Compared, ShowReservation PROVE Logged
<1> DEFINE to == To(Mover, Backward)
<1>1. CASE vault' = vault
  BY <1>1, NamesSame
<1>2. CASE vault' = PutDirectory(vault, to, tx.resv)
  <2>1. Moving /\ CurrentLayout = "private-reserved" /\ Operation.stage = "companion-reserved"
    BY ComparedIs DEF ShowReservation
  <2>2. vault.dir[to] = None /\ tx.resv = Operation.resv
    BY <2>1, LayoutMeans DEF CurrentLayout, NoDirectory
  <2>3. to \in Pages /\ {Operation.resv, None} \subseteq Intended
    BY <2>1, MoveIntended
  <2>4. /\ vault'.file = vault.file /\ vault'.child = vault.child /\ vault'.dir[to] = tx.resv
        /\ \A p \in Pages : p # to => vault'.dir[p] = vault.dir[p]
    BY <1>2, <2>3, TypeInvParts, VaultParts DEF PutDirectory, Vaults
  <2> QED BY <2>2, <2>3, <2>4 DEF Logged, Renamed
<1> QED BY <1>1, <1>2 DEF ShowReservation, Throws

LEMMA UnlinkSourceLogged == ASSUME TypeInv, Compared, UnlinkSource PROVE Logged
<1> DEFINE from == From(Mover, Backward)
<1>1. CASE vault' = vault
  BY <1>1, NamesSame
<1>2. CASE vault' = PutAt(vault, Note(from), None)
  <2>1. Moving /\ CurrentLayout \in {"target-linked", "companion-moved"}
    BY ComparedIs DEF UnlinkSource
  <2>2. vault.file[from] = Operation.pre
    BY <2>1, LayoutMeans DEF CurrentLayout
  <2> QED BY <1>2, <2>1, <2>2, MoveIntended, NoneIsNoInode, PutLogged
<1> QED BY <1>1, <1>2 DEF UnlinkSource, RemoveAt, Throws

LEMMA RestoreLogged == ASSUME TypeInv, Compared, RestoreWrite \/ RestoreCreate PROVE Logged
<1>1. CASE vault' = vault
  BY <1>1, NamesSame
<1>2. pc = "resume" /\ Resuming /\ man.rb # NoOperation
  BY DEF RestoreWrite, RestoreCreate, Restoring, Resuming
<1>3. plan[Going].path \in Paths /\ FileAt(vault, plan[Going].path) = man.rb.pre
  BY <1>2, ResumingParts, ComparedIs DEF AtNew
<1>4. CASE RestoreWrite /\ vault' = PutAt(vault, plan[Going].path, tx.back)
  <2>1. Kind(Going) = "write"
    BY <1>4 DEF RestoreWrite, Restoring
  <2>2. tx.back # None
    BY <1>2, <2>1 DEF Compared, Moving, Overwritable, Removable, Restoring
  <2>3. tx.back \in Inode0 /\ tx.back = man.rb.post
    BY <1>2, <2>2, TypeInvParts, TransactionParts DEF Resuming, ArtifactsOK, BackOK, Uncheckpointed
  <2> QED BY <1>3, <1>4, <2>3, IntendedIs, PutLogged
<1>5. CASE vault' = PutAt(vault, plan[Going].path, None)
  BY <1>3, <1>5, NoneIsNoInode, IntendedIs, PutLogged
<1> QED BY <1>1, <1>4, <1>5 DEF RestoreWrite, RestoreCreate, RemoveAt, Throws

\* A step that writes a private file.
LEMMA BesideLogged == ASSUME TypeInv, StageMember \/ StageBack \/ CutsArtifact PROVE Logged
<1>1. CASE vault' = vault
  BY <1>1, NamesSame
<1>2. CASE StageMember
  <2>1. pc = "stage" /\ New(Coming) \in Texts
    BY <1>2, TypeInvParts, MemberUnderWay DEF StageMember, Phased, Publishing
  <2> QED BY <1>1, <1>2, <2>1, WrittenLogged DEF StageMember, Throws
<1>3. CASE StageBack
  <2>1. Expected(Going) \in Texts
    BY <1>3, ResumingParts DEF StageBack, Ready
  <2> QED BY <1>3, <2>1, WrittenLogged DEF StageBack
<1>4. CASE CutsArtifact
  BY <1>1, <1>4, WrittenLogged, TextsParts DEF CutsArtifact, CutPrivateFile
<1> QED BY <1>2, <1>3, <1>4

LEMMA StepLogged == ASSUME TypeInv, WindowInv, Next, edits' = edits, window # "raced" PROVE Logged
<1>1. CASE vault' = vault
  BY <1>1, NamesSame
<1>2. CASE PreSame
  BY <1>1, <1>2 DEF PreSame
<1>3. CASE Apply
  BY <1>1, <1>2, <1>3, ApplyQuiet, BesideLogged, LinkMemberLogged
     DEF Apply, Begin, MakeDirectory, SavePreimage, CreateManifest
<1>4. CASE MoveStep
  BY <1>4, MoveLogged
<1>5. CASE Undo
  BY <1>1, <1>2, <1>5, UndoQuiet, BesideLogged DEF Undo, CleanUp, RemoveArtifact
<1>6. CASE Misfortune \/ Recover \/ NoticeOwner \/ OwnerClearsLock
  BY <1>1, <1>2, <1>6, FaultQuiet, BesideLogged DEF Misfortune, OwnerClearsLock
<1>7. CASE Call /\ window # "closed"
  <2>1. Compared
    BY <1>7 DEF TypeInv, WindowInv
  <2> QED BY <1>7, <2>1, SwapMemberLogged, LinkTargetLogged, ShowReservationLogged,
             UnlinkSourceLogged, RestoreLogged DEF Call
<1>8. CASE LookLast
  BY <1>1, <1>8 DEF LookLast, Compare
<1>9. ~OwnerActs
  <2>1. edits \in Nat
    BY TransactionAssumption DEF TypeInv
  <2> QED BY <2>1, OwnerParts
<1> QED BY <1>3, <1>4, <1>5, <1>6, <1>7, <1>8, <1>9 DEF Next, Process

\* Write-ahead: whatever the process changes in the vault, the manifest on the disk has named
\* both files of, so a recovery can tell how far it got. The exception is a call that comes
\* after the owner has acted in its window.
THEOREM IntentsComeFirst == Spec => ChangesAreLogged
<1> DEFINE Step == edits' = edits /\ window # "raced" =>
                     /\ Renamed(Pages, vault.file, vault'.file)
                     /\ Renamed(Pages, vault.dir, vault'.dir)
                     /\ Renamed({vault.dir[p] : p \in Pages} \ {None}, vault.child, vault'.child)
<1>1. Init => TypeInv /\ TextInv /\ WindowInv
  BY InitTyped, InitWindow
<1>2. TypeInv /\ TextInv /\ WindowInv /\ [Next]_vars => (TypeInv /\ TextInv /\ WindowInv)'
  BY StepTyped, StepText, StepWindow
<1>3. TypeInv /\ WindowInv /\ [Next]_vars => [Step]_vars
  <2> SUFFICES ASSUME TypeInv, WindowInv, Next PROVE Step
    OBVIOUS
  <2> QED BY StepLogged DEF Logged
<1> QED BY <1>1, <1>2, <1>3, PTL DEF Spec, ChangesAreLogged

-----------------------------------------------------------------------------
(***************************************************************************)
(* Where every text is.                                                    *)
(***************************************************************************)
Moves == {j \in Members : Kind(j) = "move"}
Source(j) == plan[j].path.page
Target(j) == plan[j].to

\* A member is completed or under way; a move may have taken something along; the text of
\* a member may be in the vault.
Engaged(m, j) == j <= m.done \/ (j = m.done + 1 /\ m.pend # NoOperation)

Taken(q, m, j) ==
  Engaged(m, j) /\ ~(q = "progress" /\ j = m.done) /\ ~(q = "drop" /\ j = m.done + 1)

Shown(q, m, k) ==
  /\ Kind(k) # "move"
  /\ \/ k <= m.done /\ ~(q = "progress" /\ k = m.done)
     \/ k = m.done + 1 /\ m.pend.stage = "ready" /\ q # "drop"

\* The text that was at x at first (s = 0), or that member s put there.
Tracked(x, s) == s = 0 \/ (s \in Members /\ x = plan[s].path)

TextOf(x, s) == IF s = 0 THEN Old(x) ELSE New(s)

\* Move j takes from x to y what was there when it came.
Leads(j, x, s, y) ==
  j \in Moves /\ j > s /\ Source(j) = x.page /\ Target(j) = y.page /\ y.inside = x.inside

\* Such a text is where it was, or where one move took it. What is in a companion that a
\* move brought came with it or later.
Reached(q, m, x, s, y) ==
  /\ y = x \/ \E j \in Moves : Taken(q, m, j) /\ Leads(j, x, s, y)
  /\ y.inside =>
       \A j \in Moves : Engaged(m, j) /\ Target(j) = y.page =>
         s > j \/ \E i \in Moves : i >= j /\ Taken(q, m, i) /\ Leads(i, x, s, y)
  /\ s = 0 \/ Shown(q, m, s)

Placed(q, v, m) ==
  \A x, y \in Paths, s \in 0..Len(plan) :
    Tracked(x, s) /\ TextIs(v, y, TextOf(x, s)) => Reached(q, m, x, s, y)

\* The companions are different directories, the private one is empty, and the staged file
\* holds the text of the member.
Tidy(q, v, t) ==
  /\ CompanionsApart(v)
  /\ t.resv # None => v.child[t.resv] = None
  /\ q \in {"ready", "swap"} => v.text[t.staged] = New(t.man.done + 1) /\ t.staged \notin Held(v)

\* A transaction begins only if every move has a note to take and a free page to go to.
Begun(q, m) == q \in Preparing \/ m.phase \in Phases

Sensible ==
  /\ \A i, j \in Moves : Source(i) # Target(j)
  /\ \A j \in Moves, k \in Members : Kind(k) = "create" => plan[k].path # plan[j].path

InPlace(q, v, t) == Placed(q, v, t.man) /\ Tidy(q, v, t) /\ (Begun(q, t.man) => Sensible)

WhereInv == InPlace(pc, vault, tx)

\* The note that is about to be linked has the text the move expects, or one of the owner's.
LinkedInv ==
  window # "closed" /\ Moving /\ Operation.stage = "target-linked" =>
    \A t : TextIs(vault, Note(From(Mover, Backward)), t) => t = Expected(Mover) \/ \E n \in Nat : t = Mine(n)

\* The page has no note and no companion with a note.
Blank(v, p) == \A y \in Paths : y.page = p => FileAt(v, y) = None

-----------------------------------------------------------------------------
(***************************************************************************)
(* The texts of the members.                                               *)
(***************************************************************************)
LEMMA TextsAreOne ==
  /\ \A x, y : x \in Paths /\ y \in Paths /\ Old(x) = Old(y) => x = y
  /\ \A k, n : New(k) = New(n) => k = n
  /\ \A x, k : Old(x) # New(k)
<1>1. ASSUME NEW x \in Paths, NEW y \in Paths, Old(x) = Old(y) PROVE x = y
  <2>1. x.page = y.page /\ x.inside = y.inside
    BY <1>1 DEF Old
  <2> QED BY <2>1, PathsAreRecords
<1>2. ASSUME NEW k, NEW n, New(k) = New(n) PROVE k = n
  BY <1>2 DEF New
<1>3. \A x, k : Old(x) # New(k)
  BY DEF Old, New
<1> QED BY <1>1, <1>2, <1>3

\* A text is tracked as one thing only.
LEMMA TrackedOnce ==
  ASSUME plan \in Plans, NEW x \in Paths, NEW s \in 0..Len(plan), Tracked(x, s)
  PROVE  /\ \A y \in Paths : TextOf(x, s) = Old(y) => s = 0 /\ x = y
         /\ \A k \in Members : TextOf(x, s) = New(k) => s = k /\ x = plan[k].path
         /\ s # 0 => s \in Members /\ x = plan[s].path /\ TextOf(x, s) = New(s)
         /\ s = 0 => TextOf(x, s) = Old(x)
<1>1. \A k \in Members : k # 0
  BY PlanParts
<1>2. ASSUME NEW k \in Members, TextOf(x, s) = New(k) PROVE s = k /\ x = plan[k].path
  <2>1. s # 0
    BY <1>2, TextsAreOne DEF TextOf
  <2>2. New(s) = New(k)
    BY <1>2, <2>1 DEF TextOf
  <2>3. s = k
    BY <2>2, TextsAreOne
  <2> QED BY <2>1, <2>3 DEF Tracked
<1>3. ASSUME NEW y \in Paths, TextOf(x, s) = Old(y) PROVE s = 0 /\ x = y
  BY <1>3, TextsAreOne DEF TextOf
<1> QED BY <1>1, <1>2, <1>3 DEF Tracked, TextOf

\* What is replaced is read where it is named, or where the last move that brings it there
\* takes it from.
LEMMA BeforeMovesIs ==
  ASSUME plan \in Plans, NEW k \in Members, NEW x \in Paths
  PROVE  \/ BeforeMoves(k, x) = x /\ \A j \in Moves : j < k => Target(j) # x.page
         \/ \E j \in Moves : /\ j < k /\ Target(j) = x.page
                             /\ \A i \in Moves : i < k /\ Target(i) = x.page => i <= j
                             /\ BeforeMoves(k, x) \in Paths
                             /\ BeforeMoves(k, x).page = Source(j)
                             /\ BeforeMoves(k, x).inside = x.inside
<1> DEFINE moves == {j \in 1..(k - 1) : Kind(j) = "move" /\ plan[j].to = x.page}
<1>1. k \in Nat /\ moves \subseteq Nat /\ k \in 1..Len(plan) /\ Len(plan) \in Nat
  BY PlanParts DEF Members
<1>2. \A j : j \in moves <=> j \in Moves /\ j < k /\ Target(j) = x.page
  BY <1>1 DEF Moves, Target, Members
<1>3. CASE moves = {}
  BY <1>2, <1>3 DEF BeforeMoves
<1>4. CASE moves # {}
  <2>1. \E j \in moves : \A i \in moves : i <= j
    <3>1. PICK S : S = {n \in Nat : n <= k /\ k - n \in moves}
      OBVIOUS
    <3>2. S \subseteq Nat /\ S # {}
      <4>1. PICK j \in moves : TRUE
        BY <1>4
      <4>2. k - j \in Nat /\ k - j <= k /\ k - (k - j) = j
        BY <1>1, <4>1
      <4> QED BY <3>1, <4>1, <4>2
    <3>3. PICK n \in S : \A i \in S : n <= i
      BY <3>2, LeastExists
    <3>4. k - n \in moves
      BY <3>1, <3>3
    <3>5. ASSUME NEW i \in moves PROVE i <= k - n
      <4>1. k - i \in Nat /\ k - i <= k /\ k - (k - i) = i
        BY <1>1, <3>5
      <4>2. k - i \in S
        BY <3>1, <4>1
      <4> QED BY <1>1, <3>1, <3>3, <3>5, <4>1, <4>2
    <3> QED BY <3>4, <3>5
  <2>2. PICK j \in moves : j = (CHOOSE n \in moves : \A i \in moves : i <= n) /\ \A i \in moves : i <= j
    BY <2>1
  <2>3. BeforeMoves(k, x) = [x EXCEPT !.page = plan[j].path.page]
    BY <1>4, <2>2 DEF BeforeMoves
  <2>4. plan[j].path.page \in Pages
    BY <1>2, PlanParts DEF Moves
  <2> HIDE DEF moves
  <2>5. BeforeMoves(k, x) \in Paths /\ BeforeMoves(k, x).page = Source(j) /\ BeforeMoves(k, x).inside = x.inside
    BY <2>3, <2>4 DEF Paths, Source
  <2> QED BY <1>2, <2>2, <2>5
<1> QED BY <1>3, <1>4

\* A move expects the text that its own source had at first.
LEMMA MoveExpects ==
  ASSUME plan \in Plans, Sensible, NEW j \in Moves
  PROVE  /\ j \in Members /\ j \in Nat /\ j > 0
         /\ plan[j].path = Note(Source(j)) /\ Note(Source(j)) \in Paths /\ Note(Target(j)) \in Paths
         /\ Source(j) \in Pages /\ Target(j) \in Pages /\ Source(j) # Target(j)
         /\ Expected(j) = Old(Note(Source(j)))
<1>1. /\ j \in Members /\ j \in Nat /\ j > 0 /\ plan[j].path \in Paths
      /\ plan[j].path = Note(Source(j)) /\ Source(j) \in Pages /\ Target(j) \in Pages /\ Source(j) # Target(j)
  BY PlanParts DEF Moves, Source, Target
<1>2. Note(Source(j)).page = Source(j) /\ Note(Source(j)) \in Paths /\ Note(Target(j)) \in Paths
  BY <1>1, PathsAreRecords
<1>3. \A i \in Moves : Target(i) # plan[j].path.page
  BY DEF Sensible, Source
<1>4. BeforeMoves(j, plan[j].path) = plan[j].path
  BY <1>1, <1>3, BeforeMovesIs
<1> QED BY <1>1, <1>2, <1>4 DEF Expected

-----------------------------------------------------------------------------
(***************************************************************************)
(* What a step has to establish.                                           *)
(***************************************************************************)
\* The texts that are tracked stay where they may be: the step adds none at a wrong place,
\* and what it takes out of account is nowhere.
Accounted(q, v, m, q1, v1, m1) ==
  /\ \A x, y \in Paths, s \in 0..Len(plan) :
       Tracked(x, s) /\ TextIs(v1, y, TextOf(x, s)) =>
         TextIs(v, y, TextOf(x, s)) \/ Reached(q1, m1, x, s, y)
  /\ \A j \in Members :
       /\ Kind(j) = "move" /\ Taken(q, m, j) => Taken(q1, m1, j) \/ Blank(v1, Target(j))
       /\ Kind(j) = "move" /\ Engaged(m1, j) => Engaged(m, j) \/ Blank(v1, Target(j))
       /\ Kind(j) # "move" /\ Shown(q, m, j) => Shown(q1, m1, j) \/ New(j) \notin TextsIn(v1)

LEMMA AccountedPlaced ==
  ASSUME NEW q, NEW v, NEW m, NEW q1, NEW v1, NEW m1, plan \in Plans,
         Placed(q, v, m), Accounted(q, v, m, q1, v1, m1)
  PROVE  Placed(q1, v1, m1)
<1> SUFFICES ASSUME NEW x \in Paths, NEW y \in Paths, NEW s \in 0..Len(plan),
                    Tracked(x, s), TextIs(v1, y, TextOf(x, s)), TextIs(v, y, TextOf(x, s))
             PROVE  Reached(q1, m1, x, s, y)
  BY DEF Placed, Accounted
<1>1. Reached(q, m, x, s, y)
  BY DEF Placed
<1>2. \A p : Blank(v1, p) => y.page # p
  BY DEF Blank, TextIs
<1>3. \A j \in Moves : Leads(j, x, s, y) /\ Taken(q, m, j) => Taken(q1, m1, j)
  BY <1>2 DEF Accounted, Moves, Leads
<1>4. \A j \in Moves : Target(j) = y.page /\ Engaged(m1, j) => Engaged(m, j)
  BY <1>2 DEF Accounted, Moves
<1>5. s = 0 \/ Shown(q1, m1, s)
  <2>1. CASE s # 0
    <3>1. Shown(q, m, s) /\ s \in Members /\ Kind(s) # "move" /\ TextOf(x, s) = New(s)
      BY <1>1, <2>1 DEF Reached, Tracked, TextOf, Shown
    <3>2. New(s) \in TextsIn(v1)
      BY <3>1, InTextsIn
    <3> QED BY <3>1, <3>2 DEF Accounted
  <2> QED BY <2>1
<1>6. y = x \/ \E j \in Moves : Taken(q1, m1, j) /\ Leads(j, x, s, y)
  BY <1>1, <1>3 DEF Reached
<1>7. y.inside =>
       \A j \in Moves : Engaged(m1, j) /\ Target(j) = y.page =>
         s > j \/ \E i \in Moves : i >= j /\ Taken(q1, m1, i) /\ Leads(i, x, s, y)
  BY <1>1, <1>3, <1>4 DEF Reached
<1> QED BY <1>5, <1>6, <1>7 DEF Reached

\* The plan is the same later, and so is what depends on it alone.
LEMMA SamePlaces ==
  ASSUME plan' = plan, NEW q, NEW v, NEW t
  PROVE  InPlace(q, v, t)' <=> InPlace(q, v, t)
<1>1. Members' = Members /\ Moves' = Moves
  BY DEF Members, Moves, Kind
<1>2. \A j : Kind(j)' = Kind(j) /\ Source(j)' = Source(j) /\ Target(j)' = Target(j)
  BY DEF Kind, Source, Target
<1>3. /\ \A j, x, s, y : Leads(j, x, s, y)' <=> Leads(j, x, s, y)
      /\ \A x, s : (Tracked(x, s)' <=> Tracked(x, s)) /\ TextOf(x, s)' = TextOf(x, s)
      /\ \A m, j : /\ Taken(q, m, j)' <=> Taken(q, m, j)
                   /\ Shown(q, m, j)' <=> Shown(q, m, j)
                   /\ Engaged(m, j)' <=> Engaged(m, j)
  BY <1>1, <1>2 DEF Leads, Tracked, TextOf, Taken, Shown, Engaged
<1>4. \A m, x, s, y : Reached(q, m, x, s, y)' <=> Reached(q, m, x, s, y)
  BY <1>1, <1>2, <1>3 DEF Reached
<1>5. Placed(q, v, t.man)' <=> Placed(q, v, t.man)
  BY <1>3, <1>4 DEF Placed
<1>6. Sensible' <=> Sensible
  BY <1>1, <1>2 DEF Sensible
<1>7. (Tidy(q, v, t)' <=> Tidy(q, v, t)) /\ (Begun(q, t.man)' <=> Begun(q, t.man))
  BY DEF Tidy, Begun
<1> QED BY <1>5, <1>6, <1>7 DEF InPlace

LEMMA WhereParts ==
  ASSUME TypeInv, WhereInv
  PROVE  /\ Placed(pc, vault, man) /\ Tidy(pc, vault, tx) /\ CompanionsApart(vault)
         /\ Begun(pc, man) => Sensible
         /\ man.phase \in Phases => Sensible
BY TypeInvParts DEF WhereInv, InPlace, Tidy, Begun

\* A step that leaves the vault alone.
LEMMA StillInPlace ==
  ASSUME TypeInv, WhereInv, vault' = vault, tx'.resv \in {tx.resv, None},
         \A j \in Members :
           /\ Kind(j) = "move" /\ Taken(pc, man, j) => Taken(pc', tx'.man, j) \/ Blank(vault, Target(j))
           /\ Kind(j) = "move" /\ Engaged(tx'.man, j) => Engaged(man, j) \/ Blank(vault, Target(j))
           /\ Kind(j) # "move" /\ Shown(pc, man, j) => Shown(pc', tx'.man, j) \/ New(j) \notin TextsIn(vault),
         Begun(pc', tx'.man) => Begun(pc, man) \/ Sensible,
         pc' \in {"ready", "swap"} =>
           pc \in {"ready", "swap"} /\ tx'.staged = tx.staged /\ tx'.man.done = man.done
  PROVE  InPlace(pc', vault', tx')
<1>1. Accounted(pc, vault, man, pc', vault', tx'.man)
  BY DEF Accounted
<1>2. Placed(pc', vault', tx'.man)
  BY <1>1, TypeInvParts, WhereParts, AccountedPlaced
<1>3. Tidy(pc', vault', tx')
  BY TypeInvParts, WhereParts DEF Tidy
<1> QED BY <1>2, <1>3, WhereParts DEF InPlace

\* A step that rewrites no manifest either.
Quietly ==
  /\ vault' = vault /\ tx'.man = man /\ tx'.resv \in {tx.resv, None}
  /\ pc' \in {"progress", "drop"} => pc' = pc
  /\ pc' \in {"ready", "swap"} => pc' = pc /\ tx'.staged = tx.staged
  /\ pc' \in Preparing => pc \in Preparing

LEMMA QuietInPlace ==
  ASSUME TypeInv, WhereInv, Quietly
  PROVE  InPlace(pc', vault', tx')
<1>1. ASSUME NEW j \in Members
      PROVE  /\ Taken(pc, man, j) => Taken(pc', man, j)
             /\ Shown(pc, man, j) => Shown(pc', man, j)
  BY DEF Taken, Shown, Quietly
<1> QED BY <1>1, StillInPlace DEF Quietly, Begun

LEMMA QuietSteps ==
  ASSUME TypeInv,
         \/ MakeDirectory \/ SavePreimage \/ UnlinkStaged
         \/ RestoreMove \/ DropStaged \/ DropUncheckpointed \/ CleanUp
         \/ Throws \/ (RemoveArtifact /\ tx'.man = man /\ pc' = "clean") \/ Recover \/ OwnerClearsLock
         \/ Fails \/ FailsToLock \/ Crash \/ CrashInPersist \/ Compare
  PROVE  Quietly
<1>1. tx \in Transactions /\ man = tx.man
  BY TypeInvParts
<1>2. CASE MakeDirectory
  BY <1>1, <1>2 DEF MakeDirectory, Goto, Quietly, Preparing, Transactions
<1>3. CASE SavePreimage
  BY <1>1, <1>3 DEF SavePreimage, Goto, Quietly, Preparing, Transactions
<1>4. CASE UnlinkStaged
  BY <1>1, <1>4 DEF UnlinkStaged, Goto, Quietly, Preparing, Transactions
<1>5. CASE RestoreMove
  BY <1>1, <1>5 DEF RestoreMove, Goto, Quietly, Preparing
<1>6. CASE DropStaged
  BY <1>1, <1>6 DEF DropStaged, Goto, Quietly, Preparing, Transactions
<1>7. CASE DropUncheckpointed
  BY <1>1, <1>7 DEF DropUncheckpointed, Goto, Quietly, Preparing, Transactions
<1>8. CASE CleanUp
  BY <1>1, <1>8 DEF CleanUp, Goto, Quietly, Preparing
<1>9. CASE Throws
  BY <1>1, <1>9 DEF Throws, Caught, Quietly, Preparing
<1>10. CASE RemoveArtifact /\ tx'.man = man /\ pc' = "clean"
  <2>1. tx'.resv \in {tx.resv, None}
    BY <1>1, <1>10 DEF RemoveArtifact, Persist, NoTransaction, Transactions
  <2> QED BY <1>10, <2>1 DEF RemoveArtifact, Quietly, Preparing
<1>11. CASE Recover
  BY <1>1, <1>11, FindingIs DEF Recover, End, Quietly, Preparing
<1>12. CASE OwnerClearsLock
  BY <1>1, <1>12 DEF OwnerClearsLock, Quietly
<1>13. CASE Fails
  BY <1>1, <1>13 DEF Fails, Caught, Quietly, Preparing
<1>14. CASE FailsToLock
  BY <1>1, <1>14 DEF FailsToLock, Quietly, Preparing
<1>15. CASE Crash
  BY <1>1, <1>15 DEF Crash, Dies, Quietly, Preparing
<1>16. CASE CrashInPersist
  BY <1>1, <1>16 DEF CrashInPersist, Dies, Quietly, Preparing, Transactions
<1>17. CASE Compare
  BY <1>1, <1>17 DEF Compare, Quietly
<1> QED BY <1>2, <1>3, <1>4, <1>5, <1>6, <1>7, <1>8, <1>9, <1>10, <1>11, <1>12, <1>13, <1>14, <1>15, <1>16,
           <1>17

\* A step that rewrites the manifest.
LEMMA PersistInPlace ==
  ASSUME TypeInv, WhereInv, vault' = vault, NEW m, Persist(m),
         \A j \in Members :
           /\ Kind(j) = "move" /\ Taken(pc, man, j) => Taken(pc', m, j) \/ Blank(vault, Target(j))
           /\ Kind(j) = "move" /\ Engaged(m, j) => Engaged(man, j) \/ Blank(vault, Target(j))
           /\ Kind(j) # "move" /\ Shown(pc, man, j) => Shown(pc', m, j) \/ New(j) \notin TextsIn(vault),
         m.phase \in Phases => man.phase \in Phases \/ pc \in Preparing,
         pc' \notin Preparing, pc' \in {"ready", "swap"} => pc \in {"ready", "swap"} /\ m.done = man.done
  PROVE  InPlace(pc', vault', tx')
<1>1. tx'.man = m /\ tx'.resv = tx.resv /\ tx'.staged = tx.staged
  BY TypeInvParts DEF Persist, Transactions
<1> QED BY <1>1, StillInPlace DEF Begun

\* The same members are under way.
LEMMA SameMembers ==
  ASSUME NEW m, m.done = man.done, m.pend = NoOperation <=> man.pend = NoOperation,
         man.pend.stage = "ready" => m.pend.stage = "ready",
         pc' \in {"progress", "drop"} => pc' = pc
  PROVE  \A j \in Members : /\ Taken(pc, man, j) => Taken(pc', m, j)
                            /\ Engaged(m, j) => Engaged(man, j)
                            /\ Shown(pc, man, j) => Shown(pc', m, j)
BY DEF Taken, Engaged, Shown

\* The ends of a move.
LEMMA LayoutEnds ==
  ASSUME NEW k, NEW back, NEW op
  PROVE  /\ Layout(k, back, op) = "old" =>
              vault.file[To(k, back)] = None /\ vault.dir[To(k, back)] = None
         /\ Layout(k, back, op) = "published" =>
              vault.file[From(k, back)] = None /\ vault.dir[From(k, back)] = None
         /\ Layout(k, back, op) # "none"
<1> DEFINE from == From(k, back)
           to == To(k, back)
           source == TextIs(vault, Note(from), Expected(k)) /\ vault.file[from] = op.pre
           target == TextIs(vault, Note(to), Expected(k)) /\ vault.file[to] = op.post
           linked == source /\ target
           stays == vault.dir[from] = op.comp
           unnamed == NoDirectory(vault, to)
           private == tx.resv # None
           ours == private /\ (tx.resv = op.resv \/ (op.stage = "companion-reserve" /\ op.resv = None))
           shown == op.resv # None /\ vault.dir[to] = op.resv /\ EmptyDirectory(vault, op.resv)
           arrived == NoDirectory(vault, from) /\ vault.dir[to] = op.comp
           old == source /\ vault.file[to] = None /\ stays /\ unnamed /\ ~private
           tl == linked /\ stays /\ unnamed /\ ~private
           pr == linked /\ stays /\ unnamed /\ op.comp # None /\ ours
           cr == linked /\ stays /\ shown /\ ~private
           cm == linked /\ arrived /\ op.comp # None /\ ~private
           pb == vault.file[from] = None /\ target /\ arrived /\ ~private
<1>1. Layout(k, back, op) =
        CASE old -> "old" [] tl -> "target-linked" [] pr -> "private-reserved"
          [] cr -> "companion-reserved" [] cm -> "companion-moved" [] pb -> "published"
          [] OTHER -> "unknown"
  BY DEF Layout
<1> HIDE DEF old, tl, pr, cr, cm, pb
<1>2. /\ Layout(k, back, op) = "old" => old
      /\ Layout(k, back, op) = "published" => pb
      /\ Layout(k, back, op) # "none"
  BY <1>1
<1> USE DEF old, pb
<1> QED BY <1>2 DEF NoDirectory

\* A page that holds neither note nor companion is blank.
LEMMA BlankIs ==
  ASSUME NEW p, vault.file[p] = None, vault.dir[p] = None
  PROVE  Blank(vault, p)
BY DEF Blank, FileAt

\* A write or a creation puts its text at its own path only, while no later move has come.
LEMMA OwnPlace ==
  ASSUME TypeInv, WhereInv, NEW k \in Members, Kind(k) # "move",
         man.done = k \/ (man.done + 1 = k), man.done = k => man.pend = NoOperation,
         NEW y \in Paths, TextIs(vault, y, New(k))
  PROVE  y = plan[k].path
<1>1. k \in 0..Len(plan) /\ plan[k].path \in Paths /\ k # 0 /\ k \in Nat
  BY TypeInvParts, PlanParts DEF Members
<1>2. Tracked(plan[k].path, k) /\ TextOf(plan[k].path, k) = New(k)
  BY <1>1 DEF Tracked, TextOf
<1>3. Reached(pc, man, plan[k].path, k, y)
  BY <1>1, <1>2, WhereParts DEF Placed
<1>4. \A j \in Moves : j \in Nat /\ (Engaged(man, j) => j <= k)
  BY <1>1, TypeInvParts, PlanParts DEF Engaged, Moves
<1> QED BY <1>1, <1>3, <1>4 DEF Reached, Taken, Leads

LEMMA StartPublishingInPlace == ASSUME TypeInv, WhereInv, StartPublishing PROVE InPlace(pc', vault', tx')
<1> DEFINE m == [man EXCEPT !.phase = "publishing"]
<1>1. m.done = man.done /\ m.pend = man.pend /\ man.phase \in Phases
  BY TypeInvParts DEF Manifests, StartPublishing, Phased, Phases
<1>2. Persist(m) /\ vault' = vault /\ pc' = "member"
  BY DEF StartPublishing, Goto
<1> HIDE DEF m
<1> QED BY <1>1, <1>2, SameMembers, PersistInPlace DEF Preparing

LEMMA FirstManifestInPlace ==
  ASSUME TypeInv, WhereInv, vault' = vault, pc \in {"manifest"}, Persist(Prepared) \/ Persist(TornManifest),
         pc' \notin Preparing \union {"progress", "drop", "ready", "swap"}
  PROVE  InPlace(pc', vault', tx')
<1>1. PICK m \in {Prepared, TornManifest} : Persist(m)
  OBVIOUS
<1>2. man = NoManifest
  BY TypeInvParts DEF Phased, Preparing
<1>3. m.done = man.done /\ m.pend = man.pend
  BY <1>2 DEF NoManifest, TornManifest, Prepared
<1> QED BY <1>1, <1>3, SameMembers, PersistInPlace DEF Preparing

LEMMA ReserveMemberInPlace == ASSUME TypeInv, WhereInv, ReserveMember PROVE InPlace(pc', vault', tx')
<1>1. CASE Throws
  BY <1>1, QuietSteps, QuietInPlace
<1>2. CASE Precondition(Coming) /\ ~Throws
  <2> DEFINE k == Coming
             at == FileAt(vault, plan[k].path)
             intent == IF Kind(k) = "move"
                       THEN [stage |-> "pre-link", pre |-> at, post |-> at,
                             comp |-> vault.dir[plan[k].path.page], resv |-> None]
                       ELSE [NoOperation EXCEPT !.stage = "reserved", !.pre = at]
  <2>1. PICK op : op = intent
    OBVIOUS
  <2>2. op # NoOperation /\ op.stage # "none"
    BY <2>1 DEF NoOperation
  <2> DEFINE m == [man EXCEPT !.pend = op]
  <2>3. Persist(m) /\ vault' = vault /\ pc' \in {"moving", "stage"} /\ pc = "member"
    BY <1>2, <2>1 DEF ReserveMember, Goto
  <2>4. man.pend = NoOperation /\ man.phase = "publishing"
    BY <2>3, TypeInvParts DEF Forward, Phased, Publishing
  <2>5. m.done = man.done /\ m.pend = op /\ m.phase = man.phase
    BY TypeInvParts DEF Manifests
  <2>6. Kind(Coming) = "move" => Blank(vault, Target(Coming))
    <3>1. SUFFICES ASSUME Kind(Coming) = "move" PROVE Blank(vault, Target(Coming))
      OBVIOUS
    <3>2. AbsentAt(vault, Note(plan[Coming].to)) /\ NoDirectory(vault, plan[Coming].to)
      BY <1>2, <3>1 DEF Precondition
    <3>3. Target(Coming) \in Pages
      BY <2>4, TypeInvParts, MemberUnderWay, PlanParts DEF Target
    <3>4. vault.file[Target(Coming)] = None /\ vault.dir[Target(Coming)] = None
      BY <3>2, <3>3, PathsAreRecords DEF AbsentAt, FileAt, NoDirectory, Target
    <3> QED BY <3>4, BlankIs
  <2> HIDE DEF m, k, at, intent
  <2>7. man.done \in Nat /\ Coming = man.done + 1
    BY TypeInvParts, PlanParts
  <2>8. ASSUME NEW j \in Members
        PROVE  /\ Taken(pc, man, j) => Taken(pc', m, j)
               /\ Engaged(m, j) => Engaged(man, j) \/ j = Coming
               /\ Shown(pc, man, j) => Shown(pc', m, j)
    BY <2>3, <2>4, <2>5, <2>7, OperationParts DEF Taken, Engaged, Shown
  <2> QED BY <2>3, <2>4, <2>5, <2>6, <2>8, PersistInPlace DEF Preparing, Phases
<1> QED BY <1>1, <1>2 DEF ReserveMember

LEMMA ReadyMemberInPlace == ASSUME TypeInv, WhereInv, ReadyMember PROVE InPlace(pc', vault', tx')
<1>1. PICK op : op = [man.pend EXCEPT !.stage = "ready", !.post = tx.staged]
  OBVIOUS
<1> DEFINE m == [man EXCEPT !.pend = op]
<1>2. /\ man.phase = "publishing" /\ man.pend # NoOperation /\ man.pend \in Operations /\ pc = "ready"
      /\ vault' = vault /\ pc' = "swap"
  BY TypeInvParts, ManifestParts DEF ReadyMember, Goto, Phased, Forward, Publishing
<1>3. op.stage = "ready" /\ op # NoOperation
  BY <1>1, <1>2, OperationParts DEF Operations
<1>4. m = [man EXCEPT !.pend.stage = "ready", !.pend.post = tx.staged]
  BY <1>1, TypeInvParts DEF Manifests, Operations
<1>5. Persist(m)
  BY <1>4 DEF ReadyMember
<1>6. m.done = man.done /\ m.pend = op /\ m.phase = man.phase
  BY TypeInvParts DEF Manifests
<1> HIDE DEF m
<1> QED BY <1>2, <1>3, <1>5, <1>6, SameMembers, PersistInPlace DEF Preparing, Phases

\* A member that is completed stays where it is.
LEMMA CompletionInPlace ==
  ASSUME TypeInv, WhereInv, vault' = vault, NEW m, Persist(m), pc \in {"complete", "promote"},
         m.done = man.done + 1, m.pend = NoOperation,
         pc' \notin Preparing \union {"progress", "drop", "ready", "swap"}
  PROVE  InPlace(pc', vault', tx')
<1>1. man.pend # NoOperation /\ man.phase = "publishing"
  BY TypeInvParts DEF Forward, Phased, Publishing
<1>2. man.done \in Nat /\ \A j \in Members : j \in Nat
  BY TypeInvParts, PlanParts
<1>3. ASSUME NEW j \in Members
      PROVE  /\ Taken(pc, man, j) => Taken(pc', m, j)
             /\ Engaged(m, j) => Engaged(man, j)
             /\ Shown(pc, man, j) => Shown(pc', m, j)
  BY <1>1, <1>2 DEF Taken, Engaged, Shown
<1> QED BY <1>1, <1>3, PersistInPlace DEF Preparing, Phases

LEMMA CompleteInPlace ==
  ASSUME TypeInv, WhereInv, CompleteMember \/ Promote \/ FailsAfterCommit
  PROVE  InPlace(pc', vault', tx')
<1>1. CASE Throws
  BY <1>1, QuietSteps, QuietInPlace
<1>2. /\ WithCompletion.done = man.done + 1 /\ WithCompletion.pend = NoOperation
      /\ WithRollingBack(WithCompletion).done = man.done + 1
      /\ WithRollingBack(WithCompletion).pend = NoOperation
  BY TypeInvParts DEF WithCompletion, WithRollingBack, Manifests
<1>3. CASE CompleteMember
  <2>1. Persist(WithCompletion) /\ vault' = vault /\ pc = "complete" /\ pc' \in {"committed", "member", "attention"}
    BY <1>3 DEF CompleteMember, End, Goto
  <2> QED BY <1>2, <2>1, CompletionInPlace DEF Preparing
<1>4. CASE Promote /\ ~Throws
  <2>1. /\ Persist(WithRollingBack(WithCompletion)) /\ vault' = vault /\ pc = "promote" /\ pc' = "resume"
    BY <1>4 DEF Promote, Goto
  <2> QED BY <1>2, <2>1, CompletionInPlace DEF Preparing
<1>5. CASE FailsAfterCommit
  <2>1. Persist(WithCompletion) /\ vault' = vault /\ pc = "complete" /\ pc' = "undo"
    BY <1>5 DEF FailsAfterCommit
  <2> QED BY <1>2, <2>1, CompletionInPlace DEF Preparing
<1> QED BY <1>1, <1>3, <1>4, <1>5

LEMMA RecordStageInPlace == ASSUME TypeInv, WhereInv, RecordStage PROVE InPlace(pc', vault', tx')
<1>1. Moving /\ pc' = pc /\ vault' = vault
  BY DEF RecordStage, Goto
<1>2. PICK stage \in NextStage :
        \E r : Persist(WithOperation([Operation EXCEPT !.stage = stage, !.resv = r]))
  BY DEF RecordStage
<1>3. PICK r, op : op = [Operation EXCEPT !.stage = stage, !.resv = r] /\ Persist(WithOperation(op))
  BY <1>2
<1>4. op.stage = stage /\ Operation \in Operations
  BY <1>1, <1>3, MoverParts DEF Operations
<1>5. stage \in Stages
  BY NextStageIs DEF Stages
<1>6. op # NoOperation
  BY <1>4, <1>5, OperationParts DEF Stages
<1>7. PICK m : m = WithOperation(op) /\ Persist(m)
  BY <1>3
<1>8. CASE Backward
  <2>1. m.done = man.done /\ m.pend = man.pend /\ man.phase \in Phases
    BY <1>1, <1>7, <1>8, TypeInvParts, MoverParts DEF WithOperation, Manifests, Phases
  <2> QED BY <1>1, <1>7, <2>1, SameMembers, PersistInPlace DEF Moving, Preparing
<1>9. CASE ~Backward
  <2>1. m.done = man.done /\ m.pend = op /\ man.phase \in Phases
    BY <1>1, <1>7, <1>9, TypeInvParts, MoverParts DEF WithOperation, Manifests, Phases
  <2>2. man.pend = Operation /\ OperationFacts(Operation) /\ Operation # NoOperation
    BY <1>1, <1>9, MoverParts
  <2>3. man.pend.stage # "ready"
    BY <2>2 DEF OperationFacts, Stages
  <2> QED BY <1>1, <1>6, <1>7, <2>1, <2>2, <2>3, SameMembers, PersistInPlace DEF Moving, Preparing
<1> QED BY <1>8, <1>9

LEMMA RollBackRecordedInPlace == ASSUME TypeInv, WhereInv, RollBackRecorded PROVE InPlace(pc', vault', tx')
<1> DEFINE m == WithRollingBack(man)
<1>1. Persist(m) /\ pc = "drop" /\ pc' = "resume" /\ vault' = vault
  BY DEF RollBackRecorded, Goto
<1>2. m.done = man.done /\ m.pend = NoOperation /\ man.phase \in Phases
  BY <1>1, TypeInvParts DEF WithRollingBack, Manifests, Phased, Phases
<1> HIDE DEF m
<1>3. man.done \in Nat /\ \A j \in Members : j \in Nat
  BY TypeInvParts, PlanParts
<1>4. ASSUME NEW j \in Members
      PROVE  /\ Taken(pc, man, j) => Taken(pc', m, j)
             /\ Engaged(m, j) => Engaged(man, j)
             /\ Shown(pc, man, j) => Shown(pc', m, j)
  BY <1>1, <1>2, <1>3 DEF Taken, Engaged, Shown
<1> QED BY <1>1, <1>2, <1>4, PersistInPlace DEF Preparing

LEMMA RecordBackIntentInPlace == ASSUME TypeInv, WhereInv, RecordBackIntent PROVE InPlace(pc', vault', tx')
<1>1. CASE Throws
  BY <1>1, QuietSteps, QuietInPlace
<1>2. CASE ~Throws
  <2> DEFINE m == [man EXCEPT !.rb = BackIntent]
  <2>1. Persist(m) /\ vault' = vault /\ pc' = "resume" /\ pc \in {"intent", "resume"}
    BY <1>2 DEF RecordBackIntent, Goto, Ready, Resuming
  <2>2. m.done = man.done /\ m.pend = man.pend /\ man.phase \in Phases
    BY <2>1, TypeInvParts DEF Manifests, Phased, Phases
  <2> HIDE DEF m
  <2> QED BY <2>1, <2>2, SameMembers, PersistInPlace DEF Preparing
<1> QED BY <1>1, <1>2

LEMMA RecordProgressInPlace == ASSUME TypeInv, WhereInv, RecordProgress PROVE InPlace(pc', vault', tx')
<1>1. pc = "progress" /\ pc' = "resume" /\ vault' = vault /\ Persist(WithProgress)
  BY DEF RecordProgress, Goto
<1>2. man.phase = "rolling-back" /\ man.pend = NoOperation /\ man.rb # NoOperation /\ man.done > 0
  BY <1>1, TypeInvParts DEF Phased, Back, ManifestFacts
<1>3. PICK m : m = WithProgress
  OBVIOUS
<1>4. m.done = man.done - 1 /\ m.pend = NoOperation /\ man.phase \in Phases
  BY <1>2, <1>3, TypeInvParts DEF WithProgress, Manifests, Phases
<1>5. man.done \in Nat /\ \A j \in Members : j \in Nat
  BY TypeInvParts, PlanParts
<1>6. ASSUME NEW j \in Members
      PROVE  /\ Taken(pc, man, j) => Taken(pc', m, j)
             /\ Engaged(m, j) => Engaged(man, j)
             /\ Shown(pc, man, j) => Shown(pc', m, j)
  BY <1>1, <1>2, <1>4, <1>5, OperationParts DEF Taken, Engaged, Shown
<1> QED BY <1>1, <1>3, <1>4, <1>6, PersistInPlace DEF Preparing

-----------------------------------------------------------------------------
(***************************************************************************)
(* The steps that change the vault.                                        *)
(***************************************************************************)
\* A step that keeps the manifest, and the members of which are the same.
LEMMA ChangeInPlace ==
  ASSUME TypeInv, WhereInv, tx'.man = man, Tidy(pc', vault', tx'),
         pc' \in {"progress", "drop"} => pc' = pc, pc' \in Preparing => pc \in Preparing,
         \A x, y \in Paths, s \in 0..Len(plan) :
           Tracked(x, s) /\ TextIs(vault', y, TextOf(x, s)) =>
             TextIs(vault, y, TextOf(x, s)) \/ Reached(pc', man, x, s, y)
  PROVE  InPlace(pc', vault', tx')
<1>1. ASSUME NEW j \in Members
      PROVE  /\ Taken(pc, man, j) => Taken(pc', man, j)
             /\ Shown(pc, man, j) => Shown(pc', man, j)
  BY DEF Taken, Shown
<1>2. Accounted(pc, vault, man, pc', vault', tx'.man)
  BY <1>1 DEF Accounted
<1>3. Placed(pc', vault', tx'.man)
  BY <1>2, TypeInvParts, WhereParts, AccountedPlaced
<1> QED BY <1>3, WhereParts DEF InPlace, Begun

\* Putting a file at a path leaves the private directory empty.
LEMMA PutLeavesReservation ==
  ASSUME TypeInv, NEW x \in Paths, NEW i \in Inode0, tx.resv # None, ParentExists(vault, x)
  PROVE  PutAt(vault, x, i).child[tx.resv] = vault.child[tx.resv]
<1>1. tx.resv \in Inodes /\ tx.resv \notin Held(vault)
  BY TypeInvParts, TransactionParts, NoneIsNoInode DEF Aside
<1>2. CASE ~x.inside
  BY <1>2, TypeInvParts, PutNoteParts
<1>3. CASE x.inside
  <2>1. vault.dir[x.page] # None /\ x.page \in Pages
    BY <1>3, PathsAreRecords DEF ParentExists
  <2>2. vault.dir[x.page] # tx.resv
    BY <1>1, <2>1, TypeInvParts, HeldByNames
  <2> QED BY <1>1, <1>3, <2>2, TypeInvParts, PutWithinParts
<1> QED BY <1>2, <1>3

LEMMA LinkTargetInPlace ==
  ASSUME TypeInv, WhereInv, LinkedInv, window # "closed", LinkTarget
  PROVE  InPlace(pc', vault', tx')
<1> DEFINE from == From(Mover, Backward)
           to == To(Mover, Backward)
           i == FileAt(vault, Note(from))
<1>1. CASE Throws
  BY <1>1, QuietSteps, QuietInPlace
<1>2. CASE ~Throws
  <2>1. /\ Moving /\ Operation.stage = "target-linked" /\ pc' = pc /\ tx' = tx
        /\ i # None /\ vault' = PutAt(vault, Note(to), i)
    BY <1>2 DEF LinkTarget, Goto
  <2>2. /\ Mover \in Moves /\ man.phase \in Phases /\ Note(to) \in Paths /\ Note(from) \in Paths
        /\ ParentExists(vault, Note(to))
    BY <2>1, MoverParts, PathsAreRecords DEF Moves, Phases, ParentExists
  <2>3. Sensible /\ plan \in Plans /\ i \in Inode0
    BY <2>2, WhereParts, TypeInvParts, FileAtTyped
  <2>4. TextIs(vault, Note(from), vault.text[i])
    BY <2>1 DEF TextIs
  <2>5. vault.text[i] = Old(Note(Source(Mover))) \/ \E n \in Nat : vault.text[i] = Mine(n)
    BY <2>1, <2>2, <2>3, <2>4, MoveExpects DEF LinkedInv
  <2>6. /\ CompanionsApart(vault')
        /\ \A y \in Paths : \A t : TextIs(vault', y, t) =>
             TextIs(vault, y, t) \/ (y = Note(to) /\ t = vault.text[i])
    BY <2>1, <2>2, <2>3, TypeInvParts, WhereParts, PutAtTexts
  <2>7. Tidy(pc', vault', tx')
    <3>1. tx.resv # None => vault'.child[tx.resv] = None
      BY <2>1, <2>2, <2>3, PutLeavesReservation, WhereParts DEF Tidy
    <3> QED BY <2>1, <2>6, <3>1 DEF Tidy, Moving
  <2>8. Reached(pc', man, Note(Source(Mover)), 0, Note(to))
    <3>1. /\ Note(Source(Mover)).page = Source(Mover) /\ ~Note(Source(Mover)).inside
          /\ Note(to).page = to /\ ~Note(to).inside /\ Mover > 0
      BY <2>1, <2>2, <2>3, MoverParts, MoveExpects, PathsAreRecords
    <3>2. CASE Backward
      BY <3>1, <3>2 DEF Reached, To, Source
    <3>3. CASE ~Backward
      <4>1. Mover = man.done + 1 /\ man.pend # NoOperation /\ pc \in {"moving", "finish"}
        BY <2>1, <3>3, MoverParts, TypeInvParts DEF Mover
      <4>2. Taken(pc', man, Mover)
        BY <2>1, <4>1, TypeInvParts DEF Taken, Engaged
      <4>3. to = Target(Mover)
        BY <3>3 DEF To, Target
      <4>4. Leads(Mover, Note(Source(Mover)), 0, Note(to))
        <5>1. Note(to).inside = FALSE /\ Note(Source(Mover)).inside = FALSE
          BY DEF Note
        <5> HIDE DEF to
        <5> QED BY <2>2, <3>1, <4>3, <5>1 DEF Leads
      <4> QED BY <2>2, <3>1, <4>2, <4>4 DEF Reached
    <3> QED BY <3>2, <3>3
  <2>9. ASSUME NEW x \in Paths, NEW y \in Paths, NEW s \in 0..Len(plan), Tracked(x, s),
               TextIs(vault', y, TextOf(x, s))
        PROVE  TextIs(vault, y, TextOf(x, s)) \/ Reached(pc', man, x, s, y)
    <3>1. CASE y = Note(to) /\ TextOf(x, s) = Old(Note(Source(Mover)))
      <4>1. x = Note(Source(Mover)) /\ s = 0
        BY <2>2, <2>3, <2>9, <3>1, TrackedOnce, MoveExpects
      <4> QED BY <2>8, <3>1, <4>1
    <3>2. \A n : TextOf(x, s) # Mine(n)
      BY DEF TextOf, Old, New, Mine
    <3> QED BY <2>5, <2>6, <2>9, <3>1, <3>2
  <2> QED BY <2>1, <2>7, <2>9, TypeInvParts, ChangeInPlace DEF Moving, Preparing
<1> QED BY <1>1, <1>2

LEMMA NothingNewInPlace ==
  ASSUME TypeInv, WhereInv, tx'.man = man, Tidy(pc', vault', tx'), NothingNew(vault, vault'),
         pc' \in {"progress", "drop"} => pc' = pc, pc' \in Preparing => pc \in Preparing
  PROVE  InPlace(pc', vault', tx')
BY ChangeInPlace DEF NothingNew

LEMMA UnlinkSourceInPlace == ASSUME TypeInv, WhereInv, UnlinkSource PROVE InPlace(pc', vault', tx')
<1> DEFINE source == Note(From(Mover, Backward))
<1>1. CASE Throws
  BY <1>1, QuietSteps, QuietInPlace
<1>2. CASE ~Throws
  <2>1. Moving /\ pc' = pc /\ tx' = tx /\ vault' = RemoveAt(vault, source)
    BY <1>2 DEF UnlinkSource, Goto
  <2>2. source \in Paths /\ ParentExists(vault, source) /\ None \in Inode0
    BY <2>1, MoverParts, PathsAreRecords, NoneIsNoInode DEF ParentExists
  <2>3. CompanionsApart(vault') /\ NothingNew(vault, vault')
    BY <2>1, <2>2, TypeInvParts, WhereParts, RemovedTexts
  <2>4. tx.resv # None => vault'.child[tx.resv] = None
    BY <2>1, <2>2, PutLeavesReservation, WhereParts DEF Tidy, RemoveAt
  <2>5. Tidy(pc', vault', tx')
    BY <2>1, <2>3, <2>4 DEF Tidy, Moving
  <2> QED BY <2>1, <2>3, <2>5, TypeInvParts, NothingNewInPlace DEF Moving, Preparing
<1> QED BY <1>1, <1>2

LEMMA MakeReservationInPlace == ASSUME TypeInv, WhereInv, MakeReservation PROVE InPlace(pc', vault', tx')
<1>1. Moving /\ pc' = pc
  BY DEF MakeReservation, Goto
<1>2. PICK d \in Fresh(vault, Private) : tx' = [tx EXCEPT !.resv = d] /\ vault' = Emptied(vault, d)
  BY DEF MakeReservation
<1>3. d \in Inodes /\ d \notin Held(vault)
  BY FreshHere
<1>4. tx'.man = man /\ tx'.resv = d
  BY <1>2, TypeInvParts DEF Transactions
<1>5. /\ vault'.dir = vault.dir /\ vault'.text = vault.text
      /\ \A x \in Paths : FileAt(vault', x) = FileAt(vault, x)
  BY <1>2, <1>3, TypeInvParts, EmptiedParts
<1>6. vault'.child[d] = None
  BY <1>2, <1>3, TypeInvParts, VaultParts DEF Emptied, Vaults
<1>7. CompanionsApart(vault') /\ NothingNew(vault, vault')
  BY <1>5, WhereParts DEF CompanionsApart, NothingNew, TextIs
<1>8. Tidy(pc', vault', tx')
  BY <1>1, <1>4, <1>6, <1>7 DEF Tidy, Moving
<1> QED BY <1>1, <1>4, <1>7, <1>8, NothingNewInPlace DEF Moving, Preparing

LEMMA ShowReservationInPlace ==
  ASSUME TypeInv, WindowInv, WhereInv, window # "closed", ShowReservation PROVE InPlace(pc', vault', tx')
<1>1. CASE Throws
  BY <1>1, QuietSteps, QuietInPlace
<1>2. CASE ~Throws
  <2>1. /\ Moving /\ pc' = pc /\ Operation.stage = "companion-reserved"
        /\ tx' = [tx EXCEPT !.resv = None] /\ vault' = PutDirectory(vault, To(Mover, Backward), tx.resv)
    BY <1>2 DEF ShowReservation, Goto
  <2>2. tx.resv # None /\ To(Mover, Backward) \in Pages
    BY <2>1, MoverParts DEF WindowInv
  <2>3. tx.resv \in Inodes /\ tx.resv \notin Held(vault) /\ vault.child[tx.resv] = None
    BY <2>2, TypeInvParts, TransactionParts, NoneIsNoInode, WhereParts DEF Aside, Tidy
  <2>4. CompanionsApart(vault') /\ NothingNew(vault, vault')
    BY <2>1, <2>2, <2>3, TypeInvParts, WhereParts, NamedTexts
  <2>5. tx'.man = man /\ tx'.resv = None
    BY <2>1, TypeInvParts DEF Transactions
  <2>6. Tidy(pc', vault', tx')
    BY <2>1, <2>4, <2>5 DEF Tidy, Moving
  <2> QED BY <2>1, <2>4, <2>5, <2>6, NothingNewInPlace DEF Moving, Preparing
<1> QED BY <1>1, <1>2

\* What is in a companion that is moved belongs to the page it comes from, on the way
\* forward, and came from the page it returns to, on the way back.
LEMMA CompanionCame ==
  ASSUME TypeInv, WhereInv, Moving, Sensible, NEW x \in Paths, NEW s \in 0..Len(plan), Tracked(x, s),
         TextIs(vault, Within(From(Mover, Backward)), TextOf(x, s))
  PROVE  Reached(pc, man, x, s, Within(To(Mover, Backward)))
<1> DEFINE from == From(Mover, Backward)
           to == To(Mover, Backward)
<1>1. /\ Mover \in Moves /\ plan \in Plans /\ from \in Pages /\ to \in Pages
      /\ Within(from) \in Paths /\ Within(from).page = from /\ Within(from).inside
      /\ Within(to) \in Paths /\ Within(to).page = to /\ Within(to).inside
  BY TypeInvParts, MoverParts, PathsAreRecords DEF Moves
<1>2. Reached(pc, man, x, s, Within(from))
  BY <1>1, WhereParts DEF Placed
<1>3. man.done \in Nat /\ s \in Nat /\ \A j \in Moves : j \in Nat /\ j \in Members
  BY TypeInvParts, PlanParts DEF Moves
<1>4. s = 0 \/ (Shown(pc, man, s) /\ Kind(s) # "move" /\ s \in Members)
  BY <1>2 DEF Reached, Tracked, Shown
<1>5. CASE ~Backward
  <2>1. /\ pc \in {"moving", "finish"} /\ Mover = man.done + 1 /\ man.pend # NoOperation
        /\ Kind(man.done + 1) = "move" /\ from = Source(Mover) /\ to = Target(Mover)
    BY <1>5, MoverParts, TypeInvParts DEF Mover, From, To, Source, Target
  <2>2. \A j \in Moves : Target(j) # from
    BY <1>1, <2>1 DEF Sensible
  <2>3. x = Within(from)
    BY <1>1, <1>2, <2>2 DEF Reached, Leads
  <2>4. s <= man.done
    BY <1>3, <1>4, <2>1 DEF Shown
  <2>5. Leads(Mover, x, s, Within(to))
    <3>1. x.page = from /\ x.inside /\ Mover > s
      BY <1>1, <1>3, <2>1, <2>3, <2>4
    <3> HIDE DEF from, to
    <3> QED BY <1>1, <2>1, <3>1 DEF Leads
  <2>6. Taken(pc, man, Mover) /\ \A j \in Moves : Engaged(man, j) => Mover >= j
    BY <1>3, <2>1 DEF Taken, Engaged
  <2> QED BY <1>1, <1>4, <2>5, <2>6 DEF Reached
<1>6. CASE Backward
  <2>1. /\ pc = "reverse" /\ man.phase = "rolling-back" /\ Mover = man.done
        /\ from = Target(Mover) /\ to = Source(Mover)
    BY <1>6, MoverParts, TypeInvParts DEF Mover, From, To, Source, Target
  <2>2. man.pend = NoOperation
    BY <2>1, TypeInvParts DEF ManifestFacts
  <2>3. s <= man.done /\ Engaged(man, Mover)
    BY <1>3, <1>4, <2>1, <2>2, OperationParts DEF Shown, Engaged
  <2>4. PICK i \in Moves : i >= Mover /\ Taken(pc, man, i) /\ Leads(i, x, s, Within(from))
    BY <1>1, <1>2, <1>3, <2>1, <2>3 DEF Reached
  <2>5. i = Mover
    BY <1>1, <1>3, <2>1, <2>2, <2>4 DEF Taken, Engaged
  <2>6. x = Within(to)
    BY <1>1, <2>1, <2>4, <2>5, PathsAreRecords DEF Leads
  <2>7. \A j \in Moves : Target(j) # to
    BY <1>1, <2>1 DEF Sensible
  <2> QED BY <1>1, <1>4, <2>6, <2>7 DEF Reached
<1> QED BY <1>5, <1>6

LEMMA MoveCompanionInPlace == ASSUME TypeInv, WhereInv, MoveCompanion PROVE InPlace(pc', vault', tx')
<1> DEFINE from == From(Mover, Backward)
           to == To(Mover, Backward)
<1>1. /\ Moving /\ pc' = pc /\ tx' = tx /\ CurrentLayout = "companion-reserved"
      /\ vault' = MoveDirectory(vault, from, to)
  BY DEF MoveCompanion, Goto
<1>2. from \in Pages /\ to \in Pages /\ from # to /\ tx.resv = None /\ man.phase \in Phases
  BY <1>1, MoverParts, LayoutMeans DEF CurrentLayout, Phases
<1>3. Sensible /\ Within(to) \in Paths
  BY <1>2, WhereParts, PathsAreRecords
<1>4. /\ CompanionsApart(vault')
      /\ \A y \in Paths : \A t :
           TextIs(vault', y, t) => IF y = Within(to) THEN TextIs(vault, Within(from), t) ELSE TextIs(vault, y, t)
  BY <1>1, <1>2, TypeInvParts, WhereParts, ShiftedTexts
<1>5. Tidy(pc', vault', tx')
  BY <1>1, <1>2, <1>4 DEF Tidy, Moving
<1>6. ASSUME NEW x \in Paths, NEW y \in Paths, NEW s \in 0..Len(plan), Tracked(x, s),
              TextIs(vault', y, TextOf(x, s))
      PROVE  TextIs(vault, y, TextOf(x, s)) \/ Reached(pc', man, x, s, y)
  BY <1>1, <1>3, <1>4, <1>6, CompanionCame
<1> QED BY <1>1, <1>5, <1>6, TypeInvParts, ChangeInPlace DEF Moving, Preparing

LEMMA FinishMoveInPlace == ASSUME TypeInv, WhereInv, FinishMove PROVE InPlace(pc', vault', tx')
<1>1. Moving /\ vault' = vault /\ tx' = tx
  BY DEF FinishMove
<1>2. \/ pc' \in {"complete", "promote", "attention"}
      \/ pc = "reverse" /\ pc' = "progress" /\ Layout(Going, FALSE, man.rb) = "old"
  <2>1. pc \in {"moving", "finish", "reverse"}
    BY <1>1 DEF Moving
  <2> QED BY <2>1 DEF FinishMove, Goto, End
<1>3. CASE pc' \in {"complete", "promote", "attention"}
  <2>1. Quietly
    BY <1>1, <1>3, TypeInvParts DEF Quietly, Preparing
  <2> QED BY <2>1, QuietInPlace
<1>4. CASE pc = "reverse" /\ pc' = "progress" /\ Layout(Going, FALSE, man.rb) = "old"
  <2>1. Going = man.done /\ Kind(Going) = "move" /\ man.phase = "rolling-back"
    BY <1>4, TypeInvParts DEF Back, Phased
  <2>2. Blank(vault, Target(Going))
    BY <1>4, LayoutEnds, BlankIs DEF To, Target
  <2>3. man.done \in Nat /\ \A j \in Members : j \in Nat
    BY TypeInvParts, PlanParts
  <2>4. ASSUME NEW j \in Members
        PROVE  /\ Taken(pc, man, j) => Taken(pc', man, j) \/ j = Going
               /\ Shown(pc, man, j) => Shown(pc', man, j) \/ j = Going
    BY <1>4, <2>1 DEF Taken, Shown
  <2> QED BY <1>1, <1>4, <2>1, <2>2, <2>4, TypeInvParts, StillInPlace DEF Begun, Preparing
<1> QED BY <1>2, <1>3, <1>4

LEMMA StageMemberInPlace == ASSUME TypeInv, WhereInv, StageMember PROVE InPlace(pc', vault', tx')
<1>1. CASE Throws
  BY <1>1, QuietSteps, QuietInPlace
<1>2. CASE ~Throws
  <2>1. PICK i \in Fresh(vault, Private) :
          tx' = [tx EXCEPT !.staged = i] /\ vault' = Written(vault, i, New(Coming))
    BY <1>2 DEF StageMember
  <2>2. pc = "stage" /\ pc' = "ready" /\ man.phase = "publishing"
    BY <1>2, TypeInvParts DEF StageMember, Goto, Phased, Publishing
  <2>3. New(Coming) \in Texts /\ i \in Inodes /\ i \notin Held(vault)
    BY <2>2, MemberUnderWay, FreshHere
  <2>4. CompanionsApart(vault') /\ NothingNew(vault, vault')
    BY <2>1, <2>3, TypeInvParts, WhereParts, WrittenTexts
  <2>5. /\ tx'.man = man /\ tx'.staged = i /\ tx'.resv = tx.resv /\ vault'.child = vault.child
        /\ vault'.text[i] = New(Coming) /\ Held(vault') = Held(vault)
    BY <2>1, <2>3, TypeInvParts, WrittenParts, WrittenHeld DEF Transactions
  <2>6. Coming = tx'.man.done + 1
    BY <2>5, TypeInvParts
  <2>7. Tidy(pc', vault', tx')
    BY <2>3, <2>4, <2>5, <2>6, WhereParts DEF Tidy
  <2> QED BY <2>2, <2>4, <2>5, <2>7, TypeInvParts, NothingNewInPlace DEF Preparing
<1> QED BY <1>1, <1>2

\* What an own path holds.
LEMMA HeldTextIs ==
  ASSUME NEW x \in Paths, NEW t, TextIs(vault, x, t)
  PROVE  ParentExists(vault, x) /\ \A s : TextIs(vault, x, s) => s = t
BY DEF TextIs, FileAt, ParentExists

\* The staged file comes to the path of the member.
LEMMA MemberInPlace ==
  ASSUME TypeInv, WhereInv, pc = "swap", pc' \in {"complete", "unlink"},
         tx' \in {tx, [tx EXCEPT !.staged = None]},
         ParentExists(vault, plan[Coming].path), vault' = PutAt(vault, plan[Coming].path, tx.staged)
  PROVE  InPlace(pc', vault', tx')
<1> DEFINE path == plan[Coming].path
<1>1. /\ man.phase = "publishing" /\ man.pend # NoOperation /\ Kind(Coming) # "move"
      /\ man.pend.stage = "ready" /\ tx.staged \in Inode0
  BY TypeInvParts, TransactionParts DEF Phased, Publishing, Forward, ManifestFacts
<1>2. /\ Coming \in Members /\ Coming = man.done + 1 /\ path \in Paths
      /\ Kind(Coming) \in {"write", "create"}
  BY <1>1, MemberUnderWay
<1>3. vault.text[tx.staged] = New(Coming)
  BY <1>2, TypeInvParts, WhereParts DEF Tidy
<1>4. /\ CompanionsApart(vault')
      /\ \A y \in Paths : \A t : TextIs(vault', y, t) => TextIs(vault, y, t) \/ (y = path /\ t = New(Coming))
  BY <1>1, <1>2, <1>3, TypeInvParts, WhereParts, PutAtTexts
<1>5. tx'.man = man /\ tx'.resv = tx.resv
  BY TypeInvParts DEF Transactions
<1>6. Tidy(pc', vault', tx')
  <2>1. tx.resv # None => vault'.child[tx.resv] = None
    BY <1>1, <1>2, PutLeavesReservation, WhereParts DEF Tidy
  <2> QED BY <1>4, <1>5, <2>1 DEF Tidy
<1>7. Reached(pc', man, path, Coming, path)
  <2>1. \A j \in Moves : Engaged(man, j) => Coming > j
    BY <1>1, <1>2, TypeInvParts, PlanParts DEF Engaged, Moves
  <2>2. Shown(pc', man, Coming)
    BY <1>1, <1>2 DEF Shown
  <2> QED BY <2>1, <2>2 DEF Reached
<1>8. ASSUME NEW x \in Paths, NEW y \in Paths, NEW s \in 0..Len(plan), Tracked(x, s),
             TextIs(vault', y, TextOf(x, s))
      PROVE  TextIs(vault, y, TextOf(x, s)) \/ Reached(pc', man, x, s, y)
  <2>1. CASE y = path /\ TextOf(x, s) = New(Coming)
    <3>1. x = path /\ s = Coming
      BY <1>2, <1>8, <2>1, TypeInvParts, TrackedOnce
    <3> QED BY <1>7, <2>1, <3>1
  <2> QED BY <1>4, <1>8, <2>1
<1> QED BY <1>5, <1>6, <1>8, TypeInvParts, ChangeInPlace DEF Preparing

LEMMA SwapMemberInPlace == ASSUME TypeInv, WhereInv, SwapMember PROVE InPlace(pc', vault', tx')
<1>1. CASE Throws
  BY <1>1, QuietSteps, QuietInPlace
<1>2. CASE ~Throws
  BY <1>2, MemberInPlace DEF SwapMember, Goto
<1> QED BY <1>1, <1>2

LEMMA LinkMemberInPlace == ASSUME TypeInv, WhereInv, LinkMember PROVE InPlace(pc', vault', tx')
<1>1. CASE Throws
  BY <1>1, QuietSteps, QuietInPlace
<1>2. CASE ~Throws
  <2>1. /\ pc = "swap" /\ pc' = "unlink" /\ tx' = tx /\ Precondition(Coming) /\ Kind(Coming) = "create"
        /\ vault' = PutAt(vault, plan[Coming].path, tx.staged)
    BY <1>2 DEF LinkMember, PendingPrecondition, Goto
  <2>2. ParentExists(vault, plan[Coming].path)
    BY <2>1 DEF Precondition, AbsentAt
  <2> QED BY <2>1, <2>2, MemberInPlace
<1> QED BY <1>1, <1>2

\* A text of the transaction that is not at its own path is nowhere.
LEMMA GoneIs ==
  ASSUME TypeInv, WhereInv, NEW k \in Members, Kind(k) # "move",
         man.done = k \/ (man.done + 1 = k), man.done = k => man.pend = NoOperation,
         ~TextIs(vault, plan[k].path, New(k))
  PROVE  New(k) \notin TextsIn(vault)
BY OwnPlace, InTextsIn

\* What a member replaces is none of its own.
LEMMA ExpectedIsOld ==
  ASSUME plan \in Plans, NEW k \in Members, NEW x \in Paths, TextIs(vault, x, Expected(k))
  PROVE  ~TextIs(vault, x, New(k))
BY ExpectedTyped, TextsAreOne, HeldTextIs

LEMMA StartUndoInPlace == ASSUME TypeInv, WhereInv, StartUndo PROVE InPlace(pc', vault', tx')
<1>1. /\ pc = "undo" /\ vault' = vault /\ tx' = tx
      /\ pc' \in {"attention", "resume", "promote", "finish", "drop"}
      /\ pc' = "drop" => man.phase # "rolling-back" /\ PendingState \in {"none", "old"}
  BY DEF StartUndo, End, Goto
<1>2. CASE pc' # "drop"
  BY <1>1, <1>2, TypeInvParts, QuietInPlace DEF Quietly, Preparing
<1>3. CASE pc' = "drop"
  <2>1. Coming = man.done + 1 /\ man.done \in Nat /\ \A j \in Members : j \in Nat
    BY TypeInvParts, PlanParts
  <2>2. man.pend # NoOperation => PendingState = "old"
    BY <1>1, <1>3, LayoutEnds DEF PendingState
  <2>3. man.pend # NoOperation /\ Kind(Coming) = "move" => Blank(vault, Target(Coming))
    <3>1. SUFFICES ASSUME man.pend # NoOperation, Kind(Coming) = "move" PROVE Blank(vault, Target(Coming))
      OBVIOUS
    <3>2. Layout(Coming, FALSE, man.pend) = "old"
      BY <2>2, <3>1 DEF PendingState
    <3>3. vault.file[Target(Coming)] = None /\ vault.dir[Target(Coming)] = None
      BY <3>2, LayoutEnds DEF To, Target
    <3> QED BY <3>3, BlankIs
  <2>4. man.pend # NoOperation /\ Kind(Coming) # "move" => New(Coming) \notin TextsIn(vault)
    <3>1. SUFFICES ASSUME man.pend # NoOperation, Kind(Coming) # "move" PROVE New(Coming) \notin TextsIn(vault)
      OBVIOUS
    <3>2. man.phase = "publishing"
      BY <3>1, TypeInvParts DEF ManifestFacts
    <3>3. Coming \in Members /\ plan[Coming].path \in Paths /\ Kind(Coming) \in {"write", "create", "move"}
      BY <3>2, MemberUnderWay
    <3>4. PendingPrecondition(Coming)
      BY <2>2, <3>1 DEF PendingState
    <3>5. ~TextIs(vault, plan[Coming].path, New(Coming))
      <4>1. CASE Kind(Coming) = "write"
        BY <3>3, <3>4, <4>1, TypeInvParts, ExpectedIsOld DEF PendingPrecondition, Precondition
      <4>2. CASE Kind(Coming) = "create"
        BY <3>4, <4>2 DEF PendingPrecondition, Precondition, AbsentAt, TextIs
      <4> QED BY <3>1, <3>3, <4>1, <4>2
    <3> QED BY <2>1, <3>1, <3>3, <3>5, GoneIs
  <2>5. ASSUME NEW j \in Members
        PROVE  /\ Taken(pc, man, j) => Taken(pc', man, j) \/ (j = Coming /\ man.pend # NoOperation)
               /\ Shown(pc, man, j) => Shown(pc', man, j) \/ (j = Coming /\ man.pend # NoOperation)
    BY <1>1, <1>3, <2>1, OperationParts DEF Taken, Shown, Engaged
  <2> QED BY <1>1, <1>3, <2>3, <2>4, <2>5, TypeInvParts, StillInPlace DEF Begun, Preparing
<1> QED BY <1>2, <1>3

LEMMA StageBackInPlace == ASSUME TypeInv, WhereInv, StageBack PROVE InPlace(pc', vault', tx')
<1>1. /\ Resuming /\ pc = "resume" /\ man.done > 0 /\ pc' = "intent"
  BY DEF StageBack, Ready, Resuming, Goto
<1>2. PICK i \in Fresh(vault, Private) :
        tx' = [tx EXCEPT !.back = i] /\ vault' = Written(vault, i, Expected(Going))
  BY DEF StageBack
<1>3. i \in Inodes /\ i \notin Held(vault) /\ Expected(Going) \in Texts
  BY <1>1, ResumingParts, FreshHere
<1>4. CompanionsApart(vault') /\ NothingNew(vault, vault')
  BY <1>2, <1>3, TypeInvParts, WhereParts, WrittenTexts
<1>5. tx'.man = man /\ tx'.resv = tx.resv /\ vault'.child = vault.child
  BY <1>2, <1>3, TypeInvParts, WrittenParts DEF Transactions
<1>6. Tidy(pc', vault', tx')
  BY <1>1, <1>4, <1>5, WhereParts DEF Tidy
<1> QED BY <1>1, <1>4, <1>5, <1>6, TypeInvParts, NothingNewInPlace DEF Preparing

\* A write or a creation is undone: its text is nowhere.
LEMMA UndoneInPlace ==
  ASSUME TypeInv, WhereInv, Resuming, man.rb # NoOperation, Kind(Going) # "move", pc' = "progress",
         tx'.man = man, Tidy(pc', vault', tx'), New(Going) \notin TextsIn(vault'),
         \A x, y \in Paths, s \in 0..Len(plan) :
           Tracked(x, s) /\ TextIs(vault', y, TextOf(x, s)) =>
             TextIs(vault, y, TextOf(x, s)) \/ Reached(pc', man, x, s, y)
  PROVE  InPlace(pc', vault', tx')
<1>1. /\ pc = "resume" /\ man.phase = "rolling-back" /\ Going = man.done /\ Going \in Members
      /\ man.pend = NoOperation
  BY ResumingParts, TypeInvParts DEF ManifestFacts
<1>2. ASSUME NEW j \in Members
      PROVE  /\ Taken(pc, man, j) => Taken(pc', man, j) \/ j = Going
             /\ Shown(pc, man, j) => Shown(pc', man, j) \/ j = Going
  BY <1>1 DEF Taken, Shown
<1>3. Accounted(pc, vault, man, pc', vault', tx'.man)
  BY <1>2 DEF Accounted
<1>4. Placed(pc', vault', tx'.man)
  BY <1>3, TypeInvParts, WhereParts, AccountedPlaced
<1> QED BY <1>1, <1>4, WhereParts DEF InPlace, Begun, Preparing

\* Where a restored note is.
LEMMA RestoredReached ==
  ASSUME TypeInv, WhereInv, Resuming, man.rb # NoOperation, Kind(Going) = "write",
         NEW x \in Paths, NEW s \in 0..Len(plan), Tracked(x, s), TextOf(x, s) = Expected(Going)
  PROVE  Reached("progress", man, x, s, plan[Going].path)
<1> DEFINE path == plan[Going].path
           b == BeforeMoves(Going, path)
<1>1. /\ man.phase = "rolling-back" /\ Going = man.done /\ Going \in Members /\ path \in Paths
      /\ man.pend = NoOperation /\ plan \in Plans /\ Going \in Nat
  BY ResumingParts, TypeInvParts, PlanParts DEF ManifestFacts
<1>2. b \in Paths /\ Expected(Going) = Old(b)
  BY <1>1, ExpectedTyped DEF Expected
<1>3. x = b /\ s = 0
  BY <1>1, <1>2, TrackedOnce
<1>4. \A j \in Moves : /\ j \in Nat /\ j > 0 /\ j # Going
                        /\ (Engaged(man, j) => j < Going) /\ (j < Going => Taken("progress", man, j))
  BY <1>1, PlanParts DEF Engaged, Taken, Moves
<1>5. CASE b = path /\ \A j \in Moves : j < Going => Target(j) # path.page
  BY <1>3, <1>4, <1>5 DEF Reached
<1>6. ASSUME NEW j \in Moves, j < Going, Target(j) = path.page,
             \A i \in Moves : i < Going /\ Target(i) = path.page => i <= j,
             b.page = Source(j), b.inside = path.inside
      PROVE  Reached("progress", man, x, s, path)
  <2>1. Leads(j, x, s, path) /\ Taken("progress", man, j)
    BY <1>3, <1>4, <1>6 DEF Leads
  <2>2. \A i \in Moves : Engaged(man, i) /\ Target(i) = path.page => j >= i
    BY <1>4, <1>6
  <2> QED BY <1>3, <2>1, <2>2 DEF Reached
<1> HIDE DEF b
<1>7. \/ b = path /\ \A j \in Moves : j < Going => Target(j) # path.page
      \/ \E j \in Moves : /\ j < Going /\ Target(j) = path.page
                          /\ \A i \in Moves : i < Going /\ Target(i) = path.page => i <= j
                          /\ b.page = Source(j) /\ b.inside = path.inside
  BY <1>1, BeforeMovesIs DEF b
<1> QED BY <1>5, <1>6, <1>7

LEMMA RestoreWriteInPlace == ASSUME TypeInv, WhereInv, RestoreWrite PROVE InPlace(pc', vault', tx')
<1>1. /\ Resuming /\ man.rb # NoOperation /\ Kind(Going) = "write" /\ pc = "resume"
  BY DEF RestoreWrite, Restoring, Resuming
<1>2. /\ man.done > 0 /\ Going \in Members /\ Going = man.done /\ plan[Going].path \in Paths
      /\ plan \in Plans /\ man.pend = NoOperation
  BY <1>1, ResumingParts, TypeInvParts DEF ManifestFacts
<1>3. CASE Throws
  BY <1>3, QuietSteps, QuietInPlace
<1>4. CASE ~Throws
  <2>1. /\ vault' = PutAt(vault, plan[Going].path, tx.back) /\ ParentExists(vault, plan[Going].path)
        /\ tx' = [tx EXCEPT !.back = None] /\ pc' = "progress"
    BY <1>4 DEF RestoreWrite, Goto
  <2>2. tx.back \in Inode0 /\ (tx.back # None => vault.text[tx.back] = Expected(Going))
    BY <1>1, TypeInvParts, TransactionParts DEF Resuming, ArtifactsOK, BackOK
  <2>3. /\ CompanionsApart(vault')
        /\ \A y \in Paths : \A t : TextIs(vault', y, t) =>
             (y # plan[Going].path /\ TextIs(vault, y, t)) \/ (y = plan[Going].path /\ t = Expected(Going))
    BY <1>2, <2>1, <2>2, TypeInvParts, WhereParts, PutAtTexts
  <2>4. tx'.man = man /\ tx'.resv = tx.resv
    BY <2>1, TypeInvParts DEF Transactions
  <2>5. Tidy(pc', vault', tx')
    <3>1. tx.resv # None => vault'.child[tx.resv] = None
      BY <1>2, <2>1, <2>2, PutLeavesReservation, WhereParts DEF Tidy
    <3> QED BY <2>1, <2>3, <2>4, <3>1 DEF Tidy
  <2>6. New(Going) \notin TextsIn(vault')
    <3>1. \A y \in Paths : ~TextIs(vault', y, New(Going))
      BY <1>1, <1>2, <2>3, OwnPlace, ExpectedTyped, TextsAreOne
    <3> QED BY <3>1, InTextsIn
  <2>7. ASSUME NEW x \in Paths, NEW y \in Paths, NEW s \in 0..Len(plan), Tracked(x, s),
               TextIs(vault', y, TextOf(x, s))
        PROVE  TextIs(vault, y, TextOf(x, s)) \/ Reached(pc', man, x, s, y)
    BY <1>1, <2>1, <2>3, <2>7, RestoredReached
  <2> QED BY <1>1, <2>1, <2>4, <2>5, <2>6, <2>7, UndoneInPlace
<1> QED BY <1>3, <1>4

LEMMA RestoreCreateInPlace == ASSUME TypeInv, WhereInv, RestoreCreate PROVE InPlace(pc', vault', tx')
<1>1. /\ Resuming /\ man.rb # NoOperation /\ Kind(Going) = "create" /\ pc = "resume"
  BY DEF RestoreCreate, Restoring, Resuming
<1>2. /\ man.done > 0 /\ Going \in Members /\ Going = man.done /\ plan[Going].path \in Paths
      /\ plan \in Plans /\ man.pend = NoOperation
  BY <1>1, ResumingParts, TypeInvParts DEF ManifestFacts
<1>3. CASE Throws
  BY <1>3, QuietSteps, QuietInPlace
<1>4. CASE ~Throws
  <2>0. /\ FileAt(vault, plan[Going].path) # None
        /\ vault' = RemoveAt(vault, plan[Going].path) /\ pc' = "progress" /\ tx' = tx
    BY <1>4 DEF RestoreCreate, Goto
  <2>1. /\ CompanionsApart(vault')
        /\ \A y \in Paths : \A t : TextIs(vault', y, t) => y # plan[Going].path /\ TextIs(vault, y, t)
    BY <1>2, <2>0, TypeInvParts, WhereParts, PutAtTexts, NoneIsNoInode DEF RemoveAt
  <2>2. Tidy(pc', vault', tx')
    <3>1. ParentExists(vault, plan[Going].path)
      BY <2>0 DEF ParentExists, FileAt
    <3>2. tx.resv # None => vault'.child[tx.resv] = None
      BY <1>2, <2>0, <3>1, PutLeavesReservation, NoneIsNoInode, WhereParts DEF Tidy, RemoveAt
    <3> QED BY <2>0, <2>1, <3>2 DEF Tidy
  <2>3. New(Going) \notin TextsIn(vault')
    BY <1>1, <1>2, <2>1, OwnPlace, InTextsIn
  <2> QED BY <1>1, <2>0, <2>1, <2>2, <2>3, TypeInvParts, UndoneInPlace
<1> QED BY <1>3, <1>4

LEMMA FindRestoredInPlace == ASSUME TypeInv, WhereInv, FindRestored PROVE InPlace(pc', vault', tx')
<1>1. Resuming /\ man.rb # NoOperation /\ Kind(Going) \in {"write", "create"} /\ pc = "resume"
  BY DEF FindRestored, Restoring, Resuming
<1>2. /\ man.done > 0 /\ Going \in Members /\ Going = man.done /\ plan[Going].path \in Paths
      /\ plan \in Plans /\ man.pend = NoOperation
  BY <1>1, ResumingParts, TypeInvParts DEF ManifestFacts
<1>3. CASE Throws
  BY <1>3, QuietSteps, QuietInPlace
<1>4. CASE ~Throws
  <2>1. /\ AtOld \/ FileAt(vault, plan[Going].path) = None
        /\ pc' = "progress" /\ vault' = vault /\ tx' = tx
    BY <1>4 DEF FindRestored, Goto
  <2>2. New(Going) \notin TextsIn(vault)
    <3>1. CASE AtOld
      BY <1>1, <1>2, <3>1, GoneIs, ExpectedIsOld DEF AtOld
    <3>2. CASE FileAt(vault, plan[Going].path) = None
      BY <1>1, <1>2, <3>2, GoneIs DEF TextIs
    <3> QED BY <2>1, <3>1, <3>2
  <2>3. Tidy(pc', vault', tx')
    BY <2>1, WhereParts DEF Tidy
  <2> QED BY <1>1, <2>1, <2>2, <2>3, TypeInvParts, UndoneInPlace
<1> QED BY <1>3, <1>4

LEMMA CutsArtifactInPlace == ASSUME TypeInv, WhereInv, CutsArtifact PROVE InPlace(pc', vault', tx')
<1>1. CutPrivateFile /\ pc' \in {"undo", "attention", "down"}
  BY DEF CutsArtifact, Caught, Dies
<1>2. CASE pc = "preimages"
  <2>1. vault' = vault /\ tx'.man = man /\ tx'.resv = tx.resv
    BY <1>1, <1>2, TypeInvParts DEF CutPrivateFile, Ready, Resuming, Transactions
  <2> QED BY <1>1, <2>1, QuietInPlace DEF Quietly, Preparing
<1>3. CASE pc = "manifest"
  <2>1. Persist(TornManifest) /\ vault' = vault
    BY <1>1, <1>3 DEF CutPrivateFile, Ready, Resuming
  <2> QED BY <1>1, <1>3, <2>1, FirstManifestInPlace DEF Preparing
<1>4. CASE pc \notin {"preimages", "manifest"}
  <2>1. PICK i \in Fresh(vault, Private) :
          vault' = Written(vault, i, Torn) /\ tx' \in {[tx EXCEPT !.staged = i], [tx EXCEPT !.back = i]}
    BY <1>1, <1>4 DEF CutPrivateFile
  <2>2. i \in Inodes /\ i \notin Held(vault) /\ Torn \in Texts
    BY FreshHere, TextsParts
  <2>3. CompanionsApart(vault') /\ NothingNew(vault, vault')
    BY <2>1, <2>2, TypeInvParts, WhereParts, WrittenTexts
  <2>4. tx'.man = man /\ tx'.resv = tx.resv /\ vault'.child = vault.child
    BY <2>1, <2>2, TypeInvParts, WrittenParts DEF Transactions
  <2>5. Tidy(pc', vault', tx')
    BY <1>1, <2>3, <2>4, WhereParts DEF Tidy
  <2> QED BY <1>1, <2>3, <2>4, <2>5, TypeInvParts, NothingNewInPlace DEF Preparing
<1> QED BY <1>2, <1>3, <1>4

\* What the owner does to the vault adds no text but one of her own; and it touches no
\* private file.
LEMMA OwnerPlaces ==
  ASSUME TypeInv, CompanionsApart(vault), OwnerActs
  PROVE  /\ CompanionsApart(vault')
         /\ \A y \in Paths : \A t : TextIs(vault', y, t) => TextIs(vault, y, t) \/ t = Mine(edits + 1)
         /\ \A i \in Inodes : i \in Private /\ i \notin Held(vault) =>
              i \notin Held(vault') /\ vault'.text[i] = vault.text[i] /\ vault'.child[i] = vault.child[i]
<1> DEFINE t0 == Mine(edits + 1)
<1>1. t0 \in Texts
  BY OwnerParts
<1>2. PICK x \in Paths :
        \/ \E v \in OwnerEdits(vault, x, t0) \union OwnerSaves(vault, x, t0, Private) :
             OwnerDoes(v, x, {t0})
        \/ \E v \in OwnerDeletes(vault, x) : OwnerDoes(v, x, {})
        \/ /\ FileAt(vault, x) # None
           /\ \E v \in OwnerSaves(vault, x, vault.text[FileAt(vault, x)], Private) : OwnerDoes(v, x, {})
        \/ \E v \in OwnerMakesDirectory(vault, x.page, Private) : x.inside /\ OwnerDoes(v, x, {})
  BY DEF OwnerActs
<1> HIDE DEF t0
<1>3. CASE vault' \in OwnerEdits(vault, x, t0) \union OwnerSaves(vault, x, t0, Private)
                        \union OwnerDeletes(vault, x) \union OwnerMakesDirectory(vault, x.page, Private)
  <2>1. /\ CompanionsApart(vault')
        /\ \A y \in Paths : \A t : TextIs(vault', y, t) => TextIs(vault, y, t) \/ t = t0
        /\ \A i \in Inodes : i \in Private /\ i \notin Held(vault) =>
             vault'.text[i] = vault.text[i] /\ vault'.child[i] = vault.child[i]
    <3>1. vault \in Vaults(Texts)
      BY TypeInvParts
    <3>2. PICK w : w = vault'
      OBVIOUS
    <3>3. /\ CompanionsApart(w)
          /\ \A y \in Paths : \A t : TextIs(w, y, t) => TextIs(vault, y, t) \/ t = t0
          /\ \A i \in Inodes : i \in Private /\ i \notin Held(vault) =>
               w.text[i] = vault.text[i] /\ w.child[i] = vault.child[i]
      <4>1. w \in OwnerEdits(vault, x, t0) \union OwnerSaves(vault, x, t0, Private)
                    \union OwnerDeletes(vault, x) \union OwnerMakesDirectory(vault, x.page, Private)
        BY <1>3, <3>2
      <4>2. PICK more : more = Private
        OBVIOUS
      <4>3. w \in OwnerEdits(vault, x, t0) \union OwnerSaves(vault, x, t0, more)
                    \union OwnerDeletes(vault, x) \union OwnerMakesDirectory(vault, x.page, more)
        BY <4>1, <4>2
      <4>4. \A i \in Inodes : i \in more /\ i \notin Held(vault) =>
              w.text[i] = vault.text[i] /\ w.child[i] = vault.child[i]
        BY <1>1, <3>1, <4>3, OwnerTexts
      <4>5. CompanionsApart(w) /\ AddsOnly(vault, w, t0)
        BY <1>1, <3>1, <4>3, OwnerTexts
      <4> QED BY <4>2, <4>4, <4>5 DEF AddsOnly
    <3> QED BY <3>2, <3>3
  <2>2. \A i \in Private : i \in Held(vault') => i \in Held(vault)
    BY <1>1, <1>3, TypeInvParts, OwnerTakesNone
  <2> QED BY <2>1, <2>2 DEF t0
<1>4. CASE /\ FileAt(vault, x) # None
           /\ vault' \in OwnerSaves(vault, x, vault.text[FileAt(vault, x)], Private)
  <2>1. PICK s : s = vault.text[FileAt(vault, x)]
    OBVIOUS
  <2>2. s \in Texts /\ TextIs(vault, x, s)
    BY <1>4, <2>1, TypeInvParts, FileAtTyped, VaultParts, NoneIsNoInode DEF TextIs
  <2>3. vault' \in OwnerSaves(vault, x, s, Private)
    BY <1>4, <2>1
  <2>4. /\ CompanionsApart(vault')
        /\ \A y \in Paths : \A t : TextIs(vault', y, t) => TextIs(vault, y, t) \/ (t = s /\ y = x)
        /\ \A i \in Inodes : i \in Private /\ i \notin Held(vault) =>
             vault'.text[i] = vault.text[i] /\ vault'.child[i] = vault.child[i]
    BY <2>2, <2>3, TypeInvParts, OwnerTexts
  <2>5. \A i \in Private : i \in Held(vault') => i \in Held(vault)
    BY <2>2, <2>3, TypeInvParts, OwnerTakesNone
  <2> QED BY <2>2, <2>4, <2>5
<1> QED BY <1>2, <1>3, <1>4 DEF OwnerDoes

LEMMA OwnerInPlace == ASSUME TypeInv, WhereInv, OwnerActs PROVE InPlace(pc', vault', tx')
<1>1. tx' = tx /\ pc' = pc
  BY OwnerParts
<1>2. /\ CompanionsApart(vault')
      /\ \A y \in Paths : \A t : TextIs(vault', y, t) => TextIs(vault, y, t) \/ t = Mine(edits + 1)
      /\ \A i \in Inodes : i \in Private /\ i \notin Held(vault) =>
           i \notin Held(vault') /\ vault'.text[i] = vault.text[i] /\ vault'.child[i] = vault.child[i]
  BY WhereParts, OwnerPlaces
<1>3. tx.resv # None => vault'.child[tx.resv] = None
  <2>1. SUFFICES ASSUME tx.resv # None PROVE vault'.child[tx.resv] = None
    OBVIOUS
  <2>2. tx.resv \in Inodes /\ tx.resv \in Private /\ tx.resv \notin Held(vault) /\ vault.child[tx.resv] = None
    BY <2>1, TypeInvParts, TransactionParts, NoneIsNoInode, WhereParts DEF Aside, Private, Tidy
  <2> QED BY <1>2, <2>2
<1>4. pc \in {"ready", "swap"} => vault'.text[tx.staged] = New(man.done + 1) /\ tx.staged \notin Held(vault')
  <2>1. SUFFICES ASSUME pc \in {"ready", "swap"}
                 PROVE  vault'.text[tx.staged] = New(man.done + 1) /\ tx.staged \notin Held(vault')
    OBVIOUS
  <2>2. tx.staged # None
    BY <2>1, TypeInvParts DEF Forward
  <2>3. /\ tx.staged \in Inodes /\ tx.staged \in Private /\ tx.staged \notin Held(vault)
        /\ vault.text[tx.staged] = New(man.done + 1)
    BY <2>1, <2>2, TypeInvParts, TransactionParts, NoneIsNoInode, WhereParts DEF Private, Tidy
  <2> QED BY <1>2, <2>3
<1>5. Tidy(pc', vault', tx')
  BY <1>1, <1>2, <1>3, <1>4, TypeInvParts DEF Tidy
<1>6. ASSUME NEW x, NEW s PROVE TextOf(x, s) # Mine(edits + 1)
  BY DEF TextOf, Old, New, Mine
<1> QED BY <1>1, <1>2, <1>5, <1>6, TypeInvParts, ChangeInPlace

\* A transaction that begins has found every note it is to move, and every page free that
\* it is to move one to.
LEMMA BeginInPlace == ASSUME TypeInv, WhereInv, Begin PROVE InPlace(pc', vault', tx')
<1>1. /\ pc = "idle" /\ vault' = vault /\ tx' = tx /\ pc' \in {"directory", "attention"}
      /\ pc' = "directory" => RemainingPreconditions(1)
  BY DEF Begin, End
<1>2. ASSUME RemainingPreconditions(1) PROVE Sensible
  <2>1. \A k \in Members : Kind(k) # "write" => Precondition(k)
    BY <1>2 DEF RemainingPreconditions, Members
  <2>2. ASSUME NEW j \in Moves
        PROVE  /\ plan[j].path \in Paths /\ FileAt(vault, plan[j].path) # None
               /\ plan[j].path = Note(Source(j)) /\ FileAt(vault, Note(Target(j))) = None
    <3>1. j \in Members /\ Kind(j) = "move" /\ Precondition(j)
      BY <2>1 DEF Moves
    <3>2. TextIs(vault, plan[j].path, Expected(j)) /\ AbsentAt(vault, Note(plan[j].to))
      BY <3>1 DEF Precondition
    <3> QED BY <3>1, <3>2, TypeInvParts, PlanParts DEF TextIs, AbsentAt, Source, Target
  <2>3. ASSUME NEW k \in Members, Kind(k) = "create" PROVE FileAt(vault, plan[k].path) = None
    BY <2>1, <2>3 DEF Precondition, AbsentAt
  <2>4. \A i, j \in Moves : Source(i) # Target(j)
    BY <2>2
  <2>5. \A j \in Moves, k \in Members : Kind(k) = "create" => plan[k].path # plan[j].path
    BY <2>2, <2>3
  <2> QED BY <2>4, <2>5 DEF Sensible
<1>3. ASSUME NEW j \in Members
      PROVE  /\ Taken(pc, man, j) => Taken(pc', man, j)
             /\ Shown(pc, man, j) => Shown(pc', man, j)
  BY <1>1 DEF Taken, Shown
<1> QED BY <1>1, <1>2, <1>3, TypeInvParts, StillInPlace DEF Begun, Preparing

-----------------------------------------------------------------------------
(***************************************************************************)
(* How a transaction ends.                                                 *)
(***************************************************************************)
\* A transaction that is rolled back has nothing under way and nothing done, and owes
\* nothing; one that is committed says so in its manifest.
Ended(q, v, m, o) ==
  /\ q \in {"clean", "rolled-back"} => m.done = 0 /\ m.pend = NoOperation
  /\ q = "rolled-back" => o \subseteq TextsIn(v)
  /\ q = "committed" => m.phase = "committed"

EndInv == Ended(pc, vault, man, owed)

LEMMA RemoveArtifactInPlace == ASSUME TypeInv, WhereInv, EndInv, RemoveArtifact PROVE InPlace(pc', vault', tx')
<1>1. pc = "clean" /\ vault' = vault /\ man.done = 0 /\ man.pend = NoOperation
  BY DEF RemoveArtifact, EndInv, Ended
<1>2. CASE Persist(NoManifest) /\ pc' = "clean"
  <2>1. NoManifest.done = 0 /\ NoManifest.pend = NoOperation /\ NoManifest.phase = "absent"
    BY DEF NoManifest, Prepared
  <2> QED BY <1>1, <1>2, <2>1, SameMembers, PersistInPlace DEF Preparing, Phases
<1>3. CASE tx' = NoTransaction /\ pc' \in {"rolled-back", "attention"}
  <2>1. tx'.man.done = 0 /\ tx'.man.pend = NoOperation /\ tx'.man.phase = "absent" /\ tx'.resv = None
    BY <1>3 DEF NoTransaction, NoManifest, Prepared
  <2>2. ASSUME NEW j \in Members
        PROVE  /\ Taken(pc, man, j) => Taken(pc', tx'.man, j)
               /\ Engaged(tx'.man, j) => Engaged(man, j)
               /\ Shown(pc, man, j) => Shown(pc', tx'.man, j)
    BY <1>1, <1>3, <2>1 DEF Taken, Engaged, Shown
  <2> QED BY <1>1, <1>3, <2>1, <2>2, StillInPlace DEF Begun, Preparing, Phases
<1>4. CASE tx'.man = man /\ pc' = "clean"
  BY <1>4, QuietSteps, QuietInPlace
<1>5. \/ Persist(NoManifest) /\ pc' = "clean"
      \/ tx' = NoTransaction /\ pc' \in {"rolled-back", "attention"}
      \/ tx'.man = man /\ pc' = "clean"
  BY TypeInvParts DEF RemoveArtifact, Goto, End, Transactions
<1> QED BY <1>2, <1>3, <1>4, <1>5

LEMMA CreateManifestInPlace == ASSUME TypeInv, WhereInv, CreateManifest PROVE InPlace(pc', vault', tx')
BY FirstManifestInPlace DEF CreateManifest, Goto, Preparing

\* The vault at first.
LEMMA InitWhere ==
  ASSUME Init
  PROVE  WhereInv /\ EndInv
<1>1. PICK C \in SUBSET Companions : vault = InitialVault(Present, C)
  BY DEF Init
<1>2. tx = NoTransaction /\ pc = "idle" /\ plan \in Plans
  BY DEF Init
<1>3. Present \in SUBSET Pages /\ C \in SUBSET Present
  BY TransactionAssumption
<1>4. CompanionsApart(vault) /\ \A y \in Paths : \A t : TextIs(vault, y, t) => t = Old(y)
  BY <1>1, <1>3, TextsParts, RoomAssumption, InitialTexts
<1>5. tx.man.done = 0 /\ tx.man.pend = NoOperation /\ tx.man.phase = "absent" /\ tx.resv = None
  BY <1>2 DEF NoTransaction, NoManifest, Prepared
<1>6. ASSUME NEW x \in Paths, NEW y \in Paths, NEW s \in 0..Len(plan),
             Tracked(x, s), TextIs(vault, y, TextOf(x, s))
      PROVE  Reached(pc, tx.man, x, s, y)
  <2>1. s = 0 /\ x = y
    BY <1>2, <1>4, <1>6, TrackedOnce
  <2>2. \A j \in Moves : ~Engaged(tx.man, j)
    BY <1>2, <1>5, PlanParts DEF Engaged, Moves
  <2> QED BY <2>1, <2>2 DEF Reached
<1>7. Placed(pc, vault, tx.man)
  BY <1>6 DEF Placed
<1>8. Tidy(pc, vault, tx) /\ ~Begun(pc, tx.man)
  BY <1>2, <1>4, <1>5 DEF Tidy, Begun, Preparing, Phases
<1>9. EndInv
  BY <1>2 DEF EndInv, Ended
<1> QED BY <1>7, <1>8, <1>9 DEF WhereInv, InPlace

\* Every step keeps the texts at their places.
LEMMA StepInPlace ==
  ASSUME TypeInv, WindowInv, WhereInv, LinkedInv, EndInv, Next PROVE InPlace(pc', vault', tx')
<1>1. CASE Apply
  BY <1>1, QuietSteps, QuietInPlace, BeginInPlace, CreateManifestInPlace, StartPublishingInPlace, ReserveMemberInPlace,
     StageMemberInPlace, ReadyMemberInPlace, LinkMemberInPlace, CompleteInPlace DEF Apply, RefuseSwap
<1>2. CASE MoveStep
  BY <1>2, QuietSteps, QuietInPlace, RecordStageInPlace, MakeReservationInPlace,
     MoveCompanionInPlace, FinishMoveInPlace DEF MoveStep, RefuseMove
<1>3. CASE Undo
  BY <1>3, QuietSteps, QuietInPlace, StartUndoInPlace, RollBackRecordedInPlace, CompleteInPlace, StageBackInPlace,
     RecordBackIntentInPlace, FindRestoredInPlace, RecordProgressInPlace, RemoveArtifactInPlace
     DEF Undo, RefuseResume
<1>4. CASE Misfortune
  BY <1>4, QuietSteps, QuietInPlace, CutsArtifactInPlace, CompleteInPlace DEF Misfortune
<1>5. CASE Recover \/ OwnerClearsLock \/ NoticeOwner \/ LookLast
  BY <1>5, QuietSteps, QuietInPlace DEF NoticeOwner, LookLast
<1>6. CASE Call /\ window # "closed"
  BY <1>6, SwapMemberInPlace, LinkTargetInPlace, ShowReservationInPlace, UnlinkSourceInPlace,
     RestoreWriteInPlace, RestoreCreateInPlace DEF Call
<1> QED BY <1>1, <1>2, <1>3, <1>4, <1>5, <1>6, OwnerInPlace DEF Next, Process

LEMMA StepWhere ==
  ASSUME TypeInv, WindowInv, WhereInv, LinkedInv, EndInv, [Next]_vars
  PROVE  WhereInv'
<1>1. CASE UNCHANGED vars
  BY <1>1, SamePlaces DEF vars, WhereInv
<1>2. CASE Next
  <2>1. plan' = plan
    BY <1>2, OwnerParts DEF Next, Process, LookLast, Misfortune, Owner
  <2> QED BY <1>2, <2>1, StepInPlace, SamePlaces DEF WhereInv
<1> QED BY <1>1, <1>2

\* The note to be linked is as the comparison found it, or the owner has written it since.
LEMMA StepLinked ==
  ASSUME TypeInv, WindowInv, WhereInv, LinkedInv, [Next]_vars
  PROVE  LinkedInv'
<1>1. CASE window' = "closed"
  BY <1>1 DEF LinkedInv
<1>2. ASSUME plan' = plan, pc' = pc, tx' = tx
      PROVE  LinkedInv' <=>
               (window' # "closed" /\ Moving /\ Operation.stage = "target-linked" =>
                  \A t : TextIs(vault', Note(From(Mover, Backward)), t) =>
                    t = Expected(Mover) \/ \E n \in Nat : t = Mine(n))
  <2>1. man' = man /\ Backward' = Backward /\ Coming' = Coming /\ Going' = Going
    BY <1>2 DEF man, Backward, Coming, Going
  <2>2. Mover' = Mover /\ Moving' = Moving /\ Operation' = Operation
    BY <1>2, <2>1, SameWindow DEF Mover
  <2>3. \A k, b : From(k, b)' = From(k, b) /\ Expected(k)' = Expected(k)
    BY <1>2 DEF From, Expected, BeforeMoves, Kind
  <2> QED BY <2>1, <2>2, <2>3 DEF LinkedInv, TextIs, FileAt
<1>3. CASE UNCHANGED vars
  BY <1>2, <1>3 DEF vars, LinkedInv
<1>4. CASE LookLast
  <2>1. plan' = plan /\ pc' = pc /\ tx' = tx /\ vault' = vault /\ Compared
    BY <1>4 DEF LookLast, Compare, Owner
  <2>2. ASSUME Moving, Operation.stage = "target-linked", NEW t, TextIs(vault, Note(From(Mover, Backward)), t)
        PROVE  t = Expected(Mover)
    BY <2>1, <2>2, ComparedIs, LayoutMeans DEF CurrentLayout, TextIs
  <2> QED BY <1>2, <2>1, <2>2
<1>5. CASE OwnerActs
  <2>1. /\ plan' = plan /\ pc' = pc /\ tx' = tx /\ edits + 1 \in Nat
        /\ window' # "closed" => window # "closed"
    BY <1>5, OwnerParts, TransactionAssumption DEF TypeInv
  <2>2. \A y \in Paths : \A t : TextIs(vault', y, t) => TextIs(vault, y, t) \/ t = Mine(edits + 1)
    BY <1>5, WhereParts, OwnerPlaces
  <2>3. Moving => Note(From(Mover, Backward)) \in Paths
    BY MoverParts, PathsAreRecords
  <2> QED BY <1>2, <2>1, <2>2, <2>3 DEF LinkedInv
<1>6. CASE (Recover \/ OwnerClearsLock) /\ UNCHANGED window
  <2>1. pc \notin {"swap", "resume", "moving", "finish", "reverse"}
    BY <1>6 DEF Recover, OwnerClearsLock, Resting, Running, Publishing, Undoing
  <2> QED BY <1>1, <1>6, <2>1 DEF WindowInv
<1> QED BY <1>1, <1>3, <1>4, <1>5, <1>6 DEF Next, Process, Misfortune

\* Which steps end a transaction.
Ends(q) == q \in {"clean", "rolled-back", "committed"}

LEMMA EndNotEnds == ASSUME End("attention") \/ End("nothing") PROVE ~Ends(pc')
BY DEF End, Ends

LEMMA ApplyNotEnds ==
  ASSUME \/ Begin \/ MakeDirectory \/ SavePreimage \/ CreateManifest \/ StartPublishing
         \/ ReserveMember \/ StageMember \/ ReadyMember \/ RefuseSwap \/ LinkMember \/ UnlinkStaged
  PROVE  ~Ends(pc')
<1>1. CASE Begin
  BY <1>1, EndNotEnds DEF Begin, Ends
<1>2. CASE MakeDirectory \/ SavePreimage \/ CreateManifest \/ StartPublishing \/ ReadyMember \/ UnlinkStaged
  BY <1>2 DEF MakeDirectory, SavePreimage, CreateManifest, StartPublishing, ReadyMember, UnlinkStaged, Goto, Ends
<1>3. CASE ReserveMember \/ StageMember \/ RefuseSwap \/ LinkMember
  BY <1>3 DEF ReserveMember, StageMember, RefuseSwap, LinkMember, Throws, Caught, Goto, Ends
<1> QED BY <1>1, <1>2, <1>3

LEMMA MoveNotEnds == ASSUME MoveStep PROVE ~Ends(pc')
<1>1. Moving
  BY DEF MoveStep, RecordStage, MakeReservation, MoveCompanion, FinishMove, RefuseMove
<1>2. CASE Goto(pc)
  BY <1>1, <1>2 DEF Moving, Goto, Ends
<1>3. CASE FinishMove
  <2>1. pc \in {"moving", "finish", "reverse"}
    BY <1>1 DEF Moving
  <2> QED BY <2>1, <1>3, EndNotEnds DEF FinishMove, Goto, Ends
<1>4. CASE RefuseMove
  BY <1>4 DEF RefuseMove, Throws, Caught, Ends
<1> QED BY <1>2, <1>3, <1>4 DEF MoveStep, RecordStage, MakeReservation, MoveCompanion

LEMMA CallNotEnds == ASSUME Call \/ NoticeOwner PROVE ~Ends(pc')
<1>1. CASE Throws
  BY <1>1 DEF Throws, Caught, Ends
<1>2. CASE SwapMember \/ RestoreWrite \/ RestoreCreate
  BY <1>1, <1>2 DEF SwapMember, RestoreWrite, RestoreCreate, Goto, Ends
<1>3. CASE LinkTarget \/ ShowReservation \/ UnlinkSource
  BY <1>1, <1>3 DEF LinkTarget, ShowReservation, UnlinkSource, Moving, Goto, Ends
<1> QED BY <1>1, <1>2, <1>3 DEF Call, NoticeOwner

LEMMA UndoNotEnds ==
  ASSUME \/ StartUndo \/ DropStaged \/ RollBackRecorded \/ Promote \/ DropUncheckpointed \/ StageBack
         \/ RecordBackIntent \/ FindRestored \/ RestoreMove \/ RecordProgress \/ RefuseResume
  PROVE  ~Ends(pc')
<1>1. CASE StartUndo
  BY <1>1, EndNotEnds DEF StartUndo, Goto, Ends
<1>2. CASE DropStaged \/ RollBackRecorded \/ Promote \/ DropUncheckpointed \/ StageBack
  BY <1>2 DEF DropStaged, RollBackRecorded, Promote, DropUncheckpointed, StageBack, Throws, Caught, Goto, Ends
<1>3. CASE RecordBackIntent \/ RestoreMove \/ RecordProgress \/ RefuseResume
  BY <1>3 DEF RecordBackIntent, RestoreMove, RecordProgress, RefuseResume, Throws, Caught, Goto, Ends
<1>4. CASE FindRestored
  BY <1>4 DEF FindRestored, Throws, Caught, Goto, Ends
<1> QED BY <1>1, <1>2, <1>3, <1>4

LEMMA FaultNotEnds == ASSUME Misfortune PROVE ~Ends(pc')
BY DEF Misfortune, Fails, CutsArtifact, FailsAfterCommit, FailsToLock, Crash, CrashInPersist, Caught, Dies, Ends

LEMMA EndStep ==
  ASSUME TypeInv, TextInv, EndInv, [Next]_vars
  PROVE  EndInv'
<1>0. EndInv' <=> Ended(pc', vault', tx'.man, owed')
  BY DEF EndInv, Ended, TextsIn, man
<1>1. CASE UNCHANGED vars
  BY <1>0, <1>1, TypeInvParts DEF vars, EndInv
<1>2. CASE Next
  <2> SUFFICES Ended(pc', vault', tx'.man, owed')
    BY <1>0
  <2>1. CASE ~Ends(pc')
    BY <2>1 DEF Ends, Ended
  <2>2. CASE CompleteMember
    <3>1. /\ Persist(WithCompletion) /\ pc' \in {"committed", "attention", "member"}
          /\ pc' = "committed" => Coming = Len(plan)
      BY <2>2 DEF CompleteMember, End, Goto
    <3>2. tx'.man = WithCompletion
      BY <3>1, TypeInvParts DEF Persist, Transactions
    <3>3. pc' = "committed" => tx'.man.phase = "committed"
      BY <3>1, <3>2, TypeInvParts DEF WithCompletion, Manifests
    <3> QED BY <3>1, <3>3 DEF Ended
  <2>3. CASE CleanUp
    <3>1. /\ pc' = "clean" /\ tx' = tx /\ vault' = vault /\ man.done = 0 /\ Resuming
      BY <2>3 DEF CleanUp, Ready, Goto
    <3>2. man.pend = NoOperation
      BY <3>1, ResumingParts, TypeInvParts DEF ManifestFacts
    <3> QED BY <3>1, <3>2, TypeInvParts DEF Ended
  <2>4. CASE RemoveArtifact /\ Owner
    <3>1. /\ pc = "clean" /\ vault' = vault /\ pc' \in {"clean", "rolled-back", "attention"}
          /\ tx' = NoTransaction \/ (pc' = "clean" /\ (tx'.man = man \/ tx'.man = NoManifest))
      BY <2>4, TypeInvParts DEF RemoveArtifact, Goto, End, Persist, Transactions
    <3>2. man.done = 0 /\ man.pend = NoOperation /\ owed \subseteq TextsIn(vault)
      BY <3>1 DEF EndInv, Ended, TextInv
    <3>3. NoManifest.done = 0 /\ NoManifest.pend = NoOperation /\ NoTransaction.man = NoManifest
      BY DEF NoTransaction, NoManifest, Prepared
    <3> QED BY <2>4, <3>1, <3>2, <3>3 DEF Ended, Owner
  <2>5. CASE Recover
    <3>1. /\ vault' = vault /\ tx' = tx
          /\ pc' \in {"nothing", "attention", "committed", "undo"}
          /\ pc' = "committed" => man.phase = "committed"
      BY <2>5, FindingIs DEF Recover, End
    <3> QED BY <3>1, TypeInvParts DEF Ended
  <2>6. CASE OwnerClearsLock /\ Owner
    <3>1. vault' = vault /\ tx' = tx /\ pc' = pc /\ owed' = owed
      BY <2>6 DEF OwnerClearsLock, Owner
    <3> QED BY <3>1, TypeInvParts DEF EndInv, Ended
  <2>7. CASE OwnerActs
    <3>1. tx' = tx /\ pc' = pc
      BY <2>7, OwnerParts
    <3>2. PICK typed :
            /\ typed \subseteq TextsIn(vault')
            /\ owed' = ({t \in owed : t \in TextsIn(vault) => t \in TextsIn(vault')} \union typed)
                          \ Exposed(vault')
      BY <2>7, OwnerParts
    <3> QED BY <3>1, <3>2, TypeInvParts DEF EndInv, Ended
  <2>8. CASE Misfortune
    BY <2>1, <2>8, FaultNotEnds
  <2>9. CASE LookLast
    <3>1. vault' = vault /\ tx' = tx /\ pc' = pc /\ owed' = owed
      BY <2>9 DEF LookLast, Compare, Owner
    <3> QED BY <3>1, TypeInvParts DEF EndInv, Ended
  <2> QED BY <1>2, <2>1, <2>2, <2>3, <2>4, <2>5, <2>6, <2>7, <2>8, <2>9, ApplyNotEnds, MoveNotEnds, UndoNotEnds,
             CallNotEnds DEF Next, Process, Apply, Undo
<1> QED BY <1>1, <1>2

\* A transaction that is rolled back left every text where it was.
LEMMA RolledBackIsExact ==
  ASSUME TypeInv, WhereInv, EndInv, pc = "rolled-back"
  PROVE  /\ \A x \in Paths : Old(x) \in owed => TextIs(vault, x, Old(x))
         /\ \A k \in Members : New(k) \notin TextsIn(vault)
<1>1. man.done = 0 /\ man.pend = NoOperation /\ owed \subseteq TextsIn(vault) /\ plan \in Plans
  BY TypeInvParts DEF EndInv, Ended
<1>2. \A j \in Members : j \in Nat /\ j > 0 /\ j \in 0..Len(plan)
  BY <1>1, PlanParts
<1>3. \A j \in Members : ~Taken(pc, man, j) /\ ~Shown(pc, man, j)
  BY <1>1, <1>2, OperationParts DEF Taken, Engaged, Shown
<1>4. ASSUME NEW x \in Paths, Old(x) \in owed PROVE TextIs(vault, x, Old(x))
  <2>1. PICK y \in Paths : TextIs(vault, y, Old(x))
    BY <1>1, <1>4, InTextsIn
  <2>2. Tracked(x, 0) /\ TextOf(x, 0) = Old(x) /\ 0 \in 0..Len(plan)
    BY <1>1, PlanParts DEF Tracked, TextOf
  <2>3. Reached(pc, man, x, 0, y)
    BY <2>1, <2>2, WhereParts DEF Placed
  <2>4. y = x
    BY <1>3, <2>3 DEF Reached, Moves
  <2> QED BY <2>1, <2>4
<1>5. ASSUME NEW k \in Members, NEW y \in Paths, TextIs(vault, y, New(k)) PROVE FALSE
  <2>1. Tracked(plan[k].path, k) /\ TextOf(plan[k].path, k) = New(k) /\ plan[k].path \in Paths
    BY <1>1, <1>2, PlanParts DEF Tracked, TextOf
  <2>2. Reached(pc, man, plan[k].path, k, y)
    BY <1>2, <1>5, <2>1, WhereParts DEF Placed
  <2> QED BY <1>2, <1>3, <2>2 DEF Reached
<1> QED BY <1>4, <1>5, InTextsIn

-----------------------------------------------------------------------------
(***************************************************************************)
(* The way to a commit, while the owner changes nothing.                   *)
(***************************************************************************)
\* A process that applies, and whatever follows a commit until it is rolled back.
Onward(q, m) == m.phase = "committed" \/ q \in {"idle"} \union Preparing \union Publishing

\* A move has left its source; the text of a member has been put in the vault.
Gone(q, m, j) == j <= m.done \/ (j = m.done + 1 /\ m.pend # NoOperation /\ q = "complete")
Made(q, m, k) == Kind(k) # "move" /\ (k <= m.done \/ (k = m.done + 1 /\ q \in {"unlink", "complete"}))

\* Nothing is left at the source of a move;
Vacated(q, v, m) == \A j \in Moves : Gone(q, m, j) => v.file[Source(j)] = None /\ v.dir[Source(j)] = None

\* so no other move takes from there, and no later write finds a note there;
TakenOnce(m) ==
  /\ \A i, j \in Moves : Engaged(m, i) /\ Engaged(m, j) /\ Source(i) = Source(j) => i = j
  /\ \A w \in Members, i \in Moves :
       Kind(w) = "write" /\ Engaged(m, w) /\ i < w => Source(i) # plan[w].path.page

\* and no text is lost that no write replaces.
Replaced(m, t) == \E w \in Members : Kind(w) = "write" /\ Engaged(m, w) /\ t = Expected(w)

Lasting(q, v, m, o) ==
  /\ \A t \in o : t \in TextsIn(v) \/ Replaced(m, t)
  /\ \A k \in Members : Made(q, m, k) => New(k) \in TextsIn(v)

Straight(q, v, m, o) == Vacated(q, v, m) /\ TakenOnce(m) /\ Lasting(q, v, m, o)

StraightInv == touched = {} /\ Onward(pc, man) => Straight(pc, vault, man, owed)

\* The plan is the same later.
LEMMA SameStraight ==
  ASSUME plan' = plan, NEW q, NEW v, NEW m, NEW o
  PROVE  (Straight(q, v, m, o)' <=> Straight(q, v, m, o)) /\ (Onward(q, m)' <=> Onward(q, m))
<1>1. Members' = Members /\ Moves' = Moves
  BY DEF Members, Moves, Kind
<1>2. \A j : Kind(j)' = Kind(j) /\ Source(j)' = Source(j) /\ Target(j)' = Target(j) /\ Expected(j)' = Expected(j)
  BY DEF Kind, Source, Target, Expected, BeforeMoves
<1>3. \A j : (Gone(q, m, j)' <=> Gone(q, m, j)) /\ (Made(q, m, j)' <=> Made(q, m, j))
             /\ (Engaged(m, j)' <=> Engaged(m, j))
  BY <1>2 DEF Gone, Made, Engaged
<1>4. \A t : Replaced(m, t)' <=> Replaced(m, t)
  BY <1>1, <1>2, <1>3 DEF Replaced
<1>5. Vacated(q, v, m)' <=> Vacated(q, v, m)
  BY <1>1, <1>2, <1>3 DEF Vacated
<1>6. TakenOnce(m)' <=> TakenOnce(m)
  BY <1>1, <1>2, <1>3 DEF TakenOnce
<1>7. Lasting(q, v, m, o)' <=> Lasting(q, v, m, o)
  BY <1>1, <1>3, <1>4 DEF Lasting, New
<1> QED BY <1>5, <1>6, <1>7 DEF Straight, Onward

\* The same members are engaged, and the texts stay.
LEMMA StraightOn ==
  ASSUME Straight(pc, vault, man, owed), NEW m, Vacated(pc', vault', m),
         \A j \in Members : Engaged(m, j) <=> Engaged(man, j),
         \A t : t \in TextsIn(vault) => t \in TextsIn(vault') \/ Replaced(man, t),
         \A k \in Members : Made(pc, man, k) => New(k) \in TextsIn(vault'),
         \A k \in Members : Made(pc', m, k) => Made(pc, man, k) \/ New(k) \in TextsIn(vault')
  PROVE  Straight(pc', vault', m, owed)
<1>1. \A t : Replaced(m, t) <=> Replaced(man, t)
  BY DEF Replaced
<1>2. TakenOnce(m)
  BY DEF Straight, TakenOnce, Moves
<1>3. Lasting(pc', vault', m, owed)
  BY <1>1 DEF Straight, Lasting
<1> QED BY <1>2, <1>3 DEF Straight

\* The names and texts of the vault are the same.
LEMMA StraightStill ==
  ASSUME Straight(pc, vault, man, owed), vault' = vault, NEW m,
         \A j \in Members : /\ Engaged(m, j) <=> Engaged(man, j)
                            /\ Kind(j) = "move" /\ Gone(pc', m, j) => Gone(pc, man, j)
                            /\ Made(pc', m, j) => Made(pc, man, j)
  PROVE  Straight(pc', vault', m, owed)
<1>1. Vacated(pc', vault', m)
  BY DEF Straight, Vacated, Moves
<1>2. \A k \in Members : Made(pc, man, k) => New(k) \in TextsIn(vault')
  BY DEF Straight, Lasting
<1> QED BY <1>1, <1>2, StraightOn

-----------------------------------------------------------------------------
(***************************************************************************)
(* Only these steps are on the way.                                        *)
(***************************************************************************)
\* A step that changes nothing this is about.
Idly == /\ Onward(pc, man) /\ vault' = vault /\ tx'.man = man
        /\ pc' = pc \/ pc' \notin {"unlink", "complete"}

LEMMA IdlyOn ==
  ASSUME vault' = vault, tx'.man = man, Onward(pc', tx'.man),
         pc' \notin {"idle"} \union Preparing \union Publishing
  PROVE  Idly
BY DEF Idly, Onward, Publishing

LEMMA ThrowsOn == ASSUME TypeInv, Throws, Onward(pc', tx'.man) PROVE Idly
<1>1. vault' = vault /\ tx'.man = man /\ pc' \in {"undo", "attention"}
  BY TypeInvParts DEF Throws, Caught
<1> QED BY <1>1, IdlyOn DEF Preparing, Publishing

LEMMA UndoNotOn ==
  ASSUME Kept, pc' \in {"resume", "reverse", "intent", "progress", "finish", "promote"}
  PROVE  ~Onward(pc', tx'.man)
BY DEF Kept, Fits, Located, Phased, Onward, Preparing, Publishing

LEMMA UndoOnward ==
  ASSUME TypeInv, Kept, Undo, Onward(pc', tx'.man)
  PROVE  Idly
<1>1. CASE Throws
  BY <1>1, ThrowsOn
<1>2. CASE StartUndo \/ DropStaged \/ CleanUp
  <2>1. /\ vault' = vault /\ tx'.man = man
        /\ pc' \in {"attention", "resume", "promote", "drop", "finish", "clean"}
    BY <1>2, TypeInvParts DEF StartUndo, DropStaged, CleanUp, End, Goto, Transactions
  <2> QED BY <2>1, IdlyOn DEF Preparing, Publishing
<1>3. CASE /\ ~Throws
           /\ \/ RollBackRecorded \/ Promote \/ DropUncheckpointed \/ StageBack \/ RecordBackIntent
              \/ FindRestored \/ RestoreMove \/ RecordProgress
  <2>1. pc' \in {"resume", "reverse", "intent", "progress", "finish", "promote"}
    BY <1>3 DEF RollBackRecorded, Promote, DropUncheckpointed, StageBack, RecordBackIntent,
                FindRestored, RestoreMove, RecordProgress, Goto
  <2> QED BY <2>1, UndoNotOn
<1>4. CASE RemoveArtifact
  <2>1. /\ vault' = vault /\ pc' \in {"clean", "rolled-back", "attention"}
        /\ tx'.man = man \/ tx'.man = NoManifest
    BY <1>4, TypeInvParts DEF RemoveArtifact, Goto, End, Persist, Transactions, NoTransaction
  <2>2. NoManifest.phase # "committed"
    BY DEF NoManifest, Prepared
  <2>3. tx'.man = man
    BY <2>1, <2>2 DEF Onward, Preparing, Publishing
  <2> QED BY <2>1, <2>3, IdlyOn DEF Preparing, Publishing
<1> QED BY <1>1, <1>2, <1>3, <1>4 DEF Undo, RefuseResume

LEMMA MoveOnward ==
  ASSUME TypeInv, Kept, MoveStep, Onward(pc', tx'.man)
  PROVE  Idly \/ pc = "moving"
<1>1. pc \in {"moving", "finish", "reverse"}
  BY DEF MoveStep, RecordStage, MakeReservation, MoveCompanion, FinishMove, RefuseMove, Moving
<1>2. CASE Throws
  BY <1>2, ThrowsOn
<1>3. CASE pc \in {"finish", "reverse"} /\ Goto(pc)
  BY <1>3, UndoNotOn DEF Goto
<1>4. CASE pc \in {"finish", "reverse"} /\ FinishMove
  <2>1. vault' = vault /\ tx'.man = man /\ pc' \in {"promote", "progress", "attention"}
    BY <1>4, TypeInvParts DEF FinishMove, Goto, End
  <2> QED BY <2>1, IdlyOn DEF Preparing, Publishing
<1> QED BY <1>1, <1>2, <1>3, <1>4 DEF MoveStep, RecordStage, MakeReservation, MoveCompanion, RefuseMove

LEMMA CallOnward ==
  ASSUME TypeInv, Kept, Call, Onward(pc', tx'.man)
  PROVE  \/ Idly
         \/ ~Throws /\ SwapMember
         \/ ~Throws /\ pc = "moving" /\ (LinkTarget \/ ShowReservation \/ UnlinkSource)
<1>1. CASE Throws
  BY <1>1, ThrowsOn
<1>2. CASE ~Throws /\ (RestoreWrite \/ RestoreCreate)
  <2>1. pc' = "progress"
    BY <1>2 DEF RestoreWrite, RestoreCreate, Goto
  <2> QED BY <2>1, UndoNotOn
<1>3. CASE ~Throws /\ (LinkTarget \/ ShowReservation \/ UnlinkSource)
  <2>1. pc \in {"moving", "finish", "reverse"} /\ pc' = pc
    BY <1>3 DEF LinkTarget, ShowReservation, UnlinkSource, Moving, Goto
  <2> QED BY <1>3, <2>1, UndoNotOn
<1> QED BY <1>1, <1>2, <1>3 DEF Call

LEMMA FaultOnward ==
  ASSUME TypeInv, Misfortune, Onward(pc', tx'.man)
  PROVE  Idly \/ FailsAfterCommit
<1>1. CASE Fails \/ FailsToLock \/ Crash \/ CrashInPersist
  <2>1. vault' = vault /\ tx'.man = man /\ pc' \in {"undo", "attention", "down"}
    BY <1>1, TypeInvParts DEF Fails, FailsToLock, Crash, CrashInPersist, Caught, Dies, Transactions
  <2> QED BY <2>1, IdlyOn DEF Preparing, Publishing
<1>2. CASE CutsArtifact
  <2>1. CutPrivateFile /\ pc' \in {"undo", "attention", "down"}
    BY <1>2 DEF CutsArtifact, Caught, Dies
  <2>2. pc \in {"preimages", "manifest", "stage", "resume"} /\ (pc = "resume" => Resuming)
    BY <2>1 DEF CutPrivateFile, Ready, Resuming
  <2>3. tx'.man.phase # "committed"
    <3>1. CASE pc = "manifest"
      <4>1. Persist(TornManifest) /\ TornManifest.phase = "torn"
        BY <2>1, <3>1 DEF CutPrivateFile, Ready, Resuming, TornManifest, Prepared
      <4> QED BY <4>1, TypeInvParts DEF Persist, Transactions
    <3>2. CASE pc # "manifest"
      <4>1. tx'.man = man
        BY <2>1, <3>2, TypeInvParts DEF CutPrivateFile, Transactions
      <4>2. man.phase # "committed"
        BY <2>2, <3>2, TypeInvParts DEF Phased, Preparing, Publishing, NoManifest, Prepared
      <4> QED BY <4>1, <4>2
    <3> QED BY <3>1, <3>2
  <2> QED BY <2>1, <2>3 DEF Onward, Preparing, Publishing
<1> QED BY <1>1, <1>2 DEF Misfortune

LEMMA IdlyStraight ==
  ASSUME Straight(pc, vault, man, owed), Idly
  PROVE  Straight(pc', vault', tx'.man, owed)
BY StraightStill DEF Idly, Gone, Made

-----------------------------------------------------------------------------
(***************************************************************************)
(* The steps of the way.                                                   *)
(***************************************************************************)
LEMMA StartStraight ==
  ASSUME TypeInv, Straight(pc, vault, man, owed), CreateManifest \/ StartPublishing \/ ReadyMember \/ UnlinkStaged
  PROVE  Straight(pc', vault', tx'.man, owed)
<1>1. vault' = vault /\ man.done \in Nat /\ \A j \in Members : j \in Nat
  BY TypeInvParts, PlanParts DEF CreateManifest, StartPublishing, ReadyMember, UnlinkStaged
<1>2. CASE CreateManifest
  <2>1. Persist(Prepared) /\ pc' = "publish" /\ man = NoManifest
    BY <1>2, TypeInvParts DEF CreateManifest, Goto, Phased, Preparing
  <2>2. tx'.man.done = man.done /\ tx'.man.pend = man.pend
    BY <2>1, TypeInvParts DEF Persist, Transactions, Prepared, NoManifest
  <2> QED BY <1>1, <2>1, <2>2, StraightStill DEF Engaged, Gone, Made
<1>3. CASE StartPublishing
  <2>1. Persist([man EXCEPT !.phase = "publishing"]) /\ pc' = "member"
    BY <1>3 DEF StartPublishing, Goto
  <2>2. tx'.man.done = man.done /\ tx'.man.pend = man.pend
    BY <2>1, TypeInvParts DEF Persist, Transactions, Manifests
  <2> QED BY <1>1, <2>1, <2>2, StraightStill DEF Engaged, Gone, Made
<1>4. CASE ReadyMember
  <2>1. Persist([man EXCEPT !.pend.stage = "ready", !.pend.post = tx.staged]) /\ pc' = "swap" /\ pc = "ready"
    BY <1>4 DEF ReadyMember, Goto
  <2>2. man.pend # NoOperation /\ man.pend \in Operations
    BY <2>1, TypeInvParts, ManifestParts DEF Forward
  <2>3. tx'.man.done = man.done /\ tx'.man.pend.stage = "ready"
    BY <2>1, <2>2, TypeInvParts DEF Persist, Transactions, Manifests, Operations
  <2>4. tx'.man.pend # NoOperation
    BY <2>3, OperationParts
  <2> QED BY <1>1, <2>1, <2>2, <2>3, <2>4, StraightStill DEF Engaged, Gone, Made
<1>5. CASE UnlinkStaged
  <2>1. tx'.man = man /\ pc = "unlink" /\ pc' = "complete" /\ Kind(man.done + 1) # "move"
    BY <1>5, TypeInvParts DEF UnlinkStaged, Goto, Forward, Transactions
  <2>2. ASSUME NEW j \in Members
        PROVE  /\ Kind(j) = "move" /\ Gone(pc', man, j) => Gone(pc, man, j)
               /\ Made(pc', man, j) => Made(pc, man, j)
    BY <2>1 DEF Gone, Made
  <2> QED BY <1>1, <2>1, <2>2, StraightStill
<1> QED BY <1>2, <1>3, <1>4, <1>5

\* A member begins where its precondition holds: at a note that no move has taken.
LEMMA ReserveStraight ==
  ASSUME TypeInv, Straight(pc, vault, man, owed), ReserveMember, ~Throws
  PROVE  Straight(pc', vault', tx'.man, owed)
<1> DEFINE k == Coming
           at == FileAt(vault, plan[k].path)
           intent == IF Kind(k) = "move"
                     THEN [stage |-> "pre-link", pre |-> at, post |-> at,
                           comp |-> vault.dir[plan[k].path.page], resv |-> None]
                     ELSE [NoOperation EXCEPT !.stage = "reserved", !.pre = at]
<1>1. PICK op : op = intent
  OBVIOUS
<1>2. op # NoOperation
  BY <1>1 DEF NoOperation
<1>3. /\ Persist([man EXCEPT !.pend = op]) /\ vault' = vault /\ pc' \in {"moving", "stage"} /\ pc = "member"
      /\ Precondition(Coming)
  BY <1>1 DEF ReserveMember, Goto
<1> HIDE DEF k, at, intent
<1>4. /\ man.pend = NoOperation /\ man.phase = "publishing" /\ tx'.man.done = man.done /\ tx'.man.pend = op
  BY <1>3, TypeInvParts DEF Forward, Phased, Publishing, Persist, Transactions, Manifests
<1>5. /\ Coming \in Members /\ Coming = man.done + 1 /\ man.done \in Nat /\ \A j \in Members : j \in Nat
      /\ plan[Coming].path \in Paths /\ Kind(Coming) \in {"write", "create", "move"}
  BY <1>4, TypeInvParts, MemberUnderWay, PlanParts
<1>6. \A j \in Members : Engaged(tx'.man, j) <=> j <= man.done \/ j = Coming
  BY <1>2, <1>4, <1>5 DEF Engaged
<1>7. \A j \in Members : Engaged(man, j) <=> j <= man.done
  BY <1>4 DEF Engaged
<1>8. /\ Vacated(pc', vault', tx'.man)
      /\ \A j \in Moves : j <= man.done => vault.file[Source(j)] = None /\ vault.dir[Source(j)] = None
  BY <1>3, <1>4 DEF Straight, Vacated, Gone
<1>9. Kind(Coming) # "create" => \A j \in Moves : j <= man.done => Source(j) # plan[Coming].path.page
  <2>1. SUFFICES ASSUME Kind(Coming) # "create", NEW j \in Moves, j <= man.done,
                        Source(j) = plan[Coming].path.page
                 PROVE  FALSE
    OBVIOUS
  <2>2. FileAt(vault, plan[Coming].path) # None
    BY <1>3, <1>5, <2>1 DEF Precondition, TextIs
  <2> QED BY <1>8, <2>1, <2>2 DEF FileAt
<1>10. TakenOnce(tx'.man)
  <2>1. ASSUME NEW i \in Moves, NEW j \in Moves, Engaged(tx'.man, i), Engaged(tx'.man, j), Source(i) = Source(j)
        PROVE  i = j
    <3>1. Coming \in Moves => Source(Coming) = plan[Coming].path.page /\ Kind(Coming) # "create"
      BY DEF Moves, Source
    <3>2. i \in Members /\ j \in Members
      BY DEF Moves
    <3> QED BY <1>6, <1>7, <1>9, <2>1, <3>1, <3>2 DEF Straight, TakenOnce
  <2>2. ASSUME NEW w \in Members, NEW i \in Moves, Kind(w) = "write", Engaged(tx'.man, w), i < w
        PROVE  Source(i) # plan[w].path.page
    <3>1. CASE w = Coming
      <4>1. i <= man.done
        BY <1>5, <2>2, <3>1 DEF Moves
      <4> QED BY <1>9, <2>2, <3>1, <4>1
    <3>2. CASE w # Coming
      BY <1>6, <1>7, <2>2, <3>2 DEF Straight, TakenOnce
    <3> QED BY <3>1, <3>2
  <2> QED BY <2>1, <2>2 DEF TakenOnce
<1>11. \A t : Replaced(man, t) => Replaced(tx'.man, t)
  BY <1>6, <1>7 DEF Replaced
<1>12. \A j \in Members : Made(pc', tx'.man, j) => Made(pc, man, j)
  BY <1>3, <1>4 DEF Made
<1>13. Lasting(pc', vault', tx'.man, owed)
  BY <1>3, <1>11, <1>12 DEF Straight, Lasting
<1> QED BY <1>8, <1>10, <1>13 DEF Straight

LEMMA CompleteStraight ==
  ASSUME TypeInv, Straight(pc, vault, man, owed), CompleteMember \/ FailsAfterCommit
  PROVE  Straight(pc', vault', tx'.man, owed)
<1>1. /\ Persist(WithCompletion) /\ vault' = vault
      /\ pc = "complete" /\ pc' \in {"committed", "member", "attention", "undo"}
  BY DEF CompleteMember, FailsAfterCommit, End, Goto
<1>2. tx'.man.done = man.done + 1 /\ tx'.man.pend = NoOperation /\ man.pend # NoOperation
  BY <1>1, TypeInvParts DEF Persist, Transactions, WithCompletion, Manifests, Forward
<1>3. man.done \in Nat /\ \A j \in Members : j \in Nat
  BY TypeInvParts, PlanParts
<1>4. ASSUME NEW j \in Members
      PROVE  /\ Engaged(tx'.man, j) <=> Engaged(man, j)
             /\ Gone(pc', tx'.man, j) => Gone(pc, man, j)
             /\ Made(pc', tx'.man, j) => Made(pc, man, j)
  BY <1>1, <1>2, <1>3 DEF Engaged, Gone, Made
<1> QED BY <1>1, <1>4, StraightStill

\* The staged file is written beside the vault,
LEMMA StageStraight ==
  ASSUME TypeInv, Straight(pc, vault, man, owed), StageMember, ~Throws
  PROVE  Straight(pc', vault', tx'.man, owed)
<1>1. PICK i \in Fresh(vault, Private) :
        tx' = [tx EXCEPT !.staged = i] /\ vault' = Written(vault, i, New(Coming))
  BY DEF StageMember
<1>2. pc = "stage" /\ pc' = "ready" /\ New(Coming) \in Texts
  BY TypeInvParts, MemberUnderWay DEF StageMember, Goto, Phased, Publishing
<1>3. i \in Inodes /\ i \notin Held(vault)
  BY FreshHere
<1>4. vault'.file = vault.file /\ vault'.dir = vault.dir
  BY <1>1, <1>2, <1>3, TypeInvParts, WrittenParts
<1>5. \A t : t \in TextsIn(vault) => t \in TextsIn(vault')
  BY <1>1, <1>2, BesideText
<1>6. tx'.man = man
  BY <1>1, TypeInvParts DEF Transactions
<1>7. \A j \in Members : /\ Gone(pc', man, j) => Gone(pc, man, j)
                         /\ Made(pc', man, j) => Made(pc, man, j)
  BY <1>2 DEF Gone, Made
<1>8. Vacated(pc', vault', man)
  BY <1>4, <1>7 DEF Straight, Vacated, Moves
<1>9. \A k \in Members : Made(pc, man, k) => New(k) \in TextsIn(vault')
  BY <1>5 DEF Straight, Lasting
<1> QED BY <1>5, <1>6, <1>7, <1>8, <1>9, StraightOn

\* and put in place of what a write replaces, or where nothing is.
LEMMA MemberStraight ==
  ASSUME TypeInv, WhereInv, Straight(pc, vault, man, owed), pc = "swap", Precondition(Coming),
         vault' = PutAt(vault, plan[Coming].path, tx.staged), pc' \in {"complete", "unlink"},
         tx' \in {tx, [tx EXCEPT !.staged = None]}
  PROVE  Straight(pc', vault', tx'.man, owed)
<1> DEFINE path == plan[Coming].path
<1>1. vault' = PutAt(vault, path, tx.staged)
  OBVIOUS
<1>2. /\ man.phase = "publishing" /\ man.pend # NoOperation /\ Kind(Coming) # "move"
      /\ tx.staged \in Inode0 /\ tx.staged # None
  BY <1>1, TypeInvParts, TransactionParts DEF Phased, Publishing, Forward
<1>3. /\ Coming \in Members /\ Coming = man.done + 1 /\ path \in Paths /\ man.done \in Nat
      /\ Kind(Coming) \in {"write", "create"} /\ \A j \in Members : j \in Nat
  BY <1>2, MemberUnderWay, TypeInvParts, PlanParts
<1>4. vault.text[tx.staged] = New(Coming) /\ Sensible /\ tx'.man = man
  BY <1>1, <1>2, <1>3, TypeInvParts, WhereParts DEF Tidy, Phases, Transactions
<1>5. Kind(Coming) = "write" => TextIs(vault, path, Expected(Coming))
  BY <1>1 DEF Precondition
<1>6. Kind(Coming) = "create" => AbsentAt(vault, path)
  BY <1>1 DEF Precondition
<1>7. ParentExists(vault, path)
  BY <1>3, <1>5, <1>6, HeldTextIs DEF AbsentAt
<1>8. FileAt(vault', path) = tx.staged /\ vault'.text = vault.text /\ vault'.dir = vault.dir
  BY <1>1, <1>2, <1>3, <1>7, TypeInvParts, PutAtNames, PutAtParts
<1>9. New(Coming) \in TextsIn(vault')
  <2>1. TextIs(vault', path, New(Coming))
    BY <1>2, <1>4, <1>8 DEF TextIs
  <2> QED BY <1>3, <2>1, InTextsIn
<1>10. ASSUME NEW t \in TextsIn(vault), t \notin TextsIn(vault')
       PROVE  Kind(Coming) = "write" /\ t = Expected(Coming)
  <2>1. TextIs(vault, path, t) /\ FileAt(vault, path) # None
    BY <1>1, <1>2, <1>3, <1>10, TypeInvParts, PutAtKeeps
  <2>2. Kind(Coming) = "write"
    BY <1>3, <1>6, <2>1 DEF AbsentAt
  <2> QED BY <1>3, <1>5, <2>1, <2>2, HeldTextIs
<1>11. Engaged(man, Coming)
  BY <1>2, <1>3 DEF Engaged
<1>12. \A t : t \in TextsIn(vault) => t \in TextsIn(vault') \/ Replaced(man, t)
  BY <1>3, <1>10, <1>11 DEF Replaced
<1>13. ASSUME NEW k \in Members, Made(pc, man, k) PROVE New(k) \in TextsIn(vault')
  <2>1. New(k) \in TextsIn(vault)
    BY <1>13 DEF Straight, Lasting
  <2>2. New(k) # Expected(Coming)
    BY <1>3, TypeInvParts, ExpectedTyped, TextsAreOne
  <2> QED BY <1>10, <2>1, <2>2
<1>14. ASSUME NEW k \in Members, Made(pc', man, k) PROVE Made(pc, man, k) \/ New(k) \in TextsIn(vault')
  BY <1>3, <1>9, <1>14 DEF Made
<1>15. ASSUME NEW j \in Moves, Gone(pc', man, j)
       PROVE  vault'.file[Source(j)] = None /\ vault'.dir[Source(j)] = None
  <2>1. j \in Members /\ Kind(j) = "move" /\ Source(j) \in Pages /\ plan[j].path = Note(Source(j))
    BY <1>4, TypeInvParts, MoveExpects DEF Moves
  <2>2. j <= man.done
    BY <1>2, <1>3, <1>15, <2>1 DEF Gone
  <2>3. vault.file[Source(j)] = None /\ vault.dir[Source(j)] = None
    BY <1>15, <2>2 DEF Straight, Vacated, Gone
  <2>4. path # Note(Source(j))
    <3>1. CASE Kind(Coming) = "create"
      BY <1>3, <1>4, <2>1, <3>1 DEF Sensible
    <3>2. CASE Kind(Coming) = "write"
      <4>1. FileAt(vault, path) # None
        BY <1>5, <3>2 DEF TextIs
      <4> QED BY <2>1, <2>3, <4>1, PathsAreRecords DEF FileAt
    <3> QED BY <1>3, <3>1, <3>2
  <2>5. FileAt(vault', Note(Source(j))) = FileAt(vault, Note(Source(j)))
    BY <1>1, <1>2, <1>3, <2>1, <2>4, TypeInvParts, PathsAreRecords, PutAtNames
  <2>6. vault'.file[Source(j)] = None
    BY <2>1, <2>3, <2>5, PathsAreRecords DEF FileAt
  <2> QED BY <1>8, <2>3, <2>6
<1>16. Vacated(pc', vault', man)
  BY <1>15 DEF Vacated
<1> QED BY <1>4, <1>12, <1>13, <1>14, <1>16, StraightOn

LEMMA SwapStraight ==
  ASSUME TypeInv, WhereInv, Straight(pc, vault, man, owed), (SwapMember /\ Compared) \/ LinkMember, ~Throws
  PROVE  Straight(pc', vault', tx'.man, owed)
<1>1. pc = "swap" /\ PendingPrecondition(Coming)
  BY ComparedIs DEF SwapMember, LinkMember
<1> QED BY <1>1, MemberStraight DEF SwapMember, LinkMember, PendingPrecondition, Goto

\* A step of a move, before it is finished: what the moves before it left stays so.
LEMMA MovingStraight ==
  ASSUME TypeInv, WhereInv, Straight(pc, vault, man, owed), pc = "moving", pc' = pc,
         NEW m, m.done = man.done, m.pend # NoOperation,
         \A p \in Pages : p # Target(Coming) =>
            /\ vault'.file[p] \in {vault.file[p], None} /\ vault'.dir[p] \in {vault.dir[p], None},
         \A t : t \in TextsIn(vault) => t \in TextsIn(vault')
  PROVE  Straight(pc', vault', m, owed)
<1>1. /\ man.phase = "publishing" /\ man.pend # NoOperation
  BY TypeInvParts DEF Phased, Publishing, Forward
<1>2. Sensible /\ Coming \in Moves
  BY <1>1, TypeInvParts, WhereParts, MemberUnderWay DEF Phases, Forward, Moves
<1>3. \A j \in Members : /\ Engaged(m, j) <=> Engaged(man, j)
                         /\ Gone(pc', m, j) => Gone(pc, man, j)
                         /\ Made(pc', m, j) => Made(pc, man, j)
  BY <1>1 DEF Engaged, Gone, Made
<1>4. ASSUME NEW j \in Moves, Gone(pc', m, j)
      PROVE  vault'.file[Source(j)] = None /\ vault'.dir[Source(j)] = None
  <2>1. Source(j) \in Pages /\ Source(j) # Target(Coming) /\ j \in Members
    BY <1>2, TypeInvParts, MoveExpects DEF Sensible
  <2>2. vault.file[Source(j)] = None /\ vault.dir[Source(j)] = None
    BY <1>3, <1>4, <2>1 DEF Straight, Vacated
  <2> QED BY <2>1, <2>2
<1>5. Vacated(pc', vault', m)
  BY <1>4 DEF Vacated
<1>6. \A k \in Members : Made(pc, man, k) => New(k) \in TextsIn(vault')
  BY DEF Straight, Lasting
<1> QED BY <1>3, <1>5, <1>6, StraightOn

\* On the way forward a move goes from its source to its target.
LEMMA ForwardMove ==
  ASSUME TypeInv, pc = "moving"
  PROVE  /\ Moving /\ ~Backward /\ Mover = Coming /\ Operation = man.pend
         /\ From(Mover, Backward) = Source(Coming) /\ To(Mover, Backward) = Target(Coming)
         /\ Source(Coming) \in Pages /\ Target(Coming) \in Pages /\ Source(Coming) # Target(Coming)
         /\ man.pend # NoOperation /\ Kind(Coming) = "move" /\ Coming \in Members /\ Coming = man.done + 1
<1>1. Moving /\ ~Backward
  BY DEF Moving, Backward
<1>2. Mover = Coming /\ Operation = man.pend /\ man.pend # NoOperation
  BY <1>1, TypeInvParts DEF Mover, Operation, Forward
<1>3. From(Mover, Backward) = Source(Coming) /\ To(Mover, Backward) = Target(Coming)
  BY <1>1, <1>2 DEF From, To, Source, Target
<1> QED BY <1>1, <1>2, <1>3, MoverParts, TypeInvParts

\* It changes names of these two pages only.
LEMMA MoveChanges ==
  ASSUME TypeInv, pc = "moving", ~Throws,
         LinkTarget \/ MakeReservation \/ ShowReservation \/ MoveCompanion \/ UnlinkSource
  PROVE  /\ pc' = pc /\ tx'.man = man
         /\ \A p \in Pages : p # Target(Coming) =>
              /\ vault'.file[p] \in {vault.file[p], None} /\ vault'.dir[p] \in {vault.dir[p], None}
<1> DEFINE from == Source(Coming)
           to == Target(Coming)
<1>1. /\ from \in Pages /\ to \in Pages /\ from # to /\ From(Mover, Backward) = from /\ To(Mover, Backward) = to
      /\ Note(from) \in Paths /\ Note(from).page = from /\ ~Note(from).inside
      /\ Note(to) \in Paths /\ Note(to).page = to /\ ~Note(to).inside
      /\ FileAt(vault, Note(from)) \in Inode0 /\ None \in Inode0
  BY ForwardMove, PathsAreRecords, NoneIsNoInode, TypeInvParts, FileAtTyped
<1> HIDE DEF from, to
<1>2. pc' = pc /\ tx'.man = man
  BY TypeInvParts DEF LinkTarget, MakeReservation, ShowReservation, MoveCompanion, UnlinkSource, Goto, Transactions
<1>3. CASE LinkTarget
  <2>1. vault' = PutAt(vault, Note(to), FileAt(vault, Note(from)))
    BY <1>1, <1>3 DEF LinkTarget
  <2> QED BY <1>1, <1>2, <2>1, TypeInvParts, PutNoteParts DEF to
<1>4. CASE UnlinkSource
  <2>1. vault' = PutAt(vault, Note(from), None)
    BY <1>1, <1>4 DEF UnlinkSource, RemoveAt
  <2> QED BY <1>1, <1>2, <2>1, TypeInvParts, PutNoteParts DEF to
<1>5. CASE MakeReservation
  <2>1. PICK d \in Fresh(vault, Private) : vault' = Emptied(vault, d)
    BY <1>5 DEF MakeReservation
  <2>2. vault'.file = vault.file /\ vault'.dir = vault.dir
    BY <2>1, TypeInvParts, FreshHere, EmptiedParts
  <2> QED BY <1>2, <2>2
<1>6. CASE ShowReservation
  <2>1. vault' = PutDirectory(vault, to, tx.resv)
    BY <1>1, <1>6 DEF ShowReservation
  <2>2. vault'.file = vault.file /\ \A p \in Pages : p # to => vault'.dir[p] = vault.dir[p]
    BY <2>1, TypeInvParts, VaultParts DEF PutDirectory, Vaults
  <2> QED BY <1>2, <2>2 DEF to
<1>7. CASE MoveCompanion
  <2>1. vault' = MoveDirectory(vault, from, to)
    BY <1>1, <1>7 DEF MoveCompanion
  <2>2. vault.dir[to] = Operation.resv /\ EmptyDirectory(vault, Operation.resv)
    BY <1>1, <1>7, LayoutMeans DEF CurrentLayout, MoveCompanion
  <2>3. /\ vault'.file = vault.file /\ vault'.dir[from] = None
        /\ \A p \in Pages : p \notin {from, to} => vault'.dir[p] = vault.dir[p]
    BY <1>1, <2>1, <2>2, TypeInvParts, ShiftDirectory DEF EmptyDirectory
  <2> QED BY <1>2, <2>3 DEF to
<1> QED BY <1>3, <1>4, <1>5, <1>6, <1>7

\* The source is unlinked when the target has the same text.
LEMMA UnlinkSourceHolds == ASSUME TypeInv, Compared, UnlinkSource PROVE LosesNoText
<1> DEFINE from == From(Mover, Backward)
           to == To(Mover, Backward)
<1>1. CASE Throws
  BY <1>1 DEF Throws, LosesNoText
<1>2. CASE ~Throws
  <2>1. /\ Moving /\ tx' = tx /\ CurrentLayout \in {"target-linked", "companion-moved"}
        /\ vault' = PutAt(vault, Note(from), None)
    BY <1>2, ComparedIs DEF UnlinkSource, RemoveAt
  <2>2. /\ TextIs(vault, Note(from), Expected(Mover)) /\ TextIs(vault, Note(to), Expected(Mover))
    BY <2>1, LayoutMeans DEF CurrentLayout
  <2>3. /\ from # to /\ Note(from) \in Paths /\ Note(to) \in Paths /\ None \in Inode0
        /\ ~Note(from).inside /\ Note(from).page = from /\ Note(to).page = to
    BY <2>1, MoverParts, PathsAreRecords, NoneIsNoInode
  <2>4. FileAt(vault', Note(to)) = FileAt(vault, Note(to)) /\ vault'.text = vault.text
    BY <2>1, <2>3, TypeInvParts, PutAtNames, PutAtParts
  <2>5. Expected(Mover) \in TextsIn(vault')
    BY <2>2, <2>3, <2>4, InTextsIn DEF TextIs
  <2>6. ASSUME NEW t \in TextsIn(vault) PROVE t \in TextsIn(vault')
    <3>1. CASE TextIs(vault, Note(from), t)
      BY <2>2, <2>5, <3>1 DEF TextIs
    <3>2. CASE ~TextIs(vault, Note(from), t)
      BY <2>1, <2>3, <3>2, TypeInvParts, PutAtKeeps
    <3> QED BY <3>1, <3>2
  <2> QED BY <2>1, <2>6 DEF LosesNoText
<1> QED BY <1>1, <1>2

\* A step that changes names of a move loses no text,
LEMMA ChangeStraight ==
  ASSUME TypeInv, WhereInv, Straight(pc, vault, man, owed), pc = "moving", ~Throws,
         \/ LinkTarget \/ MakeReservation \/ ShowReservation \/ MoveCompanion
         \/ UnlinkSource /\ Compared
  PROVE  Straight(pc', vault', tx'.man, owed)
<1>1. man.pend # NoOperation /\ man.done \in Nat /\ \A j \in Members : j \in Nat
  BY ForwardMove, TypeInvParts, PlanParts
<1>2. LosesNoText
  BY LinkTargetHolds, MakeReservationHolds, ShowReservationHolds, MoveCompanionHolds, UnlinkSourceHolds
<1> QED BY <1>1, <1>2, MoveChanges, MovingStraight DEF LosesNoText

\* and the others change no name.
LEMMA MoveStraight ==
  ASSUME TypeInv, WhereInv, Straight(pc, vault, man, owed), MoveStep, pc = "moving", ~Throws
  PROVE  Straight(pc', vault', tx'.man, owed)
<1>1. man.pend # NoOperation /\ man.done \in Nat /\ \A j \in Members : j \in Nat
  BY ForwardMove, TypeInvParts, PlanParts
<1>2. CASE MakeReservation \/ MoveCompanion
  BY <1>2, ChangeStraight
<1>3. CASE RecordStage
  <2>1. PICK stage \in NextStage :
          \E resv : Persist(WithOperation([Operation EXCEPT !.stage = stage, !.resv = resv]))
    BY <1>3 DEF RecordStage
  <2>2. PICK resv : Persist([man EXCEPT !.pend = [man.pend EXCEPT !.stage = stage, !.resv = resv]])
    BY <2>1, ForwardMove DEF WithOperation
  <2>3. stage \in Stages /\ stage # "none"
    BY <1>3, ForwardMove, NextStageIs DEF Stages
  <2>4. man.pend \in Operations /\ man \in Manifests /\ tx \in Transactions
    BY TypeInvParts, ManifestParts
  <2>5. tx'.man.done = man.done /\ tx'.man.pend.stage = stage
    BY <2>2, <2>4, TypeInvParts DEF Persist, Transactions, Manifests, Operations
  <2>6. tx'.man.pend # NoOperation
    BY <2>3, <2>5, OperationParts
  <2>7. vault' = vault /\ pc' = pc
    BY <1>3 DEF RecordStage, Goto
  <2> QED BY <1>1, <2>5, <2>6, <2>7, StraightStill DEF Engaged, Gone, Made
<1>4. CASE FinishMove
  <2>1. CurrentLayout = "published" /\ vault' = vault /\ tx'.man = man /\ pc' = "complete"
    BY <1>4, TypeInvParts DEF FinishMove, Arrived, Goto
  <2>2. vault.file[Source(Coming)] = None /\ vault.dir[Source(Coming)] = None
    BY <2>1, ForwardMove, LayoutEnds DEF CurrentLayout
  <2>3. Vacated(pc', vault', man)
    BY <1>1, <2>1, <2>2, ForwardMove DEF Straight, Vacated, Gone, Moves
  <2>4. \A k \in Members : Made(pc', man, k) => Made(pc, man, k)
    BY <2>1, ForwardMove DEF Made
  <2>5. \A k \in Members : Made(pc, man, k) => New(k) \in TextsIn(vault')
    BY <2>1 DEF Straight, Lasting
  <2> QED BY <2>1, <2>3, <2>4, <2>5, StraightOn
<1> QED BY <1>2, <1>3, <1>4 DEF MoveStep, RefuseMove

-----------------------------------------------------------------------------
LEMMA ApplyStraight ==
  ASSUME TypeInv, WhereInv, touched = {}, StraightInv, Apply, Onward(pc', tx'.man)
  PROVE  Straight(pc', vault', tx'.man, owed)
<1>1. Idly => Straight(pc', vault', tx'.man, owed)
  BY IdlyStraight DEF StraightInv, Idly
<1>2. CASE Throws
  BY <1>1, <1>2, ThrowsOn
<1>3. CASE Begin \/ MakeDirectory \/ SavePreimage
  <2>1. /\ pc \in {"idle", "directory", "preimages"} /\ vault' = vault /\ tx'.man = man
        /\ pc' \in {"directory", "attention", "manifest", "preimages"}
    BY <1>3, TypeInvParts DEF Begin, MakeDirectory, SavePreimage, End, Goto, Transactions
  <2> QED BY <1>1, <2>1 DEF Idly, Onward, Preparing
<1>4. ASSUME ~(Begin \/ MakeDirectory \/ SavePreimage)
      PROVE  Straight(pc, vault, man, owed)
  <2>1. pc \in Preparing \union Publishing
    BY <1>4 DEF Apply, CreateManifest, StartPublishing, ReserveMember, StageMember, ReadyMember,
                RefuseSwap, LinkMember, UnlinkStaged, CompleteMember, Preparing, Publishing
  <2> QED BY <2>1 DEF StraightInv, Onward
<1> QED BY <1>2, <1>3, <1>4, StartStraight, ReserveStraight, StageStraight, SwapStraight, CompleteStraight
        DEF Apply, RefuseSwap

\* While the owner changes nothing, a call finds what the comparison found.
LEMMA CallStraight ==
  ASSUME TypeInv, WhereInv, touched = {}, StraightInv, Compared, Kept, Call, Onward(pc', tx'.man)
  PROVE  Straight(pc', vault', tx'.man, owed)
<1>1. Idly => Straight(pc', vault', tx'.man, owed)
  BY IdlyStraight DEF StraightInv, Idly
<1>2. CASE ~Throws /\ SwapMember
  <2>1. pc = "swap"
    BY <1>2 DEF SwapMember
  <2> QED BY <1>2, <2>1, SwapStraight DEF StraightInv, Onward, Publishing
<1>3. CASE ~Throws /\ pc = "moving" /\ (LinkTarget \/ ShowReservation \/ UnlinkSource)
  BY <1>3, ChangeStraight DEF StraightInv, Onward, Publishing
<1> QED BY <1>1, <1>2, <1>3, CallOnward

LEMMA NextStraight ==
  ASSUME TypeInv, WindowInv, WhereInv, StraightInv, Next, touched' = {}, Onward(pc', tx'.man)
  PROVE  Straight(pc', vault', tx'.man, owed')
<1>1. ~OwnerActs
  BY DEF OwnerActs, OwnerDoes
<1>2. Kept /\ owed' = owed /\ touched = {}
  BY <1>1, StepKeeps DEF Next, Kept
<1>3. Idly => Straight(pc', vault', tx'.man, owed')
  BY <1>2, IdlyStraight DEF StraightInv, Idly
<1>4. CASE MoveStep
  <2>1. CASE Throws
    BY <1>3, <2>1, ThrowsOn
  <2>2. CASE pc = "moving" /\ ~Throws
    BY <1>2, <1>4, <2>2, MoveStraight DEF StraightInv, Onward, Publishing
  <2> QED BY <1>2, <1>3, <1>4, <2>1, <2>2, MoveOnward
<1>5. CASE Undo
  BY <1>2, <1>3, <1>5, UndoOnward
<1>6. CASE Recover
  <2>1. /\ vault' = vault /\ tx'.man = man
        /\ pc' \in {"nothing", "attention", "committed", "undo"}
    BY <1>6, TypeInvParts, FindingIs DEF Recover, End
  <2> QED BY <1>3, <2>1, IdlyOn DEF Preparing, Publishing
<1>7. CASE OwnerClearsLock \/ LookLast
  <2>1. vault' = vault /\ tx'.man = man /\ pc' = pc
    BY <1>7, TypeInvParts DEF OwnerClearsLock, LookLast, Compare
  <2> QED BY <1>3, <2>1 DEF Idly
<1>8. CASE Misfortune
  <2>1. CASE FailsAfterCommit
    BY <1>2, <2>1, CompleteStraight DEF FailsAfterCommit, StraightInv, Onward, Publishing
  <2> QED BY <1>3, <1>8, <2>1, FaultOnward
<1>9. CASE Apply
  BY <1>2, <1>9, ApplyStraight
<1>10. CASE NoticeOwner
  BY <1>3, <1>10, ThrowsOn DEF NoticeOwner
<1>11. CASE Call /\ window # "closed"
  <2>1. Compared
    BY <1>2, <1>11 DEF TypeInv, WindowInv
  <2> QED BY <1>2, <1>11, <2>1, CallStraight
<1> QED BY <1>1, <1>2, <1>4, <1>5, <1>6, <1>7, <1>8, <1>9, <1>10, <1>11 DEF Next, Process

LEMMA StepStraight ==
  ASSUME TypeInv, WindowInv, WhereInv, StraightInv, [Next]_vars
  PROVE  StraightInv'
<1>1. man = tx.man /\ (StraightInv' <=> (touched' = {} /\ Onward(pc, man)' => Straight(pc, vault, man, owed)'))
  BY DEF StraightInv, man
<1>2. plan' = plan
  BY OwnerParts DEF vars, Next, Process, LookLast, Misfortune, Owner
<1>3. /\ Onward(pc, man)' <=> Onward(pc', tx'.man)
      /\ Straight(pc, vault, man, owed)' <=> Straight(pc', vault', tx'.man, owed')
  BY <1>1, <1>2, SameStraight DEF man
<1>4. CASE Next
  BY <1>1, <1>3, <1>4, NextStraight
<1>5. CASE UNCHANGED vars
  <2>1. pc' = pc /\ vault' = vault /\ tx' = tx /\ owed' = owed /\ touched' = touched
    BY <1>5 DEF vars
  <2> QED BY <1>1, <1>3, <2>1 DEF StraightInv
<1> QED BY <1>4, <1>5

LEMMA InitStraight == ASSUME Init PROVE StraightInv
<1>1. tx = NoTransaction /\ pc = "idle" /\ plan \in Plans /\ TypeInv /\ TextInv
  BY InitTyped DEF Init
<1>2. man.done = 0 /\ man.pend = NoOperation
  BY <1>1 DEF man, NoTransaction, NoManifest, Prepared
<1>3. \A j \in Members : ~Engaged(man, j) /\ ~Gone(pc, man, j) /\ ~Made(pc, man, j)
  BY <1>1, <1>2, PlanParts DEF Engaged, Gone, Made
<1>4. owed \subseteq TextsIn(vault)
  BY <1>1 DEF TextInv
<1> QED BY <1>3, <1>4 DEF StraightInv, Straight, Vacated, TakenOnce, Lasting, Moves

-----------------------------------------------------------------------------
(***************************************************************************)
(* What is committed.                                                      *)
(***************************************************************************)
LEMMA CommittedParts ==
  ASSUME TypeInv, WhereInv, EndInv, StraightInv, pc = "committed", touched = {}
  PROVE  /\ Sensible /\ TakenOnce(man) /\ Lasting(pc, vault, man, owed)
         /\ \A j \in Members : Engaged(man, j)
         /\ \A j \in Moves : vault.file[Source(j)] = None /\ vault.dir[Source(j)] = None
         /\ \A k \in Members : Kind(k) # "move" => New(k) \in TextsIn(vault)
<1>1. man.phase = "committed" /\ man.done = Len(plan)
  BY TypeInvParts DEF EndInv, Ended, ManifestFacts
<1>2. Straight(pc, vault, man, owed) /\ Sensible
  BY <1>1, WhereParts DEF StraightInv, Onward, Phases
<1>3. \A j \in Members : j <= man.done
  BY <1>1 DEF Members
<1> QED BY <1>2, <1>3 DEF Straight, Vacated, Lasting, Engaged, Gone, Made, Moves

\* Where the later moves take a path: nowhere, or where the one move from its page goes.
LEMMA CarriedIs ==
  ASSUME plan \in Plans, TakenOnce(man), \A j \in Members : Engaged(man, j),
         NEW x \in Paths, NEW k
  PROVE  \/ Carried(x, k) = x /\ \A j \in Moves : j > k => Source(j) # x.page
         \/ \E j \in Moves : /\ j > k /\ Source(j) = x.page /\ Carried(x, k) \in Paths
                             /\ Carried(x, k).page = Target(j) /\ Carried(x, k).inside = x.inside
<1> DEFINE moves == {j \in Members : j > k /\ Kind(j) = "move" /\ plan[j].path.page = x.page}
<1>1. \A j : j \in moves <=> j \in Moves /\ j > k /\ Source(j) = x.page
  BY DEF Moves, Source
<1>2. CASE moves = {}
  BY <1>1, <1>2 DEF Carried
<1>3. CASE moves # {}
  <2>1. PICK j \in moves : j = CHOOSE i \in moves : TRUE
    BY <1>3
  <2>2. Carried(x, k) = [x EXCEPT !.page = Target(j)]
    BY <1>3, <2>1 DEF Carried, Target
  <2>3. Target(j) \in Pages
    BY <2>1, PlanParts DEF Target
  <2>4. Carried(x, k) \in Paths /\ Carried(x, k).page = Target(j) /\ Carried(x, k).inside = x.inside
    BY <2>2, <2>3 DEF Paths
  <2> HIDE DEF moves
  <2> QED BY <1>1, <2>1, <2>4
<1> QED BY <1>2, <1>3

\* All that is in the vault is where the moves after it took it.
LEMMA CarriedThere ==
  ASSUME TypeInv, WhereInv, EndInv, StraightInv, pc = "committed", touched = {},
         NEW x \in Paths, NEW s \in 0..Len(plan), Tracked(x, s), TextOf(x, s) \in TextsIn(vault)
  PROVE  TextIs(vault, Carried(x, s), TextOf(x, s))
<1>1. PICK y \in Paths : TextIs(vault, y, TextOf(x, s))
  BY InTextsIn
<1>2. plan \in Plans /\ TakenOnce(man) /\ \A j \in Members : Engaged(man, j)
  BY TypeInvParts, CommittedParts
<1>3. y = x \/ \E j \in Moves : Leads(j, x, s, y)
  BY <1>1, WhereParts DEF Placed, Reached
<1>4. ASSUME NEW j \in Moves, Source(j) = x.page PROVE y # x
  BY <1>1, <1>4, CommittedParts DEF TextIs, FileAt
<1>5. y = Carried(x, s)
  <2>1. CASE Carried(x, s) = x /\ \A j \in Moves : j > s => Source(j) # x.page
    BY <1>3, <2>1 DEF Leads
  <2>2. ASSUME NEW j \in Moves, j > s, Source(j) = x.page, Carried(x, s) \in Paths,
               Carried(x, s).page = Target(j), Carried(x, s).inside = x.inside
        PROVE  y = Carried(x, s)
    <3>1. PICK i \in Moves : Leads(i, x, s, y)
      BY <1>3, <1>4, <2>2
    <3>2. i = j
      BY <1>2, <2>2, <3>1 DEF TakenOnce, Leads, Moves
    <3> QED BY <2>2, <3>1, <3>2, PathsAreRecords DEF Leads
  <2> QED BY <1>2, <2>1, <2>2, CarriedIs
<1> QED BY <1>1, <1>5

\* A text that a write replaced would be where the text of the write is.
LEMMA ReplacedThere ==
  ASSUME TypeInv, WhereInv, EndInv, StraightInv, pc = "committed", touched = {},
         NEW x \in Paths, NEW w \in Members, Kind(w) = "write", Old(x) = Expected(w)
  PROVE  Carried(x, 0) = Carried(plan[w].path, w)
<1> DEFINE path == plan[w].path
<1>1. plan \in Plans /\ Sensible /\ TakenOnce(man) /\ \A j \in Members : Engaged(man, j)
  BY TypeInvParts, CommittedParts
<1>2. path \in Paths /\ \A j \in Moves : j \in Nat /\ j > 0 /\ j \in Members /\ Kind(j) = "move"
  BY <1>1, PlanParts DEF Moves
<1>3. BeforeMoves(w, path) \in Paths
  BY <1>1, <1>2, BeforeMovesIs
<1>4. x = BeforeMoves(w, path)
  BY <1>3, TextsAreOne DEF Expected
<1>5. CASE x = path /\ \A j \in Moves : j < w => Target(j) # path.page
  <2>1. \A j \in Moves : j < w => Source(j) # x.page
    BY <1>1, <1>5 DEF TakenOnce
  <2>2. \A j \in Members : Kind(j) = "move" /\ plan[j].path.page = x.page => (j > 0 <=> j > w)
    BY <1>1, <1>2, <2>1, PlanParts DEF Moves, Source
  <2>3. {j \in Members : j > 0 /\ Kind(j) = "move" /\ plan[j].path.page = x.page}
          = {j \in Members : j > w /\ Kind(j) = "move" /\ plan[j].path.page = x.page}
    BY <2>2
  <2> QED BY <1>5, <2>3 DEF Carried
<1>6. CASE \E j \in Moves : j < w /\ Target(j) = path.page /\ x.page = Source(j) /\ x.inside = path.inside
  <2>1. PICK j \in Moves : j < w /\ Target(j) = path.page /\ x.page = Source(j) /\ x.inside = path.inside
    BY <1>6
  <2>2. Carried(path, w) = path
    BY <1>1, <1>2, <2>1, CarriedIs DEF Sensible
  <2>3. Carried(x, 0) = path
    <3>1. PICK i \in Moves : /\ Source(i) = x.page /\ Carried(x, 0) \in Paths
                             /\ Carried(x, 0).page = Target(i) /\ Carried(x, 0).inside = x.inside
      BY <1>1, <1>2, <2>1, CarriedIs
    <3>2. i = j
      BY <1>1, <1>2, <2>1, <3>1 DEF TakenOnce
    <3> QED BY <1>2, <2>1, <3>1, <3>2, PathsAreRecords
  <2> QED BY <2>2, <2>3
<1> QED BY <1>1, <1>2, <1>4, <1>5, <1>6, BeforeMovesIs

LEMMA CommittedIsExact ==
  ASSUME TypeInv, WhereInv, EndInv, StraightInv, pc = "committed", touched = {}
  PROVE  LET rewritten == {Carried(plan[k].path, k) : k \in {j \in Members : Kind(j) = "write"}}
         IN /\ \A path \in Paths :
                 Old(path) \in owed =>
                   /\ Carried(path, 0) \notin rewritten => TextIs(vault, Carried(path, 0), Old(path))
                   /\ Carried(path, 0) # path => FileAt(vault, path) = None
            /\ \A k \in Members : Kind(k) # "move" => TextIs(vault, Carried(plan[k].path, k), New(k))
<1> DEFINE rewritten == {Carried(plan[k].path, k) : k \in {j \in Members : Kind(j) = "write"}}
<1>1. plan \in Plans /\ TakenOnce(man) /\ \A j \in Members : Engaged(man, j) /\ j # 0
  BY TypeInvParts, CommittedParts, PlanParts
<1>2. ASSUME NEW x \in Paths, Old(x) \in owed, Carried(x, 0) \notin rewritten
      PROVE  TextIs(vault, Carried(x, 0), Old(x))
  <2>1. ~Replaced(man, Old(x))
    BY <1>2, ReplacedThere DEF Replaced
  <2>2. Old(x) \in TextsIn(vault)
    BY <1>2, <2>1, CommittedParts DEF Lasting
  <2>3. Tracked(x, 0) /\ TextOf(x, 0) = Old(x) /\ 0 \in 0..Len(plan)
    BY <1>1, PlanParts DEF Tracked, TextOf
  <2> QED BY <2>2, <2>3, CarriedThere
<1>3. ASSUME NEW x \in Paths, Carried(x, 0) # x PROVE FileAt(vault, x) = None
  <2>1. PICK j \in Moves : Source(j) = x.page
    BY <1>1, <1>3, CarriedIs
  <2> QED BY <2>1, CommittedParts DEF FileAt
<1>4. ASSUME NEW k \in Members, Kind(k) # "move" PROVE TextIs(vault, Carried(plan[k].path, k), New(k))
  <2>1. /\ plan[k].path \in Paths /\ Tracked(plan[k].path, k) /\ k \in 0..Len(plan)
        /\ TextOf(plan[k].path, k) = New(k)
    BY <1>1, PlanParts DEF Tracked, TextOf, Members
  <2>2. New(k) \in TextsIn(vault)
    BY <1>4, CommittedParts
  <2> QED BY <2>1, <2>2, CarriedThere
<1> QED BY <1>2, <1>3, <1>4

\* A transaction is all or nothing: what it answers "rolled-back" to left every text the
\* owner still has at the very path it had, and what it answers "committed" to put every
\* text, old or new, where the moves take it, unless the owner changed something herself.
THEOREM OutcomesAreExact == Spec => []OutcomeIsExact
<1> DEFINE Inv == /\ TypeInv /\ TextInv /\ WindowInv /\ WhereInv /\ LinkedInv /\ EndInv /\ StraightInv
<1>1. Init => Inv
  BY InitTyped, InitWindow, InitWhere, InitStraight DEF Init, LinkedInv
<1>2. Inv /\ [Next]_vars => Inv'
  BY StepTyped, StepText, StepWindow, StepWhere, StepLinked, EndStep, StepStraight
<1>3. Inv => OutcomeIsExact
  <2>1. SUFFICES ASSUME Inv PROVE OutcomeIsExact
    OBVIOUS
  <2> QED BY <2>1, RolledBackIsExact, CommittedIsExact DEF OutcomeIsExact
<1> QED BY <1>1, <1>2, <1>3, PTL DEF Spec

=============================================================================
