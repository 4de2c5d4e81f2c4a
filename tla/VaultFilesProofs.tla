-------------------------- MODULE VaultFilesProofs --------------------------
(***************************************************************************)
(* Lemmas about the operations on a vault, for the proofs about the two    *)
(* components that change one: which names an operation changes and which  *)
(* it keeps, what the owner's editor does, and what is where at first.  T  *)
(* is the set of texts a component knows.                                  *)
(***************************************************************************)
EXTENDS VaultFiles, TLAPS

-----------------------------------------------------------------------------
(***************************************************************************)
(* The operations of the file system.                                      *)
(***************************************************************************)
\* The parts of a vault.
LEMMA VaultParts ==
  ASSUME NEW T, NEW v \in Vaults(T)
  PROVE  /\ v.file \in [Pages -> Inode0] /\ v.dir \in [Pages -> Inode0]
         /\ v.child \in [Inodes -> Inode0] /\ v.text \in [Inodes -> T]
BY DEF Vaults

\* `None` is no inode.
LEMMA NoneIsNoInode == None \notin Inodes /\ None \in Inode0 /\ \A i \in Inode0 : i # None => i \in Inodes
BY InodesAssumption DEF None, Inode0

\* A path is known by its page and by where the note is.
LEMMA PathsAreRecords ==
  /\ \A p \in Pages : Note(p) \in Paths /\ Within(p) \in Paths
  /\ \A x \in Paths : x.page \in Pages /\ x.inside \in BOOLEAN
  /\ \A x, y \in Paths : x.page = y.page /\ x.inside = y.inside => x = y
  /\ \A x \in Paths : ~x.inside => x = Note(x.page)
  /\ \A x \in Paths : x.inside => x = Within(x.page)
  /\ \A p \in Pages : /\ Note(p).page = p /\ ~Note(p).inside
                      /\ Within(p).page = p /\ Within(p).inside
BY DEF Paths, Note, Within

\* What a name holds is an inode or nothing.
LEMMA FileAtTyped ==
  ASSUME NEW T, NEW v \in Vaults(T), NEW x \in Paths
  PROVE  FileAt(v, x) \in Inode0
BY VaultParts, PathsAreRecords, NoneIsNoInode DEF FileAt

\* The text of a file is one text.
LEMMA TextIsTyped ==
  ASSUME NEW T, NEW v \in Vaults(T), NEW x \in Paths, NEW t, TextIs(v, x, t)
  PROVE  FileAt(v, x) \in Inodes /\ t \in T
BY FileAtTyped, VaultParts, NoneIsNoInode DEF TextIs

\* A text is in the vault if some name holds it.
LEMMA InTextsIn ==
  ASSUME NEW v, NEW t
  PROVE  t \in TextsIn(v) <=> \E x \in Paths : TextIs(v, x, t)
BY DEF TextsIn, TextIs

\* Putting a file at a path changes one slot: a note's name,
LEMMA PutNoteParts ==
  ASSUME NEW T, NEW v \in Vaults(T), NEW x \in Paths, NEW i \in Inode0, ~x.inside
  PROVE  LET w == PutAt(v, x, i)
         IN /\ w \in Vaults(T) /\ w.dir = v.dir /\ w.text = v.text /\ w.child = v.child
            /\ w.file[x.page] = i
            /\ \A p \in Pages : p # x.page => w.file[p] = v.file[p]
<1>1. PutAt(v, x, i) = [v EXCEPT !.file = [v.file EXCEPT ![x.page] = i]]
  BY DEF PutAt, Vaults
<1>2. [v.file EXCEPT ![x.page] = i] \in [Pages -> Inode0] /\ x.page \in Pages
  BY VaultParts, PathsAreRecords
<1> QED BY <1>1, <1>2 DEF Vaults

\* or the one inside a companion.
LEMMA PutWithinParts ==
  ASSUME NEW T, NEW v \in Vaults(T), NEW x \in Paths, NEW i \in Inode0, x.inside
  PROVE  LET w == PutAt(v, x, i)
         IN /\ w \in Vaults(T) /\ w.dir = v.dir /\ w.text = v.text /\ w.file = v.file
            /\ v.dir[x.page] # None => w.child[v.dir[x.page]] = i
            /\ \A d \in Inodes : d # v.dir[x.page] => w.child[d] = v.child[d]
<1>1. PutAt(v, x, i) = [v EXCEPT !.child = [v.child EXCEPT ![v.dir[x.page]] = i]]
  BY DEF PutAt, Vaults
<1>2. [v.child EXCEPT ![v.dir[x.page]] = i] \in [Inodes -> Inode0]
  BY VaultParts
<1>3. v.dir[x.page] \in Inode0 /\ (v.dir[x.page] # None => v.dir[x.page] \in Inodes)
  BY VaultParts, PathsAreRecords, NoneIsNoInode
<1>4. v.child \in [Inodes -> Inode0]
  BY VaultParts
<1>5. PICK c : c = [v.child EXCEPT ![v.dir[x.page]] = i]
  OBVIOUS
<1>6. /\ c \in [Inodes -> Inode0]
      /\ v.dir[x.page] # None => c[v.dir[x.page]] = i
      /\ \A d \in Inodes : d # v.dir[x.page] => c[d] = v.child[d]
  BY <1>2, <1>3, <1>4, <1>5
<1>7. PutAt(v, x, i) = [v EXCEPT !.child = c]
  BY <1>1, <1>5
<1> QED BY <1>6, <1>7 DEF Vaults

\* Neither the directories nor the texts change.
LEMMA PutAtParts ==
  ASSUME NEW T, NEW v \in Vaults(T), NEW x \in Paths, NEW i \in Inode0
  PROVE  /\ PutAt(v, x, i) \in Vaults(T)
         /\ PutAt(v, x, i).dir = v.dir /\ PutAt(v, x, i).text = v.text
<1>1. CASE x.inside
  BY <1>1, PutWithinParts
<1>2. CASE ~x.inside
  BY <1>2, PutNoteParts
<1> QED BY <1>1, <1>2

\* Only the names of that slot change, and they change alike.
LEMMA PutAtNames ==
  ASSUME NEW T, NEW v \in Vaults(T), NEW x \in Paths, NEW i \in Inode0, NEW y \in Paths
  PROVE  /\ \/ FileAt(PutAt(v, x, i), y) = FileAt(v, y)
            \/ /\ FileAt(v, y) = FileAt(v, x)
               /\ FileAt(PutAt(v, x, i), y) = i /\ FileAt(PutAt(v, x, i), x) = i
         /\ ParentExists(v, x) => FileAt(PutAt(v, x, i), x) = i
         /\ y # x /\ ~(x.inside /\ y.inside) => FileAt(PutAt(v, x, i), y) = FileAt(v, y)
<1>0. PICK w : w = PutAt(v, x, i)
  OBVIOUS
<1>1. CASE x.inside
  <2>1. /\ w.file = v.file /\ w.dir = v.dir /\ (v.dir[x.page] # None => w.child[v.dir[x.page]] = i)
        /\ \A d \in Inodes : d # v.dir[x.page] => w.child[d] = v.child[d]
    BY <1>0, <1>1, PutWithinParts
  <2>2. v.dir[y.page] \in Inode0
    BY VaultParts, PathsAreRecords
  <2>3. CASE ~y.inside
    BY <1>0, <1>1, <2>1, <2>3 DEF FileAt, ParentExists
  <2>4. CASE y.inside /\ v.dir[y.page] = v.dir[x.page]
    BY <1>0, <1>1, <2>1, <2>4 DEF FileAt, ParentExists
  <2>5. CASE y.inside /\ v.dir[y.page] # v.dir[x.page]
    <3>1. v.dir[y.page] # None => w.child[v.dir[y.page]] = v.child[v.dir[y.page]]
      BY <2>1, <2>2, <2>5, NoneIsNoInode
    <3>2. FileAt(w, y) = FileAt(v, y)
      BY <2>1, <2>5, <3>1 DEF FileAt
    <3>3. ParentExists(v, x) => FileAt(w, x) = i
      BY <1>1, <2>1 DEF FileAt, ParentExists
    <3> QED BY <1>0, <1>1, <2>5, <3>2, <3>3
  <2> QED BY <2>3, <2>4, <2>5
<1>2. CASE ~x.inside
  <2>1. /\ w.dir = v.dir /\ w.child = v.child /\ w.file[x.page] = i
        /\ \A p \in Pages : p # x.page => w.file[p] = v.file[p]
    BY <1>0, <1>2, PutNoteParts
  <2> QED BY <1>0, <1>2, <2>1, PathsAreRecords DEF FileAt, ParentExists
<1> QED BY <1>1, <1>2

\* What a name holds when a path is free, it holds when a file is put there.
LEMMA RemovedIsPut ==
  ASSUME NEW T, NEW v \in Vaults(T), NEW x \in Paths, NEW i \in Inode0, NEW z \in Paths,
         FileAt(RemoveAt(v, x), z) # None
  PROVE  FileAt(RemoveAt(v, x), z) = FileAt(v, z) /\ FileAt(PutAt(v, x, i), z) = FileAt(v, z)
<1>1. None \in Inode0
  BY NoneIsNoInode
<1>2. FileAt(RemoveAt(v, x), z) = FileAt(v, z)
  BY <1>1, PutAtNames DEF RemoveAt
<1>3. CASE ~x.inside
  <2>1. z # x
    BY <1>1, <1>3, PutAtNames DEF RemoveAt, ParentExists
  <2> QED BY <1>2, <1>3, <2>1, PutAtNames
<1>4. CASE x.inside /\ ~z.inside
  BY <1>2, <1>4, PutAtNames
<1>5. CASE x.inside /\ z.inside
  <2>1. v.dir[z.page] \in Inodes
    BY <1>2, <1>5, VaultParts, PathsAreRecords, NoneIsNoInode DEF FileAt
  <2>2. PICK w \in Vaults(T) :
          /\ w = RemoveAt(v, x) /\ w.dir = v.dir
          /\ v.dir[x.page] # None => w.child[v.dir[x.page]] = None
    BY <1>1, <1>5, PutWithinParts DEF RemoveAt
  <2>3. FileAt(w, z) # None /\ w.dir[z.page] = v.dir[z.page] /\ v.dir[z.page] # None
    BY <2>1, <2>2, NoneIsNoInode
  <2>4. v.dir[z.page] # v.dir[x.page]
    BY <1>5, <2>2, <2>3 DEF FileAt
  <2> QED BY <1>2, <1>5, <2>1, <2>4, PutWithinParts DEF FileAt
<1> QED BY <1>3, <1>4, <1>5

\* What no name holds but this one is all that putting a file there can remove.
LEMMA PutAtKeeps ==
  ASSUME NEW T, NEW v \in Vaults(T), NEW x \in Paths, NEW i \in Inode0, NEW t, t \in TextsIn(v)
  PROVE  \/ t \in TextsIn(PutAt(v, x, i))
         \/ FileAt(v, x) # None /\ TextIs(v, x, t) /\ t \notin TextsIn(RemoveAt(v, x))
<1>1. PICK y \in Paths : TextIs(v, y, t)
  BY InTextsIn
<1>2. None \in Inode0
  BY NoneIsNoInode
<1>3. ASSUME NEW z \in Paths, TextIs(RemoveAt(v, x), z, t)
      PROVE  TextIs(PutAt(v, x, i), z, t)
  <2>1. FileAt(RemoveAt(v, x), z) = FileAt(v, z) /\ FileAt(PutAt(v, x, i), z) = FileAt(v, z)
    BY <1>3, RemovedIsPut DEF TextIs
  <2>2. RemoveAt(v, x).text = v.text /\ PutAt(v, x, i).text = v.text
    BY <1>2, PutAtParts DEF RemoveAt
  <2> QED BY <1>3, <2>1, <2>2 DEF TextIs
<1>4. CASE FileAt(PutAt(v, x, i), y) = FileAt(v, y)
  <2>0. PutAt(v, x, i).text = v.text
    BY PutAtParts
  <2>1. TextIs(PutAt(v, x, i), y, t)
    BY <1>1, <1>4, <2>0 DEF TextIs
  <2> QED BY <2>1, InTextsIn
<1>5. CASE FileAt(v, y) = FileAt(v, x)
  <2>1. TextIs(v, x, t) /\ FileAt(v, x) # None
    BY <1>1, <1>5 DEF TextIs
  <2>2. t \in TextsIn(RemoveAt(v, x)) => t \in TextsIn(PutAt(v, x, i))
    BY <1>3, InTextsIn
  <2> QED BY <2>1, <2>2
<1> QED BY <1>4, <1>5, PutAtNames

\* The vault holds what its names hold.
LEMMA HeldByNames ==
  ASSUME NEW T, NEW v \in Vaults(T)
  PROVE  /\ \A x \in Paths : FileAt(v, x) = None \/ FileAt(v, x) \in Held(v)
         /\ \A p \in Pages : v.dir[p] = None \/ v.dir[p] \in Held(v)
<1>1. \A p \in Pages : v.dir[p] = None \/ v.dir[p] \in Held(v)
  BY DEF Held
<1>2. \A x \in Paths : x.page \in Pages
  BY PathsAreRecords
<1>3. ASSUME NEW x \in Paths, ~x.inside PROVE FileAt(v, x) = None \/ FileAt(v, x) \in Held(v)
  BY <1>2, <1>3 DEF FileAt, Held
<1>4. ASSUME NEW x \in Paths, x.inside PROVE FileAt(v, x) = None \/ FileAt(v, x) \in Held(v)
  <2>1. CASE v.dir[x.page] = None
    BY <1>4, <2>1 DEF FileAt
  <2>2. CASE v.dir[x.page] # None
    <3>1. v.dir[x.page] \in {v.dir[p] : p \in Pages} \ {None}
      BY <1>2, <2>2
    <3>2. FileAt(v, x) = v.child[v.dir[x.page]]
      BY <1>4, <2>2 DEF FileAt
    <3> QED BY <3>1, <3>2 DEF Held
  <2> QED BY <2>1, <2>2
<1> QED BY <1>1, <1>3, <1>4

\* A fresh inode is held by no name and by nobody else.
LEMMA FreshIsFree ==
  ASSUME NEW v, NEW more
  PROVE  /\ \A d \in Fresh(v, more) : d \in Inodes /\ d # None /\ d \notin Held(v) /\ d \notin more
         /\ Reused(v, more) \subseteq Fresh(v, more)
<1>1. Fresh(v, more) \subseteq Inodes \ (Held(v) \union more)
  BY DEF Fresh
<1>2. Reused(v, more) \subseteq Fresh(v, more)
  BY DEF Reused
<1> QED BY <1>1, <1>2, NoneIsNoInode

\* A write changes a text and no name.
LEMMA WrittenParts ==
  ASSUME NEW T, NEW v \in Vaults(T), NEW i \in Inodes, NEW t \in T
  PROVE  LET w == Written(v, i, t)
         IN /\ w \in Vaults(T) /\ w.file = v.file /\ w.dir = v.dir /\ w.child = v.child
            /\ w.text[i] = t /\ \A j \in Inodes : j # i => w.text[j] = v.text[j]
            /\ \A x \in Paths : FileAt(w, x) = FileAt(v, x)
<1>1. Written(v, i, t) = [v EXCEPT !.text = [v.text EXCEPT ![i] = t]]
  BY DEF Written, Vaults
<1>2. [v.text EXCEPT ![i] = t] \in [Inodes -> T]
  BY VaultParts
<1> QED BY <1>1, <1>2 DEF Vaults, FileAt

\* A write to a file that no name holds leaves every name its text.
LEMMA WrittenAside ==
  ASSUME NEW T, NEW v \in Vaults(T), NEW i \in Inodes, NEW t \in T, i \notin Held(v),
         NEW x \in Paths, NEW s, TextIs(v, x, s)
  PROVE  TextIs(Written(v, i, t), x, s)
<1>1. FileAt(v, x) \in Inodes /\ FileAt(v, x) # i
  BY HeldByNames, TextIsTyped DEF TextIs
<1> QED BY <1>1, WrittenParts DEF TextIs

\* What the vault holds, name by name.
LEMMA HeldIs ==
  ASSUME NEW v, NEW i
  PROVE  i \in Held(v) <=>
           /\ i # None
           /\ \E p \in Pages : \/ v.file[p] = i \/ v.dir[p] = i
                               \/ v.dir[p] # None /\ v.child[v.dir[p]] = i
BY DEF Held

\* Putting a file at a path makes the vault hold no other inode.
LEMMA PutAtHeld ==
  ASSUME NEW T, NEW v \in Vaults(T), NEW x \in Paths, NEW i \in Inode0
  PROVE  Held(PutAt(v, x, i)) \subseteq Held(v) \union {i}
<1>0. PICK w : w = PutAt(v, x, i)
  OBVIOUS
<1> SUFFICES ASSUME NEW j \in Held(w), j # i PROVE j \in Held(v)
  BY <1>0
<1>1. PICK p \in Pages : \/ w.file[p] = j \/ w.dir[p] = j
                         \/ w.dir[p] # None /\ w.child[w.dir[p]] = j
  BY HeldIs
<1>2. j # None /\ x.page \in Pages /\ v.dir[p] \in Inode0
  BY HeldIs, PathsAreRecords, VaultParts
<1>3. CASE ~x.inside
  <2>1. /\ w.dir = v.dir /\ w.child = v.child /\ w.file[x.page] = i
        /\ \A q \in Pages : q # x.page => w.file[q] = v.file[q]
    BY <1>0, <1>3, PutNoteParts
  <2> QED BY <1>1, <1>2, <2>1, HeldIs
<1>4. CASE x.inside
  <2>1. /\ w.file = v.file /\ w.dir = v.dir /\ (v.dir[x.page] # None => w.child[v.dir[x.page]] = i)
        /\ \A d \in Inodes : d # v.dir[x.page] => w.child[d] = v.child[d]
    BY <1>0, <1>4, PutWithinParts
  <2>2. v.dir[p] # None => v.dir[p] \in Inodes
    BY <1>2, NoneIsNoInode
  <2> QED BY <1>1, <1>2, <2>1, <2>2, HeldIs
<1> QED BY <1>3, <1>4

\* A write makes it hold none.
LEMMA WrittenHeld ==
  ASSUME NEW T, NEW v \in Vaults(T), NEW i \in Inodes, NEW t \in T
  PROVE  Held(Written(v, i, t)) = Held(v)
<1>1. PICK w : w = Written(v, i, t)
  OBVIOUS
<1>2. w.file = v.file /\ w.dir = v.dir /\ w.child = v.child
  BY <1>1, WrittenParts
<1> QED BY <1>1, <1>2 DEF Held

\* A directory that no name holds is emptied unseen.
LEMMA EmptiedParts ==
  ASSUME NEW T, NEW v \in Vaults(T), NEW d \in Inodes, d \notin Held(v)
  PROVE  LET w == Emptied(v, d)
         IN /\ w \in Vaults(T) /\ w.file = v.file /\ w.dir = v.dir /\ w.text = v.text
            /\ \A e \in Inodes : e # d => w.child[e] = v.child[e]
            /\ \A x \in Paths : FileAt(w, x) = FileAt(v, x)
            /\ Held(w) = Held(v)
<1>1. Emptied(v, d) = [v EXCEPT !.child = [v.child EXCEPT ![d] = None]]
  BY DEF Emptied, Vaults
<1>2. [v.child EXCEPT ![d] = None] \in [Inodes -> Inode0]
  BY VaultParts, NoneIsNoInode
<1>3. PICK w : w = Emptied(v, d)
  OBVIOUS
<1>4. /\ w \in Vaults(T) /\ w.file = v.file /\ w.dir = v.dir /\ w.text = v.text
      /\ \A e \in Inodes : e # d => w.child[e] = v.child[e]
  BY <1>1, <1>2, <1>3, VaultParts DEF Vaults
<1>5. \A p \in Pages : v.dir[p] # None => v.dir[p] \in Inodes /\ v.dir[p] # d
  BY VaultParts, NoneIsNoInode, HeldByNames
<1>6. ASSUME NEW x \in Paths PROVE FileAt(w, x) = FileAt(v, x)
  BY <1>4, <1>5, PathsAreRecords DEF FileAt
<1>7. \A j : j \in Held(w) <=> j \in Held(v)
  BY <1>4, <1>5, HeldIs
<1> QED BY <1>3, <1>4, <1>6, <1>7

\* A new directory changes no file's name.
LEMMA NewDirectory ==
  ASSUME NEW T, NEW v \in Vaults(T), NEW p \in Pages, NEW d \in Inodes,
         NoDirectory(v, p), d \notin Held(v)
  PROVE  LET w == PutDirectory(Emptied(v, d), p, d)
         IN /\ w \in Vaults(T) /\ w.file = v.file /\ w.text = v.text
            /\ w.dir[p] = d /\ \A q \in Pages : q # p => w.dir[q] = v.dir[q]
            /\ w.child[d] = None /\ \A e \in Inodes : e # d => w.child[e] = v.child[e]
            /\ \A x \in Paths : FileAt(w, x) = FileAt(v, x)
<1>1. PutDirectory(Emptied(v, d), p, d) =
        [v EXCEPT !.child = [v.child EXCEPT ![d] = None], !.dir = [v.dir EXCEPT ![p] = d]]
  BY DEF PutDirectory, Emptied, Vaults
<1>2. [v.child EXCEPT ![d] = None] \in [Inodes -> Inode0] /\ [v.dir EXCEPT ![p] = d] \in [Pages -> Inode0]
  BY VaultParts, NoneIsNoInode DEF Inode0
<1>3. PICK w : w = PutDirectory(Emptied(v, d), p, d)
  OBVIOUS
<1>4. /\ w \in Vaults(T) /\ w.file = v.file /\ w.text = v.text
      /\ w.dir[p] = d /\ \A q \in Pages : q # p => w.dir[q] = v.dir[q]
      /\ w.child[d] = None /\ \A e \in Inodes : e # d => w.child[e] = v.child[e]
  BY <1>1, <1>2, <1>3 DEF Vaults
<1>5. ASSUME NEW x \in Paths PROVE FileAt(w, x) = FileAt(v, x)
  <2>1. x.page \in Pages /\ v.dir[x.page] \in Inode0
    BY PathsAreRecords, VaultParts
  <2>2. CASE ~x.inside
    BY <1>4, <2>2 DEF FileAt
  <2>3. CASE x.inside /\ x.page = p
    BY <1>4, <2>1, <2>3, NoneIsNoInode DEF FileAt, NoDirectory
  <2>4. CASE x.inside /\ x.page # p
    <3>1. v.dir[x.page] # None => v.dir[x.page] \in Inodes /\ v.dir[x.page] # d
      BY <2>1, NoneIsNoInode, HeldByNames
    <3> QED BY <1>4, <2>1, <2>4, <3>1 DEF FileAt
  <2> QED BY <2>2, <2>3, <2>4
<1> QED BY <1>3, <1>4, <1>5

\* Neither does the removal of an empty one.
LEMMA DropDirectory ==
  ASSUME NEW T, NEW v \in Vaults(T), NEW p \in Pages, v.dir[p] # None => v.child[v.dir[p]] = None
  PROVE  LET w == PutDirectory(v, p, None)
         IN /\ w \in Vaults(T) /\ w.file = v.file /\ w.text = v.text /\ w.child = v.child
            /\ w.dir[p] = None /\ \A q \in Pages : q # p => w.dir[q] = v.dir[q]
            /\ \A x \in Paths : FileAt(w, x) = FileAt(v, x)
<1>1. PutDirectory(v, p, None) = [v EXCEPT !.dir = [v.dir EXCEPT ![p] = None]]
  BY DEF PutDirectory, Vaults
<1>2. [v.dir EXCEPT ![p] = None] \in [Pages -> Inode0]
  BY VaultParts, NoneIsNoInode
<1>3. PICK w : w = PutDirectory(v, p, None)
  OBVIOUS
<1>4. /\ w \in Vaults(T) /\ w.file = v.file /\ w.text = v.text /\ w.child = v.child
      /\ w.dir[p] = None /\ \A q \in Pages : q # p => w.dir[q] = v.dir[q]
  BY <1>1, <1>2, <1>3 DEF Vaults
<1>5. ASSUME NEW x \in Paths PROVE FileAt(w, x) = FileAt(v, x)
  <2>1. x.page \in Pages
    BY PathsAreRecords
  <2>2. CASE ~x.inside
    BY <1>4, <2>2 DEF FileAt
  <2>3. CASE x.inside /\ x.page = p
    BY <1>4, <2>3 DEF FileAt
  <2>4. CASE x.inside /\ x.page # p
    BY <1>4, <2>1, <2>4 DEF FileAt
  <2> QED BY <2>2, <2>3, <2>4
<1> QED BY <1>3, <1>4, <1>5

\* A directory that takes a free name hides nothing.
LEMMA NameDirectory ==
  ASSUME NEW T, NEW v \in Vaults(T), NEW p \in Pages, NEW d, NoDirectory(v, p),
         NEW x \in Paths, NEW t, TextIs(v, x, t)
  PROVE  TextIs(PutDirectory(v, p, d), x, t)
<1>1. PICK w : w = PutDirectory(v, p, d)
  OBVIOUS
<1>2. /\ w.file = v.file /\ w.child = v.child /\ w.text = v.text
      /\ \A q \in Pages : q # p => w.dir[q] = v.dir[q]
  BY <1>1, VaultParts DEF PutDirectory, Vaults
<1>3. ~(x.inside /\ x.page = p) /\ x.page \in Pages
  BY PathsAreRecords DEF TextIs, FileAt, NoDirectory
<1> QED BY <1>1, <1>2, <1>3 DEF TextIs, FileAt

\* A directory that takes the name of an empty or a missing one keeps its contents.
LEMMA ShiftDirectory ==
  ASSUME NEW T, NEW v \in Vaults(T), NEW p \in Pages, NEW q \in Pages, p # q,
         v.dir[q] # None => v.child[v.dir[q]] = None
  PROVE  LET w == MoveDirectory(v, p, q)
         IN /\ w \in Vaults(T) /\ w.file = v.file /\ w.text = v.text /\ w.child = v.child
            /\ w.dir[p] = None /\ w.dir[q] = v.dir[p]
            /\ \A r \in Pages : r \notin {p, q} => w.dir[r] = v.dir[r]
            /\ \A x \in Paths : \A t : TextIs(v, x, t) => TextIs(w, IF x = Within(p) THEN Within(q) ELSE x, t)
            /\ \A x \in Paths : ~x.inside => FileAt(w, x) = FileAt(v, x)
<1>1. MoveDirectory(v, p, q) = [v EXCEPT !.dir = [[v.dir EXCEPT ![q] = v.dir[p]] EXCEPT ![p] = None]]
  BY DEF MoveDirectory, Vaults
<1>2. [[v.dir EXCEPT ![q] = v.dir[p]] EXCEPT ![p] = None] \in [Pages -> Inode0]
  BY VaultParts, NoneIsNoInode
<1>3. PICK w : w = MoveDirectory(v, p, q)
  OBVIOUS
<1>4. /\ w \in Vaults(T) /\ w.file = v.file /\ w.text = v.text /\ w.child = v.child
      /\ w.dir[p] = None /\ w.dir[q] = v.dir[p]
      /\ \A r \in Pages : r \notin {p, q} => w.dir[r] = v.dir[r]
  <2>1. PICK d : d = [[v.dir EXCEPT ![q] = v.dir[p]] EXCEPT ![p] = None]
    OBVIOUS
  <2>2. d \in [Pages -> Inode0] /\ v.dir \in [Pages -> Inode0]
    BY <1>2, <2>1, VaultParts
  <2>3. d[p] = None /\ d[q] = v.dir[p] /\ \A r \in Pages : r \notin {p, q} => d[r] = v.dir[r]
    BY <2>1, <2>2
  <2>4. w = [v EXCEPT !.dir = d]
    BY <1>1, <1>3, <2>1
  <2> QED BY <2>2, <2>3, <2>4 DEF Vaults
<1>5. ASSUME NEW x \in Paths, ~x.inside PROVE FileAt(w, x) = FileAt(v, x) /\ x # Within(p)
  BY <1>4, <1>5, PathsAreRecords DEF FileAt
<1>6. ASSUME NEW x \in Paths, NEW t, TextIs(v, x, t)
      PROVE  TextIs(w, IF x = Within(p) THEN Within(q) ELSE x, t)
  <2>1. CASE ~x.inside
    BY <1>4, <1>5, <1>6, <2>1 DEF TextIs
  <2>2. CASE x.inside /\ x.page = p
    <3>1. x = Within(p) /\ FileAt(v, x) = v.child[v.dir[p]] /\ v.dir[p] # None
      BY <1>6, <2>2, PathsAreRecords DEF FileAt, TextIs
    <3>2. FileAt(w, Within(q)) = v.child[v.dir[p]]
      BY <1>4, <3>1, PathsAreRecords DEF FileAt
    <3>3. TextIs(w, Within(q), t)
      BY <1>4, <1>6, <3>1, <3>2 DEF TextIs
    <3> QED BY <3>1, <3>3
  <2>3. CASE x.inside /\ x.page = q
    BY <1>6, <2>3 DEF FileAt, TextIs
  <2>4. CASE x.inside /\ x.page \notin {p, q}
    <3>1. x # Within(p) /\ FileAt(w, x) = FileAt(v, x)
      BY <1>4, <2>4, PathsAreRecords DEF FileAt
    <3> QED BY <1>4, <1>6, <3>1 DEF TextIs
  <2> QED BY <2>1, <2>2, <2>3, <2>4
<1> QED BY <1>3, <1>4, <1>5, <1>6

\* Names that keep their files keep their texts.
LEMMA SameNames ==
  ASSUME NEW v, NEW w, w.text = v.text, \A x \in Paths : FileAt(w, x) = FileAt(v, x)
  PROVE  TextsIn(w) = TextsIn(v) /\ \A x \in Paths : \A t : TextIs(w, x, t) <=> TextIs(v, x, t)
<1>1. \A x \in Paths : \A t : TextIs(w, x, t) <=> TextIs(v, x, t)
  BY DEF TextIs
<1>2. \A t : t \in TextsIn(w) <=> t \in TextsIn(v)
  BY <1>1, InTextsIn
<1> QED BY <1>1, <1>2

-----------------------------------------------------------------------------
(***************************************************************************)
(* The owner's editor.                                                     *)
(***************************************************************************)
\* Every text keeps every name it has, but for one that path p loses.
KeepsBeside(v, w, p) ==
  \A x \in Paths : \A t : TextIs(v, x, t) => TextIs(w, x, t) \/ (TextIs(v, p, t) /\ ~TextIs(w, p, t))

\* Typing into a file or saving over it puts the owner's text there;
LEMMA OwnerWrites ==
  ASSUME NEW T, NEW v \in Vaults(T), NEW p \in Paths, NEW t0 \in T, NEW more,
         NEW w \in OwnerEdits(v, p, t0) \union OwnerSaves(v, p, t0, more)
  PROVE  w \in Vaults(T) /\ t0 \in TextsIn(w) /\ KeepsBeside(v, w, p)
<1>1. CASE w \in OwnerEdits(v, p, t0)
  <2>1. PICK i \in Inodes : i = FileAt(v, p)
    BY <1>1, FileAtTyped, NoneIsNoInode DEF OwnerEdits
  <2>2. w = Written(v, i, t0)
    BY <1>1, <2>1, NoneIsNoInode DEF OwnerEdits
  <2>3. /\ w \in Vaults(T) /\ w.text[i] = t0 /\ \A j \in Inodes : j # i => w.text[j] = v.text[j]
        /\ \A x \in Paths : FileAt(w, x) = FileAt(v, x)
    BY <2>2, WrittenParts
  <2>4. TextIs(w, p, t0)
    BY <2>1, <2>3, NoneIsNoInode DEF TextIs
  <2>5. ASSUME NEW x \in Paths, NEW t, TextIs(v, x, t)
        PROVE  TextIs(w, x, t) \/ (TextIs(v, p, t) /\ ~TextIs(w, p, t))
    <3>1. FileAt(v, x) \in Inodes
      BY <2>5, TextIsTyped
    <3> QED BY <2>1, <2>3, <2>5, <3>1 DEF TextIs
  <2> QED BY <2>3, <2>4, <2>5, InTextsIn DEF KeepsBeside
<1>2. CASE w \in OwnerSaves(v, p, t0, more)
  <2>1. PICK i \in Reused(v, more) : w = PutAt(Written(v, i, t0), p, i)
    BY <1>2 DEF OwnerSaves
  <2>2. i \in Inodes /\ i \in Inode0 /\ i # None /\ i \notin Held(v) /\ ParentExists(v, p)
    BY <1>2, <2>1, FreshIsFree DEF OwnerSaves, Inode0
  <2>3. PICK u \in Vaults(T) : u = Written(v, i, t0)
    BY <2>2, WrittenParts
  <2>4. /\ u.text[i] = t0 /\ u.dir = v.dir /\ \A x \in Paths : FileAt(u, x) = FileAt(v, x)
        /\ \A x \in Paths : \A t : TextIs(v, x, t) => TextIs(u, x, t)
    BY <2>2, <2>3, WrittenParts, WrittenAside
  <2>5. w \in Vaults(T) /\ w.text = u.text /\ FileAt(w, p) = i
    BY <2>1, <2>2, <2>3, <2>4, PutAtParts, PutAtNames DEF ParentExists
  <2>6. TextIs(w, p, t0)
    BY <2>2, <2>4, <2>5 DEF TextIs
  <2>7. ASSUME NEW x \in Paths, NEW t, TextIs(v, x, t)
        PROVE  TextIs(w, x, t) \/ (TextIs(v, p, t) /\ ~TextIs(w, p, t))
    <3>1. TextIs(u, x, t)
      BY <2>4, <2>7
    <3>2. CASE FileAt(w, x) = FileAt(u, x)
      BY <2>5, <3>1, <3>2 DEF TextIs
    <3>3. CASE FileAt(u, x) = FileAt(u, p) /\ FileAt(w, x) = i
      <4>1. TextIs(v, p, t)
        BY <2>4, <2>7, <3>3 DEF TextIs
      <4> QED BY <2>2, <2>4, <2>5, <3>3, <4>1 DEF TextIs
    <3> QED BY <2>1, <2>2, <2>3, <3>2, <3>3, PutAtNames
  <2> QED BY <2>5, <2>6, <2>7, InTextsIn DEF KeepsBeside
<1> QED BY <1>1, <1>2

\* deleting a note and making a directory add none.
LEMMA OwnerRemoves ==
  ASSUME NEW T, NEW v \in Vaults(T), NEW p \in Paths, NEW more,
         NEW w \in OwnerDeletes(v, p) \union OwnerMakesDirectory(v, p.page, more)
  PROVE  w \in Vaults(T) /\ KeepsBeside(v, w, p)
<1>1. CASE w \in OwnerDeletes(v, p)
  <2>1. w = PutAt(v, p, None) /\ None \in Inode0
    BY <1>1, NoneIsNoInode DEF OwnerDeletes, RemoveAt
  <2>2. w \in Vaults(T) /\ w.text = v.text
    BY <2>1, PutAtParts
  <2>3. ASSUME NEW x \in Paths, NEW t, TextIs(v, x, t)
        PROVE  TextIs(w, x, t) \/ (TextIs(v, p, t) /\ ~TextIs(w, p, t))
    <3>1. CASE FileAt(w, x) = FileAt(v, x)
      BY <2>2, <2>3, <3>1 DEF TextIs
    <3>2. CASE FileAt(v, x) = FileAt(v, p) /\ FileAt(w, p) = None
      BY <2>3, <3>2 DEF TextIs
    <3> QED BY <2>1, <3>1, <3>2, PutAtNames
  <2> QED BY <2>2, <2>3 DEF KeepsBeside
<1>2. CASE w \in OwnerMakesDirectory(v, p.page, more)
  <2>1. PICK d \in Reused(v, more) : w = PutDirectory(Emptied(v, d), p.page, d)
    BY <1>2 DEF OwnerMakesDirectory
  <2>2. d \in Inodes /\ d \notin Held(v) /\ NoDirectory(v, p.page) /\ p.page \in Pages
    BY <1>2, <2>1, FreshIsFree, PathsAreRecords DEF OwnerMakesDirectory
  <2>3. w \in Vaults(T) /\ w.text = v.text /\ \A x \in Paths : FileAt(w, x) = FileAt(v, x)
    BY <2>1, <2>2, NewDirectory
  <2> QED BY <2>3, SameNames DEF KeepsBeside
<1> QED BY <1>1, <1>2

\* The owner's editor takes no inode that somebody else has.
LEMMA OwnerTakesNone ==
  ASSUME NEW T, NEW v \in Vaults(T), NEW p \in Paths, NEW t0 \in T, NEW more,
         NEW w \in OwnerEdits(v, p, t0) \union OwnerSaves(v, p, t0, more)
                     \union OwnerDeletes(v, p) \union OwnerMakesDirectory(v, p.page, more),
         NEW j \in more, j \in Held(w)
  PROVE  j \in Held(v)
<1>0. j # None
  BY HeldIs
<1>1. CASE w \in OwnerEdits(v, p, t0)
  <2>1. FileAt(v, p) \in Inodes /\ w = Written(v, FileAt(v, p), t0)
    BY <1>1, FileAtTyped, NoneIsNoInode DEF OwnerEdits
  <2> QED BY <2>1, WrittenHeld
<1>2. CASE w \in OwnerSaves(v, p, t0, more)
  <2>1. PICK i \in Reused(v, more) : w = PutAt(Written(v, i, t0), p, i)
    BY <1>2 DEF OwnerSaves
  <2>2. i \in Inodes /\ i \in Inode0 /\ i \notin more
    BY FreshIsFree DEF Inode0
  <2>3. Written(v, i, t0) \in Vaults(T) /\ Held(Written(v, i, t0)) = Held(v)
    BY <2>2, WrittenParts, WrittenHeld
  <2> QED BY <2>1, <2>2, <2>3, PutAtHeld
<1>3. CASE w \in OwnerDeletes(v, p)
  <2>1. w = PutAt(v, p, None) /\ None \in Inode0
    BY <1>3, NoneIsNoInode DEF OwnerDeletes, RemoveAt
  <2> QED BY <1>0, <2>1, PutAtHeld
<1>4. CASE w \in OwnerMakesDirectory(v, p.page, more)
  <2>1. PICK d \in Reused(v, more) : w = PutDirectory(Emptied(v, d), p.page, d)
    BY <1>4 DEF OwnerMakesDirectory
  <2>2. d \in Inodes /\ d \notin Held(v) /\ d \notin more /\ NoDirectory(v, p.page) /\ p.page \in Pages
    BY <1>4, <2>1, FreshIsFree, PathsAreRecords DEF OwnerMakesDirectory
  <2>3. /\ w.file = v.file /\ w.dir[p.page] = d /\ \A q \in Pages : q # p.page => w.dir[q] = v.dir[q]
        /\ w.child[d] = None /\ \A e \in Inodes : e # d => w.child[e] = v.child[e]
    BY <2>1, <2>2, NewDirectory
  <2>4. PICK q \in Pages : \/ w.file[q] = j \/ w.dir[q] = j
                           \/ w.dir[q] # None /\ w.child[w.dir[q]] = j
    BY HeldIs
  <2>5. v.dir[q] # None => v.dir[q] \in Inodes /\ v.dir[q] # d
    BY <2>2, VaultParts, NoneIsNoInode, HeldByNames
  <2>6. CASE q = p.page
    BY <1>0, <2>2, <2>3, <2>4, <2>6, HeldIs
  <2>7. CASE q # p.page
    <3>1. w.dir[q] = v.dir[q] /\ (v.dir[q] # None => w.child[v.dir[q]] = v.child[v.dir[q]])
      BY <2>3, <2>5, <2>7
    <3> QED BY <1>0, <2>3, <2>4, <3>1, HeldIs
  <2> QED BY <2>6, <2>7
<1> QED BY <1>1, <1>2, <1>3, <1>4

-----------------------------------------------------------------------------
(***************************************************************************)
(* The vault at first.                                                     *)
(***************************************************************************)
\* Every page has inodes of its own.
LEMMA FirstIsSpread ==
  ASSUME NEW present, \E first \in [present -> Inodes] : Spread(first, present)
  PROVE  FirstInodes(present) \in [present -> Inodes] /\ Spread(FirstInodes(present), present)
BY DEF FirstInodes

\* An inode is of one page only.
LEMMA OwnerIsOne ==
  ASSUME NEW present, \E first \in [present -> Inodes] : Spread(first, present),
         NEW p \in present, NEW q \in present,
         NEW i \in {FirstInodes(present)[p], FirstInodes(present)[p] + 1, FirstInodes(present)[p] + 2},
         i \in {FirstInodes(present)[q], FirstInodes(present)[q] + 1, FirstInodes(present)[q] + 2}
  PROVE  p = q
<1> DEFINE f == FirstInodes(present)
<1>1. f \in [present -> Inodes] /\ Spread(f, present)
  BY FirstIsSpread
<1>2. f[p] \in Nat /\ f[q] \in Nat
  BY <1>1, InodesAssumption
<1>3. p # q => f[p] + 2 < f[q] \/ f[q] + 2 < f[p]
  BY <1>1 DEF Spread
<1> QED BY <1>2, <1>3

\* What is where at first: a note has its text, a companion the text inside it, and no
\* name is shared.
LEMMA InitialIs ==
  ASSUME NEW present \in SUBSET Pages, \E first \in [present -> Inodes] : Spread(first, present),
         NEW C \in SUBSET present, NEW T, Torn \in T, \A x \in Paths : Old(x) \in T
  PROVE  LET v == InitialVault(present, C)
         IN /\ v \in Vaults(T)
            /\ \A p \in present : TextIs(v, Note(p), Old(Note(p)))
            /\ \A p \in C : TextIs(v, Within(p), Old(Within(p))) /\ v.dir[p] # None
            /\ \A p \in Pages : p \notin present => v.file[p] = None
            /\ \A p \in Pages : p \notin C => v.dir[p] = None
<1> DEFINE f == FirstInodes(present)
           owner(i) == CHOOSE p \in present : i \in f[p]..(f[p] + 2)
           v == InitialVault(present, C)
<1>1. f \in [present -> Inodes] /\ Spread(f, present)
  BY FirstIsSpread
<1>2. C \subseteq present /\ present \subseteq Pages
  OBVIOUS
<1>3. \A p \in present : {f[p], f[p] + 1, f[p] + 2} \subseteq Inodes /\ f[p] \in Nat
  BY <1>1, InodesAssumption DEF Spread
<1>4. ASSUME NEW p \in present, NEW i \in {f[p], f[p] + 1, f[p] + 2}
      PROVE  owner(i) = p
  <2>1. \A q \in present : i \in f[q]..(f[q] + 2) => i \in {f[q], f[q] + 1, f[q] + 2}
    BY <1>3, <1>4
  <2>2. \A q \in present : i \in f[q]..(f[q] + 2) => q = p
    BY <1>4, <2>1, OwnerIsOne
  <2>3. i \in f[p]..(f[p] + 2)
    BY <1>3, <1>4
  <2> QED BY <2>2, <2>3
<1>5. /\ v.file = [p \in Pages |-> IF p \in present THEN f[p] ELSE None]
      /\ v.dir = [p \in Pages |-> IF p \in C THEN f[p] + 1 ELSE None]
      /\ v.child = [i \in Inodes |-> IF \E p \in C : i = f[p] + 1 THEN i + 1 ELSE None]
      /\ v.text = [i \in Inodes |->
                     IF \E p \in present : i = f[p] THEN Old(Note(owner(i)))
                     ELSE IF \E p \in C : i = f[p] + 2 THEN Old(Within(owner(i)))
                     ELSE Torn]
      /\ v = [file |-> v.file, dir |-> v.dir, child |-> v.child, text |-> v.text]
  BY DEF InitialVault
<1>6. v.file \in [Pages -> Inode0] /\ v.dir \in [Pages -> Inode0]
  BY <1>2, <1>3, <1>5 DEF Inode0
<1>7. v.child \in [Inodes -> Inode0]
  <2>1. \A p \in C : (f[p] + 1) + 1 = f[p] + 2 /\ f[p] + 2 \in Inodes
    BY <1>2, <1>3
  <2> QED BY <1>5, <2>1 DEF Inode0
<1>8. v.text \in [Inodes -> T]
  <2>1. ASSUME NEW i \in Inodes PROVE v.text[i] \in T
    <3>1. CASE \E p \in present : i = f[p]
      <4>1. PICK p \in present : i = f[p]
        BY <3>1
      <4>2. v.text[i] = Old(Note(p))
        BY <1>4, <1>5, <4>1
      <4> QED BY <1>2, <4>2, PathsAreRecords
    <3>2. CASE (~\E p \in present : i = f[p]) /\ \E p \in C : i = f[p] + 2
      <4>1. PICK p \in C : i = f[p] + 2
        BY <3>2
      <4>2. owner(i) = p
        BY <1>2, <1>4, <4>1
      <4>3. v.text[i] = Old(Within(owner(i)))
        BY <1>5, <3>2
      <4>4. v.text[i] = Old(Within(p))
        BY <4>2, <4>3
      <4> QED BY <1>2, <4>4, PathsAreRecords
    <3>3. CASE (~\E p \in present : i = f[p]) /\ ~\E p \in C : i = f[p] + 2
      BY <1>5, <3>3
    <3> QED BY <3>1, <3>2, <3>3
  <2> QED BY <1>5, <2>1
<1>9. ASSUME NEW p \in present PROVE TextIs(v, Note(p), Old(Note(p)))
  <2>1. FileAt(v, Note(p)) = f[p]
    BY <1>2, <1>5, PathsAreRecords DEF FileAt
  <2>2. v.text[f[p]] = Old(Note(p))
    BY <1>3, <1>4, <1>5
  <2> QED BY <1>3, <2>1, <2>2, NoneIsNoInode DEF TextIs
<1>10. ASSUME NEW p \in C PROVE TextIs(v, Within(p), Old(Within(p))) /\ v.dir[p] # None
  <2>1. v.dir[p] = f[p] + 1 /\ f[p] + 1 \in Inodes /\ f[p] + 1 # None
    BY <1>2, <1>3, <1>5, NoneIsNoInode
  <2>2. v.child[f[p] + 1] = f[p] + 2 /\ f[p] + 2 # None
    <3>1. v.child[f[p] + 1] = (f[p] + 1) + 1
      BY <1>5, <2>1
    <3> QED BY <1>2, <1>3, <3>1, NoneIsNoInode
  <2>3. FileAt(v, Within(p)) = f[p] + 2
    BY <1>2, <2>1, <2>2, PathsAreRecords DEF FileAt
  <2>4. ~\E q \in present : f[p] + 2 = f[q]
    <3>1. ASSUME NEW q \in present, f[p] + 2 = f[q] PROVE FALSE
      <4>1. p = q
        BY <1>2, <3>1, OwnerIsOne
      <4> QED BY <1>2, <1>3, <3>1, <4>1
    <3> QED BY <3>1
  <2>5. v.text[f[p] + 2] = Old(Within(p))
    <3>1. owner(f[p] + 2) = p /\ f[p] + 2 \in Inodes
      BY <1>2, <1>3, <1>4
    <3>2. v.text[f[p] + 2] = Old(Within(owner(f[p] + 2)))
      BY <1>5, <2>4, <3>1
    <3> QED BY <3>1, <3>2
  <2> QED BY <2>1, <2>2, <2>3, <2>5 DEF TextIs
<1>11. v \in Vaults(T)
  BY <1>5, <1>6, <1>7, <1>8 DEF Vaults
<1>12. \A p \in Pages : (p \notin present => v.file[p] = None) /\ (p \notin C => v.dir[p] = None)
  BY <1>5
<1> QED BY <1>9, <1>10, <1>11, <1>12

-----------------------------------------------------------------------------
(***************************************************************************)
(* Which texts a path may hold after a step, where no two pages share a    *)
(* companion.                                                              *)
(***************************************************************************)
CompanionsApart(v) == \A p, r \in Pages : v.dir[p] = v.dir[r] /\ v.dir[p] # None => p = r

\* Nothing is at a path of w that was not there in v.
NothingNew(v, w) == \A y \in Paths : \A t : TextIs(w, y, t) => TextIs(v, y, t)

\* A file that is put at a path is there and nowhere else.
LEMMA PutAtTexts ==
  ASSUME NEW T, NEW v \in Vaults(T), CompanionsApart(v), NEW x \in Paths, NEW i \in Inode0, NEW y \in Paths
  PROVE  LET w == PutAt(v, x, i)
         IN /\ CompanionsApart(w)
            /\ y # x => FileAt(w, y) = FileAt(v, y)
            /\ FileAt(w, x) \in {None, i}
            /\ \A t : TextIs(w, y, t) => (y # x /\ TextIs(v, y, t)) \/ (y = x /\ i # None /\ t = v.text[i])
<1>0. PICK w : w = PutAt(v, x, i)
  OBVIOUS
<1>1. w.dir = v.dir /\ w.text = v.text
  BY <1>0, PutAtParts
<1>2. CompanionsApart(w)
  BY <1>1 DEF CompanionsApart
<1>3. y # x => FileAt(w, y) = FileAt(v, y)
  <2>1. CASE x.inside /\ y.inside /\ y # x
    <3>1. x.page # y.page /\ x.page \in Pages /\ y.page \in Pages
      BY <2>1, PathsAreRecords
    <3>2. CASE v.dir[y.page] = None
      BY <1>1, <2>1, <3>2 DEF FileAt
    <3>3. CASE v.dir[y.page] # None
      <4>1. v.dir[y.page] # v.dir[x.page] /\ v.dir[y.page] \in Inodes
        BY <3>1, <3>3, VaultParts, NoneIsNoInode DEF CompanionsApart
      <4>2. w.child[v.dir[y.page]] = v.child[v.dir[y.page]]
        BY <1>0, <2>1, <4>1, PutWithinParts
      <4> QED BY <1>1, <2>1, <3>3, <4>2 DEF FileAt
    <3> QED BY <3>2, <3>3
  <2> QED BY <1>0, <2>1, PutAtNames
<1>4. FileAt(w, x) \in {None, i}
  <2>1. CASE ParentExists(v, x)
    BY <1>0, <2>1, PutAtNames
  <2>2. CASE ~ParentExists(v, x)
    BY <1>1, <2>2 DEF ParentExists, FileAt
  <2> QED BY <2>1, <2>2
<1> QED BY <1>0, <1>1, <1>2, <1>3, <1>4 DEF TextIs

\* Removing adds nothing.
LEMMA RemovedTexts ==
  ASSUME NEW T, NEW v \in Vaults(T), CompanionsApart(v), NEW x \in Paths
  PROVE  CompanionsApart(RemoveAt(v, x)) /\ NothingNew(v, RemoveAt(v, x))
<1>1. None \in Inode0
  BY NoneIsNoInode
<1> QED BY <1>1, PutAtTexts DEF RemoveAt, NothingNew

\* A file that no name holds is written unseen.
LEMMA WrittenTexts ==
  ASSUME NEW T, NEW v \in Vaults(T), CompanionsApart(v), NEW i \in Inodes, NEW t0 \in T, i \notin Held(v)
  PROVE  CompanionsApart(Written(v, i, t0)) /\ NothingNew(v, Written(v, i, t0))
<1>0. PICK w : w = Written(v, i, t0)
  OBVIOUS
<1>1. /\ w \in Vaults(T) /\ w.dir = v.dir /\ \A j \in Inodes : j # i => w.text[j] = v.text[j]
      /\ \A x \in Paths : FileAt(w, x) = FileAt(v, x)
  BY <1>0, WrittenParts
<1>2. ASSUME NEW y \in Paths, NEW t, TextIs(w, y, t) PROVE TextIs(v, y, t)
  <2>1. FileAt(v, y) \in Inodes /\ FileAt(v, y) # None
    BY <1>1, <1>2, TextIsTyped DEF TextIs
  <2>2. FileAt(v, y) # i
    BY <2>1, HeldByNames
  <2> QED BY <1>1, <1>2, <2>1, <2>2 DEF TextIs
<1> QED BY <1>0, <1>1, <1>2 DEF CompanionsApart, NothingNew

\* An empty directory that gets a name,
LEMMA NamedTexts ==
  ASSUME NEW T, NEW v \in Vaults(T), CompanionsApart(v), NEW p \in Pages, NEW d \in Inodes,
         v.child[d] = None, d \notin Held(v)
  PROVE  CompanionsApart(PutDirectory(v, p, d)) /\ NothingNew(v, PutDirectory(v, p, d))
<1>0. PICK w : w = PutDirectory(v, p, d)
  OBVIOUS
<1>1. /\ w.file = v.file /\ w.text = v.text /\ w.child = v.child
      /\ w.dir[p] = d /\ \A q \in Pages : q # p => w.dir[q] = v.dir[q]
  BY <1>0, VaultParts DEF PutDirectory, Vaults
<1>2. \A q \in Pages : v.dir[q] # d
  BY HeldIs, NoneIsNoInode
<1>3. CompanionsApart(w)
  BY <1>1, <1>2 DEF CompanionsApart
<1>4. ASSUME NEW y \in Paths, NEW t, TextIs(w, y, t) PROVE TextIs(v, y, t)
  <2>1. y.page \in Pages
    BY PathsAreRecords
  <2>2. ~(y.inside /\ y.page = p)
    BY <1>1, <1>4 DEF TextIs, FileAt
  <2> QED BY <1>1, <1>4, <2>1, <2>2 DEF TextIs, FileAt
<1> QED BY <1>0, <1>3, <1>4 DEF NothingNew

\* and one that is moved with what is in it.
LEMMA ShiftedTexts ==
  ASSUME NEW T, NEW v \in Vaults(T), CompanionsApart(v), NEW p \in Pages, NEW q \in Pages, p # q
  PROVE  LET w == MoveDirectory(v, p, q)
         IN /\ CompanionsApart(w)
            /\ \A y \in Paths : \A t :
                 TextIs(w, y, t) => IF y = Within(q) THEN TextIs(v, Within(p), t) ELSE TextIs(v, y, t)
<1>0. PICK w : w = MoveDirectory(v, p, q)
  OBVIOUS
<1>1. /\ w.file = v.file /\ w.text = v.text /\ w.child = v.child
      /\ w.dir[p] = None /\ w.dir[q] = v.dir[p] /\ \A r \in Pages : r # p /\ r # q => w.dir[r] = v.dir[r]
  <2>1. PICK d : d = [[v.dir EXCEPT ![q] = v.dir[p]] EXCEPT ![p] = None]
    OBVIOUS
  <2>2. v.dir \in [Pages -> Inode0]
    BY VaultParts
  <2>3. d[p] = None /\ d[q] = v.dir[p] /\ \A r \in Pages : r # p /\ r # q => d[r] = v.dir[r]
    BY <2>1, <2>2
  <2>4. w = [v EXCEPT !.dir = d]
    BY <1>0, <2>1 DEF MoveDirectory, Vaults
  <2> QED BY <2>3, <2>4 DEF Vaults
<1>2. CompanionsApart(w)
  BY <1>1 DEF CompanionsApart
<1>3. ASSUME NEW y \in Paths, NEW t, TextIs(w, y, t)
      PROVE  IF y = Within(q) THEN TextIs(v, Within(p), t) ELSE TextIs(v, y, t)
  <2>1. CASE y = Within(q)
    BY <1>1, <1>3, <2>1, PathsAreRecords DEF TextIs, FileAt
  <2>2. CASE ~y.inside
    BY <1>1, <1>3, <2>2, PathsAreRecords DEF TextIs, FileAt
  <2>3. CASE y.inside /\ y # Within(q)
    <3>1. y.page # q /\ y.page \in Pages
      BY <2>3, PathsAreRecords
    <3>2. y.page # p
      BY <1>1, <1>3, <2>3 DEF TextIs, FileAt
    <3> QED BY <1>1, <1>3, <2>3, <3>1, <3>2 DEF TextIs, FileAt
  <2> QED BY <2>1, <2>2, <2>3
<1> QED BY <1>0, <1>2, <1>3

\* w has no text where v had none but t0.
AddsOnly(v, w, t0) == \A y \in Paths : \A t : TextIs(w, y, t) => TextIs(v, y, t) \/ t = t0

\* What the owner does adds no text but the one she types, or saves again where it was; and
\* it touches no file that somebody else has.
LEMMA OwnerTexts ==
  ASSUME NEW T, NEW v \in Vaults(T), CompanionsApart(v), NEW p \in Paths, NEW t0 \in T, NEW more,
         NEW w \in OwnerEdits(v, p, t0) \union OwnerSaves(v, p, t0, more)
                     \union OwnerDeletes(v, p) \union OwnerMakesDirectory(v, p.page, more)
  PROVE  /\ CompanionsApart(w)
         /\ AddsOnly(v, w, t0)
         /\ w \in OwnerSaves(v, p, t0, more) =>
              \A y \in Paths : \A t : TextIs(w, y, t) => TextIs(v, y, t) \/ (t = t0 /\ y = p)
         /\ \A i \in Inodes : i \in more /\ i \notin Held(v) => w.text[i] = v.text[i] /\ w.child[i] = v.child[i]
<1>1. CASE w \in OwnerSaves(v, p, t0, more)
  <2>1. PICK i \in Reused(v, more) : w = PutAt(Written(v, i, t0), p, i)
    BY <1>1 DEF OwnerSaves
  <2>2. i \in Inodes /\ i \in Inode0 /\ i # None /\ i \notin Held(v) /\ i \notin more /\ ParentExists(v, p)
    BY <1>1, <2>1, FreshIsFree DEF OwnerSaves, Inode0
  <2>3. PICK u \in Vaults(T) : u = Written(v, i, t0)
    BY <2>2, WrittenParts
  <2>4. /\ u.text[i] = t0 /\ u.dir = v.dir /\ u.child = v.child
        /\ \A j \in Inodes : j # i => u.text[j] = v.text[j]
        /\ CompanionsApart(u) /\ NothingNew(v, u)
    BY <2>2, <2>3, WrittenParts, WrittenTexts
  <2>5. /\ CompanionsApart(w) /\ w.text = u.text
        /\ \A y \in Paths : \A t : TextIs(w, y, t) => (y # p /\ TextIs(u, y, t)) \/ (y = p /\ t = u.text[i])
    BY <2>1, <2>2, <2>3, <2>4, PutAtTexts, PutAtParts
  <2>6. \A y \in Paths : \A t : TextIs(w, y, t) => TextIs(v, y, t) \/ (t = t0 /\ y = p)
    BY <2>4, <2>5 DEF NothingNew
  <2>7. ASSUME NEW j \in Inodes, j \in more, j \notin Held(v)
        PROVE  w.text[j] = v.text[j] /\ w.child[j] = v.child[j]
    <3>1. j # i
      BY <2>2, <2>7
    <3>2. w.child[j] = u.child[j]
      <4>1. CASE ~p.inside
        BY <2>1, <2>2, <2>3, <4>1, PutNoteParts
      <4>2. CASE p.inside
        <5>1. v.dir[p.page] # None /\ p.page \in Pages
          BY <2>2, <4>2, PathsAreRecords DEF ParentExists
        <5>2. v.dir[p.page] # j
          BY <2>7, <5>1, HeldByNames
        <5> QED BY <2>1, <2>2, <2>3, <2>4, <4>2, <5>2, PutWithinParts
      <4> QED BY <4>1, <4>2
    <3> QED BY <2>4, <2>5, <2>7, <3>1, <3>2
  <2> QED BY <2>5, <2>6, <2>7 DEF AddsOnly
<1>2. CASE w \in OwnerEdits(v, p, t0)
  <2>1. PICK i \in Inodes : i = FileAt(v, p)
    BY <1>2, FileAtTyped, NoneIsNoInode DEF OwnerEdits
  <2>2. w = Written(v, i, t0) /\ i \in Held(v)
    BY <1>2, <2>1, NoneIsNoInode, HeldByNames DEF OwnerEdits
  <2>3. /\ w.dir = v.dir /\ w.child = v.child /\ w.text[i] = t0
        /\ \A j \in Inodes : j # i => w.text[j] = v.text[j]
        /\ \A x \in Paths : FileAt(w, x) = FileAt(v, x)
    BY <2>2, WrittenParts
  <2>4. ASSUME NEW y \in Paths, NEW t, TextIs(w, y, t) PROVE TextIs(v, y, t) \/ t = t0
    <3>1. FileAt(v, y) \in Inodes
      BY <2>3, <2>4, FileAtTyped, NoneIsNoInode DEF TextIs
    <3> QED BY <2>3, <2>4, <3>1 DEF TextIs
  <2>5. CompanionsApart(w)
    BY <2>3 DEF CompanionsApart
  <2>6. \A j \in Inodes : j \notin Held(v) => w.text[j] = v.text[j] /\ w.child[j] = v.child[j]
    BY <2>2, <2>3
  <2> QED BY <1>1, <2>4, <2>5, <2>6 DEF AddsOnly
<1>3. CASE w \in OwnerDeletes(v, p)
  <2>1. w = RemoveAt(v, p) /\ FileAt(v, p) # None
    BY <1>3 DEF OwnerDeletes
  <2>2. CompanionsApart(w) /\ NothingNew(v, w) /\ w.text = v.text
    BY <2>1, RemovedTexts, PutAtParts, NoneIsNoInode DEF RemoveAt
  <2>3. ASSUME NEW j \in Inodes, j \notin Held(v) PROVE w.child[j] = v.child[j]
    <3>1. CASE ~p.inside
      BY <2>1, <3>1, PutNoteParts, NoneIsNoInode DEF RemoveAt
    <3>2. CASE p.inside
      <4>1. v.dir[p.page] # None /\ p.page \in Pages
        BY <2>1, <3>2, PathsAreRecords DEF FileAt
      <4>2. v.dir[p.page] # j
        BY <2>3, <4>1, HeldByNames
      <4> QED BY <2>1, <3>2, <4>2, PutWithinParts, NoneIsNoInode DEF RemoveAt
    <3> QED BY <3>1, <3>2
  <2> QED BY <1>1, <2>2, <2>3 DEF NothingNew, AddsOnly
<1>4. CASE w \in OwnerMakesDirectory(v, p.page, more)
  <2>1. PICK d \in Reused(v, more) : w = PutDirectory(Emptied(v, d), p.page, d)
    BY <1>4 DEF OwnerMakesDirectory
  <2>2. /\ d \in Inodes /\ d \notin Held(v) /\ d \notin more /\ NoDirectory(v, p.page) /\ p.page \in Pages
        /\ d # None
    BY <1>4, <2>1, FreshIsFree, PathsAreRecords DEF OwnerMakesDirectory
  <2>3. /\ w.text = v.text /\ w.dir[p.page] = d /\ \A q \in Pages : q # p.page => w.dir[q] = v.dir[q]
        /\ \A e \in Inodes : e # d => w.child[e] = v.child[e]
        /\ \A x \in Paths : FileAt(w, x) = FileAt(v, x)
    BY <2>1, <2>2, NewDirectory
  <2>4. \A q \in Pages : v.dir[q] # d
    BY <2>2, HeldByNames
  <2>5. CompanionsApart(w)
    BY <2>3, <2>4 DEF CompanionsApart
  <2>6. \A y \in Paths : \A t : TextIs(w, y, t) => TextIs(v, y, t)
    BY <2>3, SameNames
  <2>7. \A j \in Inodes : j \in more => w.text[j] = v.text[j] /\ w.child[j] = v.child[j]
    BY <2>2, <2>3
  <2> QED BY <1>1, <2>5, <2>6, <2>7 DEF AddsOnly
<1> QED BY <1>1, <1>2, <1>3, <1>4

\* At first every text is at its own path, and no two pages share a companion.
LEMMA InitialTexts ==
  ASSUME NEW present \in SUBSET Pages, \E first \in [present -> Inodes] : Spread(first, present),
         NEW C \in SUBSET present, NEW T, Torn \in T, \A x \in Paths : Old(x) \in T
  PROVE  LET v == InitialVault(present, C)
         IN CompanionsApart(v) /\ \A y \in Paths : \A t : TextIs(v, y, t) => t = Old(y)
<1> DEFINE f == FirstInodes(present)
<1>0. PICK v : v = InitialVault(present, C)
  OBVIOUS
<1>1. /\ \A p \in present : TextIs(v, Note(p), Old(Note(p)))
      /\ \A p \in C : TextIs(v, Within(p), Old(Within(p))) /\ v.dir[p] # None
      /\ \A p \in Pages : p \notin present => v.file[p] = None
      /\ \A p \in Pages : p \notin C => v.dir[p] = None
  <2> HIDE DEF f
  <2>1. LET w == InitialVault(present, C)
        IN /\ w \in Vaults(T)
           /\ \A p \in present : TextIs(w, Note(p), Old(Note(p)))
           /\ \A p \in C : TextIs(w, Within(p), Old(Within(p))) /\ w.dir[p] # None
           /\ \A p \in Pages : p \notin present => w.file[p] = None
           /\ \A p \in Pages : p \notin C => w.dir[p] = None
    BY InitialIs, Zenon
  <2> QED BY <1>0, <2>1, Zenon
<1>2. ASSUME NEW y \in Paths, NEW t, TextIs(v, y, t) PROVE t = Old(y)
  <2>1. CASE ~y.inside
    <3>1. y.page \in present /\ y = Note(y.page)
      BY <1>1, <1>2, <2>1, PathsAreRecords DEF TextIs, FileAt
    <3> QED BY <1>1, <1>2, <3>1 DEF TextIs
  <2>2. CASE y.inside
    <3>1. y.page \in C /\ y = Within(y.page)
      BY <1>1, <1>2, <2>2, PathsAreRecords DEF TextIs, FileAt
    <3> QED BY <1>1, <1>2, <3>1 DEF TextIs
  <2> QED BY <2>1, <2>2, PathsAreRecords
<1>3. CompanionsApart(v)
  <2>1. SUFFICES ASSUME NEW p \in Pages, NEW r \in Pages, v.dir[p] = v.dir[r], v.dir[p] # None PROVE p = r
    BY DEF CompanionsApart
  <2>2. p \in C /\ r \in C
    BY <1>1, <2>1
  <2>3. v.dir[p] = f[p] + 1 /\ v.dir[r] = f[r] + 1
    BY <1>0, <2>2 DEF InitialVault
  <2> QED BY <2>1, <2>2, <2>3, OwnerIsOne
<1> QED BY <1>0, <1>2, <1>3
=============================================================================
