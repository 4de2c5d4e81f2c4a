------------------------------ MODULE VaultFiles ------------------------------
(***************************************************************************)
(* What the vault writer sees of the file system, shared by the modules    *)
(* that model vault/writer.ts. A page has a note and may have a companion  *)
(* directory (`Page.md` and `Page/`); one note inside the directory stands *)
(* for all of them. A file or a directory is an inode, because the writer  *)
(* compares identities as well as hashes: a name that holds the same text  *)
(* under another inode is a changed name. Inodes are reused, as file       *)
(* systems do, or not: a new one is the least or the greatest that no name *)
(* holds. A hash comparison is a comparison of texts.                      *)
(***************************************************************************)
EXTENDS Naturals, FiniteSets

CONSTANTS Pages,   \* the pages of the tree
          Inodes   \* a finite set of positive numbers, enough for every name

ASSUME InodesAssumption == Inodes \subseteq Nat \ {0} /\ IsFiniteSet(Inodes)

None == 0
Inode0 == Inodes \union {None}

(***************************************************************************)
(* A path is the note of a page or the note inside its companion.          *)
(***************************************************************************)
Paths == [page: Pages, inside: BOOLEAN]
Note(p) == [page |-> p, inside |-> FALSE]
Within(p) == [page |-> p, inside |-> TRUE]

(***************************************************************************)
(* Texts: what a path held at first, what the writer puts there (numbered  *)
(* by request), what the owner types, and a file whose write was cut short.*)
(***************************************************************************)
Old(path) == <<"old", path.page, path.inside>>
New(k) == <<"new", k>>
Mine(n) == <<"mine", n>>
Torn == <<"torn">>

(***************************************************************************)
(* A vault: the inode of each note and directory, the note inside each     *)
(* directory, and the text of each file.                                   *)
(***************************************************************************)
Vaults(Texts) == [file: [Pages -> Inode0], dir: [Pages -> Inode0],
                  child: [Inodes -> Inode0], text: [Inodes -> Texts]]

FileAt(v, path) ==
  IF ~path.inside THEN v.file[path.page]
  ELSE IF v.dir[path.page] = None THEN None
  ELSE v.child[v.dir[path.page]]

TextIs(v, path, t) == FileAt(v, path) # None /\ v.text[FileAt(v, path)] = t

ParentExists(v, path) == path.inside => v.dir[path.page] # None

AbsentAt(v, path) == ParentExists(v, path) /\ FileAt(v, path) = None

NoDirectory(v, p) == v.dir[p] = None

EmptyDirectory(v, d) == v.child[d] = None

(***************************************************************************)
(* rename(2) or link(2) of inode i to a path, unlink(2), the rename of a   *)
(* companion over the empty directory that reserves its name, and a write. *)
(***************************************************************************)
PutAt(v, path, i) ==
  IF path.inside THEN [v EXCEPT !.child[v.dir[path.page]] = i]
  ELSE [v EXCEPT !.file[path.page] = i]

RemoveAt(v, path) == PutAt(v, path, None)

PutDirectory(v, p, d) == [v EXCEPT !.dir[p] = d]

MoveDirectory(v, from, to) == [v EXCEPT !.dir[to] = v.dir[from], !.dir[from] = None]

Written(v, i, t) == [v EXCEPT !.text[i] = t]

Emptied(v, d) == [v EXCEPT !.child[d] = None]

(***************************************************************************)
(* The inodes the vault holds, and the fresh ones beside them and `more`;  *)
(* the owner's editor takes the one that was released last, the worst case *)
(* for a comparison of identities.                                         *)
(***************************************************************************)
Held(v) ==
  LET tops == {v.file[p] : p \in Pages} \union {v.dir[p] : p \in Pages}
  IN (tops \union {v.child[d] : d \in {v.dir[p] : p \in Pages} \ {None}}) \ {None}

Fresh(v, more) ==
  LET free == Inodes \ (Held(v) \union more)
  IN {i \in free : (\A j \in free : i <= j) \/ (\A j \in free : j <= i)}

Reused(v, more) ==
  LET fresh == Fresh(v, more) IN {i \in fresh : \A j \in fresh : i <= j}

TextsIn(v) == {v.text[FileAt(v, path)] : path \in {x \in Paths : FileAt(v, x) # None}}

(***************************************************************************)
(* What the owner does to a note with her editor: types into the file,     *)
(* saves a new file over it (with new text or the same), or deletes it; to *)
(* an absent name she can save a new note or make a directory.             *)
(***************************************************************************)
OwnerEdits(v, path, t) ==
  IF FileAt(v, path) = None THEN {} ELSE {Written(v, FileAt(v, path), t)}

OwnerSaves(v, path, t, more) ==
  IF ParentExists(v, path)
  THEN {PutAt(Written(v, i, t), path, i) : i \in Reused(v, more)}
  ELSE {}

OwnerDeletes(v, path) ==
  IF FileAt(v, path) = None THEN {} ELSE {RemoveAt(v, path)}

OwnerMakesDirectory(v, p, more) ==
  IF NoDirectory(v, p)
  THEN {PutDirectory(Emptied(v, d), p, d) : d \in Reused(v, more)}
  ELSE {}

(***************************************************************************)
(* The vault at first: a note for each page of `present`, and a companion  *)
(* with a note inside for each page of `companions`.                       *)
(***************************************************************************)
OwnPaths(present, companions) ==
  {Note(p) : p \in present} \union {Within(p) : p \in companions}

\* Three inodes for each page, from its first on: its note, its companion and the note inside.
Spread(first, present) ==
  \A p \in present :
    /\ {first[p], first[p] + 1, first[p] + 2} \subseteq Inodes
    /\ \A q \in present \ {p} : first[p] + 2 < first[q] \/ first[q] + 2 < first[p]

FirstInodes(present) == CHOOSE first \in [present -> Inodes] : Spread(first, present)

InitialVault(present, companions) ==
  LET first == FirstInodes(present)
      owner(i) == CHOOSE p \in present : i \in first[p]..(first[p] + 2)
  IN [file |-> [p \in Pages |-> IF p \in present THEN first[p] ELSE None],
      dir |-> [p \in Pages |-> IF p \in companions THEN first[p] + 1 ELSE None],
      child |-> [i \in Inodes |-> IF \E p \in companions : i = first[p] + 1 THEN i + 1 ELSE None],
      text |-> [i \in Inodes |->
                  IF \E p \in present : i = first[p] THEN Old(Note(owner(i)))
                  ELSE IF \E p \in companions : i = first[p] + 2 THEN Old(Within(owner(i)))
                  ELSE Torn]]
=============================================================================
