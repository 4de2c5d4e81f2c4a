----------------------------- MODULE CortexTree -----------------------------
(***************************************************************************)
(* The pure part of the Cortex tree synchronization: what a scan of the    *)
(* reserved folder accepts (scanner.ts, reconcile.ts), where a page of the *)
(* Notion tree belongs in it (path.ts), what is written there (markdown.ts,*)
(* frontmatter.ts), and which effects one run plans (planner.ts).          *)
(*                                                                         *)
(* A Notion tree maps a page to its parent, title and body; an observation *)
(* of a page adds the set of its direct children.  The local tree maps a   *)
(* path, the sequence of titles from the root, to a note: the page and     *)
(* parent its frontmatter names, the parent path of its breadcrumb, its    *)
(* body, and the children its markers list.  A note without a page is bare.*)
(* A body is a number, a stand-in for its semantic hash, 0 the empty one.  *)
(***************************************************************************)
EXTENDS Naturals, Sequences, FiniteSets, SequencesExt

CONSTANTS
    Root,       \* the page the configuration names
    Others,     \* every other page the workspace may come to hold
    Names,      \* titles
    RootName,   \* the title the fixed root file stands for, "The Cortex"
    Nothing     \* null

ASSUME RootAssumption == /\ Root \notin Others
                         /\ RootName \notin Names
                         /\ Nothing \notin {Root, RootName} \cup Others \cup Names

ASSUME OthersAssumption == IsFiniteSet(Others)

Pages == {Root} \cup Others

-----------------------------------------------------------------------------
\* The Notion tree

\* The body of a root of blocks only is not read: the page is opaque and its
\* observation carries an empty one.
Observed(remote, opaque, p) ==
    [parent |-> remote[p].parent, title |-> remote[p].title,
     body |-> IF p = Root /\ opaque THEN 0 ELSE remote[p].body,
     kids |-> {q \in DOMAIN remote : remote[q].parent = p}]

Seen(remote, opaque) == [p \in DOMAIN remote |-> Observed(remote, opaque, p)]

\* The pages reached from those of S through the parents in the tree t.
Lineage(t, S) ==
    LET up[n \in 0 .. Cardinality(Pages)] ==
            IF n = 0 THEN S
            ELSE LET below == up[n - 1]
                 IN  below \cup {t[q].parent : q \in below \cap DOMAIN t}
    IN  up[Cardinality(Pages)] \ {Nothing}

\* Where each page of a tree belongs: one title more for each page above it,
\* the root's file when there is none.
Projected(seen) ==
    LET path[n \in 0 .. Cardinality(Pages)] ==
            IF n = 0 THEN [p \in DOMAIN seen |-> <<>>]
            ELSE LET above == path[n - 1]
                 IN  [p \in DOMAIN seen |->
                         IF p = Root THEN <<>> ELSE Append(above[seen[p].parent], seen[p].title)]
    IN  path[Cardinality(Pages)]

-----------------------------------------------------------------------------
\* The reserved folder

TitleOf(path) == IF path = <<>> THEN RootName ELSE Last(path)

Owned(local) == {f \in DOMAIN local : local[f].page # Nothing}
PathOf(local, p) == CHOOSE f \in Owned(local) : local[f].page = p
LocalPages(local) == {local[f].page : f \in Owned(local)}

\* A bare note beside the folder of an owned one asks to become its child;
\* any other bare note is ignored.
Candidates(local) ==
    {f \in DOMAIN local : /\ local[f].page = Nothing
                          /\ f # <<>>
                          /\ Front(f) \in Owned(local)}

\* Ownership is all or nothing: one page per note, the folders spell the
\* parents of the frontmatter, and each note's breadcrumb and child markers
\* are exactly the ones its place implies.
Readable(local) ==
    LET page(f) == local[f].page
        fits(f) ==
            IF f = <<>>
            THEN page(f) = Root /\ local[f].parent = Nothing /\ local[f].link = Nothing
            ELSE /\ page(f) # Root
                 /\ Front(f) \in Owned(local)
                 /\ local[f].parent = page(Front(f))
                 /\ local[f].link = Front(f)
        marked(f) == local[f].kids = {page(g) : g \in {h \in Owned(local) : local[h].parent = page(f)}}
    IN  \/ Owned(local) = {}
        \/ /\ <<>> \in Owned(local)
           /\ \A f, g \in Owned(local) : page(f) = page(g) => f = g
           /\ \A f \in Owned(local) : fits(f) /\ marked(f)

Within(f, top) == IsPrefix(top, f)
Strictly(f, top) == IsPrefix(top, f) /\ f # top

\* The path of f once the page at from, with its companion folder, is at to.
Moved(f, from, to) ==
    IF Within(f, from) THEN to \o SubSeq(f, Len(from) + 1, Len(f)) ELSE f

MoveTree(local, from, to) ==
    [f \in {Moved(g, from, to) : g \in DOMAIN local} |->
        local[CHOOSE g \in DOMAIN local : Moved(g, from, to) = f]]

-----------------------------------------------------------------------------
\* The durable state

\* A persisted state that cannot be a tree is refused before anything else.
ValidPrior(base) ==
    \/ base = Nothing
    \/ /\ Root \in DOMAIN base
       /\ base[Root].parent = Nothing /\ base[Root].path = <<>>
       /\ \A p \in DOMAIN base \ {Root} : base[p].parent \in DOMAIN base
       /\ \A p \in DOMAIN base : Root \in Lineage(base, {p})
       /\ \A p, q \in DOMAIN base : base[p].path = base[q].path => p = q

Priors(base) == IF base = Nothing THEN {} ELSE DOMAIN base

WithStatus(base, S, status) ==
    IF base = Nothing THEN base
    ELSE [p \in DOMAIN base |-> IF p \in S THEN [base[p] EXCEPT !.status = status] ELSE base[p]]

\* A refused plan holds the pages it saw, or all when it saw none.
Refused(base, S) ==
    [ops |-> <<>>, next |-> WithStatus(base, IF S = {} THEN Pages ELSE S, "attention")]

-----------------------------------------------------------------------------
(* What a run decides.  c gathers what it knows: the observed tree seen, the *)
(* local tree, the prior state base, whether the root is opaque, and to, the *)
(* projected paths.                                                          *)

File(c, p) == PathOf(c.local, p)
Note(c, p) == c.local[File(c, p)]
IsOpaque(c, p) == p = Root /\ c.opaque
Has(c, p) == p \in LocalPages(c.local)

\* What the note of p is once Notion's side is written over it: frontmatter,
\* breadcrumb, body and markers.  An opaque root keeps its local body.
Rendered(c, p) ==
    [page |-> p, parent |-> c.seen[p].parent,
     link |-> IF p = Root THEN Nothing ELSE c.to[c.seen[p].parent],
     body |-> IF IsOpaque(c, p) /\ Has(c, p) THEN Note(c, p).body ELSE c.seen[p].body,
     kids |-> c.seen[p].kids]

LocalChanged(c, p) ==
    /\ ~IsOpaque(c, p)
    /\ \/ Note(c, p).body # c.base[p].body
       \/ Note(c, p).kids # c.base[p].kids
       \/ Note(c, p).parent # c.base[p].parent
       \/ TitleOf(File(c, p)) # c.base[p].title

RemoteChanged(c, p) ==
    \/ ~IsOpaque(c, p) /\ c.seen[p].body # c.base[p].body
    \/ c.seen[p].kids # c.base[p].kids
    \/ c.seen[p].parent # c.base[p].parent
    \/ c.seen[p].title # c.base[p].title

DirectlyMoved(c, p) ==
    /\ ~IsOpaque(c, p)
    /\ c.seen[p].title # c.base[p].title \/ c.seen[p].parent # c.base[p].parent

\* Some page above p moved by itself, as far up as both trees know the way:
\* above in the tree as it is, and above in the tree as it was recorded.
MovedAbove(c, p) ==
    LET above[q \in Pages \cup {Nothing}] ==
            /\ q \in DOMAIN c.seen \cap DOMAIN c.base
            /\ DirectlyMoved(c, q) \/ above[c.seen[q].parent]
    IN  above[c.seen[p].parent]

MovedAboveBefore(c, p) ==
    LET above[q \in Pages \cup {Nothing}] ==
            /\ q \in DOMAIN c.seen \cap DOMAIN c.base
            /\ DirectlyMoved(c, q) \/ above[c.base[q].parent]
    IN  above[c.base[p].parent]

Converged(c, p) ==
    /\ Note(c, p).parent = c.seen[p].parent
    /\ IsOpaque(c, p) \/ /\ Note(c, p).body = c.seen[p].body
                         /\ Note(c, p).kids = c.seen[p].kids
                         /\ TitleOf(File(c, p)) = c.seen[p].title

\* The branch of planCortexTree a page takes, in the order of its tests.
Verdict(c, p) ==
    LET prior == p \in Priors(c.base)
        away == File(c, p) # c.to[p]
        dragged == away /\ ~DirectlyMoved(c, p) /\ MovedAbove(c, p)
    IN  CASE ~prior /\ ~Has(c, p) -> "create"
          [] ~prior /\ Has(c, p) -> IF Converged(c, p) /\ ~away THEN "none" ELSE "unknown"
          [] prior /\ c.base[p].status = "conflict" -> "conflict"
          [] OTHER ->
             IF away /\ DirectlyMoved(c, p) /\ MovedAboveBefore(c, p) THEN "held"
             ELSE IF dragged /\ LocalChanged(c, p) THEN "held"
             ELSE IF LocalChanged(c, p) /\ RemoteChanged(c, p) /\ ~Converged(c, p) THEN "clash"
             ELSE IF LocalChanged(c, p) /\ ~RemoteChanged(c, p) THEN "push"
             ELSE IF (RemoteChanged(c, p) /\ ~LocalChanged(c, p)) \/ dragged
                  THEN IF p = Root /\ DirectlyMoved(c, p) THEN "unknown" ELSE "pull"
             ELSE "none"

-----------------------------------------------------------------------------
(* The effects.  An operation carries what its journal intent does: the page *)
(* and paths, the bytes expected at src, the bytes it leaves at path, and    *)
(* what the page must be in Notion afterwards.                               *)

Op(c, kind, p, src, path, old, note) ==
    [kind |-> kind, page |-> p, src |-> src, path |-> path, old |-> old, note |-> note,
     parent |-> c.seen[p].parent, title |-> c.seen[p].title, body |-> c.seen[p].body,
     kids |-> c.seen[p].kids]

\* The artifact sits outside the scanned notes, one per page.
Artifact(c, p) == [local |-> Note(c, p).body, remote |-> c.seen[p].body]

Pushed(c, p, kind, parent) ==
    [Op(c, kind, p, File(c, p), File(c, p), Note(c, p), Note(c, p)) EXCEPT
        !.body = Note(c, p).body, !.title = TitleOf(File(c, p)), !.parent = parent]

Optional(test, op) == IF test THEN <<op>> ELSE <<>>

EffectsOf(c, p) ==
    LET verdict == Verdict(c, p) IN
    CASE verdict = "create" ->
           <<Op(c, "create-local", p, c.to[p], c.to[p], Nothing, Rendered(c, p))>>
      [] verdict = "clash" ->
           <<Op(c, "conflict", p, File(c, p), File(c, p), Nothing, Artifact(c, p))>>
      [] verdict = "push" ->
           Optional(Note(c, p).body # c.base[p].body, Pushed(c, p, "body", c.seen[p].parent))
           \o Optional(TitleOf(File(c, p)) # c.base[p].title, Pushed(c, p, "title", c.seen[p].parent))
           \o Optional(Note(c, p).parent # c.base[p].parent,
                       Pushed(c, p, "parent", Note(c, p).parent))
      [] verdict = "pull" ->
           Optional(File(c, p) # c.to[p] /\ DirectlyMoved(c, p),
                    Op(c, "move-local", p, File(c, p), c.to[p], Note(c, p), Rendered(c, p)))
           \o Optional(Note(c, p) # Rendered(c, p) \/ File(c, p) # c.to[p],
                       Op(c, "write", p, c.to[p], c.to[p], Note(c, p), Rendered(c, p)))
      [] OTHER -> <<>>

\* A directly moved page whose subtree move is not planned stays put.
Blocked(c, p) ==
    /\ p \in Priors(c.base) /\ Has(c, p)
    /\ DirectlyMoved(c, p) /\ c.base[p].path # c.to[p] /\ File(c, p) # c.to[p]
    /\ \A o \in ToSet(EffectsOf(c, p)) : o.kind # "move-local"

\* Mutant of Barriers: conflicts do not hold the pages around them.
BarriersOfMoves(c) == {p \in DOMAIN c.seen : Blocked(c, p)}

\* Such a page, and a page in conflict, hold every page below them, in either
\* tree, where it is.
Barriers(c) == {p \in DOMAIN c.seen : Verdict(c, p) \in {"clash", "conflict"} \/ Blocked(c, p)}

Above(c, p) ==
    LET up[n \in 0 .. Cardinality(Pages)] ==
            IF n = 0 THEN {p}
            ELSE LET below == up[n - 1]
                 IN  Lineage(c.seen, below)
                     \cup (IF c.base = Nothing THEN {} ELSE Lineage(c.base, below))
    IN  up[Cardinality(Pages)]

\* The pages held behind a barrier.
Bounded(c) ==
    LET barriers == Barriers(c)
    IN  IF barriers = {} THEN {} ELSE {p \in DOMAIN c.seen : Above(c, p) \cap barriers # {}}

\* The provisional state: Notion's side of every page, as if its effects all
\* succeed; a page held back keeps its record.
Desired(c, p) ==
    [parent |-> c.seen[p].parent, title |-> c.seen[p].title, path |-> c.to[p],
     body |-> c.seen[p].body, kids |-> c.seen[p].kids, status |-> "synced"]

NextPage(c, bounded, p) ==
    LET verdict == Verdict(c, p) IN
    IF verdict \in {"clash", "conflict"} THEN [c.base[p] EXCEPT !.status = "conflict"]
    ELSE IF verdict = "held" \/ p \in bounded \cap Priors(c.base)
         THEN [c.base[p] EXCEPT !.status = "attention"]
    ELSE IF p \in bounded THEN [Desired(c, p) EXCEPT !.status = "attention"]
    ELSE Desired(c, p)

PageOps(c, bounded, p) ==
    IF p \in bounded /\ Verdict(c, p) \notin {"clash", "conflict"} THEN <<>> ELSE EffectsOf(c, p)

\* A candidate becomes a page below its parent unless something holds the
\* parent, or a planned move will carry the candidate away.
CandidateOps(c, bounded, ops) ==
    LET parent(f) == c.local[Front(f)].page
        free == {f \in Candidates(c.local) :
                    /\ parent(f) \in DOMAIN c.seen \ bounded
                    /\ \A o \in ToSet(ops) : o.kind = "move-local" => ~Strictly(f, o.src)}
        create(f) == [Op(c, "create-remote", parent(f), f, f, c.local[f], c.local[f]) EXCEPT
                        !.page = Nothing, !.parent = parent(f), !.title = TitleOf(f),
                        !.body = c.local[f].body, !.kids = {}]
    IN  SetToSeq({create(f) : f \in free})

\* A page missing on one side is only recorded.
Missing(c) ==
    WithStatus(WithStatus(c.base, DOMAIN c.base \ DOMAIN c.seen, "missing-notion"),
               (DOMAIN c.base \cap DOMAIN c.seen) \ LocalPages(c.local), "missing-local")

\* planCortexTree over a complete discovery: parents before children.
Plan(seen, local, base, opaque) ==
    LET to == Projected(seen)
        collides == \/ \E p, q \in DOMAIN seen : p # q /\ to[p] = to[q]
                    \/ \E p \in DOMAIN seen : to[p] \in Candidates(local)
        c == [seen |-> seen, local |-> local, base |-> base, opaque |-> opaque, to |-> to]
        level(d) == {p \in DOMAIN seen : Len(to[p]) = d - 1}
        order == FlattenSeq([d \in 1 .. Cardinality(DOMAIN seen) |-> SetToSeq(level(d))])
    IN  IF ~ValidPrior(base) THEN Refused(base, {})
        ELSE IF ~Readable(local) \/ collides THEN Refused(base, DOMAIN seen)
        ELSE IF ~Priors(base) \subseteq DOMAIN seen \cap LocalPages(local)
             THEN [ops |-> <<>>, next |-> Missing(c)]
        ELSE LET bounded == Bounded(c)
                 ops == FlattenSeq([i \in DOMAIN order |-> PageOps(c, bounded, order[i])])
             IN  [ops |-> ops \o CandidateOps(c, bounded, ops),
                  next |-> [p \in DOMAIN seen |-> NextPage(c, bounded, p)]]
=============================================================================
