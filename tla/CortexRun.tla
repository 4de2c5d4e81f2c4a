----------------------------- MODULE CortexRun ------------------------------
(***************************************************************************)
(* One Cortex run after another (worker.ts, executor.ts, notion.ts): the   *)
(* tree of Notion is read, then the reserved folder; a plan is made; its   *)
(* effects are executed one by one, each fenced by a journal intent, with  *)
(* the owner editing both sides in between; the state is saved.  A call    *)
(* may fail, and the process may stop, at any point.                       *)
(***************************************************************************)
EXTENDS CortexTree

CONSTANTS
    Starts,     \* the Notion trees a behaviour may start from, and whether the
                \* root is one of blocks only
    MaxEdits,   \* bound on the owner's edits
    MaxFaults   \* bound on failed calls and crashes

\* A workspace is a tree of pages with the configured one on top.
Titles == Names \cup {RootName}

IsTree(tree) ==
    /\ DOMAIN tree \subseteq Pages
    /\ tree \in [DOMAIN tree -> [parent : Pages \cup {Nothing}, title : Titles, body : Nat]]
    /\ Root \in DOMAIN tree
    /\ \A p \in DOMAIN tree \ {Root} : tree[p].parent \in DOMAIN tree

ASSUME StartsAssumption ==
    \A start \in Starts :
        /\ IsTree(start.tree) /\ start.opaque \in BOOLEAN
        /\ \A p \in DOMAIN start.tree : start.tree[p].body \in {0, 1}

ASSUME BoundsAssumption == MaxEdits \in Nat /\ MaxFaults \in Nat

VARIABLES
    remote,     \* the Notion tree
    opaque,     \* the root is one of blocks only
    local,      \* the reserved folder
    base,       \* the durable Cortex state, or Nothing
    artifacts,  \* the conflict artifacts, by page
    open,       \* the Cortex intents of the journal without a completion
    fence,      \* a commit-state intent without a completion
    run,        \* the run in progress
    edits, faults,
    noteHeld,   \* history: the bodies each page's note has held
    pageHeld,   \* history: the bodies each page has held in Notion
    madeFrom    \* history: the body of the candidate a run made a page from

vars == <<remote, opaque, local, base, artifacts, open, fence, run, edits, faults,
          noteHeld, pageHeld, madeFrom>>

notion == <<remote, pageHeld, madeFrom>>
vault == <<local, artifacts, noteHeld>>
durable == <<base, open, fence>>
bounds == <<opaque, edits, faults>>

Idle == [at |-> "idle"]

\* The folder that mirrors a tree, and the state that records it.
Mirror(tree, opq) ==
    LET seen == Seen(tree, opq)
        to == Projected(seen)
    IN  [f \in {to[p] : p \in DOMAIN tree} |->
            LET p == CHOOSE q \in DOMAIN tree : to[q] = f
            IN  [page |-> p, parent |-> tree[p].parent,
                 link |-> IF p = Root THEN Nothing ELSE to[tree[p].parent],
                 body |-> tree[p].body, kids |-> seen[p].kids]]

Recorded(tree, opq) ==
    LET seen == Seen(tree, opq)
        c == [seen |-> seen, to |-> Projected(seen)]
    IN  [p \in DOMAIN tree |-> Desired(c, p)]

\* Bodies 0 and 1 are the initial ones; an edit brings the next, and Mine is
\* what the owner wrote in the note of a page already in conflict.
Mine == MaxEdits + 2

InStep ==
    /\ local = Mirror(remote, opaque)
    /\ base \in {Recorded(remote, opaque), Nothing}
    /\ artifacts = <<>>

NoFolder == local = <<>> /\ base = Nothing /\ artifacts = <<>>

Divided ==
    \E p \in DOMAIN remote \ {Root} :
      LET mirror == Mirror(remote, opaque)
          f == PathOf(mirror, p)
      IN  /\ local = [mirror EXCEPT ![f].body = Mine]
          /\ base = [Recorded(remote, opaque) EXCEPT ![p].body = 0, ![p].status = "conflict"]
          /\ artifacts = [q \in {p} |-> [local |-> Mine, remote |-> 1]]

\* A tree in step with its folder, recorded or not, no folder yet, or a page
\* both sides have rewritten.
Init ==
    /\ \E start \in Starts : remote = start.tree /\ opaque = start.opaque
    /\ InStep \/ NoFolder \/ Divided
    /\ open = {} /\ fence = FALSE
    /\ run = Idle
    /\ edits = 0 /\ faults = 0
    /\ pageHeld = [p \in Pages |-> IF p \in DOMAIN remote THEN {0, 1} ELSE {}]
    /\ noteHeld = [p \in Pages |-> IF p \in LocalPages(local) THEN {0, 1, local[PathOf(local, p)].body}
                                   ELSE {}]
    /\ madeFrom = <<>>

-----------------------------------------------------------------------------
\* The two sides, as the owner or a run changes them

SetRemote(tree) ==
    /\ remote' = tree
    /\ pageHeld' = [p \in Pages |-> pageHeld[p] \cup
                        (IF p \in DOMAIN tree THEN {tree[p].body} ELSE {})]

SetLocal(tree) ==
    /\ local' = tree
    /\ noteHeld' = [p \in Pages |-> noteHeld[p] \cup
                        {tree[f].body : f \in {g \in Owned(tree) : tree[g].page = p}}]

Put(tree, key, value) == [k \in DOMAIN tree \cup {key} |-> IF k = key THEN value ELSE tree[k]]

WithBody(tree, key, body) == [tree EXCEPT ![key].body = body]
WithTitle(tree, key, title) == [tree EXCEPT ![key].title = title]
WithParent(tree, key, parent) == [tree EXCEPT ![key].parent = parent]

\* Every edit of the owner brings a body of its own.
Token == edits + 2
Fresh == {p \in Others : pageHeld[p] = {}}

OwnerStep == /\ edits < MaxEdits
             /\ edits' = edits + 1
             /\ UNCHANGED <<opaque, base, artifacts, open, fence, run, faults, madeFrom>>

RemoteEdit ==
    /\ OwnerStep /\ UNCHANGED <<local, noteHeld>>
    /\ \E p \in DOMAIN remote :
         \/ ~(p = Root /\ opaque) /\ SetRemote(WithBody(remote, p, Token))
         \/ \E t \in Names \ {remote[p].title} : SetRemote(WithTitle(remote, p, t))
         \/ \E q \in DOMAIN remote :
              /\ p # Root /\ remote[p].parent # q /\ p \notin Lineage(remote, {q})
              /\ SetRemote(WithParent(remote, p, q))
         \/ \E new \in Fresh, t \in Names :
              /\ new = CHOOSE q \in Fresh : TRUE
              /\ SetRemote(Put(remote, new, [parent |-> p, title |-> t, body |-> Token]))
         \/ /\ p # Root /\ \A q \in DOMAIN remote : remote[q].parent # p
            /\ SetRemote([q \in DOMAIN remote \ {p} |-> remote[q]])

\* The owner moves or renames a note with its folder, and rights its
\* frontmatter, the breadcrumbs below it and the markers of both parents.
\* Half of that would leave a tree no run reads.
Relocated(from, to) ==
    LET tree == MoveTree(local, from, to)
        p == local[from].page
        fixed(f, n) ==
            [n EXCEPT !.link = IF f = <<>> \/ n.page = Nothing THEN @ ELSE Front(f),
                      !.parent = IF f = to THEN local[Front(to)].page ELSE @,
                      !.kids = IF f = Front(to) THEN @ \cup {p} ELSE IF f = Front(from) THEN @ \ {p} ELSE @]
    IN  [f \in DOMAIN tree |-> fixed(f, tree[f])]

\* A note without frontmatter; and a note removed, with its parent's marker.
Jotted == [page |-> Nothing, parent |-> Nothing, link |-> Nothing, body |-> Token, kids |-> {}]

Without(f) ==
    [g \in DOMAIN local \ {f} |->
        IF f # <<>> /\ g = Front(f) THEN [local[g] EXCEPT !.kids = @ \ {local[f].page}]
        ELSE local[g]]

LocalEdit ==
    /\ OwnerStep /\ UNCHANGED <<remote, pageHeld>>
    /\ \/ \E f \in DOMAIN local : SetLocal(WithBody(local, f, Token))
       \/ \E f \in {<<>>} \cup {Append(g, t) : g \in DOMAIN local, t \in Names} :
            f \notin DOMAIN local /\ SetLocal(Put(local, f, Jotted))
       \/ \E from \in Owned(local) \ {<<>>}, q \in Owned(local), t \in Names :
            LET to == Append(q, t) IN
            /\ ~Within(q, from)
            /\ \A f \in DOMAIN local : ~Within(f, to)
            /\ SetLocal(Relocated(from, to))
       \/ \E f \in DOMAIN local :
            (\A g \in DOMAIN local : ~Strictly(g, f)) /\ SetLocal(Without(f))

-----------------------------------------------------------------------------
\* Between two runs: the journal of an earlier run is recovered first

CanFail == faults < MaxFaults

\* The intents of a remote effect leave the note as it was.
Bytes(op) == IF op.kind \in {"body", "title", "parent"} THEN op.old ELSE op.note

\* createCortexRecoveryObserver: an intent is either proved done, on both
\* sides, or left open.
Provable(op) ==
    /\ op.kind \notin {"create-remote", "move-local"}
    /\ IF op.kind = "conflict"
       THEN op.page \in DOMAIN artifacts /\ artifacts[op.page] = Bytes(op)
       ELSE /\ op.path \in DOMAIN local /\ local[op.path] = Bytes(op)
            /\ local[op.path].page = op.page /\ local[op.path].parent = op.parent
    /\ op.page \in DOMAIN remote
    /\ LET now == Observed(remote, opaque, op.page) IN
       /\ now.parent = op.parent /\ now.title = op.title
       /\ now.body = op.body /\ now.kids = op.kids

\* The first page of the list the state knows is held.
WithAttention(tree, list) ==
    LET known == {i \in DOMAIN list : list[i] \in Priors(tree) /\ tree[list[i]].status # "conflict"}
    IN  IF tree = Nothing \/ known = {} THEN tree
        ELSE WithStatus(tree, {list[Min(known)]}, "attention")

MarkedFor(op) ==
    LET list == <<op.page, op.parent, Root>>
        known == {i \in DOMAIN list : list[i] \in Priors(base)}
    IN  IF known = {} THEN base ELSE WithStatus(base, {list[Min(known)]}, "attention")

Recover ==
    /\ run = Idle /\ ~fence /\ open # {}
    /\ \E op \in open :
         \/ Provable(op) /\ open' = open \ {op} /\ UNCHANGED <<base, faults>>
         \/ ~Provable(op) /\ base' = MarkedFor(op) /\ UNCHANGED <<open, faults>>
         \/ /\ CanFail /\ faults' = faults + 1
            /\ base' = MarkedFor(op) /\ UNCHANGED open
    /\ UNCHANGED <<notion, vault, fence, run, opaque, edits>>

-----------------------------------------------------------------------------
\* Reading and planning

\* The page an operation rereads: its own, or the parent of a page to be.
Subject(op) == IF op.page = Nothing THEN op.parent ELSE op.page

\* Mutant of Discover: a pending Cortex intent does not hold the next run.
DiscoverAnyway ==
    /\ run = Idle /\ ~fence
    /\ run' = [at |-> "scan", seen |-> Seen(remote, opaque)]
    /\ UNCHANGED <<notion, vault, durable, bounds>>

\* A complete traversal; the folder is scanned only after one.
Discover ==
    /\ run = Idle /\ ~fence /\ open = {}
    /\ run' = [at |-> "scan", seen |-> Seen(remote, opaque)]
    /\ UNCHANGED <<notion, vault, durable, bounds>>

\* Mutant of Execute: the effects begin without the state fence.
ExecuteUnfenced(plan, seen) ==
    /\ run' = [at |-> IF plan.ops = <<>> THEN "save" ELSE "begin",
               ops |-> plan.ops, next |-> plan.next, done |-> <<>>,
               current |-> [p \in {Subject(o) : o \in ToSet(plan.ops)} |-> seen[p]]]
    /\ UNCHANGED fence

\* The state is saved between the begin and the completion of a commit-state
\* intent; without effects and news nothing is begun.  Each page an effect is
\* about is taken to be what it was planned on.
Execute(plan, seen) ==
    IF plan.ops = <<>> /\ plan.next = base
    THEN run' = Idle /\ UNCHANGED fence
    ELSE /\ fence' = TRUE
         /\ run' = [at |-> IF plan.ops = <<>> THEN "save" ELSE "begin",
                    ops |-> plan.ops, next |-> plan.next, done |-> <<>>,
                    current |-> [p \in {Subject(o) : o \in ToSet(plan.ops)} |-> seen[p]]]

\* A page that cannot be read, and the pages below it, are missing from the
\* traversal, which then proves nothing: the pages it saw are held.
DiscoveryFails ==
    /\ run = Idle /\ ~fence /\ open = {}
    /\ CanFail /\ faults' = faults + 1
    /\ \E lost \in DOMAIN remote :
         Execute(Refused(base, {p \in DOMAIN remote : lost \notin Lineage(remote, {p})}), <<>>)
    /\ UNCHANGED <<notion, vault, base, open, opaque, edits>>

Scan ==
    /\ run.at = "scan"
    /\ Execute(Plan(run.seen, local, base, opaque), run.seen)
    /\ UNCHANGED <<notion, vault, base, open, bounds>>

-----------------------------------------------------------------------------
\* What a run leaves in the state

\* Where the outcomes of p are, and the last of them.
About(done, p) == {i \in DOMAIN done : done[i].page = p}
Latest(done, p) == done[Max(About(done, p))]

InNotion(page, o) ==
    [page EXCEPT !.parent = o.seen.parent, !.title = o.seen.title,
                 !.body = o.seen.body, !.kids = o.seen.kids]

\* A page made from a candidate is recorded once its note names it.
Made(tree, done) ==
    LET bound == {i \in DOMAIN done : done[i].kind = "rebind"}
        record(o) == [parent |-> o.seen.parent, title |-> o.seen.title, path |-> o.path,
                      body |-> o.seen.body, kids |-> o.seen.kids, status |-> "synced"]
    IN  [p \in DOMAIN tree \cup {done[i].page : i \in bound} |->
            IF \E i \in bound : done[i].page = p
            THEN record(done[CHOOSE i \in bound : done[i].page = p]) ELSE tree[p]]

\* A subtree move carries every recorded page below it; one not written at
\* its place afterwards is held there.
Carried(tree, done) ==
    LET written == {"create-local", "write", "rebind", "mark", "move-local"}
        placed(p, n) == \E i \in n .. Len(done) : done[i].page = p /\ done[i].kind \in written
        step(f, n) == IF done[n].kind = "move-local" THEN Moved(f, done[n].src, done[n].path) ELSE f
        after[n \in 0 .. Len(done)] ==
            IF n = 0 THEN [at |-> [p \in Priors(base) |-> base[p].path], tree |-> tree]
            ELSE LET was == after[n - 1] IN
                 [at |-> [p \in Priors(base) |-> step(was.at[p], n)],
                  tree |-> [p \in DOMAIN tree |->
                      IF /\ p \in Priors(base)
                         /\ step(was.at[p], n) # was.at[p]
                         /\ ~placed(p, n)
                      THEN [was.tree[p] EXCEPT !.path = step(was.at[p], n), !.status = "attention"]
                      ELSE was.tree[p]]]
    IN  after[Len(done)].tree

\* refreshState: every effect succeeded.
Refreshed(next, current, done) ==
    IF next = Nothing THEN next
    ELSE LET fresh(p) ==
                 IF p \notin DOMAIN current \/ next[p].status # "synced" THEN next[p]
                 ELSE [InNotion(next[p], [seen |-> current[p]]) EXCEPT
                         !.path = IF About(done, p) = {} THEN @ ELSE Latest(done, p).path]
         IN  Made(Carried([p \in DOMAIN next |-> fresh(p)], done), done)

\* refreshVerifiedState: one failed.
Verified(done) ==
    IF base = Nothing THEN base
    ELSE LET fresh(p) ==
                 LET last == Latest(done, p) IN
                 IF About(done, p) = {} THEN base[p]
                 ELSE IF last.kind = "conflict" THEN [base[p] EXCEPT !.status = "conflict"]
                 ELSE [InNotion(base[p], last) EXCEPT !.path = last.path]
         IN  Carried(Made([p \in DOMAIN base |-> fresh(p)], done), done)

\* The page held when an effect fails; a failed creation holds the parent.
Failing(op) ==
    CASE op.kind = "create-remote" -> IF run.at = "begin" THEN <<>> ELSE <<op.parent, Root>>
      [] op.kind = "rebind" -> <<op.parent, Root>>
      [] op.kind = "mark" -> <<op.page, Root>>
      [] OTHER -> <<op.page>>

Fail(done) ==
    run' = [run EXCEPT !.at = "save", !.ops = <<>>, !.current = <<>>, !.done = <<>>,
                       !.next = WithAttention(Verified(done), Failing(Head(run.ops)))]

-----------------------------------------------------------------------------
\* The effects

Now(p) == Observed(remote, opaque, p)

\* Mutant of AsTaken: the page is only checked to be there.
AsTakenById(p) == p \in DOMAIN remote

AsTaken(p) == p \in DOMAIN remote /\ Now(p) = run.current[p]

\* After a creation: the candidate's note is bound to the new page, then the
\* parent's markers are written, over the body the parent has in Notion.
Rebind(op, made) ==
    [op EXCEPT !.kind = "rebind", !.page = made, !.kids = Now(made).kids,
               !.note = [page |-> made, parent |-> op.parent, link |-> Front(op.path),
                         body |-> op.body, kids |-> {}]]

Mark(op) == [op EXCEPT !.kind = "mark", !.page = op.parent, !.src = Front(op.path),
                       !.path = Front(op.path)]

Marking(op) ==
    LET seen == Now(op.page) IN
    [op EXCEPT !.parent = seen.parent, !.title = seen.title, !.body = seen.body,
               !.kids = seen.kids, !.old = local[op.path],
               !.note = [page |-> op.page, parent |-> seen.parent,
                         link |-> IF op.page = Root THEN Nothing ELSE Front(op.path),
                         body |-> seen.body, kids |-> seen.kids]]

\* The page is read again and must be as taken; then the intent is written.
Begin ==
    /\ run.at = "begin"
    /\ LET op == Head(run.ops) IN
       IF op.kind = "mark"
       THEN IF /\ op.page \in DOMAIN remote
               /\ Last(run.done).page \in Now(op.page).kids
               /\ op.path \in Owned(local)
               /\ local[op.path].page = op.page /\ local[op.path].parent = Now(op.page).parent
            THEN /\ open' = open \cup {Marking(op)}
                 /\ run' = [run EXCEPT !.at = "effect", !.ops = <<Marking(op)>> \o Tail(@),
                                       !.current = Put(@, op.page, Now(op.page))]
            ELSE Fail(run.done) /\ UNCHANGED open
       ELSE IF AsTaken(Subject(op))
            THEN open' = open \cup {op} /\ run' = [run EXCEPT !.at = "effect"]
            ELSE Fail(run.done) /\ UNCHANGED open
    /\ UNCHANGED <<notion, vault, base, fence, bounds>>

\* The bytes on disk must be the expected ones.
LocalReady(op) ==
    CASE op.kind = "create-local" -> op.path \notin DOMAIN local
      [] op.kind = "conflict" -> op.page \notin DOMAIN artifacts
      [] op.kind = "move-local" -> /\ op.src \in DOMAIN local /\ local[op.src] = op.old
                                   /\ \A f \in DOMAIN local : ~Within(f, op.path)
      [] OTHER -> op.src \in DOMAIN local /\ local[op.src] = op.old

RemoteKinds == {"body", "title", "parent", "create-remote"}

ApplyLocal(op) ==
    /\ op.kind \notin RemoteKinds /\ LocalReady(op)
    /\ CASE op.kind = "conflict" ->
              artifacts' = Put(artifacts, op.page, op.note) /\ UNCHANGED <<local, noteHeld>>
         [] op.kind = "move-local" ->
              SetLocal(MoveTree(local, op.src, op.path)) /\ UNCHANGED artifacts
         [] OTHER -> SetLocal(Put(local, op.path, op.note)) /\ UNCHANGED artifacts
    /\ UNCHANGED notion

\* Notion has no precondition; the client compares the page before it calls.
ApplyRemote(op) ==
    /\ op.kind \in RemoteKinds /\ AsTaken(Subject(op))
    /\ CASE op.kind = "create-remote" ->
              /\ LocalReady(op) /\ Fresh # {}
              /\ LET new == CHOOSE q \in Fresh : TRUE IN
                 /\ SetRemote(Put(remote, new, [parent |-> op.parent, title |-> op.title,
                                                body |-> op.body]))
                 /\ madeFrom' = Put(madeFrom, new, op.body)
         [] op.kind = "body" -> SetRemote(WithBody(remote, op.page, op.body)) /\ UNCHANGED madeFrom
         [] op.kind = "title" -> SetRemote(WithTitle(remote, op.page, op.title)) /\ UNCHANGED madeFrom
         [] op.kind = "parent" ->
              /\ op.parent \in DOMAIN remote /\ op.page \notin Lineage(remote, {op.parent})
              /\ SetRemote(WithParent(remote, op.page, op.parent))
              /\ UNCHANGED madeFrom
    /\ UNCHANGED vault

\* The page a creation has just made.
Newest == CHOOSE p \in DOMAIN madeFrom : madeFrom[p] = Head(run.ops).body

Refuses(op) ==
    IF op.kind \notin RemoteKinds THEN ~LocalReady(op)
    ELSE \/ ~AsTaken(Subject(op))
         \/ op.kind = "create-remote" /\ ~LocalReady(op)
         \/ op.kind = "parent" /\ (op.parent \notin DOMAIN remote \/ op.page \in Lineage(remote, {op.parent}))

Effect ==
    /\ run.at = "effect"
    /\ LET op == Head(run.ops) IN
       \/ /\ ApplyLocal(op) \/ ApplyRemote(op)
          /\ run' = [run EXCEPT !.at = "settle"]
       \/ Refuses(op) /\ Fail(run.done) /\ UNCHANGED <<notion, vault>>
    /\ UNCHANGED <<durable, bounds>>

\* A call fails before it does anything, or after.
EffectFails ==
    /\ run.at \in {"begin", "effect"} /\ CanFail /\ faults' = faults + 1
    /\ \/ UNCHANGED <<notion, vault>>
       \/ run.at = "effect" /\ (ApplyLocal(Head(run.ops)) \/ ApplyRemote(Head(run.ops)))
    /\ Fail(run.done)
    /\ UNCHANGED <<durable, opaque, edits>>

\* What the page must be once the effect is done.
Expected(op) ==
    CASE op.kind = "body" -> [run.current[op.page] EXCEPT !.body = op.body]
      [] op.kind = "title" -> [run.current[op.page] EXCEPT !.title = op.title]
      [] op.kind = "parent" -> [run.current[op.page] EXCEPT !.parent = op.parent]
      [] OTHER -> run.current[op.page]

Done(op) ==
    CASE op.kind = "create-remote" ->
           /\ Newest \in DOMAIN remote
           /\ Now(Newest).parent = op.parent /\ Now(Newest).title = op.title
           /\ Now(Newest).body = op.body
      [] op.kind \in RemoteKinds \ {"create-remote"} -> op.page \in DOMAIN remote /\ Now(op.page) = Expected(op)
      [] op.kind = "conflict" -> artifacts[op.page] = op.note
      [] op.kind = "move-local" -> /\ op.src \notin DOMAIN local
                                   /\ op.path \in DOMAIN local /\ local[op.path] = op.old
      [] OTHER -> op.path \in DOMAIN local /\ local[op.path] = op.note

Outcome(op) == [kind |-> op.kind, page |-> op.page, src |-> op.src, path |-> op.path,
                seen |-> Expected(op)]

Advance(ops, done, current) ==
    run' = IF ops = <<>>
           THEN [run EXCEPT !.at = "save", !.ops = <<>>, !.done = <<>>, !.current = <<>>,
                            !.next = Refreshed(run.next, current, done)]
           ELSE [run EXCEPT !.at = "begin", !.ops = ops, !.done = done, !.current = current]

\* The effect is verified and its intent completed.  A creation begins the
\* intent that binds the note before it completes its own.
Settle ==
    /\ run.at = "settle"
    /\ LET op == Head(run.ops) IN
       IF ~Done(op) THEN Fail(run.done) /\ UNCHANGED open
       ELSE IF op.kind = "create-remote"
       THEN LET rebind == Rebind(op, Newest) IN
            /\ open' = (open \ {op}) \cup {rebind}
            /\ run' = [run EXCEPT !.at = "effect", !.ops = <<rebind, Mark(op)>> \o Tail(@),
                                  !.current = Put(@, Newest, Now(Newest))]
       ELSE /\ open' = open \ {op}
            /\ Advance(Tail(run.ops), Append(run.done, Outcome(op)),
                       Put(run.current, op.page, Expected(op)))
    /\ UNCHANGED <<notion, vault, base, fence, bounds>>

\* The verification fails, or only the journal does: what was verified then
\* counts although the intent stays open.
SettleFails ==
    /\ run.at = "settle" /\ CanFail /\ faults' = faults + 1
    /\ LET op == Head(run.ops) IN
       \/ Fail(run.done) /\ UNCHANGED open
       \/ /\ Done(op) /\ op.kind # "create-remote"
          /\ Fail(Append(run.done, Outcome(op))) /\ UNCHANGED open
       \/ /\ Done(op) /\ op.kind = "create-remote"
          /\ Fail(run.done) /\ open' = open \cup {Rebind(op, Newest)}
    /\ UNCHANGED <<notion, vault, base, fence, opaque, edits>>

Save ==
    /\ run.at = "save"
    /\ base' = run.next /\ fence' = FALSE /\ run' = Idle
    /\ UNCHANGED <<notion, vault, open, bounds>>

\* An open commit-state intent refuses every later Cortex run.
Crash ==
    /\ run # Idle /\ CanFail /\ faults' = faults + 1
    /\ run' = Idle
    /\ base' = base \/ (run.at = "save" /\ base' = run.next)
    /\ UNCHANGED <<notion, vault, open, fence, opaque, edits>>

Step == \/ Recover \/ Discover \/ DiscoveryFails \/ Scan \/ Begin \/ Effect \/ EffectFails
        \/ Settle \/ SettleFails \/ Save \/ Crash

Next == RemoteEdit \/ LocalEdit \/ Step

Spec == Init /\ [][Next]_vars

-----------------------------------------------------------------------------
Bodies == 0 .. Mine
Statuses == {"synced", "attention", "conflict", "missing-local", "missing-notion"}
Kinds == RemoteKinds \cup {"create-local", "write", "conflict", "move-local", "rebind", "mark"}

\* Every variable has its shape; the text of worker.ts, executor.ts and the
\* contracts of core.ts.
TypeOK ==
    /\ \A p \in DOMAIN remote : /\ p \in Pages /\ remote[p].parent \in Pages \cup {Nothing}
                                /\ remote[p].body \in Bodies
    /\ \A f \in DOMAIN local : /\ local[f].page \in Pages \cup {Nothing}
                               /\ local[f].body \in Bodies /\ local[f].kids \subseteq Pages
    /\ base # Nothing => \A p \in DOMAIN base : /\ p \in Pages /\ base[p].status \in Statuses
                                                /\ base[p].body \in Bodies
    /\ DOMAIN artifacts \subseteq Pages
    /\ \A op \in open : op.kind \in Kinds
    /\ fence \in BOOLEAN
    /\ run.at \in {"idle", "scan", "begin", "effect", "settle", "save"}
    /\ run.at \in {"begin", "effect", "settle"} => fence /\ run.ops # <<>>
    /\ DOMAIN madeFrom \subseteq Others

\* A candidate becomes one page at most: no failure, crash, recovery or edit
\* between the creation, the binding of its note and the saved state lets a
\* later run make a second page of the same text (executor.ts:655).
NeverCreatedTwice == \A p, q \in DOMAIN madeFrom : madeFrom[p] = madeFrom[q] => p = q

\* The two sides once agreed on the text the state takes for common.
Shared(p) == base[p].body \in noteHeld[p] \cap pageHeld[p]

\* Where that holds, a run replaces a body in Notion only by one written over
\* it, and a note's body only by one written over that: each side's text was
\* on the other before it goes (planner.ts:833-1000). The last comparison and
\* the call are one step here (AsTaken, LocalReady): what the owner puts between
\* the two is not seen by the code when the body of the page was empty, which
\* is replaced unconditionally (notion.ts:405), or for a note, whose window
\* VaultWriter has.
OnlySeenTextIsReplaced ==
    [][Step => \A p \in Priors(base) : Shared(p) =>
         /\ p \in DOMAIN remote /\ p \in DOMAIN remote' /\ remote[p].body # remote'[p].body
            => remote[p].body \in noteHeld[p]
         /\ \A f \in DOMAIN local \cap DOMAIN local' :
              (local[f].page = p /\ local'[f].page = p /\ local[f].body # local'[f].body
                 /\ run.at = "effect" /\ Head(run.ops).kind # "mark")
              => local[f].body \in pageHeld[p]]_vars

\* A conflict is left to the owner: while the state says so, no run changes
\* the page in Notion or the text of its note, whatever moves around them
\* (planner.ts:810-818, 1019-1035).
ConflictIsLeftAlone ==
    [][Step => \A p \in Priors(base) : base[p].status = "conflict" =>
         /\ p \in DOMAIN remote => p \in DOMAIN remote' /\ remote'[p] = remote[p]
         /\ \A f \in Owned(local) : local[f].page = p =>
              \E g \in Owned(local') : local'[g] = local[f]]_vars
=============================================================================
