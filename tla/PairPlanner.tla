----------------------------- MODULE PairPlanner -----------------------------
(* The pure planner of worker/src/sync/planner.ts: from what a run observed   *)
(* of one note (l), of its Notion page (n), and from the persisted pair (p),  *)
(* it decides the effects of the run and the advance of the persisted state.  *)
(* An effect is its kind: its data are functions of the same observations.    *)
EXTENDS Naturals, Sequences

CONSTANTS Bodies,            \* canonical note bodies
          Tags,              \* canonical tag lists
          LossyBodies        \* bodies one converter or the other reports as unsupported

ASSUME LossyAssumption == LossyBodies \subseteq Bodies

\* A SemanticNote: two notes are equal exactly when their semantic hashes are.
Semantics == [body : Bodies, tags : Tags]

\* LocalObservation; a deleted note keeps the content its owner may restore.
Notes == [kind : {"absent", "present", "malformed"},
          sem : Semantics, bridge : BOOLEAN, eligible : BOOLEAN]

PageStatuses == {"synced", "missing-local", "detached", "conflict"}

\* NotionObservation: "none" before the page exists, "trashed" when Notion
\* answers not-found, which the worker reports as missing.
Pages == [kind : {"none", "present", "trashed"},
          sem : Semantics, status : PageStatuses, revision : Nat]

\* PairStateV1: the last common semantic hash and the status.
PairStatuses == PageStatuses \union {"unpaired", "missing-notion"}
Pairs == [status : PairStatuses, common : Semantics]

Paired(p) == p.status # "unpaired"

EffectKinds == {"initialize-pair", "create-notion-page", "update-notion-body-exact",
                "update-notion-properties", "set-notion-status", "write-local",
                "create-conflict"}

Actions == {"none", "error", "noop", "initialize", "push-local", "pull-notion",
            "conflict", "paused", "missing-local", "missing-notion", "detached"}

\* PairPlan: its effects in order, whether it carries a state advance, and the
\* pair the advance persists.
EffectLists == {<<>>} \union {<<a>> : a \in EffectKinds}
                      \union {<<a, b>> : a, b \in EffectKinds}
Plans == [action : Actions, effects : EffectLists, advances : BOOLEAN, next : Pairs]

-----------------------------------------------------------------------------
\* A plan with no effect that leaves the pair as it is: a refusal ("error"), a
\* paused conflict, or nothing to do.
Keep(action, p) == [action |-> action, effects |-> <<>>, advances |-> FALSE, next |-> p]

\* preserve-common: the status moves, the last common content does not.
Preserve(action, p, status, effects) ==
    [action |-> action, effects |-> effects, advances |-> TRUE,
     next |-> [p EXCEPT !.status = status]]

\* establish-common: both sides are known to hold sem.
Establish(action, sem, effects) ==
    [action |-> action, effects |-> effects, advances |-> TRUE,
     next |-> [status |-> "synced", common |-> sem]]

BothChanged(l, n, p) == /\ l.sem # p.common
                        /\ n.sem # p.common
                        /\ l.sem # n.sem

Usable(l, n) == /\ l.kind = "present" /\ l.eligible
                /\ n.kind = "present" /\ n.sem.body \notin LossyBodies

\* reconcile.ts prepares a conflict date under this condition...
NeedsConflictDate(l, n, p) == Paired(p) /\ Usable(l, n) /\ BothChanged(l, n, p)

\* ...and planner.ts accepts one under this condition: the two must agree.
IsNewConflict(l, n, p) == /\ Paired(p) /\ p.status # "conflict"
                          /\ Usable(l, n) /\ l.sem.body \notin LossyBodies
                          /\ BothChanged(l, n, p)

IsPreparationConsistent(l, n, p) == NeedsConflictDate(l, n, p) = IsNewConflict(l, n, p)

\* The page of a pair always carries its Bridge ID, so an identity mismatch is
\* a note that lost the one its pair was persisted under.
HasIdentityMismatch(l, p) == Paired(p) /\ l.kind = "present" /\ ~l.bridge

\* The status effect of a page whose pair lost its note, or was opted out.
MarkPage(action, n, p) ==
    IF n.kind # "present" \/ n.status = action
      THEN Preserve(action, p, action, <<>>)
      ELSE Preserve(action, p, action, <<"set-notion-status">>)

PlanMissingLocal(n, p) == IF Paired(p) THEN MarkPage("missing-local", n, p)
                                       ELSE Keep("error", p)

PlanDetached(n, p) == IF Paired(p) /\ n.kind = "present"
                        THEN MarkPage("detached", n, p)
                        ELSE Keep("detached", p)

PlanMissingNotion(p) == Preserve("missing-notion", p, "missing-notion", <<>>)

\* Mutant: the new page is also marked by an effect of its own.
PlanInitializationAndMark(l, p) ==
    Establish("initialize", l.sem,
              <<"initialize-pair", "create-notion-page", "set-notion-status">>)

PlanInitialization(l, p) ==
    IF l.sem.body \in LossyBodies
      THEN Keep("error", p)
      ELSE Establish("initialize", l.sem,
                     IF l.bridge THEN <<"create-notion-page">>
                                 ELSE <<"initialize-pair", "create-notion-page">>)

\* The page's managed properties that a run rewrites: its tags and its status.
PropertiesTo(n, tags) ==
    IF n.sem.tags = tags /\ n.status = "synced" THEN <<>> ELSE <<"update-notion-properties">>

\* Mutant: a convergence that needs no effect is not recorded.
PlanEqualQuietly(l, n, p) ==
    LET effects == PropertiesTo(n, l.sem.tags)
    IN  IF effects = <<>> THEN Keep("noop", p)
        ELSE IF l.sem # p.common THEN Establish("push-local", l.sem, effects)
        ELSE Preserve("push-local", p, "synced", effects)

PlanEqualSemantics(l, n, p) ==
    LET effects == PropertiesTo(n, l.sem.tags)
    IN  IF l.sem # p.common
          THEN Establish(IF effects = <<>> THEN "noop" ELSE "push-local", l.sem, effects)
          ELSE IF effects = <<>>
            THEN Keep("noop", p)
            ELSE Preserve("push-local", p, "synced", effects)

PlanPush(l, n) ==
    Establish("push-local", l.sem,
              (IF n.sem.body = l.sem.body THEN <<>> ELSE <<"update-notion-body-exact">>)
                \o PropertiesTo(n, l.sem.tags))

PlanPull(n) == Establish("pull-notion", n.sem,
                         <<"write-local">> \o PropertiesTo(n, n.sem.tags))

PlanConflict(p) == Preserve("conflict", p, "conflict", <<"create-conflict", "set-notion-status">>)

-----------------------------------------------------------------------------
\* The checks in their order in planPair: each line is one early return.
PlanPair(l, n, p) ==
    IF ~IsPreparationConsistent(l, n, p) THEN Keep("error", p)
    ELSE IF HasIdentityMismatch(l, p) THEN Keep("error", p)
    ELSE IF l.kind = "malformed" THEN Keep("error", p)
    ELSE IF l.kind = "absent" THEN PlanMissingLocal(n, p)
    ELSE IF ~l.eligible THEN PlanDetached(n, p)
    ELSE IF n.kind # "present" /\ ~Paired(p) THEN PlanInitialization(l, p)
    ELSE IF n.kind # "present" THEN PlanMissingNotion(p)
    ELSE IF ~Paired(p) THEN Keep("error", p)
    ELSE IF {n.sem.body, l.sem.body} \intersect LossyBodies # {} THEN Keep("error", p)
    ELSE IF p.status = "conflict" THEN Keep("paused", p)
    ELSE IF l.sem = n.sem THEN PlanEqualSemantics(l, n, p)
    ELSE IF l.sem # p.common /\ n.sem # p.common THEN PlanConflict(p)
    ELSE IF l.sem # p.common THEN PlanPush(l, n)
    ELSE PlanPull(n)
=============================================================================
