---------------------------- MODULE BridgeRunProofs ----------------------------
(* Proofs about BridgeRun, for any bodies, tags and bounds: the bridge makes  *)
(* a second Notion page only after a completion that was recorded but threw,  *)
(* a quiet installation knows of every other page, and no run loses a         *)
(* conflict, an event or an edit the last check before a call could see.      *)
(*                                                                            *)
(* None of it is inductive. What excludes a second page is that a page which  *)
(* state.json does not know yet always blocks the next one: by the open       *)
(* intent of its creation, or by the state fence (UnrecordedPage). The rest   *)
(* of the first invariant says which effects a plan may have left at each     *)
(* step. The second one, Knowledge, is introduced where it starts below.      *)
EXTENDS BridgeRun, SequenceTheorems, FiniteSetTheorems, TLAPS

Create == "create-notion-page"

InRun == {"effect", "check", "write", "confirm", "register", "save"}

\* The effects an unpaired note may have left, and those of a pair.
NewLists == {<<>>, <<Create>>, <<"initialize-pair", Create>>}
PairKinds == EffectKinds \ {Create}
PairLists == {<<>>} \union {<<a>> : a \in PairKinds} \union {<<a, b>> : a, b \in PairKinds}

\* A page was created and its completion did not throw: the others are forgotten.
PageExists == created = lapsed + 1

Shapes ==
    /\ "kind" \in DOMAIN page /\ "status" \in DOMAIN pair
    /\ created \in Nat /\ lapsed \in Nat /\ pc \in Steps /\ preview \in BOOLEAN /\ fence \in BOOLEAN
    /\ pc \in InRun => "next" \in DOMAIN plan /\ "status" \in DOMAIN plan.next

\* Pages are counted, and state.json knows only of pages that exist.
PagesCounted ==
    /\ created \in {lapsed, lapsed + 1}
    /\ created # 0 => page.kind # "none"
    /\ Paired(pair) => PageExists

\* The effects left are those of the plan's kind of pair, and the intent on the
\* journal is that of the first of them.
EffectsLeft ==
    /\ pc \in InRun => IF Paired(pair) THEN todo \in PairLists ELSE todo \in NewLists
    /\ pc \in {"check", "write", "confirm"} => todo # <<>> /\ intent.kind = Head(todo)
    /\ pc = "confirm" /\ Head(todo) = Create => PageExists
    /\ pc \in {"register", "save"} => todo = <<>>
    /\ pc \in InRun /\ ~Paired(pair) /\ todo # <<>> => Paired(plan.next)

\* A plan that will record a page has the fence up, and the page exists once its
\* effects are done. No plan forgets a page.
PlanFenced ==
    /\ pc \in InRun /\ ~Paired(pair) /\ Paired(plan.next) => fence /\ (PageExists \/ todo # <<>>)
    /\ pc \in InRun /\ Paired(pair) => Paired(plan.next)

\* A page that state.json does not know yet.
UnrecordedPage ==
    PageExists /\ ~Paired(pair) =>
        \/ pc \in {"idle", "recover"} /\ (fence \/ intent.kind = Create)
        \/ pc = "confirm" /\ intent.kind = Create /\ todo = <<Create>>
        \/ pc \in {"register", "save"} /\ intent.kind = Create /\ plan.next = pair
        \/ pc \in {"unfence", "ack"} /\ intent.kind = Create
        \/ pc \in {"effect", "register", "save"} /\ fence /\ Paired(plan.next) /\ todo = <<>>

IndInv == Shapes /\ PagesCounted /\ EffectsLeft /\ PlanFenced /\ UnrecordedPage

-----------------------------------------------------------------------------
\* Lists of effects: what is left after the first one, and the concatenation of
\* two lists of at most one effect.
LEMMA OneEffect ==
    ASSUME NEW a
    PROVE  <<a>> # <<>> /\ Head(<<a>>) = a /\ Tail(<<a>>) = <<>>
<1>1. <<a>> \in Seq({a}) /\ Len(<<a>>) = 1 /\ <<a>>[1] = a
  OBVIOUS
<1>2. <<a>> # <<>>
  BY <1>1, EmptySeq
<1>3. Tail(<<a>>) \in Seq({a}) /\ Len(Tail(<<a>>)) = 0
  BY <1>1, <1>2, HeadTailProperties
<1>4. Tail(<<a>>) = <<>>
  BY <1>3, EmptySeq
<1>5. QED
  BY <1>1, <1>2, <1>4

LEMMA TwoEffects ==
    ASSUME NEW a, NEW b
    PROVE  <<a, b>> # <<>> /\ Head(<<a, b>>) = a /\ Tail(<<a, b>>) = <<b>>
<1>1. /\ <<a, b>> \in Seq({a, b}) /\ Len(<<a, b>>) = 2
      /\ <<a, b>>[1] = a /\ <<a, b>>[2] = b
      /\ <<b>> \in Seq({a, b}) /\ Len(<<b>>) = 1 /\ <<b>>[1] = b
  OBVIOUS
<1>2. <<a, b>> # <<>>
  BY <1>1, EmptySeq
<1>3. /\ Tail(<<a, b>>) \in Seq({a, b}) /\ Len(Tail(<<a, b>>)) = 1
      /\ Tail(<<a, b>>)[1] = b
  BY <1>1, <1>2, HeadTailProperties
<1>4. Tail(<<a, b>>) = <<b>>
  BY <1>1, <1>3, SeqEqual
<1>5. QED
  BY <1>1, <1>2, <1>4

LEMMA TailOfNew ==
    ASSUME NEW s \in NewLists, s # <<>>
    PROVE  /\ Tail(s) \in NewLists
           /\ Head(s) = Create => s = <<Create>> /\ Tail(s) = <<>>
           /\ Head(s) # Create => Tail(s) = <<Create>> /\ Head(s) = "initialize-pair"
<1>1. CASE s = <<Create>>
  <2>1. Head(s) = Create /\ Tail(s) = <<>>
    BY <1>1, OneEffect
  <2>2. QED
    BY <1>1, <2>1 DEF NewLists
<1>2. CASE s = <<"initialize-pair", Create>>
  <2>1. Head(s) = "initialize-pair" /\ Tail(s) = <<Create>>
    BY <1>2, TwoEffects
  <2>2. QED
    BY <2>1 DEF NewLists, Create
<1>3. QED
  BY <1>1, <1>2 DEF NewLists

LEMMA TailOfPair ==
    ASSUME NEW s \in PairLists, s # <<>>
    PROVE  Tail(s) \in PairLists /\ Head(s) \in PairKinds
<1>1. CASE \E a \in PairKinds : s = <<a>>
  <2>1. PICK a \in PairKinds : s = <<a>>
    BY <1>1
  <2>2. Head(s) = a /\ Tail(s) = <<>>
    BY <2>1, OneEffect
  <2>3. QED
    BY <2>2 DEF PairLists
<1>2. CASE \E a, b \in PairKinds : s = <<a, b>>
  <2>1. PICK a \in PairKinds, b \in PairKinds : s = <<a, b>>
    BY <1>2
  <2>2. Head(s) = a /\ Tail(s) = <<b>>
    BY <2>1, TwoEffects
  <2>3. QED
    BY <2>2 DEF PairLists
<1>3. QED
  BY <1>1, <1>2 DEF PairLists

LEMMA ConcatOfPair ==
    ASSUME NEW a \in PairKinds, NEW b \in PairKinds
    PROVE  /\ <<>> \o <<>> = <<>> /\ <<a>> \o <<>> = <<a>>
           /\ <<>> \o <<b>> = <<b>> /\ <<a>> \o <<b>> = <<a, b>>
<1>1. /\ <<>> \in Seq(PairKinds) /\ Len(<<>>) = 0
      /\ <<a>> \in Seq(PairKinds) /\ <<b>> \in Seq(PairKinds) /\ <<a, b>> \in Seq(PairKinds)
      /\ Len(<<a>>) = 1 /\ Len(<<b>>) = 1 /\ Len(<<a, b>>) = 2
      /\ <<a>>[1] = a /\ <<b>>[1] = b /\ <<a, b>>[1] = a /\ <<a, b>>[2] = b
  BY EmptySeq
<1>2. <<>> \o <<>> = <<>> /\ <<a>> \o <<>> = <<a>> /\ <<>> \o <<b>> = <<b>>
  BY <1>1, ConcatEmptySeq
<1>3. /\ <<a>> \o <<b>> \in Seq(PairKinds) /\ Len(<<a>> \o <<b>>) = 2
      /\ \A i \in 1 .. 2 : (<<a>> \o <<b>>)[i] = IF i <= 1 THEN <<a>>[i] ELSE <<b>>[i - 1]
  BY <1>1, ConcatProperties
<1>4. (<<a>> \o <<b>>)[1] = a /\ (<<a>> \o <<b>>)[2] = b
  BY <1>1, <1>3
<1>5. <<a>> \o <<b>> = <<a, b>>
  <2>1. \A i \in 1 .. Len(<<a>> \o <<b>>) : (<<a>> \o <<b>>)[i] = <<a, b>>[i]
    <3>1. \A i \in 1 .. Len(<<a>> \o <<b>>) : i = 1 \/ i = 2
      BY <1>3
    <3>2. QED
      BY <3>1, <1>1, <1>4
  <2>2. \A t \in Seq(PairKinds) :
          Len(<<a>> \o <<b>>) = Len(t)
          /\ (\A i \in 1 .. Len(<<a>> \o <<b>>) : (<<a>> \o <<b>>)[i] = t[i])
          => <<a>> \o <<b>> = t
    BY <1>3, SeqEqual
  <2>3. QED
    BY <1>1, <1>3, <2>1, <2>2
<1>6. QED
  BY <1>2, <1>5

-----------------------------------------------------------------------------
\* The planner. A note without a pair is created or left alone; only its creation
\* advances its state, to a pair.
LEMMA PlanOfNew ==
    ASSUME NEW l, NEW n, NEW p, ~Paired(p), "status" \in DOMAIN p
    PROVE  LET d == PlanPair(l, n, p)
           IN  /\ d.effects \in NewLists /\ "status" \in DOMAIN d.next
               /\ \/ d.effects = <<>> /\ d.next = p /\ ~d.advances
                  \/ d.effects # <<>> /\ Paired(d.next) /\ d.advances
BY DEF PlanPair, Paired, Keep, PlanMissingLocal, PlanDetached, PlanInitialization, Establish,
       NewLists, Create

\* The plan of a pair never creates a page, and keeps it a pair.
KeepsPair(d) == d.effects \in PairLists /\ "status" \in DOMAIN d.next /\ Paired(d.next)

LEMMA EffectsOfPair ==
    /\ <<>> \in PairLists
    /\ <<"set-notion-status">> \in PairLists /\ <<"update-notion-properties">> \in PairLists
    /\ <<"create-conflict", "set-notion-status">> \in PairLists
BY DEF PairLists, PairKinds, EffectKinds, Create

LEMMA PropertiesOfPair ==
    ASSUME NEW n, NEW tags
    PROVE  PropertiesTo(n, tags) \in {<<>>, <<"update-notion-properties">>}
BY DEF PropertiesTo

LEMMA PushAndPullOfPair ==
    ASSUME NEW l, NEW n
    PROVE  KeepsPair(PlanPush(l, n)) /\ KeepsPair(PlanPull(n))
<1> DEFINE body == "update-notion-body-exact"
           tags == "update-notion-properties"
           note == "write-local"
<1>1. body \in PairKinds /\ tags \in PairKinds /\ note \in PairKinds
  BY DEF PairKinds, EffectKinds, Create
<1>2. \A k \in PairKinds, x \in {<<>>, <<tags>>} :
        <<>> \o x \in PairLists /\ <<k>> \o x \in PairLists
  <2>1. \A k \in PairKinds : /\ <<>> \o <<>> = <<>> /\ <<k>> \o <<>> = <<k>>
                             /\ <<>> \o <<tags>> = <<tags>> /\ <<k>> \o <<tags>> = <<k, tags>>
    BY <1>1, ConcatOfPair
  <2>2. \A k \in PairKinds : <<k>> \in PairLists /\ <<k, tags>> \in PairLists
    BY <1>1 DEF PairLists
  <2>3. <<>> \in PairLists
    BY DEF PairLists
  <2>4. QED
    BY <1>1, <2>1, <2>2, <2>3
<1>3. PlanPush(l, n).effects \in PairLists
  <2>1. PlanPush(l, n).effects =
          (IF n.sem.body = l.sem.body THEN <<>> ELSE <<body>>) \o PropertiesTo(n, l.sem.tags)
    BY DEF PlanPush, Establish
  <2>2. QED
    BY <1>1, <1>2, <2>1, PropertiesOfPair
<1>4. PlanPull(n).effects \in PairLists
  <2>1. PlanPull(n).effects = <<note>> \o PropertiesTo(n, n.sem.tags)
    BY DEF PlanPull, Establish
  <2>2. QED
    BY <1>1, <1>2, <2>1, PropertiesOfPair
<1>5. /\ PlanPush(l, n).next = [status |-> "synced", common |-> l.sem]
      /\ PlanPull(n).next = [status |-> "synced", common |-> n.sem]
  BY DEF PlanPush, PlanPull, Establish
<1>6. QED
  BY <1>3, <1>4, <1>5 DEF KeepsPair, Paired

LEMMA PlanOfPair ==
    ASSUME NEW l, NEW n, NEW p, Paired(p), "status" \in DOMAIN p
    PROVE  KeepsPair(PlanPair(l, n, p))
<1>1. \A a : KeepsPair(Keep(a, p))
  BY EffectsOfPair DEF KeepsPair, Keep
<1>2. \A status \in PairStatuses \ {"unpaired"} :
        Paired([p EXCEPT !.status = status]) /\ "status" \in DOMAIN [p EXCEPT !.status = status]
  BY DEF Paired
<1>3. \A a, status, effects :
        status \in PairStatuses \ {"unpaired"} /\ effects \in PairLists
          => KeepsPair(Preserve(a, p, status, effects))
  BY <1>2 DEF KeepsPair, Preserve
<1>4. \A a, sem, effects : effects \in PairLists => KeepsPair(Establish(a, sem, effects))
  BY DEF KeepsPair, Establish, Paired
<1>5. {"missing-local", "missing-notion", "detached", "conflict", "synced"}
        \subseteq PairStatuses \ {"unpaired"}
  BY DEF PairStatuses, PageStatuses
<1>6. KeepsPair(PlanEqualSemantics(l, n, p))
  BY <1>1, <1>3, <1>4, <1>5, EffectsOfPair, PropertiesOfPair DEF PlanEqualSemantics
<1>7. /\ KeepsPair(PlanConflict(p)) /\ KeepsPair(PlanMissingNotion(p))
      /\ KeepsPair(MarkPage("missing-local", n, p)) /\ KeepsPair(MarkPage("detached", n, p))
  BY <1>3, <1>5, EffectsOfPair DEF PlanConflict, PlanMissingNotion, MarkPage
<1>8. QED
  BY <1>1, <1>6, <1>7, PushAndPullOfPair DEF PlanPair, PlanMissingLocal, PlanDetached

-----------------------------------------------------------------------------
\* A new installation: no page, no pair, no run.
LEMMA InitIndInv == Init => IndInv
<1> SUFFICES ASSUME Init PROVE IndInv
  OBVIOUS
<1>1. PICK sem \in Semantics :
        /\ page = [kind |-> "none", sem |-> sem, status |-> "synced", revision |-> 0]
        /\ pair = [status |-> "unpaired", common |-> sem]
  BY DEF Init
<1>2. /\ page.kind = "none" /\ pair.status = "unpaired"
      /\ "kind" \in DOMAIN page /\ "status" \in DOMAIN pair
  BY <1>1
<1>3. pc = "idle" /\ created = 0 /\ lapsed = 0 /\ preview \in BOOLEAN /\ fence \in BOOLEAN
  BY DEF Init
<1>4. QED
  BY <1>2, <1>3 DEF IndInv, Shapes, PagesCounted, EffectsLeft, PlanFenced, UnrecordedPage,
                    PageExists, Paired, InRun, Steps

\* Steps of the owner: the page's kind changes only between present and trashed.
LEMMA OwnerStep == IndInv /\ Owner => IndInv'
<1> SUFFICES ASSUME IndInv, Owner PROVE IndInv'
  OBVIOUS
<1>1. /\ (page.kind = "none" <=> page'.kind = "none") /\ "kind" \in DOMAIN page'
      /\ UNCHANGED <<pair, fence, intent, pc, preview, plan, todo, created, lapsed>>
  BY DEF Owner, OwnerActs, ChangePage, EditNote, SpoilNote, EditPage, TrashPage, RestorePage,
         NextDay, PageExists, vault, durable, inputs, work, counts, relay, IndInv, Shapes
<1>2. QED
  BY <1>1 DEF IndInv, Shapes, PagesCounted, EffectsLeft, PlanFenced, UnrecordedPage, PageExists

\* The run ends: what it leaves behind blocks the next one if a page is unrecorded.
LEMMA RunEnds ==
    ASSUME IndInv, EndRun, UNCHANGED <<page, created, lapsed>>,
           "status" \in DOMAIN pair', fence' \in BOOLEAN,
           Paired(pair') => PageExists,
           PageExists /\ ~Paired(pair') => fence' \/ intent'.kind = Create
    PROVE  IndInv'
BY DEF IndInv, Shapes, PagesCounted, EffectsLeft, PlanFenced, UnrecordedPage, EndRun, InRun,
       Steps, PageExists, Paired

\* The steps before the plan.
LEMMA StepsToPlan ==
    ASSUME IndInv,
           \/ \E mode \in {"preview", "apply"} : StartRun(mode)
           \/ RecoverIntent \/ RecoverFence
           \/ \E complete \in BOOLEAN : Scan(complete)
           \/ Retrieve \/ RetrieveFails
    PROVE  IndInv'
<1> USE DEF IndInv, Shapes, PagesCounted, EffectsLeft, PlanFenced, UnrecordedPage, InRun, Steps,
            world, durable, relay, work, vault, inputs
<1>1. ASSUME NEW mode \in {"preview", "apply"}, StartRun(mode) PROVE IndInv'
  BY <1>1 DEF StartRun, NoIntent, Create, PageExists, Paired
<1>2. CASE RecoverIntent
  <2>1. CASE Provable
    <3>1. intent.kind # Create
      BY <2>1 DEF Provable, ProvableLocally, ProvableRemotely, Create
    <3>2. QED
      BY <1>2, <2>1, <3>1 DEF RecoverIntent, PageExists, Paired
  <2>2. CASE ~Provable
    BY <1>2, <2>2, RunEnds DEF RecoverIntent, PageExists, Paired
  <2>3. QED
    BY <2>1, <2>2
<1>3. CASE RecoverFence
  <2>1. intent.kind # Create
    BY <1>3 DEF RecoverFence, NoIntent, Create
  <2>2. CASE fence
    BY <1>3, <2>2, RunEnds DEF RecoverFence, PageExists, Paired
  <2>3. CASE ~fence
    BY <1>3, <2>1, <2>3 DEF RecoverFence, PageExists, Paired
  <2>4. QED
    BY <2>2, <2>3
<1>4. ASSUME NEW complete \in BOOLEAN, Scan(complete) PROVE IndInv'
  BY <1>4 DEF Scan, PageExists, Paired
<1>5. CASE Retrieve \/ RetrieveFails
  BY <1>5 DEF Retrieve, RetrieveFails, PageExists, Paired
<1>6. QED
  BY <1>1, <1>2, <1>3, <1>4, <1>5

\* The plan of this run: what the planner lemmas say of its decision.
LEMMA DecisionOfNew ==
    ASSUME ~Paired(pair), "status" \in DOMAIN pair
    PROVE  /\ Decision.effects \in NewLists /\ "status" \in DOMAIN Decision.next
           /\ \/ Decision.effects = <<>> /\ Decision.next = pair /\ ~Decision.advances
              \/ Decision.effects # <<>> /\ Paired(Decision.next) /\ Decision.advances
<1>1. CASE sawLocal = Unseen
  BY <1>1 DEF Decision, Keep, NewLists
<1>2. CASE sawLocal # Unseen
  BY <1>2, PlanOfNew DEF Decision
<1>3. QED
  BY <1>1, <1>2

LEMMA DecisionOfPair ==
    ASSUME Paired(pair), "status" \in DOMAIN pair
    PROVE  KeepsPair(Decision)
<1>1. CASE sawLocal = Unseen
  BY <1>1, EffectsOfPair DEF Decision, Keep, KeepsPair
<1>2. CASE sawLocal # Unseen
  BY <1>2, PlanOfPair DEF Decision
<1>3. QED
  BY <1>1, <1>2

LEMMA DecisionShape ==
    "status" \in DOMAIN pair => Decision.advances \in BOOLEAN /\ "next" \in DOMAIN Decision
BY DEF Decision, PlanPair, Keep, Establish, Preserve, PlanMissingLocal, PlanDetached, MarkPage,
       PlanInitialization, PlanMissingNotion, PlanEqualSemantics, PlanPush, PlanPull, PlanConflict

LEMMA PlanStep == ASSUME IndInv, Plan \/ FenceFails PROVE IndInv'
<1> USE DEF world, vault
<1>1. CASE Plan /\ preview
  BY <1>1, RunEnds DEF Plan, IndInv, Shapes, PagesCounted, UnrecordedPage, InRun, PageExists, Paired
<1>2. CASE FenceFails
  BY <1>2, RunEnds DEF FenceFails, IndInv, Shapes, PagesCounted, UnrecordedPage, PageExists, Paired
<1>3. CASE Plan /\ ~preview
  <2>1. /\ plan' = Decision /\ todo' = Decision.effects /\ fence' = Decision.advances
        /\ pc = "plan" /\ pc' = "effect" /\ UNCHANGED <<page, created, lapsed, pair, intent, preview>>
    BY <1>3 DEF Plan, inputs
  <2>2. CASE Paired(pair)
    BY <2>1, <2>2, DecisionOfPair, DecisionShape
       DEF IndInv, Shapes, PagesCounted, EffectsLeft, PlanFenced, UnrecordedPage, InRun, Steps,
           PageExists, Paired, KeepsPair
  <2>3. CASE ~Paired(pair)
    <3>1. ~PageExists
      BY <2>1, <2>3 DEF IndInv, UnrecordedPage
    <3>2. /\ Decision.effects \in NewLists /\ "status" \in DOMAIN Decision.next
          /\ \/ Decision.effects = <<>> /\ Decision.next = pair /\ ~Decision.advances
             \/ Decision.effects # <<>> /\ Paired(Decision.next) /\ Decision.advances
      BY <2>3, DecisionOfNew DEF IndInv, Shapes
    <3>3. QED
      BY <2>1, <2>3, <3>1, <3>2, DecisionShape
         DEF IndInv, Shapes, PagesCounted, EffectsLeft, PlanFenced, UnrecordedPage, InRun, Steps,
             PageExists, Paired
  <2>4. QED
    BY <2>2, <2>3
<1>4. QED
  BY <1>1, <1>2, <1>3

\* A pair that fails an effect, page and intents as they are: its plan no longer
\* advances it, and no effect is left.
LEMMA AbandonedAnyhow ==
    ASSUME IndInv, pc \in {"effect", "check", "write", "confirm"}, todo # <<>>,
           AbandonPair, UNCHANGED <<pair, fence, created, preview>>, "kind" \in DOMAIN page',
           page'.kind = "none" => page.kind = "none", lapsed' \in Nat, created \in {lapsed', lapsed' + 1}, Paired(pair) => PageExists',
           PageExists' /\ ~Paired(pair) => intent'.kind = Create
    PROVE  IndInv'
<1>1. "next" \in DOMAIN plan /\ "status" \in DOMAIN pair
  BY DEF IndInv, Shapes, InRun
<1>2. todo' = <<>> /\ pc' = "register" /\ plan' = [plan EXCEPT !.next = pair]
  BY DEF AbandonPair
<1>3. "next" \in DOMAIN plan' /\ plan'.next = pair
  BY <1>1, <1>2
<1>4. <<>> \in NewLists /\ <<>> \in PairLists
  BY DEF NewLists, PairLists
<1>5. Shapes'
  BY <1>1, <1>2, <1>3 DEF IndInv, Shapes, InRun, Steps
<1>6. PagesCounted' /\ EffectsLeft' /\ PlanFenced'
  BY <1>2, <1>3, <1>4 DEF IndInv, PagesCounted, EffectsLeft, PlanFenced, InRun, Paired
<1>7. UnrecordedPage'
  BY <1>2, <1>3 DEF UnrecordedPage, Paired
<1>8. QED
  BY <1>5, <1>6, <1>7 DEF IndInv

LEMMA Abandoned ==
    ASSUME IndInv, pc \in {"effect", "check", "write", "confirm"}, todo # <<>>,
           AbandonPair, UNCHANGED <<pair, fence, created, lapsed, preview>>, "kind" \in DOMAIN page',
           page'.kind = "none" => page.kind = "none",
           PageExists /\ ~Paired(pair) => intent'.kind = Create
    PROVE  IndInv'
BY AbandonedAnyhow DEF IndInv, Shapes, PagesCounted, PageExists

\* An unpaired note whose page exists is past its creation.
LEMMA NoPageYet ==
    ASSUME IndInv, pc \in {"effect", "check", "write"}, todo # <<>>, ~Paired(pair)
    PROVE  ~PageExists
BY DEF IndInv, UnrecordedPage

LEMMA EffectSteps ==
    ASSUME IndInv,
           BeginEffect \/ EffectsDone \/ CheckEffect \/ EffectFails
    PROVE  IndInv'
<1> USE DEF world, durable, relay, inputs, work, vault
<1>1. CASE EffectFails
  BY <1>1, Abandoned DEF EffectFails, IndInv, Shapes, UnrecordedPage, PageExists
<1>2. CASE EffectsDone
  BY <1>2 DEF EffectsDone, IndInv, Shapes, PagesCounted, EffectsLeft, PlanFenced, UnrecordedPage,
              InRun, Steps, PageExists, Paired
<1>3. CASE CheckEffect
  <2>1. CASE Unchanged
    BY <1>3, <2>1 DEF CheckEffect, IndInv, Shapes, PagesCounted, EffectsLeft, PlanFenced,
                      UnrecordedPage, InRun, Steps, PageExists, Paired
  <2>2. CASE ~Unchanged
    BY <1>3, <2>2, Abandoned DEF CheckEffect, IndInv, Shapes, EffectsLeft, UnrecordedPage, PageExists
  <2>3. QED
    BY <2>1, <2>2
<1>4. CASE BeginEffect
  <2>1. pc = "effect" /\ todo # <<>>
    BY <1>4 DEF BeginEffect
  <2>2. CASE Head(todo) = "initialize-pair" /\ local # sawLocal
    BY <1>4, <2>1, <2>2, Abandoned, NoPageYet DEF BeginEffect, IndInv, Shapes, PageExists
  <2>3. CASE ~(Head(todo) = "initialize-pair" /\ local # sawLocal)
    <3>1. intent' = IntentOf(Head(todo)) /\ intent'.kind = Head(todo)
      <4>1. intent' = IntentOf(Head(todo))
        BY <1>4, <2>3 DEF BeginEffect
      <4>2. IntentOf(Head(todo)).kind = Head(todo)
        BY DEF IntentOf
      <4>3. QED
        BY <4>1, <4>2
    <3>2. pc' \in {"write", "check"} /\ UNCHANGED <<todo, plan, pair, fence, page, created, lapsed, preview>>
      BY <1>4, <2>3 DEF BeginEffect
    <3>3. ~Paired(pair) => ~PageExists
      BY <2>1, NoPageYet
    <3>4. QED
      BY <2>1, <3>1, <3>2, <3>3
         DEF IndInv, Shapes, PagesCounted, EffectsLeft, PlanFenced, UnrecordedPage, InRun, Steps,
             PageExists, Paired
  <2>4. QED
    BY <2>2, <2>3
<1>5. QED
  BY <1>1, <1>2, <1>3, <1>4

\* The effects themselves. Only the creation of the page of an unpaired note
\* changes what the invariant speaks of.
LEMMA WriteSteps ==
    ASSUME IndInv, WriteNote \/ WriteConflict \/ UpdatePage \/ CreatePage
    PROVE  IndInv'
<1> USE DEF durable, relay, inputs, work, counts, vault
<1>1. /\ pc = "write" /\ todo # <<>> /\ intent.kind = Head(todo)
      /\ ~Paired(pair) => ~PageExists
  <2>1. pc = "write"
    BY DEF WriteNote, WriteConflict, UpdatePage, CreatePage
  <2>2. QED
    BY <2>1, NoPageYet DEF IndInv, EffectsLeft
<1>2. CASE WriteNote
  <2>1. Head(todo) # Create
    BY <1>2 DEF WriteNote, Create
  <2> QED BY <1>1, <1>2, <2>1 DEF WriteNote, IndInv, Shapes, PagesCounted, EffectsLeft, PlanFenced,
                    UnrecordedPage, InRun, Steps, PageExists, Paired
<1>3. CASE WriteConflict
  <2>1. CASE \E a \in artifacts : a.day = intent.artifact.day
    BY <1>1, <1>3, <2>1, Abandoned DEF WriteConflict, IndInv, Shapes, PageExists
  <2>2. CASE ~\E a \in artifacts : a.day = intent.artifact.day
    <3>1. Head(todo) # Create
      BY <1>3 DEF WriteConflict, Create
    <3> QED BY <1>1, <1>3, <2>2, <3>1 DEF WriteConflict, IndInv, Shapes, PagesCounted, EffectsLeft, PlanFenced,
                            UnrecordedPage, InRun, Steps, PageExists, Paired
  <2>3. QED
    BY <2>1, <2>2
<1>4. CASE UpdatePage
  <2>1. Head(todo) # Create
    BY <1>4 DEF UpdatePage, Create
  <2>2. (pc' = "confirm" /\ UNCHANGED <<todo, plan>> /\ page.kind = "present" /\ page'.kind = page.kind)
        \/ (AbandonPair /\ UNCHANGED page)
    BY <1>4 DEF UpdatePage, ChangePage, IndInv, Shapes
  <2>3. "kind" \in DOMAIN page'
    BY <1>4 DEF UpdatePage, ChangePage, IndInv, Shapes
  <2>4. UNCHANGED <<pair, fence, created, lapsed, preview, intent>>
    BY <1>4 DEF UpdatePage
  <2>5. CASE AbandonPair /\ UNCHANGED page
    BY <1>1, <2>3, <2>4, <2>5, Abandoned DEF PageExists
  <2>6. CASE pc' = "confirm" /\ UNCHANGED <<todo, plan>> /\ page.kind = "present"
             /\ page'.kind = page.kind
    BY <1>1, <2>1, <2>3, <2>4, <2>6
       DEF IndInv, Shapes, PagesCounted, EffectsLeft, PlanFenced, UnrecordedPage, InRun, Steps,
           PageExists, Paired
  <2>7. QED
    BY <2>2, <2>5, <2>6
<1>5. CASE CreatePage
  <2>1. Head(todo) = Create
    BY <1>5 DEF CreatePage, Create
  <2>2. ~Paired(pair)
    BY <1>1, <2>1, TailOfPair DEF IndInv, EffectsLeft, InRun, PairKinds
  <2>3. todo = <<Create>>
    BY <1>1, <2>1, <2>2, TailOfNew DEF IndInv, EffectsLeft, InRun
  <2>4. page'.kind = "present" /\ "kind" \in DOMAIN page'
    BY <1>5 DEF CreatePage, ChangePage, IndInv, Shapes
  <2>5. created' = lapsed + 1 /\ lapsed' = lapsed /\ created' \in Nat
    BY <1>1, <1>5, <2>2 DEF CreatePage, IndInv, PagesCounted, PageExists, Shapes
  <2>6. pc' = "confirm" /\ UNCHANGED <<todo, plan, pair, fence, intent, preview>>
    BY <1>5 DEF CreatePage
  <2>7. QED
    BY <1>1, <2>1, <2>2, <2>3, <2>4, <2>5, <2>6
       DEF IndInv, Shapes, PagesCounted, EffectsLeft, PlanFenced, UnrecordedPage, InRun, Steps,
           PageExists, Paired
<1>6. QED
  BY <1>2, <1>3, <1>4, <1>5

\* The effect is confirmed and struck off the plan. After the creation of the page
\* nothing is left, and the fence is up until the new pair is saved.
LEMMA ConfirmStep == ASSUME IndInv, ConfirmEffect PROVE IndInv'
<1> USE DEF world, vault, relay
<1>1. /\ pc = "confirm" /\ todo # <<>> /\ intent.kind = Head(todo)
      /\ UNCHANGED <<page, created, lapsed, pair, fence, preview>>
  BY DEF ConfirmEffect, IndInv, EffectsLeft
<1>2. PageExists /\ ~Paired(pair) => intent.kind = Create /\ todo = <<Create>>
  BY <1>1 DEF IndInv, UnrecordedPage
<1>3. CASE ~Confirmed
  BY <1>1, <1>2, <1>3, Abandoned DEF ConfirmEffect, PageExists, IndInv, Shapes, PagesCounted
<1>4. CASE Confirmed
  <2>1. todo' = Tail(todo) /\ pc' = "effect" /\ UNCHANGED plan
    BY <1>4 DEF ConfirmEffect
  <2>2. CASE Paired(pair)
    <3>1. Tail(todo) \in PairLists
      BY <1>1, <2>2, TailOfPair DEF IndInv, EffectsLeft, InRun
    <3>2. QED
      BY <1>1, <2>1, <2>2, <3>1
         DEF IndInv, Shapes, PagesCounted, EffectsLeft, PlanFenced, UnrecordedPage, InRun, Steps,
             PageExists, Paired
  <2>3. CASE ~Paired(pair) /\ Head(todo) = Create
    <3>1. Tail(todo) = <<>>
      BY <1>1, <2>3, TailOfNew DEF IndInv, EffectsLeft, InRun
    <3>2. PageExists
      BY <1>1, <2>3 DEF IndInv, EffectsLeft
    <3>3. Paired(plan.next) /\ fence
      BY <1>1, <2>3 DEF IndInv, EffectsLeft, PlanFenced, InRun
    <3>4. QED
      BY <1>1, <2>1, <2>3, <3>1, <3>2, <3>3
         DEF IndInv, Shapes, PagesCounted, EffectsLeft, PlanFenced, UnrecordedPage, InRun, Steps,
             PageExists, Paired, NewLists
  <2>4. CASE ~Paired(pair) /\ Head(todo) # Create
    <3>1. Tail(todo) \in NewLists /\ Tail(todo) # <<>>
      BY <1>1, <2>4, TailOfNew, OneEffect DEF IndInv, EffectsLeft, InRun
    <3>2. ~PageExists
      BY <1>1, <1>2, <2>4
    <3>3. QED
      BY <1>1, <2>1, <2>4, <3>1, <3>2
         DEF IndInv, Shapes, PagesCounted, EffectsLeft, PlanFenced, UnrecordedPage, InRun, Steps,
             PageExists, Paired
  <2>5. QED
    BY <2>2, <2>3, <2>4
<1>5. QED
  BY <1>3, <1>4

\* The completion is recorded and throws: a page it was about is forgotten, and
\* of any other effect the note of an unpaired pair has no page yet.
LEMMA ThrowStep == ASSUME IndInv, CompletionThrows PROVE IndInv'
<1>1. /\ pc = "confirm" /\ todo # <<>> /\ AbandonPair
      /\ UNCHANGED <<page, created, pair, fence, preview>>
  BY DEF CompletionThrows, IndInv, EffectsLeft, inputs
<1>2. CASE Head(todo) = Create
  <2>1. lapsed' = lapsed + 1 /\ created = lapsed + 1 /\ lapsed \in Nat
    BY <1>1, <1>2 DEF CompletionThrows, Create, IndInv, EffectsLeft, PageExists, Shapes
  <2>2. ~Paired(pair)
    BY <1>1, <1>2, TailOfPair DEF IndInv, EffectsLeft, InRun, PairKinds
  <2> QED BY <1>1, <2>1, <2>2, AbandonedAnyhow DEF PageExists, IndInv, Shapes
<1>3. CASE Head(todo) # Create
  <2>1. lapsed' = lapsed
    BY <1>3 DEF CompletionThrows, Create
  <2>2. PageExists => Paired(pair)
    <3>1. PageExists /\ ~Paired(pair) => todo = <<Create>>
      BY <1>1 DEF IndInv, UnrecordedPage
    <3> QED BY <1>3, <3>1
  <2> QED BY <1>1, <2>1, <2>2, AbandonedAnyhow DEF PageExists, IndInv, Shapes, PagesCounted
<1> QED BY <1>2, <1>3

\* The end of an apply run: registry, state.json, fence, acknowledgement.
LEMMA FinalSteps ==
    ASSUME IndInv,
           \/ SynchronizeRegistry \/ RegistryFails \/ SaveState \/ SaveFails
           \/ CompleteFence \/ Acknowledge \/ Dies
    PROVE  IndInv'
<1> USE DEF world, vault, durable, relay, inputs, work
<1>1. CASE SynchronizeRegistry
  BY <1>1 DEF SynchronizeRegistry, IndInv, Shapes, PagesCounted, EffectsLeft, PlanFenced,
              UnrecordedPage, InRun, Steps, PageExists, Paired
<1>2. CASE RegistryFails
  <2>1. PageExists /\ ~Paired(pair) => fence
    BY <1>2 DEF RegistryFails, ChangesRegistry, Retained, IndInv, UnrecordedPage, Paired
  <2>2. QED
    BY <1>2, <2>1, RunEnds DEF RegistryFails, IndInv, Shapes, PagesCounted, PageExists, Paired
<1>3. CASE SaveState
  <2>1. CASE pair' = plan.next /\ fence' = TRUE
    <3>1. Paired(pair') => PageExists
      BY <1>3, <2>1 DEF SaveState, IndInv, PagesCounted, EffectsLeft, PlanFenced, InRun, Paired
    <3>2. /\ pc = "save" /\ pc' = "unfence" /\ "status" \in DOMAIN plan.next
          /\ UNCHANGED <<page, created, lapsed, intent, todo, plan, preview>>
      BY <1>3 DEF SaveState, IndInv, Shapes, InRun
    <3>3. Shapes' /\ PagesCounted' /\ EffectsLeft' /\ PlanFenced'
      BY <2>1, <3>1, <3>2
         DEF IndInv, Shapes, PagesCounted, EffectsLeft, PlanFenced, InRun, Steps, PageExists
    <3>4. PageExists /\ ~Paired(pair') => intent.kind = Create
      BY <1>3, <2>1, <3>2 DEF IndInv, UnrecordedPage, PlanFenced, InRun, Paired
    <3>5. UnrecordedPage'
      BY <2>1, <3>2, <3>4 DEF UnrecordedPage, PageExists, Paired
    <3>6. QED
      BY <3>3, <3>5 DEF IndInv
  <2>2. CASE ~Dirty /\ UNCHANGED <<pair, fence>>
    BY <1>3, <2>2
       DEF SaveState, Dirty, IndInv, Shapes, PagesCounted, EffectsLeft, PlanFenced, UnrecordedPage,
           InRun, Steps, PageExists, Paired
  <2>3. QED
    BY <1>3, <2>1, <2>2 DEF SaveState
<1>4. CASE SaveFails
  <2>1. Paired(pair') => PageExists
    BY <1>4 DEF SaveFails, IndInv, PagesCounted, EffectsLeft, PlanFenced, InRun, Paired
  <2>2. "status" \in DOMAIN pair'
    BY <1>4 DEF SaveFails, IndInv, Shapes, InRun
  <2>3. QED
    BY <1>4, <2>1, <2>2, RunEnds DEF SaveFails
<1>5. CASE CompleteFence
  BY <1>5 DEF CompleteFence, IndInv, Shapes, PagesCounted, EffectsLeft, PlanFenced, UnrecordedPage,
              InRun, Steps, PageExists, Paired
<1>6. CASE Acknowledge
  BY <1>6, RunEnds DEF Acknowledge, IndInv, Shapes, PagesCounted, UnrecordedPage, PageExists, Paired
<1>7. CASE Dies
  BY <1>7, RunEnds DEF Dies, IndInv, Shapes, PagesCounted, UnrecordedPage, PageExists, Paired
<1>8. QED
  BY <1>1, <1>2, <1>3, <1>4, <1>5, <1>6, <1>7

LEMMA Stutter == IndInv /\ UNCHANGED vars => IndInv'
BY DEF vars, vault, durable, relay, inputs, work, counts, IndInv, Shapes, PagesCounted, EffectsLeft,
       PlanFenced, UnrecordedPage, PageExists, Paired

LEMMA NextIndInv == IndInv /\ [Next]_vars => IndInv'
BY OwnerStep, StepsToPlan, PlanStep, EffectSteps, WriteSteps, ConfirmStep, ThrowStep, FinalSteps, Stutter
   DEF Next, Run

LEMMA Inductive == Spec => []IndInv
BY InitIndInv, NextIndInv, PTL DEF Spec

\* However calls fail and whenever the process dies between two steps, no run creates a
\* page for a note that has one already, unless the recorded completion of that one threw.
THEOREM NoSecondPage == Spec => []AtMostOnePage
<1>1. IndInv => AtMostOnePage
  BY DEF IndInv, PagesCounted, Shapes, AtMostOnePage
<1>2. QED
  BY Inductive, <1>1, PTL

\* With no run active and nothing open on the journal, state.json knows every page that was
\* created but those whose recorded completion threw: no other creation is half recorded.
THEOREM NothingHalfRecorded == Spec => []QuietMeansRecorded
<1>1. IndInv => QuietMeansRecorded
  BY DEF IndInv, PagesCounted, Shapes, UnrecordedPage, QuietMeansRecorded, NoIntent, Create, PageExists
<1>2. QED
  BY Inductive, <1>1, PTL

-----------------------------------------------------------------------------
(******************************************************************************)
(* The second part: the text of both sides. What a run replaces, records,     *)
(* acknowledges and registers follows from what its plan promised when it was *)
(* made. Promise says, of the effects still to come, how they lead from what  *)
(* the run knows of the two sides to what the plan records; Known says how    *)
(* far that knowledge can be behind the sides themselves.                     *)
(******************************************************************************)
Body == "update-notion-body-exact"
Properties == "update-notion-properties"
Mark == "set-notion-status"
Keeping == "create-conflict"
Note == "write-local"

Working == {"effect", "check", "write", "confirm"}

AllDistinct(a, b, c) == a # b /\ b # c /\ a # c

\* The effects left, t, of a plan d that was made of the note l and the page n of pair p.
\* A status to set is that of a pair which is not synchronized.
ToMark(t, d) == t = <<Mark>> /\ d.next.status \in {"missing-local", "detached", "conflict"}

\* Three different texts: the artifact to come keeps the two that are not recorded.
ToKeepBoth(t, d, l, n) ==
    /\ t = <<Keeping, Mark>> /\ d.next.status = "conflict"
    /\ AllDistinct(l.sem, n.sem, d.next.common)

\* A push changes a page that still has the common text, ...
ToPush(t, d, l, n, p) ==
    /\ t \in {<<Body>>, <<Body, Properties>>}
    /\ d.action = "push-local" /\ d.next = [status |-> "synced", common |-> l.sem]
    /\ n.sem = p.common
    /\ t = <<Body>> => n.sem.tags = l.sem.tags

\* ... a pull a note that still has it.
ToPull(t, d, l, n, p) ==
    /\ t \in {<<Note>>, <<Note, Properties>>}
    /\ d.action = "pull-notion" /\ d.next = [status |-> "synced", common |-> n.sem]
    /\ l.sem = p.common

\* Tags are the last to go: with them the page has the text that is recorded.
ToSetProperties(t, d, l, n, p) ==
    /\ t = <<Properties>> /\ d.next.status = "synced"
    /\ d.next.common =
         [body |-> n.sem.body, tags |-> IF d.action = "pull-notion" THEN n.sem.tags ELSE l.sem.tags]
    /\ n.sem.tags \in {d.next.common.tags, p.common.tags}

\* Nothing is left to do: what the plan records is what the page holds, or it records why
\* the pair is not synchronized.
IsSettled(d, n) ==
    \/ n # Unseen /\ (n.kind = "trashed" \/ d.next.common = n.sem)
    \/ d.next.status \in {"conflict", "missing-local", "detached"}

Promise(t, d, l, n, p) ==
    \/ t = <<>> /\ (d.action \in {"none", "error"} \/ IsSettled(d, n))
    \/ ToMark(t, d) \/ ToKeepBoth(t, d, l, n)
    \/ ToPush(t, d, l, n, p) \/ ToPull(t, d, l, n, p) \/ ToSetProperties(t, d, l, n, p)

BothKept(common) == \E a \in artifacts : AllDistinct(a.local, a.notion, common)

\* What the run has observed by the time it works.
Observed ==
    /\ pc \in Working /\ todo # <<>> => sawLocal # Unseen
    /\ pc \in {"plan"} \union Working /\ Paired(pair) /\ sawLocal # Unseen => sawNotion # Unseen
    /\ matched /\ pc # "idle" => Paired(pair)
    /\ pc \in {"idle", "recover", "scan", "retrieve"} => sawNotion = Unseen
    /\ sawNotion # Unseen => sawNotion.kind # "none"

\* The intent on the journal is about what the run observed.
Intended ==
    pc \in {"check", "write", "confirm"} =>
        IF Head(todo) = Keeping
          THEN intent.artifact.local = sawLocal.sem /\ intent.artifact.notion = sawNotion.sem
          ELSE intent = IntentOf(Head(todo))

\* A revision stands for a content, and the last check found what the plan was made of.
Known ==
    /\ sawNotion # Unseen =>
         /\ sawNotion.revision <= page.revision
         /\ sawNotion.revision = page.revision => page = sawNotion
    /\ pc = "write" /\ Head(todo) = Note => seen = sawLocal
    /\ pc = "write" /\ Head(todo) = "initialize-pair" => seen = sawLocal
    /\ pc = "write" /\ Head(todo) \in {Body, Properties, Mark} => seen = sawNotion

Promised == pc \in Working /\ Paired(pair) => Promise(todo, plan, sawLocal, sawNotion, pair)

\* A pair in conflict, recorded or about to be, has its artifact or is about to get it.
ConflictBacked ==
    /\ pair.status = "conflict" => BothKept(pair.common)
    /\ pc \in InRun /\ plan.next.status = "conflict" =>
         \/ BothKept(plan.next.common)
         \/ pc \in Working \ {"confirm"} /\ ToKeepBoth(todo, plan, sawLocal, sawNotion)

\* Events are no newer than the page, and those of this run no newer than what it read.
EventsPast ==
    /\ \A e \in events : e <= page.revision
    /\ \A e \in claimed : /\ e <= page.revision
                          /\ sawNotion # Unseen => e <= sawNotion.revision

\* The run ends with its promise kept and its plan recorded.
Recorded ==
    /\ pc \in {"register", "save", "unfence", "ack"} /\ matched /\ ~failed =>
         plan.action \in {"none", "error"} \/ IsSettled(plan, sawNotion)
    /\ pc \in Working \union {"register", "save", "unfence", "ack"} /\ ~failed => plan.action # "error"
    /\ pc \in {"unfence", "ack"} => pair = plan.next
    /\ pc = "save" /\ plan.next.status = "synced" /\ ~Retained(pair) => registered

Knowledge == Observed /\ Intended /\ Known /\ Promised /\ ConflictBacked /\ EventsPast /\ Recorded

Inv == IndInv /\ TypeOK /\ Knowledge

-----------------------------------------------------------------------------
\* The planner again: its plans have their types, ...
LEMMA ListsOfEffects ==
    /\ <<>> \in EffectLists
    /\ \A a \in EffectKinds : <<a>> \in EffectLists
    /\ \A a, b \in EffectKinds : <<a, b>> \in EffectLists
BY DEF EffectLists

LEMMA PlansTyped ==
    ASSUME NEW p \in Pairs
    PROVE  /\ \A action \in Actions : Keep(action, p) \in Plans
           /\ \A action \in Actions, status \in PairStatuses, effects \in EffectLists :
                Preserve(action, p, status, effects) \in Plans
           /\ \A action \in Actions, sem \in Semantics, effects \in EffectLists :
                Establish(action, sem, effects) \in Plans
BY ListsOfEffects DEF Keep, Preserve, Establish, Plans, Pairs, PairStatuses, PageStatuses

\* The two lists of a push and of a pull.
LEMMA ListsOfPush ==
    ASSUME NEW l, NEW n
    PROVE  /\ PlanPush(l, n).effects =
                IF n.sem.body = l.sem.body
                  THEN PropertiesTo(n, l.sem.tags)
                  ELSE IF PropertiesTo(n, l.sem.tags) = <<>> THEN <<Body>> ELSE <<Body, Properties>>
           /\ PlanPull(n).effects =
                IF PropertiesTo(n, n.sem.tags) = <<>> THEN <<Note>> ELSE <<Note, Properties>>
<1>1. Body \in PairKinds /\ Properties \in PairKinds /\ Note \in PairKinds
  BY DEF PairKinds, EffectKinds, Create, Body, Properties, Note
<1>2. /\ <<>> \o <<>> = <<>> /\ <<>> \o <<Properties>> = <<Properties>>
      /\ <<Body>> \o <<>> = <<Body>> /\ <<Body>> \o <<Properties>> = <<Body, Properties>>
      /\ <<Note>> \o <<>> = <<Note>> /\ <<Note>> \o <<Properties>> = <<Note, Properties>>
  BY <1>1, ConcatOfPair
<1>3. <<>> # <<Properties>>
  BY OneEffect
<1>4. \A tags : PropertiesTo(n, tags) = <<>> \/ PropertiesTo(n, tags) = <<Properties>>
  BY PropertiesOfPair DEF Properties
<1>5. /\ PlanPush(l, n).effects =
           (IF n.sem.body = l.sem.body THEN <<>> ELSE <<Body>>) \o PropertiesTo(n, l.sem.tags)
      /\ PlanPull(n).effects = <<Note>> \o PropertiesTo(n, n.sem.tags)
  BY DEF PlanPush, PlanPull, Establish, Body, Note
<1>6. PlanPull(n).effects =
        IF PropertiesTo(n, n.sem.tags) = <<>> THEN <<Note>> ELSE <<Note, Properties>>
  <2>1. CASE PropertiesTo(n, n.sem.tags) = <<>>
    BY <1>2, <1>5, <2>1
  <2>2. CASE PropertiesTo(n, n.sem.tags) = <<Properties>>
    BY <1>2, <1>3, <1>5, <2>2
  <2>3. QED
    BY <1>4, <2>1, <2>2
<1>7. PlanPush(l, n).effects =
        IF n.sem.body = l.sem.body
          THEN PropertiesTo(n, l.sem.tags)
          ELSE IF PropertiesTo(n, l.sem.tags) = <<>> THEN <<Body>> ELSE <<Body, Properties>>
  <2>1. CASE PropertiesTo(n, l.sem.tags) = <<>>
    BY <1>2, <1>5, <2>1
  <2>2. CASE PropertiesTo(n, l.sem.tags) = <<Properties>>
    BY <1>2, <1>3, <1>5, <2>2
  <2>3. QED
    BY <1>4, <2>1, <2>2
<1>8. QED
  BY <1>6, <1>7

LEMMA PlanTyped ==
    ASSUME NEW l \in Notes, NEW p \in Pairs, NEW n, Paired(p) => n \in Pages, n \in Pages \union {Unseen}
    PROVE  PlanPair(l, n, p) \in Plans
<1>1. Properties \in EffectKinds /\ Body \in EffectKinds /\ Note \in EffectKinds
  BY DEF EffectKinds, Properties, Body, Note
<1>2. \A tags : PropertiesTo(n, tags) \in EffectLists
  BY <1>1, PropertiesOfPair, ListsOfEffects DEF Properties
<1>3. \A action \in Actions : Keep(action, p) \in Plans
  BY PlansTyped
<1>4. /\ PlanMissingLocal(n, p) \in Plans /\ PlanDetached(n, p) \in Plans
      /\ PlanMissingNotion(p) \in Plans /\ PlanConflict(p) \in Plans
  BY <1>3, PlansTyped, ListsOfEffects
     DEF PlanMissingLocal, PlanDetached, PlanMissingNotion, PlanConflict, MarkPage, Actions,
         EffectKinds, PairStatuses, PageStatuses
<1>5. l.sem \in Semantics
  BY DEF Notes
<1>6. PlanInitialization(l, p) \in Plans
  BY <1>3, <1>5, PlansTyped, ListsOfEffects DEF PlanInitialization, Actions, EffectKinds
<1>7. PlanEqualSemantics(l, n, p) \in Plans
  BY <1>2, <1>3, <1>5, PlansTyped, ListsOfEffects DEF PlanEqualSemantics, Actions, PairStatuses, PageStatuses
<1>8. PlanPush(l, n) \in Plans
  <2>1. PlanPush(l, n).effects \in EffectLists
    BY <1>1, <1>2, ListsOfPush, ListsOfEffects
  <2>2. PlanPush(l, n) = Establish("push-local", l.sem, PlanPush(l, n).effects)
    BY DEF PlanPush, Establish
  <2>3. "push-local" \in Actions
    BY DEF Actions
  <2>4. QED
    BY <1>5, <2>1, <2>2, <2>3, PlansTyped
<1>9. Paired(p) => PlanPull(n) \in Plans
  <2>1. PlanPull(n).effects \in EffectLists
    BY <1>1, ListsOfPush, ListsOfEffects
  <2>2. PlanPull(n) = Establish("pull-notion", n.sem, PlanPull(n).effects)
    BY DEF PlanPull, Establish
  <2>3. "pull-notion" \in Actions
    BY DEF Actions
  <2>4. Paired(p) => n.sem \in Semantics
    BY DEF Pages
  <2>5. QED
    BY <2>1, <2>2, <2>3, <2>4, PlansTyped
<1>10. {"error", "paused"} \subseteq Actions
  BY DEF Actions
<1>11. QED
  BY <1>3, <1>4, <1>6, <1>7, <1>8, <1>9, <1>10 DEF PlanPair

\* ... and promise what they record: the branches of planPair for a pair.
LEMMA PlanPromises ==
    ASSUME NEW l \in Notes, NEW n \in Pages, NEW p \in Pairs, Paired(p), n.kind # "none"
    PROVE  LET d == PlanPair(l, n, p)
           IN  /\ Promise(d.effects, d, l, n, p)
               /\ d.next.status = "conflict" =>
                    d.next = p \/ ToKeepBoth(d.effects, d, l, n)
<1> DEFINE d == PlanPair(l, n, p)
           Kept(e) == /\ Promise(e.effects, e, l, n, p)
                      /\ e.next.status = "conflict" => e.next = p \/ ToKeepBoth(e.effects, e, l, n)
<1>0. n # Unseen
  BY DEF Pages, Unseen
<1>1. Kept(Keep("error", p)) /\ (p.status = "conflict" => Kept(Keep("paused", p)))
  BY DEF Keep, Promise, IsSettled
<1>2. Kept(PlanMissingLocal(n, p))
  BY DEF PlanMissingLocal, MarkPage, Preserve, Promise, IsSettled, ToMark, Mark, Pairs
<1>3. Kept(PlanDetached(n, p))
  BY <1>0 DEF PlanDetached, MarkPage, Preserve, Keep, Promise, IsSettled, ToMark, Mark, Pairs, Pages
<1>4. n.kind # "present" => Kept(PlanMissingNotion(p))
  BY <1>0 DEF PlanMissingNotion, Preserve, Promise, IsSettled, Pairs, Pages
<1>5. l.sem = n.sem => Kept(PlanEqualSemantics(l, n, p))
  <2>1. SUFFICES ASSUME l.sem = n.sem PROVE Kept(PlanEqualSemantics(l, n, p))
    OBVIOUS
  <2>2. <<Properties>> # <<>>
    BY OneEffect
  <2>3. n.sem = [body |-> n.sem.body, tags |-> n.sem.tags]
    BY DEF Pages, Semantics
  <2> DEFINE effects == PropertiesTo(n, l.sem.tags)
  <2>4. CASE effects = <<>>
    BY <1>0, <2>1, <2>4 DEF PlanEqualSemantics, Establish, Keep, Promise, IsSettled
  <2>5. CASE effects = <<Properties>>
    <3>1. /\ PlanEqualSemantics(l, n, p).effects = <<Properties>>
          /\ PlanEqualSemantics(l, n, p).action = "push-local"
          /\ PlanEqualSemantics(l, n, p).next = [status |-> "synced", common |-> n.sem]
      BY <2>1, <2>2, <2>5 DEF PlanEqualSemantics, Establish, Preserve, Pairs
    <3>2. ToSetProperties(<<Properties>>, PlanEqualSemantics(l, n, p), l, n, p)
      BY <2>1, <2>3, <3>1 DEF ToSetProperties
    <3>3. QED
      BY <3>1, <3>2 DEF Promise
  <2>6. QED
    BY <2>4, <2>5, PropertiesOfPair DEF Properties
<1>6. l.sem # n.sem /\ l.sem # p.common /\ n.sem # p.common => Kept(PlanConflict(p))
  BY DEF PlanConflict, Preserve, Promise, ToKeepBoth, AllDistinct, Keeping, Mark, Pairs
<1>7. l.sem # n.sem /\ n.sem = p.common => Kept(PlanPush(l, n))
  <2>1. SUFFICES ASSUME l.sem # n.sem, n.sem = p.common PROVE Kept(PlanPush(l, n))
    OBVIOUS
  <2>2. /\ PlanPush(l, n).action = "push-local"
        /\ PlanPush(l, n).next = [status |-> "synced", common |-> l.sem]
    BY DEF PlanPush, Establish
  <2>3. l.sem = [body |-> l.sem.body, tags |-> l.sem.tags] /\ n.sem = [body |-> n.sem.body, tags |-> n.sem.tags]
    BY DEF Notes, Pages, Semantics
  <2>4. <<Properties>> # <<>> /\ <<Body>> # <<>> /\ <<Body, Properties>> # <<Body>>
    <3>1. Tail(<<Body>>) = <<>> /\ Tail(<<Body, Properties>>) = <<Properties>>
      BY OneEffect, TwoEffects
    <3>2. QED
      BY <3>1, OneEffect
  <2>5. PropertiesTo(n, l.sem.tags) = <<>> => n.sem.tags = l.sem.tags
    BY <2>4 DEF PropertiesTo, Properties
  <2>6. CASE n.sem.body = l.sem.body
    <3>1. PlanPush(l, n).effects = <<Properties>>
      BY <2>1, <2>3, <2>5, <2>6, ListsOfPush, PropertiesOfPair DEF Properties
    <3>2. ToSetProperties(<<Properties>>, PlanPush(l, n), l, n, p)
      BY <2>1, <2>2, <2>3, <2>6 DEF ToSetProperties
    <3>3. QED
      BY <2>2, <3>1, <3>2 DEF Promise
  <2>7. CASE n.sem.body # l.sem.body
    <3>1. PlanPush(l, n).effects \in {<<Body>>, <<Body, Properties>>}
      BY <2>7, ListsOfPush
    <3>2. PlanPush(l, n).effects = <<Body>> => n.sem.tags = l.sem.tags
      BY <2>4, <2>5, <2>7, ListsOfPush
    <3>3. ToPush(PlanPush(l, n).effects, PlanPush(l, n), l, n, p)
      BY <2>1, <2>2, <3>1, <3>2 DEF ToPush
    <3>4. QED
      BY <2>2, <3>3 DEF Promise
  <2>8. QED
    BY <2>6, <2>7
<1>8. l.sem = p.common => Kept(PlanPull(n))
  <2>1. SUFFICES ASSUME l.sem = p.common PROVE Kept(PlanPull(n))
    OBVIOUS
  <2>2. /\ PlanPull(n).action = "pull-notion"
        /\ PlanPull(n).next = [status |-> "synced", common |-> n.sem]
    BY DEF PlanPull, Establish
  <2>3. PlanPull(n).effects \in {<<Note>>, <<Note, Properties>>}
    BY ListsOfPush
  <2>4. ToPull(PlanPull(n).effects, PlanPull(n), l, n, p)
    BY <2>1, <2>2, <2>3 DEF ToPull
  <2>5. QED
    BY <2>2, <2>4 DEF Promise
<1>9. Kept(d)
  BY <1>1, <1>2, <1>3, <1>4, <1>5, <1>6, <1>7, <1>8 DEF PlanPair
<1>10. QED
  BY <1>9

-----------------------------------------------------------------------------
\* Shapes of single values.
LEMMA Observations ==
    /\ Unseen \notin Notes /\ Unseen \notin Pages
    /\ \A l \in Notes : /\ l.sem \in Semantics
                        /\ [l EXCEPT !.bridge = TRUE] \in Notes
                        /\ \A s \in Semantics : [l EXCEPT !.sem = s] \in Notes
    /\ \A n \in Pages : n.sem \in Semantics /\ n.status \in PageStatuses /\ n.revision \in Nat
    /\ \A s \in Semantics : s.body \in Bodies /\ s.tags \in Tags /\ s = [body |-> s.body, tags |-> s.tags]
<1>1. Unseen \notin Notes /\ Unseen \notin Pages
  BY DEF Notes, Pages, Unseen
<1>2. \A l \in Notes : /\ l.sem \in Semantics
                       /\ [l EXCEPT !.bridge = TRUE] \in Notes
                       /\ \A s \in Semantics : [l EXCEPT !.sem = s] \in Notes
  BY DEF Notes
<1>3. \A n \in Pages : n.sem \in Semantics /\ n.status \in PageStatuses /\ n.revision \in Nat
  BY DEF Pages
<1>4. \A s \in Semantics : s.body \in Bodies /\ s.tags \in Tags /\ s = [body |-> s.body, tags |-> s.tags]
  BY DEF Semantics
<1>5. QED
  BY <1>1, <1>2, <1>3, <1>4

LEMMA TailOfEffects ==
    ASSUME NEW s \in EffectLists, s # <<>>
    PROVE  Tail(s) \in EffectLists /\ Head(s) \in EffectKinds
<1>1. CASE \E a \in EffectKinds : s = <<a>>
  <2>1. PICK a \in EffectKinds : s = <<a>>
    BY <1>1
  <2>2. QED
    BY <2>1, OneEffect, ListsOfEffects
<1>2. CASE \E a, b \in EffectKinds : s = <<a, b>>
  <2>1. PICK a \in EffectKinds, b \in EffectKinds : s = <<a, b>>
    BY <1>2
  <2>2. QED
    BY <2>1, TwoEffects, ListsOfEffects
<1>3. QED
  BY <1>1, <1>2 DEF EffectLists

\* The effect at hand of a note that is not paired yet is its initialization or the creation.
LEMMA HeadOfNew ==
    ASSUME Inv, pc \in Working, todo # <<>>, ~Paired(pair)
    PROVE  Head(todo) \in {"initialize-pair", Create}
<1>1. todo \in NewLists
  BY DEF Inv, IndInv, EffectsLeft, Working, InRun
<1>2. QED
  BY <1>1, TailOfNew

\* The effect at hand of a pair, by what its plan promises.
LEMMA HeadOfPair ==
    ASSUME Inv, pc \in Working, todo # <<>>, Paired(pair)
    PROVE  /\ sawLocal \in Notes /\ sawNotion \in Pages
           /\ Promise(todo, plan, sawLocal, sawNotion, pair)
           /\ Head(todo) \in {Mark, Keeping, Body, Note, Properties}
           /\ Head(todo) = Mark <=> ToMark(todo, plan)
           /\ Head(todo) = Keeping <=> ToKeepBoth(todo, plan, sawLocal, sawNotion)
           /\ Head(todo) = Body <=> ToPush(todo, plan, sawLocal, sawNotion, pair)
           /\ Head(todo) = Note <=> ToPull(todo, plan, sawLocal, sawNotion, pair)
           /\ Head(todo) = Properties <=> ToSetProperties(todo, plan, sawLocal, sawNotion, pair)
<1>1. sawLocal \in Notes /\ sawNotion \in Pages
  BY DEF Inv, TypeOK, Knowledge, Observed
<1>2. Promise(todo, plan, sawLocal, sawNotion, pair)
  BY DEF Inv, Knowledge, Promised
<1>3. /\ Head(<<Mark>>) = Mark /\ Head(<<Keeping, Mark>>) = Keeping /\ Head(<<Body>>) = Body
      /\ Head(<<Body, Properties>>) = Body /\ Head(<<Note>>) = Note
      /\ Head(<<Note, Properties>>) = Note /\ Head(<<Properties>>) = Properties
  BY OneEffect, TwoEffects
<1>4. /\ ToMark(todo, plan) => Head(todo) = Mark
      /\ ToKeepBoth(todo, plan, sawLocal, sawNotion) => Head(todo) = Keeping
      /\ ToPush(todo, plan, sawLocal, sawNotion, pair) => Head(todo) = Body
      /\ ToPull(todo, plan, sawLocal, sawNotion, pair) => Head(todo) = Note
      /\ ToSetProperties(todo, plan, sawLocal, sawNotion, pair) => Head(todo) = Properties
  BY <1>3 DEF ToMark, ToKeepBoth, ToPush, ToPull, ToSetProperties
<1>5. \/ ToMark(todo, plan) \/ ToKeepBoth(todo, plan, sawLocal, sawNotion)
      \/ ToPush(todo, plan, sawLocal, sawNotion, pair)
      \/ ToPull(todo, plan, sawLocal, sawNotion, pair)
      \/ ToSetProperties(todo, plan, sawLocal, sawNotion, pair)
  BY <1>2 DEF Promise
<1>6. /\ Mark # Keeping /\ Mark # Body /\ Mark # Note /\ Mark # Properties /\ Keeping # Body
      /\ Keeping # Note /\ Keeping # Properties /\ Body # Note /\ Body # Properties /\ Note # Properties
  BY DEF Mark, Keeping, Body, Note, Properties
<1>7. QED
  BY <1>1, <1>2, <1>4, <1>5, <1>6

\* The intent that begins an effect, and the text it is to leave, have their shapes.
LEMMA IntentTyped ==
    ASSUME Inv, pc \in Working, todo # <<>>
    PROVE  IntentOf(Head(todo)) \in Intents
<1>1. sawLocal \in Notes
  BY DEF Inv, TypeOK, Knowledge, Observed
<1>2. CASE ~Paired(pair)
  BY <1>1, <1>2, HeadOfNew, Observations DEF IntentOf, Intents, Blind, Create
<1>3. CASE Paired(pair)
  <2>1. sawNotion \in Pages /\ Head(todo) \in {Mark, Keeping, Body, Note, Properties}
    BY <1>3, HeadOfPair
  <2>2. NextSem(Body) \in Semantics
    BY <1>1, <2>1, Observations DEF NextSem, Body, Semantics
  <2>3. today \in 0 .. LastDay /\ sawLocal.sem \in Semantics /\ sawNotion.sem \in Semantics
    BY <1>1, <2>1, Observations DEF Inv, TypeOK
  <2>4. [day |-> today, local |-> sawLocal.sem, notion |-> sawNotion.sem] \in Artifacts
    BY <2>3 DEF Artifacts
  <2>5. CASE Head(todo) = Keeping
    BY <2>4, <2>5 DEF IntentOf, Intents, Blind, Keeping
  <2>6. CASE Head(todo) = Body
    BY <2>2, <2>3, <2>6 DEF IntentOf, Intents, Blind, Body
  <2>7. CASE Head(todo) = Note
    BY <1>1, <2>3, <2>7, Observations DEF IntentOf, Intents, Blind, Note
  <2>8. CASE Head(todo) \in {Mark, Properties}
    BY <2>8 DEF IntentOf, Intents, Blind, Mark, Properties
  <2>9. QED
    BY <2>1, <2>5, <2>6, <2>7, <2>8
<1>4. QED
  BY <1>2, <1>3

LEMMA EffectTyped ==
    ASSUME Inv, pc \in Working, todo # <<>>
    PROVE  /\ Head(todo) = Create => NextSem(Head(todo)) \in Semantics
           /\ Head(todo) = Body => sawLocal.sem.body \in Bodies
           /\ Head(todo) \in {Properties, Mark} => NextSem(Head(todo)).tags \in Tags
           /\ Head(todo) \in {Properties, Mark, Body} => NextStatus(Head(todo)) \in PageStatuses
<1>1. sawLocal \in Notes
  BY DEF Inv, TypeOK, Knowledge, Observed
<1>2. Head(todo) \in {Properties, Mark} => sawNotion \in Pages /\ Paired(pair)
  BY HeadOfNew, HeadOfPair DEF Properties, Mark, Create
<1>3. Head(todo) = Body => sawNotion \in Pages
  BY HeadOfNew, HeadOfPair DEF Body, Create
<1>4. Head(todo) = Mark => plan.next.status \in PageStatuses
  BY <1>2, HeadOfPair DEF ToMark, PageStatuses
<1>5. Head(todo) \in {Properties, Mark} => NextSem(Head(todo)).tags \in Tags
  BY <1>1, <1>2, Observations DEF NextSem, Properties, Mark, Create
<1>6. Head(todo) \in {Properties, Mark, Body} => NextStatus(Head(todo)) \in PageStatuses
  BY <1>2, <1>3, <1>4, Observations DEF NextStatus, Properties, Mark, Body, PageStatuses
<1>7. QED
  BY <1>1, <1>5, <1>6, Observations DEF NextSem, Create

\* The plan of this run.
LEMMA DecisionTyped == Inv /\ pc = "plan" => Decision \in Plans
<1> SUFFICES ASSUME Inv, pc = "plan" PROVE Decision \in Plans
  OBVIOUS
<1>1. CASE sawLocal = Unseen
  BY <1>1, PlansTyped DEF Decision, Inv, TypeOK, Actions
<1>2. CASE sawLocal # Unseen
  <2>1. sawLocal \in Notes /\ pair \in Pairs /\ sawNotion \in Pages \union {Unseen}
    BY <1>2 DEF Inv, TypeOK
  <2>2. Paired(pair) => sawNotion \in Pages
    BY <1>2 DEF Inv, TypeOK, Knowledge, Observed
  <2>3. QED
    BY <1>2, <2>1, <2>2, PlanTyped DEF Decision
<1>3. QED
  BY <1>1, <1>2

\* A run's end keeps the types.
LEMMA EndTyped ==
    ASSUME Inv, EndRun, UNCHANGED <<local, page, artifacts, today, events, created, lapsed, edits>>,
           pair' \in Pairs, fence' \in BOOLEAN, intent' \in Intents, registered' \in BOOLEAN,
           faults' \in 0 .. MaxFaults
    PROVE  TypeOK'
BY ListsOfEffects DEF EndRun, Inv, TypeOK, Steps

LEMMA FaultTyped == TypeOK /\ Fault => faults' \in 0 .. MaxFaults
BY BoundsAssumption DEF TypeOK, Fault

LEMMA AbandonTyped ==
    ASSUME Inv, pc \in Working, todo # <<>>, AbandonPair
    PROVE  todo' \in EffectLists /\ failed' \in BOOLEAN /\ plan' \in Plans \union {NoPlan}
           /\ pc' \in Steps /\ seen' \in Notes \union Pages \union {Unseen}
<1>1. plan \in Plans
  BY DEF Inv, TypeOK, IndInv, Shapes, Working, InRun, NoPlan
<1>2. plan' \in Plans
  BY <1>1 DEF AbandonPair, Plans, Inv, TypeOK
<1>3. QED
  BY <1>2, ListsOfEffects DEF AbandonPair, Steps

\* Every step keeps the types.
LEMMA OwnerTyped == Inv /\ Owner => TypeOK'
<1> SUFFICES ASSUME Inv, Owner PROVE TypeOK'
  OBVIOUS
<1> USE DEF Inv, TypeOK, OwnerActs, durable, inputs, work, vault, relay, counts
<1>1. ASSUME OwnerActs PROVE edits' \in 0 .. MaxEdits
  BY <1>1, BoundsAssumption
<1>2. ASSUME NEW new \in Pages, ChangePage(new)
      PROVE  page' \in Pages /\ events' \subseteq Nat /\ registered' \in BOOLEAN
  <2>1. page.revision + 1 \in Nat
    BY Observations
  <2>2. page' \in Pages
    BY <1>2, <2>1 DEF ChangePage, Pages
  <2>3. QED
    BY <1>2, <2>1, <2>2 DEF ChangePage
<1>3. CASE EditNote
  BY <1>1, <1>3 DEF EditNote
<1>4. CASE SpoilNote
  <2>1. local' \in Notes
    BY <1>4 DEF SpoilNote, Notes
  <2>2. QED
    BY <1>1, <1>4, <2>1 DEF SpoilNote
<1>5. CASE EditPage \/ TrashPage \/ RestorePage
  <2>1. \E new \in Pages : ChangePage(new)
    BY <1>5 DEF EditPage, TrashPage, RestorePage, Pages
  <2>2. QED
    BY <1>1, <1>2, <1>5, <2>1 DEF EditPage, TrashPage, RestorePage
<1>6. CASE NextDay
  BY <1>6, BoundsAssumption DEF NextDay
<1>7. QED
  BY <1>3, <1>4, <1>5, <1>6 DEF Owner

LEMMA RunTyped == Inv /\ Run => TypeOK'
<1> SUFFICES ASSUME Inv, Run PROVE TypeOK'
  OBVIOUS
<1> USE DEF world, vault, durable, relay, inputs, work, counts
<1>1. ASSUME NEW mode \in {"preview", "apply"}, StartRun(mode) PROVE TypeOK'
  BY <1>1 DEF StartRun, Inv, TypeOK, Steps
<1>2. CASE RecoverIntent
  <2>1. NoIntent \in Intents
    BY DEF NoIntent, Intents
  <2>2. CASE Provable
    BY <1>2, <2>1, <2>2 DEF RecoverIntent, Inv, TypeOK
  <2>3. CASE ~Provable
    BY <1>2, <2>3, EndTyped DEF RecoverIntent, Inv, TypeOK
  <2>4. QED
    BY <2>2, <2>3
<1>3. CASE RecoverFence
  <2>1. CASE fence
    BY <1>3, <2>1, EndTyped DEF RecoverFence, Inv, TypeOK
  <2>2. CASE ~fence
    BY <1>3, <2>2 DEF RecoverFence, Inv, TypeOK, Steps
  <2>3. QED
    BY <2>1, <2>2
<1>4. ASSUME NEW complete \in BOOLEAN, Scan(complete) PROVE TypeOK'
  BY <1>4 DEF Scan, Inv, TypeOK, Steps
<1>5. CASE Retrieve \/ RetrieveFails
  BY <1>5, FaultTyped DEF Retrieve, RetrieveFails, Inv, TypeOK, Steps
<1>6. CASE Plan
  <2>1. CASE preview
    BY <1>6, <2>1, EndTyped DEF Plan, Inv, TypeOK
  <2>2. CASE ~preview
    <3>1. Decision \in Plans
      BY <1>6, DecisionTyped DEF Plan
    <3>2. Decision.effects \in EffectLists /\ Decision.advances \in BOOLEAN
      BY <3>1 DEF Plans
    <3>3. QED
      BY <1>6, <2>2, <3>1, <3>2 DEF Plan, Inv, TypeOK, Steps
  <2>3. QED
    BY <2>1, <2>2
<1>7. CASE FenceFails
  BY <1>7, EndTyped, FaultTyped DEF FenceFails, Inv, TypeOK
<1>8. CASE BeginEffect
  <2>1. pc \in Working /\ todo # <<>>
    BY <1>8 DEF BeginEffect, Working
  <2>2. CASE Head(todo) = "initialize-pair" /\ local # sawLocal
    BY <1>8, <2>1, <2>2, AbandonTyped DEF BeginEffect, Inv, TypeOK
  <2>3. CASE ~(Head(todo) = "initialize-pair" /\ local # sawLocal)
    <3>1. intent' \in Intents
      BY <1>8, <2>1, <2>3, IntentTyped DEF BeginEffect
    <3>2. QED
      BY <1>8, <2>3, <3>1 DEF BeginEffect, Inv, TypeOK, Steps
  <2>4. QED
    BY <2>2, <2>3
<1>9. CASE EffectsDone
  BY <1>9 DEF EffectsDone, Inv, TypeOK, Steps
<1>10. CASE CheckEffect
  <2>1. pc \in Working /\ todo # <<>>
    BY <1>10 DEF CheckEffect, Working, Inv, IndInv, EffectsLeft
  <2>2. CASE Unchanged
    BY <1>10, <2>2 DEF CheckEffect, Inv, TypeOK, Steps
  <2>3. CASE ~Unchanged
    BY <1>10, <2>1, <2>3, AbandonTyped DEF CheckEffect, Inv, TypeOK
  <2>4. QED
    BY <2>2, <2>3
<1>11. CASE WriteNote \/ WriteConflict \/ CreatePage \/ UpdatePage
  <2>1. pc = "write" /\ pc \in Working /\ todo # <<>>
    BY <1>11 DEF WriteNote, WriteConflict, CreatePage, UpdatePage, Working, Inv, IndInv, EffectsLeft
  <2>2. intent.kind = Head(todo)
    BY <2>1 DEF Inv, IndInv, EffectsLeft
  <2>3. ASSUME NEW new \in Pages, ChangePage(new)
        PROVE  page' \in Pages /\ events' \subseteq Nat /\ registered' \in BOOLEAN
    <3>1. page.revision + 1 \in Nat
      BY Observations DEF Inv, TypeOK
    <3>2. page' \in Pages
      BY <2>3, <3>1 DEF ChangePage, Pages
    <3>3. QED
      BY <2>3, <3>1, <3>2 DEF ChangePage, Inv, TypeOK
  <2>4. CASE WriteNote
    <3>1. Head(todo) # Keeping
      BY <2>4 DEF WriteNote, Keeping
    <3>2. intent = IntentOf(Head(todo)) /\ sawLocal \in Notes
      BY <2>1, <3>1 DEF Inv, TypeOK, Knowledge, Intended, Observed
    <3>3. Head(todo) = Note => sawNotion \in Pages
      BY <2>1, HeadOfNew, HeadOfPair DEF Note, Create
    <3>4. intent.after \in Notes
      BY <2>4, <3>2, <3>3, Observations DEF WriteNote, IntentOf, Blind, Note
    <3>5. QED
      BY <2>4, <3>4 DEF WriteNote, Inv, TypeOK, Steps
  <2>5. CASE WriteConflict
    <3>1. CASE \E a \in artifacts : a.day = intent.artifact.day
      BY <2>1, <2>5, <3>1, AbandonTyped DEF WriteConflict, Inv, TypeOK
    <3>2. CASE ~\E a \in artifacts : a.day = intent.artifact.day
      <4>1. intent \in Intents /\ intent.kind = "create-conflict"
        BY <2>2, <2>5 DEF WriteConflict, Inv, TypeOK
      <4>2. intent.artifact \in Artifacts
        BY <4>1 DEF Intents, Blind
      <4>3. QED
        BY <2>5, <3>2, <4>2 DEF WriteConflict, Inv, TypeOK, Steps
    <3>3. QED
      BY <3>1, <3>2
  <2>6. CASE CreatePage
    <3>1. [page EXCEPT !.kind = "present", !.sem = NextSem("create-notion-page"), !.status = "synced"] \in Pages
      BY <2>1, <2>6, EffectTyped DEF CreatePage, Create, Inv, TypeOK, Pages, PageStatuses
    <3>2. created + 1 \in Nat
      BY DEF Inv, TypeOK
    <3>3. QED
      BY <2>3, <2>6, <3>1, <3>2 DEF CreatePage, Inv, TypeOK, Steps
  <2>7. CASE UpdatePage
    <3>1. CASE pc' = "register"
      BY <2>1, <2>7, <3>1, AbandonTyped DEF UpdatePage, Inv, TypeOK
    <3>2. CASE pc' # "register"
      <4>1. [page EXCEPT !.sem.body = sawLocal.sem.body] \in Pages \/ Head(todo) # Body
        BY <2>1, EffectTyped DEF Inv, TypeOK, Pages, Semantics
      <4>2. Head(todo) = Body \/ [page EXCEPT !.sem.tags = NextSem(Head(todo)).tags,
                                              !.status = NextStatus(Head(todo))] \in Pages
        BY <2>1, <2>7, EffectTyped DEF UpdatePage, Inv, TypeOK, Pages, Semantics, Body, Properties, Mark
      <4>3. \E new \in Pages : ChangePage(new)
        BY <2>7, <3>2, <4>1, <4>2 DEF UpdatePage, AbandonPair, Body
      <4>4. page' \in Pages /\ events' \subseteq Nat /\ registered' \in BOOLEAN
        BY <2>3, <4>3
      <4>5. QED
        BY <2>7, <3>2, <4>4 DEF UpdatePage, AbandonPair, Inv, TypeOK, Steps
    <3>3. QED
      BY <3>1, <3>2
  <2>8. QED
    BY <1>11, <2>4, <2>5, <2>6, <2>7
<1>12. CASE ConfirmEffect
  <2>1. pc \in Working /\ todo # <<>>
    BY <1>12 DEF ConfirmEffect, Working, Inv, IndInv, EffectsLeft
  <2>2. CASE Confirmed
    <3>1. Tail(todo) \in EffectLists /\ NoIntent \in Intents
      BY <2>1, TailOfEffects DEF Inv, TypeOK, NoIntent, Intents
    <3>2. QED
      BY <1>12, <2>2, <3>1 DEF ConfirmEffect, Inv, TypeOK, Steps
  <2>3. CASE ~Confirmed
    BY <1>12, <2>1, <2>3, AbandonTyped DEF ConfirmEffect, Inv, TypeOK
  <2>4. QED
    BY <2>2, <2>3
<1>13. CASE EffectFails
  BY <1>13, AbandonTyped, FaultTyped DEF EffectFails, Working, Inv, TypeOK
<1>20. CASE CompletionThrows
  <2>1. NoIntent \in Intents /\ lapsed' \in Nat
    BY <1>20 DEF CompletionThrows, NoIntent, Intents, Inv, TypeOK
  <2>2. pc \in Working /\ todo # <<>>
    BY <1>20 DEF CompletionThrows, Working, Inv, IndInv, EffectsLeft
  <2> QED BY <1>20, <2>1, <2>2, AbandonTyped, FaultTyped DEF CompletionThrows, Inv, TypeOK
<1>14. CASE SynchronizeRegistry
  BY <1>14 DEF SynchronizeRegistry, WantsPage, Inv, TypeOK, Steps
<1>15. CASE RegistryFails
  <2>1. [kind |-> "register-relay-page"] \in Intents
    BY DEF Intents, Blind
  <2>2. registered' \in BOOLEAN
    BY <1>15 DEF RegistryFails, WantsPage, Inv, TypeOK
  <2>3. QED
    BY <1>15, <2>1, <2>2, EndTyped, FaultTyped DEF RegistryFails, Inv, TypeOK
<1>16. CASE SaveState \/ SaveFails
  <2>1. plan \in Plans
    BY <1>16 DEF SaveState, SaveFails, Inv, TypeOK, IndInv, Shapes, InRun, NoPlan
  <2>2. pair' \in Pairs
    BY <1>16, <2>1 DEF SaveState, SaveFails, Inv, TypeOK, Plans
  <2>3. CASE SaveState
    BY <2>2, <2>3 DEF SaveState, Inv, TypeOK, Steps
  <2>4. CASE SaveFails
    BY <2>2, <2>4, EndTyped, FaultTyped DEF SaveFails, Inv, TypeOK
  <2>5. QED
    BY <1>16, <2>3, <2>4
<1>17. CASE CompleteFence
  BY <1>17 DEF CompleteFence, Inv, TypeOK, Steps
<1>18. CASE Acknowledge
  <2>1. events' \subseteq Nat
    BY <1>18 DEF Acknowledge, Inv, TypeOK
  <2>2. QED
    BY <1>18, <2>1, ListsOfEffects DEF Acknowledge, EndRun, Inv, TypeOK, Steps
<1>19. CASE Dies
  BY <1>19, EndTyped, FaultTyped DEF Dies, Inv, TypeOK
<1> QED
  BY <1>1, <1>2, <1>3, <1>4, <1>5, <1>6, <1>7, <1>8, <1>9, <1>10, <1>11, <1>12, <1>13, <1>14,
     <1>15, <1>16, <1>17, <1>18, <1>19, <1>20 DEF Run

LEMMA NextTyped == Inv /\ [Next]_vars => TypeOK'
<1>1. Inv /\ UNCHANGED vars => TypeOK'
  BY DEF Inv, TypeOK, vars, vault, durable, relay, inputs, work, counts
<1>2. QED
  BY <1>1, OwnerTyped, RunTyped DEF Next

-----------------------------------------------------------------------------
\* What is known at first.
LEMMA InitInv == Init => Inv
<1> SUFFICES ASSUME Init PROVE Inv
  OBVIOUS
<1>1. PICK sem \in Semantics :
        /\ local = [kind |-> "present", sem |-> sem, bridge |-> FALSE, eligible |-> TRUE]
        /\ page = [kind |-> "none", sem |-> sem, status |-> "synced", revision |-> 0]
        /\ pair = [status |-> "unpaired", common |-> sem]
  BY DEF Init
<1>2. local \in Notes /\ page \in Pages /\ pair \in Pairs
  BY <1>1 DEF Notes, Pages, Pairs, PairStatuses, PageStatuses
<1>3. intent \in Intents
  BY DEF Init, Intents, NoIntent
<1>4. TypeOK
  <2>1. /\ artifacts = {} /\ today = 0 /\ fence = FALSE /\ registered = FALSE /\ events = {}
        /\ pc = "idle" /\ preview = FALSE /\ sawLocal = Unseen /\ sawNotion = Unseen
        /\ plan = NoPlan /\ todo = <<>> /\ seen = Unseen /\ failed = FALSE
        /\ claimed = {} /\ matched = FALSE /\ created = 0 /\ lapsed = 0 /\ edits = 0 /\ faults = 0
    BY DEF Init
  <2>2. 0 \in 0 .. LastDay /\ 0 \in 0 .. MaxEdits /\ 0 \in 0 .. MaxFaults /\ 0 \in Nat
    BY BoundsAssumption
  <2>3. "idle" \in Steps /\ <<>> \in EffectLists
    BY ListsOfEffects DEF Steps
  <2>4. QED
    BY <1>2, <1>3, <2>1, <2>2, <2>3 DEF TypeOK
<1>5. Knowledge
  BY <1>1 DEF Init, Knowledge, Observed, Intended, Known, Promised, ConflictBacked, EventsPast,
              Recorded, Working, InRun
<1>6. QED
  BY <1>4, <1>5, InitIndInv DEF Inv

\* The owner adds to what is not known yet: each of her changes of the page is a revision.
LEMMA OwnerKnows == Inv /\ Owner => Knowledge'
<1> SUFFICES ASSUME Inv, Owner PROVE Knowledge'
  OBVIOUS
<1>1. /\ UNCHANGED <<artifacts, pair, fence, intent, registered, pc, preview, sawLocal, sawNotion,
                     plan, todo, seen, failed, claimed, matched>>
      /\ \/ UNCHANGED <<page, events>>
         \/ /\ page'.revision = page.revision + 1
            /\ events' \subseteq events \union {page.revision + 1}
  <2>1. ASSUME NEW new \in Pages, ChangePage(new)
        PROVE  /\ page'.revision = page.revision + 1
               /\ events' \subseteq events \union {page.revision + 1} /\ registered' = registered
    BY <2>1 DEF ChangePage, Pages
  <2>2. EditPage \/ TrashPage \/ RestorePage => \E new \in Pages : ChangePage(new)
    BY DEF EditPage, TrashPage, RestorePage, Pages, Inv, TypeOK
  <2>3. QED
    BY <2>1, <2>2 DEF Owner, EditNote, SpoilNote, EditPage, TrashPage, RestorePage, NextDay, OwnerActs,
                      durable, inputs, work, vault, relay, counts
<1>2. page.revision \in Nat /\ events \subseteq Nat /\ claimed \subseteq Nat
      /\ (sawNotion # Unseen => sawNotion.revision \in Nat)
  BY Observations DEF Inv, TypeOK
<1>3. Known'
  <2>1. CASE UNCHANGED page
    BY <1>1, <2>1 DEF Inv, Knowledge, Known
  <2>2. CASE page'.revision = page.revision + 1
    BY <1>1, <1>2, <2>2 DEF Inv, Knowledge, Known
  <2>3. QED
    BY <1>1, <2>1, <2>2
<1>4. EventsPast'
  <2>1. \A e \in events' : e \in events \/ (page'.revision = page.revision + 1 /\ e = page.revision + 1)
    BY <1>1
  <2>2. page'.revision \in Nat /\ page.revision <= page'.revision
    BY <1>1, <1>2
  <2>3. \A e \in events' : e <= page'.revision
    <3>1. \A e \in events : e \in Nat /\ e <= page.revision
      BY <1>2 DEF Inv, Knowledge, EventsPast
    <3>2. TAKE e \in events'
    <3>3. CASE e \in events
      BY <1>2, <2>2, <3>1, <3>3
    <3>4. CASE page'.revision = page.revision + 1 /\ e = page.revision + 1
      BY <1>2, <2>2, <3>4
    <3>5. QED
      BY <2>1, <3>3, <3>4
  <2>4. \A e \in claimed : e <= page'.revision
    BY <1>2, <2>2 DEF Inv, Knowledge, EventsPast
  <2>5. QED
    BY <1>1, <2>3, <2>4 DEF Inv, Knowledge, EventsPast
<1>5. Intended'
  <2>1. CASE pc \in {"check", "write", "confirm"}
    <3>1. Head(todo) \in EffectKinds
      BY <2>1, TailOfEffects DEF Inv, TypeOK, IndInv, EffectsLeft
    <3>2. Head(todo) # Keeping => IntentOf(Head(todo))' = IntentOf(Head(todo))
      BY <1>1, <3>1 DEF IntentOf, NextSem, Keeping, Blind, EffectKinds
    <3>3. QED
      BY <1>1, <3>2 DEF Inv, Knowledge, Intended
  <2>2. QED
    BY <1>1, <2>1 DEF Intended
<1>6. Observed' /\ Promised' /\ ConflictBacked' /\ Recorded'
  BY <1>1 DEF Inv, Knowledge, Observed, Promised, ConflictBacked, BothKept, Recorded, Retained
<1>7. QED
  BY <1>3, <1>4, <1>5, <1>6 DEF Knowledge

\* The end of a run knows nothing; what it recorded stays backed.
LEMMA EndKnows ==
    ASSUME Inv, EndRun, UNCHANGED <<page, artifacts>>, events' \subseteq events,
           pair' = pair \/ (pc = "save" /\ pair' = plan.next)
    PROVE  Knowledge'
<1>1. pair'.status = "conflict" => BothKept(pair'.common)
  BY DEF Inv, Knowledge, ConflictBacked, InRun, Working
<1>2. QED
  BY <1>1 DEF Inv, Knowledge, Observed, Intended, Known, Promised, ConflictBacked, BothKept, EventsPast,
              Recorded, Working, InRun, EndRun

\* A pair that fails records what was recorded before.
LEMMA AbandonKnows ==
    ASSUME Inv, pc \in Working, todo # <<>>, AbandonPair,
           UNCHANGED <<page, events, pair, sawLocal, sawNotion, claimed, matched>>,
           artifacts \subseteq artifacts'
    PROVE  Knowledge'
<1>1. plan \in Plans
  BY DEF Inv, TypeOK, IndInv, Shapes, Working, InRun, NoPlan
<1>2. plan'.next = pair
  BY <1>1 DEF AbandonPair, Plans
<1>3. Observed' /\ Intended' /\ Promised'
  BY DEF AbandonPair, Inv, Knowledge, Observed, Intended, Promised, Working
<1>4. Known' /\ EventsPast' /\ Recorded'
  BY DEF AbandonPair, Inv, Knowledge, Known, EventsPast, Recorded
<1>5. ConflictBacked'
  BY <1>2 DEF AbandonPair, Inv, Knowledge, ConflictBacked, BothKept
<1>6. QED
  BY <1>3, <1>4, <1>5 DEF Knowledge

\* The steps up to the plan.
LEMMA ObservingKnows ==
    ASSUME Inv,
           \/ \E mode \in {"preview", "apply"} : StartRun(mode)
           \/ RecoverIntent \/ RecoverFence
           \/ \E complete \in BOOLEAN : Scan(complete)
           \/ Retrieve \/ RetrieveFails
    PROVE  Knowledge'
<1> USE DEF world, vault, durable, relay, inputs, work, counts
<1>1. ASSUME NEW mode \in {"preview", "apply"}, StartRun(mode) PROVE Knowledge'
  BY <1>1 DEF StartRun, Retained, Paired, Inv, Knowledge, Observed, Intended, Known, Promised,
              ConflictBacked, BothKept, EventsPast, Recorded, Working, InRun
<1>2. CASE RecoverIntent
  <2>1. CASE Provable
    BY <1>2, <2>1 DEF RecoverIntent, Inv, Knowledge, Observed, Intended, Known, Promised,
                      ConflictBacked, BothKept, EventsPast, Recorded, Working, InRun
  <2>2. CASE ~Provable
    <3>1. EndRun /\ UNCHANGED <<page, artifacts, events, pair>>
      BY <1>2, <2>2 DEF RecoverIntent
    <3>2. QED
      BY <3>1, EndKnows
  <2>3. QED
    BY <2>1, <2>2
<1>3. CASE RecoverFence
  <2>1. CASE fence
    <3>1. EndRun /\ UNCHANGED <<page, artifacts, events, pair>>
      BY <1>3, <2>1 DEF RecoverFence
    <3>2. QED
      BY <3>1, EndKnows
  <2>2. CASE ~fence
    BY <1>3, <2>2 DEF RecoverFence, Inv, Knowledge, Observed, Intended, Known, Promised,
                      ConflictBacked, BothKept, EventsPast, Recorded, Working, InRun
  <2>3. QED
    BY <2>1, <2>2
<1>4. ASSUME NEW complete \in BOOLEAN, Scan(complete) PROVE Knowledge'
  BY <1>4 DEF Scan, Inv, Knowledge, Observed, Intended, Known, Promised, ConflictBacked, BothKept,
              EventsPast, Recorded, Working, InRun
<1>5. CASE Retrieve
  <2>1. page # Unseen /\ page.revision \in Nat /\ (Paired(pair) => page.kind # "none")
    <3>1. Paired(pair) => created = lapsed + 1 /\ lapsed \in Nat
      BY DEF Inv, IndInv, Shapes, PagesCounted, PageExists
    <3> QED BY <3>1, Observations DEF Inv, TypeOK, IndInv, PagesCounted
  <2>2. QED
    BY <1>5, <2>1 DEF Retrieve, Inv, Knowledge, Observed, Intended, Known, Promised, ConflictBacked,
                      BothKept, EventsPast, Recorded, Working, InRun
<1>6. CASE RetrieveFails
  BY <1>6 DEF RetrieveFails, Inv, Knowledge, Observed, Intended, Known, Promised, ConflictBacked,
              BothKept, EventsPast, Recorded, Working, InRun
<1>7. QED
  BY <1>1, <1>2, <1>3, <1>4, <1>5, <1>6

\* The plan promises what it records.
LEMMA PlanKnows == ASSUME Inv, Plan \/ FenceFails PROVE Knowledge'
<1> USE DEF world, vault, durable, relay, inputs, work, counts
<1>1. CASE (Plan /\ preview) \/ FenceFails
  <2>1. EndRun /\ UNCHANGED <<page, artifacts, events, pair>>
    BY <1>1 DEF Plan, FenceFails
  <2>2. QED
    BY <2>1, EndKnows
<1>2. CASE Plan /\ ~preview
  <2>1. /\ pc = "plan" /\ pc' = "effect" /\ plan' = Decision /\ todo' = Decision.effects
        /\ failed' = (failed \/ Decision.action = "error")
        /\ UNCHANGED <<page, artifacts, events, registered, pair, intent, sawLocal, sawNotion,
                       claimed, matched, seen>>
    BY <1>2 DEF Plan
  <2>2. /\ pair \in Pairs /\ sawLocal \in Notes \union {Unseen}
        /\ Paired(pair) /\ sawLocal # Unseen => sawNotion \in Pages
    BY <2>1 DEF Inv, TypeOK, Knowledge, Observed
  <2>3. CASE sawLocal = Unseen
    <3>1. Decision.action = "none" /\ Decision.effects = <<>> /\ Decision.next = pair
      BY <2>3 DEF Decision, Keep
    <3>2. Promise(todo', plan', sawLocal', sawNotion', pair')
      BY <2>1, <3>1 DEF Promise
    <3>3. QED
      BY <2>1, <2>3, <3>1, <3>2
         DEF Inv, Knowledge, Observed, Intended, Known, Promised, ConflictBacked, BothKept,
             EventsPast, Recorded, Working, InRun
  <2>4. CASE sawLocal # Unseen /\ Paired(pair)
    <3>1. Decision = PlanPair(sawLocal, sawNotion, pair)
      BY <2>4 DEF Decision
    <3>2. sawNotion.kind # "none"
      BY <2>1, <2>2, <2>4 DEF Inv, Knowledge, Observed
    <3>3. /\ Promise(todo', plan', sawLocal', sawNotion', pair')
          /\ plan'.next.status = "conflict" =>
                plan'.next = pair \/ ToKeepBoth(todo', plan', sawLocal', sawNotion')
      BY <2>1, <2>2, <2>4, <3>1, <3>2, PlanPromises
    <3>4. QED
      BY <2>1, <2>4, <3>3
         DEF Inv, Knowledge, Observed, Intended, Known, Promised, ConflictBacked, BothKept,
             EventsPast, Recorded, Working, InRun
  <2>5. CASE sawLocal # Unseen /\ ~Paired(pair)
    <3>1. Decision.next = pair \/ Decision.next.status = "synced"
      BY <2>5 DEF Decision, PlanPair, Paired, Keep, PlanMissingLocal, PlanDetached,
                  PlanInitialization, Establish
    <3>2. QED
      BY <2>1, <2>5, <3>1
         DEF Inv, Knowledge, Observed, Intended, Known, Promised, ConflictBacked, BothKept,
             EventsPast, Recorded, Working, InRun
  <2>6. QED
    BY <2>3, <2>4, <2>5
<1>3. QED
  BY <1>1, <1>2

\* A new revision of the page is later than all that was known of it.
LEMMA NewRevision ==
    ASSUME Inv, page'.revision = page.revision + 1, events' \subseteq events \union {page.revision + 1},
           UNCHANGED <<sawNotion, claimed>>
    PROVE  /\ sawNotion # Unseen => sawNotion.revision < page'.revision
           /\ EventsPast'
<1>1. /\ page.revision \in Nat /\ events \subseteq Nat /\ claimed \subseteq Nat
      /\ sawNotion # Unseen => sawNotion.revision \in Nat
  BY Observations DEF Inv, TypeOK
<1>2. page'.revision \in Nat /\ page.revision < page'.revision
  BY <1>1
<1>3. sawNotion # Unseen => sawNotion.revision < page'.revision
  BY <1>1, <1>2 DEF Inv, Knowledge, Known
<1>4. ASSUME NEW e \in events' PROVE e <= page'.revision
  <2>1. e \in events => e \in Nat /\ e <= page.revision
    BY <1>1 DEF Inv, Knowledge, EventsPast
  <2>2. CASE e \in events
    BY <1>1, <1>2, <2>1, <2>2
  <2>3. CASE e = page.revision + 1
    BY <1>1, <1>2, <2>3
  <2>4. QED
    BY <2>2, <2>3
<1>5. ASSUME NEW e \in claimed PROVE e <= page'.revision
  BY <1>1, <1>2, <1>5 DEF Inv, Knowledge, EventsPast
<1>6. QED
  BY <1>3, <1>4, <1>5 DEF Inv, Knowledge, EventsPast

\* The beginning of an effect, its check, its failure, and the end of the effects.
LEMMA BeginKnows == ASSUME Inv, BeginEffect PROVE Knowledge'
<1> USE DEF world, vault, durable, relay, inputs, work, counts
<1>1. pc = "effect" /\ pc \in Working /\ todo # <<>>
  BY DEF BeginEffect, Working
<1>2. CASE Head(todo) = "initialize-pair" /\ local # sawLocal
  <2>1. /\ AbandonPair
        /\ UNCHANGED <<page, events, pair, sawLocal, sawNotion, claimed, matched, artifacts>>
    BY <1>2 DEF BeginEffect
  <2>2. QED
    BY <1>1, <2>1, AbandonKnows
<1>3. CASE ~(Head(todo) = "initialize-pair" /\ local # sawLocal)
  <2>1. /\ intent' = IntentOf(Head(todo)) /\ pc' \in {"write", "check"}
        /\ pc' = "write" => Head(todo) \in {Create, Keeping}
        /\ UNCHANGED <<page, today, artifacts, pair, events, registered, sawLocal, sawNotion, claimed,
                       matched, plan, todo, seen, failed>>
    BY <1>3 DEF BeginEffect, Create, Keeping
  <2>2. /\ Keeping \notin {Note, "initialize-pair", Body, Properties, Mark}
        /\ Create \notin {Note, "initialize-pair", Body, Properties, Mark}
    BY DEF Keeping, Create, Note, Body, Properties, Mark
  <2>3. Intended'
    <3>1. CASE Head(todo) = Keeping
      BY <2>1, <3>1 DEF Intended, IntentOf, Blind, Keeping
    <3>2. CASE Head(todo) # Keeping
      <4>1. IntentOf(Head(todo))' = IntentOf(Head(todo))
        BY <2>1 DEF IntentOf, NextSem
      <4>2. QED
        BY <2>1, <3>2, <4>1 DEF Intended
    <3>3. QED
      BY <3>1, <3>2
  <2>4. Known'
    BY <2>1, <2>2 DEF Inv, Knowledge, Known
  <2>5. Observed' /\ Promised' /\ EventsPast' /\ Recorded'
    BY <1>1, <2>1 DEF Inv, Knowledge, Observed, Promised, EventsPast, Recorded, Working
  <2>6. ConflictBacked'
    BY <1>1, <2>1 DEF Inv, Knowledge, ConflictBacked, BothKept, InRun, Working
  <2>7. QED
    BY <2>3, <2>4, <2>5, <2>6 DEF Knowledge
<1>4. QED
  BY <1>2, <1>3

LEMMA DoneKnows == ASSUME Inv, EffectsDone PROVE Knowledge'
<1> USE DEF world, vault, durable, relay, inputs, work, counts
<1>1. /\ pc = "effect" /\ pc' = "register" /\ todo = <<>>
      /\ UNCHANGED <<page, artifacts, pair, intent, events, registered, sawLocal, sawNotion, claimed,
                     matched, plan, todo, seen, failed>>
  BY DEF EffectsDone
<1>2. /\ <<Mark>> # <<>> /\ <<Keeping, Mark>> # <<>> /\ <<Body>> # <<>> /\ <<Body, Properties>> # <<>>
      /\ <<Note>> # <<>> /\ <<Note, Properties>> # <<>> /\ <<Properties>> # <<>>
  BY OneEffect, TwoEffects
<1>3. matched => plan.action \in {"none", "error"} \/ IsSettled(plan, sawNotion)
  BY <1>1, <1>2 DEF Inv, Knowledge, Observed, Promised, Promise, Working, ToMark, ToKeepBoth, ToPush,
                    ToPull, ToSetProperties
<1>4. ConflictBacked'
  BY <1>1, <1>2 DEF Inv, Knowledge, ConflictBacked, BothKept, InRun, Working, ToKeepBoth
<1>5. Recorded'
  BY <1>1, <1>3 DEF Inv, Knowledge, Recorded, Working
<1>6. Observed' /\ Intended' /\ Known' /\ Promised' /\ EventsPast'
  BY <1>1 DEF Inv, Knowledge, Observed, Intended, Known, Promised, EventsPast, Working
<1>7. QED
  BY <1>4, <1>5, <1>6 DEF Knowledge

LEMMA CheckKnows == ASSUME Inv, CheckEffect PROVE Knowledge'
<1> USE DEF world, vault, durable, relay, inputs, work, counts
<1>1. pc = "check" /\ pc \in Working /\ todo # <<>>
  BY DEF CheckEffect, Working, Inv, IndInv, EffectsLeft
<1>2. CASE ~Unchanged
  <2>1. /\ AbandonPair
        /\ UNCHANGED <<page, events, pair, sawLocal, sawNotion, claimed, matched, artifacts>>
    BY <1>2 DEF CheckEffect
  <2>2. QED
    BY <1>1, <2>1, AbandonKnows
<1>3. CASE Unchanged
  <2>1. /\ seen' = IF Head(todo) \in {"initialize-pair", Note} THEN local ELSE page
        /\ pc' = "write"
        /\ UNCHANGED <<page, today, artifacts, pair, intent, events, registered, sawLocal, sawNotion,
                       claimed, matched, plan, todo, failed>>
    BY <1>3 DEF CheckEffect, Note
  <2>2. Head(todo) \in {"initialize-pair", Note} => seen' = sawLocal
    <3>1. "initialize-pair" # Keeping /\ Note # Keeping
      BY DEF Note, Keeping
    <3>2. Head(todo) \in {"initialize-pair", Note} => intent = IntentOf(Head(todo))
      BY <1>1, <3>1 DEF Inv, Knowledge, Intended
    <3>3. Head(todo) \in {"initialize-pair", Note} => intent.before = sawLocal
      BY <3>2 DEF IntentOf, Blind, Note
    <3>4. QED
      BY <1>3, <2>1, <3>3 DEF Unchanged, Note
  <2>3. Head(todo) \in {Body, Properties, Mark} => seen' = sawNotion
    <3>1. Head(todo) \in {Body, Properties, Mark} => Head(todo) \notin {"initialize-pair", Note, Create}
      BY DEF Body, Properties, Mark, Note, Create
    <3>2. Head(todo) \in {Body, Properties, Mark} => sawNotion \in Pages
      BY <1>1, <3>1, HeadOfNew, HeadOfPair
    <3>3. Head(todo) \in {Body, Properties, Mark} => page.revision = sawNotion.revision
      BY <1>3, <3>1 DEF Unchanged, Note
    <3>4. QED
      BY <2>1, <3>1, <3>2, <3>3, Observations DEF Inv, Knowledge, Known
  <2>4. Known'
    BY <2>1, <2>2, <2>3 DEF Inv, Knowledge, Known
  <2>5. Intended'
    <3>1. IntentOf(Head(todo))' = IntentOf(Head(todo))
      BY <2>1 DEF IntentOf, NextSem
    <3>2. QED
      BY <1>1, <2>1, <3>1 DEF Inv, Knowledge, Intended
  <2>6. Observed' /\ Promised' /\ EventsPast' /\ Recorded'
    BY <1>1, <2>1 DEF Inv, Knowledge, Observed, Promised, EventsPast, Recorded, Working
  <2>7. ConflictBacked'
    BY <1>1, <2>1 DEF Inv, Knowledge, ConflictBacked, BothKept, InRun, Working
  <2>8. QED
    BY <2>4, <2>5, <2>6, <2>7 DEF Knowledge
<1>4. QED
  BY <1>2, <1>3

LEMMA FailKnows == ASSUME Inv, EffectFails \/ CompletionThrows PROVE Knowledge'
<1>1. /\ pc \in Working /\ todo # <<>> /\ AbandonPair
      /\ UNCHANGED <<page, events, pair, sawLocal, sawNotion, claimed, matched, artifacts>>
  BY DEF EffectFails, CompletionThrows, Working, world, vault, durable, relay, inputs, Inv, IndInv, EffectsLeft
<1>2. QED
  BY <1>1, AbandonKnows

\* An effect takes place: on the note, beside it, or on the page.
LEMMA WriteKnows ==
    ASSUME Inv, WriteNote \/ WriteConflict \/ CreatePage \/ UpdatePage
    PROVE  Knowledge'
<1> USE DEF world, vault, durable, relay, inputs, work, counts
<1>1. pc = "write" /\ pc \in Working /\ todo # <<>> /\ intent.kind = Head(todo)
  BY DEF WriteNote, WriteConflict, CreatePage, UpdatePage, Working, Inv, IndInv, EffectsLeft
<1>2. CASE AbandonPair /\ UNCHANGED <<page, events, pair, sawLocal, sawNotion, claimed, matched, artifacts>>
  BY <1>1, <1>2, AbandonKnows
<1> DEFINE Taken == /\ pc' = "confirm"
                    /\ UNCHANGED <<today, pair, intent, registered, sawLocal, sawNotion, claimed,
                                   matched, plan, todo, seen, failed>>
<1>3. ASSUME Taken
      PROVE  Observed' /\ Intended' /\ Promised' /\ Recorded'
  <2>1. IntentOf(Head(todo))' = IntentOf(Head(todo))
    BY <1>3 DEF IntentOf, NextSem
  <2>2. Intended'
    BY <1>1, <1>3, <2>1 DEF Inv, Knowledge, Intended
  <2>3. Observed' /\ Promised' /\ Recorded'
    BY <1>1, <1>3 DEF Inv, Knowledge, Observed, Promised, Recorded, Working
  <2>4. QED
    BY <2>2, <2>3
<1>4. ASSUME Taken, UNCHANGED artifacts, Head(todo) # Keeping
      PROVE  ConflictBacked'
  <2>1. ~ToKeepBoth(todo, plan, sawLocal, sawNotion)
    <3>1. CASE Paired(pair)
      BY <1>1, <1>4, <3>1, HeadOfPair
    <3>2. CASE ~Paired(pair)
      <4>1. Head(todo) \in {"initialize-pair", Create}
        BY <1>1, <3>2, HeadOfNew
      <4>2. Head(<<Keeping, Mark>>) = Keeping
        BY TwoEffects
      <4>3. QED
        BY <1>4, <4>2 DEF ToKeepBoth
    <3>3. QED
      BY <3>1, <3>2
  <2>2. QED
    BY <1>1, <1>4, <2>1 DEF Inv, Knowledge, ConflictBacked, BothKept, InRun
<1>5. ASSUME NEW new, ChangePage(new), page'.revision = page.revision + 1, Taken
      PROVE  Known' /\ EventsPast'
  <2>1. events' \subseteq events \union {page.revision + 1}
    BY <1>5 DEF ChangePage
  <2>2. EventsPast' /\ (sawNotion # Unseen => sawNotion.revision < page'.revision)
    BY <1>5, <2>1, NewRevision
  <2>3. sawNotion # Unseen => sawNotion.revision \in Nat
    BY Observations DEF Inv, TypeOK
  <2>4. page'.revision \in Nat
    BY <1>5, Observations DEF Inv, TypeOK
  <2>5. QED
    BY <1>5, <2>2, <2>3, <2>4 DEF Known
<1>6. CASE WriteNote
  <2>1. Taken /\ UNCHANGED <<page, artifacts, events>> /\ Head(todo) # Keeping
    BY <1>6 DEF WriteNote, Keeping
  <2>2. Known' /\ EventsPast'
    BY <2>1 DEF Inv, Knowledge, Known, EventsPast
  <2>3. QED
    BY <1>3, <1>4, <2>1, <2>2 DEF Knowledge
<1>7. CASE WriteConflict
  <2>1. CASE \E a \in artifacts : a.day = intent.artifact.day
    BY <1>2, <1>7, <2>1 DEF WriteConflict
  <2>2. CASE ~\E a \in artifacts : a.day = intent.artifact.day
    <3>1. /\ Taken /\ UNCHANGED <<page, events>> /\ Head(todo) = Keeping
          /\ artifacts' = artifacts \union {intent.artifact}
      BY <1>7, <2>2 DEF WriteConflict, Keeping
    <3>2. Known' /\ EventsPast'
      BY <3>1 DEF Inv, Knowledge, Known, EventsPast
    <3>3. Paired(pair)
      BY <1>1, <3>1, HeadOfNew DEF Keeping, Create
    <3>4. ToKeepBoth(todo, plan, sawLocal, sawNotion)
      BY <1>1, <3>1, <3>3, HeadOfPair
    <3>5. intent.artifact.local = sawLocal.sem /\ intent.artifact.notion = sawNotion.sem
      BY <1>1, <3>1 DEF Inv, Knowledge, Intended
    <3>6. BothKept(plan.next.common)'
      BY <3>1, <3>4, <3>5 DEF BothKept, ToKeepBoth
    <3>7. pair.status = "conflict" => BothKept(pair.common)'
      BY <3>1 DEF Inv, Knowledge, ConflictBacked, BothKept
    <3>8. ConflictBacked'
      BY <3>1, <3>6, <3>7 DEF ConflictBacked
    <3>9. QED
      BY <1>3, <3>1, <3>2, <3>8 DEF Knowledge
  <2>3. QED
    BY <2>1, <2>2
<1>8. CASE CreatePage
  <2>1. /\ Taken /\ UNCHANGED artifacts /\ Head(todo) # Keeping
        /\ \E new : ChangePage(new)
        /\ page'.revision = page.revision + 1
    BY <1>8 DEF CreatePage, Keeping, ChangePage, Inv, TypeOK, Pages
  <2>2. Known' /\ EventsPast'
    BY <1>5, <2>1
  <2>3. QED
    BY <1>3, <1>4, <2>1, <2>2 DEF Knowledge
<1>9. CASE UpdatePage
  <2>1. CASE pc' = "register"
    BY <1>2, <1>9, <2>1 DEF UpdatePage
  <2>2. CASE pc' # "register"
    <3>1. /\ Taken /\ UNCHANGED artifacts /\ Head(todo) # Keeping
          /\ \E new : ChangePage(new)
          /\ page'.revision = page.revision + 1
      BY <1>9, <2>2 DEF UpdatePage, Keeping, ChangePage, AbandonPair, Inv, TypeOK, Pages
    <3>2. Known' /\ EventsPast'
      BY <1>5, <3>1
    <3>3. QED
      BY <1>3, <1>4, <3>1, <3>2 DEF Knowledge
  <2>3. QED
    BY <2>1, <2>2
<1>10. QED
  BY <1>6, <1>7, <1>8, <1>9

\* What is left of a promise once its first effect is confirmed, and the page as it was read then.
LEMMA PromiseKept ==
    ASSUME Inv, pc = "confirm", Confirmed, Paired(pair), NEW n,
           n = IF Head(todo) \in Blind \union {Body} THEN page ELSE sawNotion
    PROVE  Promise(Tail(todo), plan, sawLocal, n, pair)
<1>1. pc \in Working /\ todo # <<>>
  BY DEF Working, Inv, IndInv, EffectsLeft
<1>2. /\ sawLocal \in Notes /\ sawNotion \in Pages /\ page \in Pages
      /\ Head(todo) \in {Mark, Keeping, Body, Note, Properties}
  BY <1>1, HeadOfPair DEF Inv, TypeOK
<1>3. n # Unseen
  BY <1>2, Observations
<1>4. CASE Head(todo) = Mark
  <2>1. ToMark(todo, plan)
    BY <1>1, <1>4, HeadOfPair
  <2>2. Tail(todo) = <<>>
    BY <2>1, OneEffect DEF ToMark
  <2>3. QED
    BY <2>1, <2>2 DEF Promise, IsSettled, ToMark
<1>5. CASE Head(todo) = Keeping
  <2>1. ToKeepBoth(todo, plan, sawLocal, sawNotion)
    BY <1>1, <1>5, HeadOfPair
  <2>2. Tail(todo) = <<Mark>>
    BY <2>1, TwoEffects DEF ToKeepBoth
  <2>3. ToMark(Tail(todo), plan)
    BY <2>1, <2>2 DEF ToMark, ToKeepBoth
  <2>4. QED
    BY <2>3 DEF Promise
<1>6. CASE Head(todo) = Body
  <2>1. ToPush(todo, plan, sawLocal, sawNotion, pair)
    BY <1>1, <1>6, HeadOfPair
  <2>2. n = page /\ page.sem = [body |-> sawLocal.sem.body, tags |-> sawNotion.sem.tags]
    BY <1>6 DEF Confirmed, NextSem, Body
  <2>3. sawLocal.sem = [body |-> sawLocal.sem.body, tags |-> sawLocal.sem.tags]
    BY <1>2, Observations
  <2>4. CASE todo = <<Body>>
    <3>1. Tail(todo) = <<>>
      BY <2>4, OneEffect
    <3>2. plan.next.common = n.sem
      BY <2>1, <2>2, <2>3, <2>4 DEF ToPush
    <3>3. QED
      BY <1>3, <3>1, <3>2 DEF Promise, IsSettled
  <2>5. CASE todo = <<Body, Properties>>
    <3>1. Tail(todo) = <<Properties>>
      BY <2>5, TwoEffects
    <3>2. ToSetProperties(Tail(todo), plan, sawLocal, n, pair)
      BY <2>1, <2>2, <2>3, <3>1 DEF ToSetProperties, ToPush
    <3>3. QED
      BY <3>2 DEF Promise
  <2>6. QED
    BY <2>1, <2>4, <2>5 DEF ToPush
<1>7. CASE Head(todo) = Note
  <2>1. ToPull(todo, plan, sawLocal, sawNotion, pair)
    BY <1>1, <1>7, HeadOfPair
  <2>2. n = sawNotion
    BY <1>7 DEF Blind, Body, Note
  <2>3. n.sem = [body |-> n.sem.body, tags |-> n.sem.tags]
    BY <1>2, <2>2, Observations
  <2>4. CASE todo = <<Note>>
    <3>1. Tail(todo) = <<>>
      BY <2>4, OneEffect
    <3>2. QED
      BY <1>3, <2>1, <2>2, <3>1 DEF Promise, IsSettled, ToPull
  <2>5. CASE todo = <<Note, Properties>>
    <3>1. Tail(todo) = <<Properties>>
      BY <2>5, TwoEffects
    <3>2. ToSetProperties(Tail(todo), plan, sawLocal, n, pair)
      BY <2>1, <2>2, <2>3, <3>1 DEF ToSetProperties, ToPull
    <3>3. QED
      BY <3>2 DEF Promise
  <2>6. QED
    BY <2>1, <2>4, <2>5 DEF ToPull
<1>8. CASE Head(todo) = Properties
  <2>1. ToSetProperties(todo, plan, sawLocal, sawNotion, pair)
    BY <1>1, <1>8, HeadOfPair
  <2>2. Tail(todo) = <<>>
    BY <2>1, OneEffect DEF ToSetProperties
  <2>3. n = page /\ page.sem = NextSem(Properties)
    BY <1>8 DEF Confirmed, Properties, Blind
  <2>4. n.sem = plan.next.common
    BY <2>1, <2>3 DEF NextSem, Properties, ToSetProperties
  <2>5. QED
    BY <1>3, <2>2, <2>4 DEF Promise, IsSettled
<1>9. QED
  BY <1>2, <1>4, <1>5, <1>6, <1>7, <1>8

LEMMA ConfirmKnows == ASSUME Inv, ConfirmEffect PROVE Knowledge'
<1> USE DEF world, vault, durable, relay, inputs, work, counts
<1>1. pc = "confirm" /\ pc \in Working /\ todo # <<>>
  BY DEF ConfirmEffect, Working, Inv, IndInv, EffectsLeft
<1>2. CASE ~Confirmed
  <2>1. /\ AbandonPair
        /\ UNCHANGED <<page, events, pair, sawLocal, sawNotion, claimed, matched, artifacts>>
    BY <1>2 DEF ConfirmEffect
  <2>2. QED
    BY <1>1, <2>1, AbandonKnows
<1>3. CASE Confirmed
  <2>1. /\ todo' = Tail(todo) /\ pc' = "effect"
        /\ sawNotion' = IF Head(todo) \in Blind \union {Body} THEN page ELSE sawNotion
        /\ UNCHANGED <<page, artifacts, pair, events, registered, sawLocal, claimed, matched,
                       plan, failed>>
    BY <1>3 DEF ConfirmEffect, Body
  <2>2. page \in Pages /\ page # Unseen /\ page.revision \in Nat
    BY Observations DEF Inv, TypeOK
  <2>3. Head(todo) \in Blind \union {Body} => page.kind = "present"
    BY <1>3 DEF Confirmed, Blind, Body
  <2>4. Observed'
    BY <1>1, <2>1, <2>2, <2>3 DEF Inv, Knowledge, Observed, Working
  <2>5. Intended'
    BY <2>1 DEF Intended
  <2>6. Known' /\ EventsPast'
    BY <2>1, <2>2 DEF Inv, Knowledge, Known, EventsPast
  <2>7. Promised'
    <3>1. Paired(pair) => Promise(Tail(todo), plan, sawLocal, sawNotion', pair)
      BY <1>1, <1>3, <2>1, PromiseKept
    <3>2. QED
      BY <2>1, <3>1 DEF Promised
  <2>8. ConflictBacked'
    BY <1>1, <2>1 DEF Inv, Knowledge, ConflictBacked, BothKept, InRun
  <2>9. Recorded'
    BY <1>1, <2>1 DEF Inv, Knowledge, Recorded, Working
  <2>10. QED
    BY <2>4, <2>5, <2>6, <2>7, <2>8, <2>9 DEF Knowledge
<1>4. QED
  BY <1>2, <1>3

\* The registry, the state, and the end of a run.
LEMMA FinalKnows ==
    ASSUME Inv,
           \/ SynchronizeRegistry \/ RegistryFails
           \/ SaveState \/ SaveFails \/ CompleteFence \/ Acknowledge \/ Dies
    PROVE  Knowledge'
<1> USE DEF world, vault, durable, relay, inputs, work, counts
<1>1. CASE SynchronizeRegistry
  <2>1. /\ pc = "register" /\ pc' = "save"
        /\ registered' = WantsPage
        /\ UNCHANGED <<page, artifacts, pair, intent, events, sawLocal, sawNotion, claimed, matched,
                       plan, todo, seen, failed>>
    BY <1>1 DEF SynchronizeRegistry
  <2>2. Recorded'
    BY <2>1 DEF Inv, Knowledge, Recorded, WantsPage, Working, Retained
  <2>3. Observed' /\ Intended' /\ Known' /\ Promised' /\ EventsPast'
    BY <2>1 DEF Inv, Knowledge, Observed, Intended, Known, Promised, EventsPast, Working
  <2>4. ConflictBacked'
    BY <2>1 DEF Inv, Knowledge, ConflictBacked, BothKept, InRun, Working
  <2>5. QED
    BY <2>2, <2>3, <2>4 DEF Knowledge
<1>2. CASE RegistryFails \/ Dies
  <2>1. EndRun /\ UNCHANGED <<page, artifacts, events, pair>>
    BY <1>2 DEF RegistryFails, Dies
  <2>2. QED
    BY <2>1, EndKnows
<1>3. CASE SaveState
  <2>1. /\ pc = "save" /\ pc' = "unfence" /\ pair' = plan.next
        /\ UNCHANGED <<page, artifacts, intent, registered, events, sawLocal, sawNotion, claimed,
                       matched, plan, todo, seen, failed>>
    BY <1>3 DEF SaveState, Dirty
  <2>2. Observed'
    BY <2>1 DEF Inv, Knowledge, Observed, IndInv, PlanFenced, InRun, Working
  <2>3. Intended' /\ Known' /\ Promised' /\ EventsPast'
    BY <2>1 DEF Inv, Knowledge, Intended, Known, Promised, EventsPast, Working
  <2>4. ConflictBacked'
    BY <2>1 DEF Inv, Knowledge, ConflictBacked, BothKept, InRun, Working
  <2>5. Recorded'
    BY <2>1 DEF Inv, Knowledge, Recorded, Working
  <2>6. QED
    BY <2>2, <2>3, <2>4, <2>5 DEF Knowledge
<1>4. CASE SaveFails
  <2>1. /\ EndRun /\ UNCHANGED <<page, artifacts, events>>
        /\ pc = "save" /\ pair' \in {pair, plan.next}
    BY <1>4 DEF SaveFails
  <2>2. QED
    BY <2>1, EndKnows
<1>5. CASE CompleteFence
  <2>1. /\ pc = "unfence" /\ pc' = "ack"
        /\ UNCHANGED <<page, artifacts, pair, intent, registered, events, sawLocal, sawNotion, claimed,
                       matched, plan, todo, seen, failed>>
    BY <1>5 DEF CompleteFence
  <2>2. QED
    BY <2>1 DEF Inv, Knowledge, Observed, Intended, Known, Promised, ConflictBacked, BothKept,
                EventsPast, Recorded, Working, InRun
<1>6. CASE Acknowledge
  <2>1. EndRun /\ UNCHANGED <<page, artifacts, pair>> /\ events' \subseteq events
    BY <1>6 DEF Acknowledge
  <2>2. QED
    BY <2>1, EndKnows
<1>7. QED
  BY <1>1, <1>2, <1>3, <1>4, <1>5, <1>6

\* Every step keeps what is known.
LEMMA NextKnows == Inv /\ [Next]_vars => Knowledge'
<1> SUFFICES ASSUME Inv, [Next]_vars PROVE Knowledge'
  OBVIOUS
<1>1. CASE UNCHANGED vars
  <2>1. UNCHANGED <<local, artifacts, page, today, pair, fence, intent, registered, events, pc, preview,
                    sawLocal, sawNotion, claimed, matched, plan, todo, seen, failed>>
    BY <1>1 DEF vars, vault, durable, relay, inputs, work
  <2>2. Intended'
    <3>1. IntentOf(Head(todo))' = IntentOf(Head(todo))
      BY <2>1 DEF IntentOf, NextSem
    <3>2. QED
      BY <2>1, <3>1 DEF Inv, Knowledge, Intended
  <2>3. Observed' /\ Known' /\ Promised' /\ EventsPast' /\ Recorded'
    BY <2>1 DEF Inv, Knowledge, Observed, Known, Promised, EventsPast, Recorded, Retained
  <2>4. ConflictBacked'
    BY <2>1 DEF Inv, Knowledge, ConflictBacked, BothKept
  <2>5. QED
    BY <2>2, <2>3, <2>4 DEF Knowledge
<1>2. CASE Owner
  BY <1>2, OwnerKnows
<1>3. CASE Run
  BY <1>3, ObservingKnows, PlanKnows, BeginKnows, DoneKnows, CheckKnows, WriteKnows, ConfirmKnows,
     FailKnows, FinalKnows DEF Run
<1>4. QED
  BY <1>1, <1>2, <1>3 DEF Next

LEMMA Knowing == Spec => []Inv
<1>1. Inv /\ [Next]_vars => Inv'
  BY NextIndInv, NextTyped, NextKnows DEF Inv
<1>2. QED
  BY InitInv, <1>1, PTL DEF Spec

-----------------------------------------------------------------------------
\* The note, the page and the run's records keep their shapes.
THEOREM TypeCorrect == Spec => []TypeOK
BY Knowing, PTL DEF Inv

\* A paused pair has an artifact with both texts that were in conflict.
THEOREM ConflictsAreKept == Spec => []PausedConflictKeepsBothTexts
<1>1. ASSUME NEW a, NEW b, NEW c, AllDistinct(a, b, c) PROVE Cardinality({a, b, c}) = 3
  <2>1. IsFiniteSet({a}) /\ Cardinality({a}) = 1
    BY FS_Singleton
  <2>2. IsFiniteSet({a} \union {b}) /\ Cardinality({a} \union {b}) = 2
    BY <1>1, <2>1, FS_AddElement DEF AllDistinct
  <2>3. Cardinality(({a} \union {b}) \union {c}) = 3
    BY <1>1, <2>2, FS_AddElement DEF AllDistinct
  <2>4. ({a} \union {b}) \union {c} = {a, b, c}
    OBVIOUS
  <2>5. QED
    BY <2>3, <2>4
<1>2. Inv => PausedConflictKeepsBothTexts
  BY <1>1 DEF Inv, Knowledge, ConflictBacked, BothKept, PausedConflictKeepsBothTexts
<1>3. QED
  BY Knowing, <1>2, PTL

\* No run replaces an edit that the other side does not have, if the last check before the
\* replacement could see it; of a body that was not empty, not even one made after that.
THEOREM NoEditIsLost == Spec => OnlyCommonTextIsReplaced
<1> USE DEF world, vault, durable, relay, inputs, work, counts
<1> DEFINE Replaced == pc = "write" /\ pc' = "confirm" =>
                         /\ local' # local => seen.sem \in {local'.sem, pair.common}
                         /\ page.kind = "present" /\ created' = created =>
                              /\ \/ page.sem.body \in {page'.sem.body, pair.common.body}
                                 \/ seen.sem.body \in EmptyBodies \intersect {pair.common.body}
                              /\ page'.sem.tags # page.sem.tags =>
                                   seen.sem.tags \in {page'.sem.tags, pair.common.tags}
<1>1. Inv /\ Next => Replaced
  <2> SUFFICES ASSUME Inv, Next, pc = "write", pc' = "confirm" PROVE Replaced
    OBVIOUS
  <2>1. pc \in Working /\ todo # <<>> /\ intent.kind = Head(todo)
    BY DEF Working, Inv, IndInv, EffectsLeft
  <2>2. WriteNote \/ WriteConflict \/ CreatePage \/ UpdatePage
    BY DEF Next, Owner, EditNote, SpoilNote, EditPage, TrashPage, RestorePage, NextDay, OwnerActs, Run,
           StartRun, RecoverIntent, RecoverFence, Scan, Retrieve, RetrieveFails, Plan, FenceFails,
           BeginEffect, EffectsDone, CheckEffect, ConfirmEffect, CompletionThrows, EffectFails, AbandonPair,
           SynchronizeRegistry, RegistryFails, SaveState, SaveFails, CompleteFence, Acknowledge, Dies,
           EndRun
  <2>3. CASE WriteNote
    <3>1. /\ Head(todo) \in {"initialize-pair", Note} /\ Head(todo) # Keeping
          /\ local' = intent.after /\ UNCHANGED page
      BY <2>3 DEF WriteNote, Note, Keeping
    <3>2. intent = IntentOf(Head(todo)) /\ seen = sawLocal
      BY <2>1, <3>1 DEF Inv, Knowledge, Intended, Known
    <3>3. sawLocal \in Notes
      BY <2>1 DEF Inv, TypeOK, Knowledge, Observed
    <3>4. CASE Head(todo) = "initialize-pair"
      BY <3>1, <3>2, <3>3, <3>4 DEF IntentOf, Blind, Notes
    <3>5. CASE Head(todo) = Note
      <4>1. ToPull(todo, plan, sawLocal, sawNotion, pair)
        BY <2>1, <3>5, HeadOfNew, HeadOfPair DEF Note, Create
      <4>2. QED
        BY <3>1, <3>2, <4>1 DEF ToPull
    <3>6. QED
      BY <3>1, <3>4, <3>5
  <2>4. CASE WriteConflict
    BY <2>4 DEF WriteConflict, AbandonPair
  <2>5. CASE CreatePage
    <3>1. created' # created
      BY <2>5 DEF CreatePage, Inv, TypeOK
    <3> QED BY <2>5, <3>1 DEF CreatePage
  <2>6. CASE UpdatePage
    <3>1. /\ UNCHANGED local /\ page \in Pages
          /\ Head(todo) \in {Body, Properties, Mark}
          /\ Head(todo) = Body =>
               /\ page.sem.body = sawNotion.sem.body \/ seen.sem.body \in EmptyBodies
               /\ page'.sem.tags = page.sem.tags
          /\ Head(todo) # Body =>
               /\ page'.sem.body = page.sem.body
               /\ page'.sem.tags = NextSem(Head(todo)).tags
      <4>1. /\ UNCHANGED local /\ page \in Pages /\ page.sem \in Semantics
            /\ Head(todo) \in {Body, Properties, Mark}
        BY <2>6, Observations DEF UpdatePage, Inv, TypeOK, Body, Properties, Mark
      <4>2. CASE Head(todo) = Body
        <5>1. /\ ChangePage([page EXCEPT !.sem.body = sawLocal.sem.body])
              /\ page.sem.body = sawNotion.sem.body \/ seen.sem.body \in EmptyBodies
          BY <2>6, <4>2 DEF UpdatePage, ReplacesOnlyOldBody, AbandonPair, Body
        <5>2. page'.sem.tags = page.sem.tags
          BY <4>1, <5>1 DEF ChangePage, Pages, Semantics
        <5>3. QED
          BY <4>1, <4>2, <5>1, <5>2
      <4>3. CASE Head(todo) # Body
        <5>1. ChangePage([page EXCEPT !.sem.tags = NextSem(Head(todo)).tags,
                                      !.status = NextStatus(Head(todo))])
          BY <2>6, <4>3 DEF UpdatePage, AbandonPair, Body
        <5>2. page'.sem.body = page.sem.body /\ page'.sem.tags = NextSem(Head(todo)).tags
          BY <4>1, <5>1 DEF ChangePage, Pages, Semantics
        <5>3. QED
          BY <4>1, <4>3, <5>2
      <4>4. QED
        BY <4>2, <4>3
    <3>2. seen = sawNotion /\ Paired(pair)
      BY <2>1, <3>1, HeadOfNew DEF Inv, Knowledge, Known, Body, Properties, Mark, Create
    <3>3. CASE Head(todo) = Body
      <4>1. ToPush(todo, plan, sawLocal, sawNotion, pair)
        BY <2>1, <3>2, <3>3, HeadOfPair
      <4>2. QED
        BY <3>1, <3>2, <3>3, <4>1 DEF ToPush
    <3>4. CASE Head(todo) = Properties
      <4>1. ToSetProperties(todo, plan, sawLocal, sawNotion, pair)
        BY <2>1, <3>2, <3>4, HeadOfPair
      <4>2. page'.sem.tags = plan.next.common.tags
        BY <3>1, <3>4, <4>1 DEF NextSem, Properties, Body, ToSetProperties
      <4>3. QED
        BY <3>1, <3>2, <3>4, <4>1, <4>2 DEF ToSetProperties, Properties, Body
    <3>5. CASE Head(todo) = Mark
      <4>1. page'.sem.tags = sawNotion.sem.tags
        BY <3>1, <3>5 DEF NextSem, Mark, Body
      <4>2. QED
        BY <3>1, <3>2, <3>5, <4>1 DEF Mark, Body
    <3>6. QED
      BY <3>1, <3>3, <3>4, <3>5
  <2>7. QED
    BY <2>2, <2>3, <2>4, <2>5, <2>6
<1>2. Inv /\ [Next]_vars => [Replaced]_vars
  BY <1>1
<1>3. QED
  BY Knowing, <1>2, PTL DEF Spec, OnlyCommonTextIsReplaced

\* An event leaves the queue only once its change is settled.
THEOREM NoChangeIsForgotten == Spec => AcknowledgedChangesAreSettled
<1> USE DEF world, vault, durable, relay, inputs, work, counts
<1> DEFINE Settled == pc = "ack" /\ matched =>
                        \A e \in events \ events' :
                           \/ /\ sawNotion # Unseen /\ sawNotion.revision >= e
                              /\ pair.common = sawNotion.sem \/ sawNotion.kind = "trashed"
                           \/ pair.status \in {"conflict", "missing-local", "detached"}
<1>1. Inv /\ Next => Settled
  <2> SUFFICES ASSUME Inv, Next, pc = "ack", matched, NEW e \in events \ events'
               PROVE  \/ /\ sawNotion # Unseen /\ sawNotion.revision >= e
                         /\ pair.common = sawNotion.sem \/ sawNotion.kind = "trashed"
                      \/ pair.status \in {"conflict", "missing-local", "detached"}
    OBVIOUS
  <2>1. Acknowledge
    BY DEF Next, Owner, EditNote, SpoilNote, EditPage, TrashPage, RestorePage, NextDay, OwnerActs, ChangePage,
           Run, StartRun, RecoverIntent, RecoverFence, Scan, Retrieve, RetrieveFails, Plan, FenceFails,
           BeginEffect, EffectsDone, CheckEffect, WriteNote, WriteConflict, CreatePage, UpdatePage,
           ConfirmEffect, CompletionThrows, EffectFails, SynchronizeRegistry, RegistryFails, SaveState, SaveFails,
           CompleteFence, Dies
  <2>2. e \in claimed /\ ~failed /\ plan.action # "none"
    BY <2>1 DEF Acknowledge, Acknowledged
  <2>3. plan.action # "error" /\ pair = plan.next
    BY <2>2 DEF Inv, Knowledge, Recorded
  <2>4. IsSettled(plan, sawNotion)
    BY <2>2, <2>3 DEF Inv, Knowledge, Recorded
  <2>5. sawNotion # Unseen => sawNotion.revision \in Nat /\ e \in Nat /\ e <= sawNotion.revision
    BY <2>2, Observations DEF Inv, TypeOK, Knowledge, EventsPast
  <2>6. sawNotion # Unseen => sawNotion.revision >= e
    BY <2>5
  <2>7. QED
    BY <2>3, <2>4, <2>6 DEF IsSettled
<1>2. Inv /\ [Next]_vars => [Settled]_vars
  BY <1>1
<1>3. QED
  BY Knowing, <1>2, PTL DEF Spec, AcknowledgedChangesAreSettled

\* The page of a pair that becomes synced is registered with the relay by then.
THEOREM SyncedPagesAreRegistered == Spec => NewlySyncedPageIsRegistered
<1> USE DEF world, vault, durable, relay, inputs, work, counts
<1> DEFINE Announced == pair'.status = "synced" /\ pair.status \in {"unpaired", "detached"} => registered'
<1>1. Inv /\ Next => Announced
  <2> SUFFICES ASSUME Inv, Next, pair'.status = "synced", pair.status \in {"unpaired", "detached"}
               PROVE  registered'
    OBVIOUS
  <2>1. pair' # pair
    OBVIOUS
  <2>2. SaveState \/ SaveFails
    BY <2>1 DEF Next, Owner, EditNote, SpoilNote, EditPage, TrashPage, RestorePage, NextDay, OwnerActs, Run,
                StartRun, RecoverIntent, RecoverFence, Scan, Retrieve, RetrieveFails, Plan, FenceFails,
                BeginEffect, EffectsDone, CheckEffect, WriteNote, WriteConflict, CreatePage, UpdatePage,
                ConfirmEffect, CompletionThrows, EffectFails, SynchronizeRegistry, RegistryFails, CompleteFence,
                Acknowledge, Dies
  <2>3. pc = "save" /\ pair' = plan.next /\ registered' = registered
    BY <2>1, <2>2 DEF SaveState, SaveFails
  <2>4. QED
    BY <2>3 DEF Inv, Knowledge, Recorded, Retained
<1>2. Inv /\ [Next]_vars => [Announced]_vars
  BY <1>1
<1>3. QED
  BY Knowing, <1>2, PTL DEF Spec, NewlySyncedPageIsRegistered
=============================================================================
