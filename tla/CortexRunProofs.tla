-------------------------- MODULE CortexRunProofs ---------------------------
(***************************************************************************)
(* Proofs about the Cortex runs of CortexRun, for any workspace, any       *)
(* number of edits and any number of faults: the shapes of the state, that *)
(* no candidate becomes two pages, and what a run may not do to a page in  *)
(* conflict or to a text only one side has.                                *)
(*                                                                         *)
(* The planner's operators are shown to yield what they should             *)
(* (PlanTyped), then each step of a run to keep Inv, the inductive         *)
(* invariant, from which the theorems at the end follow.                   *)
(***************************************************************************)
EXTENDS CortexRun, FiniteSetTheorems, SequenceTheorems, WellFoundedInduction, TLAPS

\* A set of numbers has a least one.
LEMMA LeastExists ==
  ASSUME NEW S \in SUBSET Nat, S # {}
  PROVE  \E i \in S : \A j \in S : i <= j
<1>1. IsWellFoundedOn(OpToRel(<, Nat), Nat)
  BY NatLessThanWellFounded
<1>2. PICK i \in S : \A j \in S : ~(<<j, i>> \in OpToRel(<, Nat))
  BY <1>1, WFMin
<1>3. \A j \in S : ~(j < i)
  BY <1>2 DEF OpToRel
<1> QED BY <1>3

\* What holds at the first number of an interval and passes on to the next holds all along it.
LEMMA Climb ==
  ASSUME NEW lo \in Nat, NEW N \in Nat, NEW T, lo \in T,
         \A n \in lo..N : n \in T /\ n + 1 <= N => n + 1 \in T
  PROVE  \A n \in lo..N : n \in T
<1> DEFINE Bad == {n \in lo..N : n \notin T}
<1>1. SUFFICES ASSUME Bad # {} PROVE FALSE
  OBVIOUS
<1>2. PICK n \in Bad : \A m \in Bad : n <= m
  <2>1. Bad \in SUBSET Nat
    OBVIOUS
  <2> HIDE DEF Bad
  <2> QED BY <1>1, <2>1, LeastExists
<1>3. n \in Nat /\ n # lo /\ lo <= n /\ n <= N /\ n - 1 \in lo..N
  BY <1>2
<1>4. n - 1 \in T
  BY <1>2, <1>3
<1> QED BY <1>2, <1>3, <1>4

\* f is built from b, one value from the last by G.
Recurs(f, lo, N, b, S, G) ==
  f \in [lo..N -> S] /\ f[lo] = b /\ \A n \in lo..N : n # lo => f[n] = G[<<n, f[n - 1]>>]

\* A function over an interval may be defined from one value to the next.
LEMMA RecursionExists ==
  ASSUME NEW lo \in Nat, NEW N \in Nat, lo <= N, NEW S, NEW b \in S,
         NEW G \in [(lo..N) \X S -> S]
  PROVE  \E f : Recurs(f, lo, N, b, S, G)
<1> DEFINE Fits(f, n) == f[lo] = b /\ \A m \in lo..n : m # lo => f[m] = G[<<m, f[m - 1]>>]
           T == {n \in lo..N : \E f \in [lo..n -> S] : Fits(f, n)}
<1>1. lo \in T
  <2>1. [m \in lo..lo |-> b] \in [lo..lo -> S] /\ Fits([m \in lo..lo |-> b], lo)
    OBVIOUS
  <2>2. lo \in lo..N
    OBVIOUS
  <2> QED BY <2>1, <2>2
<1>2. ASSUME NEW n \in lo..N, n \in T, n + 1 <= N PROVE n + 1 \in T
  <2>1. PICK f \in [lo..n -> S] : Fits(f, n)
    BY <1>2
  <2> DEFINE g == [m \in lo..(n + 1) |-> IF m = n + 1 THEN G[<<n + 1, f[n]>>] ELSE f[m]]
  <2>2. n \in lo..n /\ n + 1 \in lo..N /\ f[n] \in S /\ <<n + 1, f[n]>> \in (lo..N) \X S
    BY <1>2
  <2>3. G[<<n + 1, f[n]>>] \in S
    BY <2>2
  <2>4. g \in [lo..(n + 1) -> S]
    BY <2>3, <1>2
  <2>5. g[lo] = b
    BY <2>1, <2>2
  <2>6. ASSUME NEW m \in lo..(n + 1), m # lo PROVE g[m] = G[<<m, g[m - 1]>>]
    <3>1. m - 1 \in lo..n /\ g[m - 1] = f[m - 1]
      BY <2>6, <2>2
    <3>2. CASE m = n + 1
      <4>1. m - 1 = n /\ g[m] = G[<<n + 1, f[n]>>]
        BY <2>2, <3>2
      <4> QED BY <3>1, <3>2, <4>1
    <3>3. CASE m # n + 1
      <4>1. m \in lo..n /\ g[m] = f[m]
        BY <3>3
      <4> QED BY <4>1, <3>1, <2>1, <2>6
    <3> QED BY <3>2, <3>3
  <2>7. Fits(g, n + 1)
    BY <2>5, <2>6
  <2> QED BY <2>2, <2>4, <2>7
<1> HIDE DEF T
<1>3. \A n \in lo..N : n \in T
  BY <1>1, <1>2, Climb
<1>4. N \in lo..N
  OBVIOUS
<1> QED BY <1>3, <1>4 DEF T, Recurs


\* Where the elements of the sequences of ss went in s.
Spread(s, ss, n, h, g) ==
  /\ \A k \in DOMAIN s : h[k] \in 1..n /\ g[k] \in DOMAIN ss[h[k]] /\ s[k] = ss[h[k]][g[k]]
  /\ \A k, l \in DOMAIN s : h[k] = h[l] /\ g[k] = g[l] => k = l

LEMMA SpreadStep ==
  ASSUME NEW S, NEW ss \in Seq(Seq(S)), NEW n \in Nat, n + 1 \in DOMAIN ss, NEW s \in Seq(S),
         NEW h, NEW g, Spread(s, ss, n, h, g)
  PROVE  \E h1, g1 : Spread(s \o ss[n + 1], ss, n + 1, h1, g1)
<1> DEFINE t == ss[n + 1]
           h1 == [k \in DOMAIN (s \o t) |-> IF k \in DOMAIN s THEN h[k] ELSE n + 1]
           g1 == [k \in DOMAIN (s \o t) |-> IF k \in DOMAIN s THEN g[k] ELSE k - Len(s)]
<1>1. t \in Seq(S)
  BY ElementOfSeq
<1>2. /\ s \o t \in Seq(S) /\ DOMAIN s = 1..Len(s) /\ DOMAIN t = 1..Len(t)
      /\ DOMAIN (s \o t) = 1..(Len(s) + Len(t)) /\ Len(s) \in Nat /\ Len(t) \in Nat
      /\ \A k \in 1..(Len(s) + Len(t)) : (s \o t)[k] = IF k <= Len(s) THEN s[k] ELSE t[k - Len(s)]
  BY <1>1, ConcatProperties, LenProperties
<1> HIDE DEF t
<1>3. ASSUME NEW k \in DOMAIN (s \o t)
      PROVE  h1[k] \in 1..(n + 1) /\ g1[k] \in DOMAIN ss[h1[k]] /\ (s \o t)[k] = ss[h1[k]][g1[k]]
  <2>1. CASE k \in DOMAIN s
    <3>1. h1[k] = h[k] /\ g1[k] = g[k] /\ (s \o t)[k] = s[k]
      BY <2>1, <1>2
    <3>2. h[k] \in 1..n /\ g[k] \in DOMAIN ss[h[k]] /\ s[k] = ss[h[k]][g[k]]
      BY <2>1 DEF Spread
    <3> QED BY <3>1, <3>2
  <2>2. CASE k \notin DOMAIN s
    <3>1. h1[k] = n + 1 /\ g1[k] = k - Len(s) /\ k - Len(s) \in DOMAIN t /\ (s \o t)[k] = t[k - Len(s)]
      BY <2>2, <1>2
    <3> QED BY <3>1 DEF t
  <2> QED BY <2>1, <2>2
<1>4. ASSUME NEW k \in DOMAIN (s \o t), NEW l \in DOMAIN (s \o t), h1[k] = h1[l], g1[k] = g1[l]
      PROVE  k = l
  <2>1. CASE k \in DOMAIN s /\ l \in DOMAIN s
    BY <2>1, <1>4 DEF Spread
  <2>2. CASE k \in DOMAIN s /\ l \notin DOMAIN s
    <3>1. h1[l] = n + 1 /\ h1[k] = h[k] /\ h[k] \in 1..n
      BY <2>2 DEF Spread
    <3> QED BY <3>1, <1>4
  <2>3. CASE k \notin DOMAIN s /\ l \in DOMAIN s
    <3>1. h1[k] = n + 1 /\ h1[l] = h[l] /\ h[l] \in 1..n
      BY <2>3 DEF Spread
    <3> QED BY <3>1, <1>4
  <2>4. CASE k \notin DOMAIN s /\ l \notin DOMAIN s
    <3>1. k - Len(s) = l - Len(s)
      BY <2>4, <1>4
    <3> QED BY <3>1, <1>2
  <2> QED BY <2>1, <2>2, <2>3, <2>4
<1> HIDE DEF h1, g1
<1>5. Spread(s \o t, ss, n + 1, h1, g1)
  BY <1>3, <1>4 DEF Spread
<1> QED BY <1>5 DEF t

\* Laying sequences end to end keeps every element, each at a place of its own.
LEMMA FlattenSpreads ==
  ASSUME NEW S, NEW ss \in Seq(Seq(S))
  PROVE  /\ FlattenSeq(ss) \in Seq(S)
         /\ \E h, g : Spread(FlattenSeq(ss), ss, Len(ss), h, g)
<1>1. CASE Len(ss) = 0
  <2>1. ss = <<>>
    BY <1>1, EmptySeq, LenProperties
  <2>2. FlattenSeq(ss) = <<>>
    BY <1>1, <2>1 DEF FlattenSeq
  <2>3. \A h, g : Spread(<<>>, ss, Len(ss), h, g)
    BY DEF Spread
  <2>4. <<>> \in Seq(S)
    OBVIOUS
  <2> HIDE DEF Spread
  <2> QED BY <2>2, <2>3, <2>4
<1>2. CASE Len(ss) # 0
  <2> DEFINE N == Len(ss)
             G == [x \in (1..N) \X Seq(S) |-> x[2] \o ss[x[1]]]
             Body(f) == [i \in 1..N |-> IF i = 1 THEN ss[i] ELSE f[i - 1] \o ss[i]]
             flat == CHOOSE f : f = Body(f)
  <2>1. N \in Nat /\ 1 <= N /\ DOMAIN ss = 1..N /\ \A i \in 1..N : ss[i] \in Seq(S)
    BY <1>2, LenProperties, ElementOfSeq
  <2>2. \E f : f = Body(f)
    <3>1. G \in [(1..N) \X Seq(S) -> Seq(S)]
      BY <2>1, ConcatProperties
    <3>2. PICK f : Recurs(f, 1, N, ss[1], Seq(S), G)
      <4>1. ss[1] \in Seq(S) /\ 1 \in Nat
        BY <2>1
      <4> HIDE DEF G, N
      <4> QED BY <2>1, <3>1, <4>1, RecursionExists
    <3>3. ASSUME NEW i \in 1..N, i # 1 PROVE f[i] = f[i - 1] \o ss[i]
      <4> HIDE DEF N
      <4>1. i - 1 \in 1..N
        BY <3>3, <2>1
      <4>2. f[i - 1] \in Seq(S) /\ f[i] = G[<<i, f[i - 1]>>]
        <5> HIDE DEF G
        <5> QED BY <3>2, <3>3, <4>1 DEF Recurs
      <4>3. <<i, f[i - 1]>> \in (1..N) \X Seq(S)
        BY <4>2
      <4> QED BY <4>2, <4>3
    <3>4. f = Body(f)
      BY <3>2, <3>3 DEF Recurs
    <3> QED BY <3>4
  <2>3. flat = Body(flat)
    <3> HIDE DEF Body
    <3> QED BY <2>2
  <2>4. flat[1] = ss[1] /\ \A i \in 1..N : i # 1 => flat[i] = flat[i - 1] \o ss[i]
    <3> HIDE DEF flat, N
    <3>1. ASSUME NEW i \in 1..N PROVE flat[i] = IF i = 1 THEN ss[i] ELSE flat[i - 1] \o ss[i]
      BY <2>3
    <3>2. 1 \in 1..N
      BY <2>1
    <3> QED BY <3>1, <3>2
  <2> DEFINE T == {n \in 1..N : flat[n] \in Seq(S) /\ \E h, g : Spread(flat[n], ss, n, h, g)}
  <2> HIDE DEF flat
  <2>5. 1 \in T
    <3>1. flat[1] \in Seq(S) /\ 1 \in 1..N
      BY <2>1, <2>4
    <3>2. Spread(ss[1], ss, 1, [k \in DOMAIN ss[1] |-> 1], [k \in DOMAIN ss[1] |-> k])
      BY <2>1 DEF Spread
    <3> QED BY <3>1, <3>2, <2>4
  <2>6. ASSUME NEW n \in 1..N, n \in T, n + 1 <= N PROVE n + 1 \in T
    <3>1. n + 1 \in 1..N /\ n + 1 # 1 /\ n + 1 - 1 = n /\ n \in Nat /\ n + 1 \in DOMAIN ss
      BY <2>6, <2>1
    <3>2. flat[n + 1] = flat[n] \o ss[n + 1]
      <4> HIDE DEF N
      <4> DEFINE m == n + 1
      <4>1. m \in 1..N /\ m # 1 /\ m - 1 = n
        BY <3>1
      <4> HIDE DEF m
      <4>2. flat[m] = flat[m - 1] \o ss[m]
        BY <4>1, <2>4
      <4> QED BY <4>1, <4>2 DEF m
    <3>3. PICK h, g : Spread(flat[n], ss, n, h, g)
      BY <2>6
    <3>4. flat[n] \in Seq(S) /\ ss[n + 1] \in Seq(S)
      BY <2>6, <2>1, <3>1
    <3>5. flat[n + 1] \in Seq(S)
      BY <3>2, <3>4, ConcatProperties
    <3>6. \E h1, g1 : Spread(flat[n] \o ss[n + 1], ss, n + 1, h1, g1)
      BY <3>1, <3>3, <3>4, SpreadStep
    <3> QED BY <3>1, <3>2, <3>5, <3>6
  <2> HIDE DEF T, N
  <2>7. \A n \in 1..N : n \in T
    BY <2>1, <2>5, <2>6, Climb
  <2>8. N \in T
    BY <2>1, <2>7
  <2>9. FlattenSeq(ss) = flat[N]
    BY <1>2 DEF FlattenSeq, flat, N
  <2> QED BY <2>8, <2>9 DEF T, N
<1> QED BY <1>1, <1>2

\* A finite set is listed without repetition.
LEMMA SetIsListed ==
  ASSUME NEW S, IsFiniteSet(S)
  PROVE  SetToSeq(S) \in Seq(S) /\ IsInjective(SetToSeq(S))
<1>1. Cardinality(S) \in Nat /\ ExistsBijection(1..Cardinality(S), S)
  BY FS_CardinalityType
<1>2. \E f \in [1..Cardinality(S) -> S] : IsInjective(f)
  BY <1>1 DEF ExistsBijection, Bijection, Injection
<1>3. SetToSeq(S) \in [1..Cardinality(S) -> S] /\ IsInjective(SetToSeq(S))
  BY <1>2 DEF SetToSeq
<1> QED BY <1>1, <1>3

\* What a function makes of a finite set is finite.
LEMMA ImageFinite ==
  ASSUME NEW S, IsFiniteSet(S), NEW f, DOMAIN f = S
  PROVE  IsFiniteSet({f[x] : x \in S})
<1> DEFINE T == {f[x] : x \in S}
           g == [x \in S |-> f[x]]
<1>1. g \in [S -> T] /\ \A t \in T : \E x \in S : g[x] = t
  OBVIOUS
<1>2. g \in Surjection(S, T)
  BY <1>1 DEF Surjection
<1> HIDE DEF g
<1> QED BY <1>2, FS_Surjection

LEMMA PagesFinite == IsFiniteSet(Pages) /\ Cardinality(Pages) \in Nat
BY OthersAssumption, FS_AddElement, FS_CardinalityType, FS_Singleton, FS_Union DEF Pages

-----------------------------------------------------------------------------
(***************************************************************************)
(* The shapes.                                                             *)
(***************************************************************************)
Paths == Seq(Titles)
Parents == Pages \cup {Nothing}

Observations == [parent : Parents, title : Titles, body : Bodies, kids : SUBSET Pages]
Notes == [page : Parents, parent : Parents, link : Paths \cup {Nothing}, body : Bodies, kids : SUBSET Pages]
Artifacts == [local : Bodies, remote : Bodies]
Records == [parent : Parents, title : Titles, path : Paths, body : Bodies, kids : SUBSET Pages,
            status : Statuses]
Ops == [kind : Kinds, page : Parents, src : Paths, path : Paths, old : Notes \cup {Nothing},
        note : Notes \cup Artifacts, parent : Parents, title : Titles, body : Bodies,
        kids : SUBSET Pages]
Outcomes == [kind : Kinds, page : Pages, src : Paths, path : Paths, seen : Observations]

\* What a traversal saw: every page but the root is below one of the others.
IsSeen(seen) ==
  /\ DOMAIN seen \subseteq Pages /\ seen \in [DOMAIN seen -> Observations]
  /\ Root \in DOMAIN seen
  /\ \A p \in DOMAIN seen \ {Root} : seen[p].parent \in DOMAIN seen

IsFolder(tree) ==
  IsFiniteSet(DOMAIN tree) /\ DOMAIN tree \subseteq Paths /\ tree \in [DOMAIN tree -> Notes]

IsState(tree) == tree # Nothing => DOMAIN tree \subseteq Pages /\ tree \in [DOMAIN tree -> Records]

\* What the planner knows once it has refused what it refuses.
IsKnown(c) ==
  /\ c = [seen |-> c.seen, local |-> c.local, base |-> c.base, opaque |-> c.opaque, to |-> c.to]
  /\ IsSeen(c.seen) /\ IsFolder(c.local) /\ IsState(c.base)
  /\ c.to \in [DOMAIN c.seen -> Paths]
  /\ Priors(c.base) \subseteq DOMAIN c.seen \cap LocalPages(c.local)

-----------------------------------------------------------------------------
(***************************************************************************)
(* Places.                                                                 *)
(***************************************************************************)
LEMMA Constants ==
  /\ Root \in Pages /\ Others \subseteq Pages /\ Nothing \notin Pages
  /\ Root # Nothing /\ RootName \in Titles /\ Names \subseteq Titles
  /\ MaxEdits \in Nat /\ Mine = MaxEdits + 2 /\ Bodies = 0 .. Mine /\ 0 \in Bodies /\ 1 \in Bodies
BY RootAssumption, BoundsAssumption DEF Pages, Titles, Mine, Bodies

LEMMA ProjectedTyped ==
  ASSUME NEW seen, IsSeen(seen)
  PROVE  Projected(seen) \in [DOMAIN seen -> Paths]
<1> DEFINE N == Cardinality(Pages)
           D == DOMAIN seen
           S == [D -> Paths]
           b == [p \in D |-> <<>>]
           Down(above) == [p \in D |-> IF p = Root THEN <<>> ELSE Append(above[seen[p].parent], seen[p].title)]
           G == [x \in (0..N) \X S |-> Down(x[2])]
           Body(f) == [n \in 0..N |-> IF n = 0 THEN b ELSE Down(f[n - 1])]
           path == CHOOSE f : f = Body(f)
<1>1. N \in Nat /\ 0 \in Nat /\ 0 <= N /\ 0 \in 0..N /\ N \in 0..N
  BY PagesFinite
<1>2. \A above \in S : Down(above) \in S
  BY DEF IsSeen, Observations, Paths
<1>3. b \in S
  BY DEF Paths
<1>4. G \in [(0..N) \X S -> S]
  BY <1>2
<1>5. PICK f : Recurs(f, 0, N, b, S, G)
  <2> HIDE DEF N, S, b, G
  <2> QED BY <1>1, <1>3, <1>4, RecursionExists
<1>6. f = Body(f)
  <2> HIDE DEF N, b, S
  <2>1. ASSUME NEW n \in 0..N, n # 0 PROVE f[n] = Down(f[n - 1])
    <3>1. n - 1 \in 0..N
      BY <2>1, <1>1
    <3>2. f[n - 1] \in S /\ f[n] = G[<<n, f[n - 1]>>]
      <4> HIDE DEF G, Down
      <4> QED BY <3>1, <2>1, <1>5 DEF Recurs
    <3>3. <<n, f[n - 1]>> \in (0..N) \X S
      BY <3>2
    <3> QED BY <3>2, <3>3
  <2> HIDE DEF Down
  <2> QED BY <2>1, <1>5 DEF Recurs
<1>7. path = Body(path)
  <2> HIDE DEF Body
  <2> QED BY <1>6
<1> DEFINE T == {n \in 0..N : path[n] \in S}
<1> HIDE DEF path, N, b, S, Down
<1>8. 0 \in T
  BY <1>7, <1>3, <1>1
<1>9. ASSUME NEW n \in 0..N, n \in T, n + 1 <= N PROVE n + 1 \in T
  <2> DEFINE m == n + 1
  <2>1. m \in 0..N /\ m # 0 /\ m - 1 = n
    BY <1>9, <1>1
  <2> HIDE DEF m
  <2>2. path[m] = Down(path[n])
    BY <1>7, <2>1
  <2>3. path[n] \in S
    BY <1>9
  <2>4. path[m] \in S
    BY <2>2, <2>3, <1>2
  <2> QED BY <2>1, <2>4 DEF m
<1> HIDE DEF T
<1>10. \A n \in 0..N : n \in T
  BY <1>1, <1>8, <1>9, Climb
<1>11. path[N] \in S
  BY <1>10, <1>1 DEF T
<1>12. Projected(seen) = path[N]
  BY DEF Projected, path, N, b, Down
<1> QED BY <1>11, <1>12 DEF S

LEMMA MovedTyped ==
  ASSUME NEW f \in Paths, NEW from \in Paths, NEW to \in Paths
  PROVE  Moved(f, from, to) \in Paths
<1>1. CASE Within(f, from)
  <2>1. Len(from) <= Len(f) /\ Len(from) \in Nat /\ Len(f) \in Nat
    BY <1>1 DEF Within, IsPrefix, Paths
  <2>2. SubSeq(f, Len(from) + 1, Len(f)) \in Paths
    BY <2>1, SubSeqProperties DEF Paths
  <2> QED BY <1>1, <2>2, ConcatProperties DEF Moved, Paths
<1> QED BY <1>1 DEF Moved

\* A folder moved with its note keeps its notes, and each has its own.
LEMMA MoveTreeTyped ==
  ASSUME NEW tree, IsFolder(tree), NEW from \in Paths, NEW to \in Paths
  PROVE  /\ IsFolder(MoveTree(tree, from, to))
         /\ \A f \in DOMAIN MoveTree(tree, from, to) :
              \E g \in DOMAIN tree : Moved(g, from, to) = f /\ MoveTree(tree, from, to)[f] = tree[g]
<1> DEFINE moved == MoveTree(tree, from, to)
           origin(f) == CHOOSE g \in DOMAIN tree : Moved(g, from, to) = f
<1>1. /\ DOMAIN moved = {Moved(g, from, to) : g \in DOMAIN tree}
      /\ moved = [f \in DOMAIN moved |-> tree[origin(f)]]
  BY DEF MoveTree
<1>2. \A f \in DOMAIN moved : origin(f) \in DOMAIN tree /\ Moved(origin(f), from, to) = f
  BY <1>1
<1>3. DOMAIN moved \subseteq Paths
  BY <1>1, MovedTyped DEF IsFolder
<1> HIDE DEF moved, origin
<1>4. moved \in [DOMAIN moved -> Notes]
  <2>1. \A f \in DOMAIN moved : tree[origin(f)] \in Notes
    BY <1>2 DEF IsFolder
  <2> QED BY <1>1, <2>1
<1>5. \A f \in DOMAIN moved : Moved(origin(f), from, to) = f /\ moved[f] = tree[origin(f)]
  BY <1>1, <1>2
<1>6. IsFiniteSet(DOMAIN moved)
  <2>1. IsFiniteSet({Moved(g, from, to) : g \in DOMAIN tree})
    <3> DEFINE f == [g \in DOMAIN tree |-> Moved(g, from, to)]
    <3>1. IsFiniteSet({f[g] : g \in DOMAIN tree})
      BY ImageFinite DEF IsFolder
    <3>2. {f[g] : g \in DOMAIN tree} = {Moved(g, from, to) : g \in DOMAIN tree}
      OBVIOUS
    <3> QED BY <3>1, <3>2
  <2> QED BY <1>1, <2>1
<1> QED BY <1>2, <1>3, <1>4, <1>5, <1>6 DEF IsFolder, moved

LEMMA FileTyped ==
  ASSUME NEW tree, IsFolder(tree), NEW p \in LocalPages(tree)
  PROVE  /\ PathOf(tree, p) \in Owned(tree) /\ PathOf(tree, p) \in Paths /\ PathOf(tree, p) \in DOMAIN tree
         /\ tree[PathOf(tree, p)] \in Notes /\ tree[PathOf(tree, p)].page = p
         /\ p \in Pages /\ TitleOf(PathOf(tree, p)) \in Titles
<1>1. PathOf(tree, p) \in Owned(tree) /\ tree[PathOf(tree, p)].page = p
  BY DEF LocalPages, PathOf
<1>2. PathOf(tree, p) \in DOMAIN tree /\ tree[PathOf(tree, p)].page # Nothing
  BY <1>1 DEF Owned
<1>3. PathOf(tree, p) \in Paths /\ tree[PathOf(tree, p)] \in Notes
  BY <1>2 DEF IsFolder
<1>4. p \in Pages
  BY <1>1, <1>2, <1>3 DEF Notes, Parents
<1>5. TitleOf(PathOf(tree, p)) \in Titles
  <2>1. ASSUME NEW f \in Seq(Titles), f # <<>> PROVE f[Len(f)] \in Titles
    BY <2>1, LenProperties, EmptySeq, ElementOfSeq
  <2> QED BY <1>3, <2>1, Constants DEF TitleOf, Last, Paths
<1> QED BY <1>1, <1>2, <1>3, <1>4, <1>5

-----------------------------------------------------------------------------
(***************************************************************************)
(* What the planner plans.                                                 *)
(***************************************************************************)
\* The page has a record, and not one of a conflict.
Settled(b, p) == p \in Priors(b) /\ b[p].status # "conflict"

\* What every effect of a plan over the state b is known to be.
OpFacts(o, b, opq) ==
  /\ o.kind \notin {"rebind", "mark"}
  /\ o.kind = "create-remote" =>
       /\ o.page = Nothing /\ o.parent \in Pages /\ o.src = o.path
       /\ o.old \in Notes /\ o.old.page = Nothing /\ o.old.body = o.body
       /\ o.parent \in Priors(b) => b[o.parent].status # "conflict"
  /\ o.kind # "create-remote" => o.page \in Pages
  /\ o.kind \in {"create-local", "write"} => o.note \in Notes /\ o.note.page = o.page
  /\ o.kind = "write" =>
       /\ o.src = o.path /\ o.old \in Notes /\ o.old.page = o.page
       /\ o.old.body \in {b[o.page].body, o.note.body}
  /\ o.kind \in {"body", "title", "parent", "write", "move-local"} => Settled(b, o.page)
  /\ o.kind = "body" => ~(o.page = Root /\ opq)

PlannedOps(c) == {o \in Ops : /\ OpFacts(o, c.base, c.opaque)
                              /\ Subject(o) \in DOMAIN c.seen
                              /\ o.kind = "body" => c.seen[o.page].body = c.base[o.page].body}
OpsFor(c, p) == {o \in PlannedOps(c) : o.page = p /\ o.kind # "create-remote"}

\* A body is written once for each page.
OneBody(s) == \A k, l \in DOMAIN s : s[k].kind = "body" /\ s[l].kind = "body" /\ s[k].page = s[l].page => k = l

LEMMA KnownFile ==
  ASSUME NEW c, IsKnown(c), NEW p \in Pages, Has(c, p)
  PROVE  /\ File(c, p) \in Paths /\ Note(c, p) \in Notes /\ Note(c, p).page = p
         /\ TitleOf(File(c, p)) \in Titles
BY FileTyped DEF IsKnown, Has, File, Note

LEMMA RenderedTyped ==
  ASSUME NEW c, IsKnown(c), NEW p \in DOMAIN c.seen
  PROVE  Rendered(c, p) \in Notes /\ Rendered(c, p).page = p
<1>1. c.seen[p] \in Observations /\ p \in Pages
  BY DEF IsKnown, IsSeen
<1>2. (IF p = Root THEN Nothing ELSE c.to[c.seen[p].parent]) \in Paths \cup {Nothing}
  BY DEF IsKnown, IsSeen
<1>3. (IF IsOpaque(c, p) /\ Has(c, p) THEN Note(c, p).body ELSE c.seen[p].body) \in Bodies
  BY <1>1, KnownFile DEF Notes, Observations
<1> QED BY <1>1, <1>2, <1>3 DEF Rendered, Notes, Observations, Parents

LEMMA OpTyped ==
  ASSUME NEW c, IsKnown(c), NEW p \in DOMAIN c.seen, NEW kind \in Kinds, NEW src \in Paths,
         NEW path \in Paths, NEW old \in Notes \cup {Nothing}, NEW note \in Notes \cup Artifacts
  PROVE  /\ Op(c, kind, p, src, path, old, note) \in Ops
         /\ Op(c, kind, p, src, path, old, note).kind = kind
         /\ Op(c, kind, p, src, path, old, note).page = p
         /\ Op(c, kind, p, src, path, old, note).src = src
         /\ Op(c, kind, p, src, path, old, note).path = path
         /\ Op(c, kind, p, src, path, old, note).old = old
         /\ Op(c, kind, p, src, path, old, note).note = note
<1>1. c.seen[p] \in Observations /\ p \in Pages
  BY DEF IsKnown, IsSeen
<1> QED BY <1>1 DEF Op, Ops, Observations, Parents

LEMMA PushedTyped ==
  ASSUME NEW c, IsKnown(c), NEW p \in DOMAIN c.seen, Has(c, p), NEW kind \in Kinds, NEW parent \in Parents
  PROVE  /\ Pushed(c, p, kind, parent) \in Ops
         /\ Pushed(c, p, kind, parent).kind = kind /\ Pushed(c, p, kind, parent).page = p
<1>1. p \in Pages
  BY DEF IsKnown, IsSeen
<1>2. /\ File(c, p) \in Paths /\ Note(c, p) \in Notes /\ TitleOf(File(c, p)) \in Titles
      /\ Note(c, p).body \in Bodies
  BY <1>1, KnownFile DEF Notes
<1> DEFINE o == Op(c, kind, p, File(c, p), File(c, p), Note(c, p), Note(c, p))
<1>3. o \in Ops /\ o.kind = kind /\ o.page = p
  BY <1>2, OpTyped
<1> HIDE DEF o
<1>4. [o EXCEPT !.body = Note(c, p).body, !.title = TitleOf(File(c, p)), !.parent = parent] \in Ops
  BY <1>2, <1>3 DEF Ops
<1>5. LET x == [o EXCEPT !.body = Note(c, p).body, !.title = TitleOf(File(c, p)), !.parent = parent]
      IN  x.kind = kind /\ x.page = p
  BY <1>3 DEF Ops
<1> QED BY <1>4, <1>5 DEF Pushed, o

\* What each verdict means for the page.
LEMMA VerdictFacts ==
  ASSUME NEW c, IsKnown(c), NEW p \in DOMAIN c.seen
  PROVE  /\ Verdict(c, p) = "create" => p \notin Priors(c.base)
         /\ p \in Priors(c.base) => Has(c, p)
         /\ Verdict(c, p) \in {"clash", "held", "push", "pull"} => Settled(c.base, p)
         /\ Verdict(c, p) = "conflict" => p \in Priors(c.base)
         /\ p \in Priors(c.base) /\ c.base[p].status = "conflict" => Verdict(c, p) = "conflict"
         /\ Verdict(c, p) = "push" => LocalChanged(c, p) /\ ~RemoteChanged(c, p)
         /\ Verdict(c, p) = "pull" => ~LocalChanged(c, p)
<1>1. p \in Priors(c.base) => Has(c, p)
  BY DEF IsKnown, Has
<1> QED BY <1>1 DEF Verdict, Settled

LEMMA OptionalTyped ==
  ASSUME NEW S, NEW test \in BOOLEAN, NEW o, test => o \in S
  PROVE  Optional(test, o) \in Seq(S) /\ Len(Optional(test, o)) <= 1
BY DEF Optional

\* One sequence after another that writes no body.
LEMMA OneBodyFirst ==
  ASSUME NEW S, NEW s \in Seq(S), Len(s) <= 1, NEW t \in Seq({o \in S : o.kind # "body"})
  PROVE  s \o t \in Seq(S) /\ OneBody(s \o t)
<1>1. t \in Seq(S) /\ \A k \in 1..Len(t) : t[k].kind # "body"
  <2>1. \A k \in 1..Len(t) : t[k] \in {o \in S : o.kind # "body"}
    BY ElementOfSeq
  <2> QED BY <2>1, SeqMonotonic
<1>2. /\ s \o t \in Seq(S) /\ DOMAIN (s \o t) = 1..(Len(s) + Len(t)) /\ Len(s) \in Nat /\ Len(t) \in Nat
      /\ \A k \in 1..(Len(s) + Len(t)) : (s \o t)[k] = IF k <= Len(s) THEN s[k] ELSE t[k - Len(s)]
  BY <1>1, ConcatProperties, LenProperties
<1>3. ASSUME NEW k \in DOMAIN (s \o t), (s \o t)[k].kind = "body" PROVE k = 1
  <2>1. ASSUME ~(k <= Len(s)) PROVE FALSE
    <3>1. (s \o t)[k] = t[k - Len(s)] /\ k - Len(s) \in 1..Len(t)
      BY <2>1, <1>2
    <3> QED BY <3>1, <1>1, <1>3
  <2> QED BY <2>1, <1>2
<1> QED BY <1>2, <1>3 DEF OneBody

\* The effects of one page are typed and keep to what its verdict allows.
LEMMA EffectsTyped ==
  ASSUME NEW c, IsKnown(c), NEW p \in DOMAIN c.seen
  PROVE  EffectsOf(c, p) \in Seq(OpsFor(c, p)) /\ OneBody(EffectsOf(c, p))
<1> DEFINE S == OpsFor(c, p)
           Quiet == {o \in S : o.kind # "body"}
<1>1. p \in Pages /\ c.seen[p] \in Observations /\ c.to[p] \in Paths
  BY DEF IsKnown, IsSeen
<1>2. {"create-local", "conflict", "body", "title", "parent", "move-local", "write"} \subseteq Kinds
  BY DEF Kinds, RemoteKinds
<1>k. Rendered(c, p) \in Notes /\ Rendered(c, p).page = p
  BY RenderedTyped
<1>n. p # Nothing
  BY <1>1, Constants
<1>3. CASE Verdict(c, p) = "create"
  <2> DEFINE o == Op(c, "create-local", p, c.to[p], c.to[p], Nothing, Rendered(c, p))
  <2>1. /\ o \in Ops /\ o.kind = "create-local" /\ o.page = p /\ o.note = Rendered(c, p)
    <3>1. "create-local" \in Kinds /\ Rendered(c, p) \in Notes \cup Artifacts
      BY <1>2, <1>k
    <3> QED BY <1>1, <3>1, <1>k DEF Op, Ops, Observations, Parents
  <2> HIDE DEF o
  <2>2. o \in S
    BY <2>1, <1>1, <1>k, <1>n DEF OpsFor, PlannedOps, OpFacts, Subject
  <2>3. EffectsOf(c, p) = <<o>>
    BY <1>3 DEF EffectsOf, o
  <2>4. OneBody(<<o>>)
    BY DEF OneBody
  <2> HIDE DEF S
  <2>5. <<o>> \in Seq(S)
    BY <2>2
  <2> QED BY <2>3, <2>4, <2>5 DEF S
<1>4. CASE Verdict(c, p) = "clash"
  <2> DEFINE o == Op(c, "conflict", p, File(c, p), File(c, p), Nothing, Artifact(c, p))
  <2>0. Has(c, p)
    BY <1>4, VerdictFacts DEF Settled
  <2>1. Artifact(c, p) \in Artifacts /\ File(c, p) \in Paths
    BY <1>1, <2>0, KnownFile DEF Artifact, Artifacts, Observations, Notes
  <2>2. o \in Ops /\ o.kind = "conflict" /\ o.page = p
    <3>1. "conflict" \in Kinds /\ Artifact(c, p) \in Notes \cup Artifacts
      BY <1>2, <2>1
    <3> QED BY <1>1, <2>1, <3>1 DEF Op, Ops, Observations, Parents
  <2> HIDE DEF o
  <2>3. o \in S
    BY <2>2, <1>1, <1>n DEF OpsFor, PlannedOps, OpFacts, Subject
  <2>4. EffectsOf(c, p) = <<o>>
    BY <1>4 DEF EffectsOf, o
  <2>5. OneBody(<<o>>)
    BY DEF OneBody
  <2> HIDE DEF S
  <2>6. <<o>> \in Seq(S)
    BY <2>3
  <2> QED BY <2>4, <2>5, <2>6 DEF S
<1>5. CASE Verdict(c, p) = "push"
  <2> DEFINE b == Pushed(c, p, "body", c.seen[p].parent)
             t == Pushed(c, p, "title", c.seen[p].parent)
             m == Pushed(c, p, "parent", Note(c, p).parent)
             sb == Optional(Note(c, p).body # c.base[p].body, b)
             st == Optional(TitleOf(File(c, p)) # c.base[p].title, t)
             sm == Optional(Note(c, p).parent # c.base[p].parent, m)
  <2>1. Settled(c.base, p) /\ Has(c, p) /\ LocalChanged(c, p) /\ ~RemoteChanged(c, p)
    BY <1>5, VerdictFacts DEF Settled
  <2>2. c.seen[p].parent \in Parents /\ Note(c, p).parent \in Parents
    BY <1>1, <2>1, KnownFile DEF Observations, Notes
  <2>3. /\ b \in Ops /\ b.kind = "body" /\ b.page = p
        /\ t \in Ops /\ t.kind = "title" /\ t.page = p
        /\ m \in Ops /\ m.kind = "parent" /\ m.page = p
    BY <1>2, <2>1, <2>2, PushedTyped
  <2> HIDE DEF b, t, m
  <2>4. ~(p = Root /\ c.opaque) /\ c.seen[p].body = c.base[p].body
    BY <2>1 DEF LocalChanged, RemoteChanged, IsOpaque
  <2>5. b \in S /\ t \in Quiet /\ m \in Quiet
    BY <2>1, <2>3, <2>4, <1>1, <1>n DEF OpsFor, PlannedOps, OpFacts, Subject
  <2> HIDE DEF S, Quiet
  <2>6. sb \in Seq(S) /\ Len(sb) <= 1 /\ st \in Seq(Quiet) /\ sm \in Seq(Quiet)
    BY <2>5, OptionalTyped
  <2> HIDE DEF sb, st, sm
  <2>7. st \o sm \in Seq(Quiet)
    BY <2>6, ConcatProperties
  <2>8. EffectsOf(c, p) = sb \o st \o sm
    BY <1>5 DEF EffectsOf, sb, st, sm, b, t, m
  <2>9. S \in {S} /\ Quiet = {o \in S : o.kind # "body"}
    BY DEF Quiet
  <2>10. sb \o (st \o sm) \in Seq(S) /\ OneBody(sb \o (st \o sm))
    BY <2>6, <2>7, <2>9, OneBodyFirst
  <2>11. sb \o st \o sm = sb \o (st \o sm)
    <3>1. st \in Seq(S) /\ sm \in Seq(S)
      BY <2>6, <2>9, SeqMonotonic
    <3> QED BY <3>1, <2>6, ConcatAssociative
  <2> QED BY <2>8, <2>10, <2>11 DEF S
<1>6. CASE Verdict(c, p) = "pull"
  <2> DEFINE m == Op(c, "move-local", p, File(c, p), c.to[p], Note(c, p), Rendered(c, p))
             w == Op(c, "write", p, c.to[p], c.to[p], Note(c, p), Rendered(c, p))
             sm == Optional(File(c, p) # c.to[p] /\ DirectlyMoved(c, p), m)
             sw == Optional(Note(c, p) # Rendered(c, p) \/ File(c, p) # c.to[p], w)
  <2>1. Settled(c.base, p) /\ Has(c, p) /\ ~LocalChanged(c, p)
    BY <1>6, VerdictFacts DEF Settled
  <2>2. File(c, p) \in Paths /\ Note(c, p) \in Notes /\ Note(c, p).page = p
    BY <1>1, <2>1, KnownFile
  <2>3. /\ m \in Ops /\ m.kind = "move-local" /\ m.page = p
        /\ w \in Ops /\ w.kind = "write" /\ w.page = p /\ w.src = c.to[p] /\ w.path = c.to[p]
        /\ w.old = Note(c, p) /\ w.note = Rendered(c, p)
    <3>1. m \in Ops /\ m.kind = "move-local" /\ m.page = p
      BY <1>1, <1>2, <1>k, <2>2, OpTyped
    <3>2. /\ w \in Ops /\ w.kind = "write" /\ w.page = p /\ w.src = c.to[p] /\ w.path = c.to[p]
          /\ w.old = Note(c, p) /\ w.note = Rendered(c, p)
      BY <1>1, <1>2, <1>k, <2>2, OpTyped
    <3> QED BY <3>1, <3>2
  <2> HIDE DEF m, w
  <2>4. Note(c, p).body \in {c.base[p].body, Rendered(c, p).body}
    <3>1. CASE IsOpaque(c, p)
      BY <3>1, <2>1 DEF Rendered
    <3>2. CASE ~IsOpaque(c, p)
      BY <3>2, <2>1 DEF LocalChanged
    <3> QED BY <3>1, <3>2
  <2>5. m \in Quiet /\ w \in Quiet
    BY <2>1, <2>2, <2>3, <2>4, <1>1, <1>k, <1>n DEF OpsFor, PlannedOps, OpFacts, Subject
  <2> HIDE DEF S, Quiet
  <2>6. sm \in Seq(Quiet) /\ Len(sm) <= 1 /\ sw \in Seq(Quiet)
    BY <2>5, OptionalTyped DEF DirectlyMoved
  <2> HIDE DEF sm, sw
  <2>7. EffectsOf(c, p) = sm \o sw
    BY <1>6 DEF EffectsOf, sm, sw, m, w
  <2>8. Quiet = {o \in S : o.kind # "body"} /\ sm \in Seq(S)
    BY <2>6, SeqMonotonic DEF Quiet
  <2> QED BY <2>6, <2>7, <2>8, OneBodyFirst DEF S
<1>7. CASE Verdict(c, p) \notin {"create", "clash", "push", "pull"}
  <2>1. EffectsOf(c, p) = <<>>
    BY <1>7 DEF EffectsOf
  <2> HIDE DEF S
  <2> QED BY <2>1 DEF OneBody
<1> QED BY <1>3, <1>4, <1>5, <1>6, <1>7

\* Climbing from a set of pages keeps it and finds pages only.
LEMMA LineageFacts ==
  ASSUME NEW t, \A q \in DOMAIN t : t[q].parent \in Parents, NEW start \in SUBSET Pages
  PROVE  start \subseteq Lineage(t, start) /\ Lineage(t, start) \subseteq Pages
<1> DEFINE N == Cardinality(Pages)
           S == SUBSET Parents
           Climbed(below) == below \cup {t[q].parent : q \in below \cap DOMAIN t}
           G == [x \in (0..N) \X S |-> Climbed(x[2])]
           Body(f) == [n \in 0..N |-> IF n = 0 THEN start ELSE Climbed(f[n - 1])]
           up == CHOOSE f : f = Body(f)
<1>1. N \in Nat /\ 0 \in Nat /\ 0 <= N /\ 0 \in 0..N /\ N \in 0..N
  BY PagesFinite
<1>2. \A below \in S : Climbed(below) \in S /\ below \subseteq Climbed(below)
  OBVIOUS
<1>3. start \in S
  BY DEF Parents
<1>4. G \in [(0..N) \X S -> S]
  BY <1>2
<1>5. PICK f : Recurs(f, 0, N, start, S, G)
  <2> HIDE DEF N, S, G
  <2> QED BY <1>1, <1>3, <1>4, RecursionExists
<1>6. f = Body(f)
  <2> HIDE DEF N, S
  <2>1. ASSUME NEW n \in 0..N, n # 0 PROVE f[n] = Climbed(f[n - 1])
    <3>1. n - 1 \in 0..N
      BY <2>1, <1>1
    <3>2. f[n - 1] \in S /\ f[n] = G[<<n, f[n - 1]>>]
      <4> HIDE DEF G, Climbed
      <4> QED BY <3>1, <2>1, <1>5 DEF Recurs
    <3>3. <<n, f[n - 1]>> \in (0..N) \X S
      BY <3>2
    <3> QED BY <3>2, <3>3
  <2> HIDE DEF Climbed
  <2> QED BY <2>1, <1>5 DEF Recurs
<1>7. up = Body(up)
  <2> HIDE DEF Body
  <2> QED BY <1>6
<1> DEFINE T == {n \in 0..N : up[n] \in S /\ start \subseteq up[n]}
<1> HIDE DEF up, N, S, Climbed
<1>8. 0 \in T
  BY <1>7, <1>3, <1>1
<1>9. ASSUME NEW n \in 0..N, n \in T, n + 1 <= N PROVE n + 1 \in T
  <2> DEFINE m == n + 1
  <2>1. m \in 0..N /\ m # 0 /\ m - 1 = n
    BY <1>9, <1>1
  <2> HIDE DEF m
  <2>2. up[m] = Climbed(up[n])
    BY <1>7, <2>1
  <2>3. up[n] \in S /\ start \subseteq up[n]
    BY <1>9
  <2>4. up[m] \in S /\ start \subseteq up[m]
    BY <2>2, <2>3, <1>2
  <2> QED BY <2>1, <2>4 DEF m
<1> HIDE DEF T
<1>10. \A n \in 0..N : n \in T
  BY <1>1, <1>8, <1>9, Climb
<1>11. up[N] \in S /\ start \subseteq up[N]
  BY <1>10, <1>1 DEF T
<1>12. Lineage(t, start) = up[N] \ {Nothing}
  BY DEF Lineage, up, N, Climbed
<1> QED BY <1>11, <1>12, Constants DEF S, Parents

\* A page is among those from which it can be held.
LEMMA AboveItself ==
  ASSUME NEW c, IsKnown(c), NEW p \in Pages
  PROVE  p \in Above(c, p)
<1> DEFINE N == Cardinality(Pages)
           S == SUBSET Pages
           Higher(below) == Lineage(c.seen, below)
                            \cup (IF c.base = Nothing THEN {} ELSE Lineage(c.base, below))
           G == [x \in (0..N) \X S |-> Higher(x[2])]
           Body(f) == [n \in 0..N |-> IF n = 0 THEN {p} ELSE Higher(f[n - 1])]
           up == CHOOSE f : f = Body(f)
<1>1. N \in Nat /\ 0 \in Nat /\ 0 <= N /\ 0 \in 0..N /\ N \in 0..N
  BY PagesFinite
<1>2. \A below \in S : Higher(below) \in S /\ below \subseteq Higher(below)
  <2>1. \A q \in DOMAIN c.seen : c.seen[q].parent \in Parents
    BY DEF IsKnown, IsSeen, Observations
  <2>2. c.base # Nothing => \A q \in DOMAIN c.base : c.base[q].parent \in Parents
    BY DEF IsKnown, IsState, Records
  <2> QED BY <2>1, <2>2, LineageFacts
<1>3. {p} \in S
  OBVIOUS
<1>4. G \in [(0..N) \X S -> S]
  <2> HIDE DEF Higher, N, S
  <2> QED BY <1>2
<1>5. PICK f : Recurs(f, 0, N, {p}, S, G)
  <2> HIDE DEF N, S, G
  <2> QED BY <1>1, <1>3, <1>4, RecursionExists
<1>6. f = Body(f)
  <2> HIDE DEF N, S, Higher
  <2>1. ASSUME NEW n \in 0..N, n # 0 PROVE f[n] = Higher(f[n - 1])
    <3>1. n - 1 \in 0..N
      BY <2>1, <1>1
    <3>2. f[n - 1] \in S /\ f[n] = G[<<n, f[n - 1]>>]
      <4> HIDE DEF G
      <4> QED BY <3>1, <2>1, <1>5 DEF Recurs
    <3>3. <<n, f[n - 1]>> \in (0..N) \X S
      BY <3>2
    <3> QED BY <3>2, <3>3
  <2> QED BY <2>1, <1>5 DEF Recurs
<1>7. up = Body(up)
  <2> HIDE DEF Body
  <2> QED BY <1>6
<1> DEFINE T == {n \in 0..N : up[n] \in S /\ p \in up[n]}
<1> HIDE DEF up, N, S, Higher
<1>8. 0 \in T
  BY <1>7, <1>3, <1>1
<1>9. ASSUME NEW n \in 0..N, n \in T, n + 1 <= N PROVE n + 1 \in T
  <2> DEFINE m == n + 1
  <2>1. m \in 0..N /\ m # 0 /\ m - 1 = n
    BY <1>9, <1>1
  <2> HIDE DEF m
  <2>2. up[m] = Higher(up[n])
    BY <1>7, <2>1
  <2>3. up[n] \in S /\ p \in up[n]
    BY <1>9
  <2>4. up[m] \in S /\ p \in up[m]
    BY <2>2, <2>3, <1>2
  <2> QED BY <2>1, <2>4 DEF m
<1> HIDE DEF T
<1>10. \A n \in 0..N : n \in T
  BY <1>1, <1>8, <1>9, Climb
<1>11. p \in up[N]
  BY <1>10, <1>1 DEF T
<1>12. Above(c, p) = up[N]
  BY DEF Above, up, N, Higher
<1> QED BY <1>11, <1>12

\* A page in conflict is held itself.
LEMMA ConflictIsBounded ==
  ASSUME NEW c, IsKnown(c), NEW p \in DOMAIN c.seen, p \in Priors(c.base), c.base[p].status = "conflict"
  PROVE  p \in Bounded(c)
<1>1. p \in Barriers(c)
  BY VerdictFacts DEF Barriers
<1>2. p \in Above(c, p)
  BY AboveItself DEF IsKnown, IsSeen
<1> QED BY <1>1, <1>2 DEF Bounded

LEMMA PageOpsTyped ==
  ASSUME NEW c, IsKnown(c), NEW bounded, NEW p \in DOMAIN c.seen
  PROVE  PageOps(c, bounded, p) \in Seq(OpsFor(c, p)) /\ OneBody(PageOps(c, bounded, p))
<1>1. <<>> \in Seq(OpsFor(c, p)) /\ OneBody(<<>>)
  BY DEF OneBody
<1> QED BY <1>1, EffectsTyped DEF PageOps

\* The pages of a tree level by level, each once.
Levels(seen, to) ==
  [d \in 1 .. Cardinality(DOMAIN seen) |-> SetToSeq({p \in DOMAIN seen : Len(to[p]) = d - 1})]

LEMMA LevelsListed ==
  ASSUME NEW seen, DOMAIN seen \subseteq Pages, NEW to
  PROVE  FlattenSeq(Levels(seen, to)) \in Seq(DOMAIN seen) /\ IsInjective(FlattenSeq(Levels(seen, to)))
<1> DEFINE D == DOMAIN seen
           ss == Levels(seen, to)
           level(d) == {p \in D : Len(to[p]) = d - 1}
           order == FlattenSeq(ss)
<1>1. IsFiniteSet(D) /\ Cardinality(D) \in Nat
  BY PagesFinite, FS_Subset, FS_CardinalityType
<1>2. \A d : SetToSeq(level(d)) \in Seq(level(d)) /\ IsInjective(SetToSeq(level(d)))
  <2> SUFFICES ASSUME NEW d PROVE SetToSeq(level(d)) \in Seq(level(d)) /\ IsInjective(SetToSeq(level(d)))
    OBVIOUS
  <2>1. IsFiniteSet(level(d))
    BY <1>1, FS_Subset
  <2> HIDE DEF level
  <2> QED BY <2>1, SetIsListed
<1>3. \A d \in 1..Cardinality(D) : ss[d] = SetToSeq(level(d))
  BY DEF Levels
<1>4. ss \in Seq(Seq(D)) /\ Len(ss) = Cardinality(D)
  <2>1. \A d : SetToSeq(level(d)) \in Seq(D)
    <3>1. \A d : level(d) \subseteq D
      OBVIOUS
    <3> HIDE DEF level
    <3> QED BY <1>2, <3>1, SeqMonotonic
  <2> HIDE DEF level
  <2>2. ss = [d \in 1..Cardinality(D) |-> SetToSeq(level(d))]
    BY DEF Levels, level
  <2> HIDE DEF ss, D
  <2>3. ss \in [1..Cardinality(D) -> Seq(D)]
    BY <2>1, <2>2
  <2> QED BY <1>1, <2>3
<1> HIDE DEF ss, D
<1>5. order \in Seq(D) /\ \E h, g : Spread(order, ss, Len(ss), h, g)
  BY <1>4, FlattenSpreads
<1>6. PICK h, g : Spread(order, ss, Len(ss), h, g)
  BY <1>5
<1>7. ASSUME NEW k \in DOMAIN order
      PROVE  /\ h[k] \in 1..Cardinality(D) /\ g[k] \in DOMAIN ss[h[k]] /\ order[k] = ss[h[k]][g[k]]
             /\ Len(to[order[k]]) = h[k] - 1
  <2>1. h[k] \in 1..Cardinality(D) /\ g[k] \in DOMAIN ss[h[k]] /\ order[k] = ss[h[k]][g[k]]
    BY <1>4, <1>6 DEF Spread
  <2>2. ss[h[k]] \in Seq(level(h[k]))
    <3> HIDE DEF level
    <3> QED BY <2>1, <1>2, <1>3
  <2>3. order[k] \in level(h[k])
    <3> HIDE DEF level
    <3>1. g[k] \in 1..Len(ss[h[k]])
      BY <2>1, <2>2, LenProperties
    <3> QED BY <2>1, <2>2, <3>1, ElementOfSeq
  <2> QED BY <2>1, <2>3
<1>8. ASSUME NEW k \in DOMAIN order, NEW l \in DOMAIN order, order[k] = order[l]
      PROVE  k = l
  <2>1. h[k] = h[l]
    <3>1. h[k] \in Int /\ h[l] \in Int /\ h[k] - 1 = h[l] - 1
      BY <1>1, <1>7, <1>8
    <3> QED BY <3>1
  <2>2. IsInjective(ss[h[k]])
    <3> HIDE DEF level
    <3> QED BY <1>2, <1>3, <1>7
  <2>3. g[k] = g[l]
    BY <1>7, <1>8, <2>1, <2>2 DEF IsInjective
  <2> QED BY <1>6, <2>1, <2>3 DEF Spread
<1>9. IsInjective(order)
  <2> HIDE DEF order
  <2> QED BY <1>8 DEF IsInjective
<1> QED BY <1>5, <1>9 DEF D, ss

\* The effects of the pages, one page after the other.
PagesOps(c, bounded, order) == FlattenSeq([i \in DOMAIN order |-> PageOps(c, bounded, order[i])])

LEMMA PagesOpsTyped ==
  ASSUME NEW c, IsKnown(c), NEW bounded, NEW order \in Seq(DOMAIN c.seen), IsInjective(order)
  PROVE  /\ PagesOps(c, bounded, order) \in Seq({o \in PlannedOps(c) : o.kind # "create-remote"})
         /\ OneBody(PagesOps(c, bounded, order))
<1> DEFINE D == DOMAIN c.seen
           P == {o \in PlannedOps(c) : o.kind # "create-remote"}
           tt == [i \in DOMAIN order |-> PageOps(c, bounded, order[i])]
           ops == FlattenSeq(tt)
<1>1. DOMAIN order = 1..Len(order) /\ Len(order) \in Nat /\ \A i \in DOMAIN order : order[i] \in D
  BY LenProperties, ElementOfSeq
<1>2. \A i \in DOMAIN order : tt[i] \in Seq(OpsFor(c, order[i])) /\ OneBody(tt[i])
  <2> HIDE DEF D
  <2> QED BY <1>1, PageOpsTyped DEF D
<1>3. tt \in Seq(Seq(P)) /\ Len(tt) = Len(order)
  <2>1. \A i \in DOMAIN order : OpsFor(c, order[i]) \subseteq P
    BY DEF OpsFor
  <2> HIDE DEF P
  <2>2. \A i \in DOMAIN order : tt[i] \in Seq(P)
    BY <1>2, <2>1, SeqMonotonic
  <2> QED BY <1>1, <2>2
<1> HIDE DEF tt, P
<1>4. ops \in Seq(P) /\ \E h, g : Spread(ops, tt, Len(tt), h, g)
  BY <1>3, FlattenSpreads
<1>5. PICK h, g : Spread(ops, tt, Len(tt), h, g)
  BY <1>4
<1>6. ASSUME NEW k \in DOMAIN ops
      PROVE  /\ h[k] \in DOMAIN order /\ g[k] \in DOMAIN tt[h[k]] /\ ops[k] = tt[h[k]][g[k]]
             /\ ops[k].page = order[h[k]]
  <2>1. h[k] \in DOMAIN order /\ g[k] \in DOMAIN tt[h[k]] /\ ops[k] = tt[h[k]][g[k]]
    BY <1>1, <1>3, <1>5 DEF Spread
  <2>2. tt[h[k]] \in Seq(OpsFor(c, order[h[k]]))
    BY <1>2, <2>1
  <2>3. ops[k] \in OpsFor(c, order[h[k]])
    <3>1. g[k] \in 1..Len(tt[h[k]])
      BY <2>1, <2>2, LenProperties
    <3> QED BY <2>1, <2>2, <3>1, ElementOfSeq
  <2> QED BY <2>1, <2>3 DEF OpsFor
<1>7. ASSUME NEW k \in DOMAIN ops, NEW l \in DOMAIN ops,
             ops[k].kind = "body", ops[l].kind = "body", ops[k].page = ops[l].page
      PROVE  k = l
  <2>1. h[k] = h[l]
    BY <1>6, <1>7 DEF IsInjective
  <2>2. OneBody(tt[h[k]])
    BY <1>2, <1>6
  <2>3. g[k] = g[l]
    BY <1>6, <1>7, <2>1, <2>2 DEF OneBody
  <2> QED BY <1>5, <2>1, <2>3 DEF Spread
<1>8. OneBody(ops)
  <2> HIDE DEF ops
  <2> QED BY <1>7 DEF OneBody
<1> QED BY <1>4, <1>8 DEF PagesOps, tt, P

\* The creations of a plan.
LEMMA CandidateOpsTyped ==
  ASSUME NEW c, IsKnown(c), NEW ops
  PROVE  CandidateOps(c, Bounded(c), ops) \in Seq({o \in PlannedOps(c) : o.kind = "create-remote"})
<1> DEFINE parent(f) == c.local[Front(f)].page
           free == {f \in Candidates(c.local) :
                      /\ parent(f) \in DOMAIN c.seen \ Bounded(c)
                      /\ \A o \in ToSet(ops) : o.kind = "move-local" => ~Strictly(f, o.src)}
           create(f) == [Op(c, "create-remote", parent(f), f, f, c.local[f], c.local[f]) EXCEPT
                            !.page = Nothing, !.parent = parent(f), !.title = TitleOf(f),
                            !.body = c.local[f].body, !.kids = {}]
           P == {o \in PlannedOps(c) : o.kind = "create-remote"}
           S == {create(f) : f \in free}
<1>1. ASSUME NEW f \in free PROVE create(f) \in P
  <2>1. /\ f \in Paths /\ f # <<>> /\ c.local[f] \in Notes /\ c.local[f].page = Nothing
        /\ parent(f) \in DOMAIN c.seen /\ parent(f) \in Pages /\ parent(f) \notin Bounded(c)
    BY DEF IsKnown, IsFolder, IsSeen, Candidates
  <2>2. TitleOf(f) \in Titles
    <3>1. f[Len(f)] \in Titles
      BY <2>1, LenProperties, EmptySeq, ElementOfSeq DEF Paths
    <3> QED BY <2>1, <3>1 DEF TitleOf, Last
  <2> DEFINE o == Op(c, "create-remote", parent(f), f, f, c.local[f], c.local[f])
  <2>3. /\ o \in Ops /\ o.kind = "create-remote" /\ o.src = f /\ o.path = f /\ o.old = c.local[f]
    <3>1. "create-remote" \in Kinds /\ c.local[f] \in Notes \cup {Nothing} /\ c.local[f] \in Notes \cup Artifacts
      BY <2>1 DEF Kinds, RemoteKinds
    <3> HIDE DEF parent
    <3> QED BY <2>1, <3>1, OpTyped
  <2>4. parent(f) \in Priors(c.base) => c.base[parent(f)].status # "conflict"
    <3> HIDE DEF parent
    <3> QED BY <2>1, ConflictIsBounded
  <2> HIDE DEF o, parent
  <2> DEFINE y == [o EXCEPT !.page = Nothing, !.parent = parent(f)]
             x == [y EXCEPT !.title = TitleOf(f), !.body = c.local[f].body, !.kids = {}]
  <2>5. /\ x \in Ops /\ x.kind = "create-remote" /\ x.page = Nothing /\ x.parent = parent(f)
        /\ x.src = f /\ x.path = f /\ x.old = c.local[f] /\ x.body = c.local[f].body
    <3>1. c.local[f].body \in Bodies /\ Nothing \in Parents /\ parent(f) \in Parents
      BY <2>1 DEF Notes, Parents
    <3>2. /\ y \in Ops /\ y.kind = "create-remote" /\ y.page = Nothing /\ y.parent = parent(f)
          /\ y.src = f /\ y.path = f /\ y.old = c.local[f]
      BY <2>3, <3>1 DEF Ops
    <3> HIDE DEF y
    <3> QED BY <2>2, <3>1, <3>2 DEF Ops
  <2> HIDE DEF x
  <2>6. x \in P
    BY <2>1, <2>4, <2>5 DEF PlannedOps, OpFacts, Subject
  <2> QED BY <2>6 DEF x, y, o
<1>2. IsFiniteSet(S)
  <2> DEFINE F == [f \in free |-> create(f)]
  <2>1. IsFiniteSet(free)
    <3>1. free \subseteq DOMAIN c.local
      BY DEF Candidates
    <3>2. IsFiniteSet(DOMAIN c.local)
      BY DEF IsKnown, IsFolder
    <3> HIDE DEF free
    <3> QED BY <3>1, <3>2, FS_Subset
  <2> HIDE DEF free, create
  <2>2. IsFiniteSet({F[f] : f \in free})
    BY <2>1, ImageFinite
  <2>3. {F[f] : f \in free} = S
    OBVIOUS
  <2> QED BY <2>2, <2>3
<1>3. S \subseteq P
  <2> HIDE DEF free, create, P
  <2> QED BY <1>1
<1>4. CandidateOps(c, Bounded(c), ops) = SetToSeq(S)
  BY DEF CandidateOps
<1> HIDE DEF S, P
<1> QED BY <1>2, <1>3, <1>4, SetIsListed, SeqMonotonic DEF P

\* Once a plan creates, it only creates.
CreatesLast(s) ==
  \A k, l \in DOMAIN s : k < l /\ s[k].kind = "create-remote" => s[l].kind = "create-remote"

\* The effects of a plan made over what was seen and the state b.
IsPlan(ops, seen, b, opq) ==
  /\ ops \in Seq({o \in Ops : /\ OpFacts(o, b, opq) /\ Subject(o) \in DOMAIN seen
                              /\ o.kind = "body" => seen[o.page].body = b[o.page].body})
  /\ OneBody(ops) /\ CreatesLast(ops)

LEMMA WithStatusTyped ==
  ASSUME NEW b, IsState(b), NEW S, NEW status \in Statuses
  PROVE  IsState(WithStatus(b, S, status))
<1>1. CASE b = Nothing
  BY <1>1 DEF WithStatus
<1>2. CASE b # Nothing
  <2> DEFINE n == [p \in DOMAIN b |-> IF p \in S THEN [b[p] EXCEPT !.status = status] ELSE b[p]]
  <2>1. DOMAIN b \subseteq Pages /\ \A p \in DOMAIN b : b[p] \in Records
    BY <1>2 DEF IsState
  <2>2. \A p \in DOMAIN b : [b[p] EXCEPT !.status = status] \in Records
    BY <2>1 DEF Records
  <2>3. n \in [DOMAIN b -> Records]
    BY <2>1, <2>2
  <2>4. WithStatus(b, S, status) = n /\ DOMAIN n = DOMAIN b
    BY <1>2 DEF WithStatus
  <2> HIDE DEF n
  <2> QED BY <2>1, <2>3, <2>4 DEF IsState
<1> QED BY <1>1, <1>2

LEMMA StatusesAre ==
  {"synced", "attention", "conflict", "missing-local", "missing-notion"} \subseteq Statuses
BY DEF Statuses

LEMMA NextPageTyped ==
  ASSUME NEW c, IsKnown(c), NEW bounded, NEW p \in DOMAIN c.seen
  PROVE  NextPage(c, bounded, p) \in Records
<1>1. /\ c.seen[p] \in Observations /\ c.to[p] \in Paths
      /\ p \in Priors(c.base) => c.base[p] \in Records
  BY DEF IsKnown, IsSeen, IsState, Priors
<1>2. Desired(c, p) \in Records /\ [Desired(c, p) EXCEPT !.status = "attention"] \in Records
  BY <1>1, StatusesAre DEF Desired, Records, Observations
<1>3. p \in Priors(c.base) => /\ [c.base[p] EXCEPT !.status = "conflict"] \in Records
                              /\ [c.base[p] EXCEPT !.status = "attention"] \in Records
  BY <1>1, StatusesAre DEF Records
<1>4. Verdict(c, p) \in {"clash", "conflict", "held"} => p \in Priors(c.base)
  BY VerdictFacts DEF Settled
<1> QED BY <1>2, <1>3, <1>4 DEF NextPage

LEMMA PlanOpsAre ==
  ASSUME NEW c, IsKnown(c), NEW order \in Seq(DOMAIN c.seen), IsInjective(order)
  PROVE  LET ops == PagesOps(c, Bounded(c), order)
         IN  IsPlan(ops \o CandidateOps(c, Bounded(c), ops), c.seen, c.base, c.opaque)
<1> DEFINE P == PlannedOps(c)
           s == PagesOps(c, Bounded(c), order)
           t == CandidateOps(c, Bounded(c), s)
<1>1. s \in Seq({o \in P : o.kind # "create-remote"}) /\ OneBody(s)
  BY PagesOpsTyped
<1>2. t \in Seq({o \in P : o.kind = "create-remote"})
  BY CandidateOpsTyped
<1> HIDE DEF s, t
<1> SUFFICES IsPlan(s \o t, c.seen, c.base, c.opaque)
  BY DEF s, t
<1>3. /\ \A k \in 1..Len(s) : s[k].kind # "create-remote"
      /\ \A k \in 1..Len(t) : t[k].kind = "create-remote"
  <2>1. \A k \in 1..Len(s) : s[k] \in {o \in P : o.kind # "create-remote"}
    BY <1>1, ElementOfSeq
  <2>2. \A k \in 1..Len(t) : t[k] \in {o \in P : o.kind = "create-remote"}
    BY <1>2, ElementOfSeq
  <2> HIDE DEF P
  <2> QED BY <2>1, <2>2
<1>4. s \in Seq(P) /\ t \in Seq(P)
  <2> HIDE DEF P
  <2> QED BY <1>1, <1>2, SeqMonotonic
<1> HIDE DEF P
<1>5. /\ s \o t \in Seq(P) /\ DOMAIN (s \o t) = 1..(Len(s) + Len(t)) /\ Len(s) \in Nat /\ Len(t) \in Nat
      /\ DOMAIN s = 1..Len(s)
      /\ \A k \in 1..(Len(s) + Len(t)) : (s \o t)[k] = IF k <= Len(s) THEN s[k] ELSE t[k - Len(s)]
  BY <1>4, ConcatProperties, LenProperties
<1>6. ASSUME NEW k \in DOMAIN (s \o t)
      PROVE  /\ k <= Len(s) => (s \o t)[k] = s[k] /\ (s \o t)[k].kind # "create-remote" /\ k \in DOMAIN s
             /\ ~(k <= Len(s)) => (s \o t)[k].kind = "create-remote"
  <2>1. ASSUME ~(k <= Len(s)) PROVE (s \o t)[k] = t[k - Len(s)] /\ k - Len(s) \in 1..Len(t)
    BY <2>1, <1>5
  <2>2. ASSUME k <= Len(s) PROVE (s \o t)[k] = s[k] /\ k \in 1..Len(s)
    BY <2>2, <1>5
  <2> QED BY <2>1, <2>2, <1>3, <1>5
<1>7. OneBody(s \o t)
  <2> SUFFICES ASSUME NEW k \in DOMAIN (s \o t), NEW l \in DOMAIN (s \o t), (s \o t)[k].kind = "body",
                      (s \o t)[l].kind = "body", (s \o t)[k].page = (s \o t)[l].page
               PROVE  k = l
    BY DEF OneBody
  <2>1. (s \o t)[k] = s[k] /\ (s \o t)[l] = s[l] /\ k \in DOMAIN s /\ l \in DOMAIN s
    BY <1>6
  <2> QED BY <2>1, <1>1 DEF OneBody
<1>8. CreatesLast(s \o t)
  <2> SUFFICES ASSUME NEW k \in DOMAIN (s \o t), NEW l \in DOMAIN (s \o t), k < l,
                      (s \o t)[k].kind = "create-remote"
               PROVE  (s \o t)[l].kind = "create-remote"
    BY DEF CreatesLast
  <2>1. ~(k <= Len(s))
    BY <1>6
  <2>2. ~(l <= Len(s))
    BY <2>1, <1>5
  <2> QED BY <2>2, <1>6
<1> QED BY <1>5, <1>7, <1>8 DEF IsPlan, P, PlannedOps

\* The plan of a run is typed and keeps to what was seen.
LEMMA PlanTyped ==
  ASSUME NEW seen, IsSeen(seen), NEW tree, IsFolder(tree), NEW b, IsState(b), NEW opq
  PROVE  /\ IsPlan(Plan(seen, tree, b, opq).ops, seen, b, opq)
         /\ IsState(Plan(seen, tree, b, opq).next)
<1> DEFINE to == Projected(seen)
           c == [seen |-> seen, local |-> tree, base |-> b, opaque |-> opq, to |-> to]
           collides == \/ \E p, q \in DOMAIN seen : p # q /\ to[p] = to[q]
                       \/ \E p \in DOMAIN seen : to[p] \in Candidates(tree)
           order == FlattenSeq(Levels(seen, to))
           ops == PagesOps(c, Bounded(c), order)
           made == [ops |-> ops \o CandidateOps(c, Bounded(c), ops),
                    next |-> [p \in DOMAIN seen |-> NextPage(c, Bounded(c), p)]]
<1>1. IsPlan(<<>>, seen, b, opq)
  BY DEF IsPlan, OneBody, CreatesLast
<1>2. \A S : IsPlan(Refused(b, S).ops, seen, b, opq) /\ IsState(Refused(b, S).next)
  BY <1>1, WithStatusTyped, StatusesAre DEF Refused
<1>3. CASE ~ValidPrior(b)
  BY <1>2, <1>3 DEF Plan
<1>4. CASE ValidPrior(b) /\ (~Readable(tree) \/ collides)
  BY <1>2, <1>4 DEF Plan
<1>5. CASE ValidPrior(b) /\ Readable(tree) /\ ~collides /\ ~Priors(b) \subseteq DOMAIN seen \cap LocalPages(tree)
  <2>1. c.base = b /\ Plan(seen, tree, b, opq) = [ops |-> <<>>, next |-> Missing(c)]
    BY <1>5 DEF Plan
  <2>2. IsState(Missing(c))
    BY <2>1, WithStatusTyped, StatusesAre DEF Missing
  <2> QED BY <1>1, <2>1, <2>2
<1>6. CASE ValidPrior(b) /\ Readable(tree) /\ ~collides /\ Priors(b) \subseteq DOMAIN seen \cap LocalPages(tree)
  <2>1. IsKnown(c) /\ c.seen = seen /\ c.base = b /\ c.opaque = opq
    BY <1>6, ProjectedTyped DEF IsKnown
  <2>2. Plan(seen, tree, b, opq) = made
    BY <1>6 DEF Plan, PagesOps, Levels
  <2> HIDE DEF c, to
  <2>3. order \in Seq(DOMAIN seen) /\ IsInjective(order)
    BY LevelsListed DEF IsSeen
  <2> HIDE DEF order
  <2>4. IsPlan(made.ops, seen, b, opq)
    BY <2>1, <2>3, PlanOpsAre
  <2>5. IsState(made.next)
    <3>1. \A p \in DOMAIN seen : NextPage(c, Bounded(c), p) \in Records
      BY <2>1, NextPageTyped
    <3>2. made.next \in [DOMAIN seen -> Records] /\ DOMAIN seen \subseteq Pages
      BY <3>1 DEF IsSeen
    <3> QED BY <3>2 DEF IsState
  <2> QED BY <2>2, <2>4, <2>5
<1> QED BY <1>3, <1>4, <1>5, <1>6

-----------------------------------------------------------------------------
(***************************************************************************)
(* What a run leaves in the state.                                         *)
(***************************************************************************)
LEMMA MinIn ==
  ASSUME NEW S \in SUBSET Nat, S # {}
  PROVE  Min(S) \in S
BY LeastExists DEF Min

LEMMA MaxIn ==
  ASSUME NEW n \in Nat, NEW S \in SUBSET (1..n), S # {}
  PROVE  Max(S) \in S
<1> DEFINE T == {n - i : i \in S}
<1>1. T \in SUBSET Nat /\ T # {}
  <2>1. \A i \in S : n - i \in Nat
    OBVIOUS
  <2>2. PICK i \in S : TRUE
    OBVIOUS
  <2>3. n - i \in T
    BY <2>2
  <2> QED BY <2>1, <2>3
<1>2. PICK m \in T : \A k \in T : m <= k
  BY <1>1, LeastExists
<1>3. PICK i \in S : m = n - i
  BY <1>2
<1>4. ASSUME NEW j \in S PROVE i >= j
  <2>1. n - i <= n - j
    BY <1>2, <1>3, <1>4
  <2> QED BY <2>1
<1>5. \E x \in S : \A y \in S : x >= y
  BY <1>4
<1> QED BY <1>5 DEF Max

\* A state that is there.
IsTable(tree) == DOMAIN tree \subseteq Pages /\ tree \in [DOMAIN tree -> Records]

LEMMA TableIsState ==
  \A tree : (IsTable(tree) => IsState(tree)) /\ (IsState(tree) /\ tree # Nothing => IsTable(tree))
BY DEF IsTable, IsState

LEMMA OutcomeAt ==
  ASSUME NEW done \in Seq(Outcomes), NEW i \in DOMAIN done
  PROVE  /\ done[i] \in Outcomes /\ done[i].kind \in Kinds /\ done[i].page \in Pages
         /\ done[i].src \in Paths /\ done[i].path \in Paths /\ done[i].seen \in Observations
<1>1. done[i] \in Outcomes
  BY LenProperties, ElementOfSeq
<1> QED BY <1>1 DEF Outcomes

LEMMA LatestTyped ==
  ASSUME NEW done \in Seq(Outcomes), NEW p, About(done, p) # {}
  PROVE  /\ Latest(done, p).path \in Paths /\ Latest(done, p).seen \in Observations
<1>1. About(done, p) \in SUBSET (1..Len(done)) /\ Len(done) \in Nat /\ DOMAIN done = 1..Len(done)
  BY LenProperties DEF About
<1>2. Max(About(done, p)) \in DOMAIN done
  BY <1>1, MaxIn DEF About
<1> QED BY <1>2, OutcomeAt DEF Latest

LEMMA InNotionTyped ==
  ASSUME NEW page \in Records, NEW o, o.seen \in Observations
  PROVE  InNotion(page, o) \in Records
<1> DEFINE x == [page EXCEPT !.parent = o.seen.parent, !.title = o.seen.title]
<1>1. /\ o.seen.parent \in Parents /\ o.seen.title \in Titles
      /\ o.seen.body \in Bodies /\ o.seen.kids \in SUBSET Pages
  BY DEF Observations
<1>2. x \in Records
  BY <1>1 DEF Records
<1> HIDE DEF x
<1>3. [x EXCEPT !.body = o.seen.body, !.kids = o.seen.kids] \in Records
  BY <1>1, <1>2 DEF Records
<1> QED BY <1>3 DEF InNotion, x

LEMMA MadeTyped ==
  ASSUME NEW tree, IsTable(tree), NEW done \in Seq(Outcomes)
  PROVE  IsTable(Made(tree, done))
<1> DEFINE bound == {i \in DOMAIN done : done[i].kind = "rebind"}
           record(o) == [parent |-> o.seen.parent, title |-> o.seen.title, path |-> o.path,
                         body |-> o.seen.body, kids |-> o.seen.kids, status |-> "synced"]
           at(p) == CHOOSE i \in bound : done[i].page = p
           D == DOMAIN tree \cup {done[i].page : i \in bound}
<1>1. \A i \in DOMAIN done : record(done[i]) \in Records /\ done[i].page \in Pages
  BY OutcomeAt, StatusesAre DEF Records, Observations
<1>2. D \subseteq Pages
  BY <1>1 DEF IsTable
<1> HIDE DEF record
<1>3. ASSUME NEW p \in D
      PROVE  (IF \E i \in bound : done[i].page = p THEN record(done[at(p)]) ELSE tree[p]) \in Records
  <2>1. CASE \E i \in bound : done[i].page = p
    <3>1. at(p) \in bound
      BY <2>1
    <3> HIDE DEF at
    <3> QED BY <2>1, <3>1, <1>1
  <2>2. CASE ~\E i \in bound : done[i].page = p
    BY <2>2 DEF IsTable
  <2> QED BY <2>1, <2>2
<1>4. Made(tree, done) = [p \in D |-> IF \E i \in bound : done[i].page = p THEN record(done[at(p)]) ELSE tree[p]]
  BY DEF Made, record
<1> HIDE DEF at, D, bound
<1> QED BY <1>2, <1>3, <1>4 DEF IsTable

LEMMA CarriedTyped ==
  ASSUME IsState(base), NEW tree, IsTable(tree), NEW done \in Seq(Outcomes)
  PROVE  IsTable(Carried(tree, done)) /\ DOMAIN Carried(tree, done) = DOMAIN tree
<1> DEFINE written == {"create-local", "write", "rebind", "mark", "move-local"}
           placed(p, n) == \E i \in n .. Len(done) : done[i].page = p /\ done[i].kind \in written
           step(f, n) == IF done[n].kind = "move-local" THEN Moved(f, done[n].src, done[n].path) ELSE f
           N == Len(done)
           S == [at : [Priors(base) -> Paths], tree : [DOMAIN tree -> Records]]
           b == [at |-> [p \in Priors(base) |-> base[p].path], tree |-> tree]
           Carry(was, n) ==
             [at |-> [p \in Priors(base) |-> step(was.at[p], n)],
              tree |-> [p \in DOMAIN tree |->
                  IF /\ p \in Priors(base)
                     /\ step(was.at[p], n) # was.at[p]
                     /\ ~placed(p, n)
                  THEN [was.tree[p] EXCEPT !.path = step(was.at[p], n), !.status = "attention"]
                  ELSE was.tree[p]]]
           G == [x \in (0..N) \X S |-> IF x[1] = 0 THEN b ELSE Carry(x[2], x[1])]
           Body(f) == [n \in 0..N |-> IF n = 0 THEN b ELSE Carry(f[n - 1], n)]
           after == CHOOSE f : f = Body(f)
<1>1. N \in Nat /\ 0 \in Nat /\ 0 <= N /\ 0 \in 0..N /\ N \in 0..N /\ DOMAIN done = 1..N
  BY LenProperties
<1>2. ASSUME NEW was \in S, NEW n \in 1..N PROVE Carry(was, n) \in S
  <2>1. \A f \in Paths : step(f, n) \in Paths
    BY <1>1, OutcomeAt, MovedTyped
  <2> HIDE DEF step, placed
  <2>2. was.at \in [Priors(base) -> Paths] /\ was.tree \in [DOMAIN tree -> Records]
    OBVIOUS
  <2>3. [p \in Priors(base) |-> step(was.at[p], n)] \in [Priors(base) -> Paths]
    BY <2>1, <2>2
  <2>4. ASSUME NEW p \in DOMAIN tree, p \in Priors(base)
        PROVE  [was.tree[p] EXCEPT !.path = step(was.at[p], n), !.status = "attention"] \in Records
    <3>1. was.tree[p] \in Records /\ step(was.at[p], n) \in Paths
      BY <2>1, <2>2, <2>4
    <3> QED BY <3>1, StatusesAre DEF Records
  <2> QED BY <2>2, <2>3, <2>4
<1>3. b \in S
  BY DEF IsState, Priors, Records, IsTable
<1> HIDE DEF b, S, Carry
<1>4. G \in [(0..N) \X S -> S]
  <2>1. ASSUME NEW x \in (0..N) \X S PROVE (IF x[1] = 0 THEN b ELSE Carry(x[2], x[1])) \in S
    <3>1. x[1] \in 0..N /\ x[2] \in S
      OBVIOUS
    <3>2. x[1] # 0 => x[1] \in 1..N
      BY <3>1, <1>1
    <3> QED BY <3>1, <3>2, <1>2, <1>3
  <2> QED BY <2>1
<1> HIDE DEF N
<1>5. PICK f : Recurs(f, 0, N, b, S, G)
  <2> HIDE DEF G
  <2> QED BY <1>1, <1>3, <1>4, RecursionExists
<1>6. f = Body(f)
  <2>1. ASSUME NEW n \in 0..N, n # 0 PROVE f[n] = Carry(f[n - 1], n)
    <3>1. n - 1 \in 0..N
      BY <2>1, <1>1
    <3>2. f[n - 1] \in S /\ f[n] = G[<<n, f[n - 1]>>]
      <4> HIDE DEF G
      <4> QED BY <3>1, <2>1, <1>5 DEF Recurs
    <3>3. <<n, f[n - 1]>> \in (0..N) \X S
      BY <3>2
    <3> QED BY <3>2, <3>3, <2>1
  <2> QED BY <2>1, <1>5 DEF Recurs
<1>7. after = Body(after)
  <2> HIDE DEF Body
  <2> QED BY <1>6
<1> DEFINE T == {n \in 0..N : after[n] \in S}
<1> HIDE DEF after
<1>8. 0 \in T
  BY <1>7, <1>3, <1>1
<1>9. ASSUME NEW n \in 0..N, n \in T, n + 1 <= N PROVE n + 1 \in T
  <2> DEFINE m == n + 1
  <2>1. m \in 0..N /\ m # 0 /\ m - 1 = n /\ m \in 1..N
    BY <1>9, <1>1
  <2> HIDE DEF m
  <2>2. after[m] = Carry(after[n], m)
    BY <1>7, <2>1
  <2>3. after[n] \in S
    BY <1>9
  <2>4. after[m] \in S
    BY <2>1, <2>2, <2>3, <1>2
  <2> QED BY <2>1, <2>4 DEF m
<1> HIDE DEF T
<1>10. \A n \in 0..N : n \in T
  BY <1>1, <1>8, <1>9, Climb
<1>11. after[N] \in S
  BY <1>10, <1>1 DEF T
<1>12. Carried(tree, done) = after[N].tree
  BY DEF Carried, after, N, b, Carry
<1>13. after[N].tree \in [DOMAIN tree -> Records]
  BY <1>11 DEF S
<1> QED BY <1>12, <1>13 DEF IsTable

IsCurrent(current) == DOMAIN current \subseteq Pages /\ current \in [DOMAIN current -> Observations]

LEMMA RefreshedTyped ==
  ASSUME IsState(base), NEW next, IsState(next), NEW current, IsCurrent(current), NEW done \in Seq(Outcomes)
  PROVE  IsState(Refreshed(next, current, done))
<1>1. CASE next = Nothing
  BY <1>1 DEF Refreshed
<1>2. CASE next # Nothing
  <2> DEFINE fresh(p) ==
               IF p \notin DOMAIN current \/ next[p].status # "synced" THEN next[p]
               ELSE [InNotion(next[p], [seen |-> current[p]]) EXCEPT
                       !.path = IF About(done, p) = {} THEN @ ELSE Latest(done, p).path]
             tree == [p \in DOMAIN next |-> fresh(p)]
  <2>1. IsTable(next)
    BY <1>2, TableIsState
  <2>2. ASSUME NEW p \in DOMAIN next PROVE fresh(p) \in Records
    <3>1. next[p] \in Records
      BY <2>1 DEF IsTable
    <3>2. CASE p \notin DOMAIN current
      BY <3>1, <3>2
    <3>3. CASE p \in DOMAIN current
      <4> DEFINE o == [seen |-> current[p]]
      <4>1. o.seen \in Observations
        BY <3>3 DEF IsCurrent
      <4>2. InNotion(next[p], o) \in Records
        BY <3>1, <4>1, InNotionTyped
      <4>3. About(done, p) # {} => Latest(done, p).path \in Paths
        BY LatestTyped
      <4>4. [InNotion(next[p], o) EXCEPT !.path = IF About(done, p) = {} THEN @ ELSE Latest(done, p).path] \in Records
        <5> DEFINE r == InNotion(next[p], o)
        <5> HIDE DEF r
        <5> QED BY <4>2, <4>3 DEF Records, r
      <4> QED BY <3>1, <4>4
    <3> QED BY <3>2, <3>3
  <2> HIDE DEF fresh
  <2>3. IsTable(tree)
    BY <2>1, <2>2 DEF IsTable
  <2> HIDE DEF tree
  <2>4. IsTable(Made(Carried(tree, done), done))
    BY <2>3, CarriedTyped, MadeTyped
  <2>5. Refreshed(next, current, done) = Made(Carried(tree, done), done)
    BY <1>2 DEF Refreshed, tree, fresh
  <2> QED BY <2>4, <2>5, TableIsState
<1> QED BY <1>1, <1>2

LEMMA VerifiedTyped ==
  ASSUME IsState(base), NEW done \in Seq(Outcomes)
  PROVE  IsState(Verified(done))
<1>1. CASE base = Nothing
  BY <1>1 DEF Verified
<1>2. CASE base # Nothing
  <2> DEFINE fresh(p) ==
               LET last == Latest(done, p) IN
               IF About(done, p) = {} THEN base[p]
               ELSE IF last.kind = "conflict" THEN [base[p] EXCEPT !.status = "conflict"]
               ELSE [InNotion(base[p], last) EXCEPT !.path = last.path]
             tree == [p \in DOMAIN base |-> fresh(p)]
  <2>1. IsTable(base)
    BY <1>2, TableIsState
  <2>2. ASSUME NEW p \in DOMAIN base PROVE fresh(p) \in Records
    <3>1. base[p] \in Records
      BY <2>1 DEF IsTable
    <3>2. [base[p] EXCEPT !.status = "conflict"] \in Records
      BY <3>1, StatusesAre DEF Records
    <3>3. ASSUME About(done, p) # {}
          PROVE  [InNotion(base[p], Latest(done, p)) EXCEPT !.path = Latest(done, p).path] \in Records
      <4>1. Latest(done, p).path \in Paths /\ InNotion(base[p], Latest(done, p)) \in Records
        BY <3>1, <3>3, LatestTyped, InNotionTyped
      <4> DEFINE r == InNotion(base[p], Latest(done, p))
      <4> HIDE DEF r
      <4> QED BY <4>1 DEF Records, r
    <3> QED BY <3>1, <3>2, <3>3
  <2> HIDE DEF fresh
  <2>3. IsTable(tree)
    BY <2>1, <2>2 DEF IsTable
  <2> HIDE DEF tree
  <2>4. IsTable(Carried(Made(tree, done), done))
    BY <2>3, CarriedTyped, MadeTyped
  <2>5. Verified(done) = Carried(Made(tree, done), done)
    BY <1>2 DEF Verified, tree, fresh
  <2> QED BY <2>4, <2>5, TableIsState
<1> QED BY <1>1, <1>2

LEMMA WithAttentionTyped ==
  ASSUME NEW tree, IsState(tree), NEW list
  PROVE  IsState(WithAttention(tree, list))
BY WithStatusTyped, StatusesAre DEF WithAttention

LEMMA MarkedForTyped ==
  ASSUME IsState(base), NEW op
  PROVE  IsState(MarkedFor(op))
BY WithStatusTyped, StatusesAre DEF MarkedFor

-----------------------------------------------------------------------------
(***************************************************************************)
(* The inductive invariant.                                                *)
(***************************************************************************)
Makers == {"create-remote", "rebind", "mark"}

\* What is known of an effect of the run in progress, over the state b it was
\* planned on: a creation ends in a binding and a marking, which are its own.
WorkFacts(o, current, b, opq) ==
  /\ Subject(o) \in DOMAIN current
  /\ o.kind \notin {"rebind", "mark"} => OpFacts(o, b, opq)
  /\ o.kind = "body" => current[o.page].body = b[o.page].body
  /\ o.kind = "rebind" =>
       /\ o.page \in Pages /\ o.src = o.path /\ o.note \in Notes /\ o.note.page = o.page
       /\ o.old \in Notes /\ o.old.page = Nothing /\ o.old.body = o.body
  /\ o.kind = "mark" =>
       /\ o.page \in Pages /\ o.src = o.path
       /\ o.page \in Priors(b) => b[o.page].status # "conflict"

\* After a creation only creations and their markings are left.
MakesLast(s) ==
  \A k, l \in DOMAIN s : k < l /\ s[k].kind \in Makers => s[l].kind \in {"create-remote", "mark"}

\* A binding follows the creation it is of.
BindsFirst(s) == \A k \in DOMAIN s : k > 1 => s[k].kind # "rebind"

WorkOps(ops, current, b, opq) ==
  /\ ops \in Seq(Ops)
  /\ \A k \in DOMAIN ops : WorkFacts(ops[k], current, b, opq)
  /\ OneBody(ops) /\ MakesLast(ops) /\ BindsFirst(ops)

\* An effect whose intent is written.
Begun(o) == o.kind = "mark" => /\ o.note \in Notes /\ o.note.page = o.page
                               /\ o.old \in Notes /\ o.old.page = o.page

Held == {p \in Pages : pageHeld[p] # {}}

\* The notes no page owns, and their texts.
Bare(tree) == {f \in DOMAIN tree : tree[f].page = Nothing}
Loose(tree) == {tree[f].body : f \in Bare(tree)}
Distinct(tree) == \A f, g \in Bare(tree) : tree[f].body = tree[g].body => f = g

\* The texts pages were made from.
Origins == {madeFrom[p] : p \in DOMAIN madeFrom}

Working == run.at \in {"begin", "effect", "settle"}

NotionInv ==
  /\ IsTree(remote) /\ \A p \in DOMAIN remote : remote[p].body \in Bodies
  /\ DOMAIN remote \subseteq Held
  /\ opaque \in BOOLEAN /\ edits \in 0 .. MaxEdits
  /\ DOMAIN madeFrom \subseteq Others \cap Held /\ madeFrom \in [DOMAIN madeFrom -> Bodies]

VaultInv ==
  /\ IsFolder(local) /\ LocalPages(local) \subseteq Held
  /\ DOMAIN artifacts \subseteq Pages

StateInv == IsState(base) /\ open \subseteq Ops /\ fence \in BOOLEAN

RunInv ==
  /\ run.at \in {"idle", "scan", "begin", "effect", "settle", "save"}
  /\ run.at = "scan" => IsSeen(run.seen) /\ DOMAIN run.seen \subseteq Held /\ open = {}
  /\ run.at = "save" => IsState(run.next)
  /\ Working =>
       /\ run = [at |-> run.at, ops |-> run.ops, next |-> run.next, done |-> run.done,
                 current |-> run.current]
       /\ WorkOps(run.ops, run.current, base, opaque) /\ run.ops # <<>>
       /\ IsCurrent(run.current) /\ DOMAIN run.current \subseteq Held
       /\ run.done \in Seq(Outcomes) /\ IsState(run.next)
       /\ fence = TRUE
  /\ run.at = "begin" => open = {} /\ Head(run.ops).kind # "rebind"
  /\ run.at \in {"effect", "settle"} => open = {Head(run.ops)} /\ Begun(Head(run.ops))

\* Every text is written once: no two notes without a page have the same, no
\* two pages were made from the same.
TextInv ==
  /\ Distinct(local)
  /\ \A x \in Loose(local) \cup Origins : x < Token
  /\ NeverCreatedTwice

\* A note a page was made from is still without it only while an intent says
\* so; an intent to bind it is of a note that is bound once its page is here.
Covers(x) == \E o \in open : o.kind \in {"create-remote", "rebind"} /\ o.body = x
OpenInv ==
  /\ \A x \in Loose(local) \cap Origins : Covers(x)
  /\ \A o \in open : o.kind = "rebind" =>
       o.page \in Pages /\ o.body \in Origins /\ (o.page \in LocalPages(local) => o.body \notin Loose(local))

\* The candidate a creation is about has no page yet; then it is the page just
\* made, and no note is.
Unmade(o) == o.body \notin Loose(local) \cap Origins
JustMade(o) == /\ o.body \in Origins
               /\ \A p \in DOMAIN madeFrom : madeFrom[p] = o.body => p \notin LocalPages(local)
HeadInv ==
  /\ run.at = "effect" /\ Head(run.ops).kind = "create-remote" => Unmade(Head(run.ops))
  /\ run.at = "settle" /\ Head(run.ops).kind = "create-remote" => JustMade(Head(run.ops))

Inv == NotionInv /\ VaultInv /\ StateInv /\ RunInv /\ TextInv /\ OpenInv /\ HeadInv

-----------------------------------------------------------------------------
(***************************************************************************)
(* The reserved folder changes.                                            *)
(***************************************************************************)
LEMMA FrontTyped ==
  ASSUME NEW f \in Paths
  PROVE  Front(f) \in Paths
<1>1. Len(f) \in Nat /\ \A i \in 1 .. Len(f) - 1 : f[i] \in Titles
  BY LenProperties, ElementOfSeq DEF Paths
<1>2. SubSeq(f, 1, Len(f) - 1) \in Seq(Titles)
  BY <1>1, SubSeqProperties
<1> QED BY <1>2 DEF Front, Paths

LEMMA FrontOfAppend ==
  ASSUME NEW S, NEW s \in Seq(S), NEW x \in S
  PROVE  Front(Append(s, x)) = s
<1>1. /\ Append(s, x) = s \o <<x>> /\ <<x>> \in Seq(S) /\ Len(<<x>>) = 1
      /\ Len(Append(s, x)) = Len(s) + 1 /\ Len(s) \in Nat
  BY AppendIsConcat, AppendProperties, LenProperties
<1>2. Front(Append(s, x)) = SubSeq(s \o <<x>>, 1, Len(s))
  BY <1>1 DEF Front
<1>3. CASE s = <<>>
  BY <1>2, <1>3, SubSeqEmpty, EmptySeq
<1>4. CASE s # <<>>
  <2>1. Len(s) \in 1..Len(s) /\ 1 \in 1..Len(s)
    BY <1>1, <1>4, EmptySeq
  <2>2. SubSeq(s \o <<x>>, 1, Len(s)) = SubSeq(s, 1, Len(s))
    BY <1>1, <2>1, SubSeqOfConcat1
  <2> QED BY <1>2, <2>2, SubSeqFull
<1> QED BY <1>3, <1>4

\* The notes of one folder, elsewhere: no note is there twice.
LEMMA Rearranged ==
  ASSUME NEW tree, NEW new, NEW h \in [DOMAIN new -> DOMAIN tree],
         \A f, g \in DOMAIN new : h[f] = h[g] => f = g,
         \A f \in DOMAIN new : new[f].page = tree[h[f]].page /\ new[f].body = tree[h[f]].body
  PROVE  /\ Loose(new) \subseteq Loose(tree) /\ LocalPages(new) \subseteq LocalPages(tree)
         /\ Distinct(tree) => Distinct(new)
<1>1. \A f \in DOMAIN new : h[f] \in DOMAIN tree
  OBVIOUS
<1>2. \A f \in Bare(new) : h[f] \in Bare(tree) /\ new[f].body = tree[h[f]].body
  BY <1>1 DEF Bare
<1>3. \A f \in Owned(new) : h[f] \in Owned(tree) /\ new[f].page = tree[h[f]].page
  BY <1>1 DEF Owned
<1>4. Bare(new) \subseteq DOMAIN new
  BY DEF Bare
<1> QED BY <1>2, <1>3, <1>4 DEF Loose, LocalPages, Distinct

\* One note more, or another one at its path.
LEMMA PutFacts ==
  ASSUME NEW tree, NEW path, NEW note
  PROVE  /\ LocalPages(Put(tree, path, note)) \subseteq LocalPages(tree) \cup {note.page}
         /\ note.page # Nothing => /\ Bare(Put(tree, path, note)) = Bare(tree) \ {path}
                                   /\ Loose(Put(tree, path, note)) \subseteq Loose(tree)
                                   /\ Distinct(tree) => Distinct(Put(tree, path, note))
<1> DEFINE new == Put(tree, path, note)
<1>1. /\ DOMAIN new = DOMAIN tree \cup {path} /\ new[path] = note
      /\ \A f \in DOMAIN tree : f # path => new[f] = tree[f]
  BY DEF Put
<1> HIDE DEF new
<1>2. LocalPages(new) \subseteq LocalPages(tree) \cup {note.page}
  BY <1>1 DEF LocalPages, Owned
<1>3. ASSUME note.page # Nothing
      PROVE  /\ Bare(new) = Bare(tree) \ {path} /\ Loose(new) \subseteq Loose(tree)
             /\ Distinct(tree) => Distinct(new)
  <2>1. Bare(new) = Bare(tree) \ {path}
    BY <1>1, <1>3 DEF Bare
  <2>2. \A f \in Bare(new) : f \in Bare(tree) /\ new[f] = tree[f]
    BY <1>1, <2>1 DEF Bare
  <2> QED BY <2>1, <2>2 DEF Loose, Distinct
<1> QED BY <1>2, <1>3 DEF new

LEMMA PutFolder ==
  ASSUME NEW tree, IsFolder(tree), NEW path \in Paths, NEW note \in Notes
  PROVE  IsFolder(Put(tree, path, note))
<1> DEFINE new == Put(tree, path, note)
           D == DOMAIN tree \cup {path}
<1>1. DOMAIN new = D /\ new = [k \in D |-> IF k = path THEN note ELSE tree[k]]
  BY DEF Put
<1>2. IsFiniteSet(D)
  BY FS_AddElement DEF IsFolder
<1>3. [k \in D |-> IF k = path THEN note ELSE tree[k]] \in [D -> Notes]
  BY DEF IsFolder
<1> HIDE DEF new
<1>4. D \subseteq Paths
  BY DEF IsFolder
<1> HIDE DEF D
<1> QED BY <1>1, <1>2, <1>3, <1>4 DEF IsFolder, new

LEMMA MoveTreeKeeps ==
  ASSUME NEW tree, IsFolder(tree), NEW from \in Paths, NEW to \in Paths
  PROVE  /\ Loose(MoveTree(tree, from, to)) \subseteq Loose(tree)
         /\ LocalPages(MoveTree(tree, from, to)) \subseteq LocalPages(tree)
         /\ Distinct(tree) => Distinct(MoveTree(tree, from, to))
<1> DEFINE new == MoveTree(tree, from, to)
           h == [f \in DOMAIN new |-> CHOOSE g \in DOMAIN tree : Moved(g, from, to) = f /\ new[f] = tree[g]]
<1>1. \A f \in DOMAIN new : \E g \in DOMAIN tree : Moved(g, from, to) = f /\ new[f] = tree[g]
  BY MoveTreeTyped
<1> HIDE DEF new
<1>2. \A f \in DOMAIN new : h[f] \in DOMAIN tree /\ Moved(h[f], from, to) = f /\ new[f] = tree[h[f]]
  BY <1>1
<1>3. h \in [DOMAIN new -> DOMAIN tree]
  BY <1>2
<1> HIDE DEF h
<1>4. \A f, g \in DOMAIN new : h[f] = h[g] => f = g
  BY <1>2
<1>5. \A f \in DOMAIN new : new[f].page = tree[h[f]].page /\ new[f].body = tree[h[f]].body
  BY <1>2
<1>6. /\ Loose(new) \subseteq Loose(tree) /\ LocalPages(new) \subseteq LocalPages(tree)
      /\ Distinct(tree) => Distinct(new)
  BY <1>3, <1>4, <1>5, Rearranged
<1> QED BY <1>6 DEF new

\* The same notes, some with other markers or another frontmatter.
LEMMA Refitted ==
  ASSUME NEW tree, NEW new, DOMAIN new \subseteq DOMAIN tree,
         \A f \in DOMAIN new : new[f].page = tree[f].page /\ new[f].body = tree[f].body
  PROVE  /\ Loose(new) \subseteq Loose(tree) /\ LocalPages(new) \subseteq LocalPages(tree)
         /\ Distinct(tree) => Distinct(new)
<1> DEFINE h == [f \in DOMAIN new |-> f]
<1>1. h \in [DOMAIN new -> DOMAIN tree]
  OBVIOUS
<1>2. \A f, g \in DOMAIN new : h[f] = h[g] => f = g
  OBVIOUS
<1>3. \A f \in DOMAIN new : new[f].page = tree[h[f]].page /\ new[f].body = tree[h[f]].body
  OBVIOUS
<1> HIDE DEF h
<1> QED BY <1>1, <1>2, <1>3, Rearranged

LEMMA SmallerFolder ==
  ASSUME NEW tree, IsFolder(tree), NEW D \in SUBSET DOMAIN tree, NEW new \in [D -> Notes]
  PROVE  IsFolder(new)
BY FS_Subset DEF IsFolder

LEMMA RelocatedFacts ==
  ASSUME IsFolder(local), NEW from \in Owned(local), NEW q \in Owned(local), NEW t \in Names
  PROVE  LET new == Relocated(from, Append(q, t))
         IN  /\ IsFolder(new)
             /\ Loose(new) \subseteq Loose(local) /\ LocalPages(new) \subseteq LocalPages(local)
             /\ Distinct(local) => Distinct(new)
<1> DEFINE to == Append(q, t)
           tree == MoveTree(local, from, to)
           p == local[from].page
           fixed(f, n) ==
             [n EXCEPT !.link = IF f = <<>> \/ n.page = Nothing THEN @ ELSE Front(f),
                       !.parent = IF f = to THEN local[Front(to)].page ELSE @,
                       !.kids = IF f = Front(to) THEN @ \cup {p} ELSE IF f = Front(from) THEN @ \ {p} ELSE @]
           new == Relocated(from, to)
<1>1. /\ q \in Paths /\ from \in Paths /\ q \in DOMAIN local /\ local[q].page # Nothing
      /\ from \in DOMAIN local /\ local[from].page # Nothing
  BY DEF Owned, IsFolder
<1>2. to \in Paths /\ Front(to) = q
  BY <1>1, Constants, FrontOfAppend DEF Paths
<1>3. p \in Pages /\ local[q].page \in Parents
  BY <1>1 DEF IsFolder, Notes, Parents
<1>4. IsFolder(tree)
  BY <1>1, <1>2, MoveTreeTyped
<1>5. ASSUME NEW f \in Paths, NEW n \in Notes
      PROVE  fixed(f, n) \in Notes /\ fixed(f, n).page = n.page /\ fixed(f, n).body = n.body
  <2> DEFINE y == [n EXCEPT !.link = IF f = <<>> \/ n.page = Nothing THEN @ ELSE Front(f),
                            !.parent = IF f = to THEN local[Front(to)].page ELSE @]
  <2>1. y \in Notes /\ y.page = n.page /\ y.body = n.body
    BY <1>2, <1>3, FrontTyped DEF Notes
  <2> HIDE DEF p
  <2>2. /\ [y EXCEPT !.kids = IF f = Front(to) THEN @ \cup {p} ELSE IF f = Front(from) THEN @ \ {p} ELSE @] \in Notes
        /\ [y EXCEPT !.kids = IF f = Front(to) THEN @ \cup {p} ELSE IF f = Front(from) THEN @ \ {p} ELSE @].page = n.page
        /\ [y EXCEPT !.kids = IF f = Front(to) THEN @ \cup {p} ELSE IF f = Front(from) THEN @ \ {p} ELSE @].body = n.body
    <3> HIDE DEF y
    <3> QED BY <2>1, <1>3 DEF Notes
  <2>3. fixed(f, n) = [y EXCEPT !.kids = IF f = Front(to) THEN @ \cup {p} ELSE IF f = Front(from) THEN @ \ {p} ELSE @]
    OBVIOUS
  <2> QED BY <2>2, <2>3
<1>6. new = [f \in DOMAIN tree |-> fixed(f, tree[f])]
  BY DEF Relocated
<1> HIDE DEF tree, to, fixed, new
<1>7. /\ DOMAIN new = DOMAIN tree
      /\ \A f \in DOMAIN new : f \in Paths /\ tree[f] \in Notes /\ new[f] = fixed(f, tree[f])
  BY <1>4, <1>6 DEF IsFolder
<1>8. \A f \in DOMAIN new : new[f] \in Notes /\ new[f].page = tree[f].page /\ new[f].body = tree[f].body
  BY <1>5, <1>7
<1>9. IsFolder(new)
  BY <1>4, <1>6, <1>7, <1>8 DEF IsFolder
<1>10. /\ Loose(new) \subseteq Loose(tree) /\ LocalPages(new) \subseteq LocalPages(tree)
       /\ Distinct(tree) => Distinct(new)
  BY <1>7, <1>8, Refitted
<1>11. /\ Loose(tree) \subseteq Loose(local) /\ LocalPages(tree) \subseteq LocalPages(local)
       /\ Distinct(local) => Distinct(tree)
  BY <1>1, <1>2, MoveTreeKeeps DEF tree
<1> QED BY <1>9, <1>10, <1>11 DEF new, to

-----------------------------------------------------------------------------
(***************************************************************************)
(* What the owner and the effects do to the folder.                        *)
(***************************************************************************)
LEMMA TokenIs ==
  ASSUME edits \in 0 .. MaxEdits, edits < MaxEdits
  PROVE  Token \in Bodies /\ edits + 1 \in 0 .. MaxEdits
BY Constants DEF Token

\* What a step may do to the folder when it writes no new text, and when the
\* owner writes one.
Folded(new) ==
  /\ IsFolder(new) /\ LocalPages(new) \subseteq LocalPages(local)
  /\ Loose(new) \subseteq Loose(local) \cup {Token}
  /\ Distinct(new)

LEMMA BodyWritten ==
  ASSUME IsFolder(local), Distinct(local), \A x \in Loose(local) : x < Token, Token \in Bodies,
         NEW f \in DOMAIN local
  PROVE  Folded(WithBody(local, f, Token))
<1> DEFINE new == WithBody(local, f, Token)
<1>1. local \in [DOMAIN local -> Notes] /\ local[f] \in Notes
  BY DEF IsFolder
<1>2. [local[f] EXCEPT !.body = Token] \in Notes /\ [local[f] EXCEPT !.body = Token].page = local[f].page
      /\ [local[f] EXCEPT !.body = Token].body = Token
  BY <1>1 DEF Notes
<1>3. /\ DOMAIN new = DOMAIN local /\ new \in [DOMAIN local -> Notes]
      /\ \A g \in DOMAIN local : new[g].page = local[g].page
      /\ new[f].body = Token /\ \A g \in DOMAIN local : g # f => new[g] = local[g]
  BY <1>1, <1>2 DEF WithBody
<1> HIDE DEF new
<1>4. IsFolder(new)
  BY <1>3 DEF IsFolder
<1>5. Bare(new) = Bare(local) /\ Owned(new) = Owned(local)
  BY <1>3 DEF Bare, Owned
<1>6. LocalPages(new) \subseteq LocalPages(local)
  BY <1>3, <1>5 DEF LocalPages, Owned
<1>7. ASSUME NEW g \in Bare(new)
      PROVE  /\ g \in Bare(local)
             /\ g # f => new[g].body = local[g].body /\ new[g].body < Token
             /\ g = f => new[g].body = Token
  BY <1>3, <1>5 DEF Loose, Bare
<1>8. Loose(new) \subseteq Loose(local) \cup {Token}
  BY <1>7 DEF Loose
<1>9. ~(Token < Token)
  BY Constants
<1>10. Distinct(new)
  BY <1>7, <1>9 DEF Distinct
<1> QED BY <1>4, <1>6, <1>8, <1>10 DEF Folded, new

LEMMA NoteWritten ==
  ASSUME IsFolder(local), Distinct(local), \A x \in Loose(local) : x < Token, Token \in Bodies,
         NEW f \in Paths, f \notin DOMAIN local
  PROVE  Folded(Put(local, f, Jotted))
<1> DEFINE note == Jotted
           new == Put(local, f, note)
<1>1. note \in Notes /\ note.page = Nothing /\ note.body = Token
  BY DEF Notes, Parents, Jotted
<1> HIDE DEF note
<1>2. IsFolder(new)
  BY <1>1, PutFolder
<1>3. /\ DOMAIN new = DOMAIN local \cup {f} /\ new[f] = note
      /\ \A g \in DOMAIN local : new[g] = local[g]
  BY DEF Put
<1> HIDE DEF new
<1>4. Owned(new) = Owned(local) /\ Bare(new) = Bare(local) \cup {f}
  BY <1>1, <1>3 DEF Owned, Bare
<1>5. LocalPages(new) \subseteq LocalPages(local)
  BY <1>3, <1>4 DEF LocalPages, Owned
<1>6. \A g \in Bare(local) : g # f /\ new[g].body = local[g].body /\ local[g].body < Token
  BY <1>3 DEF Bare, Loose
<1>7. Loose(new) \subseteq Loose(local) \cup {Token}
  BY <1>1, <1>3, <1>4, <1>6 DEF Loose
<1>8. ~(Token < Token)
  BY Constants
<1>9. Distinct(new)
  BY <1>1, <1>3, <1>4, <1>6, <1>8 DEF Distinct
<1> QED BY <1>2, <1>5, <1>7, <1>9 DEF Folded, new, note

LEMMA NoteRemoved ==
  ASSUME IsFolder(local), NEW f \in DOMAIN local
  PROVE  /\ IsFolder(Without(f))
         /\ Loose(Without(f)) \subseteq Loose(local) /\ LocalPages(Without(f)) \subseteq LocalPages(local)
         /\ Distinct(local) => Distinct(Without(f))
<1> DEFINE fit(g) == IF f # <<>> /\ g = Front(f) THEN [local[g] EXCEPT !.kids = @ \ {local[f].page}]
                     ELSE local[g]
           D == DOMAIN local \ {f}
           new == [g \in D |-> fit(g)]
<1>1. ASSUME NEW g \in D
      PROVE  fit(g) \in Notes /\ fit(g).page = local[g].page /\ fit(g).body = local[g].body
  <2>1. local[g] \in Notes
    BY DEF IsFolder
  <2> QED BY <2>1 DEF Notes
<1> HIDE DEF fit
<1>2. new \in [D -> Notes] /\ D \in SUBSET DOMAIN local /\ DOMAIN new = D
  BY <1>1
<1>3. \A g \in DOMAIN new : new[g].page = local[g].page /\ new[g].body = local[g].body
  BY <1>1
<1> HIDE DEF new, D
<1>4. IsFolder(new)
  BY <1>2, SmallerFolder
<1>5. /\ Loose(new) \subseteq Loose(local) /\ LocalPages(new) \subseteq LocalPages(local)
      /\ Distinct(local) => Distinct(new)
  BY <1>2, <1>3, Refitted
<1> QED BY <1>4, <1>5 DEF new, D, fit, Without

LEMMA LocalEditFacts ==
  ASSUME IsFolder(local), Distinct(local), \A x \in Loose(local) : x < Token,
         edits \in 0 .. MaxEdits, LocalEdit
  PROVE  Folded(local') /\ UNCHANGED artifacts
<1>1. Token \in Bodies
  BY TokenIs DEF LocalEdit, OwnerStep
<1>a. UNCHANGED artifacts
  BY DEF LocalEdit, OwnerStep
<1>2. CASE \E f \in DOMAIN local : SetLocal(WithBody(local, f, Token))
  BY <1>1, <1>2, <1>a, BodyWritten DEF SetLocal
<1>3. CASE \E f \in {<<>>} \cup {Append(g, t) : g \in DOMAIN local, t \in Names} :
             f \notin DOMAIN local /\ SetLocal(Put(local, f, Jotted))
  <2>1. PICK f \in {<<>>} \cup {Append(g, t) : g \in DOMAIN local, t \in Names} :
             f \notin DOMAIN local /\ local' = Put(local, f, Jotted)
    BY <1>3 DEF SetLocal
  <2>2. f \in Paths
    <3>1. \A g \in DOMAIN local : g \in Paths
      BY DEF IsFolder
    <3>2. ASSUME NEW g \in DOMAIN local, NEW t \in Names PROVE Append(g, t) \in Paths
      <4>1. g \in Seq(Titles) /\ t \in Titles
        BY <3>1, Constants DEF Paths
      <4> QED BY <4>1, AppendProperties DEF Paths
    <3>3. <<>> \in Paths
      BY DEF Paths
    <3>4. CASE f # <<>>
      <4>1. PICK g \in DOMAIN local, t \in Names : f = Append(g, t)
        BY <2>1, <3>4
      <4> QED BY <3>2, <4>1
    <3> QED BY <3>3, <3>4
  <2> QED BY <1>1, <1>a, <2>1, <2>2, NoteWritten
<1>4. CASE \E from \in Owned(local) \ {<<>>}, q \in Owned(local), t \in Names :
             LET to == Append(q, t) IN
             /\ ~Within(q, from)
             /\ \A f \in DOMAIN local : ~Within(f, to)
             /\ SetLocal(Relocated(from, to))
  <2>1. PICK from \in Owned(local), q \in Owned(local), t \in Names : local' = Relocated(from, Append(q, t))
    BY <1>4 DEF SetLocal
  <2> QED BY <1>a, <2>1, RelocatedFacts DEF Folded
<1>5. CASE \E f \in DOMAIN local :
             (\A g \in DOMAIN local : ~Strictly(g, f)) /\ SetLocal(Without(f))
  <2>1. PICK f \in DOMAIN local : local' = Without(f)
    BY <1>5 DEF SetLocal
  <2> QED BY <1>a, <2>1, NoteRemoved DEF Folded
<1> QED BY <1>2, <1>3, <1>4, <1>5 DEF LocalEdit

\* The note an effect writes is of a page.
Writes(op) ==
  op.kind \notin RemoteKinds \cup {"conflict", "move-local"} =>
    /\ op.note \in Notes /\ op.note.page = op.page /\ op.page \in Pages

LEMMA ApplyLocalFacts ==
  ASSUME IsFolder(local), Distinct(local), DOMAIN artifacts \subseteq Pages,
         NEW op \in Ops, Writes(op), op.kind = "conflict" => op.page \in Pages, ApplyLocal(op)
  PROVE  /\ IsFolder(local') /\ LocalPages(local') \subseteq LocalPages(local) \cup ({op.page} \cap Pages)
         /\ Loose(local') \subseteq Loose(local) /\ Distinct(local')
         /\ DOMAIN artifacts' \subseteq Pages
         /\ UNCHANGED notion
<1>1. op.kind \notin RemoteKinds /\ UNCHANGED notion /\ op.src \in Paths /\ op.path \in Paths
  BY DEF ApplyLocal, Ops
<1>2. CASE op.kind = "conflict"
  <2>1. artifacts' = Put(artifacts, op.page, op.note) /\ UNCHANGED local
    BY <1>2 DEF ApplyLocal
  <2> QED BY <1>1, <1>2, <2>1 DEF Put
<1>3. CASE op.kind = "move-local"
  <2>1. local' = MoveTree(local, op.src, op.path) /\ UNCHANGED artifacts
    BY <1>3 DEF ApplyLocal, SetLocal
  <2> QED BY <1>1, <2>1, MoveTreeTyped, MoveTreeKeeps
<1>4. CASE op.kind \notin {"conflict", "move-local"}
  <2>1. local' = Put(local, op.path, op.note) /\ UNCHANGED artifacts
    BY <1>4 DEF ApplyLocal, SetLocal
  <2>2. op.note \in Notes /\ op.note.page = op.page /\ op.page \in Pages /\ op.note.page # Nothing
    BY <1>1, <1>4, Constants DEF Writes
  <2> QED BY <1>1, <2>1, <2>2, PutFacts, PutFolder
<1> QED BY <1>2, <1>3, <1>4

-----------------------------------------------------------------------------
(***************************************************************************)
(* What the owner and the effects do to the tree of Notion.                *)
(***************************************************************************)
\* A tree of the workspace with bodies that are.
IsNotion(tree) == IsTree(tree) /\ \A p \in DOMAIN tree : tree[p].body \in Bodies

LEMMA TreeIs ==
  ASSUME NEW tree, IsNotion(tree), NEW p \in DOMAIN tree
  PROVE  /\ p \in Pages /\ tree[p].parent \in Parents /\ tree[p].title \in Titles
         /\ tree[p].body \in Bodies
         /\ tree[p] \in [parent : Parents, title : Titles, body : Nat]
BY DEF IsNotion, IsTree, Parents

KeepsPages(tree, new) == IsNotion(new) /\ DOMAIN new = DOMAIN tree

\* One field of one page is changed.
LEMMA FieldTyped ==
  ASSUME NEW tree, IsNotion(tree), NEW p \in DOMAIN tree
  PROVE  /\ \A body \in Bodies : KeepsPages(tree, WithBody(tree, p, body))
         /\ \A title \in Titles : KeepsPages(tree, WithTitle(tree, p, title))
         /\ \A parent \in DOMAIN tree : KeepsPages(tree, WithParent(tree, p, parent))
<1> DEFINE R == [parent : Parents, title : Titles, body : Nat]
<1>1. tree \in [DOMAIN tree -> R] /\ tree[p] \in R /\ DOMAIN tree \subseteq Pages /\ Root \in DOMAIN tree
  BY DEF IsNotion, IsTree, Parents
<1>2. ASSUME NEW body \in Bodies
      PROVE  KeepsPages(tree, WithBody(tree, p, body))
  <2> DEFINE new == WithBody(tree, p, body)
  <2>1. body \in Nat
    BY Constants
  <2>2. /\ DOMAIN new = DOMAIN tree /\ new \in [DOMAIN tree -> R]
        /\ \A q \in DOMAIN tree : new[q].parent = tree[q].parent
        /\ \A q \in DOMAIN tree : new[q].body \in {body, tree[q].body}
    BY <1>1, <2>1 DEF WithBody
  <2> HIDE DEF new
  <2> QED BY <1>1, <2>2 DEF KeepsPages, IsNotion, IsTree, Parents, new
<1>3. ASSUME NEW title \in Titles
      PROVE  KeepsPages(tree, WithTitle(tree, p, title))
  <2> DEFINE new == WithTitle(tree, p, title)
  <2>2. /\ DOMAIN new = DOMAIN tree /\ new \in [DOMAIN tree -> R]
        /\ \A q \in DOMAIN tree : new[q].parent = tree[q].parent /\ new[q].body = tree[q].body
    BY <1>1 DEF WithTitle
  <2> HIDE DEF new
  <2> QED BY <1>1, <2>2 DEF KeepsPages, IsNotion, IsTree, Parents, new
<1>4. ASSUME NEW parent \in DOMAIN tree
      PROVE  KeepsPages(tree, WithParent(tree, p, parent))
  <2> DEFINE new == WithParent(tree, p, parent)
  <2>1. parent \in Parents
    BY <1>1 DEF Parents
  <2>2. /\ DOMAIN new = DOMAIN tree /\ new \in [DOMAIN tree -> R]
        /\ \A q \in DOMAIN tree : new[q].parent \in {parent, tree[q].parent} /\ new[q].body = tree[q].body
    BY <1>1, <2>1 DEF WithParent
  <2> HIDE DEF new
  <2>3. \A q \in DOMAIN tree \ {Root} : new[q].parent \in DOMAIN tree
    BY <2>2 DEF IsNotion, IsTree
  <2> QED BY <1>1, <2>2, <2>3 DEF KeepsPages, IsNotion, IsTree, Parents, new
<1> QED BY <1>2, <1>3, <1>4

LEMMA PageAdded ==
  ASSUME NEW tree, IsNotion(tree), NEW new \in Others \ DOMAIN tree, NEW parent \in DOMAIN tree,
         NEW title \in Titles, NEW body \in Bodies
  PROVE  LET grown == Put(tree, new, [parent |-> parent, title |-> title, body |-> body])
         IN  /\ IsNotion(grown) /\ DOMAIN grown = DOMAIN tree \cup {new}
             /\ \A p \in DOMAIN tree : grown[p] = tree[p]
<1> DEFINE page == [parent |-> parent, title |-> title, body |-> body]
           grown == Put(tree, new, page)
           R == [parent : Parents, title : Titles, body : Nat]
<1>1. tree \in [DOMAIN tree -> R] /\ DOMAIN tree \subseteq Pages /\ Root \in DOMAIN tree
  BY DEF IsNotion, IsTree, Parents
<1>2. page \in R /\ page.parent = parent /\ page.body = body
  BY <1>1, Constants DEF Parents
<1> HIDE DEF page
<1>3. /\ DOMAIN grown = DOMAIN tree \cup {new} /\ grown[new] = page
      /\ grown \in [DOMAIN tree \cup {new} -> R]
      /\ \A p \in DOMAIN tree : grown[p] = tree[p]
  BY <1>1, <1>2 DEF Put
<1>4. new \in Pages /\ new # Root
  BY <1>1 DEF Pages
<1> HIDE DEF grown
<1>5. IsNotion(grown)
  BY <1>1, <1>2, <1>3, <1>4 DEF IsNotion, IsTree, Parents
<1> QED BY <1>3, <1>5 DEF grown, page

LEMMA PageRemoved ==
  ASSUME NEW tree, IsNotion(tree), NEW p \in DOMAIN tree, p # Root, \A q \in DOMAIN tree : tree[q].parent # p
  PROVE  IsNotion([q \in DOMAIN tree \ {p} |-> tree[q]])
<1> DEFINE new == [q \in DOMAIN tree \ {p} |-> tree[q]]
           R == [parent : Parents, title : Titles, body : Nat]
<1>1. tree \in [DOMAIN tree -> R] /\ DOMAIN tree \subseteq Pages /\ Root \in DOMAIN tree
  BY DEF IsNotion, IsTree, Parents
<1>2. DOMAIN new = DOMAIN tree \ {p} /\ new \in [DOMAIN new -> R] /\ \A q \in DOMAIN new : new[q] = tree[q]
  BY <1>1
<1> HIDE DEF new
<1> QED BY <1>1, <1>2 DEF IsNotion, IsTree, Parents, new

\* What Notion holds is on record from then on.
LEMMA SetRemoteHolds ==
  ASSUME NEW tree, IsNotion(tree), SetRemote(tree)
  PROVE  IsNotion(remote') /\ DOMAIN remote' \subseteq Held' /\ Held \subseteq Held' /\ remote' = tree
<1>1. /\ remote' = tree /\ DOMAIN tree \subseteq Pages
      /\ \A p \in Pages : pageHeld'[p] = pageHeld[p] \cup (IF p \in DOMAIN tree THEN {tree[p].body} ELSE {})
  BY DEF SetRemote, IsNotion, IsTree
<1> QED BY <1>1 DEF Held

LEMMA HeldStays ==
  ASSUME UNCHANGED pageHeld
  PROVE  Held' = Held
BY DEF Held

LEMMA RemoteEditFacts ==
  ASSUME NotionInv, RemoteEdit
  PROVE  NotionInv' /\ Held \subseteq Held'
<1> DEFINE WithNew(p, new, t) == Put(remote, new, [parent |-> p, title |-> t, body |-> Token])
<1>1. IsNotion(remote) /\ Token \in Bodies /\ edits' \in 0 .. MaxEdits
  BY TokenIs DEF NotionInv, IsNotion, RemoteEdit, OwnerStep
<1>2. UNCHANGED <<opaque, madeFrom>>
  BY DEF RemoteEdit, OwnerStep
<1>3. \E tree : IsNotion(tree) /\ SetRemote(tree)
  <2>1. PICK p \in DOMAIN remote :
         \/ ~(p = Root /\ opaque) /\ SetRemote(WithBody(remote, p, Token))
         \/ \E t \in Names \ {remote[p].title} : SetRemote(WithTitle(remote, p, t))
         \/ \E q \in DOMAIN remote :
              /\ p # Root /\ remote[p].parent # q /\ p \notin Lineage(remote, {q})
              /\ SetRemote(WithParent(remote, p, q))
         \/ \E new \in Fresh, t \in Names :
              /\ new = CHOOSE q \in Fresh : TRUE
              /\ SetRemote(WithNew(p, new, t))
         \/ /\ p # Root /\ \A q \in DOMAIN remote : remote[q].parent # p
            /\ SetRemote([q \in DOMAIN remote \ {p} |-> remote[q]])
    BY DEF RemoteEdit
  <2>2. CASE ~(p = Root /\ opaque) /\ SetRemote(WithBody(remote, p, Token))
    BY <1>1, <2>2, FieldTyped DEF KeepsPages
  <2>3. CASE \E t \in Names \ {remote[p].title} : SetRemote(WithTitle(remote, p, t))
    BY <1>1, <2>3, FieldTyped, Constants DEF KeepsPages
  <2>4. CASE \E q \in DOMAIN remote :
              /\ p # Root /\ remote[p].parent # q /\ p \notin Lineage(remote, {q})
              /\ SetRemote(WithParent(remote, p, q))
    BY <1>1, <2>4, FieldTyped DEF KeepsPages
  <2>5. CASE \E new \in Fresh, t \in Names :
              /\ new = CHOOSE q \in Fresh : TRUE
              /\ SetRemote(WithNew(p, new, t))
    <3>1. PICK new \in Fresh, t \in Names : SetRemote(WithNew(p, new, t))
      BY <2>5
    <3>2. new \in Others \ DOMAIN remote /\ t \in Titles
      BY Constants DEF Fresh, NotionInv, Held
    <3>3. IsNotion(WithNew(p, new, t))
      BY <1>1, <3>2, PageAdded
    <3> QED BY <3>1, <3>3
  <2>6. CASE /\ p # Root /\ \A q \in DOMAIN remote : remote[q].parent # p
             /\ SetRemote([q \in DOMAIN remote \ {p} |-> remote[q]])
    BY <1>1, <2>6, PageRemoved
  <2> HIDE DEF WithNew
  <2> QED BY <2>1, <2>2, <2>3, <2>4, <2>5, <2>6
<1>4. IsNotion(remote') /\ DOMAIN remote' \subseteq Held' /\ Held \subseteq Held'
  BY <1>3, SetRemoteHolds
<1> QED BY <1>1, <1>2, <1>4 DEF NotionInv, IsNotion

\* A remote effect leaves every page but its own as it is; a page it creates
\* was in nobody's hands before.
LEMMA ApplyRemoteFacts ==
  ASSUME NotionInv, NEW op \in Ops, op.kind = "create-remote" => op.page = Nothing,
         op.kind # "create-remote" => op.page \in Pages, ApplyRemote(op), UNCHANGED <<opaque, edits>>
  PROVE  /\ NotionInv' /\ Held \subseteq Held' /\ UNCHANGED vault
         /\ DOMAIN remote \subseteq DOMAIN remote'
         /\ \A p \in DOMAIN remote : p # op.page => remote'[p] = remote[p]
         /\ \A p \in DOMAIN remote : op.kind # "body" => remote'[p].body = remote[p].body
         /\ op.kind # "create-remote" => UNCHANGED madeFrom
         /\ op.kind = "create-remote" =>
              LocalReady(op) /\ \E new \in Fresh : madeFrom' = Put(madeFrom, new, op.body)
<1>1. /\ IsNotion(remote) /\ op.kind \in RemoteKinds /\ Subject(op) \in DOMAIN remote
      /\ op.title \in Titles /\ op.body \in Bodies /\ UNCHANGED vault
  BY DEF NotionInv, IsNotion, ApplyRemote, AsTaken, Ops
<1>s. op.kind # "create-remote" => op.page \in DOMAIN remote
  BY <1>1, Constants DEF Subject
<1>t. Root \in DOMAIN remote /\ DOMAIN remote \subseteq Pages
  BY <1>1 DEF IsNotion, IsTree
<1>2. CASE op.kind = "create-remote"
  <2> DEFINE new == CHOOSE q \in Fresh : TRUE
             page == [parent |-> op.parent, title |-> op.title, body |-> op.body]
             grown == Put(remote, new, page)
  <2>1. LocalReady(op) /\ Fresh # {} /\ SetRemote(grown) /\ madeFrom' = Put(madeFrom, new, op.body)
    BY <1>2 DEF ApplyRemote
  <2>2. new \in Fresh
    BY <2>1
  <2> HIDE DEF new
  <2>3. new \in Others \ DOMAIN remote /\ op.parent \in DOMAIN remote
    BY <2>2, <1>1, <1>2 DEF Fresh, NotionInv, Held, Subject
  <2>4. IsNotion(grown) /\ DOMAIN grown = DOMAIN remote \cup {new} /\ \A p \in DOMAIN remote : grown[p] = remote[p]
    BY <1>1, <2>3, PageAdded
  <2> HIDE DEF grown
  <2>5. IsNotion(remote') /\ DOMAIN remote' \subseteq Held' /\ Held \subseteq Held' /\ remote' = grown
    BY <2>1, <2>4, SetRemoteHolds
  <2>6. DOMAIN madeFrom' \subseteq Others \cap Held' /\ madeFrom' \in [DOMAIN madeFrom' -> Bodies]
    <3>1. /\ DOMAIN madeFrom' = DOMAIN madeFrom \cup {new}
          /\ madeFrom' = [k \in DOMAIN madeFrom \cup {new} |-> IF k = new THEN op.body ELSE madeFrom[k]]
      BY <2>1 DEF Put
    <3>2. new \in DOMAIN remote'
      BY <2>4, <2>5
    <3> QED BY <3>1, <3>2, <2>3, <2>5, <1>1 DEF NotionInv
  <2>7. NotionInv'
    BY <2>5, <2>6 DEF NotionInv, IsNotion
  <2> QED BY <1>1, <1>2, <2>1, <2>2, <2>4, <2>5, <2>7
<1>3. CASE op.kind = "body"
  <2>1. SetRemote(WithBody(remote, op.page, op.body)) /\ UNCHANGED madeFrom
    BY <1>3 DEF ApplyRemote
  <2>2. KeepsPages(remote, WithBody(remote, op.page, op.body))
    BY <1>1, <1>s, <1>3, FieldTyped
  <2>3. \A p \in DOMAIN remote : p # op.page => WithBody(remote, op.page, op.body)[p] = remote[p]
    BY DEF WithBody
  <2>4. IsNotion(remote') /\ DOMAIN remote' \subseteq Held' /\ Held \subseteq Held'
        /\ remote' = WithBody(remote, op.page, op.body)
    BY <2>1, <2>2, SetRemoteHolds DEF KeepsPages
  <2>5. NotionInv'
    BY <2>1, <2>4 DEF NotionInv, IsNotion
  <2> QED BY <1>1, <1>3, <2>1, <2>2, <2>3, <2>4, <2>5 DEF KeepsPages
<1>4. CASE op.kind = "title"
  <2>1. SetRemote(WithTitle(remote, op.page, op.title)) /\ UNCHANGED madeFrom
    BY <1>4 DEF ApplyRemote
  <2>2. KeepsPages(remote, WithTitle(remote, op.page, op.title))
    BY <1>1, <1>s, <1>4, FieldTyped
  <2>3. \A p \in DOMAIN remote : /\ p # op.page => WithTitle(remote, op.page, op.title)[p] = remote[p]
                                 /\ WithTitle(remote, op.page, op.title)[p].body = remote[p].body
    BY <1>1, TreeIs DEF WithTitle
  <2>4. IsNotion(remote') /\ DOMAIN remote' \subseteq Held' /\ Held \subseteq Held'
        /\ remote' = WithTitle(remote, op.page, op.title)
    BY <2>1, <2>2, SetRemoteHolds DEF KeepsPages
  <2>5. NotionInv'
    BY <2>1, <2>4 DEF NotionInv, IsNotion
  <2> QED BY <1>1, <1>4, <2>1, <2>2, <2>3, <2>4, <2>5 DEF KeepsPages
<1>5. CASE op.kind = "parent"
  <2>1. op.parent \in DOMAIN remote /\ SetRemote(WithParent(remote, op.page, op.parent)) /\ UNCHANGED madeFrom
    BY <1>5 DEF ApplyRemote
  <2>2. KeepsPages(remote, WithParent(remote, op.page, op.parent))
    BY <1>1, <1>s, <1>5, <2>1, FieldTyped
  <2>3. \A p \in DOMAIN remote : /\ p # op.page => WithParent(remote, op.page, op.parent)[p] = remote[p]
                                 /\ WithParent(remote, op.page, op.parent)[p].body = remote[p].body
    BY <1>1, TreeIs DEF WithParent
  <2>4. IsNotion(remote') /\ DOMAIN remote' \subseteq Held' /\ Held \subseteq Held'
        /\ remote' = WithParent(remote, op.page, op.parent)
    BY <2>1, <2>2, SetRemoteHolds DEF KeepsPages
  <2>5. NotionInv'
    BY <2>1, <2>4 DEF NotionInv, IsNotion
  <2> QED BY <1>1, <1>5, <2>1, <2>2, <2>3, <2>4, <2>5 DEF KeepsPages
<1> QED BY <1>1, <1>2, <1>3, <1>4, <1>5 DEF RemoteKinds

-----------------------------------------------------------------------------
(***************************************************************************)
(* The effects that are left.                                              *)
(***************************************************************************)
LEMMA HeadIs ==
  ASSUME NEW ops, NEW current, NEW b, NEW opq, WorkOps(ops, current, b, opq), ops # <<>>
  PROVE  /\ Head(ops) \in Ops /\ WorkFacts(Head(ops), current, b, opq)
         /\ Head(ops) = ops[1] /\ 1 \in DOMAIN ops
         /\ Tail(ops) \in Seq(Ops) /\ Len(Tail(ops)) = Len(ops) - 1 /\ Len(ops) \in Nat
         /\ DOMAIN Tail(ops) = 1 .. Len(ops) - 1 /\ DOMAIN ops = 1 .. Len(ops)
         /\ \A k \in DOMAIN Tail(ops) : Tail(ops)[k] = ops[k + 1] /\ k + 1 \in DOMAIN ops
<1>1. /\ ops \in Seq(Ops) /\ Head(ops) \in Ops /\ Head(ops) = ops[1] /\ Tail(ops) \in Seq(Ops)
      /\ Len(Tail(ops)) = Len(ops) - 1 /\ \A i \in 1 .. Len(Tail(ops)) : Tail(ops)[i] = ops[i + 1]
  BY HeadTailProperties DEF WorkOps
<1>2. Len(ops) \in Nat /\ Len(ops) > 0 /\ DOMAIN ops = 1 .. Len(ops)
  BY <1>1, LenProperties, EmptySeq DEF WorkOps
<1>3. DOMAIN Tail(ops) = 1 .. Len(Tail(ops))
  BY <1>1, LenProperties
<1>4. 1 \in DOMAIN ops /\ \A k \in 1 .. Len(ops) - 1 : k + 1 \in DOMAIN ops
  BY <1>2
<1> QED BY <1>1, <1>2, <1>3, <1>4 DEF WorkOps

\* What is left when the first effect is done, and what follows it.
LEMMA TailWorks ==
  ASSUME NEW ops, NEW current, NEW b, NEW opq, WorkOps(ops, current, b, opq), ops # <<>>
  PROVE  /\ WorkOps(Tail(ops), current, b, opq)
         /\ Head(ops).kind = "body" =>
              \A k \in DOMAIN Tail(ops) : Tail(ops)[k].kind = "body" => Tail(ops)[k].page # Head(ops).page
         /\ Head(ops).kind \in Makers =>
              \A k \in DOMAIN Tail(ops) : Tail(ops)[k].kind \in {"create-remote", "mark"}
         /\ \A k \in DOMAIN Tail(ops) : Tail(ops)[k].kind # "rebind"
<1>1. /\ Head(ops) = ops[1] /\ 1 \in DOMAIN ops /\ Len(ops) \in Nat
      /\ Tail(ops) \in Seq(Ops) /\ DOMAIN Tail(ops) = 1 .. Len(ops) - 1 /\ DOMAIN ops = 1 .. Len(ops)
      /\ \A k \in DOMAIN Tail(ops) : Tail(ops)[k] = ops[k + 1] /\ k + 1 \in DOMAIN ops
  BY HeadIs
<1>2. /\ \A k \in DOMAIN ops : WorkFacts(ops[k], current, b, opq)
      /\ OneBody(ops) /\ MakesLast(ops) /\ BindsFirst(ops)
  BY DEF WorkOps
<1>3. \A k \in DOMAIN Tail(ops) : WorkFacts(Tail(ops)[k], current, b, opq)
  BY <1>1, <1>2
<1>4. OneBody(Tail(ops))
  <2> SUFFICES ASSUME NEW k \in DOMAIN Tail(ops), NEW l \in DOMAIN Tail(ops), Tail(ops)[k].kind = "body",
                      Tail(ops)[l].kind = "body", Tail(ops)[k].page = Tail(ops)[l].page
               PROVE  k = l
    BY DEF OneBody
  <2>1. k + 1 = l + 1
    BY <1>1, <1>2 DEF OneBody
  <2> QED BY <2>1, <1>1
<1>5. MakesLast(Tail(ops))
  <2> SUFFICES ASSUME NEW k \in DOMAIN Tail(ops), NEW l \in DOMAIN Tail(ops), k < l,
                      Tail(ops)[k].kind \in Makers
               PROVE  Tail(ops)[l].kind \in {"create-remote", "mark"}
    BY DEF MakesLast
  <2>1. k + 1 < l + 1
    BY <1>1
  <2> QED BY <2>1, <1>1, <1>2 DEF MakesLast
<1>6. ASSUME NEW k \in DOMAIN Tail(ops), Head(ops).kind = "body", Tail(ops)[k].kind = "body"
      PROVE  Tail(ops)[k].page # Head(ops).page
  <2>1. 1 # k + 1
    BY <1>1
  <2> QED BY <2>1, <1>1, <1>2, <1>6 DEF OneBody
<1>7. ASSUME NEW k \in DOMAIN Tail(ops), Head(ops).kind \in Makers
      PROVE  Tail(ops)[k].kind \in {"create-remote", "mark"}
  <2>1. 1 < k + 1
    BY <1>1
  <2> QED BY <2>1, <1>1, <1>2, <1>7 DEF MakesLast
<1>8. \A k \in DOMAIN Tail(ops) : Tail(ops)[k].kind # "rebind"
  <2>1. \A k \in DOMAIN Tail(ops) : k + 1 > 1
    BY <1>1
  <2> QED BY <2>1, <1>1, <1>2 DEF BindsFirst
<1>9. BindsFirst(Tail(ops))
  BY <1>8 DEF BindsFirst
<1> QED BY <1>1, <1>3, <1>4, <1>5, <1>6, <1>7, <1>8, <1>9 DEF WorkOps

\* A page is taken to be what it has become.
LEMMA TakenWorks ==
  ASSUME NEW ops, NEW current, NEW b, NEW opq, WorkOps(ops, current, b, opq), NEW p, NEW seen,
         \A k \in DOMAIN ops : ops[k].kind = "body" /\ ops[k].page = p => seen.body = b[p].body
  PROVE  WorkOps(ops, Put(current, p, seen), b, opq)
<1> DEFINE new == Put(current, p, seen)
<1>1. /\ DOMAIN new = DOMAIN current \cup {p}
      /\ \A q \in DOMAIN new : new[q] = IF q = p THEN seen ELSE current[q]
  BY DEF Put
<1> HIDE DEF new
<1>2. ASSUME NEW k \in DOMAIN ops PROVE WorkFacts(ops[k], new, b, opq)
  <2>1. WorkFacts(ops[k], current, b, opq)
    BY DEF WorkOps
  <2>2. ops[k].kind = "body" => ops[k].page \in DOMAIN current
    BY <2>1, Constants DEF WorkFacts, OpFacts, Subject
  <2>3. ops[k].kind = "body" => new[ops[k].page].body = b[ops[k].page].body
    BY <1>1, <2>1, <2>2 DEF WorkFacts
  <2>4. Subject(ops[k]) \in DOMAIN new
    BY <1>1, <2>1 DEF WorkFacts
  <2> QED BY <2>1, <2>3, <2>4 DEF WorkFacts
<1> QED BY <1>2 DEF WorkOps, new

LEMMA TakenTyped ==
  ASSUME NEW current, IsCurrent(current), NEW p \in Pages, NEW seen \in Observations
  PROVE  IsCurrent(Put(current, p, seen)) /\ DOMAIN Put(current, p, seen) = DOMAIN current \cup {p}
BY DEF IsCurrent, Put

\* An effect put before creations and markings.
LEMMA PrefixWorks ==
  ASSUME NEW ops, NEW current, NEW b, NEW opq, WorkOps(ops, current, b, opq),
         NEW o \in Ops, WorkFacts(o, current, b, opq), o.kind # "body",
         \A k \in DOMAIN ops : ops[k].kind \in {"create-remote", "mark"}
  PROVE  WorkOps(<<o>> \o ops, current, b, opq) /\ <<o>> \o ops # <<>> /\ Head(<<o>> \o ops) = o
<1> DEFINE new == <<o>> \o ops
<1>1. <<o>> \in Seq(Ops) /\ Len(<<o>>) = 1 /\ ops \in Seq(Ops) /\ <<o>>[1] = o
  BY DEF WorkOps
<1>2. /\ new \in Seq(Ops) /\ Len(new) = 1 + Len(ops) /\ Len(ops) \in Nat /\ DOMAIN ops = 1 .. Len(ops)
      /\ \A k \in 1 .. 1 + Len(ops) : new[k] = IF k <= 1 THEN <<o>>[k] ELSE ops[k - 1]
  BY <1>1, ConcatProperties, LenProperties
<1>3. DOMAIN new = 1 .. 1 + Len(ops)
  BY <1>2, LenProperties
<1> HIDE DEF new
<1>4. ASSUME NEW k \in DOMAIN new
      PROVE  \/ k = 1 /\ new[k] = o
             \/ k > 1 /\ k - 1 \in DOMAIN ops /\ new[k] = ops[k - 1]
  BY <1>1, <1>2, <1>3
<1>5. \A k \in DOMAIN new : WorkFacts(new[k], current, b, opq)
  BY <1>4 DEF WorkOps
<1>6. \A k \in DOMAIN new : k > 1 => new[k].kind \in {"create-remote", "mark"}
  BY <1>4, <1>3
<1>7. OneBody(new)
  <2>1. \A k \in DOMAIN new : new[k].kind # "body"
    BY <1>4, <1>6
  <2> QED BY <2>1 DEF OneBody
<1>8. MakesLast(new)
  <2>1. \A k, l \in DOMAIN new : k < l => l > 1
    BY <1>3
  <2> QED BY <2>1, <1>6 DEF MakesLast
<1>9. new # <<>>
  BY <1>2, EmptySeq
<1>10. BindsFirst(new)
  BY <1>6 DEF BindsFirst
<1>11. Head(new) = o
  <2>1. Head(new) = new[1] /\ 1 \in DOMAIN new
    BY <1>2, <1>3, <1>9, HeadTailProperties
  <2> QED BY <2>1, <1>4
<1> QED BY <1>2, <1>5, <1>7, <1>8, <1>9, <1>10, <1>11 DEF WorkOps, new

LEMMA AppendedPair ==
  ASSUME NEW S, NEW r \in S, NEW m \in S
  PROVE  Append(<<r>>, m) = <<r, m>>
<1> DEFINE s == Append(<<r>>, m)
           t == <<r, m>>
<1>1. s \in Seq(S) /\ Len(s) = 2 /\ s[1] = r /\ s[2] = m
  OBVIOUS
<1>2. t \in Seq(S) /\ Len(t) = 2 /\ t[1] = r /\ t[2] = m
  OBVIOUS
<1> HIDE DEF s, t
<1>3. \A i \in 1..2 : s[i] = t[i]
  BY <1>1, <1>2
<1>4. \A i \in 1..Len(s) : s[i] = t[i]
  BY <1>1, <1>3
<1>5. s = t
  BY <1>1, <1>2, <1>4, SeqEqual
<1> QED BY <1>5 DEF s, t

LEMMA PairPrefix ==
  ASSUME NEW r \in Ops, NEW m \in Ops, NEW t \in Seq(Ops)
  PROVE  <<r, m>> \o t = <<r>> \o (<<m>> \o t)
<1>1. <<r>> \in Seq(Ops) /\ <<m>> \in Seq(Ops)
  OBVIOUS
<1>2. <<r, m>> = <<r>> \o <<m>>
  <2>1. Append(<<r>>, m) = <<r>> \o <<m>>
    BY <1>1, AppendIsConcat
  <2>2. Append(<<r>>, m) = <<r, m>>
    BY AppendedPair
  <2> QED BY <2>1, <2>2
<1>3. (<<r>> \o <<m>>) \o t = <<r>> \o (<<m>> \o t)
  BY <1>1, ConcatAssociative
<1> QED BY <1>2, <1>3

\* The plan, when the run begins.
LEMMA PlanWorks ==
  ASSUME NEW ops, NEW seen, IsSeen(seen), NEW b, NEW opq, IsPlan(ops, seen, b, opq)
  PROVE  LET current == [p \in {Subject(o) : o \in ToSet(ops)} |-> seen[p]]
         IN  /\ WorkOps(ops, current, b, opq)
             /\ IsCurrent(current) /\ DOMAIN current \subseteq DOMAIN seen
             /\ ops # <<>> => Head(ops).kind # "rebind"
<1> DEFINE P == {o \in Ops : /\ OpFacts(o, b, opq) /\ Subject(o) \in DOMAIN seen
                             /\ o.kind = "body" => seen[o.page].body = b[o.page].body}
           D == {Subject(o) : o \in ToSet(ops)}
           current == [p \in D |-> seen[p]]
<1>1. ops \in Seq(P) /\ OneBody(ops) /\ CreatesLast(ops)
  BY DEF IsPlan
<1>2. \A k \in DOMAIN ops : ops[k] \in P
  BY <1>1, LenProperties, ElementOfSeq
<1>3. \A k \in DOMAIN ops : Subject(ops[k]) \in D
  BY DEF ToSet
<1>4. D \subseteq DOMAIN seen
  BY <1>2 DEF ToSet
<1>5. ops \in Seq(Ops)
  BY <1>1, SeqMonotonic
<1>6. DOMAIN current = D /\ \A p \in D : current[p] = seen[p]
  OBVIOUS
<1> HIDE DEF current, D
<1>7. ASSUME NEW k \in DOMAIN ops PROVE WorkFacts(ops[k], current, b, opq)
  <2>1. /\ OpFacts(ops[k], b, opq) /\ Subject(ops[k]) \in DOMAIN seen
        /\ ops[k].kind = "body" => seen[ops[k].page].body = b[ops[k].page].body
    BY <1>2
  <2>2. Subject(ops[k]) \in D /\ ops[k].kind \notin {"rebind", "mark"}
    BY <1>3, <2>1 DEF OpFacts
  <2>3. ops[k].kind = "body" => Subject(ops[k]) = ops[k].page
    BY <2>1, Constants DEF Subject, OpFacts
  <2> QED BY <1>6, <2>1, <2>2, <2>3 DEF WorkFacts
<1>8. MakesLast(ops) /\ BindsFirst(ops)
  <2>1. \A k \in DOMAIN ops : /\ ops[k].kind \in Makers => ops[k].kind = "create-remote"
                              /\ ops[k].kind # "rebind"
    BY <1>2 DEF OpFacts, Makers
  <2> QED BY <2>1, <1>1 DEF MakesLast, CreatesLast, BindsFirst
<1>9. IsCurrent(current)
  <2>1. \A p \in D : seen[p] \in Observations /\ p \in Pages
    BY <1>4 DEF IsSeen
  <2>2. current = [p \in D |-> current[p]]
    BY DEF current
  <2> QED BY <2>1, <2>2, <1>6 DEF IsCurrent
<1>10. WorkOps(ops, current, b, opq)
  BY <1>1, <1>5, <1>7, <1>8 DEF WorkOps
<1>11. ASSUME ops # <<>> PROVE Head(ops).kind # "rebind"
  <2>1. Head(ops) \in P
    BY <1>1, <1>11, HeadTailProperties
  <2> QED BY <2>1 DEF OpFacts
<1> QED BY <1>4, <1>6, <1>9, <1>10, <1>11 DEF current, D

-----------------------------------------------------------------------------
(***************************************************************************)
(* Where a behaviour starts.                                               *)
(***************************************************************************)
LEMMA SeenTyped ==
  ASSUME NEW tree, IsNotion(tree), NEW opq
  PROVE  /\ IsSeen(Seen(tree, opq)) /\ DOMAIN Seen(tree, opq) = DOMAIN tree
         /\ \A p \in DOMAIN tree : Observed(tree, opq, p) \in Observations
<1>1. ASSUME NEW p \in DOMAIN tree
      PROVE  Observed(tree, opq, p) \in Observations /\ Observed(tree, opq, p).parent = tree[p].parent
  <2>1. /\ tree[p].parent \in Parents /\ tree[p].title \in Titles /\ tree[p].body \in Bodies
        /\ DOMAIN tree \subseteq Pages
    BY TreeIs DEF IsNotion, IsTree
  <2>2. {q \in DOMAIN tree : tree[q].parent = p} \in SUBSET Pages
    BY <2>1
  <2> HIDE DEF Observations
  <2> DEFINE k == {q \in DOMAIN tree : tree[q].parent = p}
             x == IF p = Root /\ opq THEN 0 ELSE tree[p].body
  <2>3. x \in Bodies /\ k \in SUBSET Pages
    BY <2>1, <2>2, Constants
  <2>4. Observed(tree, opq, p) = [parent |-> tree[p].parent, title |-> tree[p].title, body |-> x, kids |-> k]
    BY DEF Observed
  <2> HIDE DEF x, k
  <2> QED BY <2>1, <2>3, <2>4 DEF Observations
<1>2. Seen(tree, opq) = [p \in DOMAIN tree |-> Observed(tree, opq, p)]
  BY DEF Seen
<1>3. /\ DOMAIN Seen(tree, opq) = DOMAIN tree
      /\ \A p \in DOMAIN tree : Seen(tree, opq)[p] = Observed(tree, opq, p)
  BY <1>2
<1>4. Seen(tree, opq) \in [DOMAIN tree -> Observations]
  BY <1>1, <1>2
<1>5. IsSeen(Seen(tree, opq))
  BY <1>1, <1>3, <1>4 DEF IsSeen, IsNotion, IsTree
<1> QED BY <1>1, <1>3, <1>5

LEMMA MirrorTyped ==
  ASSUME NEW tree, IsNotion(tree), NEW opq
  PROVE  /\ IsFolder(Mirror(tree, opq))
         /\ \A f \in DOMAIN Mirror(tree, opq) : Mirror(tree, opq)[f].page \in DOMAIN tree
<1> DEFINE seen == Seen(tree, opq)
           to == Projected(seen)
           D == {to[p] : p \in DOMAIN tree}
           owner(f) == CHOOSE q \in DOMAIN tree : to[q] = f
           note(p) == [page |-> p, parent |-> tree[p].parent,
                       link |-> IF p = Root THEN Nothing ELSE to[tree[p].parent],
                       body |-> tree[p].body, kids |-> seen[p].kids]
           new == Mirror(tree, opq)
<1>1. IsSeen(seen) /\ DOMAIN seen = DOMAIN tree
  BY SeenTyped
<1>2. to \in [DOMAIN tree -> Paths]
  BY <1>1, ProjectedTyped
<1>3. new = [f \in D |-> note(owner(f))]
  BY DEF Mirror
<1> HIDE DEF seen, to
<1>4. ASSUME NEW p \in DOMAIN tree PROVE note(p) \in Notes /\ note(p).page = p
  <2>1. p \in Pages /\ tree[p].parent \in Parents /\ tree[p].body \in Bodies
    BY TreeIs
  <2>2. seen[p].kids \in SUBSET Pages
    BY <1>1 DEF IsSeen, Observations
  <2>3. (IF p = Root THEN Nothing ELSE to[tree[p].parent]) \in Paths \cup {Nothing}
    BY <1>2 DEF IsNotion, IsTree
  <2> QED BY <2>1, <2>2, <2>3 DEF Notes, Parents
<1>5. \A f \in D : owner(f) \in DOMAIN tree
  OBVIOUS
<1>6. IsFiniteSet(D)
  <2>1. IsFiniteSet(DOMAIN tree)
    BY PagesFinite, FS_Subset DEF IsNotion, IsTree
  <2>2. DOMAIN to = DOMAIN tree
    BY <1>2
  <2>3. IsFiniteSet({to[p] : p \in DOMAIN tree})
    BY <2>1, <2>2, ImageFinite
  <2> QED BY <2>3
<1>7. D \subseteq Paths
  BY <1>2
<1> HIDE DEF note, owner, D
<1>8. DOMAIN new = D /\ \A f \in D : new[f] = note(owner(f))
  BY <1>3
<1>9. new \in [D -> Notes]
  BY <1>3, <1>4, <1>5
<1>10. \A f \in DOMAIN new : new[f].page \in DOMAIN tree
  BY <1>4, <1>5, <1>8
<1> HIDE DEF new
<1>11. IsFolder(new)
  BY <1>6, <1>7, <1>8, <1>9 DEF IsFolder
<1> QED BY <1>10, <1>11 DEF new

LEMMA RecordedTyped ==
  ASSUME NEW tree, IsNotion(tree), NEW opq
  PROVE  IsTable(Recorded(tree, opq)) /\ DOMAIN Recorded(tree, opq) = DOMAIN tree
<1> DEFINE seen == Seen(tree, opq)
           c == [seen |-> seen, to |-> Projected(seen)]
<1>1. IsSeen(seen) /\ DOMAIN seen = DOMAIN tree /\ Projected(seen) \in [DOMAIN seen -> Paths]
  BY SeenTyped, ProjectedTyped
<1>2. Recorded(tree, opq) = [p \in DOMAIN tree |-> Desired(c, p)]
  BY DEF Recorded
<1> HIDE DEF seen
<1>3. ASSUME NEW p \in DOMAIN tree PROVE Desired(c, p) \in Records
  <2>1. seen[p] \in Observations /\ Projected(seen)[p] \in Paths
    BY <1>1 DEF IsSeen
  <2> QED BY <2>1, StatusesAre DEF Desired, Records, Observations
<1>4. DOMAIN tree \subseteq Pages
  BY DEF IsNotion, IsTree
<1> HIDE DEF c
<1> QED BY <1>2, <1>3, <1>4 DEF IsTable

LEMMA InitHolds ==
  ASSUME Init
  PROVE  Inv
<1>1. IsNotion(remote) /\ opaque \in BOOLEAN
  <2>1. PICK start \in Starts : remote = start.tree /\ opaque = start.opaque
    BY DEF Init
  <2> QED BY <2>1, StartsAssumption, Constants DEF IsNotion
<1>2. /\ open = {} /\ fence = FALSE /\ run = Idle /\ edits = 0 /\ madeFrom = <<>>
      /\ \A p \in Pages : p \in DOMAIN remote => pageHeld[p] = {0, 1}
      /\ DOMAIN remote \subseteq Pages
  BY <1>1 DEF Init, IsNotion, IsTree
<1>3. DOMAIN remote \subseteq Held
  BY <1>2 DEF Held
<1>4. DOMAIN madeFrom = {} /\ madeFrom \in [{} -> Bodies]
  BY <1>2
<1>5. NotionInv
  BY <1>1, <1>2, <1>3, <1>4, Constants DEF NotionInv, IsNotion
<1> DEFINE mirror == Mirror(remote, opaque)
           was == Recorded(remote, opaque)
<1>6. /\ IsFolder(mirror) /\ \A f \in DOMAIN mirror : mirror[f].page \in DOMAIN remote
      /\ IsTable(was) /\ DOMAIN was = DOMAIN remote
  BY <1>1, MirrorTyped, RecordedTyped
<1>7. /\ IsFolder(local) /\ \A f \in DOMAIN local : local[f].page \in DOMAIN remote
      /\ IsState(base) /\ DOMAIN artifacts \subseteq Pages
  <2>1. CASE InStep
    <3>1. local = mirror /\ base \in {was, Nothing} /\ artifacts = <<>>
      BY <2>1 DEF InStep
    <3> HIDE DEF mirror, was
    <3> QED BY <1>6, <3>1, TableIsState DEF IsState
  <2>2. CASE NoFolder
    <3>1. local = <<>> /\ base = Nothing /\ artifacts = <<>>
      BY <2>2 DEF NoFolder
    <3>2. DOMAIN local = {} /\ local \in [{} -> Notes] /\ DOMAIN artifacts = {}
      BY <3>1
    <3> QED BY <3>1, <3>2, FS_EmptySet DEF IsFolder, IsState
  <2>3. CASE Divided
    <3>1. PICK p \in DOMAIN remote \ {Root} :
            /\ local = [mirror EXCEPT ![PathOf(mirror, p)].body = Mine]
            /\ base = [was EXCEPT ![p].body = 0, ![p].status = "conflict"]
            /\ artifacts = [q \in {p} |-> [local |-> Mine, remote |-> 1]]
      BY <2>3 DEF Divided
    <3> HIDE DEF mirror, was
    <3>2. Mine \in Bodies
      BY Constants
    <3>3. \A n \in Notes : [n EXCEPT !.body = Mine] \in Notes /\ [n EXCEPT !.body = Mine].page = n.page
      BY <3>2 DEF Notes
    <3> DEFINE f == PathOf(mirror, p)
    <3>4. DOMAIN local = DOMAIN mirror /\ local \in [DOMAIN mirror -> Notes]
          /\ \A g \in DOMAIN mirror : local[g].page = mirror[g].page
      <4> HIDE DEF f, Notes
      <4>1. mirror \in [DOMAIN mirror -> Notes]
        BY <1>6 DEF IsFolder
      <4>2. local = [mirror EXCEPT ![f].body = Mine]
        BY <3>1 DEF f
      <4> QED BY <3>3, <4>1, <4>2
    <3>5. IsFolder(local)
      BY <1>6, <3>4 DEF IsFolder
    <3>6. IsState(base)
      <4>1. was \in [DOMAIN was -> Records] /\ DOMAIN was \subseteq Pages
        BY <1>6 DEF IsTable
      <4>2. \A r \in Records : [[r EXCEPT !.body = 0] EXCEPT !.status = "conflict"] \in Records
        BY StatusesAre, Constants DEF Records
      <4> DEFINE mid == [was EXCEPT ![p].body = 0]
      <4>3. \A r \in Records : [r EXCEPT !.body = 0] \in Records /\ [r EXCEPT !.status = "conflict"] \in Records
        BY StatusesAre, Constants DEF Records
      <4> HIDE DEF Records
      <4>4. mid \in [DOMAIN was -> Records] /\ DOMAIN mid = DOMAIN was
        BY <4>1, <4>3
      <4>5. base = [mid EXCEPT ![p].status = "conflict"]
        BY <3>1
      <4> HIDE DEF mid
      <4>6. base \in [DOMAIN was -> Records] /\ DOMAIN base = DOMAIN was
        BY <4>3, <4>4, <4>5
      <4> QED BY <4>1, <4>6 DEF IsState
    <3> QED BY <1>2, <1>6, <3>1, <3>4, <3>5, <3>6
  <2> QED BY <2>1, <2>2, <2>3 DEF Init
<1>8. Bare(local) = {} /\ LocalPages(local) \subseteq DOMAIN remote
  BY <1>2, <1>7, Constants DEF Bare, LocalPages, Owned
<1>9. VaultInv /\ StateInv
  BY <1>2, <1>3, <1>7, <1>8 DEF VaultInv, StateInv
<1>10. RunInv /\ HeadInv
  BY <1>2 DEF RunInv, HeadInv, Idle, Working
<1>11. Loose(local) = {} /\ Origins = {}
  BY <1>4, <1>8 DEF Loose, Origins
<1>12. TextInv /\ OpenInv
  BY <1>2, <1>4, <1>8, <1>11 DEF TextInv, OpenInv, Distinct, NeverCreatedTwice
<1> QED BY <1>5, <1>9, <1>10, <1>12 DEF Inv

-----------------------------------------------------------------------------
(***************************************************************************)
(* The steps that are no effect.                                           *)
(***************************************************************************)
LEMMA SidesStay ==
  ASSUME Inv, UNCHANGED <<notion, vault, opaque, edits>>
  PROVE  NotionInv' /\ VaultInv' /\ TextInv' /\ Held' = Held
<1>1. Held' = Held /\ Origins' = Origins /\ Token' = Token
  BY HeldStays DEF notion, Origins, Token
<1>2. UNCHANGED <<remote, madeFrom, local, artifacts, opaque, edits>>
  BY DEF notion, vault
<1> QED BY <1>1, <1>2 DEF Inv, NotionInv, VaultInv, TextInv, NeverCreatedTwice

LEMMA Unworked ==
  ASSUME run'.at \in {"idle", "save"}, run'.at = "save" => IsState(run'.next)
  PROVE  RunInv' /\ HeadInv'
BY DEF RunInv, HeadInv, Working

LEMMA RecoverKeeps ==
  ASSUME Inv, Recover
  PROVE  Inv'
<1>1. /\ run = Idle /\ run.at = "idle"
      /\ UNCHANGED <<notion, vault, fence, run, opaque, edits>>
  BY DEF Recover, Idle
<1>2. NotionInv' /\ VaultInv' /\ TextInv' /\ UNCHANGED <<local, madeFrom>>
  BY <1>1, SidesStay DEF vault, notion
<1>3. RunInv' /\ HeadInv'
  BY <1>1, Unworked
<1>4. PICK op \in open :
         \/ Provable(op) /\ open' = open \ {op} /\ UNCHANGED base
         \/ base' = MarkedFor(op) /\ UNCHANGED open
  BY DEF Recover
<1>5. StateInv'
  BY <1>1, <1>4, MarkedForTyped DEF Inv, StateInv
<1>6. OpenInv'
  <2>1. Origins' = Origins
    BY <1>2 DEF Origins
  <2>2. CASE UNCHANGED open
    BY <1>2, <2>1, <2>2 DEF Inv, OpenInv, Covers
  <2>3. CASE Provable(op) /\ open' = open \ {op}
    <3>1. op.kind # "create-remote"
      BY <2>3 DEF Provable
    <3>2. ASSUME op.kind = "rebind" PROVE op.body \notin Loose(local)
      <4>1. op.path \in DOMAIN local /\ local[op.path].page = op.page
        BY <2>3, <3>2 DEF Provable
      <4>2. op.page \in Pages /\ (op.page \in LocalPages(local) => op.body \notin Loose(local))
        BY <3>2 DEF Inv, OpenInv
      <4>3. op.path \in Owned(local)
        BY <4>1, <4>2, Constants DEF Owned
      <4> QED BY <4>1, <4>2, <4>3 DEF LocalPages
    <3>3. \A x \in Loose(local) \cap Origins : \E o \in open \ {op} : o.kind \in {"create-remote", "rebind"} /\ o.body = x
      BY <3>1, <3>2 DEF Inv, OpenInv, Covers
    <3> QED BY <1>2, <2>1, <2>3, <3>3 DEF Inv, OpenInv, Covers
  <2> QED BY <1>4, <2>2, <2>3
<1> QED BY <1>2, <1>3, <1>5, <1>6 DEF Inv

LEMMA OpenStays ==
  ASSUME OpenInv, UNCHANGED <<open, local, madeFrom>>
  PROVE  OpenInv'
<1>1. Origins' = Origins
  BY DEF Origins
<1> QED BY <1>1 DEF OpenInv, Covers

LEMMA DiscoverKeeps ==
  ASSUME Inv, Discover
  PROVE  Inv'
<1>1. /\ run = Idle /\ open = {} /\ UNCHANGED <<notion, vault, base, open, fence, opaque, edits>>
      /\ run' = [at |-> "scan", seen |-> Seen(remote, opaque)]
  BY DEF Discover, durable, bounds
<1>2. NotionInv' /\ VaultInv' /\ TextInv' /\ Held' = Held /\ UNCHANGED <<local, madeFrom>>
  BY <1>1, SidesStay DEF vault, notion
<1>3. IsSeen(run'.seen) /\ DOMAIN run'.seen = DOMAIN remote
  BY <1>1, SeenTyped DEF Inv, NotionInv, IsNotion
<1>4. RunInv' /\ HeadInv'
  BY <1>1, <1>2, <1>3 DEF RunInv, HeadInv, Working, Inv, NotionInv
<1>5. StateInv' /\ OpenInv'
  BY <1>1, <1>2, OpenStays DEF Inv, StateInv
<1> QED BY <1>2, <1>4, <1>5 DEF Inv

\* Whatever a plan is, the run that executes it is one.
LEMMA ExecuteRuns ==
  ASSUME Inv, NEW plan, NEW seen, (IsSeen(seen) /\ DOMAIN seen \subseteq Held) \/ plan.ops = <<>>,
         IsPlan(plan.ops, seen, base, opaque), IsState(plan.next), open = {}, Execute(plan, seen),
         UNCHANGED <<notion, vault, base, open, opaque, edits>>
  PROVE  Inv'
<1> DEFINE current == [p \in {Subject(o) : o \in ToSet(plan.ops)} |-> seen[p]]
           started == [at |-> IF plan.ops = <<>> THEN "save" ELSE "begin", ops |-> plan.ops,
                       next |-> plan.next, done |-> <<>>, current |-> current]
<1>1. NotionInv' /\ VaultInv' /\ TextInv' /\ Held' = Held /\ UNCHANGED <<local, madeFrom>>
  BY SidesStay DEF vault, notion
<1>2. OpenInv'
  BY <1>1, OpenStays DEF Inv
<1>3. StateInv'
  BY DEF Execute, Inv, StateInv
<1>4. CASE plan.ops = <<>>
  <2>1. run'.at \in {"idle", "save"} /\ (run'.at = "save" => IsState(run'.next))
    BY <1>4 DEF Execute, Idle
  <2> QED BY <1>1, <1>2, <1>3, <2>1, Unworked DEF Inv
<1>5. CASE plan.ops # <<>>
  <2>1. IsSeen(seen) /\ DOMAIN seen \subseteq Held
    BY <1>5
  <2>2. WorkOps(plan.ops, current, base, opaque) /\ IsCurrent(current) /\ DOMAIN current \subseteq DOMAIN seen
        /\ Head(plan.ops).kind # "rebind"
    BY <1>5, <2>1, PlanWorks
  <2>3. run' = started /\ fence' = TRUE
    BY <1>5 DEF Execute
  <2> HIDE DEF current
  <2>4. /\ run'.at = "begin" /\ run'.ops = plan.ops /\ run'.next = plan.next /\ run'.done = <<>>
        /\ run'.current = current
        /\ run' = [at |-> run'.at, ops |-> run'.ops, next |-> run'.next, done |-> run'.done,
                   current |-> run'.current]
    BY <1>5, <2>3
  <2>5. <<>> \in Seq(Outcomes)
    OBVIOUS
  <2> HIDE DEF started
  <2>6. RunInv'
    BY <1>1, <1>5, <2>1, <2>2, <2>3, <2>4, <2>5 DEF RunInv, Working
  <2>7. HeadInv'
    BY <2>4 DEF HeadInv
  <2> QED BY <1>1, <1>2, <1>3, <2>6, <2>7 DEF Inv
<1> QED BY <1>4, <1>5

LEMMA DiscoveryFailsKeeps ==
  ASSUME Inv, DiscoveryFails
  PROVE  Inv'
<1>1. /\ open = {} /\ UNCHANGED <<notion, vault, base, open, opaque, edits>>
      /\ \E S : Execute(Refused(base, S), <<>>)
  BY DEF DiscoveryFails
<1>2. PICK S : Execute(Refused(base, S), <<>>)
  BY <1>1
<1> DEFINE plan == Refused(base, S)
<1>3. plan.ops = <<>> /\ IsState(plan.next)
  BY WithStatusTyped, StatusesAre DEF Refused, Inv, StateInv
<1>4. IsPlan(plan.ops, <<>>, base, opaque)
  BY <1>3 DEF IsPlan, OneBody, CreatesLast
<1> HIDE DEF plan
<1>5. Execute(plan, <<>>)
  BY <1>2 DEF plan
<1> QED BY <1>1, <1>3, <1>4, <1>5, ExecuteRuns

LEMMA ScanKeeps ==
  ASSUME Inv, Scan
  PROVE  Inv'
<1> DEFINE plan == Plan(run.seen, local, base, opaque)
<1>1. /\ run.at = "scan" /\ Execute(plan, run.seen)
      /\ UNCHANGED <<notion, vault, base, open, opaque, edits>>
  BY DEF Scan, bounds
<1>2. IsSeen(run.seen) /\ DOMAIN run.seen \subseteq Held /\ open = {}
  BY <1>1 DEF Inv, RunInv
<1>3. IsPlan(plan.ops, run.seen, base, opaque) /\ IsState(plan.next)
  BY <1>2, PlanTyped DEF Inv, VaultInv, StateInv
<1> HIDE DEF plan
<1> QED BY <1>1, <1>2, <1>3, ExecuteRuns

LEMMA SaveKeeps ==
  ASSUME Inv, Save
  PROVE  Inv'
<1>1. /\ run.at = "save" /\ base' = run.next /\ fence' = FALSE /\ run' = Idle
      /\ UNCHANGED <<notion, vault, open, opaque, edits>>
  BY DEF Save, bounds
<1>2. NotionInv' /\ VaultInv' /\ TextInv' /\ UNCHANGED <<local, madeFrom>>
  BY <1>1, SidesStay DEF vault, notion
<1>3. StateInv' /\ OpenInv'
  BY <1>1, <1>2, OpenStays DEF Inv, StateInv, RunInv
<1>4. RunInv' /\ HeadInv'
  BY <1>1, Unworked DEF Idle
<1> QED BY <1>2, <1>3, <1>4 DEF Inv

LEMMA CrashKeeps ==
  ASSUME Inv, Crash
  PROVE  Inv'
<1>1. /\ base' = base \/ (run.at = "save" /\ base' = run.next)
      /\ run' = Idle /\ UNCHANGED <<notion, vault, open, fence, opaque, edits>>
  BY DEF Crash
<1>2. NotionInv' /\ VaultInv' /\ TextInv' /\ UNCHANGED <<local, madeFrom>>
  BY <1>1, SidesStay DEF vault, notion
<1>3. StateInv' /\ OpenInv'
  BY <1>1, <1>2, OpenStays DEF Inv, StateInv, RunInv
<1>4. RunInv' /\ HeadInv'
  BY <1>1, Unworked DEF Idle
<1> QED BY <1>2, <1>3, <1>4 DEF Inv

\* The run in progress holds what it held; more may have been in Notion.
LEMMA RunStays ==
  ASSUME RunInv, Held \subseteq Held', UNCHANGED <<run, base, open, fence, opaque>>
  PROVE  RunInv'
BY DEF RunInv, Working

LEMMA RemoteEditKeeps ==
  ASSUME Inv, RemoteEdit
  PROVE  Inv'
<1>1. /\ UNCHANGED <<opaque, base, artifacts, open, fence, run, madeFrom, local>>
      /\ edits' = edits + 1 /\ edits \in 0 .. MaxEdits
  BY DEF RemoteEdit, OwnerStep, Inv, NotionInv
<1>2. NotionInv' /\ Held \subseteq Held'
  BY RemoteEditFacts DEF Inv
<1>3. VaultInv' /\ StateInv'
  BY <1>1, <1>2 DEF Inv, VaultInv, StateInv
<1>4. RunInv'
  BY <1>1, <1>2, RunStays DEF Inv
<1>5. Origins' = Origins
  BY <1>1 DEF Origins
<1>6. \A x \in Loose(local) \cup Origins : x \in Nat /\ x < Token /\ x < Token'
  <2>1. \A x \in Loose(local) : x \in Nat
    BY Constants DEF Loose, Bare, Inv, VaultInv, IsFolder, Notes
  <2>2. \A x \in Origins : x \in Nat
    BY Constants DEF Origins, Inv, NotionInv
  <2> QED BY <1>1, <2>1, <2>2, Constants DEF Inv, TextInv, Token
<1>7. TextInv'
  BY <1>1, <1>5, <1>6 DEF Inv, TextInv, NeverCreatedTwice
<1>8. OpenInv' /\ HeadInv'
  BY <1>1, <1>5, OpenStays DEF Inv, HeadInv, Unmade, JustMade
<1> QED BY <1>2, <1>3, <1>4, <1>7, <1>8 DEF Inv

LEMMA LocalEditKeeps ==
  ASSUME Inv, LocalEdit
  PROVE  Inv'
<1>1. /\ UNCHANGED <<opaque, base, open, fence, run, madeFrom, remote, pageHeld>>
      /\ edits' = edits + 1 /\ edits \in 0 .. MaxEdits /\ edits < MaxEdits
  BY DEF LocalEdit, OwnerStep, Inv, NotionInv
<1>2. Folded(local') /\ UNCHANGED artifacts
  BY <1>1, LocalEditFacts DEF Inv, VaultInv, TextInv
<1>3. Held' = Held /\ Origins' = Origins /\ edits' \in 0 .. MaxEdits
  BY <1>1, HeldStays, TokenIs DEF Origins
<1>4. NotionInv' /\ VaultInv' /\ StateInv'
  BY <1>1, <1>2, <1>3 DEF Inv, NotionInv, VaultInv, StateInv, Folded
<1>5. RunInv'
  BY <1>1, <1>3, RunStays DEF Inv
<1>6. \A x \in Loose(local) \cup Origins : x \in Nat /\ x < Token /\ x # Token /\ x < Token'
  <2>1. \A x \in Loose(local) : x \in Nat
    BY Constants DEF Loose, Bare, Inv, VaultInv, IsFolder, Notes
  <2>2. \A x \in Origins : x \in Nat
    BY Constants DEF Origins, Inv, NotionInv
  <2> QED BY <1>1, <2>1, <2>2, Constants DEF Inv, TextInv, Token
<1>7. Token < Token'
  BY <1>1 DEF Token
<1>8. /\ Loose(local') \subseteq Loose(local) \cup {Token} /\ Distinct(local')
      /\ LocalPages(local') \subseteq LocalPages(local)
  BY <1>2 DEF Folded
<1>9. TextInv'
  BY <1>1, <1>3, <1>6, <1>7, <1>8 DEF Inv, TextInv, NeverCreatedTwice
<1>10. Token \notin Origins
  BY <1>6
<1>11. OpenInv'
  BY <1>1, <1>3, <1>8, <1>10 DEF Inv, OpenInv, Covers
<1>12. HeadInv'
  BY <1>1, <1>3, <1>8, <1>10 DEF Inv, HeadInv, Unmade, JustMade
<1> QED BY <1>4, <1>5, <1>9, <1>11, <1>12 DEF Inv

-----------------------------------------------------------------------------
(***************************************************************************)
(* The effects.                                                            *)
(***************************************************************************)
\* A run at work, as a record.
LEMMA WorkIs ==
  ASSUME Inv, Working
  PROVE  /\ run = [at |-> run.at, ops |-> run.ops, next |-> run.next, done |-> run.done,
                   current |-> run.current]
         /\ WorkOps(run.ops, run.current, base, opaque) /\ run.ops # <<>>
         /\ IsCurrent(run.current) /\ DOMAIN run.current \subseteq Held
         /\ run.done \in Seq(Outcomes) /\ IsState(run.next) /\ fence = TRUE
BY DEF Inv, RunInv

LEMMA NowTyped ==
  ASSUME NotionInv, NEW p \in DOMAIN remote
  PROVE  Now(p) \in Observations /\ p \in Pages /\ p \in Held
BY SeenTyped DEF NotionInv, IsNotion, IsTree, Now

\* A run whose effect failed is left with its state to save.
LEMMA FailRuns ==
  ASSUME Inv, Working, NEW done \in Seq(Outcomes), Fail(done)
  PROVE  RunInv' /\ HeadInv'
<1>1. /\ run'.at = "save"
      /\ run'.next = WithAttention(Verified(done), Failing(Head(run.ops)))
  BY WorkIs DEF Fail
<1>2. IsState(run'.next)
  BY <1>1, VerifiedTyped, WithAttentionTyped DEF Inv, StateInv
<1> QED BY <1>1, <1>2, Unworked

\* A working run in its next step.
LEMMA WorkGoesOn ==
  ASSUME NEW at \in {"begin", "effect", "settle"}, NEW ops, NEW next, NEW done, NEW current,
         run' = [at |-> at, ops |-> ops, next |-> next, done |-> done, current |-> current],
         WorkOps(ops, current, base', opaque'), ops # <<>>, IsCurrent(current), DOMAIN current \subseteq Held',
         done \in Seq(Outcomes), IsState(next), fence' = TRUE,
         at = "begin" => open' = {} /\ Head(ops).kind # "rebind",
         at \in {"effect", "settle"} => open' = {Head(ops)} /\ Begun(Head(ops))
  PROVE  RunInv' /\ run'.ops = ops /\ run'.at = at
<1>1. /\ run'.at = at /\ run'.ops = ops /\ run'.next = next /\ run'.done = done /\ run'.current = current
      /\ run' = [at |-> run'.at, ops |-> run'.ops, next |-> run'.next, done |-> run'.done,
                 current |-> run'.current]
  OBVIOUS
<1> QED BY <1>1 DEF RunInv, Working

LEMMA NothingCovered ==
  ASSUME Inv, open = {}
  PROVE  Loose(local) \cap Origins = {}
BY DEF Inv, OpenInv, Covers

LEMMA MarkingTyped ==
  ASSUME Inv, NEW op \in Ops, op.kind = "mark", op.page \in Pages, op.page \in DOMAIN remote,
         op.path \in DOMAIN local, local[op.path].page = op.page, op.src = op.path
  PROVE  /\ Marking(op) \in Ops /\ Begun(Marking(op)) /\ Marking(op).kind = "mark"
         /\ Marking(op).page = op.page /\ Marking(op).src = Marking(op).path
<1> DEFINE seen == Now(op.page)
           note == [page |-> op.page, parent |-> seen.parent,
                    link |-> IF op.page = Root THEN Nothing ELSE Front(op.path),
                    body |-> seen.body, kids |-> seen.kids]
           x == [op EXCEPT !.parent = seen.parent, !.title = seen.title, !.body = seen.body]
           y == [x EXCEPT !.kids = seen.kids, !.old = local[op.path], !.note = note]
<1>1. seen \in Observations
  BY NowTyped DEF Inv
<1>2. seen.parent \in Parents /\ seen.title \in Titles /\ seen.body \in Bodies /\ seen.kids \in SUBSET Pages
  BY <1>1 DEF Observations
<1>3. local[op.path] \in Notes /\ op.path \in Paths
  BY DEF Inv, VaultInv, IsFolder, Ops
<1> HIDE DEF seen
<1>4. note \in Notes /\ note.page = op.page
  BY <1>2, <1>3, FrontTyped DEF Notes, Parents
<1> HIDE DEF note
<1>5. x \in Ops /\ x.kind = "mark" /\ x.page = op.page /\ x.src = op.path /\ x.path = op.path
  BY <1>2 DEF Ops
<1> HIDE DEF x
<1>6. /\ y \in Ops /\ y.kind = "mark" /\ y.page = op.page /\ y.src = op.path /\ y.path = op.path
      /\ y.note = note /\ y.old = local[op.path]
  BY <1>2, <1>3, <1>4, <1>5 DEF Ops
<1>7. Marking(op) = y
  BY DEF Marking, y, x, seen, note
<1> HIDE DEF y
<1> QED BY <1>3, <1>4, <1>6, <1>7 DEF Begun

LEMMA BeginKeeps ==
  ASSUME Inv, Begin
  PROVE  Inv'
<1> DEFINE op == Head(run.ops)
           m == Marking(op)
           taken == Put(run.current, op.page, Now(op.page))
<1>1. /\ run.at = "begin" /\ Working /\ open = {}
      /\ UNCHANGED <<notion, vault, base, fence, opaque, edits, local, madeFrom, remote, pageHeld>>
  BY DEF Begin, bounds, Working, Inv, RunInv, notion, vault
<1>2. NotionInv' /\ VaultInv' /\ TextInv' /\ Held' = Held /\ Origins' = Origins
  BY <1>1, SidesStay DEF Origins
<1>3. /\ op \in Ops /\ WorkFacts(op, run.current, base, opaque)
      /\ op.kind # "rebind"
  BY <1>1, WorkIs, HeadIs DEF Inv, RunInv
<1>n. Loose(local) \cap Origins = {}
  BY <1>1, NothingCovered
<1>4. CASE Fail(run.done) /\ UNCHANGED open
  <2>1. RunInv' /\ HeadInv'
    BY <1>1, <1>4, WorkIs, FailRuns
  <2>2. StateInv' /\ OpenInv'
    BY <1>1, <1>4, OpenStays DEF Inv, StateInv
  <2> QED BY <1>2, <2>1, <2>2 DEF Inv
<1>5. CASE /\ op.kind = "mark" /\ op.page \in DOMAIN remote
           /\ op.path \in Owned(local) /\ local[op.path].page = op.page
           /\ open' = open \cup {m}
           /\ run' = [run EXCEPT !.at = "effect", !.ops = <<m>> \o Tail(@),
                                 !.current = Put(@, op.page, Now(op.page))]
  <2>1. /\ op.page \in Pages /\ op.src = op.path /\ op.path \in DOMAIN local
        /\ op.page \in Priors(base) => base[op.page].status # "conflict"
    BY <1>3, <1>5 DEF WorkFacts, Owned
  <2>2. m \in Ops /\ Begun(m) /\ m.kind = "mark" /\ m.page = op.page /\ m.src = m.path
    BY <1>3, <1>5, <2>1, MarkingTyped
  <2>3. Now(op.page) \in Observations /\ op.page \in Held
    BY <1>5, NowTyped DEF Inv
  <2>4. /\ WorkOps(Tail(run.ops), run.current, base, opaque)
        /\ \A k \in DOMAIN Tail(run.ops) : Tail(run.ops)[k].kind \in {"create-remote", "mark"}
    BY <1>1, <1>5, WorkIs, TailWorks DEF Makers
  <2>5. WorkOps(Tail(run.ops), taken, base, opaque)
    <3>1. \A k \in DOMAIN Tail(run.ops) : Tail(run.ops)[k].kind # "body"
      BY <2>4
    <3> QED BY <2>4, <3>1, TakenWorks
  <2>6. /\ IsCurrent(taken) /\ DOMAIN taken = DOMAIN run.current \cup {op.page}
    BY <1>1, <2>1, <2>3, WorkIs, TakenTyped
  <2> HIDE DEF m, op
  <2>7. WorkFacts(m, taken, base, opaque)
    BY <2>1, <2>2, <2>6, Constants DEF WorkFacts, Subject
  <2>8. WorkOps(<<m>> \o Tail(run.ops), taken, base, opaque) /\ <<m>> \o Tail(run.ops) # <<>>
        /\ Head(<<m>> \o Tail(run.ops)) = m
    BY <2>2, <2>4, <2>5, <2>7, PrefixWorks
  <2> DEFINE ops == <<m>> \o Tail(run.ops)
  <2>9. run' = [at |-> "effect", ops |-> ops, next |-> run.next, done |-> run.done, current |-> taken]
    BY <1>1, <1>5, WorkIs
  <2> HIDE DEF ops, taken
  <2>10. RunInv' /\ run'.ops = ops /\ run'.at = "effect"
    <3>1. WorkOps(ops, taken, base', opaque') /\ ops # <<>> /\ Head(ops) = m
      BY <1>1, <2>8 DEF ops
    <3>2. DOMAIN taken \subseteq Held' /\ fence' = TRUE /\ open' = {Head(ops)} /\ Begun(Head(ops))
      BY <1>1, <1>2, <1>5, <2>2, <2>3, <2>6, <3>1, WorkIs
    <3>3. run.done \in Seq(Outcomes) /\ IsState(run.next)
      BY <1>1, WorkIs
    <3> QED BY <2>6, <2>9, <3>1, <3>2, <3>3, WorkGoesOn
  <2>11. HeadInv'
    BY <2>2, <2>8, <2>10 DEF HeadInv, ops
  <2>12. StateInv' /\ OpenInv'
    BY <1>1, <1>2, <1>5, <1>n, <2>2 DEF Inv, StateInv, OpenInv
  <2> QED BY <1>2, <2>10, <2>11, <2>12 DEF Inv
<1>6. CASE op.kind # "mark" /\ open' = open \cup {op} /\ run' = [run EXCEPT !.at = "effect"]
  <2>1. run' = [at |-> "effect", ops |-> run.ops, next |-> run.next, done |-> run.done, current |-> run.current]
    BY <1>1, <1>6, WorkIs
  <2>2. RunInv' /\ run'.ops = run.ops
    <3>1. open' = {Head(run.ops)} /\ Begun(Head(run.ops))
      BY <1>1, <1>6 DEF Begun
    <3>2. /\ WorkOps(run.ops, run.current, base', opaque') /\ run.ops # <<>>
          /\ IsCurrent(run.current) /\ DOMAIN run.current \subseteq Held'
          /\ run.done \in Seq(Outcomes) /\ IsState(run.next) /\ fence' = TRUE
      BY <1>1, <1>2, WorkIs
    <3> QED BY <2>1, <3>1, <3>2, WorkGoesOn
  <2>3. HeadInv'
    BY <1>1, <1>2, <1>n, <2>1, <2>2 DEF HeadInv, Unmade
  <2>4. StateInv' /\ OpenInv'
    BY <1>1, <1>2, <1>3, <1>6, <1>n DEF Inv, StateInv, OpenInv
  <2> QED BY <1>2, <2>2, <2>3, <2>4 DEF Inv
<1> QED BY <1>4, <1>5, <1>6 DEF Begin

LEMMA WorkingOp ==
  ASSUME Inv, run.at \in {"effect", "settle"}, NEW op, op = Head(run.ops)
  PROVE  /\ Working /\ op \in Ops /\ WorkFacts(op, run.current, base, opaque) /\ open = {op} /\ Begun(op)
         /\ op.kind \in Kinds
         /\ op.kind = "create-remote" =>
              /\ op.page = Nothing /\ op.parent \in Pages /\ op.src = op.path
              /\ op.old \in Notes /\ op.old.page = Nothing /\ op.old.body = op.body
         /\ op.kind # "create-remote" => op.page \in Pages /\ op.page \in DOMAIN run.current
         /\ op.page \in Pages => op.page \in Held
<1>1. Working /\ op \in Ops /\ WorkFacts(op, run.current, base, opaque) /\ open = {op} /\ Begun(op)
  BY WorkIs, HeadIs DEF Inv, RunInv, Working
<1>2. op.kind \in Kinds
  BY <1>1 DEF Ops
<1>3. /\ op.kind = "create-remote" =>
              /\ op.page = Nothing /\ op.parent \in Pages /\ op.src = op.path
              /\ op.old \in Notes /\ op.old.page = Nothing /\ op.old.body = op.body
      /\ op.kind # "create-remote" => op.page \in Pages
  BY <1>1 DEF WorkFacts, OpFacts
<1>4. op.page \in Pages => op.page \in DOMAIN run.current
  BY <1>1, Constants DEF WorkFacts, Subject
<1>5. DOMAIN run.current \subseteq Held
  BY <1>1, WorkIs
<1> QED BY <1>1, <1>2, <1>3, <1>4, <1>5

\* The candidate an effect finds is one of the bare notes.
LEMMA CandidateFound ==
  ASSUME NEW op, LocalReady(op), op.kind \in {"create-remote", "rebind"}, op.old.page = Nothing,
         op.old.body = op.body
  PROVE  /\ op.src \in Bare(local) /\ local[op.src].body = op.body /\ op.body \in Loose(local)
         /\ local[op.src] = op.old
<1>1. op.src \in DOMAIN local /\ local[op.src] = op.old
  BY DEF LocalReady
<1> QED BY <1>1 DEF Bare, Loose

\* An effect takes place, whatever becomes of the run.
LEMMA LocalApplied ==
  ASSUME Inv, run.at = "effect", NEW op, op = Head(run.ops), ApplyLocal(op),
         UNCHANGED <<base, open, fence, opaque, edits>>
  PROVE  /\ NotionInv' /\ VaultInv' /\ TextInv' /\ StateInv' /\ OpenInv'
         /\ Held' = Held
<1>1. /\ op \in Ops /\ WorkFacts(op, run.current, base, opaque) /\ open = {op} /\ Begun(op)
      /\ op.kind \in Kinds
      /\ op.kind # "create-remote" => op.page \in Pages
      /\ op.page \in Pages => op.page \in Held
  BY WorkingOp
<1>2. op.kind \notin RemoteKinds
  BY DEF ApplyLocal
<1>3. Writes(op)
  BY <1>1, <1>2 DEF Writes, WorkFacts, OpFacts, Begun, Kinds, RemoteKinds
<1>4. /\ IsFolder(local') /\ LocalPages(local') \subseteq LocalPages(local) \cup ({op.page} \cap Pages)
      /\ Loose(local') \subseteq Loose(local) /\ Distinct(local')
      /\ DOMAIN artifacts' \subseteq Pages
      /\ UNCHANGED notion
  BY <1>1, <1>2, <1>3, ApplyLocalFacts DEF Inv, VaultInv, TextInv, RemoteKinds
<1>5. /\ UNCHANGED <<remote, pageHeld, madeFrom>> /\ Held' = Held /\ Origins' = Origins /\ Token' = Token
  BY <1>4, HeldStays DEF notion, Origins, Token
<1>6. NotionInv' /\ StateInv'
  BY <1>5 DEF Inv, NotionInv, StateInv
<1>7. VaultInv'
  BY <1>1, <1>4, <1>5 DEF Inv, VaultInv
<1>8. TextInv'
  BY <1>4, <1>5 DEF Inv, TextInv, NeverCreatedTwice
<1>9. ASSUME op.kind = "rebind" PROVE op.body \notin Loose(local')
  <2>1. op.old.page = Nothing /\ op.old.body = op.body /\ op.src = op.path /\ op.note.page # Nothing
    BY <1>1, <1>9, Constants DEF WorkFacts
  <2>2. LocalReady(op) /\ local' = Put(local, op.path, op.note)
    BY <1>9 DEF ApplyLocal, SetLocal
  <2>3. op.path \in Bare(local) /\ local[op.path].body = op.body
    BY <1>9, <2>1, <2>2, CandidateFound
  <2>4. Bare(local') = Bare(local) \ {op.path}
    BY <2>1, <2>2, PutFacts
  <2>5. \A f \in Bare(local') : local'[f] = local[f]
    BY <2>2, <2>4 DEF Put, Bare
  <2> QED BY <2>3, <2>4, <2>5 DEF Loose, Inv, TextInv, Distinct
<1>10. OpenInv'
  BY <1>1, <1>4, <1>5, <1>9 DEF Inv, OpenInv, Covers
<1> QED BY <1>5, <1>6, <1>7, <1>8, <1>10

LEMMA RemoteApplied ==
  ASSUME Inv, run.at = "effect", NEW op, op = Head(run.ops), ApplyRemote(op),
         UNCHANGED <<base, open, fence, opaque, edits>>
  PROVE  /\ NotionInv' /\ VaultInv' /\ TextInv' /\ StateInv' /\ OpenInv'
         /\ Held \subseteq Held'
         /\ op.kind = "create-remote" =>
              /\ op.body \in Origins'
              /\ \A p \in DOMAIN madeFrom' : madeFrom'[p] = op.body => p \notin LocalPages(local')
<1>1. /\ op \in Ops /\ open = {op}
      /\ op.kind = "create-remote" => /\ op.page = Nothing /\ op.old.page = Nothing /\ op.old.body = op.body
      /\ op.kind # "create-remote" => op.page \in Pages
  BY WorkingOp
<1>2. /\ NotionInv' /\ Held \subseteq Held' /\ UNCHANGED vault
      /\ op.kind # "create-remote" => UNCHANGED madeFrom
      /\ op.kind = "create-remote" =>
           LocalReady(op) /\ \E new \in Fresh : madeFrom' = Put(madeFrom, new, op.body)
  BY <1>1, ApplyRemoteFacts DEF Inv
<1>3. UNCHANGED <<local, artifacts>> /\ op.kind \in RemoteKinds /\ Token' = Token
  BY <1>2 DEF vault, ApplyRemote, Token
<1>4. VaultInv' /\ StateInv'
  BY <1>2, <1>3 DEF Inv, VaultInv, StateInv
<1>5. CASE op.kind # "create-remote"
  <2>1. UNCHANGED madeFrom /\ Origins' = Origins
    BY <1>2, <1>5 DEF Origins
  <2>2. TextInv'
    BY <1>3, <2>1 DEF Inv, TextInv, NeverCreatedTwice
  <2>3. OpenInv'
    BY <1>3, <2>1 DEF Inv, OpenInv, Covers
  <2> QED BY <1>2, <1>4, <1>5, <2>2, <2>3
<1>6. CASE op.kind = "create-remote"
  <2>1. op.body \in Loose(local) /\ op.body < Token
    BY <1>1, <1>2, <1>6, CandidateFound DEF Inv, TextInv
  <2>2. op.body \notin Origins
    BY <1>6, <2>1 DEF Inv, HeadInv, Unmade
  <2>3. PICK new \in Fresh : madeFrom' = Put(madeFrom, new, op.body)
    BY <1>2, <1>6
  <2>4. new \in Pages /\ new \notin Held /\ new \notin LocalPages(local) /\ new \notin DOMAIN madeFrom
    BY DEF Fresh, Held, Pages, Inv, VaultInv, NotionInv
  <2>5. /\ DOMAIN madeFrom' = DOMAIN madeFrom \cup {new} /\ madeFrom'[new] = op.body
        /\ \A p \in DOMAIN madeFrom : madeFrom'[p] = madeFrom[p] /\ madeFrom[p] # op.body
    BY <2>2, <2>3, <2>4 DEF Put, Origins
  <2>6. Origins' = Origins \cup {op.body}
    BY <2>5 DEF Origins
  <2>7. NeverCreatedTwice'
    BY <2>5 DEF NeverCreatedTwice, Inv, TextInv
  <2>8. TextInv'
    BY <1>3, <2>1, <2>6, <2>7 DEF Inv, TextInv
  <2>9. OpenInv'
    BY <1>1, <1>3, <1>6, <2>6 DEF Inv, OpenInv, Covers
  <2>10. \A p \in DOMAIN madeFrom' : madeFrom'[p] = op.body => p \notin LocalPages(local')
    BY <1>3, <2>4, <2>5
  <2> QED BY <1>2, <1>4, <2>6, <2>8, <2>9, <2>10
<1> QED BY <1>5, <1>6

LEMMA EffectApplied ==
  ASSUME Inv, run.at = "effect", NEW op, op = Head(run.ops), ApplyLocal(op) \/ ApplyRemote(op),
         UNCHANGED <<base, open, fence, opaque, edits>>
  PROVE  /\ NotionInv' /\ VaultInv' /\ TextInv' /\ StateInv' /\ OpenInv'
         /\ Held \subseteq Held'
         /\ op.kind = "create-remote" =>
              /\ op.body \in Origins'
              /\ \A p \in DOMAIN madeFrom' : madeFrom'[p] = op.body => p \notin LocalPages(local')
<1>1. CASE ApplyLocal(op)
  <2>1. op.kind # "create-remote"
    BY <1>1 DEF ApplyLocal, RemoteKinds
  <2> QED BY <1>1, <2>1, LocalApplied
<1>2. CASE ApplyRemote(op)
  BY <1>2, RemoteApplied
<1> QED BY <1>1, <1>2

LEMMA EffectKeeps ==
  ASSUME Inv, Effect
  PROVE  Inv'
<1>1. run.at = "effect" /\ Working /\ UNCHANGED <<base, open, fence, opaque, edits>>
  BY DEF Effect, durable, bounds, Working
<1>2. PICK op : op = Head(run.ops)
  OBVIOUS
<1>3. /\ op \in Ops /\ open = {op} /\ Begun(op)
  BY <1>1, <1>2, WorkingOp
<1>4. CASE (ApplyLocal(op) \/ ApplyRemote(op)) /\ run' = [run EXCEPT !.at = "settle"]
  <2>1. /\ NotionInv' /\ VaultInv' /\ TextInv' /\ StateInv' /\ OpenInv' /\ Held \subseteq Held'
        /\ op.kind = "create-remote" =>
              /\ op.body \in Origins'
              /\ \A p \in DOMAIN madeFrom' : madeFrom'[p] = op.body => p \notin LocalPages(local')
    BY <1>1, <1>2, <1>4, EffectApplied
  <2>2. run' = [at |-> "settle", ops |-> run.ops, next |-> run.next, done |-> run.done, current |-> run.current]
    BY <1>1, <1>4, WorkIs
  <2>3. RunInv' /\ run'.ops = run.ops /\ run'.at = "settle"
    <3>1. /\ WorkOps(run.ops, run.current, base', opaque') /\ run.ops # <<>>
          /\ IsCurrent(run.current) /\ DOMAIN run.current \subseteq Held'
          /\ run.done \in Seq(Outcomes) /\ IsState(run.next) /\ fence' = TRUE
      BY <1>1, <2>1, WorkIs
    <3>2. open' = {Head(run.ops)} /\ Begun(Head(run.ops))
      BY <1>1, <1>2, <1>3
    <3> QED BY <2>2, <3>1, <3>2, WorkGoesOn
  <2>4. HeadInv'
    BY <1>2, <2>1, <2>3 DEF HeadInv, JustMade
  <2> QED BY <2>1, <2>3, <2>4 DEF Inv
<1>5. CASE Fail(run.done) /\ UNCHANGED <<notion, vault>>
  <2>1. NotionInv' /\ VaultInv' /\ TextInv' /\ UNCHANGED <<local, madeFrom>>
    BY <1>1, <1>5, SidesStay DEF notion, vault
  <2>2. RunInv' /\ HeadInv'
    BY <1>1, <1>5, WorkIs, FailRuns
  <2>3. StateInv' /\ OpenInv'
    BY <1>1, <2>1, OpenStays DEF Inv, StateInv
  <2> QED BY <2>1, <2>2, <2>3 DEF Inv
<1> QED BY <1>2, <1>4, <1>5 DEF Effect

LEMMA EffectFailsKeeps ==
  ASSUME Inv, EffectFails
  PROVE  Inv'
<1>1. Working /\ Fail(run.done) /\ UNCHANGED <<base, open, fence, opaque, edits>>
  BY DEF EffectFails, durable, Working
<1>2. RunInv' /\ HeadInv'
  BY <1>1, WorkIs, FailRuns
<1>3. CASE UNCHANGED <<notion, vault>>
  <2>1. NotionInv' /\ VaultInv' /\ TextInv' /\ UNCHANGED <<local, madeFrom>>
    BY <1>1, <1>3, SidesStay DEF notion, vault
  <2>2. StateInv' /\ OpenInv'
    BY <1>1, <2>1, OpenStays DEF Inv, StateInv
  <2> QED BY <1>2, <2>1, <2>2 DEF Inv
<1>4. CASE run.at = "effect" /\ (ApplyLocal(Head(run.ops)) \/ ApplyRemote(Head(run.ops)))
  BY <1>1, <1>2, <1>4, EffectApplied DEF Inv
<1> QED BY <1>3, <1>4 DEF EffectFails

\* The intents that follow a creation.
LEMMA RebindTyped ==
  ASSUME NEW op \in Ops, op.kind = "create-remote", op.src = op.path, op.parent \in Pages,
         op.old \in Notes, op.old.page = Nothing, op.old.body = op.body,
         NEW made \in Pages, Now(made) \in Observations
  PROVE  /\ Rebind(op, made) \in Ops /\ Rebind(op, made).kind = "rebind" /\ Rebind(op, made).page = made
         /\ Rebind(op, made).body = op.body /\ Rebind(op, made).src = Rebind(op, made).path
         /\ Rebind(op, made).note \in Notes /\ Rebind(op, made).note.page = made
         /\ Rebind(op, made).old = op.old
<1> DEFINE kids == Now(made).kids
           note == [page |-> made, parent |-> op.parent, link |-> Front(op.path), body |-> op.body,
                    kids |-> {}]
           x == [op EXCEPT !.kind = "rebind", !.page = made]
           y == [x EXCEPT !.kids = kids, !.note = note]
<1>1. kids \in SUBSET Pages
  BY DEF Observations
<1> HIDE DEF kids
<1>2. op.path \in Paths /\ op.body \in Bodies
  BY DEF Ops
<1>3. note \in Notes /\ note.page = made
  BY <1>2, FrontTyped DEF Notes, Parents
<1> HIDE DEF note
<1>4. "rebind" \in Kinds /\ made \in Parents
  BY DEF Kinds, Parents
<1>5. /\ x \in Ops /\ x.kind = "rebind" /\ x.page = made /\ x.src = op.src /\ x.path = op.path
      /\ x.body = op.body /\ x.old = op.old
  BY <1>4 DEF Ops
<1> HIDE DEF x
<1>6. /\ y \in Ops /\ y.kind = "rebind" /\ y.page = made /\ y.src = op.src /\ y.path = op.path
      /\ y.body = op.body /\ y.old = op.old /\ y.note = note
  BY <1>1, <1>3, <1>5 DEF Ops
<1>7. Rebind(op, made) = y
  BY DEF Rebind, y, x, kids, note
<1> HIDE DEF y
<1> QED BY <1>3, <1>6, <1>7

LEMMA MarkTyped ==
  ASSUME NEW op \in Ops, op.parent \in Pages
  PROVE  /\ Mark(op) \in Ops /\ Mark(op).kind = "mark" /\ Mark(op).page = op.parent
         /\ Mark(op).src = Mark(op).path
<1> DEFINE x == [op EXCEPT !.kind = "mark", !.page = op.parent]
           y == [x EXCEPT !.src = Front(op.path), !.path = Front(op.path)]
<1>1. op.path \in Paths /\ Front(op.path) \in Paths
  BY FrontTyped DEF Ops
<1>2. "mark" \in Kinds /\ op.parent \in Parents
  BY DEF Kinds, Parents
<1>3. x \in Ops /\ x.kind = "mark" /\ x.page = op.parent
  BY <1>2 DEF Ops
<1>4. Mark(op) = y
  BY DEF Mark
<1> HIDE DEF x
<1>5. y \in Ops /\ y.kind = "mark" /\ y.page = op.parent /\ y.src = y.path
  BY <1>1, <1>3 DEF Ops
<1> QED BY <1>4, <1>5

\* The page a creation has made.
LEMMA NewestMade ==
  ASSUME Inv, run.at = "settle", NEW op, op = Head(run.ops), op.kind = "create-remote", Done(op)
  PROVE  /\ Newest \in DOMAIN remote /\ Newest \in Pages /\ Newest \in Held
         /\ Newest \notin LocalPages(local) /\ op.body \in Origins
         /\ Now(Newest) \in Observations
<1>1. JustMade(op)
  BY DEF Inv, HeadInv
<1>2. \E p \in DOMAIN madeFrom : madeFrom[p] = op.body
  BY <1>1 DEF JustMade, Origins
<1>3. Newest \in DOMAIN madeFrom /\ madeFrom[Newest] = op.body
  BY <1>2 DEF Newest
<1>4. Newest \in DOMAIN remote
  BY DEF Done
<1> QED BY <1>1, <1>3, <1>4, NowTyped DEF JustMade, Inv

\* Its binding is begun while the creation's own intent is open.
LEMMA BindingOpens ==
  ASSUME Inv, run.at = "settle", NEW op, op = Head(run.ops), op.kind = "create-remote", Done(op),
         open' \in {{Rebind(op, Newest)}, {op, Rebind(op, Newest)}},
         UNCHANGED <<base, fence, local, madeFrom>>
  PROVE  StateInv' /\ OpenInv'
<1> DEFINE r == Rebind(op, Newest)
<1>1. /\ op \in Ops /\ open = {op} /\ op.parent \in Pages /\ op.src = op.path
      /\ op.old \in Notes /\ op.old.page = Nothing /\ op.old.body = op.body
  BY WorkingOp
<1>2. Newest \in Pages /\ Newest \notin LocalPages(local) /\ op.body \in Origins
      /\ Now(Newest) \in Observations
  BY NewestMade
<1>3. r \in Ops /\ r.kind = "rebind" /\ r.page = Newest /\ r.body = op.body
  BY <1>1, <1>2, RebindTyped
<1> HIDE DEF r
<1>4. Origins' = Origins
  BY DEF Origins
<1>5. r \in open' /\ \A o \in open' : o = r \/ o = op
  BY DEF r
<1>6. StateInv'
  BY <1>1, <1>3, <1>5 DEF Inv, StateInv
<1>7. OpenInv'
  BY <1>1, <1>2, <1>3, <1>4, <1>5 DEF Inv, OpenInv, Covers
<1> QED BY <1>6, <1>7

\* An effect that is done and needs no other leaves nothing uncovered.
LEMMA DoneUncovers ==
  ASSUME Inv, run.at = "settle", NEW op, op = Head(run.ops), op.kind # "create-remote", Done(op),
         open' = {}, UNCHANGED <<local, madeFrom>>
  PROVE  OpenInv'
<1>1. open = {op} /\ WorkFacts(op, run.current, base, opaque) /\ op.page \in Pages
  BY WorkingOp
<1>2. Origins' = Origins
  BY DEF Origins
<1>3. ASSUME op.kind = "rebind" PROVE op.body \notin Loose(local)
  <2>1. op.path \in DOMAIN local /\ local[op.path].page = op.page
    BY <1>1, <1>3 DEF WorkFacts, Done, RemoteKinds
  <2>2. op.page \in LocalPages(local)
    BY <1>1, <2>1, Constants DEF LocalPages, Owned
  <2> QED BY <1>1, <1>3, <2>2 DEF Inv, OpenInv
<1>4. Loose(local) \cap Origins = {}
  BY <1>1, <1>3 DEF Inv, OpenInv, Covers
<1> QED BY <1>2, <1>4 DEF OpenInv

\* What the page has become, and what is told of it.
LEMMA ExpectedTyped ==
  ASSUME Inv, run.at = "settle", NEW op, op = Head(run.ops), op.kind # "create-remote"
  PROVE  /\ Expected(op) \in Observations /\ Outcome(op) \in Outcomes
         /\ op.kind # "body" => Expected(op).body = run.current[op.page].body
<1>1. Working /\ op \in Ops /\ op.page \in Pages /\ op.page \in DOMAIN run.current
  BY WorkingOp
<1>2. run.current[op.page] \in Observations
  BY <1>1, WorkIs DEF IsCurrent
<1>3. op.body \in Bodies /\ op.title \in Titles /\ op.parent \in Parents /\ op.kind \in Kinds
      /\ op.src \in Paths /\ op.path \in Paths
  BY <1>1 DEF Ops
<1>4. PICK now : now = run.current[op.page]
  OBVIOUS
<1>5. /\ [now EXCEPT !.body = op.body] \in Observations
      /\ [now EXCEPT !.title = op.title] \in Observations
      /\ [now EXCEPT !.title = op.title].body = now.body
      /\ [now EXCEPT !.parent = op.parent] \in Observations
      /\ [now EXCEPT !.parent = op.parent].body = now.body
  BY <1>2, <1>3, <1>4 DEF Observations
<1>6. /\ Expected(op) \in Observations
      /\ op.kind # "body" => Expected(op).body = now.body
  BY <1>2, <1>4, <1>5 DEF Expected
<1>7. Outcome(op) \in Outcomes
  BY <1>1, <1>3, <1>6 DEF Outcome, Outcomes
<1> QED BY <1>4, <1>6, <1>7

LEMMA SettleKeeps ==
  ASSUME Inv, Settle
  PROVE  Inv'
<1>1. /\ run.at = "settle" /\ Working
      /\ UNCHANGED <<notion, vault, base, fence, opaque, edits, local, madeFrom, remote>>
  BY DEF Settle, bounds, Working, notion, vault
<1>2. PICK op : op = Head(run.ops)
  OBVIOUS
<1>3. NotionInv' /\ VaultInv' /\ TextInv' /\ Held' = Held
  BY <1>1, SidesStay
<1>4. /\ op \in Ops /\ WorkFacts(op, run.current, base, opaque) /\ open = {op}
      /\ op.kind = "create-remote" =>
              /\ op.page = Nothing /\ op.parent \in Pages /\ op.src = op.path
              /\ op.old \in Notes /\ op.old.page = Nothing /\ op.old.body = op.body
      /\ op.kind # "create-remote" => op.page \in Pages /\ op.page \in DOMAIN run.current
      /\ op.page \in Pages => op.page \in Held
  BY <1>1, <1>2, WorkingOp
<1>5. CASE Fail(run.done) /\ UNCHANGED open
  <2>1. RunInv' /\ HeadInv'
    BY <1>1, <1>5, WorkIs, FailRuns
  <2>2. StateInv' /\ OpenInv'
    BY <1>1, <1>5, OpenStays DEF Inv, StateInv
  <2> QED BY <1>3, <2>1, <2>2 DEF Inv
<1>t. /\ WorkOps(Tail(run.ops), run.current, base, opaque)
      /\ op.kind = "body" =>
           \A k \in DOMAIN Tail(run.ops) : Tail(run.ops)[k].kind = "body" => Tail(run.ops)[k].page # op.page
      /\ op.kind \in Makers =>
           \A k \in DOMAIN Tail(run.ops) : Tail(run.ops)[k].kind \in {"create-remote", "mark"}
      /\ \A k \in DOMAIN Tail(run.ops) : Tail(run.ops)[k].kind # "rebind"
  BY <1>1, <1>2, WorkIs, TailWorks
<1>6. CASE /\ Done(op) /\ op.kind = "create-remote"
           /\ open' = (open \ {op}) \cup {Rebind(op, Newest)}
           /\ run' = [run EXCEPT !.at = "effect", !.ops = <<Rebind(op, Newest), Mark(op)>> \o Tail(@),
                                 !.current = Put(@, Newest, Now(Newest))]
  <2> DEFINE r == Rebind(op, Newest)
             m == Mark(op)
             taken == Put(run.current, Newest, Now(Newest))
             ops == <<r, m>> \o Tail(run.ops)
  <2>1. Newest \in Pages /\ Newest \in Held /\ Now(Newest) \in Observations
    BY <1>1, <1>2, <1>6, NewestMade
  <2>2. /\ r \in Ops /\ r.kind = "rebind" /\ r.page = Newest /\ r.body = op.body /\ r.src = r.path
        /\ r.note \in Notes /\ r.note.page = Newest /\ r.old = op.old
    BY <1>4, <1>6, <2>1, RebindTyped
  <2>3. m \in Ops /\ m.kind = "mark" /\ m.page = op.parent /\ m.src = m.path
    BY <1>4, <1>6, MarkTyped
  <2>4. open' = {r}
    BY <1>4, <1>6
  <2>r. run' = [at |-> "effect", ops |-> ops, next |-> run.next, done |-> run.done, current |-> taken]
    BY <1>1, <1>6, WorkIs
  <2>5. StateInv' /\ OpenInv'
    BY <1>1, <1>2, <1>6, <2>4, BindingOpens
  <2> HIDE DEF r, m, taken
  <2>6. IsCurrent(taken) /\ DOMAIN taken = DOMAIN run.current \cup {Newest}
    BY <1>1, <2>1, WorkIs, TakenTyped DEF taken
  <2>7. WorkOps(Tail(run.ops), taken, base, opaque)
    <3>1. \A k \in DOMAIN Tail(run.ops) : Tail(run.ops)[k].kind # "body"
      BY <1>t, <1>6 DEF Makers
    <3> QED BY <1>t, <3>1, TakenWorks DEF taken
  <2>8. WorkFacts(m, taken, base, opaque)
    <3>1. op.parent \in DOMAIN run.current
      BY <1>4, <1>6 DEF WorkFacts, Subject
    <3>2. op.parent \in Priors(base) => base[op.parent].status # "conflict"
      BY <1>4, <1>6 DEF WorkFacts, OpFacts
    <3> QED BY <1>4, <1>6, <2>3, <2>6, <3>1, <3>2, Constants DEF WorkFacts, Subject
  <2>9. WorkFacts(r, taken, base, opaque)
    BY <1>4, <1>6, <2>1, <2>2, <2>6, Constants DEF WorkFacts, Subject
  <2>10. WorkOps(<<m>> \o Tail(run.ops), taken, base, opaque)
    BY <1>t, <1>6, <2>3, <2>7, <2>8, PrefixWorks DEF Makers
  <2>11. \A k \in DOMAIN (<<m>> \o Tail(run.ops)) : (<<m>> \o Tail(run.ops))[k].kind \in {"create-remote", "mark"}
    <3> DEFINE s == <<m>> \o Tail(run.ops)
    <3>1. WorkOps(s, taken, base, opaque) /\ s # <<>> /\ Head(s) = m
      BY <1>t, <1>6, <2>3, <2>7, <2>8, PrefixWorks DEF Makers
    <3> HIDE DEF s
    <3>2. Head(s).kind \in Makers
      BY <2>3, <3>1 DEF Makers
    <3>3. \A k \in DOMAIN Tail(s) : Tail(s)[k].kind \in {"create-remote", "mark"}
      BY <3>1, <3>2, TailWorks
    <3>4. /\ s[1].kind = "mark" /\ DOMAIN s = 1 .. Len(s) /\ DOMAIN Tail(s) = 1 .. Len(s) - 1 /\ Len(s) \in Nat
          /\ \A k \in DOMAIN Tail(s) : Tail(s)[k] = s[k + 1]
      BY <2>3, <3>1, HeadIs
    <3>5. ASSUME NEW k \in DOMAIN s, k # 1 PROVE s[k].kind \in {"create-remote", "mark"}
      <4>1. k - 1 \in DOMAIN Tail(s) /\ (k - 1) + 1 = k
        BY <3>4, <3>5
      <4> QED BY <3>3, <3>4, <4>1
    <3>6. \A k \in DOMAIN s : s[k].kind \in {"create-remote", "mark"}
      BY <3>4, <3>5
    <3> QED BY <3>6 DEF s
  <2>12. WorkOps(ops, taken, base, opaque) /\ ops # <<>> /\ Head(ops) = r
    <3>1. Tail(run.ops) \in Seq(Ops)
      BY <1>t DEF WorkOps
    <3>2. ops = <<r>> \o (<<m>> \o Tail(run.ops))
      BY <2>2, <2>3, <3>1, PairPrefix
    <3> QED BY <2>2, <2>9, <2>10, <2>11, <3>2, PrefixWorks
  <2> HIDE DEF ops
  <2>13. RunInv' /\ run'.ops = ops /\ run'.at = "effect"
    <3>1. WorkOps(ops, taken, base', opaque') /\ DOMAIN taken \subseteq Held' /\ fence' = TRUE
      BY <1>1, <1>3, <2>1, <2>6, <2>12, WorkIs
    <3>2. open' = {Head(ops)} /\ Begun(Head(ops)) /\ run.done \in Seq(Outcomes) /\ IsState(run.next)
      BY <1>1, <2>2, <2>4, <2>12, WorkIs DEF Begun
    <3> QED BY <2>r, <2>6, <2>12, <3>1, <3>2, WorkGoesOn
  <2>14. HeadInv'
    BY <2>2, <2>12, <2>13 DEF HeadInv
  <2> QED BY <1>3, <2>5, <2>13, <2>14 DEF Inv
<1>7. CASE /\ Done(op) /\ op.kind # "create-remote" /\ open' = open \ {op}
           /\ Advance(Tail(run.ops), Append(run.done, Outcome(op)), Put(run.current, op.page, Expected(op)))
  <2> DEFINE done == Append(run.done, Outcome(op))
             taken == Put(run.current, op.page, Expected(op))
  <2>1. open' = {}
    BY <1>4, <1>7
  <2>2. StateInv' /\ OpenInv'
    BY <1>1, <1>2, <1>7, <2>1, DoneUncovers DEF Inv, StateInv
  <2>3. /\ Expected(op) \in Observations /\ Outcome(op) \in Outcomes
        /\ op.kind # "body" => Expected(op).body = run.current[op.page].body
    BY <1>1, <1>2, <1>7, ExpectedTyped
  <2>4. done \in Seq(Outcomes)
    BY <1>1, <2>3, WorkIs, AppendProperties
  <2>5. IsCurrent(taken) /\ DOMAIN taken = DOMAIN run.current \cup {op.page}
    BY <1>1, <1>4, <1>7, <2>3, WorkIs, TakenTyped
  <2>6. ASSUME NEW k \in DOMAIN Tail(run.ops), Tail(run.ops)[k].kind = "body", Tail(run.ops)[k].page = op.page
        PROVE  Expected(op).body = base[op.page].body
    <3>1. op.kind # "body"
      BY <1>t, <2>6
    <3>2. WorkFacts(Tail(run.ops)[k], run.current, base, opaque)
      BY <1>t DEF WorkOps
    <3> QED BY <2>3, <2>6, <3>1, <3>2 DEF WorkFacts
  <2>7. WorkOps(Tail(run.ops), taken, base, opaque)
    BY <1>t, <2>6, TakenWorks
  <2> HIDE DEF done, taken
  <2>8. CASE Tail(run.ops) = <<>>
    <3>1. run'.at = "save" /\ run'.next = Refreshed(run.next, taken, done)
      BY <1>1, <1>7, <2>8, WorkIs DEF Advance, done, taken
    <3>2. IsState(run'.next)
      BY <1>1, <2>4, <2>5, <3>1, WorkIs, RefreshedTyped DEF Inv, StateInv
    <3>3. RunInv' /\ HeadInv'
      BY <3>1, <3>2, Unworked
    <3> QED BY <1>3, <2>2, <3>3 DEF Inv
  <2>9. CASE Tail(run.ops) # <<>>
    <3>1. run' = [at |-> "begin", ops |-> Tail(run.ops), next |-> run.next, done |-> done, current |-> taken]
      BY <1>1, <1>7, <2>9, WorkIs DEF Advance, done, taken
    <3>2. Head(Tail(run.ops)).kind # "rebind"
      <4>1. Head(Tail(run.ops)) = Tail(run.ops)[1] /\ 1 \in DOMAIN Tail(run.ops)
        BY <2>7, <2>9, HeadIs
      <4> QED BY <1>t, <4>1
    <3>3. WorkOps(Tail(run.ops), taken, base', opaque') /\ DOMAIN taken \subseteq Held' /\ fence' = TRUE
      BY <1>1, <1>3, <1>4, <1>7, <2>5, <2>7, WorkIs
    <3>4. IsState(run.next)
      BY <1>1, WorkIs
    <3>5. RunInv' /\ run'.at = "begin"
      BY <2>1, <2>4, <2>5, <2>9, <3>1, <3>2, <3>3, <3>4, WorkGoesOn
    <3>6. HeadInv'
      BY <3>5 DEF HeadInv
    <3> QED BY <1>3, <2>2, <3>5, <3>6 DEF Inv
  <2> QED BY <2>8, <2>9
<1> QED BY <1>2, <1>5, <1>6, <1>7 DEF Settle

LEMMA SettleFailsKeeps ==
  ASSUME Inv, SettleFails
  PROVE  Inv'
<1>1. /\ run.at = "settle" /\ Working
      /\ UNCHANGED <<notion, vault, base, fence, opaque, edits, local, madeFrom>>
  BY DEF SettleFails, Working, notion, vault
<1>2. PICK op : op = Head(run.ops)
  OBVIOUS
<1>3. NotionInv' /\ VaultInv' /\ TextInv'
  BY <1>1, SidesStay
<1>4. ASSUME NEW done \in Seq(Outcomes), Fail(done), UNCHANGED open PROVE Inv'
  <2>1. RunInv' /\ HeadInv'
    BY <1>1, <1>4, FailRuns
  <2>2. StateInv' /\ OpenInv'
    BY <1>1, <1>4, OpenStays DEF Inv, StateInv
  <2> QED BY <1>3, <2>1, <2>2 DEF Inv
<1>5. CASE Fail(run.done) /\ UNCHANGED open
  BY <1>1, <1>4, <1>5, WorkIs
<1>6. CASE op.kind # "create-remote" /\ Fail(Append(run.done, Outcome(op))) /\ UNCHANGED open
  <2>1. Outcome(op) \in Outcomes
    BY <1>1, <1>2, <1>6, ExpectedTyped
  <2>2. Append(run.done, Outcome(op)) \in Seq(Outcomes)
    BY <1>1, <2>1, WorkIs, AppendProperties
  <2> QED BY <1>4, <1>6, <2>2
<1>7. CASE Done(op) /\ op.kind = "create-remote" /\ Fail(run.done) /\ open' = open \cup {Rebind(op, Newest)}
  <2>1. open' = {op, Rebind(op, Newest)}
    BY <1>1, <1>2, <1>7, WorkingOp
  <2>2. StateInv' /\ OpenInv'
    BY <1>1, <1>2, <1>7, <2>1, BindingOpens
  <2>3. RunInv' /\ HeadInv'
    BY <1>1, <1>7, WorkIs, FailRuns
  <2> QED BY <1>3, <2>2, <2>3 DEF Inv
<1> QED BY <1>2, <1>5, <1>6, <1>7 DEF SettleFails

-----------------------------------------------------------------------------
(***************************************************************************)
(* The invariant holds: no fault, crash or edit, at any of the points a    *)
(* run leaves between two steps, breaks it.                                *)
(***************************************************************************)
\* A step that changes nothing.
LEMMA InvStays ==
  ASSUME Inv, UNCHANGED vars
  PROVE  Inv'
<1>1. UNCHANGED <<notion, vault, base, open, fence, run, opaque, edits, local, madeFrom>>
  BY DEF vars, notion, vault
<1>2. NotionInv' /\ VaultInv' /\ TextInv' /\ Held' = Held
  BY <1>1, SidesStay
<1>3. RunInv'
  BY <1>1, <1>2, RunStays DEF Inv
<1>4. StateInv' /\ OpenInv'
  BY <1>1, OpenStays DEF Inv, StateInv
<1>5. HeadInv'
  <2>1. Origins' = Origins
    BY <1>1 DEF Origins
  <2> QED BY <1>1, <2>1 DEF Inv, HeadInv, Unmade, JustMade
<1> QED BY <1>2, <1>3, <1>4, <1>5 DEF Inv

LEMMA NextKeeps == Inv /\ [Next]_vars => Inv'
<1> SUFFICES ASSUME Inv, [Next]_vars PROVE Inv'
  OBVIOUS
<1>1. CASE UNCHANGED vars
  BY <1>1, InvStays
<1>2. CASE RemoteEdit
  BY <1>2, RemoteEditKeeps
<1>3. CASE LocalEdit
  BY <1>3, LocalEditKeeps
<1>4. CASE Step
  BY <1>4, RecoverKeeps, DiscoverKeeps, DiscoveryFailsKeeps, ScanKeeps, BeginKeeps, EffectKeeps,
     EffectFailsKeeps, SettleKeeps, SettleFailsKeeps, SaveKeeps, CrashKeeps DEF Step
<1> QED BY <1>1, <1>2, <1>3, <1>4 DEF Next

LEMMA AlwaysInv == Spec => []Inv
BY InitHolds, NextKeeps, PTL DEF Spec

\* What the invariant says of the types.
LEMMA InvTyped == Inv => TypeOK
<1> SUFFICES ASSUME Inv PROVE TypeOK
  OBVIOUS
<1>1. \A p \in DOMAIN remote : /\ p \in Pages /\ remote[p].parent \in Pages \cup {Nothing}
                               /\ remote[p].body \in Bodies
  BY DEF Inv, NotionInv, IsTree
<1>2. \A f \in DOMAIN local : /\ local[f].page \in Pages \cup {Nothing}
                              /\ local[f].body \in Bodies /\ local[f].kids \subseteq Pages
  BY DEF Inv, VaultInv, IsFolder, Notes, Parents
<1>3. base # Nothing => \A p \in DOMAIN base : /\ p \in Pages /\ base[p].status \in Statuses
                                               /\ base[p].body \in Bodies
  BY DEF Inv, StateInv, IsState, Records
<1>4. /\ DOMAIN artifacts \subseteq Pages /\ fence \in BOOLEAN
      /\ \A op \in open : op.kind \in Kinds
      /\ DOMAIN madeFrom \subseteq Others
  BY DEF Inv, VaultInv, StateInv, NotionInv, Ops
<1>5. /\ run.at \in {"idle", "scan", "begin", "effect", "settle", "save"}
      /\ run.at \in {"begin", "effect", "settle"} => fence /\ run.ops # <<>>
  BY DEF Inv, RunInv, Working
<1> QED BY <1>1, <1>2, <1>3, <1>4, <1>5 DEF TypeOK

\* Every variable has its shape, and a run at work holds the fence and has an
\* effect to execute.
THEOREM CortexTypeCorrect == Spec => []TypeOK
BY AlwaysInv, InvTyped, PTL

\* A candidate becomes one page at most: a text is written once, the note that
\* has it is without a page only until its page is made, and from then on an
\* open intent holds every later run until the note is bound.
THEOREM PagesAreMadeOnce == Spec => []NeverCreatedTwice
<1>1. Inv => NeverCreatedTwice
  BY DEF Inv, TextInv
<1> QED BY AlwaysInv, <1>1, PTL

-----------------------------------------------------------------------------
(***************************************************************************)
(* Paths below a path, and a folder moved.                                 *)
(***************************************************************************)
LEMMA WithinSplits ==
  ASSUME NEW f \in Paths, NEW top \in Paths, Within(f, top)
  PROVE  f = top \o SubSeq(f, Len(top) + 1, Len(f)) /\ SubSeq(f, Len(top) + 1, Len(f)) \in Paths
<1>1. /\ Len(top) <= Len(f) /\ Len(top) \in Nat /\ Len(f) \in Nat
      /\ SubSeq(top, 1, Len(top)) = SubSeq(f, 1, Len(top))
  BY LenProperties DEF Within, IsPrefix, Paths
<1>2. SubSeq(f, 1, Len(top)) = top /\ SubSeq(f, 1, Len(f)) = f
  BY <1>1, SubSeqFull DEF Paths
<1>3. SubSeq(f, 1, Len(top)) \o SubSeq(f, Len(top) + 1, Len(f)) = SubSeq(f, 1, Len(f))
  <2>1. 1 \in 1 .. Len(f) + 1 /\ Len(top) \in 1 - 1 .. Len(f) /\ Len(f) \in Len(top) .. Len(f)
    BY <1>1
  <2>2. f \in Seq(Titles)
    BY DEF Paths
  <2> QED BY <2>1, <2>2, ConcatAdjacentSubSeq
<1>4. SubSeq(f, Len(top) + 1, Len(f)) \in Paths
  BY <1>1, SubSeqProperties DEF Paths
<1> QED BY <1>2, <1>3, <1>4

LEMMA WithinJoins ==
  ASSUME NEW top \in Paths, NEW s \in Paths
  PROVE  Within(top \o s, top)
<1>1. Len(top \o s) = Len(top) + Len(s) /\ Len(top) \in Nat /\ Len(s) \in Nat
  BY ConcatProperties, LenProperties DEF Paths
<1>2. SubSeq(top \o s, 1, Len(top)) = SubSeq(top, 1, Len(top))
  <2>1. CASE Len(top) = 0
    BY <2>1, SubSeqEmpty
  <2>2. CASE Len(top) # 0
    <3>1. 1 \in 1 .. Len(top) /\ Len(top) \in 1 .. Len(top)
      BY <1>1, <2>2
    <3> QED BY <3>1, SubSeqOfConcat1 DEF Paths
  <2> QED BY <2>1, <2>2
<1> QED BY <1>1, <1>2 DEF Within, IsPrefix

LEMMA MovedInto ==
  ASSUME NEW f \in Paths, NEW from \in Paths, NEW to \in Paths, Within(f, from)
  PROVE  Within(Moved(f, from, to), to)
<1>1. Moved(f, from, to) = to \o SubSeq(f, Len(from) + 1, Len(f))
  BY DEF Moved
<1> QED BY <1>1, WithinSplits, WithinJoins

\* Into a place where there is nothing, every note is moved with its text, and
\* what was there and is there was not moved.
LEMMA MoveTreeClean ==
  ASSUME NEW tree, IsFolder(tree), NEW from \in Paths, NEW to \in Paths,
         \A f \in DOMAIN tree : ~Within(f, to)
  PROVE  /\ \A f \in DOMAIN tree : /\ Moved(f, from, to) \in DOMAIN MoveTree(tree, from, to)
                                   /\ MoveTree(tree, from, to)[Moved(f, from, to)] = tree[f]
         /\ \A f \in DOMAIN tree \cap DOMAIN MoveTree(tree, from, to) :
              MoveTree(tree, from, to)[f] = tree[f]
<1> DEFINE new == MoveTree(tree, from, to)
<1>1. \A f \in DOMAIN tree : f \in Paths
  BY DEF IsFolder
<1>2. ASSUME NEW f \in DOMAIN tree, NEW g \in DOMAIN tree, Moved(f, from, to) = Moved(g, from, to)
      PROVE  f = g
  <2>1. CASE Within(f, from) /\ Within(g, from)
    <3> DEFINE s == SubSeq(f, Len(from) + 1, Len(f))
               t == SubSeq(g, Len(from) + 1, Len(g))
    <3>1. f = from \o s /\ g = from \o t /\ s \in Paths /\ t \in Paths
      BY <1>1, <2>1, WithinSplits
    <3>2. to \o s = to \o t
      BY <1>2, <2>1 DEF Moved
    <3> HIDE DEF s, t
    <3>3. s = t
      BY <3>1, <3>2, ConcatSimplifications DEF Paths
    <3> QED BY <3>1, <3>3
  <2>2. CASE Within(f, from) /\ ~Within(g, from)
    BY <1>1, <1>2, <2>2, MovedInto DEF Moved
  <2>3. CASE ~Within(f, from) /\ Within(g, from)
    BY <1>1, <1>2, <2>3, MovedInto DEF Moved
  <2>4. CASE ~Within(f, from) /\ ~Within(g, from)
    BY <1>2, <2>4 DEF Moved
  <2> QED BY <2>1, <2>2, <2>3, <2>4
<1>3. \A f \in DOMAIN new : \E g \in DOMAIN tree : Moved(g, from, to) = f /\ new[f] = tree[g]
  BY MoveTreeTyped
<1>4. DOMAIN new = {Moved(g, from, to) : g \in DOMAIN tree}
  BY DEF MoveTree
<1> HIDE DEF new
<1>5. \A f \in DOMAIN tree : Moved(f, from, to) \in DOMAIN new /\ new[Moved(f, from, to)] = tree[f]
  BY <1>2, <1>3, <1>4
<1>6. ASSUME NEW f \in DOMAIN tree \cap DOMAIN new PROVE new[f] = tree[f]
  <2>1. PICK g \in DOMAIN tree : Moved(g, from, to) = f /\ new[f] = tree[g]
    BY <1>3
  <2>2. ~Within(g, from)
    BY <1>1, <2>1, MovedInto
  <2> QED BY <2>1, <2>2 DEF Moved
<1> QED BY <1>5, <1>6 DEF new

-----------------------------------------------------------------------------
(***************************************************************************)
(* What the steps of a run may do to either side.                          *)
(***************************************************************************)
\* Only an effect changes one.
LEMMA OnlyEffectsWrite ==
  ASSUME Inv, Step
  PROVE  \/ UNCHANGED <<remote, local>>
         \/ /\ run.at = "effect" /\ UNCHANGED <<opaque, edits>>
            /\ ApplyLocal(Head(run.ops)) \/ ApplyRemote(Head(run.ops))
BY DEF Step, Recover, Discover, DiscoveryFails, Scan, Begin, Effect, EffectFails, Settle, SettleFails,
       Save, Crash, notion, vault, bounds

\* An effect in Notion leaves every page with a conflict alone, and writes a
\* body only over the one the page had with the state.
LEMMA RemoteWrites ==
  ASSUME Inv, run.at = "effect", NEW op, op = Head(run.ops), ApplyRemote(op), UNCHANGED <<opaque, edits>>,
         NEW p \in DOMAIN remote
  PROVE  /\ UNCHANGED local /\ p \in DOMAIN remote'
         /\ p \in Priors(base) /\ base[p].status = "conflict" => remote'[p] = remote[p]
         /\ remote'[p].body # remote[p].body => remote[p].body = base[p].body
<1>1. /\ op \in Ops /\ WorkFacts(op, run.current, base, opaque)
      /\ op.kind = "create-remote" => op.page = Nothing
      /\ op.kind # "create-remote" => op.page \in Pages
  BY WorkingOp
<1>2. /\ UNCHANGED local /\ DOMAIN remote \subseteq DOMAIN remote'
      /\ p # op.page => remote'[p] = remote[p]
      /\ op.kind # "body" => remote'[p].body = remote[p].body
  BY <1>1, ApplyRemoteFacts DEF Inv, vault
<1>3. p \in Pages
  BY DEF Inv, NotionInv, IsTree
<1>4. ASSUME p \in Priors(base), base[p].status = "conflict" PROVE p # op.page
  <2>1. op.kind \in RemoteKinds
    BY DEF ApplyRemote
  <2>2. CASE op.kind = "create-remote"
    BY <1>1, <1>3, <2>2, Constants
  <2>3. CASE op.kind # "create-remote"
    BY <1>1, <1>4, <2>1, <2>3 DEF WorkFacts, OpFacts, Settled, RemoteKinds
  <2> QED BY <2>2, <2>3
<1>5. ASSUME remote'[p].body # remote[p].body PROVE remote[p].body = base[p].body
  <2>1. op.page = p /\ op.kind = "body"
    BY <1>2, <1>5
  <2>2. Now(p) = run.current[p] /\ run.current[p].body = base[p].body /\ ~(p = Root /\ opaque)
    BY <1>1, <1>3, <2>1, Constants DEF ApplyRemote, AsTaken, Subject, WorkFacts, OpFacts
  <2>3. Now(p).body = remote[p].body
    BY <2>2 DEF Now, Observed
  <2> QED BY <2>2, <2>3
<1> QED BY <1>2, <1>4, <1>5

\* An effect in the folder.
LEMMA LocalWrites ==
  ASSUME Inv, run.at = "effect", NEW op, op = Head(run.ops), ApplyLocal(op),
         NEW f \in DOMAIN local, local[f].page # Nothing
  PROVE  /\ UNCHANGED remote
         /\ local[f].page \in Priors(base) /\ base[local[f].page].status = "conflict" =>
              \E g \in DOMAIN local' : local'[g] = local[f]
         /\ f \in DOMAIN local' /\ local'[f].body # local[f].body /\ op.kind # "mark" =>
              local[f].body = base[local[f].page].body
<1>1. /\ op \in Ops /\ WorkFacts(op, run.current, base, opaque) /\ Begun(op) /\ op.kind \in Kinds
      /\ op.kind # "create-remote" => op.page \in Pages
  BY WorkingOp
<1>2. op.kind \notin RemoteKinds /\ LocalReady(op) /\ UNCHANGED remote
  BY DEF ApplyLocal, notion
<1>3. CASE op.kind = "conflict"
  <2>1. UNCHANGED local
    BY <1>3 DEF ApplyLocal
  <2> QED BY <1>2, <2>1
<1>4. CASE op.kind = "move-local"
  <2>1. local' = MoveTree(local, op.src, op.path)
    BY <1>4 DEF ApplyLocal, SetLocal
  <2>2. /\ op.src \in Paths /\ op.path \in Paths /\ IsFolder(local)
        /\ \A g \in DOMAIN local : ~Within(g, op.path)
    BY <1>1, <1>2, <1>4 DEF Ops, LocalReady, Inv, VaultInv
  <2>3. /\ Moved(f, op.src, op.path) \in DOMAIN local' /\ local'[Moved(f, op.src, op.path)] = local[f]
        /\ f \in DOMAIN local' => local'[f] = local[f]
    BY <2>1, <2>2, MoveTreeClean
  <2> QED BY <1>2, <2>3
<1>5. CASE op.kind \in {"create-local", "write", "rebind", "mark"}
  <2>1. local' = Put(local, op.path, op.note)
    BY <1>5 DEF ApplyLocal, SetLocal
  <2>2. f # op.path => f \in DOMAIN local' /\ local'[f] = local[f]
    BY <2>1 DEF Put
  <2>3. CASE f = op.path
    <3>1. op.kind # "create-local"
      BY <1>2, <2>3 DEF LocalReady
    <3>2. op.src = op.path /\ local[f] = op.old
      BY <1>1, <1>2, <1>5, <2>3, <3>1 DEF WorkFacts, OpFacts, LocalReady
    <3>3. op.kind # "rebind"
      BY <1>1, <3>2 DEF WorkFacts
    <3>4. local[f].page = op.page
      BY <1>1, <1>5, <3>1, <3>2, <3>3 DEF WorkFacts, OpFacts, Begun
    <3>5. ~(local[f].page \in Priors(base) /\ base[local[f].page].status = "conflict")
      BY <1>1, <1>5, <3>1, <3>3, <3>4 DEF WorkFacts, OpFacts, Settled
    <3>6. local'[f] = op.note
      BY <2>1, <2>3 DEF Put
    <3>7. op.kind = "write" => op.old.body \in {base[op.page].body, op.note.body}
      BY <1>1 DEF WorkFacts, OpFacts
    <3> QED BY <1>2, <1>5, <3>1, <3>2, <3>3, <3>4, <3>5, <3>6, <3>7
  <2> QED BY <1>2, <2>2, <2>3
<1> QED BY <1>1, <1>2, <1>3, <1>4, <1>5 DEF Kinds

LEMMA ConflictsStay ==
  ASSUME Inv, Step, NEW p \in Priors(base), base[p].status = "conflict"
  PROVE  /\ p \in DOMAIN remote => p \in DOMAIN remote' /\ remote'[p] = remote[p]
         /\ \A f \in Owned(local) : local[f].page = p =>
              \E g \in Owned(local') : local'[g] = local[f]
<1>1. CASE UNCHANGED <<remote, local>>
  BY <1>1
<1>2. CASE run.at = "effect" /\ UNCHANGED <<opaque, edits>> /\ ApplyRemote(Head(run.ops))
  <2>1. p \in DOMAIN remote => p \in DOMAIN remote' /\ remote'[p] = remote[p] /\ UNCHANGED local
    BY <1>2, RemoteWrites
  <2>2. UNCHANGED local
    BY <1>2 DEF ApplyRemote, vault
  <2> QED BY <2>1, <2>2
<1>3. CASE run.at = "effect" /\ ApplyLocal(Head(run.ops))
  <2>1. UNCHANGED remote
    BY <1>3 DEF ApplyLocal, notion
  <2>2. ASSUME NEW f \in Owned(local), local[f].page = p
        PROVE  \E g \in Owned(local') : local'[g] = local[f]
    <3>1. f \in DOMAIN local /\ local[f].page # Nothing
      BY DEF Owned
    <3>2. PICK g \in DOMAIN local' : local'[g] = local[f]
      BY <1>3, <2>2, <3>1, LocalWrites
    <3> QED BY <3>1, <3>2 DEF Owned
  <2> QED BY <2>1, <2>2
<1> QED BY <1>1, <1>2, <1>3, OnlyEffectsWrite

LEMMA SeenTextStays ==
  ASSUME Inv, Step, NEW p \in Priors(base), Shared(p)
  PROVE  /\ p \in DOMAIN remote /\ p \in DOMAIN remote' /\ remote[p].body # remote'[p].body
              => remote[p].body \in noteHeld[p]
         /\ \A f \in DOMAIN local \cap DOMAIN local' :
              (local[f].page = p /\ local'[f].page = p /\ local[f].body # local'[f].body
                 /\ run.at = "effect" /\ Head(run.ops).kind # "mark")
              => local[f].body \in pageHeld[p]
<1>s. base[p].body \in noteHeld[p] /\ base[p].body \in pageHeld[p] /\ p # Nothing
  BY Constants DEF Shared, Inv, StateInv, IsState, Priors
<1>1. CASE UNCHANGED <<remote, local>>
  BY <1>1
<1>2. CASE run.at = "effect" /\ UNCHANGED <<opaque, edits>> /\ ApplyRemote(Head(run.ops))
  <2>1. p \in DOMAIN remote => (remote'[p].body # remote[p].body => remote[p].body = base[p].body)
    BY <1>2, RemoteWrites
  <2>2. UNCHANGED local
    BY <1>2 DEF ApplyRemote, vault
  <2> QED BY <1>s, <2>1, <2>2
<1>3. CASE run.at = "effect" /\ ApplyLocal(Head(run.ops))
  <2>1. UNCHANGED remote
    BY <1>3 DEF ApplyLocal, notion
  <2>2. ASSUME NEW f \in DOMAIN local \cap DOMAIN local', local[f].page = p,
               local[f].body # local'[f].body, Head(run.ops).kind # "mark"
        PROVE  local[f].body = base[p].body
    BY <1>s, <1>3, <2>2, LocalWrites
  <2> QED BY <1>s, <2>1, <2>2
<1> QED BY <1>1, <1>2, <1>3, OnlyEffectsWrite

\* No step of a run changes a page in conflict in Notion, or loses its note:
\* every effect on an existing page was planned on a record without one, and a
\* folder is moved only to where there is nothing.
THEOREM ConflictsAreLeft == Spec => ConflictIsLeftAlone
<1> DEFINE Left == Step => \A p \in Priors(base) : base[p].status = "conflict" =>
         /\ p \in DOMAIN remote => p \in DOMAIN remote' /\ remote'[p] = remote[p]
         /\ \A f \in Owned(local) : local[f].page = p =>
              \E g \in Owned(local') : local'[g] = local[f]
<1>1. Inv /\ [Next]_vars => [Left]_vars
  BY ConflictsStay
<1> HIDE DEF Left
<1>2. Spec => [][Left]_vars
  BY AlwaysInv, <1>1, PTL DEF Spec
<1> QED BY <1>2 DEF ConflictIsLeftAlone, Left

\* A body the state takes for common to both sides is the only one a run
\* replaces, so each side's text was on the other before it goes.
THEOREM SeenTextIsReplaced == Spec => OnlySeenTextIsReplaced
<1> DEFINE Seemly == Step => \A p \in Priors(base) : Shared(p) =>
         /\ p \in DOMAIN remote /\ p \in DOMAIN remote' /\ remote[p].body # remote'[p].body
            => remote[p].body \in noteHeld[p]
         /\ \A f \in DOMAIN local \cap DOMAIN local' :
              (local[f].page = p /\ local'[f].page = p /\ local[f].body # local'[f].body
                 /\ run.at = "effect" /\ Head(run.ops).kind # "mark")
              => local[f].body \in pageHeld[p]
<1>1. Inv /\ [Next]_vars => [Seemly]_vars
  BY SeenTextStays
<1> HIDE DEF Seemly
<1>2. Spec => [][Seemly]_vars
  BY AlwaysInv, <1>1, PTL DEF Spec
<1> QED BY <1>2 DEF OnlySeenTextIsReplaced, Seemly
=============================================================================
