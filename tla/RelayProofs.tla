------------------------------- MODULE RelayProofs -------------------------------
(***************************************************************************)
(* Proofs about the relay: the queue of events that webhooks fill and runs *)
(* drain, and the rotation of the token with which a worker calls it. The  *)
(* two are proved one after the other, each for every value of its own     *)
(* constants; no proof uses a fact of the other.                           *)
(***************************************************************************)
EXTENDS EventQueue, TokenRotation, TLAPS

-----------------------------------------------------------------------------
(***************************************************************************)
(* The safety properties of the relay's event queue, for any events, runs, *)
(* requests, leases, windows and faults.  Leases are exclusive because a   *)
(* claim writes only where the lease is still the one it has listed and    *)
(* found expired.  That no event is given out again after its row was      *)
(* cleaned up rests on time: Gone says that by then no delivery of the     *)
(* event can be under way or pass the webhook's window any more.           *)
(***************************************************************************)
\* Claims and acknowledgements are sent by runs.
RunOf == \A q \in Requests : req[q].kind \in {"claim", "ack"} => req[q].run \in Runs

QueueTyped == QueueTypeOK /\ RunOf

LEMMA Constants ==
    /\ Lease \in Nat \ {0} /\ Window \in Nat /\ Patience \in Nat /\ Retention \in Nat
    /\ Retention >= 2 * Window + Patience
    /\ MaxTries \in Nat \ {0} /\ MaxFaults \in Nat
    /\ Idle \notin Runs /\ Idle \notin Requests /\ Idle \notin WorkerIds
    /\ NoRequest \in Request
<1>1. MaxTries \in Nat /\ 0 \in 0..MaxTries
  BY BoundsAssumption
<1>2. NoRequest \in Request
  BY <1>1 DEF NoRequest, Request, Null
<1> QED BY <1>2, BoundsAssumption, RetentionAssumption, IdleAssumption

LEMMA QueueInitTyped == QueueInit => QueueTyped
<1> SUFFICES ASSUME QueueInit PROVE QueueTyped
  OBVIOUS
<1>1. eventAt \in [Events -> Nat]
  BY TimesAssumption DEF QueueInit
<1>2. faults \in 0..MaxFaults /\ clock \in Nat
  BY Constants DEF QueueInit
<1>3. req \in [Requests -> Request] /\ RunOf
  BY Constants DEF QueueInit, RunOf, NoRequest
<1> QED BY <1>1, <1>2, <1>3 DEF QueueInit, QueueTyped, QueueTypeOK, Null

\* A request that changes keeps the others.
LEMMA OneRequest ==
    ASSUME QueueTyped, NEW q \in Requests, NEW m \in Request, req' = [req EXCEPT ![q] = m],
           m.kind \in {"claim", "ack"} => m.run \in Runs
    PROVE  /\ req' \in [Requests -> Request] /\ RunOf'
           /\ req'[q] = m /\ \A p \in Requests \ {q} : req'[p] = req[p]
BY DEF QueueTyped, QueueTypeOK, RunOf

LEMMA OpenedTyped ==
    ASSUME QueueTyped, NEW kind \in {"webhook", "claim", "ack"}, NEW step \in {"clean", "list", "write"},
           NEW r \in Runs \cup {Idle}, NEW ids \in SUBSET Events, kind # "webhook" => r \in Runs,
           NEW q \in Requests, Arrives(q, kind, step, r, ids)
    PROVE  /\ Free(q)
           /\ req' = [req EXCEPT ![q] = req'[q]] /\ req'[q] \in Request
           /\ req'[q].kind = kind /\ req'[q].step = step /\ req'[q].run = r /\ req'[q].ids = ids
           /\ req'[q].now = clock /\ req'[q].todo = {}
<1>1. req' = [req EXCEPT ![q] = Opened(kind, step, r, ids)]
  BY DEF Arrives
<1>2. req'[q] = Opened(kind, step, r, ids)
  BY <1>1 DEF QueueTyped, QueueTypeOK
<1>3. clock \in Nat
  BY DEF QueueTyped, QueueTypeOK
<1>4. Opened(kind, step, r, ids) \in Request
  BY <1>3, Constants DEF Opened, NoRequest, Request
<1> QED BY <1>1, <1>2, <1>4 DEF Opened, NoRequest, Arrives

LEMMA AnsweredTyped ==
    ASSUME QueueTyped, NEW q \in Requests, NEW ok \in BOOLEAN, Answered(q, ok)
    PROVE  /\ req' = [req EXCEPT ![q] = req'[q]] /\ req'[q] \in Request
           /\ req'[q].kind = req[q].kind /\ req'[q].run = req[q].run /\ req'[q].ids = req[q].ids
           /\ req'[q].now = req[q].now /\ req'[q].step = "answer" /\ req'[q].ok = ok
           /\ req'[q].todo = req[q].todo
<1> DEFINE m == [req[q] EXCEPT !.step = "answer", !.ok = ok]
<1>1. req[q] \in Request
  BY DEF QueueTyped, QueueTypeOK
<1>2. /\ m \in Request /\ m.kind = req[q].kind /\ m.run = req[q].run /\ m.ids = req[q].ids
      /\ m.now = req[q].now /\ m.step = "answer" /\ m.ok = ok /\ m.todo = req[q].todo
  BY <1>1 DEF Request
<1>3. req' = [req EXCEPT ![q] = m]
  BY DEF Answered, QueueTyped, QueueTypeOK
<1> HIDE DEF m
<1> QED BY <1>2, <1>3 DEF QueueTyped, QueueTypeOK

LEMMA ConflictedTyped ==
    ASSUME QueueTyped, NEW q \in Requests, Conflicted(q)
    PROVE  /\ req' = [req EXCEPT ![q] = req'[q]] /\ req'[q] \in Request
           /\ req'[q].kind = req[q].kind /\ req'[q].run = req[q].run /\ req'[q].ids = req[q].ids
           /\ req'[q].now = req[q].now
           /\ req'[q].step = "list" \/ (req'[q].step = "answer" /\ ~req'[q].ok)
<1>1. CASE req[q].tries + 1 < MaxTries
  <2>1. req' = [req EXCEPT ![q].step = "list", ![q].tries = @ + 1]
    BY <1>1 DEF Conflicted
  <2>2. req[q].tries + 1 \in 0..MaxTries
    BY <1>1, Constants DEF QueueTyped, QueueTypeOK, Request
  <2> QED BY <2>1, <2>2 DEF QueueTyped, QueueTypeOK, Request
<1>2. CASE ~(req[q].tries + 1 < MaxTries)
  BY <1>2, AnsweredTyped DEF Conflicted
<1> QED BY <1>1, <1>2

\* A request moves on and keeps its kind, run and time.
Onward(q, m) ==
    /\ req' = [req EXCEPT ![q] = m] /\ m \in Request
    /\ m.kind = req[q].kind /\ m.run = req[q].run /\ m.now = req[q].now

LEMMA ListForClaimDoes ==
    ASSUME QueueTyped, NEW q \in Requests, ListForClaim(q)
    PROVE  \E m : /\ Onward(q, m) /\ m.step = "write" /\ m.seen = lease /\ m.ids = req[q].ids
                  /\ m.todo = {e \in stored : IsAvailable(e, req[q].now)}
<1> DEFINE S == {e \in stored : IsAvailable(e, req[q].now)}
           m == [req[q] EXCEPT !.step = "write", !.seen = lease, !.todo = S]
<1>1. req[q] \in Request /\ S \subseteq Events /\ lease \in [Events -> Nat]
  BY DEF QueueTyped, QueueTypeOK
<1>2. req' = [req EXCEPT ![q] = m]
  BY DEF ListForClaim, QueueTyped, QueueTypeOK
<1>3. m \in Request /\ m.kind = req[q].kind /\ m.run = req[q].run /\ m.now = req[q].now
      /\ m.step = "write" /\ m.seen = lease /\ m.ids = req[q].ids /\ m.todo = S
  BY <1>1 DEF Request
<1> HIDE DEF m, S
<1>4. QED BY <1>2, <1>3 DEF Onward, S

LEMMA CleanupDoes ==
    ASSUME QueueTyped, NEW q \in Requests, CleanupConsumed(q)
    PROVE  \E m : /\ Onward(q, m) /\ m.step = "list" /\ m.ids = req[q].ids /\ m.todo = req[q].todo
<1> DEFINE m == [req[q] EXCEPT !.step = "list"]
<1>1. req[q] \in Request
  BY DEF QueueTyped, QueueTypeOK
<1>2. req' = [req EXCEPT ![q] = m]
  BY DEF CleanupConsumed, QueueTyped, QueueTypeOK
<1>3. m \in Request /\ m.kind = req[q].kind /\ m.run = req[q].run /\ m.now = req[q].now
      /\ m.step = "list" /\ m.ids = req[q].ids /\ m.todo = req[q].todo
  BY <1>1 DEF Request
<1> HIDE DEF m
<1> QED BY <1>2, <1>3 DEF Onward

\* A claim takes one candidate, leased to it or not.
LEMMA CompareAndSetDoes ==
    ASSUME QueueTyped, NEW q \in Requests, CompareAndSetLease(q)
    PROVE  \E e \in req[q].todo : \E m :
              /\ Onward(q, m) /\ m.step = req[q].step /\ m.seen = req[q].seen /\ m.todo = req[q].todo \ {e}
              /\ \/ /\ LeaseUnchanged(q, e) /\ m.ids = req[q].ids \cup {e}
                    /\ lease' = [lease EXCEPT ![e] = req[q].now + Lease]
                    /\ owner' = [owner EXCEPT ![e] = WorkerOf[req[q].run]]
                 \/ UNCHANGED <<lease, owner>> /\ m.ids = req[q].ids
<1>1. req[q] \in Request /\ req[q].todo \subseteq Events /\ req[q].ids \subseteq Events
  BY DEF QueueTyped, QueueTypeOK, Request
<1>2. PICK e \in req[q].todo :
         IF LeaseUnchanged(q, e)
         THEN /\ lease' = [lease EXCEPT ![e] = req[q].now + Lease]
              /\ owner' = [owner EXCEPT ![e] = WorkerOf[req[q].run]]
              /\ req' = [req EXCEPT ![q].todo = @ \ {e}, ![q].ids = @ \cup {e}]
         ELSE /\ UNCHANGED <<lease, owner>>
              /\ req' = [req EXCEPT ![q].todo = @ \ {e}]
  BY DEF CompareAndSetLease
<1>3. CASE LeaseUnchanged(q, e)
  <2> DEFINE m == [req[q] EXCEPT !.todo = req[q].todo \ {e}, !.ids = req[q].ids \cup {e}]
  <2>1. req' = [req EXCEPT ![q] = m]
    BY <1>2, <1>3 DEF QueueTyped, QueueTypeOK
  <2>2. m \in Request /\ m.kind = req[q].kind /\ m.run = req[q].run /\ m.now = req[q].now
        /\ m.step = req[q].step /\ m.seen = req[q].seen /\ m.todo = req[q].todo \ {e}
        /\ m.ids = req[q].ids \cup {e}
    BY <1>1 DEF Request
  <2> HIDE DEF m
  <2> QED BY <1>2, <1>3, <2>1, <2>2 DEF Onward
<1>4. CASE ~LeaseUnchanged(q, e)
  <2> DEFINE m == [req[q] EXCEPT !.todo = req[q].todo \ {e}]
  <2>1. req' = [req EXCEPT ![q] = m]
    BY <1>2, <1>4 DEF QueueTyped, QueueTypeOK
  <2>2. m \in Request /\ m.kind = req[q].kind /\ m.run = req[q].run /\ m.now = req[q].now
        /\ m.step = req[q].step /\ m.seen = req[q].seen /\ m.todo = req[q].todo \ {e}
        /\ m.ids = req[q].ids
    BY <1>1 DEF Request
  <2> HIDE DEF m
  <2> QED BY <1>2, <1>4, <2>1, <2>2 DEF Onward
<1> QED BY <1>3, <1>4

\* An acknowledgement is answered, or goes on with the rows that are still open.
LEMMA ListForAckDoes ==
    ASSUME QueueTyped, NEW q \in Requests, ListForAck(q)
    PROVE  \E m : /\ Onward(q, m) /\ m.ids = req[q].ids
                  /\ \/ m.step = "answer" /\ ~m.ok
                     \/ /\ m.step = "answer" /\ req[q].ids \subseteq stored
                        /\ \A e \in req[q].ids : consumed[e] # Null
                     \/ /\ m.step = "write" /\ req[q].ids \subseteq stored
                        /\ m.todo = {e \in req[q].ids : consumed[e] = Null}
<1> DEFINE open == {e \in req[q].ids : consumed[e] = Null}
<1>1. req[q] \in Request /\ req[q].ids \subseteq Events
  BY DEF QueueTyped, QueueTypeOK, Request
<1>2. CASE Answered(q, FALSE) \/ (Answered(q, TRUE) /\ req[q].ids \subseteq stored /\ open = {})
  BY <1>2, AnsweredTyped DEF Onward
<1>3. CASE req[q].ids \subseteq stored /\ req' = [req EXCEPT ![q].step = "write", ![q].todo = open]
  <2> DEFINE m == [req[q] EXCEPT !.step = "write", !.todo = open]
  <2>1. req' = [req EXCEPT ![q] = m]
    BY <1>3 DEF QueueTyped, QueueTypeOK
  <2>2. m \in Request /\ m.kind = req[q].kind /\ m.run = req[q].run /\ m.now = req[q].now
        /\ m.step = "write" /\ m.todo = open /\ m.ids = req[q].ids
    BY <1>1 DEF Request
  <2> HIDE DEF m
  <2> QED BY <1>3, <2>1, <2>2 DEF Onward
<1> QED BY <1>2, <1>3 DEF ListForAck

LEMMA OnwardTyped ==
    ASSUME QueueTyped, NEW q \in Requests, NEW m, Onward(q, m)
    PROVE  /\ req' \in [Requests -> Request] /\ RunOf'
           /\ req'[q] = m /\ \A p \in Requests \ {q} : req'[p] = req[p]
<1>1. m.kind \in {"claim", "ack"} => m.run \in Runs
  BY DEF Onward, QueueTyped, RunOf
<1> QED BY <1>1, OneRequest DEF Onward

\* The request is done with.
LEMMA ClosedTyped ==
    ASSUME QueueTyped, NEW q \in Requests, req' = [req EXCEPT ![q] = NoRequest]
    PROVE  /\ req' \in [Requests -> Request] /\ RunOf'
           /\ req'[q] = NoRequest /\ \A p \in Requests \ {q} : req'[p] = req[p]
<1>1. NoRequest \in Request /\ NoRequest.kind = "none"
  BY Constants DEF NoRequest
<1> QED BY <1>1, OneRequest

LEMMA QueueStepTyped == QueueTyped /\ [QueueNext]_queueVars => QueueTyped'
<1> SUFFICES ASSUME QueueTyped, [QueueNext]_queueVars PROVE QueueTyped'
  OBVIOUS
<1>t. /\ QueueTypeOK /\ RunOf /\ clock \in Nat /\ eventAt \in [Events -> Nat] /\ stored \subseteq Events
      /\ settled \subseteq Events /\ req \in [Requests -> Request]
      /\ lease \in [Events -> Nat] /\ owner \in [Events -> WorkerIds \cup {Idle}]
      /\ \A e \in Events : lease[e] = Null <=> owner[e] = Idle
      /\ consumed \in [Events -> Nat]
      /\ phase \in [Runs -> {"idle", "claiming", "working", "acking"}]
      /\ waits \in [Runs -> Requests \cup {Idle}] /\ held \in [Runs -> SUBSET Events]
      /\ faults \in 0..MaxFaults
  BY DEF QueueTyped, QueueTypeOK
<1>f. ASSUME Fault PROVE faults' \in 0..MaxFaults
  BY <1>f, <1>t, Constants DEF Fault
<1>1. CASE UNCHANGED queueVars
  BY <1>1, <1>t DEF queueVars, rowvars, runvars, QueueTyped, QueueTypeOK, RunOf
<1>2. CASE Tick
  BY <1>2, <1>t DEF Tick, rowvars, runvars, QueueTyped, QueueTypeOK, RunOf
<1>3. ASSUME NEW q \in Requests, NEW e \in Events, Deliver(q, e) PROVE QueueTyped'
  <2>1. req' \in [Requests -> Request] /\ RunOf'
    <3>1. Arrives(q, "webhook", "write", Idle, {e}) /\ {e} \in SUBSET Events
      BY <1>3 DEF Deliver
    <3>2. Opened("webhook", "write", Idle, {e}) \in Request
      BY <3>1, <1>t, Constants DEF Opened, NoRequest, Request
    <3>3. Opened("webhook", "write", Idle, {e}).kind = "webhook"
      BY DEF Opened, NoRequest
    <3> QED BY <3>1, <3>2, <3>3, OneRequest DEF Arrives
  <2> QED BY <1>3, <1>t, <2>1 DEF Deliver, rowvars, runvars, QueueTyped, QueueTypeOK
<1>4. ASSUME NEW q \in Requests, NEW r \in Runs, SendClaim(r, q) PROVE QueueTyped'
  <2>1. req' \in [Requests -> Request] /\ RunOf'
    <3>1. Arrives(q, "claim", "clean", r, {}) /\ {} \in SUBSET Events
      BY <1>4 DEF SendClaim
    <3>2. Opened("claim", "clean", r, {}) \in Request
      BY <1>t, Constants DEF Opened, NoRequest, Request
    <3>3. Opened("claim", "clean", r, {}).run = r
      BY <3>2 DEF Opened, NoRequest, Request
    <3> QED BY <3>1, <3>2, <3>3, OneRequest DEF Arrives
  <2> QED BY <1>4, <1>t, <2>1 DEF SendClaim, rowvars, QueueTyped, QueueTypeOK
<1>5. ASSUME NEW q \in Requests, NEW r \in Runs, NEW ids \in SUBSET Events, SendAck(r, q, ids)
      PROVE  QueueTyped'
  <2>1. req' \in [Requests -> Request] /\ RunOf'
    <3>1. Arrives(q, "ack", "list", r, ids)
      BY <1>5 DEF SendAck
    <3>2. Opened("ack", "list", r, ids) \in Request
      BY <1>t, Constants DEF Opened, NoRequest, Request
    <3>3. Opened("ack", "list", r, ids).run = r
      BY DEF Opened, NoRequest
    <3> QED BY <3>1, <3>2, <3>3, OneRequest DEF Arrives
  <2> QED BY <1>5, <1>t, <2>1 DEF SendAck, rowvars, QueueTyped, QueueTypeOK
<1>6. ASSUME NEW q \in Requests, InsertIfAbsent(q) PROVE QueueTyped'
  <2>1. req' \in [Requests -> Request] /\ RunOf' /\ req[q].ids \subseteq Events
    BY <1>6, <1>t, ClosedTyped DEF InsertIfAbsent, Request
  <2>2. /\ lease' \in [Events -> Nat] /\ owner' \in [Events -> WorkerIds \cup {Idle}]
        /\ consumed' \in [Events -> Nat] /\ stored' \subseteq Events
        /\ \A e \in Events : lease'[e] = Null <=> owner'[e] = Idle
    BY <1>6, <1>t, <2>1 DEF InsertIfAbsent, Null
  <2> QED BY <1>6, <1>t, <2>1, <2>2 DEF InsertIfAbsent, runvars, QueueTyped, QueueTypeOK
<1>7. ASSUME NEW q \in Requests, CleanupConsumed(q) PROVE QueueTyped'
  <2>1. req' \in [Requests -> Request] /\ RunOf'
    BY <1>7, CleanupDoes, OnwardTyped
  <2> QED BY <1>7, <1>t, <2>1 DEF CleanupConsumed, runvars, QueueTyped, QueueTypeOK
<1>8. ASSUME NEW q \in Requests, ListForClaim(q) PROVE QueueTyped'
  <2>1. req' \in [Requests -> Request] /\ RunOf'
    BY <1>8, ListForClaimDoes, OnwardTyped
  <2> QED BY <1>8, <1>t, <2>1 DEF ListForClaim, rowvars, runvars, QueueTyped, QueueTypeOK
<1>9. ASSUME NEW q \in Requests, CompareAndSetLease(q) PROVE QueueTyped'
  <2>1. PICK e, m :
           /\ e \in req[q].todo
           /\ Onward(q, m)
           /\ \/ /\ lease' = [lease EXCEPT ![e] = req[q].now + Lease]
                 /\ owner' = [owner EXCEPT ![e] = WorkerOf[req[q].run]]
              \/ UNCHANGED <<lease, owner>>
    BY <1>9, CompareAndSetDoes
  <2>2. req' \in [Requests -> Request] /\ RunOf'
    BY <2>1, OnwardTyped
  <2>3. e \in Events /\ req[q].now \in Nat /\ req[q].run \in Runs
    BY <1>9, <1>t, <2>1 DEF CompareAndSetLease, At, RunOf, Request
  <2>4. WorkerOf[req[q].run] \in WorkerIds /\ WorkerOf[req[q].run] # Idle
    BY <2>3, WorkerOfAssumption, Constants
  <2>5. /\ lease' \in [Events -> Nat] /\ owner' \in [Events -> WorkerIds \cup {Idle}]
        /\ \A k \in Events : lease'[k] = Null <=> owner'[k] = Idle
    BY <1>t, <2>1, <2>3, <2>4, Constants DEF Null
  <2> QED BY <1>9, <1>t, <2>2, <2>5 DEF CompareAndSetLease, runvars, QueueTyped, QueueTypeOK
<1>10. ASSUME NEW q \in Requests, ClaimDone(q) PROVE QueueTyped'
  <2>1. req' \in [Requests -> Request] /\ RunOf'
    <3>1. Answered(q, TRUE)
      BY <1>10 DEF ClaimDone
    <3>2. Onward(q, req'[q])
      BY <3>1, AnsweredTyped DEF Onward
    <3> QED BY <3>2, OnwardTyped
  <2> QED BY <1>10, <1>t, <2>1 DEF ClaimDone, rowvars, runvars, QueueTyped, QueueTypeOK
<1>11. ASSUME NEW q \in Requests, ListForAck(q) PROVE QueueTyped'
  <2>1. req' \in [Requests -> Request] /\ RunOf'
    BY <1>11, ListForAckDoes, OnwardTyped
  <2> QED BY <1>11, <1>t, <2>1 DEF ListForAck, rowvars, runvars, QueueTyped, QueueTypeOK
<1>12. ASSUME NEW q \in Requests, AcknowledgeAtomically(q) PROVE QueueTyped'
  <2>1. req' \in [Requests -> Request] /\ RunOf'
    BY <1>12, AnsweredTyped, ConflictedTyped, OnwardTyped DEF AcknowledgeAtomically, Onward
  <2>2. req[q].todo \subseteq Events /\ req[q].now \in Nat
    BY <1>t DEF Request
  <2>3. /\ consumed' \in [Events -> Nat] /\ lease' \in [Events -> Nat]
        /\ owner' \in [Events -> WorkerIds \cup {Idle}] /\ settled' \subseteq Events
        /\ \A e \in Events : lease'[e] = Null <=> owner'[e] = Idle
    <3>1. CASE UNCHANGED <<consumed, lease, owner, settled>>
      BY <1>t, <3>1
    <3>2. CASE /\ consumed' = [e \in Events |-> IF e \in req[q].todo THEN req[q].now ELSE consumed[e]]
               /\ lease' = [e \in Events |-> IF e \in req[q].todo THEN Null ELSE lease[e]]
               /\ owner' = Released(req[q].todo)
               /\ settled' = settled \cup req[q].todo
      BY <1>t, <2>2, <3>2 DEF Released, Null
    <3> QED BY <1>12, <3>1, <3>2 DEF AcknowledgeAtomically
  <2> QED BY <1>12, <1>t, <2>1, <2>3 DEF AcknowledgeAtomically, runvars, QueueTyped, QueueTypeOK
<1>13. ASSUME NEW q \in Requests, Answer(q) PROVE QueueTyped'
  <2>1. req' \in [Requests -> Request] /\ RunOf' /\ req[q].ids \subseteq Events
    BY <1>13, <1>t, ClosedTyped DEF Answer, Request
  <2>2. /\ phase' \in [Runs -> {"idle", "claiming", "working", "acking"}]
        /\ waits' \in [Runs -> Requests \cup {Idle}] /\ held' \in [Runs -> SUBSET Events]
    BY <1>13, <1>t, <2>1 DEF Answer, runvars
  <2> QED BY <1>13, <1>t, <2>1, <2>2 DEF Answer, rowvars, QueueTyped, QueueTypeOK
<1>14. ASSUME NEW r \in Runs, TimesOut(r) \/ Dies(r) PROVE QueueTyped'
  <2>1. /\ phase' \in [Runs -> {"idle", "claiming", "working", "acking"}]
        /\ waits' \in [Runs -> Requests \cup {Idle}] /\ held' \in [Runs -> SUBSET Events]
        /\ faults' \in 0..MaxFaults
    BY <1>14, <1>t, <1>f DEF TimesOut, Dies
  <2> QED BY <1>14, <1>t, <2>1 DEF TimesOut, Dies, rowvars, QueueTyped, QueueTypeOK, RunOf
<1>15. ASSUME NEW q \in Requests, ServerDies(q) PROVE QueueTyped'
  <2>1. req' \in [Requests -> Request] /\ RunOf' /\ faults' \in 0..MaxFaults
    BY <1>15, <1>f, ClosedTyped DEF ServerDies
  <2>2. /\ phase' \in [Runs -> {"idle", "claiming", "working", "acking"}]
        /\ waits' \in [Runs -> Requests \cup {Idle}] /\ held' \in [Runs -> SUBSET Events]
    BY <1>15, <1>t DEF ServerDies
  <2> QED BY <1>15, <1>t, <2>1, <2>2 DEF ServerDies, rowvars, QueueTyped, QueueTypeOK
<1> QED
  BY <1>1, <1>2, <1>3, <1>4, <1>5, <1>6, <1>7, <1>8, <1>9, <1>10, <1>11, <1>12, <1>13, <1>14, <1>15
  DEF QueueNext, Serve

\* For any events, runs, requests and bounds, the rows and claims keep the shapes the SQL
\* constraints allow: lease_owner and lease_expires_at come and go together.
THEOREM QueueTypeCorrect == QueueSpec => []QueueTypeOK
<1>1. QueueTyped => QueueTypeOK
  BY DEF QueueTyped
<1> QED BY <1>1, QueueInitTyped, QueueStepTyped, PTL DEF QueueSpec


(***************************************************************************)
(* The safety invariant                                                    *)
(***************************************************************************)

\* A delivery of e passes the webhook's window at t only if e happened by then.
Heard(e, t) == eventAt[e] <= t + Window

\* The time a request read is not older than its life.
Timely(m) == m.kind # "none" => 1 <= m.now /\ m.now <= clock /\ clock <= m.now + Patience

\* The events of a request have passed the window, some delivery's if not its own.
Known(m) ==
    /\ m.kind = "webhook" => \A e \in m.ids : Heard(e, m.now) /\ m.now <= eventAt[e] + Window
    /\ m.kind = "claim" => \A e \in m.ids \cup m.todo : Heard(e, clock)
    /\ m.kind = "ack" => \A e \in m.ids : Heard(e, m.now)

\* A claim listed its candidates with leases that had expired.
Listed(m) == m.kind = "claim" /\ m.step = "write" => \A e \in m.todo : m.seen[e] <= m.now

\* What an acknowledgement is not about to consume, or has granted, is consumed.
Split(m) == m.kind = "ack" /\ m.step = "write" => m.todo \subseteq m.ids /\ m.ids \ m.todo \subseteq settled

Granted(m) == m.kind = "ack" /\ m.step = "answer" /\ m.ok => m.ids \subseteq settled

Sound(m) == Timely(m) /\ Known(m) /\ Listed(m) /\ Split(m) /\ Granted(m)

Rows ==
    /\ \A e \in stored : Heard(e, clock)
    /\ \A e \in stored : consumed[e] # Null => Heard(e, consumed[e]) /\ e \in settled

\* Once a row is cleaned up, every delivery of its event is out of the window or over.
Gone == \A e \in settled \ stored : clock > eventAt[e] + Window + Patience

Held == \A r \in Runs : \A e \in held[r] : Heard(e, clock)

Safe ==
    /\ clock >= 1
    /\ \A q \in Requests : Sound(req[q])
    /\ Rows /\ Gone /\ Held /\ NeverQueuedTwice

LEMMA InitSafe == QueueInit => Safe
<1> SUFFICES ASSUME QueueInit PROVE Safe
  OBVIOUS
<1>1. \A q \in Requests : Sound(req[q])
  BY DEF QueueInit, NoRequest, Sound, Timely, Known, Listed, Split, Granted
<1> QED BY <1>1 DEF QueueInit, Safe, Rows, Gone, Held, NeverQueuedTwice

\* The other requests stay sound while events are only ever settled.
LEMMA OthersSound ==
    ASSUME QueueTyped, Safe, NEW q \in Requests, UNCHANGED <<clock, eventAt>>, settled \subseteq settled',
           \A p \in Requests \ {q} : req'[p] = req[p], Sound(req[q])'
    PROVE  \A p \in Requests : Sound(req[p])'
<1> SUFFICES ASSUME NEW p \in Requests \ {q} PROVE Sound(req[p])'
  OBVIOUS
<1>1. Sound(req[p]) /\ req'[p] = req[p]
  BY DEF Safe
<1> QED BY <1>1 DEF Sound, Timely, Known, Listed, Split, Granted, Heard

\* A step that leaves the rows alone.
LEMMA RowsKept ==
    ASSUME Safe, UNCHANGED <<clock, eventAt, rowvars>>
    PROVE  (clock >= 1)' /\ Rows' /\ Gone' /\ NeverQueuedTwice'
BY DEF Safe, Rows, Gone, NeverQueuedTwice, Heard, rowvars

LEMMA HeldKept ==
    ASSUME Safe, UNCHANGED <<clock, eventAt>>,
           \A r \in Runs : held'[r] = {} \/ held'[r] = held[r]
    PROVE  Held'
BY DEF Safe, Held, Heard

LEMMA TickSafe == QueueTyped /\ Safe /\ Tick => Safe'
<1> SUFFICES ASSUME QueueTyped, Safe, Tick PROVE Safe'
  OBVIOUS
<1>1. /\ clock \in Nat /\ clock' = clock + 1 /\ UNCHANGED <<eventAt, rowvars, req, held>>
      /\ eventAt \in [Events -> Nat] /\ stored \subseteq Events /\ settled \subseteq Events
      /\ held \in [Runs -> SUBSET Events]
  BY DEF Tick, runvars, QueueTyped, QueueTypeOK
<1>2. ASSUME NEW q \in Requests PROVE Sound(req[q])'
  <2>1. /\ req'[q] = req[q] /\ Sound(req[q]) /\ req[q].now \in Nat
        /\ req[q].ids \subseteq Events /\ req[q].todo \subseteq Events
    BY <1>1 DEF Safe, QueueTyped, QueueTypeOK, Request
  <2>2. req[q].kind # "none" => clock + 1 <= req[q].now + Patience
    BY <1>1, <2>1, Constants DEF Tick, Free
  <2>3. Timely(req[q])'
    BY <1>1, <2>1, <2>2 DEF Sound, Timely
  <2>4. Known(req[q])'
    BY <1>1, <2>1, Constants DEF Sound, Known, Heard
  <2>5. Listed(req[q])' /\ Split(req[q])' /\ Granted(req[q])'
    BY <1>1, <2>1 DEF Sound, Listed, Split, Granted, rowvars
  <2> QED BY <2>3, <2>4, <2>5 DEF Sound
<1>3. (clock >= 1)' /\ Rows' /\ Gone' /\ Held' /\ NeverQueuedTwice'
  BY <1>1, Constants DEF Safe, Rows, Gone, Held, NeverQueuedTwice, Heard, rowvars
<1> QED BY <1>2, <1>3 DEF Safe

\* A request that has just arrived.
LEMMA ArrivedSafe ==
    ASSUME QueueTyped, Safe, NEW q \in Requests, NEW kind \in {"webhook", "claim", "ack"},
           NEW step \in {"clean", "list", "write"}, NEW r \in Runs \cup {Idle},
           NEW ids \in SUBSET Events, Arrives(q, kind, step, r, ids),
           kind = "ack" => step = "list",
           UNCHANGED <<clock, eventAt, rowvars, held>>,
           \A e \in ids : Heard(e, clock),
           kind = "webhook" => \A e \in ids : clock <= eventAt[e] + Window
    PROVE  Safe'
<1>1. req' = [req EXCEPT ![q] = Opened(kind, step, r, ids)]
  BY DEF Arrives
<1>2. req'[q] = Opened(kind, step, r, ids) /\ \A p \in Requests \ {q} : req'[p] = req[p]
  BY <1>1 DEF QueueTyped, QueueTypeOK
<1>3. /\ req'[q].kind = kind /\ req'[q].step = step /\ req'[q].ids = ids /\ req'[q].now = clock
      /\ req'[q].todo = {}
  BY <1>2 DEF Opened, NoRequest
<1>4. clock \in Nat /\ clock' = clock /\ settled' = settled /\ eventAt' = eventAt
  BY DEF QueueTyped, QueueTypeOK, rowvars
<1>5. Sound(req[q])'
  BY <1>3, <1>4, Constants DEF Safe, Sound, Timely, Known, Listed, Split, Granted, Heard
<1>6. \A p \in Requests : Sound(req[p])'
  BY <1>2, <1>4, <1>5, OthersSound
<1>7. Held'
  BY HeldKept
<1> QED BY <1>6, <1>7, RowsKept DEF Safe

LEMMA DeliverSafe ==
    ASSUME QueueTyped, Safe, NEW q \in Requests, NEW e \in Events, Deliver(q, e)
    PROVE  Safe'
<1>1. /\ Arrives(q, "webhook", "write", Idle, {e}) /\ {e} \in SUBSET Events
      /\ UNCHANGED <<clock, eventAt, rowvars, held>>
  BY DEF Deliver, runvars
<1>2. Heard(e, clock) /\ clock <= eventAt[e] + Window
  BY Constants DEF Deliver, Stale, Heard, QueueTyped, QueueTypeOK
<1> QED BY <1>1, <1>2, ArrivedSafe

LEMMA SendClaimSafe ==
    ASSUME QueueTyped, Safe, NEW q \in Requests, NEW r \in Runs, SendClaim(r, q)
    PROVE  Safe'
<1>1. Arrives(q, "claim", "clean", r, {}) /\ UNCHANGED <<clock, eventAt, rowvars, held>>
  BY DEF SendClaim
<1> QED BY <1>1, ArrivedSafe

LEMMA SendAckSafe ==
    ASSUME QueueTyped, Safe, NEW q \in Requests, NEW r \in Runs, NEW ids \in SUBSET Events, SendAck(r, q, ids)
    PROVE  Safe'
<1>1. /\ Arrives(q, "ack", "list", r, ids) /\ UNCHANGED <<clock, eventAt, rowvars, held>>
      /\ ids \subseteq held[r]
  BY DEF SendAck
<1>2. \A e \in ids : Heard(e, clock)
  BY <1>1 DEF Safe, Held
<1> QED BY <1>1, <1>2, ArrivedSafe

\* A request that goes on without touching the rows.
LEMMA OnwardSafe ==
    ASSUME QueueTyped, Safe, NEW q \in Requests, NEW m, Onward(q, m),
           UNCHANGED <<clock, eventAt, rowvars, held>>,
           m.ids = req[q].ids, m.kind = "claim" => \A e \in m.todo : Heard(e, clock),
           Listed(m), Split(m), Granted(m)
    PROVE  Safe'
<1>1. req'[q] = m /\ \A p \in Requests \ {q} : req'[p] = req[p]
  BY OnwardTyped
<1>2. /\ m.kind = req[q].kind /\ m.now = req[q].now /\ m.ids = req[q].ids
      /\ clock' = clock /\ eventAt' = eventAt /\ settled' = settled
  BY DEF Onward, rowvars
<1>3. Sound(req[q])
  BY DEF Safe
<1>4. Timely(req[q])'
  BY <1>1, <1>2, <1>3 DEF Sound, Timely
<1>5. Known(req[q])'
  BY <1>1, <1>2, <1>3 DEF Sound, Known, Heard
<1>6. Listed(req[q])' /\ Split(req[q])' /\ Granted(req[q])'
  BY <1>1, <1>2 DEF Listed, Split, Granted
<1>7. \A p \in Requests : Sound(req[p])'
  BY <1>1, <1>2, <1>4, <1>5, <1>6, OthersSound DEF Sound
<1>8. Held'
  BY HeldKept
<1> QED BY <1>7, <1>8, RowsKept DEF Safe

\* A request that is over.
LEMMA ClosedSound ==
    ASSUME QueueTyped, Safe, NEW q \in Requests, req' = [req EXCEPT ![q] = NoRequest],
           UNCHANGED <<clock, eventAt, settled>>
    PROVE  \A p \in Requests : Sound(req[p])'
<1>1. req'[q] = NoRequest /\ \A p \in Requests \ {q} : req'[p] = req[p]
  BY ClosedTyped
<1>2. Sound(req[q])'
  BY <1>1 DEF NoRequest, Sound, Timely, Known, Listed, Split, Granted
<1> QED BY <1>1, <1>2, OthersSound

\* A delivery's event is not Gone, so its row was not cleaned up before.
LEMMA InsertSafe ==
    ASSUME QueueTyped, Safe, NEW q \in Requests, InsertIfAbsent(q)
    PROVE  Safe'
<1> DEFINE ids == req[q].ids
<1>1. /\ clock' = clock /\ eventAt' = eventAt /\ settled' = settled /\ held' = held
      /\ stored' = stored \cup ids
      /\ req' = [req EXCEPT ![q] = NoRequest]
  BY DEF InsertIfAbsent, runvars
<1>2. /\ clock \in Nat /\ eventAt \in [Events -> Nat] /\ ids \subseteq Events /\ stored \subseteq Events
      /\ settled \subseteq Events /\ req[q].now \in Nat
      /\ \A e \in Events : e \notin ids \ stored => consumed'[e] = consumed[e] /\ lease'[e] = lease[e]
      /\ \A e \in Events : e \in ids \ stored => consumed'[e] = Null
  BY DEF InsertIfAbsent, QueueTyped, QueueTypeOK, Request
<1>3. \A e \in ids : Heard(e, clock) /\ clock <= eventAt[e] + Window + Patience
  <2>1. Timely(req[q]) /\ Known(req[q]) /\ req[q].kind = "webhook"
    BY DEF Safe, Sound, InsertIfAbsent, At
  <2> QED BY <1>2, <2>1, Constants DEF Timely, Known, Heard
<1>4. ids \cap settled \subseteq stored
  BY <1>2, <1>3, Constants DEF Safe, Gone
<1>5. \A p \in Requests : Sound(req[p])'
  BY <1>1, ClosedSound
<1>6. Rows'
  BY <1>1, <1>2, <1>3 DEF Safe, Rows, Heard, Null
<1>7. Gone' /\ NeverQueuedTwice'
  BY <1>1, <1>2, <1>4 DEF Safe, Gone, NeverQueuedTwice
<1>8. Held'
  BY <1>1, HeldKept
<1> QED BY <1>1, <1>5, <1>6, <1>7, <1>8 DEF Safe

\* What is cleaned up was consumed Retention ago, and so is Gone.
LEMMA CleanupSafe ==
    ASSUME QueueTyped, Safe, NEW q \in Requests, CleanupConsumed(q)
    PROVE  Safe'
<1>1. PICK m : Onward(q, m) /\ m.step = "list" /\ m.ids = req[q].ids /\ m.todo = req[q].todo
  BY CleanupDoes
<1>2. /\ clock' = clock /\ eventAt' = eventAt /\ settled' = settled /\ held' = held
      /\ consumed' = consumed /\ lease' = lease
      /\ stored' = {e \in stored : ~Outdated(e, req[q].now)}
  BY DEF CleanupConsumed, runvars
<1>3. /\ clock \in Nat /\ eventAt \in [Events -> Nat] /\ stored \subseteq Events
      /\ settled \subseteq Events /\ req[q].now \in Nat /\ consumed \in [Events -> Nat]
  BY DEF QueueTyped, QueueTypeOK, Request
<1>4. req'[q] = m /\ \A p \in Requests \ {q} : req'[p] = req[p]
  BY <1>1, OnwardTyped
<1>5. Sound(req[q]) /\ req[q].kind = "claim" /\ req[q].now <= clock
  BY DEF Safe, Sound, Timely, CleanupConsumed, At
<1>6. \A p \in Requests : Sound(req[p])'
  <2>1. Sound(req[q])'
    BY <1>1, <1>2, <1>4, <1>5 DEF Onward, Sound, Timely, Known, Listed, Split, Granted, Heard
  <2> QED BY <1>2, <1>4, <2>1, OthersSound
<1>7. \A e \in stored \ stored' : clock > eventAt[e] + Window + Patience
  <2> SUFFICES ASSUME NEW e \in stored, Outdated(e, req[q].now)
               PROVE  clock > eventAt[e] + Window + Patience
    BY <1>2
  <2>1. Heard(e, consumed[e]) /\ consumed[e] + Retention < req[q].now
    BY DEF Outdated, Safe, Rows
  <2> QED BY <1>3, <1>5, <2>1, Constants DEF Heard
<1>8. Rows' /\ NeverQueuedTwice'
  BY <1>2 DEF Safe, Rows, NeverQueuedTwice, Heard
<1>9. Gone'
  BY <1>2, <1>7 DEF Safe, Gone
<1>10. Held'
  BY <1>2, HeldKept
<1> QED BY <1>2, <1>6, <1>8, <1>9, <1>10 DEF Safe

LEMMA ListForClaimSafe ==
    ASSUME QueueTyped, Safe, NEW q \in Requests, ListForClaim(q)
    PROVE  Safe'
<1>1. PICK m : /\ Onward(q, m) /\ m.step = "write" /\ m.seen = lease /\ m.ids = req[q].ids
               /\ m.todo = {e \in stored : IsAvailable(e, req[q].now)}
  BY ListForClaimDoes
<1>2. UNCHANGED <<clock, eventAt, rowvars, held>> /\ m.kind = "claim" /\ m.now = req[q].now
  BY <1>1 DEF ListForClaim, At, Onward, runvars
<1>3. \A e \in m.todo : Heard(e, clock) /\ m.seen[e] <= m.now
  BY <1>1, <1>2 DEF Safe, Rows, IsAvailable
<1> QED BY <1>1, <1>2, <1>3, OnwardSafe DEF Listed, Split, Granted

\* The row a claim writes is not consumed.
LEMMA CompareAndSetSafe ==
    ASSUME QueueTyped, Safe, NEW q \in Requests, CompareAndSetLease(q)
    PROVE  Safe'
<1>1. PICK e, m :
         /\ e \in req[q].todo
         /\ Onward(q, m) /\ m.step = req[q].step /\ m.seen = req[q].seen /\ m.todo = req[q].todo \ {e}
         /\ \/ /\ LeaseUnchanged(q, e) /\ m.ids = req[q].ids \cup {e}
               /\ lease' = [lease EXCEPT ![e] = req[q].now + Lease]
            \/ UNCHANGED lease /\ m.ids = req[q].ids
  BY CompareAndSetDoes
<1>2. /\ clock' = clock /\ eventAt' = eventAt /\ settled' = settled /\ held' = held
      /\ consumed' = consumed /\ stored' = stored /\ req[q].kind = "claim"
  BY DEF CompareAndSetLease, At, runvars
<1>3. req'[q] = m /\ \A p \in Requests \ {q} : req'[p] = req[p]
  BY <1>1, OnwardTyped
<1>4. \A p \in Requests : Sound(req[p])'
  <2>1. Sound(req[q])
    BY DEF Safe
  <2>2. Sound(req[q])'
    BY <1>1, <1>2, <1>3, <2>1 DEF Onward, Sound, Timely, Known, Listed, Split, Granted, Heard
  <2> QED BY <1>2, <1>3, <2>2, OthersSound
<1>5. NeverQueuedTwice'
  <2>1. \A k \in settled \cap stored : lease'[k] = lease[k]
    BY <1>1 DEF Safe, NeverQueuedTwice, LeaseUnchanged, QueueTyped, QueueTypeOK
  <2> QED BY <1>2, <2>1 DEF Safe, NeverQueuedTwice
<1>6. Rows' /\ Gone'
  BY <1>2 DEF Safe, Rows, Gone, Heard
<1>7. Held'
  BY <1>2, HeldKept
<1> QED BY <1>2, <1>4, <1>5, <1>6, <1>7 DEF Safe

LEMMA ListForAckSafe ==
    ASSUME QueueTyped, Safe, NEW q \in Requests, ListForAck(q)
    PROVE  Safe'
<1>1. PICK m :
         /\ Onward(q, m) /\ m.ids = req[q].ids
         /\ \/ m.step = "answer" /\ ~m.ok
            \/ /\ m.step = "answer" /\ req[q].ids \subseteq stored
               /\ \A e \in req[q].ids : consumed[e] # Null
            \/ /\ m.step = "write" /\ req[q].ids \subseteq stored
               /\ m.todo = {e \in req[q].ids : consumed[e] = Null}
  BY ListForAckDoes
<1>2. UNCHANGED <<clock, eventAt, rowvars, held>> /\ m.kind = "ack"
  BY <1>1 DEF ListForAck, At, Onward, runvars
<1>3. \A e \in stored : consumed[e] # Null => e \in settled
  BY DEF Safe, Rows
<1>4. Split(m) /\ Granted(m)
  BY <1>1, <1>3 DEF Split, Granted
<1> QED BY <1>1, <1>2, <1>4, OnwardSafe DEF Listed

\* An acknowledgement consumes its open events all at once, or none.
LEMMA AcknowledgeSafe ==
    ASSUME QueueTyped, Safe, NEW q \in Requests, AcknowledgeAtomically(q)
    PROVE  Safe'
<1> DEFINE todo == req[q].todo
<1>1. /\ clock' = clock /\ eventAt' = eventAt /\ stored' = stored /\ held' = held
      /\ req[q].kind = "ack" /\ req[q].step = "write"
  BY DEF AcknowledgeAtomically, At, runvars
<1>2. Timely(req[q]) /\ Known(req[q]) /\ Split(req[q])
  BY DEF Safe, Sound
<1>3. /\ todo \subseteq req[q].ids /\ req[q].ids \ todo \subseteq settled
      /\ \A e \in req[q].ids : Heard(e, req[q].now)
      /\ 1 <= req[q].now /\ req[q].now \in Nat
  BY <1>1, <1>2 DEF Timely, Known, Split, QueueTyped, QueueTypeOK, Request
<1>4. CASE /\ consumed' = [e \in Events |-> IF e \in todo THEN req[q].now ELSE consumed[e]]
           /\ lease' = [e \in Events |-> IF e \in todo THEN Null ELSE lease[e]]
           /\ settled' = settled \cup todo
           /\ Consumable(q) /\ Answered(q, TRUE)
  <2>1. /\ req'[q] \in Request /\ req'[q].kind = "ack" /\ req'[q].ids = req[q].ids
        /\ req'[q].now = req[q].now /\ req'[q].step = "answer"
        /\ req' = [req EXCEPT ![q] = req'[q]]
    BY <1>1, <1>4, AnsweredTyped
  <2>2. \A p \in Requests \ {q} : req'[p] = req[p]
    BY <2>1 DEF QueueTyped, QueueTypeOK
  <2>3. Timely(req[q])' /\ Known(req[q])'
    BY <1>1, <1>2, <2>1 DEF Timely, Known, Heard
  <2>4. Listed(req[q])' /\ Split(req[q])' /\ Granted(req[q])'
    BY <1>3, <1>4, <2>1 DEF Listed, Split, Granted
  <2>5. \A p \in Requests : Sound(req[p])'
    BY <1>1, <1>4, <2>2, <2>3, <2>4, OthersSound DEF Sound
  <2>6. todo \subseteq Events /\ todo \subseteq stored /\ stored \subseteq Events
    BY <1>4 DEF Consumable, QueueTyped, QueueTypeOK
  <2>7. Rows' /\ Gone' /\ NeverQueuedTwice'
    BY <1>1, <1>3, <1>4, <2>6 DEF Safe, Rows, Gone, NeverQueuedTwice, Heard, Null
  <2> QED BY <1>1, <2>5, <2>7, HeldKept DEF Safe
<1>5. CASE Conflicted(q) /\ UNCHANGED <<consumed, lease, settled>>
  <2>1. /\ req'[q] \in Request /\ req'[q].kind = "ack" /\ req'[q].ids = req[q].ids
        /\ req'[q].now = req[q].now
        /\ req'[q].step = "list" \/ (req'[q].step = "answer" /\ ~req'[q].ok)
        /\ req' = [req EXCEPT ![q] = req'[q]]
    BY <1>1, <1>5, ConflictedTyped
  <2>2. \A p \in Requests \ {q} : req'[p] = req[p]
    BY <2>1 DEF QueueTyped, QueueTypeOK
  <2>3. Sound(req[q])'
    BY <1>1, <1>2, <2>1 DEF Sound, Timely, Known, Listed, Split, Granted, Heard
  <2>4. \A p \in Requests : Sound(req[p])'
    BY <1>1, <1>5, <2>2, <2>3, OthersSound
  <2>5. Rows' /\ Gone' /\ NeverQueuedTwice'
    BY <1>1, <1>5 DEF Safe, Rows, Gone, NeverQueuedTwice, Heard
  <2> QED BY <1>1, <2>4, <2>5, HeldKept DEF Safe
<1> QED BY <1>4, <1>5 DEF AcknowledgeAtomically

LEMMA AnswerSafe ==
    ASSUME QueueTyped, Safe, NEW q \in Requests, Answer(q)
    PROVE  Safe'
<1>1. req' = [req EXCEPT ![q] = NoRequest] /\ UNCHANGED <<clock, eventAt, rowvars>>
  BY DEF Answer
<1>2. settled' = settled /\ clock' = clock /\ eventAt' = eventAt
  BY <1>1 DEF rowvars
<1>3. \A r \in Runs : \/ held'[r] = held[r] \/ held'[r] = {}
                      \/ req[q].kind = "claim" /\ held'[r] = req[q].ids
  BY DEF Answer, runvars, QueueTyped, QueueTypeOK
<1>4. req[q].kind = "claim" => \A e \in req[q].ids : Heard(e, clock)
  BY DEF Safe, Sound, Known
<1>5. Held'
  BY <1>2, <1>3, <1>4 DEF Safe, Held, Heard
<1> QED BY <1>1, <1>2, <1>5, ClosedSound, RowsKept DEF Safe

LEMMA FaultSafe ==
    ASSUME QueueTyped, Safe,
           (\E r \in Runs : TimesOut(r) \/ Dies(r)) \/ (\E q \in Requests : ServerDies(q))
    PROVE  Safe'
<1>1. UNCHANGED <<clock, eventAt, rowvars>>
  BY DEF TimesOut, Dies, ServerDies
<1>2. settled' = settled /\ clock' = clock /\ eventAt' = eventAt
  BY <1>1 DEF rowvars
<1>3. \A r \in Runs : held'[r] = held[r] \/ held'[r] = {}
  BY DEF TimesOut, Dies, ServerDies, QueueTyped, QueueTypeOK
<1>4. \A p \in Requests : Sound(req[p])'
  <2>1. ASSUME UNCHANGED req PROVE \A p \in Requests : Sound(req[p])'
    BY <1>2, <2>1 DEF Safe, Sound, Timely, Known, Listed, Split, Granted, Heard
  <2>2. ASSUME NEW q \in Requests, ServerDies(q) PROVE \A p \in Requests : Sound(req[p])'
    BY <1>2, <2>2, ClosedSound DEF ServerDies
  <2> QED BY <2>1, <2>2 DEF TimesOut, Dies
<1> QED BY <1>1, <1>2, <1>3, <1>4, RowsKept, HeldKept DEF Safe

LEMMA StepSafe == QueueTyped /\ Safe /\ [QueueNext]_queueVars => Safe'
<1> SUFFICES ASSUME QueueTyped, Safe, [QueueNext]_queueVars PROVE Safe'
  OBVIOUS
<1>1. CASE UNCHANGED queueVars
  BY <1>1 DEF queueVars, rowvars, runvars, Safe, Sound, Timely, Known, Listed, Split, Granted, Heard,
              Rows, Gone, Held, NeverQueuedTwice
<1>2. ASSUME NEW q \in Requests, Serve(q) PROVE Safe'
  <2>1. CASE ClaimDone(q)
    <3>1. Onward(q, req'[q]) /\ req'[q].ids = req[q].ids /\ req'[q].step = "answer"
          /\ req'[q].kind = "claim" /\ req'[q].todo = req[q].todo
      BY <2>1, AnsweredTyped DEF ClaimDone, At, Onward
    <3>2. UNCHANGED <<clock, eventAt, rowvars, held>>
      BY <2>1 DEF ClaimDone, runvars
    <3>3. \A e \in req[q].todo : Heard(e, clock)
      BY <2>1 DEF Safe, Sound, Known, ClaimDone, At
    <3> QED BY <3>1, <3>2, <3>3, OnwardSafe DEF Listed, Split, Granted
  <2> QED
    BY <1>2, <2>1, InsertSafe, CleanupSafe, ListForClaimSafe, CompareAndSetSafe, ListForAckSafe,
       AcknowledgeSafe, AnswerSafe DEF Serve
<1> QED
  BY <1>1, <1>2, TickSafe, DeliverSafe, SendClaimSafe, SendAckSafe, FaultSafe DEF QueueNext

THEOREM Invariance == QueueSpec => [](QueueTyped /\ Safe)
<1> QED BY QueueInitTyped, InitSafe, QueueStepTyped, StepSafe, PTL DEF QueueSpec

\* For any windows and lives that fit into the retention, an event that was consumed is never
\* given out again, though its row is cleaned up and Notion may deliver it anew.
THEOREM ConsumedOnce == QueueSpec => []NeverQueuedTwice
<1>1. Safe => NeverQueuedTwice
  BY DEF Safe
<1> QED BY <1>1, Invariance, PTL

\* For any number of requests and faults, an acknowledgement answered with success has
\* consumed all of its events, whoever changed some of them between its calls.
THEOREM AcknowledgedIsConsumed == QueueSpec => []GrantedMeansConsumed
<1>1. Safe => GrantedMeansConsumed
  BY DEF Safe, Sound, Granted, GrantedMeansConsumed, At
<1> QED BY <1>1, Invariance, PTL

\* Only CompareAndSetLease adds to the events of a claim.
LEMMA TakenExpired ==
    ASSUME QueueTyped, Safe, QueueNext, NEW q \in Requests, NEW e \in Events,
           req[q].kind = "claim", e \in req'[q].ids \ req[q].ids
    PROVE  lease[e] <= clock
<1>t. req \in [Requests -> Request] /\ NoRequest.ids = {}
  BY DEF QueueTyped, QueueTypeOK, NoRequest
<1>1. CASE Tick \/ \E r \in Runs : TimesOut(r) \/ Dies(r)
  BY <1>1 DEF Tick, TimesOut, Dies
<1>2. ASSUME NEW p \in Requests, NEW kind, NEW step, NEW r, NEW ids, Arrives(p, kind, step, r, ids)
      PROVE  FALSE
  BY <1>2, <1>t DEF Arrives, Free
<1>3. ASSUME NEW p \in Requests, req' = [req EXCEPT ![p] = NoRequest] PROVE FALSE
  BY <1>3, <1>t
<1>4. CASE \E p \in Requests : InsertIfAbsent(p) \/ Answer(p) \/ ServerDies(p)
  BY <1>3, <1>4 DEF InsertIfAbsent, Answer, ServerDies
<1>5. ASSUME NEW p \in Requests, NEW m, Onward(p, m), m.ids = req[p].ids PROVE FALSE
  <2>1. req'[p] = m /\ \A k \in Requests \ {p} : req'[k] = req[k]
    BY <1>5, OnwardTyped
  <2> QED BY <1>5, <2>1
<1>6. CASE \E p \in Requests : CleanupConsumed(p) \/ ListForClaim(p) \/ ListForAck(p)
  BY <1>5, <1>6, CleanupDoes, ListForClaimDoes, ListForAckDoes
<1>7. ASSUME NEW p \in Requests, ClaimDone(p) \/ AcknowledgeAtomically(p) PROVE FALSE
  <2>1. Onward(p, req'[p]) /\ req'[p].ids = req[p].ids
    BY <1>7, AnsweredTyped, ConflictedTyped DEF ClaimDone, AcknowledgeAtomically, Onward
  <2> QED BY <1>5, <2>1
<1>8. ASSUME NEW p \in Requests, CompareAndSetLease(p) PROVE lease[e] <= clock
  <2>1. PICK k, m :
           /\ k \in req[p].todo
           /\ Onward(p, m)
           /\ (LeaseUnchanged(p, k) /\ m.ids = req[p].ids \cup {k}) \/ m.ids = req[p].ids
    BY <1>8, CompareAndSetDoes
  <2>2. req'[p] = m /\ \A k2 \in Requests \ {p} : req'[k2] = req[k2]
    BY <2>1, OnwardTyped
  <2>3. p = q /\ k = e /\ LeaseUnchanged(q, e)
    BY <2>1, <2>2
  <2>4. e \in req[q].todo /\ lease[e] = req[q].seen[e] /\ req[q].step = "write"
    BY <1>8, <2>1, <2>3 DEF LeaseUnchanged, CompareAndSetLease, At
  <2>5. req[q].seen[e] <= req[q].now /\ req[q].now <= clock
    BY <2>4 DEF Safe, Sound, Listed, Timely
  <2> QED BY <1>t, <2>4, <2>5 DEF Request, QueueTyped, QueueTypeOK
<1> QED
  BY <1>1, <1>2, <1>4, <1>6, <1>7, <1>8 DEF QueueNext, Serve, Deliver, SendClaim, SendAck

\* For any number of runs and requests, no claim, however old the time it read and the list
\* it made, takes an event while the lease another claim has given on it runs.
THEOREM LeasesExclude == QueueSpec => LeaseIsExclusive
<1> DEFINE Exclusive == \A q \in Requests, e \in Events :
             req[q].kind = "claim" /\ e \in req'[q].ids \ req[q].ids => lease[e] <= clock
<1>1. QueueTyped /\ Safe /\ [QueueNext]_queueVars => [Exclusive]_queueVars
  BY TakenExpired
<1> QED BY <1>1, Invariance, PTL DEF QueueSpec, LeaseIsExclusive

-----------------------------------------------------------------------------
(***************************************************************************)
(* The relay's row and the worker's credentials keep their shapes for any  *)
(* number of tokens, mishaps and ticks, whatever requests are repeated,    *)
(* late or never answered.  RotationTypeOK is not inductive: what a        *)
(* request writes into the row comes from its bearer and its argument, so  *)
(* these must be tokens.                                                   *)
(* The second part proves that a rotation never loses the active token and *)
(* that a run goes on with it.                                             *)
(***************************************************************************)
\* A request that was sent carries the tokens its operation writes.
WellFormed(m) == m.op # "none" => m.bearer \in Tokens /\ (m.op # "commit" => m.arg \in Tokens)

RotationTyped == RotationTypeOK /\ WellFormed(call) /\ \A m \in strays : WellFormed(m)

LEMMA RotationInitTyped == RotationInit => RotationTyped
<1> SUFFICES ASSUME RotationInit PROVE RotationTyped
  OBVIOUS
<1>1. NoCall \in Call /\ 0 \in 0..MaxMishaps
  BY RotationBoundsAssumption DEF NoCall, Call, Slot
<1> QED BY <1>1, TokensAssumption DEF RotationInit, RotationTyped, RotationTypeOK, WellFormed, NoCall, Slot, Steps

\* Serving a request leaves the row in its shape.
LEMMA ServeTyped ==
    ASSUME RotationTypeOK, NEW m \in Call, WellFormed(m), NEW result, Handle(m, result)
    PROVE  active' \in Tokens /\ pending' \in Slot /\ expires' \in Nat /\ (pending' = NoToken <=> expires' = 0)
<1>1. m.now + Lifetime \in Nat \ {0}
  BY LifetimeAssumption DEF Call
<1>2. CASE m.op = "prepare" /\ Prepare(m, result)
  <2>1. m.arg \in Tokens /\ m.arg # NoToken
    BY <1>2, TokensAssumption DEF WellFormed
  <2> QED BY <1>1, <1>2, <2>1 DEF Prepare, SetRow, RotationTypeOK, Slot, relay
<1>3. CASE m.op = "commit" /\ Commit(m, result)
  <2>1. m.bearer \in Tokens
    BY <1>3 DEF WellFormed
  <2> QED BY <1>3, <2>1 DEF Commit, RowAfterCommit, SetRow, RotationTypeOK, Slot, relay
<1>4. CASE m.op = "cancel" /\ Cancel(m, result)
  BY <1>4 DEF Cancel, SetRow, RotationTypeOK, Slot, relay
<1> QED BY <1>2, <1>3, <1>4 DEF Handle

LEMMA RotationStepTyped == RotationTyped /\ [RotationNext]_rotationVars => RotationTyped'
<1> SUFFICES ASSUME RotationTyped, [RotationNext]_rotationVars PROVE RotationTyped'
  OBVIOUS
<1> USE DEF Goto, relay, worker
<1>t. /\ RotationTypeOK /\ WellFormed(call) /\ \A m \in strays : m \in Call /\ WellFormed(m)
      /\ NoCall \in Call /\ WellFormed(NoCall)
  BY DEF RotationTyped, RotationTypeOK, NoCall, Call, Slot, WellFormed
<1>1. ASSUME NEW m \in Call, WellFormed(m) PROVE Authenticated(m) \in Call /\ WellFormed(Authenticated(m))
  <2>1. Kind(m.bearer) \in {"none", "active", "pending"}
    BY DEF Kind
  <2> QED BY <1>1, <1>t, <2>1 DEF Authenticated, Call, WellFormed, RotationTypeOK
<1>2. CASE Authenticate
  <2>1. call' \in Call /\ WellFormed(call')
    BY <1>2, <1>t, <1>1 DEF Authenticate, RotationTypeOK
  <2>2. \A m \in strays' : m \in Call /\ WellFormed(m)
    BY <1>2, <1>t, <1>1 DEF Authenticate
  <2> QED BY <1>2, <1>t, <2>1, <2>2 DEF Authenticate, RotationTyped, RotationTypeOK, WellFormed
<1>3. CASE AnswerCall
  <2>1. PICK result \in {"ok", "conflict", "denied"} :
           Handle(call, result) /\ call' = [call EXCEPT !.step = "answered", !.result = result]
    BY <1>3 DEF AnswerCall
  <2>2. active' \in Tokens /\ pending' \in Slot /\ expires' \in Nat /\ (pending' = NoToken <=> expires' = 0)
    BY <1>t, <2>1, ServeTyped DEF RotationTypeOK
  <2>3. call' \in Call /\ WellFormed(call')
    BY <1>t, <2>1 DEF RotationTypeOK, Call, WellFormed
  <2> QED BY <1>3, <1>t, <2>2, <2>3 DEF AnswerCall, RotationTyped, RotationTypeOK, WellFormed
<1>4. CASE ServeStray
  <2>1. PICK m \in strays, result \in {"ok", "conflict", "denied"} :
           /\ Handle(m, result) /\ strays' = strays \ {m}
           /\ strayed' = (strayed \/ (m.lapsed /\ relay' # relay))
    BY <1>4 DEF ServeStray
  <2>2. active' \in Tokens /\ pending' \in Slot /\ expires' \in Nat /\ (pending' = NoToken <=> expires' = 0)
    BY <1>t, <2>1, ServeTyped
  <2>3. strayed' \in BOOLEAN
    BY <2>1
  <2> QED BY <1>4, <1>t, <2>1, <2>2, <2>3 DEF ServeStray, RotationTyped, RotationTypeOK, WellFormed
<1>5. CASE TimePasses \/ StartRotation \/ StartRun \/ StorePending \/ ReadPending \/ Compare \/ ForgetPending
           \/ FinalizeSet \/ FinalizeDelete \/ RunEnds
  <2>1. CASE TimePasses
    BY <1>t, <2>1 DEF TimePasses, RotationTyped, RotationTypeOK, WellFormed
  <2>2. CASE StartRotation
    BY <1>t, <2>2 DEF StartRotation, Steps, RotationTyped, RotationTypeOK, WellFormed
  <2>3. CASE StartRun
    BY <1>t, <2>3 DEF StartRun, Steps, RotationTyped, RotationTypeOK, WellFormed
  <2>4. CASE StorePending
    BY <1>t, <2>4 DEF StorePending, Slot, Steps, RotationTyped, RotationTypeOK, WellFormed
  <2>5. CASE ReadPending
    BY <1>t, <2>5 DEF ReadPending, Slot, Steps, RotationTyped, RotationTypeOK, WellFormed
  <2>6. CASE Compare
    BY <1>t, <2>6 DEF Compare, Steps, RotationTyped, RotationTypeOK, WellFormed
  <2>7. CASE ForgetPending
    BY <1>t, <2>7 DEF ForgetPending, Slot, Steps, RotationTyped, RotationTypeOK, WellFormed
  <2>8. CASE FinalizeSet
    BY <1>t, <2>8 DEF FinalizeSet, Steps, RotationTyped, RotationTypeOK, WellFormed
  <2>9. CASE FinalizeDelete
    BY <1>t, <2>9 DEF FinalizeDelete, RunToken, Slot, Steps, RotationTyped, RotationTypeOK, WellFormed
  <2>10. CASE RunEnds
    BY <1>t, <2>10 DEF RunEnds, Steps, RotationTyped, RotationTypeOK, WellFormed
  <2> QED BY <1>5, <2>1, <2>2, <2>3, <2>4, <2>5, <2>6, <2>7, <2>8, <2>9, <2>10
<1>6. CASE SendStep
  <2>1. ASSUME NEW op \in {"prepare", "commit", "cancel"}, NEW bearer \in Tokens, NEW arg \in Slot,
               op # "commit" => arg \in Tokens, Send(op, bearer, arg)
        PROVE  RotationTyped'
    <3>1. call' = [NoCall EXCEPT !.op = op, !.bearer = bearer, !.arg = arg, !.step = "sent"]
      BY <2>1 DEF Send
    <3>2. call' \in Call /\ WellFormed(call')
      BY <1>t, <2>1, <3>1 DEF Call, WellFormed, Slot, NoCall
    <3> QED BY <1>t, <2>1, <3>2 DEF Send, RotationTyped, RotationTypeOK, WellFormed
  <2>2. slot \in Tokens /\ token \in Tokens /\ NoToken \in Slot /\ Tokens \subseteq Slot
    BY <1>t DEF RotationTypeOK, Slot
  <2> QED BY <1>6, <2>1, <2>2 DEF SendStep
<1>l. ASSUME NEW S, \A m \in S : m \in Call /\ WellFormed(m)
      PROVE  \A m \in {[k EXCEPT !.lapsed = TRUE] : k \in S} : m \in Call /\ WellFormed(m)
  BY <1>l DEF Call, WellFormed
<1>7. CASE TakeAnswer
  <2>1. call' = NoCall /\ strays' = {[m EXCEPT !.lapsed = TRUE] : m \in strays} /\ pc' \in Steps
    BY <1>7 DEF TakeAnswer, Replied, AfterDenied, Steps
  <2>2. \A m \in strays' : m \in Call /\ WellFormed(m)
    BY <1>t, <1>l, <2>1
  <2> QED BY <1>7, <1>t, <2>1, <2>2 DEF TakeAnswer, AfterAnswer, RotationTyped, RotationTypeOK, WellFormed
<1>8. CASE CallTimesOut
  <2>1. call' \in Call /\ WellFormed(call')
    BY <1>8, <1>t DEF CallTimesOut, RotationTypeOK, Call, WellFormed
  <2>2. \A m \in strays' : m \in Call /\ WellFormed(m)
    BY <1>8, <1>t DEF CallTimesOut, RotationTypeOK
  <2>3. mishaps' \in 0..MaxMishaps
    BY <1>8, <1>t, RotationBoundsAssumption DEF CallTimesOut, Mishap, RotationTypeOK
  <2> QED BY <1>8, <1>t, <2>1, <2>2, <2>3 DEF CallTimesOut, RotationTyped, RotationTypeOK, WellFormed
<1>9. CASE GivesUp
  <2>1. PICK left \in {strays} \cup (IF Waiting /\ call.step # "answered" THEN {strays \cup {call}} ELSE {}) :
           strays' = {[m EXCEPT !.lapsed = TRUE] : m \in left}
    BY <1>9 DEF GivesUp
  <2>2. \A m \in left : m \in Call /\ WellFormed(m)
    BY <1>t, <2>1 DEF RotationTypeOK
  <2>3. \A m \in strays' : m \in Call /\ WellFormed(m)
    BY <1>l, <2>1, <2>2
  <2>4. mishaps' \in 0..MaxMishaps
    BY <1>9, <1>t, RotationBoundsAssumption DEF GivesUp, Mishap, RotationTypeOK
  <2> QED BY <1>9, <1>t, <2>3, <2>4 DEF GivesUp, RotationTyped, RotationTypeOK, WellFormed, Steps
<1>10. CASE UNCHANGED rotationVars
  BY <1>10, <1>t DEF rotationVars, RotationTyped, RotationTypeOK, WellFormed
<1> QED BY <1>2, <1>3, <1>4, <1>5, <1>6, <1>7, <1>8, <1>9, <1>10 DEF RotationNext, Recovers

\* For any tokens and bounds, the relay's row and the credential slots keep their shapes: a
\* pending token and its expiry come and go together (runtime.ts, client.ts).
THEOREM RotationTypeCorrect == RotationSpec => []RotationTypeOK
<1>1. RotationTyped => RotationTypeOK
  BY DEF RotationTyped
<1> QED BY <1>1, RotationInitTyped, RotationStepTyped, PTL DEF RotationSpec

-----------------------------------------------------------------------------
(***************************************************************************)
(* The worker keeps the relay's token.  While no rotation was started over *)
(* another and no request took effect that the worker had given up, the    *)
(* only requests that can change the row are those of the step it is at,   *)
(* its repetitions included (UnderWay); so the row and the slots move      *)
(* together (Row), and an answer still is the truth when it is read        *)
(* (Answers).                                                              *)
(***************************************************************************)
Clean == ~overwritten /\ ~strayed

\* The active token is in one of the slots; a pending one is the next, unused so far.
Row ==
    /\ active \in {slot, nextSlot}
    /\ pending # NoToken => pending = nextSlot /\ active = slot /\ pending # slot

Committing == {"rotate-commit", "recover-commit", "commit-prepared"}

\* m is a request of the step the worker is at.
Current(m) ==
    \/ pc \in {"rotate-prepare", "prepare"} /\ m.op = "prepare" /\ m.bearer = slot /\ m.arg = token
    \/ pc = "probe" /\ m.op = "prepare" /\ m.bearer = token /\ m.arg = token
    \/ pc \in Committing /\ m.op = "commit" /\ m.bearer = token
    \/ pc = "cancel" /\ m.op = "cancel" /\ m.bearer = slot /\ m.arg = token

UnderWay ==
    /\ IF Waiting THEN Current(call) ELSE call = NoCall
    /\ call.step # "answered" => call.result = "none"
    /\ \A m \in strays : m.lapsed \/ (Waiting /\ Current(m))

\* Between reading the pending slot and settling it the worker's token is that slot's.
Phase ==
    /\ pc \notin {"idle", "rotate-store", "recover", "run"} => nextSlot = token
    /\ pc \in {"recover", "recover-commit", "probe", "compare", "prepare", "commit-prepared",
               "cancel", "forget"} => loaded = slot
    /\ pc = "forget" => active = slot /\ pending = NoToken
    /\ pc \in {"finalize-set", "finalize-delete"} => active = token
    /\ pc = "finalize-delete" => slot = token
    /\ pc = "run" => loaded = active

\* What the answer under way says of the row.
Answers ==
    /\ pc \in Committing /\ call.result = "ok" => active = token
    /\ pc = "cancel" /\ call.result = "ok" => active = slot /\ pending = NoToken
    /\ pc = "probe" => /\ call.kind = "active" => active = token
                       /\ call.result = "conflict" => call.kind = "active"

Kept == Clean => Row /\ UnderWay /\ Phase /\ Answers

\* At the start both sides hold the first token and nothing is under way.
LEMMA InitKept == RotationInit => Kept
BY TokensAssumption DEF RotationInit, Kept, Clean, Row, UnderWay, Phase, Answers, Waiting, NoCall, Committing

\* Serving a request of the worker's step keeps the row and the slots together, and what an
\* earlier answer of the same step has said.
LEMMA ServeKept ==
    ASSUME RotationTyped, Row, Phase, NEW m \in Call, WellFormed(m), Current(m), NEW result,
           Handle(m, result), UNCHANGED <<slot, nextSlot, pc, token>>
    PROVE  /\ Row'
           /\ pc \in Committing /\ (active = token \/ result = "ok") => active' = token
           /\ pc = "cancel" /\ ((active = slot /\ pending = NoToken) \/ result = "ok")
                 => active' = slot /\ pending' = NoToken
           /\ pc = "probe" => active' = active /\ (result = "conflict" => m.kind = "active")
<1>t. /\ active \in Tokens /\ pending \in Slot /\ slot \in Tokens /\ token \in Tokens
      /\ NoToken \notin Tokens /\ nextSlot \in Slot
  BY TokensAssumption DEF RotationTyped, RotationTypeOK
<1>n. nextSlot = token
  BY DEF Current, Phase, Committing
<1>1. CASE pc \in {"rotate-prepare", "prepare"} /\ m.op = "prepare" /\ m.bearer = slot /\ m.arg = token
  <2>1. Prepare(m, result)
    BY <1>1 DEF Handle
  <2> QED BY <1>1, <1>t, <1>n, <2>1 DEF Prepare, StillActive, SetRow, relay, Row, Committing
<1>2. CASE pc = "probe" /\ m.op = "prepare" /\ m.bearer = token /\ m.arg = token
  <2>1. Prepare(m, result)
    BY <1>2 DEF Handle
  <2> QED BY <1>2, <1>t, <1>n, <2>1 DEF Prepare, SetRow, relay, Row, Committing
<1>3. CASE pc \in Committing /\ m.op = "commit" /\ m.bearer = token
  <2>1. Commit(m, result)
    BY <1>3 DEF Handle
  <2> QED BY <1>3, <1>t, <1>n, <2>1 DEF Commit, RowAfterCommit, SetRow, relay, Row, Committing
<1>4. CASE pc = "cancel" /\ m.op = "cancel" /\ m.bearer = slot /\ m.arg = token
  <2>1. Cancel(m, result)
    BY <1>4 DEF Handle
  <2> QED BY <1>4, <1>t, <1>n, <2>1 DEF Cancel, SetRow, relay, Row, Committing
<1> QED BY <1>1, <1>2, <1>3, <1>4 DEF Current

\* While nothing is waited for, all that is left of earlier requests has lapsed.
LEMMA Quiet ==
    ASSUME UnderWay, pc \notin {"rotate-prepare", "rotate-commit", "recover-commit", "probe", "prepare",
                               "commit-prepared", "cancel"}
    PROVE  ~Waiting /\ \A m \in strays : m.lapsed
BY DEF UnderWay, Current, Committing

LEMMA StepKept == RotationTyped /\ Kept /\ [RotationNext]_rotationVars => Kept'
<1> SUFFICES ASSUME RotationTyped, Kept, [RotationNext]_rotationVars, Clean' PROVE (Row /\ UnderWay /\ Phase /\ Answers)'
  BY DEF Kept
<1>t. /\ active \in Tokens /\ pending \in Slot /\ slot \in Tokens /\ token \in Tokens /\ nextSlot \in Slot
      /\ loaded \in Tokens /\ NoToken \notin Tokens /\ call \in Call /\ WellFormed(call)
      /\ \A m \in strays : m \in Call /\ WellFormed(m)
  BY TokensAssumption DEF RotationTyped, RotationTypeOK
<1>c. Clean
  <2>1. overwritten => overwritten'
    BY DEF RotationNext, rotationVars, Authenticate, AnswerCall, ServeStray, TimePasses, StartRotation, Recovers, StartRun, ReadPending,
           SendStep, Send, TakeAnswer, AfterAnswer, Compare, ForgetPending, FinalizeSet, FinalizeDelete, RunEnds,
           StorePending, CallTimesOut, GivesUp
  <2>2. strayed => strayed'
    BY DEF RotationNext, rotationVars, Authenticate, AnswerCall, ServeStray, TimePasses, StartRotation, Recovers, StartRun, ReadPending,
           SendStep, Send, TakeAnswer, AfterAnswer, Compare, ForgetPending, FinalizeSet, FinalizeDelete, RunEnds,
           StorePending, CallTimesOut, GivesUp
  <2> QED BY <2>1, <2>2 DEF Clean
<1>k. Row /\ UnderWay /\ Phase /\ Answers
  BY <1>c DEF Kept
<1> USE DEF Goto
<1>1. CASE Authenticate
  <2>w. UNCHANGED <<relay, worker>>
    BY <1>1 DEF Authenticate
  <2>1. CASE call.step = "sent" /\ call' = Authenticated(call) /\ strays' = strays
    <3>1. call'.op = call.op /\ call'.bearer = call.bearer /\ call'.arg = call.arg
          /\ call'.result = call.result /\ call'.kind = Kind(call.bearer)
      BY <1>t, <2>1 DEF Authenticated, Call
    <3>2. UnderWay'
      BY <1>k, <2>1, <2>w, <3>1 DEF UnderWay, Waiting, Current, worker, NoCall
    <3>3. pc = "probe" /\ call'.kind = "active" => active = token
      <4>1. Waiting
        BY <1>k, <2>1 DEF UnderWay, NoCall
      <4>2. pc = "probe" => call.bearer = token
        BY <1>k, <4>1 DEF UnderWay, Current, Committing
      <4> QED BY <3>1, <4>2 DEF Kind
    <3>4. call'.result = "none"
      BY <1>k, <2>1, <3>1 DEF UnderWay
    <3> QED BY <1>k, <2>w, <3>1, <3>2, <3>3, <3>4 DEF Row, Phase, Answers, relay, worker
  <2>2. ASSUME NEW m \in strays, m.step = "sent", strays' = (strays \ {m}) \cup {Authenticated(m)}, call' = call
        PROVE  (Row /\ UnderWay /\ Phase /\ Answers)'
    <3>1. /\ Authenticated(m).op = m.op /\ Authenticated(m).bearer = m.bearer
          /\ Authenticated(m).arg = m.arg /\ Authenticated(m).lapsed = m.lapsed
      BY <1>t, <2>2 DEF Authenticated, Call
    <3>2. UnderWay'
      BY <1>k, <2>2, <2>w, <3>1 DEF UnderWay, Waiting, Current, worker
    <3> QED BY <1>k, <2>w, <2>2, <3>2 DEF Row, Phase, Answers, relay, worker
  <2> QED BY <1>1, <2>1, <2>2 DEF Authenticate
<1>2. CASE AnswerCall
  <2>w. UNCHANGED <<worker, strays>> /\ UNCHANGED <<slot, nextSlot, pc, loaded, token>>
    BY <1>2 DEF AnswerCall, worker
  <2>1. PICK result \in {"ok", "conflict", "denied"} :
           Handle(call, result) /\ call' = [call EXCEPT !.step = "answered", !.result = result]
    BY <1>2 DEF AnswerCall
  <2>2. /\ call'.op = call.op /\ call'.bearer = call.bearer /\ call'.arg = call.arg
        /\ call'.result = result /\ call'.kind = call.kind /\ call'.step = "answered"
    BY <1>t, <2>1 DEF Call
  <2>3. Current(call)
    BY <1>k, <1>2 DEF AnswerCall, UnderWay, NoCall
  <2>4. UnderWay'
    BY <1>k, <2>w, <2>2, <2>3 DEF UnderWay, Waiting, Current
  <2>5. /\ Row'
        /\ pc \in Committing /\ (active = token \/ result = "ok") => active' = token
        /\ pc = "cancel" /\ ((active = slot /\ pending = NoToken) \/ result = "ok")
              => active' = slot /\ pending' = NoToken
        /\ pc = "probe" => active' = active /\ (result = "conflict" => call.kind = "active")
    BY <1>k, <1>t, <2>w, <2>1, <2>3, ServeKept
  <2>6. Phase'
    BY <1>k, <2>w, <2>3 DEF Phase, Current, Committing
  <2>7. Answers'
    BY <1>k, <2>w, <2>2, <2>5 DEF Answers
  <2> QED BY <2>4, <2>5, <2>6, <2>7
<1>3. CASE ServeStray
  <2>w. UNCHANGED <<worker, call>> /\ UNCHANGED <<slot, nextSlot, pc, loaded, token>>
    BY <1>3 DEF ServeStray, worker
  <2>1. PICK m \in strays, result \in {"ok", "conflict", "denied"} :
           Handle(m, result) /\ strays' = strays \ {m} /\ strayed' = (strayed \/ (m.lapsed /\ relay' # relay))
    BY <1>3 DEF ServeStray
  <2>2. UnderWay'
    BY <1>k, <2>w, <2>1 DEF UnderWay, Waiting, Current
  <2>3. CASE m.lapsed
    <3>1. UNCHANGED <<active, pending, expires>>
      BY <2>1, <2>3 DEF Clean, relay
    <3> QED BY <1>k, <2>w, <2>2, <3>1 DEF Row, Phase, Answers
  <2>4. CASE ~m.lapsed
    <3>1. Current(m)
      BY <1>k, <2>4 DEF UnderWay
    <3>2. /\ Row'
          /\ pc \in Committing /\ active = token => active' = token
          /\ pc = "cancel" /\ active = slot /\ pending = NoToken => active' = slot /\ pending' = NoToken
          /\ pc = "probe" => active' = active
      BY <1>k, <1>t, <2>w, <2>1, <3>1, ServeKept
    <3>3. Phase'
      BY <1>k, <2>w, <3>1 DEF Phase, Current, Committing
    <3>4. Answers'
      BY <1>k, <2>w, <3>2 DEF Answers
    <3> QED BY <2>2, <3>2, <3>3, <3>4
  <2> QED BY <2>3, <2>4
<1>4. CASE TimePasses
  BY <1>4, <1>k DEF TimePasses, relay, worker, Row, UnderWay, Waiting, Current, Phase, Answers
<1>5. CASE StartRotation \/ StartRun \/ StorePending \/ ReadPending \/ Compare \/ ForgetPending
           \/ FinalizeSet \/ FinalizeDelete \/ RunEnds
  <2>1. pc \in {"idle", "rotate-store", "recover", "compare", "forget", "finalize-set", "finalize-delete", "run"}
    BY <1>5 DEF StartRotation, StartRun, StorePending, ReadPending, Compare, ForgetPending, FinalizeSet,
                FinalizeDelete, RunEnds
  <2>2. ~Waiting /\ \A m \in strays : m.lapsed
    BY <1>k, <2>1, Quiet
  <2>3. UNCHANGED <<call, strays, relay>>
    BY <1>5 DEF StartRotation, StartRun, StorePending, ReadPending, Compare, ForgetPending, FinalizeSet,
                FinalizeDelete, RunEnds
  <2>4. call = NoCall
    BY <1>k, <2>2 DEF UnderWay
  <2>5. UnderWay' /\ Answers'
    BY <2>2, <2>3, <2>4 DEF UnderWay, Answers, Waiting, NoCall
  <2>6. CASE StartRotation
    BY <1>k, <2>3, <2>5, <2>6 DEF StartRotation, Row, Phase, relay
  <2>7. CASE StartRun
    BY <1>k, <2>3, <2>5, <2>7 DEF StartRun, Row, Phase, relay
  <2>8. CASE StorePending
    <3>1. nextSlot = NoToken
      BY <2>8 DEF StorePending, Clean
    <3> QED BY <1>k, <1>t, <2>3, <2>5, <2>8, <3>1 DEF StorePending, Row, Phase, relay
  <2>9. CASE ReadPending
    BY <1>k, <1>t, <2>3, <2>5, <2>9 DEF ReadPending, Row, Phase, relay
  <2>10. CASE Compare
    BY <1>k, <2>3, <2>5, <2>10 DEF Compare, Row, Phase, relay
  <2>11. CASE ForgetPending
    BY <1>k, <2>3, <2>5, <2>11 DEF ForgetPending, Row, Phase, relay
  <2>12. CASE FinalizeSet
    BY <1>k, <1>t, <2>3, <2>5, <2>12 DEF FinalizeSet, Row, Phase, relay
  <2>13. CASE FinalizeDelete
    BY <1>k, <1>t, <2>3, <2>5, <2>13 DEF FinalizeDelete, RunToken, Row, Phase, relay
  <2>14. CASE RunEnds
    BY <1>k, <2>3, <2>5, <2>14 DEF RunEnds, Row, Phase, relay
  <2> QED BY <1>5, <2>6, <2>7, <2>8, <2>9, <2>10, <2>11, <2>12, <2>13, <2>14
<1>6. CASE SendStep
  <2>w. ~Waiting /\ UNCHANGED <<active, pending, slot, nextSlot, pc, loaded, token, strays>>
    BY <1>6 DEF SendStep, Send, relay, worker
  <2>1. /\ Current(call)' /\ Waiting' /\ call'.result = "none" /\ call'.kind = "none"
    BY <1>6 DEF SendStep, Send, Current, Committing, Waiting, NoCall, worker
  <2>2. \A m \in strays : m.lapsed
    BY <1>k, <2>w DEF UnderWay
  <2> QED BY <1>k, <2>w, <2>1, <2>2 DEF Row, Phase, Answers, UnderWay
<1>7. CASE TakeAnswer
  <2>1. /\ call' = NoCall /\ strays' = {[m EXCEPT !.lapsed = TRUE] : m \in strays} /\ Waiting
        /\ UNCHANGED <<active, pending, slot, nextSlot, loaded, token>>
    BY <1>7 DEF TakeAnswer, Replied, AfterDenied, AfterAnswer, relay
  <2>2. UnderWay' /\ Answers'
    BY <1>t, <2>1 DEF UnderWay, Answers, Waiting, NoCall, Call
  <2>3. Phase'
    BY <1>7, <1>k, <2>1 DEF TakeAnswer, Replied, AfterDenied, Phase, Answers, Committing
  <2> QED BY <1>k, <2>1, <2>2, <2>3 DEF Row
<1>8. CASE CallTimesOut
  <2>1. /\ UNCHANGED <<active, pending, slot, nextSlot, pc, loaded, token>>
        /\ call' = [call EXCEPT !.step = "sent", !.kind = "none", !.now = 0, !.result = "none"]
        /\ Waiting /\ \A m \in strays' : m \in strays \/ m = call
    BY <1>8 DEF CallTimesOut, relay, worker
  <2>2. /\ call'.op = call.op /\ call'.bearer = call.bearer /\ call'.arg = call.arg
        /\ call'.result = "none" /\ call'.kind = "none"
    BY <1>t, <2>1 DEF Call
  <2>3. UnderWay'
    BY <1>k, <2>1, <2>2 DEF UnderWay, Waiting, Current
  <2> QED BY <1>k, <2>1, <2>2, <2>3 DEF Row, Phase, Answers
<1>9. CASE GivesUp
  <2>1. PICK left \in {strays} \cup (IF Waiting /\ call.step # "answered" THEN {strays \cup {call}} ELSE {}) :
           strays' = {[m EXCEPT !.lapsed = TRUE] : m \in left}
    BY <1>9 DEF GivesUp
  <2>2. \A m \in strays' : m.lapsed
    BY <1>t, <2>1 DEF Call
  <2>3. call' = NoCall /\ pc' = "idle" /\ UNCHANGED <<active, pending, slot, nextSlot, loaded, token>>
    BY <1>9 DEF GivesUp, relay
  <2> QED BY <1>k, <2>2, <2>3 DEF Row, UnderWay, Waiting, NoCall, Phase, Answers, Committing
<1>10. CASE UNCHANGED rotationVars
  BY <1>10, <1>k DEF rotationVars, relay, worker, Row, UnderWay, Waiting, Current, Phase, Answers
<1> QED BY <1>1, <1>2, <1>3, <1>4, <1>5, <1>6, <1>7, <1>8, <1>9, <1>10 DEF RotationNext, Recovers

LEMMA Inductive == RotationSpec => [](RotationTyped /\ Kept)
<1>1. RotationInit => RotationTyped /\ Kept
  BY RotationInitTyped, InitKept
<1>2. RotationTyped /\ Kept /\ [RotationNext]_rotationVars => RotationTyped' /\ Kept'
  BY RotationStepTyped, StepKept
<1> QED BY <1>1, <1>2, PTL DEF RotationSpec

\* Wherever a rotation or its recovery stops, by a crash, a lost or a repeated request, the
\* relay's token is in one of the worker's slots (client.ts keeps both until one is settled).
THEOREM TokenIsKept == RotationSpec => []NeverLockedOut
<1>1. Kept => NeverLockedOut
  BY DEF Kept, Clean, Row, NeverLockedOut
<1> QED BY <1>1, Inductive, PTL

\* A run that recovery lets through has loaded the token the relay takes, whether it
\* finished the rotation, cancelled it or found none.
THEOREM RunsAreAccepted == RotationSpec => []RunUsesActiveToken
<1>1. Kept => RunUsesActiveToken
  BY DEF Kept, Clean, Phase, RunUsesActiveToken
<1> QED BY <1>1, Inductive, PTL
=============================================================================
