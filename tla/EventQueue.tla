-------------------------------- MODULE EventQueue --------------------------------
(***************************************************************************)
(* The relay's queue of webhook events (relay/src/queue/repository.ts) as  *)
(* the edge functions serve it: Notion delivers an event to the webhook,   *)
(* possibly several times; a run of the worker claims events under a       *)
(* lease, handles them and acknowledges them.                              *)
(*                                                                         *)
(* Every request is served by its own edge function, reads the time once   *)
(* at its start, and then makes its database calls one by one, so requests *)
(* interleave between any two of them.  A client that stops waiting leaves *)
(* its request running.  All runs of the worker claim under one name, the  *)
(* installation id (worker.ts), which the constant WorkerOf gives.         *)
(***************************************************************************)
EXTENDS Naturals, FiniteSets

CONSTANTS
    Events,      \* the events, by id
    Times,       \* when they happened (event_at)
    Runs,        \* the worker processes
    WorkerIds,   \* values of lease_owner
    WorkerOf,    \* WorkerOf[r]: the worker id run r sends
    Requests,    \* requests the relay serves at the same time
    Idle,        \* no run, no request, no worker
    Limit,       \* the limit of a claim
    Lease,       \* LEASE_SECONDS
    Window,      \* EVENT_WINDOW_MILLISECONDS
    Retention,   \* CONSUMED_EVENT_RETENTION_DAYS
    Patience,    \* the longest a request is served
    MaxTries,    \* MAX_COMPARE_AND_SET_RETRIES
    MaxFaults,   \* bound on lost answers and deaths
    MaxClock     \* bound on the clock

ASSUME IdleAssumption == Idle \notin Runs \cup Requests \cup WorkerIds
ASSUME WorkerOfAssumption == WorkerOf \in [Runs -> WorkerIds]
ASSUME TimesAssumption == Times \subseteq Nat
ASSUME BoundsAssumption == /\ Limit \in Nat \ {0} /\ Lease \in Nat \ {0}
                           /\ Window \in Nat /\ Patience \in Nat
                           /\ MaxTries \in Nat \ {0} /\ MaxFaults \in Nat /\ MaxClock \in Nat
\* 30 days against two windows of ten minutes and the life of a request.
ASSUME RetentionAssumption == Retention \in Nat /\ Retention >= 2 * Window + Patience

VARIABLES
    clock,      \* the time
    eventAt,    \* eventAt[e]: when e happened
    stored,     \* the events with a row in webhook_event
    lease,      \* lease[e]: lease_expires_at, or Null
    owner,      \* owner[e]: lease_owner, or Idle
    consumed,   \* consumed[e]: consumed_at, or Null
    req,        \* req[q]: the request q the relay is serving
    phase,      \* phase[r]: what run r is doing
    waits,      \* waits[r]: the request whose answer r waits for, or Idle
    held,       \* held[r]: the events r has been handed and not acknowledged
    faults,     \* faults so far
    settled     \* history: events that were consumed, whether their rows still exist or not

rowvars == <<stored, lease, owner, consumed, settled>>
runvars == <<phase, waits, held>>
queueVars == <<clock, eventAt, rowvars, req, runvars, faults>>

\* The clock starts at 1, so that 0 stands for an absent timestamp.
Null == 0

Request == [kind : {"none", "webhook", "claim", "ack"},
            step : {"clean", "list", "write", "answer"},
            run  : Runs \cup {Idle},
            now  : Nat,                \* deps.clock.now(), read once
            todo : SUBSET Events,      \* candidates left, or events to consume
            ids  : SUBSET Events,      \* the ids of the request; of a claim, those leased so far
            seen : [Events -> Nat],    \* leases as listed
            tries : 0..MaxTries,
            ok   : BOOLEAN]

NoRequest == [kind |-> "none", step |-> "answer", run |-> Idle, now |-> 0, todo |-> {}, ids |-> {},
              seen |-> [e \in Events |-> Null], tries |-> 0, ok |-> FALSE]

\* Rows of notion_events and the workers' claims keep the shapes the SQL constraints allow:
\* leased and acknowledged columns come and go together.
QueueTypeOK ==
    /\ clock \in Nat
    /\ eventAt \in [Events -> Nat]
    /\ stored \subseteq Events
    /\ lease \in [Events -> Nat]
    /\ owner \in [Events -> WorkerIds \cup {Idle}]
    /\ \A e \in Events : lease[e] = Null <=> owner[e] = Idle
    /\ consumed \in [Events -> Nat]
    /\ req \in [Requests -> Request]
    /\ phase \in [Runs -> {"idle", "claiming", "working", "acking"}]
    /\ waits \in [Runs -> Requests \cup {Idle}]
    /\ held \in [Runs -> SUBSET Events]
    /\ faults \in 0..MaxFaults
    /\ settled \subseteq Events

QueueInit ==
    /\ clock = 1
    /\ eventAt \in [Events -> Times]
    /\ stored = {} /\ settled = {}
    /\ lease = [e \in Events |-> Null]
    /\ owner = [e \in Events |-> Idle]
    /\ consumed = [e \in Events |-> Null]
    /\ req = [q \in Requests |-> NoRequest]
    /\ phase = [r \in Runs |-> "idle"]
    /\ waits = [r \in Runs |-> Idle]
    /\ held = [r \in Runs |-> {}]
    /\ faults = 0

(***************************************************************************)
(* Requests                                                                *)
(***************************************************************************)
Free(q) == req[q].kind = "none"

At(q, kind, step) == req[q].kind = kind /\ req[q].step = step

\* A request arrives, and its handler reads the clock.
Opened(kind, step, r, ids) ==
    [NoRequest EXCEPT !.kind = kind, !.step = step, !.run = r, !.ids = ids, !.now = clock]

Arrives(q, kind, step, r, ids) ==
    /\ Free(q)
    /\ req' = [req EXCEPT ![q] = Opened(kind, step, r, ids)]

Answered(q, ok) == req' = [req EXCEPT ![q].step = "answer", ![q].ok = ok]

\* Time passes; no request outlives Patience.
Tick ==
    /\ clock < MaxClock
    /\ \A q \in Requests : Free(q) \/ clock < req[q].now + Patience
    /\ clock' = clock + 1
    /\ UNCHANGED <<eventAt, rowvars, req, runvars, faults>>

(***************************************************************************)
(* The webhook: handleNotionWebhook and enqueue                            *)
(***************************************************************************)

\* isStale, in either direction.
Stale(e) == clock > eventAt[e] + Window \/ eventAt[e] > clock + Window

\* Notion delivers e, for the first time or again.  Deliveries that are stale, not
\* routed to a registered page or over the rate limit change nothing.
Deliver(q, e) ==
    /\ ~Stale(e)
    /\ Arrives(q, "webhook", "write", Idle, {e})
    /\ UNCHANGED <<clock, eventAt, rowvars, runvars, faults>>

\* insertEventIfAbsent; a unique violation is a success that changes nothing.
InsertIfAbsent(q) ==
    /\ At(q, "webhook", "write")
    /\ stored' = stored \cup req[q].ids
    /\ lease' = [e \in Events |-> IF e \in req[q].ids \ stored THEN Null ELSE lease[e]]
    /\ owner' = [e \in Events |-> IF e \in req[q].ids \ stored THEN Idle ELSE owner[e]]
    /\ consumed' = [e \in Events |-> IF e \in req[q].ids \ stored THEN Null ELSE consumed[e]]
    /\ req' = [req EXCEPT ![q] = NoRequest]
    /\ UNCHANGED <<clock, eventAt, settled, runvars, faults>>

(***************************************************************************)
(* The claim: handleClaim and EventRepository.claim                        *)
(***************************************************************************)

\* A claim, or its repetition after the client stopped waiting for the first.
SendClaim(r, q) ==
    /\ phase[r] \in {"idle", "claiming"} /\ waits[r] = Idle
    /\ Arrives(q, "claim", "clean", r, {})
    /\ phase' = [phase EXCEPT ![r] = "claiming"]
    /\ waits' = [waits EXCEPT ![r] = q]
    /\ UNCHANGED <<clock, eventAt, rowvars, held, faults>>

\* Mutant of Outdated: rows go as soon as they are consumed.
OutdatedAtOnce(e, now) == e \in stored /\ consumed[e] # Null

\* consumed_at < cutoff; the comparison with a null consumed_at is not true.
Outdated(e, now) == e \in stored /\ consumed[e] # Null /\ consumed[e] + Retention < now

CleanupConsumed(q) ==
    /\ At(q, "claim", "clean")
    /\ stored' = {e \in stored : ~Outdated(e, req[q].now)}
    /\ req' = [req EXCEPT ![q].step = "list"]
    /\ UNCHANGED <<clock, eventAt, lease, owner, consumed, settled, runvars, faults>>

\* Mutant of IsAvailable: an expired lease is not given out again.
IsAvailableUnleased(e, now) == consumed[e] = Null /\ lease[e] = Null

IsAvailable(e, now) == consumed[e] = Null /\ lease[e] <= now

ListForClaim(q) ==
    /\ At(q, "claim", "list")
    /\ req' = [req EXCEPT ![q].step = "write", ![q].seen = lease,
                          ![q].todo = {e \in stored : IsAvailable(e, req[q].now)}]
    /\ UNCHANGED <<clock, eventAt, rowvars, runvars, faults>>

\* Mutant of LeaseUnchanged: the lease is written whatever it has become.
AnyLease(q, e) == e \in stored /\ consumed[e] = Null

\* The row compareAndSetLease updates.
LeaseUnchanged(q, e) == e \in stored /\ consumed[e] = Null /\ lease[e] = req[q].seen[e]

\* One candidate; the code takes them by time of reception, here in any order.
CompareAndSetLease(q) ==
    /\ At(q, "claim", "write")
    /\ Cardinality(req[q].ids) < Limit
    /\ \E e \in req[q].todo :
         IF LeaseUnchanged(q, e)
         THEN /\ lease' = [lease EXCEPT ![e] = req[q].now + Lease]
              /\ owner' = [owner EXCEPT ![e] = WorkerOf[req[q].run]]
              /\ req' = [req EXCEPT ![q].todo = @ \ {e}, ![q].ids = @ \cup {e}]
         ELSE /\ UNCHANGED <<lease, owner>>
              /\ req' = [req EXCEPT ![q].todo = @ \ {e}]
    /\ UNCHANGED <<clock, eventAt, stored, consumed, settled, runvars, faults>>

ClaimDone(q) ==
    /\ At(q, "claim", "write")
    /\ req[q].todo = {} \/ Cardinality(req[q].ids) >= Limit
    /\ Answered(q, TRUE)
    /\ UNCHANGED <<clock, eventAt, rowvars, runvars, faults>>

(***************************************************************************)
(* The acknowledgement: handleAck, EventRepository.acknowledgeMany and the *)
(* SQL function bridge_acknowledge_webhook_events                          *)
(***************************************************************************)

\* A bound: what leaves leases behind (a fault, a run that acknowledges only some of its
\* events) happens early enough for them to expire by MaxClock.
TimeRemains == clock + Lease <= MaxClock

\* The run acknowledges the events it has settled.
SendAck(r, q, ids) ==
    /\ phase[r] \in {"working", "acking"} /\ waits[r] = Idle
    /\ ids # {} /\ ids \subseteq held[r]
    /\ ids = held[r] \/ TimeRemains
    /\ Arrives(q, "ack", "list", r, ids)
    /\ phase' = [phase EXCEPT ![r] = "acking"]
    /\ waits' = [waits EXCEPT ![r] = q]
    /\ UNCHANGED <<clock, eventAt, rowvars, held, faults>>

LeaseHeld(q, e) ==
    /\ owner[e] = WorkerOf[req[q].run]
    /\ lease[e] > req[q].now

\* The acknowledgement reads the rows; one that is missing, or neither consumed nor
\* leased to the worker, refuses it as a whole.
ListForAck(q) ==
    /\ At(q, "ack", "list")
    /\ LET open == {e \in req[q].ids : consumed[e] = Null}
       IN \/ /\ ~(req[q].ids \subseteq stored /\ \A e \in open : LeaseHeld(q, e))
             /\ Answered(q, FALSE)
          \/ /\ req[q].ids \subseteq stored /\ open = {}
             /\ Answered(q, TRUE)
          \/ /\ req[q].ids \subseteq stored /\ open # {} /\ \A e \in open : LeaseHeld(q, e)
             /\ req' = [req EXCEPT ![q].step = "write", ![q].todo = open]
    /\ UNCHANGED <<clock, eventAt, rowvars, runvars, faults>>

\* What the SQL function requires of every row before it changes any.
Consumable(q) ==
    /\ req[q].todo \subseteq stored
    /\ \A e \in req[q].todo : consumed[e] = Null /\ LeaseHeld(q, e)

\* Mutant of Conflicted: a conflicting acknowledgement is reported as done.
ConflictedIsDone(q) == Answered(q, TRUE)

\* Another request changed the rows: list them again, MaxTries times.
Conflicted(q) ==
    IF req[q].tries + 1 < MaxTries
    THEN req' = [req EXCEPT ![q].step = "list", ![q].tries = @ + 1]
    ELSE Answered(q, FALSE)

\* lease_owner once the rows of ids are consumed.
Released(ids) == [e \in Events |-> IF e \in ids THEN Idle ELSE owner[e]]

AcknowledgeAtomically(q) ==
    /\ At(q, "ack", "write")
    /\ \/ /\ Consumable(q)
          /\ consumed' = [e \in Events |-> IF e \in req[q].todo THEN req[q].now ELSE consumed[e]]
          /\ lease' = [e \in Events |-> IF e \in req[q].todo THEN Null ELSE lease[e]]
          /\ owner' = Released(req[q].todo)
          /\ settled' = settled \cup req[q].todo
          /\ Answered(q, TRUE)
       \/ /\ ~Consumable(q)
          /\ Conflicted(q)
          /\ UNCHANGED <<consumed, lease, owner, settled>>
    /\ UNCHANGED <<clock, eventAt, stored, runvars, faults>>

(***************************************************************************)
(* The answers, and what may go wrong                                      *)
(***************************************************************************)

\* A claim hands its events to the run; an acknowledgement, granted or refused, ends it.
\* An answer nobody waits for is dropped.
Answer(q) ==
    /\ req[q].kind \in {"claim", "ack"} /\ req[q].step = "answer"
    /\ \/ \E r \in Runs :
            /\ waits[r] = q
            /\ waits' = [waits EXCEPT ![r] = Idle]
            /\ \/ /\ req[q].kind = "claim" /\ req[q].ids # {}
                  /\ phase' = [phase EXCEPT ![r] = "working"]
                  /\ held' = [held EXCEPT ![r] = req[q].ids]
               \/ /\ req[q].kind = "ack" \/ req[q].ids = {}
                  /\ phase' = [phase EXCEPT ![r] = "idle"]
                  /\ held' = [held EXCEPT ![r] = {}]
       \/ /\ \A r \in Runs : waits[r] # q
          /\ UNCHANGED runvars
    /\ req' = [req EXCEPT ![q] = NoRequest]
    /\ UNCHANGED <<clock, eventAt, rowvars, faults>>

Fault ==
    /\ faults < MaxFaults /\ TimeRemains
    /\ faults' = faults + 1

\* The client's five seconds are over: it will ask again.  Its request runs on.
TimesOut(r) ==
    /\ Fault
    /\ waits[r] # Idle
    /\ waits' = [waits EXCEPT ![r] = Idle]
    /\ UNCHANGED <<clock, eventAt, rowvars, req, phase, held>>

\* The run dies, fails, or has used up its retries.
Dies(r) ==
    /\ Fault
    /\ phase[r] # "idle"
    /\ phase' = [phase EXCEPT ![r] = "idle"]
    /\ waits' = [waits EXCEPT ![r] = Idle]
    /\ held' = [held EXCEPT ![r] = {}]
    /\ UNCHANGED <<clock, eventAt, rowvars, req>>

\* An edge function dies: the run that waits for it fails.
ServerDies(q) ==
    /\ Fault
    /\ ~Free(q)
    /\ req' = [req EXCEPT ![q] = NoRequest]
    /\ phase' = [r \in Runs |-> IF waits[r] = q THEN "idle" ELSE phase[r]]
    /\ held' = [r \in Runs |-> IF waits[r] = q THEN {} ELSE held[r]]
    /\ waits' = [r \in Runs |-> IF waits[r] = q THEN Idle ELSE waits[r]]
    /\ UNCHANGED <<clock, eventAt, rowvars>>

Serve(q) ==
    \/ InsertIfAbsent(q)
    \/ CleanupConsumed(q)
    \/ ListForClaim(q)
    \/ CompareAndSetLease(q)
    \/ ClaimDone(q)
    \/ ListForAck(q)
    \/ AcknowledgeAtomically(q)
    \/ Answer(q)

QueueNext ==
    \/ Tick
    \/ \E q \in Requests, e \in Events : Deliver(q, e)
    \/ \E q \in Requests, r \in Runs : SendClaim(r, q)
    \/ \E q \in Requests, r \in Runs, ids \in SUBSET Events : SendAck(r, q, ids)
    \/ \E q \in Requests : Serve(q)
    \/ \E r \in Runs : TimesOut(r) \/ Dies(r)
    \/ \E q \in Requests : ServerDies(q)

QueueSpec == QueueInit /\ [][QueueNext]_queueVars

\* Requests are served, runs are started and keep asking, and a run that keeps working
\* acknowledges all it was handed some day.
FairQueueSpec ==
    /\ QueueSpec
    /\ WF_queueVars(Tick)
    /\ \A q \in Requests : WF_queueVars(Serve(q))
    /\ \A r \in Runs : SF_queueVars(\E q \in Requests : SendClaim(r, q))
    /\ \A r \in Runs : SF_queueVars(\E q \in Requests : SendAck(r, q, held[r]))

(***************************************************************************)
(* Properties                                                              *)
(***************************************************************************)

\* Claims race with each other and with their own repetitions, each with a time read
\* long before it writes; still, none is given an event while another's lease runs.
LeaseIsExclusive ==
    [][\A q \in Requests, e \in Events :
        req[q].kind = "claim" /\ e \in req'[q].ids \ req[q].ids => lease[e] <= clock]_queueVars

\* An event that was consumed is never given out again: not through a list read before
\* its consumption, and not because its row was cleaned up and Notion delivered it anew.
NeverQueuedTwice == \A e \in settled \cap stored : consumed[e] # Null /\ lease[e] = Null

\* An acknowledgement answered with success has consumed all of its events, also when
\* another request changed some of them between its list and its update.
GrantedMeansConsumed ==
    \A q \in Requests : At(q, "ack", "answer") /\ req[q].ok => req[q].ids \subseteq settled

\* A queued event is consumed in the end, whatever became of the runs it was handed to.
EventuallyConsumed == \A e \in Events : e \in stored ~> e \in settled
=============================================================================
