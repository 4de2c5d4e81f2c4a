------------------------------- MODULE TokenRotation -------------------------------
(***************************************************************************)
(* The rotation of the relay token: rotateRelayToken and                   *)
(* recoverPendingRelayTokenRotation of worker/src/relay/client.ts against  *)
(* the rotation requests of the relay (relay/src/queue/handler.ts and      *)
(* relay/src/edge/runtime.ts).                                             *)
(*                                                                         *)
(* The relay knows an active token and a pending one that expires; the     *)
(* worker keeps an active and a pending slot in its credential store.  The *)
(* client waits five seconds for an answer and then repeats its request,   *)
(* while the first one may still be served, so a request may take effect   *)
(* twice, late, or without an answer, and the worker may die at any step.  *)
(***************************************************************************)
EXTENDS Naturals, FiniteSets

CONSTANTS
    Tokens,      \* tokens ever generated
    First,       \* the token of the installation
    NoToken,     \* an empty slot or column
    Lifetime,    \* ROTATION_SECONDS
    MaxMishaps,  \* bound on unanswered requests and deaths
    MaxTime      \* bound on the clock

ASSUME TokensAssumption == First \in Tokens /\ NoToken \notin Tokens
ASSUME LifetimeAssumption == Lifetime \in Nat \ {0}
ASSUME RotationBoundsAssumption == MaxMishaps \in Nat /\ MaxTime \in Nat

VARIABLES
    time,         \* the time, the same for the relay and the worker
    active,       \* relay_token_hash
    pending,      \* pending_relay_token_hash, or NoToken
    expires,      \* pending_relay_token_expires_at, or 0
    slot,         \* credential "relay-token"
    nextSlot,     \* credential "relay-token-pending", or NoToken
    pc,           \* the step of the worker
    loaded,       \* the relay token the run loaded with its configuration
    token,        \* the token the step is about
    call,         \* the request the worker waits for
    strays,       \* earlier requests that may still be served
    issued,       \* tokens generated so far
    mishaps,      \* unanswered requests and deaths so far
    overwritten,  \* history: a rotation was started over an unfinished one
    strayed       \* history: a request took effect after the worker had given it up

relay == <<active, pending, expires>>
worker == <<slot, nextSlot, pc, loaded, token>>
rotationVars == <<time, relay, worker, call, strays, issued, mishaps, overwritten, strayed>>

Slot == Tokens \cup {NoToken}

Steps == {"idle",
          "rotate-store", "rotate-prepare", "rotate-commit",
          "recover", "recover-commit", "probe", "compare", "prepare", "commit-prepared", "cancel",
          "forget", "finalize-set", "finalize-delete", "run"}

\* `lapsed': the worker has given the whole call up, retries included.
Call == [op : {"none", "prepare", "commit", "cancel"},
         bearer : Slot, arg : Slot,
         step : {"sent", "served", "answered"},
         kind : {"none", "active", "pending"}, now : Nat,
         result : {"none", "ok", "conflict", "denied"},
         lapsed : BOOLEAN]

NoCall == [op |-> "none", bearer |-> NoToken, arg |-> NoToken, step |-> "answered",
              kind |-> "none", now |-> 0, result |-> "none", lapsed |-> FALSE]

\* The relay's row and the worker's credentials keep the shapes the table's constraints and
\* the credential store allow: a pending token, its id and its expiry come and go together.
RotationTypeOK ==
    /\ time \in Nat
    /\ active \in Tokens
    /\ pending \in Slot /\ expires \in Nat
    /\ pending = NoToken <=> expires = 0
    /\ slot \in Tokens /\ nextSlot \in Slot
    /\ pc \in Steps
    /\ loaded \in Tokens /\ token \in Tokens
    /\ call \in Call
    /\ strays \subseteq Call
    /\ issued \subseteq Tokens
    /\ mishaps \in 0..MaxMishaps
    /\ overwritten \in BOOLEAN /\ strayed \in BOOLEAN

RotationInit ==
    /\ time = 0
    /\ active = First /\ pending = NoToken /\ expires = 0
    /\ slot = First /\ nextSlot = NoToken
    /\ pc = "idle" /\ loaded = First /\ token = First
    /\ call = NoCall /\ strays = {}
    /\ issued = {First}
    /\ mishaps = 0 /\ overwritten = FALSE /\ strayed = FALSE

(***************************************************************************)
(* The relay.  A request is authenticated against the installation's row,  *)
(* and its update repeats the conditions it depends on.                    *)
(***************************************************************************)

\* authenticateRelayToken: the active token, or the pending one until it expires.
Kind(bearer) ==
    IF bearer = active THEN "active"
    ELSE IF bearer = pending /\ expires > time THEN "pending"
    ELSE "none"

Authenticated(m) == [m EXCEPT !.step = "served", !.now = time, !.kind = Kind(m.bearer)]

SetRow(a, p, x) == active' = a /\ pending' = p /\ expires' = x

\* The row the request finds expects its bearer to be active.
StillActive(m) == m.kind = "active" /\ active = m.bearer

SamePending(m) == pending = m.arg /\ expires = m.now + Lifetime

\* prepare: conflict on the active token itself, and on any other pending rotation;
\* the same pending token with the same expiry is accepted again.
Prepare(m, result) ==
    \/ /\ m.kind # "active" /\ result = "denied"
       /\ UNCHANGED relay
    \/ /\ m.kind = "active" /\ result = "conflict"
       /\ m.arg = m.bearer \/ ~StillActive(m) \/ (pending # NoToken /\ ~SamePending(m))
       /\ UNCHANGED relay
    \/ /\ StillActive(m) /\ m.arg # m.bearer /\ result = "ok"
       /\ \/ SamePending(m) /\ UNCHANGED relay
          \/ pending = NoToken /\ SetRow(active, m.arg, m.now + Lifetime)

RowAfterCommit(m) == SetRow(m.bearer, NoToken, 0)

Commit(m, result) ==
    \/ /\ m.kind # "pending" /\ result = "denied"
       /\ UNCHANGED relay
    \/ /\ m.kind = "pending"
       /\ \/ /\ pending = m.bearer /\ expires > m.now /\ result = "ok"
             /\ RowAfterCommit(m)
          \/ /\ ~(pending = m.bearer /\ expires > m.now) /\ result = "conflict"
             /\ UNCHANGED relay

Cancel(m, result) ==
    \/ /\ m.kind # "active" /\ result = "denied"
       /\ UNCHANGED relay
    \/ /\ m.kind = "active"
       /\ \/ /\ active = m.bearer /\ pending = m.arg /\ expires > m.now /\ result = "ok"
             /\ SetRow(active, NoToken, 0)
          \/ /\ ~(active = m.bearer /\ pending = m.arg /\ expires > m.now) /\ result = "conflict"
             /\ UNCHANGED relay

\* An unauthenticated request is denied as well (401), as is one of the wrong kind (403).
Handle(m, result) ==
    \/ m.op = "prepare" /\ Prepare(m, result)
    \/ m.op = "commit" /\ Commit(m, result)
    \/ m.op = "cancel" /\ Cancel(m, result)

Authenticate ==
    /\ \/ /\ call.step = "sent"
          /\ call' = Authenticated(call) /\ strays' = strays
       \/ \E m \in strays :
            /\ m.step = "sent"
            /\ strays' = (strays \ {m}) \cup {Authenticated(m)}
            /\ call' = call
    /\ UNCHANGED <<time, relay, worker, issued, mishaps, overwritten, strayed>>

AnswerCall ==
    /\ call.step = "served"
    /\ \E result \in {"ok", "conflict", "denied"} :
         /\ Handle(call, result)
         /\ call' = [call EXCEPT !.step = "answered", !.result = result]
    /\ UNCHANGED <<time, worker, strays, issued, mishaps, overwritten, strayed>>

\* Nobody waits for the answer of a stray.
ServeStray ==
    /\ \E m \in strays, result \in {"ok", "conflict", "denied"} :
         /\ m.step = "served"
         /\ Handle(m, result)
         /\ strays' = strays \ {m}
         /\ strayed' = (strayed \/ (m.lapsed /\ relay' # relay))
    /\ UNCHANGED <<time, worker, call, issued, mishaps, overwritten>>

TimePasses ==
    /\ time < MaxTime
    /\ time' = time + 1
    /\ UNCHANGED <<relay, worker, call, strays, issued, mishaps, overwritten, strayed>>

(***************************************************************************)
(* The worker                                                              *)
(***************************************************************************)
Waiting == call.op # "none"

Goto(step) == pc' = step

Send(op, bearer, arg) ==
    /\ ~Waiting
    /\ call' = [NoCall EXCEPT !.op = op, !.bearer = bearer, !.arg = arg, !.step = "sent"]
    /\ UNCHANGED <<time, relay, worker, strays, issued, mishaps, overwritten, strayed>>

\* The answer to the step's request arrives; what was sent before it has lapsed.
Replied(step, result) ==
    /\ pc = step /\ Waiting
    /\ call.step = "answered" /\ call.result = result
    /\ call' = NoCall
    /\ strays' = {[m EXCEPT !.lapsed = TRUE] : m \in strays}

AfterAnswer == UNCHANGED <<time, relay, slot, nextSlot, loaded, token, issued, mishaps, overwritten, strayed>>

\* rotateRelayToken is called with a new token.
StartRotation ==
    /\ pc = "idle"
    /\ \E t \in Tokens \ issued :
         /\ token' = t
         /\ issued' = issued \cup {t}
    /\ Goto("rotate-store")
    /\ UNCHANGED <<time, relay, slot, nextSlot, loaded, call, strays, mishaps, overwritten, strayed>>

\* set("relay-token-pending"): nothing asks what the slot holds.
StorePending ==
    /\ pc = "rotate-store"
    /\ nextSlot' = token
    /\ overwritten' = (overwritten \/ nextSlot # NoToken)
    /\ Goto("rotate-prepare")
    /\ UNCHANGED <<time, relay, slot, loaded, token, call, strays, issued, mishaps, strayed>>

\* A run of the worker has loaded its configuration and recovers.
StartRun ==
    /\ pc = "idle"
    /\ loaded' = slot
    /\ Goto("recover")
    /\ UNCHANGED <<time, relay, slot, nextSlot, token, call, strays, issued, mishaps, overwritten, strayed>>

ReadPending ==
    /\ pc = "recover"
    /\ \/ /\ nextSlot = NoToken
          /\ Goto("run")
          /\ token' = token
       \/ /\ nextSlot # NoToken
          /\ token' = nextSlot
          /\ Goto("recover-commit")
    /\ UNCHANGED <<time, relay, slot, nextSlot, loaded, call, strays, issued, mishaps, overwritten, strayed>>

SendStep ==
    \/ pc = "rotate-prepare" /\ Send("prepare", slot, token)
    \/ pc = "prepare" /\ Send("prepare", slot, token)
    \/ pc = "probe" /\ Send("prepare", token, token)
    \/ pc \in {"rotate-commit", "recover-commit", "commit-prepared"} /\ Send("commit", token, NoToken)
    \/ pc = "cancel" /\ Send("cancel", slot, token)

\* Mutant of AfterDenied: a pending token the relay does not take ends the recovery.
AfterDeniedNothing == Replied("recover-commit", "denied") /\ Goto("idle")

\* The pending token may be active already: probe.
AfterDenied == Replied("recover-commit", "denied") /\ Goto("probe")

TakeAnswer ==
    /\ \/ Replied("rotate-prepare", "ok") /\ Goto("rotate-commit")
       \/ Replied("rotate-commit", "ok") /\ Goto("finalize-set")
       \/ \* rotateRelayToken throws and leaves both slots
          \E step \in {"rotate-prepare", "rotate-commit"}, result \in {"conflict", "denied"} :
            Replied(step, result) /\ Goto("idle")
       \/ Replied("recover-commit", "ok") /\ Goto("finalize-set")
       \/ Replied("recover-commit", "conflict") /\ Goto("compare")
       \/ AfterDenied
       \/ Replied("probe", "conflict") /\ Goto("finalize-set")
       \/ Replied("probe", "denied") /\ Goto("compare")
       \/ Replied("prepare", "ok") /\ Goto("commit-prepared")
       \/ Replied("prepare", "conflict") /\ Goto("cancel")
       \/ Replied("commit-prepared", "ok") /\ Goto("finalize-set")
       \/ Replied("cancel", "ok") /\ Goto("forget")
       \/ \* recovery-required: both slots stay, and the run ends
          /\ \/ \E step \in {"prepare", "commit-prepared", "cancel"} : Replied(step, "denied")
             \/ \E step \in {"commit-prepared", "cancel"} : Replied(step, "conflict")
          /\ Goto("idle")
    /\ AfterAnswer

Compare ==
    /\ pc = "compare"
    /\ Goto(IF slot = token THEN "finalize-set" ELSE "prepare")
    /\ UNCHANGED <<time, relay, slot, nextSlot, loaded, token, call, strays, issued, mishaps, overwritten, strayed>>

\* "cancelled": the run goes on with the token it has loaded.
ForgetPending ==
    /\ pc = "forget"
    /\ nextSlot' = NoToken
    /\ Goto("run")
    /\ UNCHANGED <<time, relay, slot, loaded, token, call, strays, issued, mishaps, overwritten, strayed>>

\* Mutant of FinalizeSet: the pending slot is emptied first.
FinalizeDeleteFirst ==
    /\ pc = "finalize-set"
    /\ nextSlot' = NoToken
    /\ slot' = slot
    /\ Goto("finalize-delete")
    /\ UNCHANGED <<time, relay, loaded, token, call, strays, issued, mishaps, overwritten, strayed>>

FinalizeSet ==
    /\ pc = "finalize-set"
    /\ slot' = token
    /\ nextSlot' = nextSlot
    /\ Goto("finalize-delete")
    /\ UNCHANGED <<time, relay, loaded, token, call, strays, issued, mishaps, overwritten, strayed>>

\* Mutant of RunToken: the run keeps the token it has loaded.
RunTokenLoaded == loaded

\* "recovered": the run reads the credential again.
RunToken == slot

\* The end of a rotation, or of a recovery that returned "recovered".
FinalizeDelete ==
    /\ pc = "finalize-delete"
    /\ nextSlot' = NoToken
    /\ loaded' = RunToken
    /\ Goto("run")
    /\ UNCHANGED <<time, relay, slot, token, call, strays, issued, mishaps, overwritten, strayed>>

\* The run has the relay's token and goes on to claim events (EventQueue, BridgeRun).
RunEnds ==
    /\ pc = "run"
    /\ Goto("idle")
    /\ UNCHANGED <<time, relay, slot, nextSlot, loaded, token, call, strays, issued, mishaps, overwritten, strayed>>

Mishap == mishaps < MaxMishaps /\ mishaps' = mishaps + 1

\* The client's deadline passes: it repeats the request, the first one stays under way
\* unless it was lost or has been served.
CallTimesOut ==
    /\ Waiting /\ Mishap
    /\ call' = [call EXCEPT !.step = "sent", !.kind = "none", !.now = 0, !.result = "none"]
    /\ \/ strays' = strays
       \/ call.step # "answered" /\ strays' = strays \cup {call}
    /\ UNCHANGED <<time, relay, worker, issued, overwritten, strayed>>

\* The process dies, or the last attempt failed: the rotation throws, the recovery returns
\* "recovery-required".  The request may still be served.
GivesUp ==
    /\ pc # "idle" /\ Mishap
    /\ Goto("idle")
    /\ call' = NoCall
    /\ \E left \in {strays} \cup (IF Waiting /\ call.step # "answered" THEN {strays \cup {call}} ELSE {}) :
         strays' = {[m EXCEPT !.lapsed = TRUE] : m \in left}
    /\ UNCHANGED <<time, relay, slot, nextSlot, loaded, token, issued, overwritten, strayed>>

Recovers ==
    \/ StartRun
    \/ ReadPending
    \/ SendStep
    \/ TakeAnswer
    \/ Compare
    \/ ForgetPending
    \/ FinalizeSet
    \/ FinalizeDelete
    \/ RunEnds
    \/ StorePending

RotationNext ==
    \/ Authenticate
    \/ AnswerCall
    \/ ServeStray
    \/ TimePasses
    \/ StartRotation
    \/ Recovers
    \/ CallTimesOut
    \/ GivesUp

RotationSpec == RotationInit /\ [][RotationNext]_rotationVars

\* The relay serves requests; the service runs the worker again and again.
FairRotationSpec ==
    /\ RotationSpec
    /\ WF_rotationVars(Authenticate) /\ WF_rotationVars(AnswerCall) /\ WF_rotationVars(ServeStray)
    /\ WF_rotationVars(Recovers)

(***************************************************************************)
(* Properties                                                              *)
(***************************************************************************)

\* Whatever crash or lost answer interrupts a rotation or its recovery, the token the
\* relay takes is in one of the worker's two slots, unless a rotation was started over an
\* unfinished one or a request took effect after the worker had given it up.
NeverLockedOut == overwritten \/ strayed \/ active \in {slot, nextSlot}

\* A run that recovery lets through goes on with the relay's active token.
RunUsesActiveToken == pc = "run" => overwritten \/ strayed \/ loaded = active

\* The relay holds an expired rotation, which no request of the code removes.
Wedged == pending # NoToken /\ expires <= time

\* An interrupted rotation is finished or cancelled by a later run.
RotationSettles ==
    nextSlot # NoToken ~> (nextSlot = NoToken \/ Wedged \/ overwritten \/ strayed)
=============================================================================
