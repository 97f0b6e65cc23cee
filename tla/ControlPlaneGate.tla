-------------------------- MODULE ControlPlaneGate --------------------------
(***************************************************************************)
(* The provisioning agent's shared circuit breaker (pacing.rs) and the     *)
(* three tasks that use it (worker_client.rs).  The main loop and the      *)
(* event task send through the gate; the report task is never held back    *)
(* by it, but every answer it receives still feeds it.  Requests of        *)
(* different tasks overlap, so an answer may reach a gate that another     *)
(* answer changed while the request was in flight.                         *)
(*                                                                         *)
(* Time is counted in ticks, Tps of them to a second: Retry-After is in    *)
(* whole seconds while deadlines and HTTP dates are not.                   *)
(***************************************************************************)
EXTENDS Integers

CONSTANTS
    Base, Cap,          \* backoff_base and backoff_max, in ticks
    MAX_RETRY_AFTER,    \* in seconds
    Tps,                \* ticks per second
    MaxTime,            \* bound: last tick of the model
    MaxFailures,        \* bound: consecutive failures the model follows
    Headers             \* the Retry-After headers a server may answer with

NoDuration == -1        \* Option::None

(* A header is absent, a number of seconds, or a date given as a tick.     *)
HeaderType == [kind : {"none"}, n : {0}] \cup [kind : {"seconds", "date"}, n : Nat]

ASSUME GateAssumption ==
    /\ Base \in Nat \ {0} /\ Cap \in Nat \ {0}
    /\ MAX_RETRY_AFTER \in Nat /\ Tps \in Nat \ {0}
    /\ MaxTime \in Nat /\ MaxFailures \in Nat
    /\ Headers \subseteq HeaderType

(* The shift of next_delay, 1 << exponent, is a natural number.            *)
ASSUME ShiftAssumption == \A e \in 0 .. 20 : 2^e \in Nat \ {0}

Gated == {"main", "events"}
Tasks == Gated \cup {"reports"}

VARIABLES
    now,
    failures,               \* Backoff.failures
    blocked_until,          \* 0 models None: no instant is before tick 0
    server_minimum_until,
    inflight,               \* tasks whose request is on the wire
    demanded                \* history: the latest end of a wait a server asked for

gate == <<failures, blocked_until, server_minimum_until>>
gate_vars == <<now, failures, blocked_until, server_minimum_until, inflight, demanded>>

-----------------------------------------------------------------------------
Larger(a, b) == IF a >= b THEN a ELSE b
Smaller(a, b) == IF a <= b THEN a ELSE b

(* Whole seconds needed to cover `ticks`: a fraction left counts as one.   *)
SecondsUp(ticks) == (ticks \div Tps) + (IF ticks % Tps > 0 THEN 1 ELSE 0)

(* Mutant: MAX_RETRY_AFTER is not applied.                                *)
parse_retry_after_unclamped(h) ==
    IF h.kind = "none" THEN NoDuration ELSE IF h.kind = "seconds" THEN Tps * h.n
    ELSE IF h.n < now THEN NoDuration ELSE Tps * SecondsUp(h.n - now)

(* parse_retry_after_at: the wait in ticks, or NoDuration.                 *)
parse_retry_after(h) ==
    LET delta == h.n - now
    IN  CASE h.kind = "none"    -> NoDuration
          [] h.kind = "seconds" -> Tps * Smaller(h.n, MAX_RETRY_AFTER)
          [] h.kind = "date"    ->
               IF delta < 0 THEN NoDuration
               ELSE Tps * Smaller(SecondsUp(delta), MAX_RETRY_AFTER)

(* Backoff::next_delay: half of the step is fixed, half is jitter.         *)
Step(f) == Smaller(Base * 2^Smaller(f, 20), Cap)
next_delay(f) == (Step(f) \div 2) .. Step(f)

check_at == blocked_until <= now

(* Mutant: a success opens the gate whatever the server asked for.         *)
record_success_forgets_minimum ==
    /\ failures' = 0
    /\ blocked_until' = 0
    /\ UNCHANGED server_minimum_until

record_success ==
    /\ failures' = 0
    /\ blocked_until' = IF server_minimum_until > now THEN server_minimum_until ELSE 0
    /\ UNCHANGED server_minimum_until

record_failure(retry_after) ==
    \E own \in next_delay(failures) :
        LET delay == IF retry_after = NoDuration THEN own ELSE Larger(retry_after, own)
        IN  /\ failures < MaxFailures
            /\ failures' = failures + 1
            /\ server_minimum_until' =
                   IF retry_after = NoDuration THEN server_minimum_until
                   ELSE Larger(server_minimum_until, now + retry_after)
            /\ blocked_until' = Larger(blocked_until, now + delay)

-----------------------------------------------------------------------------
GateInit ==
    /\ now = 1
    /\ failures = 0 /\ blocked_until = 0 /\ server_minimum_until = 0
    /\ inflight = {}
    /\ demanded = 0

GateTick ==
    /\ now < MaxTime
    /\ now' = now + 1
    /\ UNCHANGED <<gate, inflight, demanded>>

(* polling and wait_events: nothing leaves while the gate is closed.       *)
polling(t) ==
    /\ t \in Gated \ inflight
    /\ check_at
    /\ inflight' = inflight \cup {t}
    /\ UNCHANGED <<now, gate, demanded>>

(* complete, fail and fetch_revision_config do not ask the gate.           *)
SendReport ==
    /\ "reports" \notin inflight
    /\ inflight' = inflight \cup {"reports"}
    /\ UNCHANGED <<now, gate, demanded>>

AnswerSuccess(t) ==
    /\ t \in inflight
    /\ record_success
    /\ inflight' = inflight \ {t}
    /\ UNCHANGED <<now, demanded>>

(* What the server asked for: the date itself, or seconds from now, never  *)
(* more than MAX_RETRY_AFTER away.                                         *)
Demand(h) ==
    LET longest == now + Tps * MAX_RETRY_AFTER
    IN  CASE h.kind = "none"    -> 0
          [] h.kind = "seconds" -> Smaller(now + Tps * h.n, longest)
          [] h.kind = "date"    -> Smaller(h.n, longest)

(* A refusal; for a report, a 429 or a 5xx.                                *)
AnswerFailure(t, h) ==
    /\ t \in inflight
    /\ record_failure(parse_retry_after(h))
    /\ inflight' = inflight \ {t}
    /\ demanded' = Larger(demanded, Demand(h))
    /\ UNCHANGED now

(* The request never got an answer: only the gated callers record it.      *)
NetworkError(t) ==
    /\ t \in inflight
    /\ IF t \in Gated THEN record_failure(NoDuration) ELSE UNCHANGED gate
    /\ inflight' = inflight \ {t}
    /\ UNCHANGED <<now, demanded>>

(* Answers that feed the gate nothing: a report's other 4xx, the event     *)
(* channel's 404, 405, 409 or 501, and its 200 without a reason.           *)
AnswerUnobserved(t) ==
    /\ t \in inflight \ {"main"}
    /\ inflight' = inflight \ {t}
    /\ UNCHANGED <<now, gate, demanded>>

GateNext ==
    \/ GateTick
    \/ SendReport
    \/ \E t \in Tasks :
        \/ polling(t)
        \/ AnswerSuccess(t)
        \/ \E h \in Headers : AnswerFailure(t, h)
        \/ NetworkError(t)
        \/ AnswerUnobserved(t)

GateSpec == GateInit /\ [][GateNext]_gate_vars

-----------------------------------------------------------------------------
(* The shapes of the state.                                                *)
GateTypeOK ==
    /\ now \in Nat /\ failures \in Nat
    /\ blocked_until \in Nat /\ server_minimum_until \in Nat
    /\ inflight \subseteq Tasks
    /\ demanded \in Nat

(* No polling request leaves before the end of a wait a server asked for,  *)
(* whatever answers of the other tasks came in between: a success that was *)
(* in flight during another task's 429, a later refusal with a shorter or  *)
(* no Retry-After, an HTTP date that falls inside a second.                *)
RetryAfterHonoured ==
    demanded > now => ~check_at

(* "A hostile or broken server must not be able to silence a node for      *)
(* hours" (pacing.rs): the gate is never closed further ahead than the     *)
(* longer of the backoff cap and MAX_RETRY_AFTER.                          *)
SilenceBounded ==
    blocked_until <= now + Larger(Cap, Tps * MAX_RETRY_AFTER)

(* The gate is closed while server_minimum_until is ahead, and what        *)
(* servers asked for is never past server_minimum_until: the reason        *)
(* record_success may reopen the gate at server_minimum_until.             *)
MinimumKept ==
    /\ demanded > now => demanded <= server_minimum_until
    /\ server_minimum_until > now => blocked_until >= server_minimum_until
    /\ server_minimum_until <= now + Tps * MAX_RETRY_AFTER

GateInv == GateTypeOK /\ MinimumKept /\ SilenceBounded

(* "Never shorten a wait that is already running": only a success can      *)
(* bring the reopening of the gate forward, and then not before the        *)
(* longest wait a server asked for.                                        *)
WaitNeverShortened ==
    [][blocked_until' < blocked_until =>
         /\ failures' = 0
         /\ demanded > now => blocked_until' >= demanded]_gate_vars

=============================================================================
