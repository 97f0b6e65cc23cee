---------------------------- MODULE EventSchedule ----------------------------
(***************************************************************************)
(* The agent's main loop and its event task (provisioning-agent main.rs,   *)
(* events.rs).  The event task long-polls the control plane and marks the  *)
(* channels that changed; the main loop fetches a channel when it is       *)
(* marked, when its reconcile timer has elapsed, or on every iteration     *)
(* while the event channel is not answering.  The two tasks share only the *)
(* atomics of Wakeups, so each access to one is a step of its own.         *)
(***************************************************************************)
EXTENDS Integers, Sequences, FiniteSets

CONSTANTS
    Order,              \* the channels, in the order in which Schedule::due takes the flags
    MaxChanges,         \* bound: changes at the control plane
    MaxFailures         \* bound: fetches and event requests that fail

ASSUME OrderAssumption ==
    /\ Order \in Seq({"jobs", "authorizations", "leases"}) /\ Len(Order) > 0 /\ Order[1] = "jobs"
    /\ \A i, j \in DOMAIN Order : Order[i] = Order[j] => i = j

ASSUME BoundsAssumption == MaxChanges \in Nat /\ MaxFailures \in Nat

Channels == {Order[k] : k \in DOMAIN Order}

VARIABLES
    pending,    \* the control plane's changes of a channel that were not fetched
    unseen,     \* the channels that changed since the cursor
    known,      \* whether the event task has a cursor
    flags, permit, healthy,     \* Wakeups
    elapsed,    \* Schedule: the channels c with now >= next_c
    mpc, taken, primary, due,   \* the main loop and the locals of Schedule::due
    epc, held,  \* the event task and the `changed` it received
    announced,  \* history: the channels an event reported, not yet fetched since
    changes, failures

wakeups == <<flags, permit, healthy>>
main == <<elapsed, mpc, taken, primary, due>>
task == <<known, epc, held>>
vars == <<pending, unseen, task, wakeups, main, announced, changes, failures>>

-----------------------------------------------------------------------------
(* The control plane (external): something changes.                        *)
Change(c) ==
    /\ changes < MaxChanges
    /\ changes' = changes + 1
    /\ pending' = [pending EXCEPT ![c] = @ + 1]
    /\ unseen' = unseen \cup {c}
    /\ UNCHANGED <<task, wakeups, main, announced, failures>>

-----------------------------------------------------------------------------
(* run_loop, an answer: the cursor moves on (unless the answer has none).  *)
(* A control plane that was asked without a cursor knows no older change.  *)
Event ==
    /\ epc = "ask"
    /\ \E changed \in SUBSET unseen :
         /\ known => changed = unseen
         /\ held' = changed
         /\ announced' = announced \cup changed
    /\ \/ known' = TRUE /\ unseen' = {}
       \/ UNCHANGED <<known, unseen>>
    /\ epc' = "answered"
    /\ UNCHANGED <<pending, wakeups, main, changes, failures>>

(* After the minimum interval: healthy, and mark what changed.             *)
Answered ==
    /\ epc = "answered"
    /\ healthy' = TRUE
    /\ epc' = IF held = {} THEN "ask" ELSE "mark"
    /\ UNCHANGED <<pending, unseen, known, held, flags, permit, main, announced, changes, failures>>

(* Mutant: the main loop is notified before the flags are stored.          *)
Mark_late ==
    /\ epc = "mark"
    /\ \E c \in held :
         /\ flags' = flags \cup {c}
         /\ held' = held \ {c}
    /\ permit' = (permit \/ Cardinality(held) > 1)
    /\ epc' = IF held' = {} THEN "ask" ELSE "mark"
    /\ UNCHANGED <<pending, unseen, known, healthy, main, announced, changes, failures>>

(* mark: the flags one by one, then the permit.                            *)
Mark ==
    /\ epc = "mark"
    /\ \E c \in held :
         /\ flags' = flags \cup {c}
         /\ held' = held \ {c}
    /\ epc' = IF held' = {} THEN "notify" ELSE "mark"
    /\ UNCHANGED <<pending, unseen, known, permit, healthy, main, announced, changes, failures>>

Notify ==
    /\ epc = "notify"
    /\ permit' = TRUE
    /\ epc' = "ask"
    /\ UNCHANGED <<pending, unseen, known, held, flags, healthy, main, announced, changes, failures>>

(* Unavailable drops the cursor; superseded and failed requests keep it.   *)
(* set_healthy(false) notifies only when the channel was healthy.          *)
NoEvent ==
    /\ epc = "ask"
    /\ failures < MaxFailures
    /\ failures' = failures + 1
    /\ known' \in {known, FALSE}
    /\ healthy' = FALSE
    /\ epc' = IF healthy THEN "notify" ELSE "ask"
    /\ UNCHANGED <<pending, unseen, held, flags, permit, main, announced, changes>>

EventTask == Event \/ Answered \/ Mark \/ Notify \/ NoEvent

-----------------------------------------------------------------------------
Position(c) == CHOOSE k \in DOMAIN Order : Order[k] = c

(* due: every flag is consumed, even when everything is polled anyway.     *)
Take(c) ==
    /\ mpc = c
    /\ taken' = taken \cup (flags \cap {c})
    /\ flags' = flags \ {c}
    /\ mpc' = IF Position(c) < Len(Order) THEN Order[Position(c) + 1] ELSE "judge"
    /\ UNCHANGED <<pending, unseen, task, permit, healthy, elapsed, primary, due, announced, changes, failures>>

(* Mutant: while the channel is healthy, the reconcile timer is not read.  *)
Due_untimed == IF healthy THEN taken ELSE Channels

Due == IF healthy THEN taken \cup elapsed ELSE Channels

Judge ==
    /\ mpc = "judge"
    /\ primary' = healthy
    /\ due' = Due
    /\ elapsed' = elapsed \ Due
    /\ taken' = {}
    /\ mpc' = "lease tick"
    /\ UNCHANGED <<pending, unseen, task, wakeups, announced, changes, failures>>

(* A step succeeded: what it covers has been fetched.                      *)
Fetched(c) == pending' = [pending EXCEPT ![c] = 0] /\ announced' = announced \ {c}

(* Mutant: the failed step waits for the reconcile timer.                  *)
Retry_later(c) == UNCHANGED elapsed

Retry(c) == elapsed' = elapsed \cup {c}

(* The lease tick and the external authorizations' tick: their local part  *)
(* runs, and may fail, on every iteration.                                 *)
Reconcile(c, at, then) ==
    /\ mpc = at
    /\ mpc' = then
    /\ due' = due \ {c}
    /\ \/ /\ IF c \in due THEN Fetched(c) ELSE UNCHANGED <<pending, announced>>
          /\ UNCHANGED <<elapsed, failures>>
       \/ /\ c \in Channels
          /\ failures < MaxFailures /\ failures' = failures + 1
          /\ Retry(c)
          /\ UNCHANGED <<pending, announced>>
    /\ UNCHANGED <<unseen, task, wakeups, taken, primary, changes>>

(* poll_once: one job is claimed, processed, and the next one is looked    *)
(* for without sleeping.                                                   *)
Claim ==
    /\ mpc = "claim" /\ "jobs" \in due /\ pending["jobs"] > 0
    /\ pending' = [pending EXCEPT !["jobs"] = @ - 1]
    /\ elapsed' = elapsed \cup {"jobs"}
    /\ due' = due \ {"jobs"}
    /\ mpc' = Order[1]
    /\ UNCHANGED <<unseen, task, wakeups, taken, primary, announced, changes, failures>>

(* Nothing to claim, or not due, or the claim failed: sleep.               *)
Sleep ==
    /\ mpc = "claim"
    /\ due' = due \ {"jobs"}
    /\ mpc' = "asleep"
    /\ \/ /\ "jobs" \notin due \/ pending["jobs"] = 0
          /\ IF "jobs" \in due THEN Fetched("jobs") ELSE UNCHANGED <<pending, announced>>
          /\ UNCHANGED <<elapsed, failures>>
       \/ /\ "jobs" \in due /\ failures < MaxFailures /\ failures' = failures + 1
          /\ Retry("jobs")
          /\ UNCHANGED <<pending, announced>>
    /\ UNCHANGED <<unseen, task, wakeups, taken, primary, changes>>

Notified ==
    /\ mpc = "asleep" /\ permit
    /\ permit' = FALSE
    /\ mpc' = Order[1]
    /\ UNCHANGED <<pending, unseen, task, flags, healthy, elapsed, taken, primary, due, announced, changes, failures>>

PollInterval ==
    /\ mpc = "asleep"
    /\ mpc' = Order[1]
    /\ UNCHANGED <<pending, unseen, task, wakeups, elapsed, taken, primary, due, announced, changes, failures>>

MainLoop ==
    \/ \E c \in Channels : Take(c)
    \/ Judge
    \/ Reconcile("leases", "lease tick", "external tick")
    \/ Reconcile("authorizations", "external tick", "claim")
    \/ Claim \/ Sleep \/ Notified \/ PollInterval

(* The reconcile interval of a channel passes.                             *)
Timer(c) ==
    /\ c \notin elapsed
    /\ elapsed' = elapsed \cup {c}
    /\ UNCHANGED <<pending, unseen, task, wakeups, mpc, taken, primary, due, announced, changes, failures>>

Init ==
    /\ pending = [c \in Channels |-> 0] /\ unseen = {}
    /\ known = FALSE /\ held = {}
    /\ epc \in {"ask", "disabled"}      \* events_enabled
    /\ flags = {} /\ permit = FALSE /\ healthy = FALSE
    /\ elapsed = Channels
    /\ mpc = Order[1] /\ taken = {} /\ primary = FALSE /\ due = {}
    /\ announced = {}
    /\ changes = 0 /\ failures = 0

Next == EventTask \/ MainLoop \/ \E c \in Channels : Change(c) \/ Timer(c)

Spec == Init /\ [][Next]_vars

-----------------------------------------------------------------------------
(* A change an event has reported (the cursor is past it, so it is never   *)
(* reported again) is not forgotten before it is fetched: some part of the *)
(* two tasks still holds it, and none of them is the reconcile timer.      *)
Remembered ==
    \A c \in announced : pending[c] > 0 =>
        c \in held \cup flags \cup taken \cup due \cup elapsed

(* The main loop never sleeps through news: asleep with a flag set, or     *)
(* with the channel lost since it last looked, a wake-up is on its way.    *)
NoLostWakeup ==
    mpc = "asleep" /\ (flags /= {} \/ (primary /\ ~healthy))
        => permit \/ epc \in {"mark", "notify"}

(* Once changes and failures have stopped: what an event reported is       *)
(* fetched without the help of the reconcile timer (a failed step is       *)
(* retried, and the loop is awake to retry it); and with the timer every   *)
(* change is fetched, whatever becomes of the event channel: disabled,     *)
(* lost, or restarted without its cursor.                                  *)
TasksRun == WF_vars(MainLoop) /\ WF_vars(Answered) /\ WF_vars(Mark) /\ WF_vars(Notify)
Timers == \A c \in Channels : WF_vars(Timer(c))
NewsAreFetched == TasksRun => <>[](\A c \in announced : pending[c] = 0)
ChangesAreFetched == TasksRun /\ Timers => <>[](\A c \in Channels : pending[c] = 0)
EverythingIsFetched == NewsAreFetched /\ ChangesAreFetched

=============================================================================
