------------------------------ MODULE LeasePool ------------------------------
(***************************************************************************)
(* The node-side lease pool (provisioning-agent lease_pool.rs): slots of   *)
(* short-lived credentials that the agent mints, applies to the running    *)
(* sing-box through vpn-admin and then reports to the control plane, which *)
(* leases them to customers.  One tick plans and saves, applies and saves, *)
(* then syncs; the agent may die at any point and every step may fail.     *)
(*                                                                         *)
(* Time is counted in units of the batch interval's divisor: Grid,         *)
(* Lifetime and MinRemaining are in those units.  A secret is the ordinal  *)
(* of its mint in its slot; 0 is no secret.                                *)
(***************************************************************************)
EXTENDS Integers, FiniteSets

CONSTANTS
    Slots,              \* slot numbers
    Pools,              \* the pools (sets of slots) lease_pool_size may select
    Grid,               \* rotation_batch_interval_secs
    Lifetime,           \* lease_slot_lifetime_secs
    MinRemaining,       \* min_remaining_seconds
    MaxTime,            \* bound: last instant
    MaxRevokes,         \* bound: leases the control plane revokes
    MaxFaults,          \* bound: saves, applies and syncs that fail
    MaxCrashes          \* bound: restarts of the agent

(* What clamp_batch_interval and clamp_lifetime leave: a minted slot can   *)
(* be leased for at least one unit, whatever flooring onto the grid takes. *)
ASSUME LeaseAssumption ==
    /\ Pools \subseteq SUBSET Slots
    /\ Grid \in Nat \ {0} /\ Lifetime \in Nat /\ MinRemaining \in Nat
    /\ Lifetime >= MinRemaining + Grid + 1
    /\ {MaxTime, MaxRevokes, MaxFaults, MaxCrashes} \subseteq Nat

None == 0

VARIABLES
    now,
    pool,       \* the slots configured for this process
    disk,       \* the lease state file
    mem,        \* LeasePool.state
    remote,     \* LeasePool.remote: what the control plane said at the last sync
    proven,     \* applied_this_process
    pc, dirty,  \* where the tick is, and its local `dirty`
    retry,      \* schedule.retry_leases: the next tick has sync_due
    store,      \* the lease users of users.json
    live,       \* the secrets the running sing-box accepts
    cp,         \* the control plane's slots
    minted,     \* history: secrets minted per slot
    lost,       \* history: a crash lost what a refused save left only in memory
    revokes, faults, crashes

state == <<disk, mem, remote, proven, retry>>
node == <<store, live>>
vars == <<now, pool, state, pc, dirty, node, cp, minted, lost, revokes, faults, crashes>>

-----------------------------------------------------------------------------
NoSlot == [gen |-> 0, until |-> 0, secret |-> None, reported |-> FALSE, revoked |-> FALSE]
EmptyState == [slots |-> [s \in Slots |-> NoSlot], applied |-> FALSE, last |-> -Grid]

(* RemoteView: as_of, and the state of the generation the control plane    *)
(* has in each slot ("urgent": revoked with the urgent flag).              *)
NoRemote == [as_of |-> -1, slots |-> [s \in Slots |-> [gen |-> 0, state |-> "none"]]]

Holds(st, s) == st.slots[s].gen > 0

round_down_to_grid(t) == (t \div Grid) * Grid

mint(s, generation, t) ==
    [gen |-> generation, until |-> round_down_to_grid(t + Lifetime), secret |-> minted[s] + 1,
     reported |-> FALSE, revoked |-> FALSE]

(* Why a slot needs a new generation.                                      *)
Expired(sl) == sl.until <= now
Unleasable(sl) == ~sl.reported /\ now >= sl.until - MinRemaining
Urgent(sl, r) == r.gen = sl.gen /\ r.state = "urgent"

(* Mutant: "active" is believed although the view is older than the window. *)
Deferrable_stale(sl, r) ==
    \/ Unleasable(sl)
    \/ /\ r.gen = sl.gen
       /\ r.state = "revoked" \/ (r.state = "active" /\ now >= sl.until - MinRemaining)

Deferrable(sl, r) ==
    \/ Unleasable(sl)
    \/ /\ r.gen = sl.gen
       /\ r.state = "revoked" \/ (r.state = "active" /\ remote.as_of >= sl.until - MinRemaining)

Held == {s \in Slots : Holds(mem, s)}
Forced == {s \in Held : LET sl == mem.slots[s] IN Expired(sl) \/ (~Unleasable(sl) /\ Urgent(sl, remote.slots[s]))}
rotation_candidates == Forced \cup {s \in Held : Deferrable(mem.slots[s], remote.slots[s])}

slots_to_rotate ==
    IF Forced /= {} \/ now \div Grid > mem.last \div Grid THEN rotation_candidates ELSE {}

(* plan: slots outside the pool go, rotated and missing ones are minted.   *)
Minted(rotate) == {s \in pool : ~Holds(mem, s) \/ s \in rotate}
plan(rotate) ==
    LET changed == Minted(rotate) /= {} \/ Held \ pool /= {}
    IN  [slots   |-> [s \in Slots |->
                        IF s \notin pool THEN NoSlot
                        ELSE IF s \in Minted(rotate) THEN mint(s, mem.slots[s].gen + 1, now)
                        ELSE mem.slots[s]],
         applied |-> mem.applied /\ ~changed,
         last    |-> IF rotate /= {} THEN now ELSE mem.last]

-----------------------------------------------------------------------------
Fault == faults < MaxFaults /\ faults' = faults + 1
(* Mutant: a failed tick is not retried.                                   *)
Ended_unretried(due) == pc' = "idle" /\ dirty' = FALSE /\ retry' = FALSE

Ended(due) == pc' = "idle" /\ dirty' = FALSE /\ retry' = due

(* save_state, atomic by rename, then the rest of the tick; a refused save *)
(* leaves the file as it was and the tick fails.                           *)
save_state(st, at) ==
    \/ disk' = st /\ UNCHANGED <<faults, retry>> /\ pc' = at /\ dirty' = TRUE
    \/ UNCHANGED disk /\ Fault /\ Ended(TRUE)

(* The first part of tick.  A change is saved before it is applied; what   *)
(* is applied, and was by this process, is not applied again.              *)
Plan ==
    LET rotate == slots_to_rotate
        next   == plan(rotate)
        changed == next.slots /= mem.slots
    IN  /\ pc = "idle"
        /\ mem' = next
        /\ minted' = [s \in Slots |-> IF s \in Minted(rotate) THEN minted[s] + 1 ELSE minted[s]]
        /\ IF changed
           THEN save_state(next, "apply")
           ELSE /\ pc' = IF mem.applied /\ proven THEN "sync" ELSE "apply"
                /\ UNCHANGED <<disk, faults, retry, dirty>>
        /\ UNCHANGED <<now, pool, remote, proven, node, cp, lost, revokes, crashes>>

(* reconcile in vpn-admin: the lease users become exactly the slots, and   *)
(* the ones that are neither revoked nor expired are rendered.             *)
Rendered(st) == [s \in Slots |-> IF st[s].revoked \/ st[s].until <= now THEN None ELSE st[s].secret]
Install == store' = mem.slots /\ live' = Rendered(mem.slots)

(* Mutant: an answer that is not "live" counts as an apply.                *)
Apply_unproven ==
    /\ pc = "apply"
    /\ Install \/ UNCHANGED node
    /\ mem' = [mem EXCEPT !.applied = TRUE]
    /\ proven' = TRUE
    /\ dirty' = TRUE
    /\ pc' = "applied"
    /\ UNCHANGED <<now, pool, disk, remote, retry, cp, minted, lost, revokes, faults, crashes>>

(* vpn-admin lease-pool sync answered "live".                              *)
Apply ==
    /\ pc = "apply"
    /\ Install
    /\ mem' = [mem EXCEPT !.applied = TRUE]
    /\ proven' = TRUE
    /\ dirty' = TRUE
    /\ pc' = "applied"
    /\ UNCHANGED <<now, pool, disk, remote, retry, cp, minted, lost, revokes, faults, crashes>>

(* It failed, did not answer live, or was killed at the time limit, before *)
(* or after it changed the node.                                           *)
ApplyFails ==
    /\ pc = "apply"
    /\ Fault
    /\ Install \/ UNCHANGED node
    /\ Ended(TRUE)
    /\ UNCHANGED <<now, pool, disk, mem, remote, proven, cp, minted, lost, revokes, crashes>>

SaveApplied ==
    /\ pc = "applied"
    /\ save_state(mem, "sync")
    /\ UNCHANGED <<now, pool, mem, remote, proven, node, cp, minted, lost, revokes, crashes>>

(* An empty pool has nothing to report; an unchanged one only when it is   *)
(* due (an event or the reconcile timer).                                  *)
SkipSync ==
    /\ pc = "sync"
    /\ (pool = {} /\ Held = {}) \/ (~dirty /\ ~retry)
    /\ Ended(FALSE)
    /\ UNCHANGED <<now, pool, disk, mem, remote, proven, node, cp, minted, lost, revokes, faults, crashes>>

-----------------------------------------------------------------------------
(* The control plane (external).  A generation it does not have is stored  *)
(* and may be leased; what the node no longer reports is dropped; extend   *)
(* is the target of a renewal, 0 for none.                                 *)
NoLease == [gen |-> 0, secret |-> None, state |-> "none", extend |-> 0, until |-> 0]
Stored ==
    [s \in Slots |->
        LET sl == mem.slots[s]
        IN  IF ~Holds(mem, s) THEN NoLease
            ELSE IF sl.gen = cp[s].gen THEN [cp[s] EXCEPT !.until = sl.until]
            ELSE [gen |-> sl.gen, secret |-> sl.secret, state |-> "active", extend |-> 0, until |-> sl.until]]
View(c) == [as_of |-> now, slots |-> [s \in Slots |-> [gen |-> c[s].gen, state |-> c[s].state]]]

Leasable(s) == cp[s].state = "active" /\ now < cp[s].until - MinRemaining

Lease(s) ==
    /\ Leasable(s)
    /\ cp' = [cp EXCEPT ![s].state = "leased"]
    /\ UNCHANGED revokes

(* The target is on the grid, but the node need not agree that it is       *)
(* within its lifetime: the control plane may know a longer one.           *)
Renew(s) ==
    /\ cp[s].state = "leased" /\ now < cp[s].until
    /\ cp[s].extend <= cp[s].until
    /\ cp' = [cp EXCEPT ![s].extend = round_down_to_grid(now + Lifetime) + Grid]
    /\ UNCHANGED revokes

Revoke(s) ==
    /\ cp[s].state = "leased"
    /\ revokes < MaxRevokes /\ revokes' = revokes + 1
    /\ \E state_ \in {"revoked", "urgent"} : cp' = [cp EXCEPT ![s].state = state_, ![s].extend = 0]

ControlPlane ==
    /\ \E s \in Slots : Lease(s) \/ Renew(s) \/ Revoke(s)
    /\ UNCHANGED <<now, pool, state, pc, dirty, node, minted, lost, faults, crashes>>

-----------------------------------------------------------------------------
absorb(st, c) ==
    [st EXCEPT !.slots = [s \in Slots |->
        LET known == c[s].gen = st.slots[s].gen /\ Holds(st, s)
        IN  [st.slots[s] EXCEPT !.reported = known,
                                !.revoked = known /\ c[s].state \in {"revoked", "urgent"}]]]

(* Mutant: the renewal is taken as it is, past the node's own horizon.     *)
adopt_uncapped(st, c) ==
    LET next(s) == c[s].extend + Grid
        extended == {s \in Slots : /\ c[s].gen = st.slots[s].gen
                                   /\ c[s].state = "leased"
                                   /\ c[s].extend > 0
                                   /\ st.slots[s].until > now}
    IN  [st EXCEPT !.slots = [s \in Slots |-> IF s \in extended THEN [st.slots[s] EXCEPT !.until = next(s)] ELSE st.slots[s]],
                   !.applied = @ /\ extended = {}]

(* adopt_extensions: forward only, floored to the grid, capped.            *)
adopt_extensions(st, c) ==
    LET cap == round_down_to_grid(now + Lifetime)
        to(s) == LET t == round_down_to_grid(c[s].extend) IN IF t < cap THEN t ELSE cap
        extended == {s \in Slots : /\ c[s].gen = st.slots[s].gen
                                   /\ c[s].state = "leased"
                                   /\ c[s].extend > 0
                                   /\ st.slots[s].until > now
                                   /\ to(s) > st.slots[s].until}
    IN  [st EXCEPT !.slots = [s \in Slots |->
                       IF s \in extended THEN [st.slots[s] EXCEPT !.until = to(s), !.revoked = FALSE]
                       ELSE st.slots[s]],
                   !.applied = @ /\ extended = {}]

(* The last part of tick: the answer is absorbed, renewals are adopted (to *)
(* be applied by the next tick) and a change is saved.                     *)
Sync ==
    LET next == adopt_extensions(absorb(mem, Stored), Stored)
    IN  /\ pc = "sync"
        /\ pool /= {} \/ Held /= {}
        /\ cp' = Stored
        /\ mem' = next
        /\ remote' = View(Stored)
        /\ IF next /= mem
           THEN \/ disk' = next /\ UNCHANGED faults /\ Ended(FALSE)
                \/ UNCHANGED disk /\ Fault /\ Ended(TRUE)
           ELSE UNCHANGED <<disk, faults>> /\ Ended(FALSE)
        /\ UNCHANGED <<now, pool, proven, node, minted, lost, revokes, crashes>>

(* No answer: the request was lost, or only its answer was.                *)
SyncFails ==
    /\ pc = "sync"
    /\ pool /= {} \/ Held /= {}
    /\ Fault
    /\ cp' = Stored \/ UNCHANGED cp
    /\ Ended(TRUE)
    /\ UNCHANGED <<now, pool, disk, mem, remote, proven, node, minted, lost, revokes, crashes>>

-----------------------------------------------------------------------------
(* The expiry timer's render-config: what has expired is rendered out.     *)
Reconcile ==
    /\ live' = Rendered(store)
    /\ live' /= live
    /\ UNCHANGED <<now, pool, state, pc, dirty, store, cp, minted, lost, revokes, faults, crashes>>

Tick ==
    /\ now < MaxTime
    /\ now' = now + 1
    /\ UNCHANGED <<pool, state, pc, dirty, node, cp, minted, lost, revokes, faults, crashes>>

(* The agent dies and starts again, perhaps with a smaller pool.           *)
Restart ==
    /\ crashes < MaxCrashes
    /\ crashes' = crashes + 1
    /\ pool' \in {p \in Pools : p \subseteq pool}
    /\ mem' = disk
    /\ remote' = NoRemote
    /\ proven' = FALSE
    /\ Ended(TRUE)
    /\ lost' = (lost \/ disk.slots /= mem.slots)
    /\ UNCHANGED <<now, disk, node, cp, minted, revokes, faults>>

Init ==
    /\ now = 0
    /\ pool \in Pools
    /\ disk = EmptyState /\ mem = EmptyState
    /\ remote = NoRemote
    /\ proven = FALSE
    /\ pc = "idle" /\ dirty = FALSE /\ retry = TRUE
    /\ store = EmptyState.slots
    /\ live = [s \in Slots |-> None]
    /\ cp = [s \in Slots |-> NoLease]
    /\ minted = [s \in Slots |-> 0]
    /\ lost = FALSE
    /\ revokes = 0 /\ faults = 0 /\ crashes = 0

Agent == Plan \/ Apply \/ ApplyFails \/ SaveApplied \/ SkipSync \/ Sync \/ SyncFails

Next == Agent \/ ControlPlane \/ Reconcile \/ Tick \/ Restart

Spec == Init /\ [][Next]_vars

-----------------------------------------------------------------------------
(* "Never report a generation the running sing-box has not provably        *)
(* loaded": a slot the control plane may lease right now has the very      *)
(* secret the node accepts, whatever failed or died in between, unless a   *)
(* crash lost a state whose save had been refused.                         *)
LeasableIsLive ==
    \A s \in pool : Leasable(s) /\ ~lost => live[s] = cp[s].secret

(* The node's own horizon: whatever the control plane asks for, a slot     *)
(* expires on a batch boundary (so that expiry is one apply for all) and   *)
(* never later than one lifetime from now.                                 *)
WithinHorizon ==
    \A s \in Held : mem.slots[s].until % Grid = 0 /\ mem.slots[s].until <= now + Lifetime

(* A customer keeps the credential it leased: a step of the agent replaces *)
(* the secret of a slot it knows the control plane to have (`reported`)    *)
(* only when it has expired or its lease has ended.                        *)
LeaseKept ==
    [][\A s \in pool :
         /\ Plan
         /\ cp[s].state = "leased" /\ cp[s].secret = mem.slots[s].secret /\ mem.slots[s].reported
         /\ mem'.slots[s].secret /= mem.slots[s].secret
         => mem.slots[s].until <= now]_vars

(* The pool replenishes itself: once steps stop failing and the clock has  *)
(* stopped, every slot of the pool ends with its current generation stored *)
(* at the control plane and, unless revoked, accepted by the node.         *)
Fairness == WF_vars(Agent) /\ WF_vars(Tick)
Replenished ==
    \A s \in pool :
        /\ mem.slots[s].reported /\ cp[s].secret = mem.slots[s].secret
        /\ now < mem.slots[s].until
        /\ cp[s].state \notin {"revoked", "urgent"} => live[s] = mem.slots[s].secret
PoolReplenishes == Fairness => <>[](lost \/ Replenished)

=============================================================================
