--------------------------- MODULE LeasePoolProofs ---------------------------
(***************************************************************************)
(* The lease pool's promises for any slots, grid, lifetime and window and  *)
(* any number of faults, revocations and crashes.                          *)
(*                                                                         *)
(* LeasableIsLive compares the control plane with the running sing-box,    *)
(* which no step of the agent reads together.  The invariant ties each to  *)
(* the agent's memory: what the last answer said is still so where it      *)
(* matters (Seen), what an applied state holds is installed (Applied),     *)
(* what is installed is served (Served), and what may be leased is the     *)
(* generation in memory (Active).                                          *)
(***************************************************************************)
EXTENDS LeasePool, TLAPS

Slot == [gen : Nat, until : Nat, secret : Nat, reported : BOOLEAN, revoked : BOOLEAN]
State == [slots : [Slots -> Slot], applied : BOOLEAN, last : Int]
States == {"none", "active", "leased", "revoked", "urgent"}
Gone == {"revoked", "urgent"}
CpSlot == [gen : Nat, secret : Nat, state : States, extend : Nat, until : Nat]

Typed ==
    /\ now \in Nat /\ pool \in SUBSET Slots
    /\ disk \in State /\ mem \in State
    /\ remote \in [as_of : Int, slots : [Slots -> [gen : Nat, state : States]]]
    /\ proven \in BOOLEAN /\ lost \in BOOLEAN
    /\ store \in [Slots -> Slot] /\ live \in [Slots -> Nat]
    /\ cp \in [Slots -> CpSlot]
    /\ minted \in [Slots -> Nat]

(* WithinHorizon for any state, in memory or on disk.                      *)
Horizon(st) ==
    \A s \in Slots : st.slots[s].gen > 0 =>
        st.slots[s].until % Grid = 0 /\ st.slots[s].until <= now + Lifetime

(* Only a state that this process applied is reported.                     *)
Proven == pc \in {"sync", "applied"} => proven /\ mem.applied

(* The last answer is about generations no newer than the ones in memory,  *)
(* and where it is about the current one, what it said of its end holds.   *)
SeenSlot(s) ==
    LET r == remote.slots[s]
        sl == mem.slots[s]
    IN  /\ r.gen <= sl.gen
        /\ r.gen = sl.gen /\ sl.gen > 0 =>
              /\ cp[s].gen = sl.gen
              /\ r.state \in Gone => cp[s].state \in Gone
              /\ r.state = "active" => cp[s].until = sl.until
              /\ r.state = "active" /\ remote.as_of >= sl.until - MinRemaining =>
                    cp[s].state = "active"
Seen == remote.as_of <= now /\ \A s \in pool : SeenSlot(s)

Installed(s) ==
    store[s].secret = mem.slots[s].secret /\ store[s].until = mem.slots[s].until
Applied ==
    proven /\ mem.applied =>
        \A s \in pool : Installed(s) /\ (store[s].revoked => mem.slots[s].revoked \/ lost)
Served ==
    \A s \in Slots : store[s].until > now /\ ~store[s].revoked => live[s] = store[s].secret

(* A slot marked revoked is the one the control plane revoked.             *)
RevokedKnown ==
    ~lost => \A s \in pool :
        mem.slots[s].revoked => cp[s].gen = mem.slots[s].gen /\ cp[s].state \in Gone

Same(s) ==
    /\ cp[s].gen = mem.slots[s].gen
    /\ cp[s].secret = mem.slots[s].secret
    /\ cp[s].until = mem.slots[s].until
ActiveSlot(s) ==
    /\ cp[s].gen <= mem.slots[s].gen
    /\ cp[s].state = "active" /\ cp[s].gen = mem.slots[s].gen => Same(s)
    /\ Leasable(s) => Same(s) /\ Installed(s) /\ ~store[s].revoked
Active == ~lost => \A s \in pool : ActiveSlot(s)

(* Nothing is stored for a slot without a generation, or said of one.      *)
Empty(s) == /\ cp[s].state # "none" => cp[s].gen > 0
            /\ mem.slots[s].reported => mem.slots[s].gen > 0
            /\ disk.slots[s].reported => disk.slots[s].gen > 0

IInv ==
    /\ Typed /\ Horizon(mem) /\ Horizon(disk) /\ Proven /\ Seen
    /\ Applied /\ Served /\ RevokedKnown /\ Active
    /\ \A s \in Slots : Empty(s)

-----------------------------------------------------------------------------
(* round_down_to_grid floors onto the grid.                                *)
LEMMA Rounded ==
    ASSUME NEW t \in Nat
    PROVE  /\ round_down_to_grid(t) \in Nat
           /\ round_down_to_grid(t) % Grid = 0
           /\ round_down_to_grid(t) <= t
<1>1. t \div Grid \in Nat /\ t = Grid * (t \div Grid) + (t % Grid) /\ t % Grid \in Nat
    BY LeaseAssumption
<1> DEFINE q == t \div Grid
<1>2. q * Grid \in Nat /\ q * Grid <= t
    BY <1>1, LeaseAssumption
<1>3. (q * Grid) % Grid = 0
    BY <1>1, LeaseAssumption
<1> QED BY <1>2, <1>3 DEF round_down_to_grid

(* What a plan does to a slot: it is dropped, minted or left alone.        *)
LEMMA PlanSlots ==
    ASSUME Typed, Plan
    PROVE  /\ \A s \in Slots :
                \/ s \notin pool /\ mem'.slots[s] = NoSlot
                \/ /\ s \in Minted(slots_to_rotate)
                   /\ mem'.slots[s] = mint(s, mem.slots[s].gen + 1, now)
                \/ s \in pool /\ mem'.slots[s] = mem.slots[s]
           /\ \A s \in Slots : mint(s, mem.slots[s].gen + 1, now) \in Slot
           /\ mem' \in State
           /\ mem'.applied => mem.applied /\ \A s \in pool : mem'.slots[s] = mem.slots[s]
           /\ mem'.slots = mem.slots => mem'.applied = mem.applied
<1>1. mem' = plan(slots_to_rotate)
    BY DEF Plan
<1>2. \A s \in Slots : mint(s, mem.slots[s].gen + 1, now) \in Slot
    <2> TAKE s \in Slots
    <2>1. round_down_to_grid(now + Lifetime) \in Nat
        BY Rounded, LeaseAssumption DEF Typed
    <2> QED BY <2>1 DEF mint, Typed, State, Slot
<1>3. mem'.slots \in [Slots -> Slot]
    BY <1>1, <1>2 DEF plan, NoSlot, None, Slot, Typed, State
<1>4. mem' \in State
    BY <1>1, <1>3 DEF plan, State, Typed
<1>5. ASSUME NEW s \in Slots
      PROVE  \/ s \notin pool /\ mem'.slots[s] = NoSlot
             \/ /\ s \in Minted(slots_to_rotate)
                /\ mem'.slots[s] = mint(s, mem.slots[s].gen + 1, now)
             \/ s \in pool /\ mem'.slots[s] = mem.slots[s]
    BY <1>1 DEF plan
<1>6. mem'.applied => mem.applied /\ \A s \in pool : mem'.slots[s] = mem.slots[s]
    BY Zenon, <1>1, <1>5 DEF plan, Typed
<1>7. ASSUME mem'.slots = mem.slots PROVE mem'.applied = mem.applied
    <2>1. Minted(slots_to_rotate) = {}
        <3> SUFFICES ASSUME NEW s \in Minted(slots_to_rotate) PROVE FALSE
            OBVIOUS
        <3>1. s \in pool /\ s \in Slots
            BY DEF Minted, Typed
        <3>2. mem'.slots[s] = mint(s, mem.slots[s].gen + 1, now)
            BY <1>1, <3>1 DEF plan
        <3>3. mem'.slots[s].gen = mem.slots[s].gen + 1 /\ mem.slots[s].gen \in Nat
            BY <3>1, <3>2 DEF mint, Typed, State, Slot
        <3> QED BY <3>3, <1>7
    <2>2. Held \ pool = {}
        <3> SUFFICES ASSUME NEW s \in Held \ pool PROVE FALSE
            OBVIOUS
        <3>1. mem'.slots[s] = NoSlot /\ mem.slots[s].gen > 0
            BY <1>5 DEF Held, Holds, Minted
        <3> QED BY <3>1, <1>7 DEF NoSlot
    <2> QED BY <1>1, <2>1, <2>2 DEF plan, Typed, State
<1> QED BY <1>2, <1>4, <1>5, <1>6, <1>7

(* What the control plane holds after a report.                            *)
LEMMA StoredSlots ==
    ASSUME Typed
    PROVE  /\ Stored \in [Slots -> CpSlot]
           /\ \A s \in Slots :
                /\ Stored[s].gen = mem.slots[s].gen
                /\ mem.slots[s].gen > 0 => Stored[s].until = mem.slots[s].until
                /\ mem.slots[s].gen > 0 /\ cp[s].gen = mem.slots[s].gen =>
                      Stored[s].state = cp[s].state /\ Stored[s].secret = cp[s].secret
                /\ mem.slots[s].gen > 0 /\ cp[s].gen # mem.slots[s].gen =>
                      Stored[s].state = "active" /\ Stored[s].secret = mem.slots[s].secret
                /\ mem.slots[s].gen = 0 => Stored[s].state = "none"
<1> SUFFICES ASSUME NEW s \in Slots
    PROVE  /\ Stored[s] \in CpSlot
           /\ Stored[s].gen = mem.slots[s].gen
           /\ mem.slots[s].gen > 0 => Stored[s].until = mem.slots[s].until
           /\ mem.slots[s].gen > 0 /\ cp[s].gen = mem.slots[s].gen =>
                 Stored[s].state = cp[s].state /\ Stored[s].secret = cp[s].secret
           /\ mem.slots[s].gen > 0 /\ cp[s].gen # mem.slots[s].gen =>
                 Stored[s].state = "active" /\ Stored[s].secret = mem.slots[s].secret
           /\ mem.slots[s].gen = 0 => Stored[s].state = "none"
    BY Zenon DEF Stored
<1>1. mem.slots[s] \in Slot /\ cp[s] \in CpSlot
    BY DEF Typed, State
<1>2. CASE ~Holds(mem, s)
    BY <1>1, <1>2 DEF Stored, Holds, NoLease, None, Slot, CpSlot, States
<1>3. CASE Holds(mem, s) /\ mem.slots[s].gen = cp[s].gen
    <2>1. Stored[s] = [cp[s] EXCEPT !.until = mem.slots[s].until]
        BY <1>3 DEF Stored
    <2> QED BY <1>1, <1>3, <2>1 DEF Holds, Slot, CpSlot
<1>4. CASE Holds(mem, s) /\ mem.slots[s].gen # cp[s].gen
    BY <1>1, <1>4 DEF Stored, Holds, Slot, CpSlot, States
<1> QED BY <1>2, <1>3, <1>4

(* What the tick takes from an answer: the flags, and for a leased slot a  *)
(* later end within the horizon, which the next tick has yet to apply.     *)
Answered == adopt_extensions(absorb(mem, Stored), Stored)

(* Slot by slot, against what the memory held before the answer.           *)
LEMMA AnsweredSlots ==
    ASSUME Typed
    PROVE  /\ Answered \in State
           /\ Answered.applied => mem.applied
           /\ \A s \in Slots :
                LET a == Answered.slots[s]
                    sl == mem.slots[s]
                IN  /\ a.gen = sl.gen /\ a.secret = sl.secret
                    /\ a.reported = (sl.gen > 0)
                    /\ a.revoked = (sl.gen > 0 /\ Stored[s].state \in Gone)
                    /\ \/ a.until = sl.until
                       \/ /\ Stored[s].state = "leased" /\ ~Answered.applied
                          /\ a.until % Grid = 0 /\ a.until <= now + Lifetime
<1> DEFINE st == absorb(mem, Stored)
           cap == round_down_to_grid(now + Lifetime)
           to(s) == LET t == round_down_to_grid(Stored[s].extend) IN IF t < cap THEN t ELSE cap
           extended == {s \in Slots : /\ Stored[s].gen = st.slots[s].gen
                                      /\ Stored[s].state = "leased"
                                      /\ Stored[s].extend > 0
                                      /\ st.slots[s].until > now
                                      /\ to(s) > st.slots[s].until}
<1>1. /\ st \in State /\ st.applied = mem.applied
      /\ \A s \in Slots : /\ st.slots[s].gen = mem.slots[s].gen
                           /\ st.slots[s].secret = mem.slots[s].secret
                           /\ st.slots[s].until = mem.slots[s].until
                           /\ st.slots[s].reported = (mem.slots[s].gen > 0)
                           /\ st.slots[s].revoked =
                                 (mem.slots[s].gen > 0 /\ Stored[s].state \in Gone)
    <2> DEFINE flagged(s) == [mem.slots[s] EXCEPT !.reported = (mem.slots[s].gen > 0),
                                !.revoked = (mem.slots[s].gen > 0 /\ Stored[s].state \in Gone)]
    <2>1. st = [mem EXCEPT !.slots = [s \in Slots |-> flagged(s)]]
        <3>1. \A s \in Slots : (Stored[s].gen = mem.slots[s].gen /\ Holds(mem, s)) = (mem.slots[s].gen > 0)
            BY StoredSlots DEF Holds
        <3> QED BY Zenon, <3>1 DEF absorb, Gone
    <2>2. \A s \in Slots : mem.slots[s] \in Slot
        BY DEF Typed, State
    <2>3. ASSUME NEW s \in Slots
          PROVE  /\ flagged(s) \in Slot
                 /\ flagged(s).gen = mem.slots[s].gen
                 /\ flagged(s).secret = mem.slots[s].secret
                 /\ flagged(s).until = mem.slots[s].until
                 /\ flagged(s).reported = (mem.slots[s].gen > 0)
                 /\ flagged(s).revoked = (mem.slots[s].gen > 0 /\ Stored[s].state \in Gone)
        <3>1. mem.slots[s] \in Slot /\ (mem.slots[s].gen > 0) \in BOOLEAN
            BY <2>2
        <3>2. (mem.slots[s].gen > 0 /\ Stored[s].state \in Gone) \in BOOLEAN
            OBVIOUS
        <3> QED BY Zenon, <3>1, <3>2 DEF Slot
    <2> HIDE DEF flagged, st
    <2>4. st \in State /\ st.applied = mem.applied /\ \A s \in Slots : st.slots[s] = flagged(s)
        BY <2>1, <2>3 DEF Typed, State
    <2> QED BY <2>3, <2>4
<1>2. ASSUME NEW s \in Slots
      PROVE  to(s) \in Nat /\ to(s) % Grid = 0 /\ to(s) <= now + Lifetime
    <2>1. cap \in Nat /\ cap % Grid = 0 /\ cap <= now + Lifetime
        BY Rounded, LeaseAssumption DEF Typed
    <2>2. Stored[s].extend \in Nat
        BY StoredSlots DEF CpSlot
    <2>3. /\ round_down_to_grid(Stored[s].extend) \in Nat
          /\ round_down_to_grid(Stored[s].extend) % Grid = 0
        BY <2>2, Rounded
    <2>4. now + Lifetime \in Nat
        BY LeaseAssumption DEF Typed
    <2> HIDE DEF cap
    <2> QED BY <2>1, <2>3, <2>4
<1>3. Answered = [st EXCEPT !.slots = [s \in Slots |->
                       IF s \in extended THEN [st.slots[s] EXCEPT !.until = to(s), !.revoked = FALSE]
                       ELSE st.slots[s]],
                   !.applied = @ /\ extended = {}]
    BY DEF Answered, adopt_extensions
<1>4. \A s \in extended : s \in Slots /\ Stored[s].state = "leased"
    OBVIOUS
<1> HIDE DEF st, extended, to
<1>5. Answered.applied = (st.applied /\ extended = {})
    BY <1>1, <1>3 DEF State
<1>6. ASSUME NEW s \in Slots
      PROVE  Answered.slots[s] =
                IF s \in extended THEN [st.slots[s] EXCEPT !.until = to(s), !.revoked = FALSE]
                ELSE st.slots[s]
    BY <1>1, <1>3 DEF State
<1>7. Answered \in State
    <2>1. ASSUME NEW s \in Slots
          PROVE  [st.slots[s] EXCEPT !.until = to(s), !.revoked = FALSE] \in Slot
        <3>1. st.slots[s] \in Slot
            BY <1>1 DEF State
        <3>2. to(s) \in Nat
            BY <1>2
        <3> QED BY <3>1, <3>2 DEF Slot
    <2> QED BY Zenon, <1>1, <1>3, <2>1 DEF State
<1>8. ASSUME NEW s \in Slots
      PROVE  LET a == Answered.slots[s]
                 sl == mem.slots[s]
             IN  /\ a.gen = sl.gen /\ a.secret = sl.secret
                 /\ a.reported = (sl.gen > 0)
                 /\ a.revoked = (sl.gen > 0 /\ Stored[s].state \in Gone)
                 /\ \/ a.until = sl.until
                    \/ /\ Stored[s].state = "leased" /\ ~Answered.applied
                       /\ a.until % Grid = 0 /\ a.until <= now + Lifetime
    <2>1. CASE s \in extended
        <3>1. st.slots[s] \in Slot
            BY <1>1 DEF State
        <3>2. Answered.slots[s] = [st.slots[s] EXCEPT !.until = to(s), !.revoked = FALSE]
            BY Zenon, <1>6, <2>1
        <3>3. /\ Answered.slots[s].gen = mem.slots[s].gen
              /\ Answered.slots[s].secret = mem.slots[s].secret
              /\ Answered.slots[s].reported = (mem.slots[s].gen > 0)
              /\ Answered.slots[s].revoked = FALSE
              /\ Answered.slots[s].until = to(s)
            BY <1>1, <3>1, <3>2 DEF Slot
        <3>4. ~Answered.applied /\ Stored[s].state = "leased"
            BY Zenon, <1>4, <1>5, <2>1
        <3> QED BY Zenon, <3>3, <3>4, <1>2 DEF Gone
    <2>2. CASE s \notin extended
        BY Zenon, <1>1, <1>6, <2>2
    <2> QED BY <2>1, <2>2
<1> QED BY Zenon, <1>1, <1>5, <1>7, <1>8

-----------------------------------------------------------------------------
(* The numbers and flags of a slot.                                        *)
LEMMA Types ==
    ASSUME Typed, NEW s \in Slots
    PROVE  /\ mem.slots[s] \in Slot /\ disk.slots[s] \in Slot /\ store[s] \in Slot
           /\ cp[s] \in CpSlot
           /\ mem.slots[s].gen \in Nat /\ mem.slots[s].until \in Nat
           /\ cp[s].gen \in Nat /\ cp[s].until \in Nat /\ store[s].until \in Nat
           /\ remote.slots[s].gen \in Nat /\ remote.as_of \in Int
           /\ now \in Nat /\ MinRemaining \in Nat
BY LeaseAssumption DEF Typed, State, Slot, CpSlot

(* Why a plan replaces a slot: it has none, it ran out, it was never       *)
(* reported in time, or the control plane no longer leases it out.         *)
LEMMA Replaced ==
    ASSUME IInv, NEW s \in Minted(slots_to_rotate)
    PROVE  \/ mem.slots[s].gen = 0
           \/ mem.slots[s].until <= now
           \/ ~mem.slots[s].reported /\ now >= mem.slots[s].until - MinRemaining
           \/ cp[s].gen = mem.slots[s].gen /\ cp[s].state \in Gone
           \/ /\ cp[s].gen = mem.slots[s].gen /\ cp[s].state = "active"
              /\ cp[s].until = mem.slots[s].until
              /\ now >= mem.slots[s].until - MinRemaining
<1> DEFINE sl == mem.slots[s]
           r == remote.slots[s]
<1>1. s \in pool /\ s \in Slots
    BY DEF Minted, IInv, Typed
<1>2. SeenSlot(s) /\ remote.as_of <= now
    BY <1>1 DEF IInv, Seen
<1>3. /\ sl.gen \in Nat /\ sl.until \in Nat /\ now \in Nat /\ remote.as_of \in Int
      /\ MinRemaining \in Nat
    BY <1>1, Types DEF IInv
<1>4. \/ sl.gen = 0 \/ Expired(sl) \/ Unleasable(sl)
      \/ r.gen = sl.gen /\ r.state \in Gone
      \/ r.gen = sl.gen /\ r.state = "active" /\ remote.as_of >= sl.until - MinRemaining
    <2>1. ~Holds(mem, s) \/ s \in rotation_candidates
        BY <1>1 DEF Minted, slots_to_rotate
    <2>2. CASE ~Holds(mem, s)
        BY <2>2, <1>3 DEF Holds
    <2>3. CASE s \in rotation_candidates
        BY <2>3 DEF rotation_candidates, Forced, Urgent, Deferrable, Gone
    <2> QED BY <2>1, <2>2, <2>3
<1>5. CASE sl.gen = 0 \/ Expired(sl) \/ Unleasable(sl)
    BY <1>5 DEF Expired, Unleasable
<1>6. CASE sl.gen # 0 /\ r.gen = sl.gen /\ r.state \in Gone
    BY <1>2, <1>3, <1>6 DEF SeenSlot
<1>7. CASE /\ sl.gen # 0 /\ r.gen = sl.gen /\ r.state = "active"
           /\ remote.as_of >= sl.until - MinRemaining
    BY <1>2, <1>3, <1>7 DEF SeenSlot
<1> QED BY <1>4, <1>5, <1>6, <1>7

(* A plan replaces only what may no longer be leased; the rest stays.      *)
LEMMA PlanStep == ASSUME IInv, Plan PROVE IInv'
<1> DEFINE rotate == slots_to_rotate
           new(s) == mint(s, mem.slots[s].gen + 1, now)
<1>1. Typed /\ pool' = pool /\ now' = now /\ cp' = cp /\ store' = store /\ live' = live
      /\ remote' = remote /\ proven' = proven /\ lost' = lost
    BY DEF Plan, IInv, node
<1>2. disk' \in {disk, mem'} /\ pool \subseteq Slots
    BY Zenon, <1>1 DEF Plan, save_state, Typed
<1>3. Typed'
    <2>1. mem' \in State
        BY <1>1, PlanSlots
    <2>2. minted' \in [Slots -> Nat]
        BY <1>1 DEF Plan, Typed
    <2> QED BY <1>1, <1>2, <2>1, <2>2 DEF Typed
<1>4. ASSUME NEW s \in Slots
      PROVE  /\ new(s).gen = mem.slots[s].gen + 1 /\ new(s).gen \in Nat
             /\ new(s).until % Grid = 0 /\ new(s).until <= now + Lifetime
             /\ new(s).reported = FALSE /\ new(s).revoked = FALSE
    <2>1. now + Lifetime \in Nat
        BY <1>1, LeaseAssumption DEF Typed
    <2> QED BY <1>1, <2>1, Rounded, Types DEF mint
<1>5. ASSUME NEW s \in Slots
      PROVE  \/ s \notin pool /\ mem'.slots[s] = NoSlot
             \/ s \in Minted(rotate) /\ s \in pool /\ mem'.slots[s] = new(s)
             \/ s \in pool /\ mem'.slots[s] = mem.slots[s]
    BY <1>1, PlanSlots DEF Minted
<1> HIDE DEF new, rotate
<1>6. Horizon(mem)' /\ Horizon(disk)'
    <2>1. ASSUME NEW s \in Slots, mem'.slots[s].gen > 0
          PROVE  mem'.slots[s].until % Grid = 0 /\ mem'.slots[s].until <= now + Lifetime
        <3>1. CASE mem'.slots[s] = NoSlot
            BY <2>1, <3>1 DEF NoSlot
        <3>2. CASE mem'.slots[s] = new(s)
            BY Zenon, <1>4, <3>2
        <3>3. CASE mem'.slots[s] = mem.slots[s]
            BY <2>1, <3>3 DEF IInv, Horizon
        <3> QED BY <1>5, <3>1, <3>2, <3>3
    <2>2. Horizon(disk)
        BY DEF IInv
    <2>3. Horizon(mem)'
        BY <1>1, <2>1 DEF Horizon
    <2>4. CASE disk' = disk
        BY <1>1, <2>2, <2>3, <2>4 DEF Horizon
    <2>5. CASE disk' = mem'
        BY <2>3, <2>5 DEF Horizon
    <2> QED BY <1>2, <2>3, <2>4, <2>5
<1>7. Proven'
    <2>1. pc' \in {"sync", "applied"} => mem'.slots = mem.slots /\ mem.applied /\ proven
        BY DEF Plan, save_state, Ended
    <2> QED BY <1>1, <2>1, PlanSlots DEF Proven
<1>8. Seen'
    <2>1. ASSUME NEW s \in pool PROVE SeenSlot(s)'
        <3>1. SeenSlot(s) /\ s \in Slots
            BY <1>2 DEF IInv, Seen
        <3>2. CASE mem'.slots[s] = mem.slots[s]
            BY <1>1, <3>1, <3>2 DEF SeenSlot
        <3>3. CASE mem'.slots[s] = new(s)
            <4>1. remote.slots[s].gen <= mem.slots[s].gen
                BY <3>1 DEF SeenSlot
            <4>2. remote.slots[s].gen \in Nat /\ mem.slots[s].gen \in Nat
                BY <1>1, <3>1, Types
            <4>3. mem'.slots[s].gen = mem.slots[s].gen + 1
                BY Zenon, <1>4, <3>1, <3>3
            <4> QED BY <1>1, <4>1, <4>2, <4>3 DEF SeenSlot
        <3> QED BY <1>5, <3>1, <3>2, <3>3
    <2> QED BY <1>1, <2>1 DEF IInv, Seen
<1>9. Applied'
    BY <1>1, PlanSlots DEF IInv, Applied, Installed
<1>10. Served'
    BY <1>1 DEF IInv, Served
<1>11. RevokedKnown'
    BY Zenon, <1>1, <1>2, <1>4, <1>5 DEF IInv, RevokedKnown
<1>12. Active'
    <2> SUFFICES ASSUME ~lost, NEW s \in pool PROVE ActiveSlot(s)'
        BY <1>1 DEF Active
    <2>1. ActiveSlot(s) /\ s \in Slots
        BY <1>2 DEF IInv, Active
    <2>2. CASE mem'.slots[s] = mem.slots[s]
        BY <1>1, <2>1, <2>2 DEF ActiveSlot, Same, Installed, Leasable
    <2>3. CASE s \in Minted(rotate) /\ mem'.slots[s] = new(s)
        <3>1. cp[s].gen <= mem.slots[s].gen /\ mem'.slots[s].gen = mem.slots[s].gen + 1
            BY Zenon, <1>4, <2>1, <2>3 DEF ActiveSlot
        <3>2. cp[s].gen < mem'.slots[s].gen /\ cp[s].gen \in Nat /\ mem'.slots[s].gen \in Nat
            BY <1>1, <2>1, <3>1, Types
        <3>3. ~Leasable(s)
            <4> SUFFICES ASSUME Leasable(s) PROVE FALSE
                OBVIOUS
            <4>1. Same(s) /\ cp[s].gen > 0 /\ cp[s].state = "active"
                BY <2>1 DEF ActiveSlot, Leasable, IInv, Empty
            <4>2. now < mem.slots[s].until - MinRemaining
                BY <4>1 DEF Same, Leasable
            <4> QED BY <1>1, <2>1, <2>3, <4>1, <4>2, Replaced, Types DEF Same, Gone, rotate
        <3> QED BY <1>1, <3>2, <3>3 DEF ActiveSlot, Leasable
    <2> QED BY <1>5, <2>1, <2>2, <2>3
<1>13. \A s \in Slots : Empty(s)'
    <2>1. ASSUME NEW s \in Slots PROVE mem'.slots[s].reported => mem'.slots[s].gen > 0
        <3>1. CASE mem'.slots[s] = NoSlot
            BY <3>1 DEF NoSlot
        <3>2. CASE mem'.slots[s] = new(s)
            BY Zenon, <1>4, <3>2
        <3>3. CASE mem'.slots[s] = mem.slots[s]
            BY <3>3 DEF IInv, Empty
        <3> QED BY <1>5, <3>1, <3>2, <3>3
    <2> QED BY <1>1, <1>2, <2>1 DEF IInv, Empty
<1> QED BY <1>3, <1>6, <1>7, <1>8, <1>9, <1>10, <1>11, <1>12, <1>13 DEF IInv

(* An apply, whether it answers or not: what it installs is the state in   *)
(* memory, in which nothing that may be leased is revoked.                 *)
LEMMA ApplyStep == ASSUME IInv, Apply \/ ApplyFails PROVE IInv'
<1>1. /\ pool' = pool /\ now' = now /\ cp' = cp /\ remote' = remote /\ lost' = lost
      /\ disk' = disk /\ minted' = minted
    BY Zenon DEF Apply, ApplyFails
<1>2. Typed /\ pool \subseteq Slots
    BY DEF IInv, Typed
<1>3. mem' \in State /\ mem'.slots = mem.slots
    BY Zenon, <1>2 DEF Apply, ApplyFails, Typed, State
<1>4. \/ store' = mem.slots /\ live' = Rendered(mem.slots)
      \/ store' = store /\ live' = live /\ mem' = mem /\ proven' = proven
    BY Zenon DEF Apply, ApplyFails, Install, node
<1>5. Typed'
    <2>1. Rendered(mem.slots) \in [Slots -> Nat]
        BY <1>2 DEF Rendered, None, Typed, State, Slot
    <2>2. store' \in [Slots -> Slot] /\ live' \in [Slots -> Nat]
        BY <1>2, <1>4, <2>1 DEF Typed, State
    <2>3. proven' \in BOOLEAN
        BY Zenon, <1>2 DEF Apply, ApplyFails, Typed
    <2> QED BY <1>1, <1>2, <1>3, <2>2, <2>3 DEF Typed
<1>6. Horizon(mem)' /\ Horizon(disk)'
    BY <1>1, <1>3 DEF IInv, Horizon
<1>7. Proven'
    BY <1>2 DEF Apply, ApplyFails, Ended, Proven, Typed, State
<1>8. Seen'
    BY <1>1, <1>3 DEF IInv, Seen, SeenSlot
<1>9. Applied'
    <2>1. CASE store' = mem.slots
        BY <1>1, <1>3, <2>1 DEF Applied, Installed
    <2>2. CASE store' = store /\ live' = live /\ mem' = mem /\ proven' = proven
        BY <1>1, <2>2 DEF IInv, Applied, Installed
    <2> QED BY <1>4, <2>1, <2>2
<1>10. Served'
    <2>1. CASE store' = mem.slots /\ live' = Rendered(mem.slots)
        BY <1>1, <1>2, <2>1, Types DEF Served, Rendered
    <2>2. CASE store' = store /\ live' = live
        BY <1>1, <2>2 DEF IInv, Served
    <2> QED BY <1>4, <2>1, <2>2
<1>11. RevokedKnown'
    BY <1>1, <1>3 DEF IInv, RevokedKnown
<1>12. Active'
    <2> SUFFICES ASSUME ~lost, NEW s \in pool PROVE ActiveSlot(s)'
        BY <1>1 DEF Active
    <2>1. ActiveSlot(s)
        BY DEF IInv, Active
    <2>2. ASSUME Leasable(s) PROVE ~mem.slots[s].revoked
        BY <2>2 DEF IInv, RevokedKnown, Leasable, Gone
    <2>3. CASE store' = mem.slots
        BY <1>1, <1>3, <2>1, <2>2, <2>3 DEF ActiveSlot, Same, Installed, Leasable
    <2>4. CASE store' = store
        BY <1>1, <1>3, <2>1, <2>4 DEF ActiveSlot, Same, Installed, Leasable
    <2> QED BY <1>4, <2>3, <2>4
<1>13. \A s \in Slots : Empty(s)'
    BY <1>1, <1>3 DEF IInv, Empty
<1> QED BY <1>5, <1>6, <1>7, <1>8, <1>9, <1>10, <1>11, <1>12, <1>13 DEF IInv

(* Saving what was applied, and a tick that has nothing to report.         *)
LEMMA SaveStep == ASSUME IInv, SaveApplied \/ SkipSync PROVE IInv'
<1>1. /\ pool' = pool /\ now' = now /\ cp' = cp /\ remote' = remote /\ lost' = lost
      /\ mem' = mem /\ minted' = minted /\ store' = store /\ live' = live /\ proven' = proven
    BY Zenon DEF SaveApplied, SkipSync, node
<1>2. disk' \in {disk, mem}
    BY Zenon DEF SaveApplied, SkipSync, save_state
<1>3. Typed' /\ Horizon(mem)' /\ Horizon(disk)' /\ \A s \in Slots : Empty(s)'
    BY <1>1, <1>2 DEF IInv, Typed, Horizon, Empty
<1>4. Proven'
    BY <1>1 DEF IInv, Proven, SaveApplied, SkipSync, Ended, save_state
<1>5. Seen' /\ Applied' /\ Served' /\ RevokedKnown'
    BY <1>1 DEF IInv, Seen, SeenSlot, Applied, Installed, Served, RevokedKnown
<1>6. Active'
    BY <1>1 DEF IInv, Active, ActiveSlot, Same, Installed, Leasable
<1> QED BY <1>3, <1>4, <1>5, <1>6 DEF IInv

-----------------------------------------------------------------------------
(* What a report makes leasable was applied and is served: the tick        *)
(* reports nothing it has not applied.                                     *)
LEMMA Reported ==
    ASSUME IInv, pc = "sync", ~lost, NEW s \in pool, Stored[s].state = "active"
    PROVE  /\ Stored[s].gen = mem.slots[s].gen
           /\ Stored[s].secret = mem.slots[s].secret
           /\ Stored[s].until = mem.slots[s].until
           /\ Installed(s) /\ ~store[s].revoked
<1>1. Typed /\ s \in Slots /\ mem.slots[s].gen \in Nat
    BY Types DEF IInv, Typed
<1>2. mem.slots[s].gen > 0
    BY SMTT(30), <1>1, StoredSlots
<1>3. Stored[s].secret = mem.slots[s].secret
    <2>1. CASE cp[s].gen = mem.slots[s].gen
        <3>1. cp[s].state = "active" /\ Stored[s].secret = cp[s].secret
            BY <1>1, <1>2, <2>1, StoredSlots
        <3> QED BY <2>1, <3>1 DEF IInv, Active, ActiveSlot, Same
    <2>2. CASE cp[s].gen # mem.slots[s].gen
        BY <1>1, <1>2, <2>2, StoredSlots
    <2> QED BY <2>1, <2>2
<1>4. Installed(s) /\ (store[s].revoked => mem.slots[s].revoked)
    BY DEF IInv, Proven, Applied
<1>5. ~mem.slots[s].revoked
    <2> SUFFICES ASSUME mem.slots[s].revoked PROVE FALSE
        OBVIOUS
    <2>1. cp[s].gen = mem.slots[s].gen /\ cp[s].state \in Gone
        BY DEF IInv, RevokedKnown
    <2> QED BY <1>1, <1>2, <2>1, StoredSlots DEF Gone
<1> QED BY <1>1, <1>2, <1>3, <1>4, <1>5, StoredSlots

(* A slot known to be revoked stays so at the control plane.               *)
LEMMA StaysRevoked ==
    ASSUME IInv, ~lost, NEW s \in pool, mem.slots[s].revoked
    PROVE  mem.slots[s].gen > 0 /\ Stored[s].state \in Gone
<1>1. Typed /\ s \in Slots /\ cp[s].gen = mem.slots[s].gen /\ cp[s].state \in Gone
    BY DEF IInv, Typed, RevokedKnown
<1>2. mem.slots[s].gen > 0
    BY <1>1 DEF IInv, Empty, Gone
<1> QED BY <1>1, <1>2, StoredSlots

(* A sync: the answer says what the control plane now has of the state in  *)
(* memory, and a slot that may be leased is not touched.                   *)
LEMMA SyncStep == ASSUME IInv, Sync PROVE IInv'
<1>1. /\ pool' = pool /\ now' = now /\ lost' = lost /\ minted' = minted
      /\ store' = store /\ live' = live /\ proven' = proven
      /\ pc = "sync" /\ cp' = Stored /\ remote' = View(Stored) /\ mem' = Answered
      /\ disk' \in {disk, mem'} /\ pc' = "idle"
    BY DEF Sync, node, Answered, Ended
<1>2. Typed /\ pool \subseteq Slots
    BY DEF IInv, Typed
<1>3. \A s \in Slots :
        /\ remote'.slots[s].gen = mem.slots[s].gen
        /\ remote'.slots[s].state = Stored[s].state
    BY <1>1, <1>2, StoredSlots DEF View
<1>4. Typed'
    <2>1. remote' \in [as_of : Int, slots : [Slots -> [gen : Nat, state : States]]]
        BY SMTT(30), <1>1, <1>2, StoredSlots DEF View, CpSlot, Typed
    <2>2. cp' \in [Slots -> CpSlot] /\ mem' \in State
        BY <1>1, <1>2, StoredSlots, AnsweredSlots
    <2> QED BY <1>1, <1>2, <2>1, <2>2 DEF Typed
<1>5. Horizon(mem)'
    BY <1>1, <1>2, AnsweredSlots DEF IInv, Horizon
<1>6. Horizon(disk)'
    <2>1. CASE disk' = disk
        BY <1>1, <2>1 DEF IInv, Horizon
    <2>2. CASE disk' = mem'
        BY <1>5, <2>2 DEF Horizon
    <2> QED BY <1>1, <2>1, <2>2
<1>7. Proven'
    BY <1>1 DEF Proven
<1>8. Seen'
    <2>1. ASSUME NEW s \in pool PROVE SeenSlot(s)'
        <3>1. s \in Slots /\ mem.slots[s].gen \in Nat
            BY <1>2, Types
        <3>2. mem'.slots[s].gen = mem.slots[s].gen /\ cp'[s].gen = mem.slots[s].gen
            BY <1>1, <1>2, <3>1, StoredSlots, AnsweredSlots
        <3>3. ASSUME mem.slots[s].gen > 0, Stored[s].state = "active"
              PROVE  cp'[s].until = mem'.slots[s].until
            BY <1>1, <1>2, <3>1, <3>3, StoredSlots, AnsweredSlots
        <3> QED BY SMTT(30), <1>1, <1>3, <3>1, <3>2, <3>3 DEF SeenSlot
    <2>2. remote'.as_of <= now'
        BY <1>1, <1>2 DEF View, Typed
    <2> QED BY <1>1, <2>1, <2>2 DEF Seen
<1>9. Applied'
    <2> SUFFICES ASSUME proven, mem'.applied, NEW s \in pool
                 PROVE  Installed(s)' /\ (store[s].revoked => mem'.slots[s].revoked \/ lost)
        BY <1>1 DEF Applied
    <2>1. s \in Slots /\ mem.applied /\ mem'.slots[s].until = mem.slots[s].until
        BY <1>1, <1>2, AnsweredSlots
    <2>2. Installed(s) /\ (store[s].revoked => mem.slots[s].revoked \/ lost)
        BY <2>1 DEF IInv, Applied
    <2>3. Installed(s)'
        BY <1>1, <1>2, <2>1, <2>2, AnsweredSlots DEF Installed
    <2>4. ASSUME mem.slots[s].revoked, ~lost PROVE mem'.slots[s].revoked
        BY Zenon, <1>1, <1>2, <2>1, <2>4, StaysRevoked, AnsweredSlots
    <2> QED BY <2>2, <2>3, <2>4
<1>10. Served'
    BY <1>1 DEF IInv, Served
<1>11. RevokedKnown'
    <2> SUFFICES ASSUME NEW s \in pool, mem'.slots[s].revoked
                 PROVE  cp'[s].gen = mem'.slots[s].gen /\ cp'[s].state \in Gone
        BY <1>1 DEF RevokedKnown
    <2> QED BY Zenon, <1>1, <1>2, StoredSlots, AnsweredSlots
<1>12. Active'
    <2> SUFFICES ASSUME ~lost, NEW s \in pool PROVE ActiveSlot(s)'
        BY <1>1 DEF Active
    <2>1. s \in Slots /\ cp'[s].gen = mem'.slots[s].gen /\ mem'.slots[s].gen \in Nat
        BY <1>1, <1>2, StoredSlots, AnsweredSlots, Types
    <2>2. CASE Stored[s].state = "active"
        <3>1. mem'.slots[s].until = mem.slots[s].until /\ mem'.slots[s].secret = mem.slots[s].secret
            BY <1>1, <1>2, <2>1, <2>2, AnsweredSlots
        <3>2. Same(s)' /\ Installed(s)' /\ ~store'[s].revoked
            BY <1>1, <2>1, <2>2, <3>1, Reported DEF Same, Installed
        <3> QED BY SMTT(30), <2>1, <3>2 DEF ActiveSlot
    <2>3. CASE Stored[s].state # "active"
        BY SMTT(30), <1>1, <2>1, <2>3 DEF ActiveSlot, Leasable
    <2> QED BY <2>2, <2>3
<1>13. \A s \in Slots : Empty(s)'
    <2>1. ASSUME NEW s \in Slots
          PROVE  /\ cp'[s].state # "none" => cp'[s].gen > 0
                 /\ mem'.slots[s].reported => mem'.slots[s].gen > 0
        <3>1. mem.slots[s].gen \in Nat
            BY <1>2, Types
        <3>2. cp'[s].gen = mem.slots[s].gen /\ (mem.slots[s].gen = 0 => cp'[s].state = "none")
            BY <1>1, <1>2, StoredSlots
        <3>3. /\ mem'.slots[s].gen = mem.slots[s].gen
              /\ mem'.slots[s].reported = (mem.slots[s].gen > 0)
            BY <1>1, <1>2, AnsweredSlots
        <3>4. mem'.slots[s].reported => mem.slots[s].gen > 0
            BY <3>3, Zenon
        <3> QED BY <3>1, <3>2, <3>3, <3>4
    <2> QED BY <1>1, <2>1 DEF IInv, Empty
<1> QED BY <1>4, <1>5, <1>6, <1>7, <1>8, <1>9, <1>10, <1>11, <1>12, <1>13 DEF IInv

(* A sync without an answer may have been stored; the control plane then   *)
(* has the generations in memory and keeps what it said of the ones it     *)
(* had.                                                                    *)
LEMMA SyncFailsStep == ASSUME IInv, SyncFails PROVE IInv'
<1>1. /\ pool' = pool /\ now' = now /\ lost' = lost /\ minted' = minted
      /\ store' = store /\ live' = live /\ proven' = proven
      /\ disk' = disk /\ mem' = mem /\ remote' = remote
      /\ pc = "sync" /\ cp' \in {Stored, cp} /\ pc' = "idle"
    BY DEF SyncFails, node, Ended
<1>2. Typed /\ pool \subseteq Slots
    BY DEF IInv, Typed
<1>3. Typed' /\ Horizon(mem)' /\ Horizon(disk)' /\ Proven'
    BY <1>1, <1>2, StoredSlots DEF IInv, Typed, Horizon, Proven
<1>4. Seen'
    <2>1. ASSUME NEW s \in pool PROVE SeenSlot(s)'
        <3>1. s \in Slots /\ SeenSlot(s)
            BY <1>2 DEF IInv, Seen
        <3>2. CASE cp' = cp
            BY <1>1, <3>1, <3>2 DEF SeenSlot
        <3>3. CASE cp' = Stored
            BY <1>1, <1>2, <3>1, <3>3, StoredSlots DEF SeenSlot
        <3> QED BY <1>1, <3>2, <3>3
    <2> QED BY <1>1, <2>1 DEF IInv, Seen
<1>5. Applied' /\ Served'
    BY Zenon, <1>1 DEF IInv, Applied, Installed, Served
<1>6. RevokedKnown'
    <2> SUFFICES ASSUME ~lost, NEW s \in pool, mem.slots[s].revoked
                 PROVE  cp'[s].gen = mem.slots[s].gen /\ cp'[s].state \in Gone
        BY <1>1 DEF RevokedKnown
    <2>1. CASE cp' = cp
        BY <2>1 DEF IInv, RevokedKnown
    <2>2. CASE cp' = Stored
        BY <1>2, <2>2, StoredSlots, StaysRevoked
    <2> QED BY <1>1, <2>1, <2>2
<1>7. Active'
    <2> SUFFICES ASSUME ~lost, NEW s \in pool PROVE ActiveSlot(s)'
        BY <1>1 DEF Active
    <2>1. CASE cp' = cp
        BY <1>1, <2>1 DEF IInv, Active, ActiveSlot, Same, Installed, Leasable
    <2>2. CASE cp' = Stored
        <3>1. s \in Slots /\ cp'[s].gen = mem'.slots[s].gen /\ mem'.slots[s].gen \in Nat
            BY <1>1, <1>2, <2>2, StoredSlots, Types
        <3>2. CASE Stored[s].state = "active"
            <4>1. Same(s)' /\ Installed(s)' /\ ~store'[s].revoked
                BY <1>1, <2>2, <3>2, Reported DEF Same, Installed
            <4> QED BY SMTT(30), <3>1, <4>1 DEF ActiveSlot
        <3>3. CASE Stored[s].state # "active"
            BY SMTT(30), <1>1, <2>2, <3>1, <3>3 DEF ActiveSlot, Leasable
        <3> QED BY <3>2, <3>3
    <2> QED BY <1>1, <2>1, <2>2
<1>8. \A s \in Slots : Empty(s)'
    <2>1. ASSUME NEW s \in Slots PROVE cp'[s].state # "none" => cp'[s].gen > 0
        <3>1. mem.slots[s].gen \in Nat
            BY <1>2, Types
        <3>2. CASE cp' = cp
            BY <3>2 DEF IInv, Empty
        <3>3. CASE cp' = Stored
            BY <1>2, <3>1, <3>3, StoredSlots
        <3> QED BY <1>1, <3>2, <3>3
    <2> QED BY <1>1, <2>1 DEF IInv, Empty
<1> QED BY <1>3, <1>4, <1>5, <1>6, <1>7, <1>8 DEF IInv

(* The control plane leases only what the last answer did not call at its  *)
(* end, and a generation never becomes active again.                       *)
LEMMA ControlPlaneStep == ASSUME IInv, ControlPlane PROVE IInv'
<1>1. PICK x \in Slots : Lease(x) \/ Renew(x) \/ Revoke(x)
    BY DEF ControlPlane
<1>2. /\ pool' = pool /\ now' = now /\ lost' = lost /\ minted' = minted
      /\ store' = store /\ live' = live /\ proven' = proven /\ pc' = pc
      /\ disk' = disk /\ mem' = mem /\ remote' = remote
    BY DEF ControlPlane, node, state
<1>3. Typed /\ pool \subseteq Slots /\ cp[x] \in CpSlot
    BY DEF IInv, Typed
<1>4. round_down_to_grid(now + Lifetime) + Grid \in Nat
    <2>1. now + Lifetime \in Nat /\ Grid \in Nat
        BY <1>3, LeaseAssumption DEF Typed
    <2> QED BY <2>1, Rounded
<1>5. cp' \in [Slots -> CpSlot]
    <2>1. CASE Lease(x)
        BY <1>3, <2>1 DEF Lease, Typed, CpSlot, States
    <2>2. CASE Renew(x)
        BY <1>3, <1>4, <2>2 DEF Renew, Typed, CpSlot
    <2>3. CASE Revoke(x)
        <3>1. PICK v \in {"revoked", "urgent"} : cp' = [cp EXCEPT ![x].state = v, ![x].extend = 0]
            BY Zenon, <2>3 DEF Revoke
        <3>2. [[cp[x] EXCEPT !.state = v] EXCEPT !.extend = 0] \in CpSlot
            BY Zenon, <1>3 DEF CpSlot, States
        <3>3. cp' = [cp EXCEPT ![x] = [[cp[x] EXCEPT !.state = v] EXCEPT !.extend = 0]]
            BY Zenon, <1>3, <3>1 DEF Typed
        <3> QED BY <1>3, <3>2, <3>3 DEF Typed
    <2> QED BY <1>1, <2>1, <2>2, <2>3
<1>6. ASSUME NEW s \in Slots
      PROVE  /\ cp'[s].gen = cp[s].gen /\ cp'[s].secret = cp[s].secret
             /\ cp'[s].until = cp[s].until
             /\ \/ cp'[s].state = cp[s].state
                \/ Leasable(s) /\ cp'[s].state = "leased"
                \/ cp[s].state = "leased" /\ cp'[s].state \in Gone
    <2>1. cp[s] \in CpSlot
        BY <1>3, Types
    <2>2. CASE Lease(x)
        BY <1>3, <2>1, <2>2 DEF Lease, Typed, CpSlot
    <2>3. CASE Renew(x)
        BY <1>3, <2>1, <2>3 DEF Renew, Typed, CpSlot
    <2>4. CASE Revoke(x)
        BY <1>3, <2>1, <2>4 DEF Revoke, Typed, CpSlot, Gone
    <2> QED BY <1>1, <2>2, <2>3, <2>4
<1>7. Typed' /\ Horizon(mem)' /\ Horizon(disk)' /\ Proven'
    BY <1>2, <1>3, <1>5 DEF IInv, Typed, Horizon, Proven
<1>8. Seen'
    <2>1. ASSUME NEW s \in pool PROVE SeenSlot(s)'
        <3>1. s \in Slots /\ SeenSlot(s) /\ remote.as_of <= now
            BY <1>3 DEF IInv, Seen
        <3>2. ASSUME cp[s].until = mem.slots[s].until,
                     remote.as_of >= mem.slots[s].until - MinRemaining
              PROVE  ~Leasable(s)
            BY SMTT(30), <1>3, <3>1, <3>2, Types DEF Leasable
        <3> QED BY Zenon, <1>2, <1>6, <3>1, <3>2 DEF SeenSlot, Leasable, Gone
    <2> QED BY <1>2, <2>1 DEF IInv, Seen
<1>9. Applied' /\ Served'
    BY <1>2 DEF IInv, Applied, Installed, Served
<1>10. RevokedKnown'
    BY SMTT(30), <1>2, <1>3, <1>6 DEF IInv, RevokedKnown, Leasable, Gone
<1>11. Active'
    BY SMTT(30), <1>2, <1>3, <1>6 DEF IInv, Active, ActiveSlot, Same, Installed, Leasable, Gone
<1>12. \A s \in Slots : Empty(s)'
    BY Zenon, <1>2, <1>6 DEF IInv, Empty, Leasable
<1> QED BY <1>7, <1>8, <1>9, <1>10, <1>11, <1>12 DEF IInv

(* The clock moves on, and the expiry timer renders what is in the store:  *)
(* what may still be leased is neither revoked nor expired there.          *)
LEMMA TimeStep == ASSUME IInv, Reconcile \/ Tick PROVE IInv'
<1>1. /\ pool' = pool /\ lost' = lost /\ minted' = minted /\ cp' = cp
      /\ store' = store /\ proven' = proven /\ pc' = pc
      /\ disk' = disk /\ mem' = mem /\ remote' = remote
    BY DEF Reconcile, Tick, node, state
<1>2. Typed /\ pool \subseteq Slots
    BY DEF IInv, Typed
<1>3. \/ now' = now /\ live' = Rendered(store)
      \/ now' = now + 1 /\ live' = live
    BY DEF Reconcile, Tick, node
<1>4. now' \in Nat /\ now <= now' /\ now \in Nat
    BY <1>2, <1>3 DEF Typed
<1>5. Typed'
    <2>1. Rendered(store) \in [Slots -> Nat]
        BY <1>2 DEF Rendered, None, Typed, Slot
    <2> QED BY <1>1, <1>2, <1>3, <1>4, <2>1 DEF Typed
<1>6. Horizon(mem)' /\ Horizon(disk)'
    <2>1. \A s \in Slots : mem.slots[s].until \in Nat /\ disk.slots[s].until \in Nat
        BY <1>2, Types DEF Slot
    <2> QED BY SMTT(30), <1>1, <1>4, <2>1, LeaseAssumption DEF IInv, Horizon
<1>7. Proven' /\ Applied' /\ RevokedKnown' /\ \A s \in Slots : Empty(s)'
    BY <1>1 DEF IInv, Proven, Applied, Installed, RevokedKnown, Empty
<1>8. Seen'
    <2>1. remote.as_of <= now'
        BY <1>2, <1>4 DEF IInv, Seen, Typed
    <2> QED BY <1>1, <2>1 DEF IInv, Seen, SeenSlot
<1>9. Served'
    <2>1. CASE now' = now /\ live' = Rendered(store)
        BY <1>1, <1>2, <2>1, Types DEF Served, Rendered
    <2>2. CASE now' = now + 1 /\ live' = live
        BY SMTT(30), <1>1, <1>2, <1>4, <2>2, Types DEF IInv, Served
    <2> QED BY <1>3, <2>1, <2>2
<1>10. Active'
    <2> SUFFICES ASSUME ~lost, NEW s \in pool PROVE ActiveSlot(s)'
        BY <1>1 DEF Active
    <2>1. Leasable(s)' => Leasable(s)
        BY SMTT(30), <1>1, <1>2, <1>4, Types DEF Leasable
    <2> QED BY Zenon, <1>1, <2>1 DEF IInv, Active, ActiveSlot, Same, Installed
<1> QED BY <1>5, <1>6, <1>7, <1>8, <1>9, <1>10 DEF IInv

(* A restart forgets the answer and what was proven; without a refused     *)
(* save before it, the slots are the same.                                 *)
LEMMA RestartStep == ASSUME IInv, Restart PROVE IInv'
<1>1. /\ minted' = minted /\ cp' = cp /\ store' = store /\ live' = live /\ now' = now
      /\ disk' = disk /\ mem' = disk /\ remote' = NoRemote /\ proven' = FALSE /\ pc' = "idle"
      /\ pool' \in Pools /\ pool' \subseteq pool
      /\ lost' = (lost \/ disk.slots /= mem.slots)
    BY DEF Restart, node, Ended
<1>2. Typed /\ pool \subseteq Slots /\ pool' \subseteq Slots
    BY <1>1 DEF IInv, Typed
<1>3. ~lost' => ~lost /\ mem'.slots = mem.slots
    BY Zenon, <1>1
<1>4. Typed'
    <2>1. remote' \in [as_of : Int, slots : [Slots -> [gen : Nat, state : States]]]
        BY <1>1 DEF NoRemote, States
    <2>2. lost' \in BOOLEAN
        BY <1>1, <1>2 DEF Typed
    <2> QED BY Zenon, <1>1, <1>2, <2>1, <2>2 DEF Typed
<1>5. Horizon(mem)' /\ Horizon(disk)' /\ Proven' /\ Applied' /\ Served'
    BY <1>1 DEF IInv, Horizon, Proven, Applied, Served
<1>6. Seen'
    <2>1. ASSUME NEW s \in pool' PROVE SeenSlot(s)'
        <3>1. s \in Slots /\ remote'.slots[s].gen = 0
            BY <1>1, <1>2 DEF NoRemote
        <3>2. mem'.slots[s].gen \in Nat
            BY <1>1, <1>2, <3>1, Types DEF Slot
        <3> QED BY <3>1, <3>2 DEF SeenSlot
    <2>2. remote'.as_of <= now'
        BY <1>1, <1>2 DEF NoRemote, Typed
    <2> QED BY <2>1, <2>2 DEF Seen
<1>7. RevokedKnown'
    BY Zenon, <1>1, <1>3 DEF IInv, RevokedKnown
<1>8. Active'
    BY SMTT(30), <1>1, <1>3 DEF IInv, Active, ActiveSlot, Same, Installed, Leasable
<1>9. \A s \in Slots : Empty(s)'
    BY <1>1 DEF IInv, Empty
<1> QED BY <1>4, <1>5, <1>6, <1>7, <1>8, <1>9 DEF IInv

-----------------------------------------------------------------------------
(* An empty pool, an empty file and nothing at the control plane.          *)
LEMMA InitIInv == Init => IInv
<1> SUFFICES ASSUME Init PROVE IInv
    OBVIOUS
<1>1. mem = EmptyState /\ disk = EmptyState /\ now = 0 /\ pool \subseteq Slots
    BY LeaseAssumption DEF Init
<1>2. EmptyState \in State /\ \A s \in Slots : EmptyState.slots[s] = NoSlot
    BY SMTT(30), LeaseAssumption DEF EmptyState, State, NoSlot, Slot, None
<1>3. NoLease \in CpSlot
    BY DEF NoLease, CpSlot, States, None
<1>4. Typed
    <2>1. remote \in [as_of : Int, slots : [Slots -> [gen : Nat, state : States]]]
        BY DEF Init, NoRemote, States
    <2>2. store \in [Slots -> Slot] /\ live \in [Slots -> Nat] /\ cp \in [Slots -> CpSlot]
        BY <1>2, <1>3 DEF Init, State, None
    <2>3. minted \in [Slots -> Nat]
        BY DEF Init
    <2>4. now \in Nat /\ pool \in SUBSET Slots /\ disk \in State /\ mem \in State
        BY <1>1, <1>2
    <2>5. proven \in BOOLEAN /\ lost \in BOOLEAN
        BY Zenon DEF Init
    <2> QED BY <2>1, <2>2, <2>3, <2>4, <2>5 DEF Typed
<1>5. Horizon(mem) /\ Horizon(disk) /\ Proven
    BY SMTT(30), <1>1, <1>2 DEF Init, Horizon, Proven, NoSlot
<1>10. ASSUME NEW s \in Slots
       PROVE  /\ mem.slots[s].gen = 0 /\ cp[s].gen = 0 /\ remote.slots[s].gen = 0
              /\ store[s].until = 0 /\ cp[s].state = "none"
    BY SMTT(30), <1>1, <1>2 DEF Init, NoSlot, NoLease, NoRemote
<1>11. ASSUME NEW s \in Slots
       PROVE  ~mem.slots[s].reported /\ ~mem.slots[s].revoked /\ ~disk.slots[s].reported
    BY SMTT(30), <1>1, <1>2 DEF NoSlot
<1>12. pool \subseteq Slots /\ now = 0 /\ remote.as_of <= now
    BY <1>1 DEF Init, NoRemote
<1>6. Seen
    <2>1. ASSUME NEW s \in pool PROVE SeenSlot(s)
        <3>1. mem.slots[s].gen = 0 /\ remote.slots[s].gen = 0
            BY <1>10, <1>12
        <3> QED BY SMTT(30), <3>1 DEF SeenSlot
    <2> QED BY <1>12, <2>1 DEF Seen
<1>7. Applied /\ Served /\ RevokedKnown
    <2>1. Applied
        BY DEF Init, Applied
    <2>2. Served
        BY <1>10, <1>12 DEF Served
    <2>3. RevokedKnown
        BY <1>11, <1>12 DEF RevokedKnown
    <2> QED BY <2>1, <2>2, <2>3
<1>8. Active
    <2>1. ASSUME NEW s \in pool PROVE ActiveSlot(s)
        <3>1. mem.slots[s].gen = 0 /\ cp[s].gen = 0 /\ cp[s].state = "none"
            BY <1>10, <1>12
        <3> QED BY <3>1 DEF ActiveSlot, Leasable
    <2> QED BY <2>1 DEF Active
<1>9. \A s \in Slots : Empty(s)
    BY <1>10, <1>11 DEF Empty
<1> QED BY <1>4, <1>5, <1>6, <1>7, <1>8, <1>9 DEF IInv

(* A step that changes nothing.                                            *)
LEMMA StutterStep == ASSUME IInv, UNCHANGED vars PROVE IInv'
BY ZenonT(30) DEF vars, state, node, IInv, Typed, Horizon, Proven, Seen, SeenSlot, Applied, Installed,
       Served, RevokedKnown, Active, ActiveSlot, Same, Leasable, Empty

(* The inductive invariant of the lease pool holds whatever fails, expires *)
(* or restarts.                                                            *)
THEOREM Invariant == Spec => []IInv
<1>1. IInv /\ [Next]_vars => IInv'
    BY PlanStep, ApplyStep, SaveStep, SyncStep, SyncFailsStep, ControlPlaneStep, TimeStep,
       RestartStep, StutterStep DEF Next, Agent
<1> QED BY <1>1, InitIInv, PTL DEF Spec

(* For any slots, windows, faults and crashes: what the control plane may  *)
(* lease out right now is what sing-box accepts, unless a crash lost a     *)
(* state that could not be saved (the order of tick's steps).              *)
THEOREM WhatIsLeasedWorks == Spec => []LeasableIsLive
<1>1. IInv => LeasableIsLive
    <2> SUFFICES ASSUME IInv, NEW s \in pool, Leasable(s), ~lost PROVE live[s] = cp[s].secret
        BY DEF LeasableIsLive
    <2>1. Typed /\ s \in Slots
        BY DEF IInv, Typed
    <2>2. Same(s) /\ Installed(s) /\ ~store[s].revoked
        BY DEF IInv, Active, ActiveSlot
    <2>3. store[s].until > now
        BY SMTT(30), <2>1, <2>2, Types DEF Same, Installed, Leasable
    <2> QED BY <2>1, <2>2, <2>3 DEF IInv, Served, Same, Installed
<1> QED BY <1>1, Invariant, PTL

(* For any grid and lifetime, and whatever renewals the control plane asks *)
(* for, a slot ends on the grid and within one lifetime (mint and          *)
(* adopt_extensions).                                                      *)
THEOREM SlotsStayWithinHorizon == Spec => []WithinHorizon
<1>1. IInv => WithinHorizon
    BY DEF IInv, Horizon, WithinHorizon, Held, Holds
<1> QED BY <1>1, Invariant, PTL

(* A plan never takes away a leased credential before it expires, however  *)
(* old the answer is that it plans with (slots_to_rotate).                 *)
THEOREM LeasesAreKept == Spec => LeaseKept
<1>1. ASSUME IInv, Plan, NEW s \in pool,
             cp[s].state = "leased", mem.slots[s].reported,
             mem'.slots[s].secret /= mem.slots[s].secret
      PROVE  mem.slots[s].until <= now
    <2>1. Typed /\ s \in Slots /\ mem.slots[s].gen > 0
        BY <1>1 DEF IInv, Typed, Empty
    <2>2. s \in Minted(slots_to_rotate)
        BY Zenon, <1>1, <2>1, PlanSlots
    <2> QED BY SMTT(30), <1>1, <2>1, <2>2, Replaced DEF Gone
<1>2. IInv => [\A s \in pool :
                 /\ Plan
                 /\ cp[s].state = "leased" /\ cp[s].secret = mem.slots[s].secret /\ mem.slots[s].reported
                 /\ mem'.slots[s].secret /= mem.slots[s].secret
                 => mem.slots[s].until <= now]_vars
    BY <1>1
<1> QED BY <1>2, Invariant, PTL DEF LeaseKept
=============================================================================
