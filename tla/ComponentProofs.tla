--------------------------- MODULE ComponentProofs ---------------------------
(***************************************************************************)
(* Proofs about three components that share no state: the event schedule   *)
(* of the agent, the credential grants of an account, and pairing.         *)
(*                                                                         *)
(* Events: none is lost or slept through, for any channels, any number of  *)
(* changes and any number of failures.  NoLostWakeup speaks of the         *)
(* sleeping loop only.  What carries it through an iteration is that a     *)
(* flag the loop has already walked past, or a loss of the channel since   *)
(* it judged, is covered by a permit or by an event task on its way to one *)
(* (Covered).  Remembered speaks of channels with something pending; what  *)
(* carries it is that an announced channel is held somewhere, pending or   *)
(* not, and that the local variables are empty when they are overwritten   *)
(* (Emptied).                                                              *)
(*                                                                         *)
(* Grants: for every lease, overlap bound and skew grace shorter than the  *)
(* lease, whatever renewals, rotations and edits an account sees.  The     *)
(* invariant is that the grants form a chain: each one starts when the one *)
(* before it is dead.  A grant is minted only when none is live, and the   *)
(* one that is renewed is the last, because a later one would have started *)
(* after the clock.                                                        *)
(*                                                                         *)
(* Pairing: for any labels, users and endpoint ids and any number of       *)
(* accounts, keys, faults and kills.  The invariant adds what a command    *)
(* that has accepted a bundle may rely on until it ends.                   *)
(***************************************************************************)
EXTENDS EventSchedule, CredentialGrants, Pairing, FiniteSetTheorems, TLAPS

Subjects == {"jobs", "authorizations", "leases"}
Rest == {"lease tick", "external tick", "claim", "asleep"}

EventTyped ==
    /\ unseen \subseteq Channels /\ held \subseteq Channels /\ flags \subseteq Channels
    /\ announced \subseteq Channels /\ taken \subseteq Channels /\ elapsed \subseteq Channels
    /\ permit \in BOOLEAN /\ healthy \in BOOLEAN /\ primary \in BOOLEAN
    /\ mpc \in Channels \cup {"judge"} \cup Rest

(* A wake-up is there or on its way.                                       *)
Waking == permit \/ epc \in {"mark", "notify"}

(* The loop will read c's flag before it sleeps.                           *)
Ahead(c) == \E k \in DOMAIN Order : mpc = Order[k] /\ k <= Position(c)

Covered ==
    /\ \A c \in flags : Ahead(c) \/ Waking
    /\ mpc \in Rest /\ primary /\ ~healthy => Waking

(* `changed` and `due` hold nothing when they are assigned.                *)
Emptied ==
    /\ epc \notin {"answered", "mark"} => held = {}
    /\ mpc \notin {"lease tick", "external tick", "claim"} => due = {}
    /\ mpc = "external tick" => "leases" \notin due
    /\ mpc = "claim" => due \subseteq {"jobs"}
    /\ due \subseteq Channels

Kept == announced \subseteq held \cup flags \cup taken \cup due \cup elapsed

EventInv == EventTyped /\ Covered /\ Emptied /\ Kept

-----------------------------------------------------------------------------
(* The channels are the three of the code, none of them named like another *)
(* control point, and Position finds each one where it is in Order.        *)
LEMMA ChannelNames ==
    /\ Channels \subseteq Subjects
    /\ Order[1] \in Channels /\ 1 \in DOMAIN Order
    /\ Channels \cap (Rest \cup {"judge"}) = {}
    /\ \A k \in DOMAIN Order : Order[k] \in Channels /\ Position(Order[k]) = k
    /\ \A c \in Channels : Position(c) \in DOMAIN Order /\ Order[Position(c)] = c
    /\ DOMAIN Order = 1 .. Len(Order) /\ Len(Order) \in Nat
<1>1. DOMAIN Order = 1 .. Len(Order) /\ Len(Order) \in Nat
    BY OrderAssumption
<1>2. Channels \subseteq Subjects
    BY OrderAssumption DEF Channels, Subjects
<1>3. 1 \in DOMAIN Order /\ Order[1] \in Channels
    BY <1>1, OrderAssumption DEF Channels
<1>4. \A c \in Channels : Position(c) \in DOMAIN Order /\ Order[Position(c)] = c
    <2> SUFFICES ASSUME NEW c \in Channels PROVE Position(c) \in DOMAIN Order /\ Order[Position(c)] = c
        OBVIOUS
    <2>1. \E k \in DOMAIN Order : Order[k] = c
        BY DEF Channels
    <2> QED BY <2>1 DEF Position
<1>5. \A k \in DOMAIN Order : Order[k] \in Channels /\ Position(Order[k]) = k
    BY <1>4, OrderAssumption DEF Channels
<1> QED BY Zenon, <1>1, <1>2, <1>3, <1>4, <1>5 DEF Subjects, Rest

(* Two positions in order, apart, with room for the next one.               *)
LEMMA Between ==
    ASSUME NEW i \in Nat, NEW j \in Nat, NEW n \in Nat, i <= j, i # j, j <= n
    PROVE  i < n /\ i + 1 <= j
OBVIOUS

(* Positions are numbers, different for different channels, and the one    *)
(* after a position that is not the last is a position again.              *)
LEMMA Positions ==
    ASSUME NEW b \in Channels, NEW c \in Channels
    PROVE  /\ Position(b) \in Nat /\ Position(c) \in Nat
           /\ Position(b) <= Len(Order)
           /\ Position(b) = Position(c) => b = c
           /\ Position(c) < Len(Order) =>
                 Position(c) + 1 \in DOMAIN Order /\ Order[Position(c) + 1] \in Channels
<1>1. Position(b) \in 1 .. Len(Order) /\ Position(c) \in 1 .. Len(Order) /\ Len(Order) \in Nat
    BY ChannelNames
<1>2. Position(b) = Position(c) => b = c
    BY ChannelNames
<1>3. ASSUME Position(c) < Len(Order) PROVE Position(c) + 1 \in 1 .. Len(Order)
    BY <1>1, <1>3
<1>4. ASSUME Position(c) < Len(Order)
      PROVE  Position(c) + 1 \in DOMAIN Order /\ Order[Position(c) + 1] \in Channels
    <2>1. Position(c) + 1 \in DOMAIN Order
        BY <1>3, <1>4, ChannelNames
    <2> QED BY <2>1, ChannelNames
<1> QED BY <1>1, <1>2, <1>4

-----------------------------------------------------------------------------
(* The loop starts in front of the first flag, with nothing announced.     *)
LEMMA InitEvents == Init => EventInv
BY Zenon, ChannelNames DEF Init, EventInv, EventTyped, Covered, Emptied, Kept, Waking, Ahead, Rest

(* The event task: it walks from an answer to a permit, and is on its way  *)
(* to one whenever a flag is new or the channel has just been lost.        *)
LEMMA EventTaskStep == EventInv /\ EventTask => EventInv'
<1> SUFFICES ASSUME EventInv, EventTask PROVE EventInv'
    OBVIOUS
<1> USE DEF EventInv, EventTyped, Covered, Emptied, Kept, Waking, Ahead, main, task, wakeups
<1>1. CASE Event
    BY Zenon, <1>1 DEF Event
<1>2. CASE Answered
    BY Zenon, <1>2 DEF Answered
<1>3. CASE Mark
    BY Zenon, <1>3 DEF Mark
<1>4. CASE Notify
    BY Zenon, <1>4 DEF Notify
<1>5. CASE NoEvent
    BY Zenon, <1>5 DEF NoEvent
<1> QED BY Zenon, <1>1, <1>2, <1>3, <1>4, <1>5 DEF EventTask

(* Reading a flag: the ones behind the loop were passed before, except the *)
(* one just read, which is gone.                                           *)
LEMMA TakeStep == ASSUME NEW c \in Channels, EventInv, Take(c) PROVE EventInv'
<1> USE DEF EventInv, EventTyped, Emptied, Kept, Waking, main, task, wakeups
<1>1. c = mpc /\ c \in Channels
    BY Zenon DEF Take
<1>2. mpc' \in Channels \cup {"judge"}
    BY Zenon, Positions DEF Take
<1>3. EventTyped'
    BY Zenon, <1>2 DEF Take
<1>6. Emptied'
    <2>1. due = {} /\ due' = due
        BY Zenon, <1>1, ChannelNames DEF Take, Rest
    <2> QED BY <2>1 DEF Take
<1>7. Kept'
    BY Zenon, <1>1 DEF Take
<1>4. ASSUME NEW b \in flags' PROVE Ahead(b)' \/ Waking'
    <2>1. b \in flags /\ b # c /\ b \in Channels
        BY Zenon, <1>4 DEF Take
    <2>2. CASE Waking
        BY Zenon, <2>2 DEF Take
    <2>3. CASE Ahead(b)
        <3>1. Position(c) <= Position(b)
            <4>1. PICK k \in DOMAIN Order : mpc = Order[k] /\ k <= Position(b)
                BY Zenon, <2>3 DEF Ahead
            <4>2. Position(c) = k
                BY Zenon, <4>1, <1>1, ChannelNames
            <4> QED BY Zenon, <4>1, <4>2
        <3>2. /\ Position(c) \in Nat /\ Position(b) \in Nat
              /\ Position(b) <= Len(Order) /\ Position(c) # Position(b)
            BY Zenon, <2>1, Positions
        <3>3. Position(c) < Len(Order) /\ Position(c) + 1 <= Position(b)
            <4>1. Len(Order) \in Nat
                BY Zenon, ChannelNames
            <4> QED BY Zenon, <3>1, <3>2, <4>1, Between
        <3>4. mpc' = Order[Position(c) + 1] /\ Position(c) + 1 \in DOMAIN Order
            BY Zenon, <3>3, Positions DEF Take
        <3> QED BY Zenon, <3>3, <3>4 DEF Ahead
    <2> QED BY Zenon, <2>1, <2>2, <2>3 DEF Covered
<1>5. mpc' \notin Rest
    BY Zenon, <1>2, ChannelNames DEF Rest
<1> QED BY Zenon, <1>3, <1>4, <1>5, <1>6, <1>7 DEF Covered

(* Past the flags none of them is ahead.                                   *)
LEMMA Behind == mpc \notin Channels => \A c : ~Ahead(c)
BY ChannelNames DEF Ahead

(* An iteration starts in front of every flag.                             *)
LEMMA FirstAhead == mpc' = Order[1] => \A c \in Channels : Ahead(c)'
<1> SUFFICES ASSUME mpc' = Order[1], NEW c \in Channels PROVE Ahead(c)'
    OBVIOUS
<1>1. 1 \in DOMAIN Order /\ 1 <= Position(c)
    BY ChannelNames
<1> QED BY <1>1 DEF Ahead

(* The rest of an iteration.  A step that stays past the flags finds what  *)
(* covers them in place; one that starts over has them all ahead.          *)
LEMMA LoopStep ==
    ASSUME EventInv,
           \/ Judge \/ Reconcile("leases", "lease tick", "external tick")
           \/ Reconcile("authorizations", "external tick", "claim")
           \/ Claim \/ Sleep \/ Notified \/ PollInterval
    PROVE  EventInv'
<1> USE DEF EventInv, EventTyped, Emptied, Kept, Waking, Rest, main, task, wakeups
<1>1. CASE Judge
    <2>1. EventTyped' /\ Emptied'
        BY Zenon, <1>1 DEF Judge, Due
    <2>2. Kept'
        BY Zenon, <1>1 DEF Judge, Due
    <2>3. Covered'
        BY Zenon, <1>1, ChannelNames, Behind DEF Judge, Covered
    <2> QED BY Zenon, <2>1, <2>2, <2>3
<1>2. CASE Reconcile("leases", "lease tick", "external tick")
    <2>1. EventTyped' /\ Emptied'
        BY Zenon, <1>2, ChannelNames DEF Reconcile, Fetched, Retry
    <2>2. Kept'
        BY Zenon, <1>2 DEF Reconcile, Fetched, Retry
    <2>3. Covered'
        BY Zenon, <1>2, ChannelNames, Behind DEF Reconcile, Covered
    <2> QED BY Zenon, <2>1, <2>2, <2>3
<1>3. CASE Reconcile("authorizations", "external tick", "claim")
    <2>1. due' \subseteq {"jobs"} /\ due' \subseteq Channels
        <3>1. due' = due \ {"authorizations"} /\ "leases" \notin due /\ due \subseteq Channels
            BY Zenon, <1>3 DEF Reconcile
        <3>2. Channels \subseteq {"jobs", "authorizations", "leases"}
            BY Zenon, ChannelNames DEF Subjects
        <3> QED BY Zenon, <3>1, <3>2
    <2>4. EventTyped' /\ Emptied'
        BY Zenon, <1>3, <2>1, ChannelNames DEF Reconcile, Fetched, Retry
    <2>2. Kept'
        BY Zenon, <1>3 DEF Reconcile, Fetched, Retry
    <2>3. Covered'
        BY Zenon, <1>3, ChannelNames, Behind DEF Reconcile, Covered
    <2> QED BY Zenon, <2>2, <2>3, <2>4
<1>4. CASE Claim
    BY Zenon, <1>4, ChannelNames, FirstAhead DEF Claim, Covered
<1>5. CASE Sleep
    BY ZenonT(30), <1>5, ChannelNames, Behind DEF Sleep, Fetched, Retry, Covered
<1>6. CASE Notified
    BY Zenon, <1>6, ChannelNames, FirstAhead DEF Notified, Covered
<1>7. CASE PollInterval
    BY Zenon, <1>7, ChannelNames, FirstAhead DEF PollInterval, Covered
<1> QED BY Zenon, <1>1, <1>2, <1>3, <1>4, <1>5, <1>6, <1>7

(* The world around the two tasks takes nothing away from them.            *)
LEMMA OutsideStep ==
    ASSUME EventInv, (\E c \in Channels : Change(c) \/ Timer(c)) \/ UNCHANGED vars
    PROVE  EventInv'
<1> USE DEF EventInv, EventTyped, Covered, Emptied, Kept, Waking, Ahead, main, task, wakeups
<1>1. ASSUME NEW c \in Channels, Change(c) PROVE EventInv'
    BY Zenon, <1>1 DEF Change
<1>2. ASSUME NEW c \in Channels, Timer(c) PROVE EventInv'
    BY Zenon, <1>2 DEF Timer
<1>3. CASE UNCHANGED vars
    BY ZenonT(30), <1>3 DEF vars
<1> QED BY Zenon, <1>1, <1>2, <1>3

(* Every step of the two tasks and of the world keeps the invariant.       *)
LEMMA NextKeepsEvents == EventInv /\ [Next]_vars => EventInv'
BY Zenon, EventTaskStep, TakeStep, LoopStep, OutsideStep DEF Next, MainLoop

-----------------------------------------------------------------------------
(* The inductive invariant of the event schedule holds of every run of the *)
(* main loop and the event task.                                           *)
THEOREM EventInvariance == Spec => []EventInv
<1>1. Init => EventInv
    BY InitEvents
<1>2. EventInv /\ [Next]_vars => EventInv'
    BY NextKeepsEvents
<1> QED BY <1>1, <1>2, PTL DEF Spec

(* Whatever the number of changes and failures and however the two tasks   *)
(* interleave, the main loop never sleeps with a flag set, or with the     *)
(* channel lost since it looked, unless a wake-up is on its way.           *)
THEOREM NoWakeupIsLost == Spec => []NoLostWakeup
<1>1. EventInv => NoLostWakeup
    BY Zenon, Behind, ChannelNames DEF EventInv, Covered, NoLostWakeup, Waking, Rest
<1> QED BY <1>1, EventInvariance, PTL

(* A change that an event reported is held by one of the two tasks until   *)
(* it is fetched.                                                          *)
THEOREM NewsAreRemembered == Spec => []Remembered
<1>1. EventInv => Remembered
    BY DEF EventInv, Kept, Remembered
<1> QED BY <1>1, EventInvariance, PTL

-----------------------------------------------------------------------------
(* Grants.                                                                 *)
Account == [secret : Nat, enabled : BOOLEAN, expires : Nat, credentials : Seq(Grant)]

GrantTyped == account \in Account /\ time \in 0 .. Horizon /\ issued \in Nat

Chained(grants, t) ==
    /\ \A i \in DOMAIN grants :
          /\ grants[i].from + NATIVE_LEASE_SECS <= grants[i].until
          /\ grants[i].from <= t
          /\ grants[i].until <= t + NATIVE_LEASE_SECS
          /\ grants[i].revoked = Forever
    /\ \A i, j \in DOMAIN grants : i < j => grants[i].until <= grants[j].from

Chain == GrantTyped /\ Chained(account.credentials, time)

(* The fields of the grants of an account.                                 *)
LEMMA GrantFields ==
    ASSUME Chain, NEW i \in DOMAIN account.credentials
    PROVE  /\ account.credentials[i] \in Grant
           /\ account.credentials[i].from \in Nat /\ account.credentials[i].until \in Nat
           /\ account.credentials[i].revoked \in Nat /\ account.credentials[i].secret \in Nat
<1>1. account.credentials[i] \in Grant
    BY DEF Chain, GrantTyped, Account
<1>. QED
    BY <1>1 DEF Grant

(* What is authorized now is what has not ended: no grant of the chain     *)
(* starts after the clock, and none is revoked.                            *)
LEMMA LiveIsUnended ==
    ASSUME Chain, NEW i \in DOMAIN account.credentials
    PROVE  grant_is_authorized(account.credentials[i], time) <=> time < account.credentials[i].until
<1>1. account.credentials[i] \in Grant
    BY DEF Chain, GrantTyped, Account
<1>. QED
    BY <1>1, PolicyAssumption
    DEF Chain, GrantTyped, Chained, grant_is_authorized, is_revoked_at, Forever, Grant

(* A chain is in policy: no two windows meet, and at the start of one the  *)
(* ones before it are dead and the ones after it further away than the     *)
(* skew grace.                                                             *)
LEMMA ChainInPolicy == Chain => InPolicy
<1>. SUFFICES ASSUME Chain PROVE InPolicy
    OBVIOUS
<1>. DEFINE cr == account.credentials
<1>1. \A i \in DOMAIN cr : cr[i] \in Grant
    BY DEF Chain, GrantTyped, Account
<1>2. DOMAIN cr \subseteq Int
    BY DEF Chain, GrantTyped, Account
<1>3. ASSUME NEW i \in DOMAIN cr PROVE validate_grant(cr[i])
    BY <1>1, PolicyAssumption DEF Chain, GrantTyped, Chained, validate_grant, Grant, Forever
<1>4. ASSUME NEW i \in DOMAIN cr, NEW j \in DOMAIN cr, i # j
      PROVE  overlap_secs(cr[i], cr[j]) <= MAX_OVERLAP_SECS
    <2>1. cr[i].until <= cr[j].from \/ cr[j].until <= cr[i].from
        BY <1>2, <1>4 DEF Chain, Chained
    <2>2. cr[i].from <= cr[i].until /\ cr[j].from <= cr[j].until
        BY <1>1, PolicyAssumption DEF Chain, Chained, Grant
    <2>. QED
        BY <2>1, <2>2, <1>1, PolicyAssumption DEF overlap_secs, Grant
<1>5. ASSUME NEW a \in DOMAIN cr
      PROVE  Cardinality({i \in DOMAIN cr : grant_is_authorized(cr[i], cr[a].from)})
                <= MAX_LIVE_GRANTS_PER_CLASS
    <2>. DEFINE L == {i \in DOMAIN cr : grant_is_authorized(cr[i], cr[a].from)}
    <2>1. ASSUME NEW i \in L PROVE i = a
        <3>1. grant_is_authorized(cr[i], cr[a].from)
            OBVIOUS
        <3>2. cr[i] \in Grant /\ cr[a] \in Grant
            BY <1>1
        <3>3. CASE i < a
            <4>1. cr[i].until <= cr[a].from
                BY <3>3 DEF Chain, Chained
            <4>. QED
                BY <3>1, <3>2, <4>1 DEF grant_is_authorized, Grant
        <3>4. CASE a < i
            <4>1. cr[a].until <= cr[i].from /\ cr[a].from + NATIVE_LEASE_SECS <= cr[a].until
                BY <3>4 DEF Chain, Chained
            <4>. QED
                BY <3>1, <3>2, <4>1, PolicyAssumption DEF grant_is_authorized, Grant
        <3>. QED
            BY <1>2, <3>3, <3>4
    <2>2. L = {} \/ L = {a}
        BY <2>1
    <2>3. Cardinality(L) \in {0, 1}
        BY Zenon, <2>2, FS_EmptySet, FS_Singleton
    <2>. QED
        BY <2>3, PolicyAssumption
<1>. QED
    BY <1>3, <1>4, <1>5 DEF InPolicy, validate_grant_set

(* A grant is minted when the last of the chain has ended.                 *)
LEMMA MintKeepsChain ==
    ASSUME Chain, live_grants(account, time) = {}, Mint, time' = time
    PROVE  Chain'
<1>. DEFINE cr == account.credentials
            g  == NewGrant(issued + 1, time, time + NATIVE_LEASE_SECS)
<1>1. /\ account \in Account /\ time \in 0 .. Horizon /\ issued \in Nat /\ cr \in Seq(Grant)
      /\ time \in Nat /\ Forever \in Nat /\ NATIVE_LEASE_SECS \in Nat
    BY PolicyAssumption DEF Chain, GrantTyped, Account, Forever
<1>2. g \in Grant /\ g.from = time /\ g.until = time + NATIVE_LEASE_SECS /\ g.revoked = Forever
    BY <1>1 DEF NewGrant, Grant
<1>3. account' = [account EXCEPT !.credentials = Append(cr, g)] /\ issued' = issued + 1
    BY DEF Mint
<1>4. account'.credentials = Append(cr, g)
    BY <1>1, <1>3 DEF Account
<1>. HIDE DEF g
<1>5. GrantTyped'
    <2>1. Append(cr, g) \in Seq(Grant)
        BY <1>1, <1>2
    <2>2. account' \in Account
        BY Zenon, <1>1, <1>3, <2>1 DEF Account
    <2>. QED
        BY <1>1, <1>3, <2>2 DEF GrantTyped
<1>6. ASSUME NEW i \in DOMAIN cr PROVE cr[i].until <= time
    <2>1. ~grant_is_authorized(cr[i], time)
        BY DEF live_grants
    <2>2. ~(time < cr[i].until)
        BY <2>1, LiveIsUnended
    <2>3. cr[i].until \in Nat
        BY GrantFields
    <2>. QED
        BY <1>1, <2>2, <2>3
<1>7. Chained(account'.credentials, time')
    <2>. DEFINE new == Append(cr, g)
    <2>1. DOMAIN new = 1 .. Len(cr) + 1 /\ DOMAIN cr = 1 .. Len(cr) /\ Len(cr) \in Nat
        BY <1>1, <1>2
    <2>2. \A i \in DOMAIN cr : new[i] = cr[i]
        BY <1>1, <1>2
    <2>3. new[Len(cr) + 1] = g
        BY <1>1, <1>2
    <2>4. Chained(cr, time)
        BY DEF Chain
    <2>5. \A i \in DOMAIN cr : cr[i].from \in Nat /\ cr[i].until \in Nat
        BY GrantFields
    <2>6. account'.credentials = new
        BY <1>4
    <2>. HIDE DEF cr, new
    <2>7. ASSUME NEW i \in DOMAIN new
          PROVE  /\ new[i].from + NATIVE_LEASE_SECS <= new[i].until
                 /\ new[i].from <= time /\ new[i].until <= time + NATIVE_LEASE_SECS
                 /\ new[i].revoked = Forever
        <3>1. CASE i \in DOMAIN cr
            BY <2>2, <2>4, <3>1 DEF Chained
        <3>2. CASE i = Len(cr) + 1
            BY <1>1, <1>2, <2>3, <3>2
        <3>. QED
            BY <2>1, <3>1, <3>2
    <2>8. ASSUME NEW i \in DOMAIN new, NEW j \in DOMAIN new, i < j
          PROVE  new[i].until <= new[j].from
        <3>1. i \in DOMAIN cr
            BY <2>1, <2>8
        <3>2. CASE j \in DOMAIN cr
            BY <2>2, <2>4, <2>8, <3>1, <3>2 DEF Chained
        <3>3. CASE j = Len(cr) + 1
            BY <1>2, <1>6, <2>2, <2>3, <3>1, <3>3
        <3>. QED
            BY <2>1, <3>2, <3>3
    <2>. QED
        BY <2>6, <2>7, <2>8 DEF Chained
<1>. QED
    BY <1>5, <1>7 DEF Chain

(* Only the last grant of the chain can be live, so its end may move.      *)
LEMMA RenewKeepsChain ==
    ASSUME Chain, NEW i \in live_grants(account, time), Renew(i), time' = time
    PROVE  /\ Chain'
           /\ DOMAIN account'.credentials = DOMAIN account.credentials
           /\ account'.credentials[i] =
                [account.credentials[i] EXCEPT !.until = time + NATIVE_LEASE_SECS]
           /\ \A j \in DOMAIN account.credentials \ {i} :
                account'.credentials[j] = account.credentials[j]
<1>. DEFINE cr == account.credentials
            g  == [cr[i] EXCEPT !.until = time + NATIVE_LEASE_SECS]
<1>1. /\ account \in Account /\ time \in 0 .. Horizon /\ issued \in Nat /\ cr \in Seq(Grant)
      /\ time \in Nat /\ Forever \in Nat /\ NATIVE_LEASE_SECS \in Nat /\ Horizon \in Nat
    BY PolicyAssumption DEF Chain, GrantTyped, Account, Forever
<1>2. /\ i \in DOMAIN cr /\ cr[i] \in Grant /\ cr[i].from \in Nat /\ cr[i].until \in Nat /\ time < cr[i].until
      /\ cr[i].until <= time + NATIVE_LEASE_SECS
      /\ cr[i].revoked = Forever /\ time < Forever
    BY SMTT(30), <1>1, GrantFields, LiveIsUnended DEF live_grants, Chain, Chained, Forever
<1>3. renew_until(cr[i], time + NATIVE_LEASE_SECS, time) = g
    BY <1>1, <1>2 DEF renew_until, is_revoked_at
<1>4. g \in Grant /\ g.from = cr[i].from /\ g.until = time + NATIVE_LEASE_SECS
      /\ g.revoked = Forever /\ g.secret = cr[i].secret
    <2>1. time + NATIVE_LEASE_SECS \in Nat
        BY <1>1
    <2>. QED
        BY <1>2, <2>1 DEF Grant
<1>5. account' = [account EXCEPT !.credentials = [cr EXCEPT ![i] = g]] /\ issued' = issued
    BY Zenon, <1>1, <1>3 DEF Renew, Account
<1>6. account'.credentials = [cr EXCEPT ![i] = g]
    BY <1>1, <1>5 DEF Account
<1>. HIDE DEF g
<1>7. [cr EXCEPT ![i] = g] \in Seq(Grant) /\ DOMAIN cr \subseteq Nat
    BY <1>1, <1>2, <1>4
<1>8. GrantTyped'
    BY Zenon, <1>1, <1>5, <1>7 DEF GrantTyped, Account
<1>9. ASSUME NEW j \in DOMAIN cr PROVE ~(i < j)
    <2>1. cr[j].from <= time /\ (i < j => cr[i].until <= cr[j].from)
        BY <1>2 DEF Chain, Chained
    <2>2. cr[j].from \in Nat
        BY GrantFields
    <2>. QED
        BY <1>1, <1>2, <2>1, <2>2
<1>10. Chained(account'.credentials, time')
    <2>1. Chained(cr, time)
        BY DEF Chain
    <2>2. \A j \in DOMAIN cr : cr[j].from \in Nat /\ cr[j].until \in Nat
        BY GrantFields
    <2>3. /\ DOMAIN [cr EXCEPT ![i] = g] = DOMAIN cr /\ [cr EXCEPT ![i] = g][i] = g
          /\ \A j \in DOMAIN cr \ {i} : [cr EXCEPT ![i] = g][j] = cr[j]
        BY <1>2
    <2>4. g.from + NATIVE_LEASE_SECS <= g.until /\ g.from <= time
        <3>1. cr[i].from <= time
            BY <1>2, <2>1 DEF Chained
        <3> QED BY <1>1, <1>2, <1>4, <3>1
    <2> DEFINE new == [cr EXCEPT ![i] = g]
    <2>. HIDE DEF cr, new
    <2>5. DOMAIN new = DOMAIN cr /\ new[i] = g /\ \A j \in DOMAIN cr \ {i} : new[j] = cr[j]
        BY <2>3 DEF new
    <2>6. ASSUME NEW j \in DOMAIN cr
          PROVE  /\ new[j].from + NATIVE_LEASE_SECS <= new[j].until
                 /\ new[j].from <= time /\ new[j].until <= time + NATIVE_LEASE_SECS
                 /\ new[j].revoked = Forever
        <3>1. CASE j = i
            <4>1. g.until <= time + NATIVE_LEASE_SECS
                BY <1>1, <1>4
            <4> QED BY <1>4, <2>4, <2>5, <3>1, <4>1
        <3>2. CASE j # i
            BY <2>1, <2>5, <3>2 DEF Chained
        <3> QED BY <3>1, <3>2
    <2>7. ASSUME NEW j \in DOMAIN cr, NEW k \in DOMAIN cr, j < k PROVE new[j].until <= new[k].from
        <3>1. cr[j].until <= cr[k].from /\ j # i
            BY <1>9, <2>1, <2>7 DEF Chained
        <3>2. new[k].from = cr[k].from
            BY <1>4, <2>5
        <3> QED BY <2>5, <3>1, <3>2
    <2>8. Chained(new, time)
        BY <2>5, <2>6, <2>7 DEF Chained
    <2>. QED
        BY <1>6, <2>8 DEF new
<1>. QED
    BY <1>2, <1>6, <1>8, <1>10 DEF Chain, g

(* Every step of a grant store: renewals, and what else changes one.       *)
LEMMA StepKeepsChain == Chain /\ [GrantNext]_grant_vars => Chain'
<1>. SUFFICES ASSUME Chain, [GrantNext]_grant_vars PROVE Chain'
    OBVIOUS
<1>1. CASE cmd_user_renew_native
    BY Zenon, <1>1, MintKeepsChain, RenewKeepsChain DEF cmd_user_renew_native
<1>. DEFINE cr == account.credentials
<1>2. account \in Account /\ time \in Nat /\ issued \in Nat /\ Forever \in Nat /\ time <= Horizon
    BY PolicyAssumption DEF Chain, GrantTyped, Forever
<1>3. ASSUME account' \in Account, account'.credentials = cr, time' = time, issued' \in Nat
      PROVE  Chain'
    BY <1>3 DEF Chain, GrantTyped
<1>4. CASE cmd_user_rotate
    BY <1>2, <1>3, <1>4 DEF cmd_user_rotate, Account
<1>5. CASE cmd_user_set_enabled
    BY Zenon, <1>2, <1>3, <1>5 DEF cmd_user_set_enabled, Account
<1>6. CASE cmd_user_set_expiry
    BY <1>2, <1>3, <1>6 DEF cmd_user_set_expiry, Account
<1>7. CASE Elapse
    <2>1. time' = time + 1 /\ time + 1 <= Horizon /\ account' = account /\ issued' = issued
        BY <1>2, <1>7, PolicyAssumption DEF Elapse
    <2>2. \A i \in DOMAIN cr : cr[i].from \in Nat /\ cr[i].until \in Nat
        BY GrantFields
    <2>3. GrantTyped'
        BY <1>2, <2>1, PolicyAssumption DEF Chain, GrantTyped
    <2>4. Chained(cr, time)
        BY DEF Chain
    <2>. HIDE DEF cr
    <2>5. ASSUME NEW i \in DOMAIN cr
          PROVE  cr[i].from <= time + 1 /\ cr[i].until <= time + 1 + NATIVE_LEASE_SECS
        <3>1. cr[i].from <= time /\ cr[i].until <= time + NATIVE_LEASE_SECS
            BY <2>4 DEF Chained
        <3>2. cr[i].from \in Nat /\ cr[i].until \in Nat /\ NATIVE_LEASE_SECS \in Nat
            BY <2>2, PolicyAssumption
        <3> QED BY <1>2, <3>1, <3>2
    <2>6. Chained(cr, time + 1)
        BY <2>4, <2>5 DEF Chained
    <2>7. Chained(account'.credentials, time')
        BY <2>1, <2>6 DEF cr
    <2>. QED
        BY <2>3, <2>7 DEF Chain
<1>8. CASE UNCHANGED grant_vars
    BY <1>2, <1>3, <1>8 DEF grant_vars
<1>. QED
    BY <1>1, <1>4, <1>5, <1>6, <1>7, <1>8 DEF GrantNext

(* A renewed grant is authorized before and after under the same secret,   *)
(* so what is rendered stays; a grant that has ended is not the renewed    *)
(* one.                                                                    *)
LEMMA StepIsSilent == Chain /\ [GrantNext]_grant_vars => [Silent]_grant_vars
<1>. SUFFICES ASSUME Chain, [GrantNext]_grant_vars, account'.credentials # account.credentials
              PROVE  Silent
    BY DEF Silent
<1>. DEFINE cr == account.credentials
            new == account'.credentials
<1>1. account \in Account /\ cr \in Seq(Grant)
    BY DEF Chain, GrantTyped, Account
<1>2. cmd_user_renew_native
    BY <1>1 DEF GrantNext, cmd_user_rotate, cmd_user_set_enabled, cmd_user_set_expiry, Elapse,
                grant_vars, Account
<1>3. CASE live_grants(account, time) = {} /\ Mint
    <2>1. new = Append(cr, NewGrant(issued + 1, time, time + NATIVE_LEASE_SECS))
        BY <1>1, <1>3 DEF Mint, Account
    <2>2. \A i \in DOMAIN cr : new[i] = cr[i]
        BY <1>1, <2>1
    <2>. QED
        BY <1>3, <2>2 DEF Silent
<1>4. CASE \E i \in live_grants(account, time) : IsCurrent(account, time, i) /\ Renew(i)
    <2>. PICK i \in live_grants(account, time) : Renew(i)
        BY <1>4
    <2>1. time' = time
        BY <1>2 DEF cmd_user_renew_native
    <2>2. /\ Chain' /\ DOMAIN new = DOMAIN cr
          /\ new[i] = [cr[i] EXCEPT !.until = time + NATIVE_LEASE_SECS]
          /\ \A j \in DOMAIN cr \ {i} : new[j] = cr[j]
        BY <2>1, RenewKeepsChain
    <2>3. i \in DOMAIN cr /\ time < cr[i].until
        BY LiveIsUnended DEF live_grants
    <2>4. cr[i] \in Grant /\ cr[i].until \in Nat /\ time \in Nat /\ Forever \in Nat
        <3>1. cr[i] \in Grant /\ cr[i].until \in Nat
            BY <2>3, GrantFields
        <3>2. time \in Nat /\ Forever \in Nat
            BY PolicyAssumption DEF Chain, GrantTyped, Forever
        <3> QED BY <3>1, <3>2
    <2>5. \A j \in DOMAIN cr : cr[j].until <= time => new[j] = cr[j]
        BY <2>2, <2>3, <2>4
    <2>6. account'.enabled = account.enabled /\ account'.expires = account.expires
        BY <1>1 DEF Renew, Account
    <2>7. cr # <<>> /\ new # <<>>
        BY <2>2, <2>3
    <2>8. ASSUME NEW j \in DOMAIN cr
          PROVE  /\ new[j].secret = cr[j].secret
                 /\ grant_is_authorized(new[j], time) <=> grant_is_authorized(cr[j], time)
        <3>1. CASE j = i
            <4>1. grant_is_authorized(cr[i], time)
                BY DEF live_grants
            <4>2. /\ new[i].secret = cr[i].secret /\ new[i].from = cr[i].from
                  /\ new[i].revoked = cr[i].revoked
                  /\ new[i].until = time + NATIVE_LEASE_SECS
                BY <2>2, <2>4 DEF Grant
            <4>. QED
                BY SMTT(30), <3>1, <4>1, <4>2, <2>4, PolicyAssumption DEF grant_is_authorized, is_revoked_at
        <3>2. CASE j # i
            BY <2>2, <3>2
        <3>. QED
            BY <3>1, <3>2
    <2>9. effective_grants(account) = cr /\ effective_grants(account') = new
        BY <2>7 DEF effective_grants
    <2>10. account_active(account', time) <=> account_active(account, time)
        BY <2>6 DEF account_active
    <2>11. {k \in DOMAIN new : grant_is_authorized(new[k], time)}
             = {k \in DOMAIN cr : grant_is_authorized(cr[k], time)}
        BY <2>2, <2>8
    <2>. HIDE DEF cr, new
    <2>12. {new[k].secret : k \in {l \in DOMAIN new : grant_is_authorized(new[l], time)}}
             = {cr[k].secret : k \in {l \in DOMAIN cr : grant_is_authorized(cr[l], time)}}
        BY <2>8, <2>11
    <2>13. Entries(account', time) = Entries(account, time)
        BY SMTT(30), <2>9, <2>10, <2>12 DEF Entries
    <2>. QED
        BY <2>5, <2>13 DEF Silent, cr, new
<1>. QED
    BY <1>2, <1>3, <1>4 DEF cmd_user_renew_native

(* However often an account is renewed, rotated, disabled or given another *)
(* expiry, and however long it lies idle: its grants stay in policy, and   *)
(* no renewal revives a dead grant or changes what sing-box is given while *)
(* one is live.                                                            *)
THEOREM RenewalSilent == GrantSpec => RenewalIsSilent
<1>1. GrantInit => Chain
    BY PolicyAssumption DEF GrantInit, Chain, GrantTyped, Account, Chained, Forever
<1>2. GrantSpec => []Chain
    BY <1>1, StepKeepsChain, PTL DEF GrantSpec
<1>. QED
    BY <1>2, ChainInPolicy, StepIsSilent, PTL DEF GrantSpec, RenewalIsSilent

-----------------------------------------------------------------------------
(* Pairing.  What the proofs need of the types: bundles carry the key of   *)
(* an exit, which is never the key of a missing route.                     *)
Flows == {"", "vision", "none"}
Bundle == [kind : {"peer", "hairpin"}, uuid : Nat, key : Nat \ {0}, flow : Flows]
Issues == [pc : {"idle", "deliver", "revoke"}, name : Names \cup {<<"", "">>}, key : Nat]
PairCommands == [pc : {"idle", "apply", "rollback", "credential", "refresh"}, user : Users \cup {""},
                 id : Ids \cup {""}, bundle : Bundle \cup {NoBundle}]

IssuerOK ==
    /\ accounts \in [Names -> [uuid : Nat, flow : Flows]]
    /\ uuids \in Nat /\ xkey \in Nat \ {0}
    /\ issue \in Issues
    /\ issue.pc # "idle" => issue.name \in Names /\ issue.key # 0
    /\ bundles \subseteq Bundle

RelayOK ==
    /\ toml \in [Ids -> [key : Nat, flow : Flows]]
    /\ creds \in [Users -> [Ids -> [uuid : Nat, paired : BOOLEAN]]]
    /\ cmd \in PairCommands

(* A command that has accepted a bundle knows its user and route.  A route *)
(* that is being declared belongs to no credential yet, and the credential *)
(* that will be stored fits the route that was found or made.              *)
Declaring ==
    /\ cmd.pc \in {"apply", "rollback", "credential"} =>
         cmd.user \in Users /\ cmd.id \in Ids /\ cmd.bundle \in bundles
    /\ cmd.pc \in {"apply", "rollback"} => \A u \in Users : ~creds[u][cmd.id].paired
    /\ cmd.pc \in {"apply", "credential"} => toml[cmd.id] = peer_endpoint_from_exit_bundle(cmd.bundle)

PairingInv == IssuerOK /\ RelayOK /\ Declaring /\ CredentialFitsRoute /\ NoOrphan

(* Paired credentials keep fitting while they and their routes stay.       *)
LEMMA FitsFollows ==
    ASSUME CredentialFitsRoute, bundles \subseteq bundles',
           \A v \in Users, j \in Ids :
              creds'[v][j].paired => creds'[v][j] = creds[v][j] /\ toml'[j] = toml[j]
    PROVE  CredentialFitsRoute'
<1> SUFFICES ASSUME NEW v \in Users, NEW j \in Ids, creds'[v][j].paired
             PROVE  \E b \in bundles' : /\ b.uuid = creds'[v][j].uuid
                                        /\ toml'[j] = peer_endpoint_from_exit_bundle(b)
  BY DEF CredentialFitsRoute
<1>1. creds'[v][j] = creds[v][j] /\ toml'[j] = toml[j] /\ creds[v][j].paired
  OBVIOUS
<1>2. PICK b \in bundles : b.uuid = creds[v][j].uuid /\ toml[j] = peer_endpoint_from_exit_bundle(b)
  BY <1>1 DEF CredentialFitsRoute
<1> QED BY <1>1, <1>2

(* What a step of the issuer does to the relay's part of the invariant:    *)
(* bundles are only added.                                                 *)
LEMMA MoreBundles ==
    ASSUME PairingInv, UNCHANGED <<toml, creds, cmd>>, bundles \subseteq bundles'
    PROVE  RelayOK' /\ Declaring' /\ CredentialFitsRoute'
<1>1. RelayOK'
  BY DEF PairingInv, RelayOK
<1>2. Declaring'
  BY DEF PairingInv, Declaring
<1>3. CredentialFitsRoute'
  BY FitsFollows DEF PairingInv
<1> QED BY <1>1, <1>2, <1>3

(* A step of the relay leaves the accounts to the issuer.                  *)
LEMMA RelayLeavesIssuer ==
    ASSUME PairingInv, UNCHANGED <<issuer, xkey>>
    PROVE  IssuerOK' /\ NoOrphan'
BY DEF PairingInv, IssuerOK, NoOrphan, issuer

(* A command that does not touch routes or credentials, and is not about   *)
(* to declare or to store one.                                             *)
LEMMA RelayRests ==
    ASSUME PairingInv, UNCHANGED <<issuer, xkey, toml, creds>>, cmd' \in PairCommands,
           cmd'.pc \in {"idle", "refresh"}
    PROVE  PairingInv'
<1>1. RelayOK' /\ Declaring'
  BY DEF PairingInv, RelayOK, Declaring
<1>2. CredentialFitsRoute'
  BY FitsFollows DEF PairingInv, issuer
<1> QED BY <1>1, <1>2, RelayLeavesIssuer DEF PairingInv

(* NoOrphan without the set of uuids.                                      *)
Handed(n, a, bs, ex, is) ==
    a # NoAccount => (\E b \in bs : b.uuid = a.uuid) \/ a.uuid \in ex \/ (is.pc # "idle" /\ is.name = n)

(* The two forms of the property are the same.                             *)
LEMMA OrphanFree == NoOrphan <=> \A n \in Names : Handed(n, accounts[n], bundles, excused, issue)
BY DEF NoOrphan, Handed

(* An idle relay has no command under way.                                 *)
LEMMA ReadyType == Ready \in PairCommands /\ Ready.pc = "idle"
BY DEF Ready, PairCommands, NoBundle

(* An idle issuer has no account under way.                                *)
LEMMA IdleIssue == Idle \in Issues /\ Idle.pc = "idle"
BY DEF Idle, Issues

(* The issuing commands.  Between the account and its bundle no other      *)
(* command of the issuer runs, so an account without a bundle is the one   *)
(* being issued, or its uuid is excused.                                   *)
LEMMA IssuerKeepsPairing == PairingInv /\ Issuer => PairingInv'
<1> SUFFICES ASSUME PairingInv, Issuer PROVE PairingInv'
  OBVIOUS
<1>1. UNCHANGED <<toml, creds, cmd>> /\ bundles \subseteq bundles'
  BY Zenon DEF Issuer, issue_exit, issue_hairpin, create_dedicated_user, deliver_or_revoke,
         remove_dedicated_user, KillIssue, RotateKey, RemoveAccount, accept_hairpin, relay, issuer
<1>2. /\ accounts \in [Names -> [uuid : Nat, flow : Flows]] /\ uuids \in Nat /\ xkey \in Nat \ {0}
      /\ issue \in Issues /\ issue.pc \in {"idle", "deliver", "revoke"} /\ bundles \subseteq Bundle
      /\ issue.pc # "idle" => issue.name \in Names /\ issue.key \in Nat \ {0}
  BY Zenon DEF PairingInv, IssuerOK, Issues
<1> DEFINE AllHanded == \A m \in Names : Handed(m, accounts'[m], bundles', excused', issue')
<1>0. \A m \in Names : Handed(m, accounts[m], bundles, excused, issue)
  BY OrphanFree DEF PairingInv
<1>3. ASSUME NEW name \in Names, NEW flow \in Flows, create_dedicated_user(name, flow)
      PROVE  IssuerOK' /\ AllHanded
  <2>1. issue.pc = "idle" /\ uuids' = uuids + 1 /\ uuids' \in Nat /\ UNCHANGED <<bundles, excused, xkey>>
    BY <1>2, <1>3 DEF create_dedicated_user
  <2>2. CASE UNCHANGED <<accounts, issue>>
    <3>1. IssuerOK'
      BY <1>2, <2>1, <2>2 DEF IssuerOK
    <3>2. AllHanded
      BY <1>0, <2>1, <2>2
    <3> QED BY <3>1, <3>2
  <2>3. CASE /\ accounts' = [accounts EXCEPT ![name] = [uuid |-> uuids', flow |-> flow]]
             /\ issue' = [pc |-> "deliver", name |-> name, key |-> xkey]
    <3>1. accounts' \in [Names -> [uuid : Nat, flow : Flows]]
      BY <1>2, <2>1, <2>3
    <3>2. issue' \in Issues /\ issue'.name = name /\ issue'.key = xkey /\ issue'.pc = "deliver"
      BY Zenon, <1>2, <2>3 DEF Issues
    <3>3. IssuerOK'
      BY <1>2, <2>1, <3>1, <3>2 DEF IssuerOK
    <3>4. \A n \in Names : n # name => accounts'[n] = accounts[n]
      BY <1>2, <2>3
    <3>5. AllHanded
      BY <1>0, <2>1, <3>2, <3>4 DEF Handed
    <3> QED BY <3>3, <3>5
  <2> QED BY <1>3, <2>2, <2>3 DEF create_dedicated_user
<1>4. ASSUME issue_exit \/ issue_hairpin
      PROVE  IssuerOK' /\ AllHanded
  BY Zenon, <1>3, <1>4 DEF issue_exit, issue_hairpin, Names, Flows
<1>5. ASSUME deliver_or_revoke
      PROVE  IssuerOK' /\ AllHanded
  <2>1. issue.pc = "deliver" /\ UNCHANGED <<accounts, uuids, excused, xkey>>
    BY <1>5 DEF deliver_or_revoke
  <2>2. CASE issue' = [issue EXCEPT !.pc = "revoke"] /\ UNCHANGED bundles
    <3>1. issue' \in Issues /\ issue'.pc = "revoke" /\ issue'.name = issue.name /\ issue'.key = issue.key
      BY Zenon, <1>2, <2>2 DEF Issues
    <3>2. IssuerOK'
      BY <1>2, <2>1, <2>2, <3>1 DEF IssuerOK
    <3>3. AllHanded
      BY <1>0, <2>1, <2>2, <3>1 DEF Handed
    <3> QED BY <3>2, <3>3
  <2>3. CASE /\ bundles' = bundles \cup {[kind |-> issue.name[1], uuid |-> Issued.uuid,
                                          key |-> issue.key, flow |-> Issued.flow]}
             /\ issue' = Idle
    <3>1. PICK b : b = [kind |-> issue.name[1], uuid |-> Issued.uuid, key |-> issue.key, flow |-> Issued.flow]
      BY Zenon
    <3>2. b \in Bundle /\ b.uuid = accounts[issue.name].uuid
      BY <1>2, <2>1, <3>1 DEF Bundle, Issued, Names
    <3>3. IssuerOK'
      BY Zenon, <1>2, <2>1, <2>3, <3>1, <3>2, IdleIssue DEF IssuerOK
    <3>4. bundles' = bundles \cup {b}
      BY <2>3, <3>1
    <3>5. AllHanded
      BY Zenon, <1>0, <2>1, <3>2, <3>4 DEF Handed
    <3> QED BY <3>3, <3>5
  <2> QED BY <1>5, <2>2, <2>3 DEF deliver_or_revoke
<1>6. ASSUME remove_dedicated_user \/ KillIssue
      PROVE  IssuerOK' /\ AllHanded
  <2>1. issue.pc # "idle" /\ issue' = Idle /\ UNCHANGED <<uuids, bundles, xkey>>
    BY <1>6 DEF remove_dedicated_user, KillIssue
  <2>2. CASE accounts' = [accounts EXCEPT ![issue.name] = NoAccount] /\ UNCHANGED excused
    <3>1. accounts' \in [Names -> [uuid : Nat, flow : Flows]]
      BY Zenon, <1>2, <2>2 DEF NoAccount, Flows
    <3>2. \A n \in Names : accounts'[n] = IF n = issue.name THEN NoAccount ELSE accounts[n]
      BY <1>2, <2>2
    <3>3. IssuerOK'
      BY <1>2, <2>1, <3>1, IdleIssue DEF IssuerOK
    <3>4. AllHanded
      BY <1>0, <2>1, <2>2, <3>2 DEF Handed
    <3> QED BY <3>3, <3>4
  <2>3. CASE excused' = excused \cup {Issued.uuid} /\ UNCHANGED accounts
    <3>1. IssuerOK'
      BY <1>2, <2>1, <2>3, IdleIssue DEF IssuerOK
    <3>2. accounts[issue.name].uuid \in excused' /\ excused \subseteq excused'
      BY <2>3 DEF Issued
    <3>3. AllHanded
      BY <1>0, <2>1, <2>3, <3>2 DEF Handed
    <3> QED BY <3>1, <3>3
  <2> QED BY <1>6, <2>2, <2>3 DEF remove_dedicated_user, KillIssue
<1>7. ASSUME NEW n \in Names, RemoveAccount(n)
      PROVE  IssuerOK' /\ AllHanded
  <2>1. accounts' = [accounts EXCEPT ![n] = NoAccount] /\ UNCHANGED <<uuids, issue, bundles, excused, xkey>>
    BY <1>7 DEF RemoveAccount
  <2>2. accounts' \in [Names -> [uuid : Nat, flow : Flows]]
    BY Zenon, <1>2, <2>1 DEF NoAccount, Flows
  <2>3. \A m \in Names : accounts'[m] = IF m = n THEN NoAccount ELSE accounts[m]
    BY <1>2, <2>1
  <2>4. IssuerOK'
    BY <1>2, <2>1, <2>2 DEF IssuerOK
  <2>5. ASSUME NEW m \in Names PROVE Handed(m, accounts'[m], bundles', excused', issue')
    <3>1. CASE m = n
      BY <2>3, <3>1 DEF Handed
    <3>2. CASE m # n
      <4>1. accounts'[m] = accounts[m]
        BY <2>3, <3>2
      <4> QED BY <1>0, <2>1, <4>1
    <3> QED BY <3>1, <3>2
  <2> QED BY <2>4, <2>5
<1>8. ASSUME RotateKey \/ \E b \in bundles : accept_hairpin(b)
      PROVE  IssuerOK' /\ AllHanded
  <2>1. xkey' \in Nat \ {0} /\ UNCHANGED issuer
    BY <1>2, <1>8 DEF RotateKey, accept_hairpin
  <2>2. IssuerOK'
    BY <1>2, <2>1 DEF IssuerOK, issuer
  <2>3. AllHanded
    BY <1>0, <2>1 DEF issuer
  <2> QED BY <2>2, <2>3
<1>9. IssuerOK' /\ AllHanded
  BY <1>4, <1>5, <1>6, <1>7, <1>8 DEF Issuer
<1>10. NoOrphan'
  BY <1>9 DEF NoOrphan, Handed
<1> QED BY <1>1, <1>9, <1>10, MoreBundles DEF PairingInv


(* A credential that came by bundle belongs to a declared route.           *)
LEMMA PairedIsDeclared ==
    ASSUME PairingInv, NEW u \in Users, NEW i \in Ids, creds[u][i].paired
    PROVE  toml[i] # NoRoute
<1>1. PICK b \in bundles : toml[i] = peer_endpoint_from_exit_bundle(b)
  BY DEF PairingInv, CredentialFitsRoute
<1>2. b.key # 0
  BY DEF PairingInv, IssuerOK, Bundle
<1>3. toml[i].key = b.key
  BY <1>1 DEF peer_endpoint_from_exit_bundle
<1>4. NoRoute.key = 0
  BY DEF NoRoute
<1> QED BY <1>2, <1>3, <1>4

(* The operator's commands on the relay, in one step each.                 *)
LEMMA OperatorKeepsPairing == PairingInv /\ Operator => PairingInv'
<1> SUFFICES ASSUME PairingInv, Operator PROVE PairingInv'
  OBVIOUS
<1>1. /\ toml \in [Ids -> [key : Nat, flow : Flows]]
      /\ creds \in [Users -> [Ids -> [uuid : Nat, paired : BOOLEAN]]]
      /\ cmd \in PairCommands /\ bundles \subseteq Bundle /\ uuids \in Nat
  BY DEF PairingInv, RelayOK, IssuerOK
<1>2. ASSUME NEW u \in Users, NEW i \in Ids, NEW b \in bundles, NEW r \in BOOLEAN, accept_exit(u, i, b, r)
      PROVE  PairingInv'
  <2>1. UNCHANGED <<issuer, xkey, creds>> /\ bundles' = bundles
    BY <1>2 DEF accept_exit, issuer
  <2>2. b \in Bundle
    BY <1>1
  <2>3. CASE /\ toml[i] = NoRoute /\ toml' = [toml EXCEPT ![i] = peer_endpoint_from_exit_bundle(b)]
             /\ cmd' = [pc |-> "apply", user |-> u, id |-> i, bundle |-> b]
    <3>1. toml' \in [Ids -> [key : Nat, flow : Flows]]
      BY <1>1, <2>2, <2>3 DEF Bundle, peer_endpoint_from_exit_bundle
    <3>2. cmd' \in PairCommands /\ cmd'.pc = "apply" /\ cmd'.user = u /\ cmd'.id = i /\ cmd'.bundle = b
      BY Zenon, <2>2, <2>3 DEF PairCommands
    <3>3. RelayOK'
      BY <1>1, <2>1, <3>1, <3>2 DEF RelayOK
    <3>4. \A j \in Ids : toml'[j] = IF j = i THEN peer_endpoint_from_exit_bundle(b) ELSE toml[j]
      BY <1>1, <2>3
    <3>5. \A v \in Users : ~creds[v][i].paired
      BY <2>3, PairedIsDeclared
    <3>6. Declaring'
      BY <2>1, <3>2, <3>4, <3>5 DEF Declaring
    <3>7. CredentialFitsRoute'
      <4>1. \A v \in Users, j \in Ids : creds'[v][j].paired => creds'[v][j] = creds[v][j] /\ toml'[j] = toml[j]
        BY <2>1, <3>4, <3>5
      <4> QED BY <2>1, <4>1, FitsFollows DEF PairingInv
    <3> QED BY <2>1, <3>3, <3>6, <3>7, RelayLeavesIssuer DEF PairingInv
  <2>4. CASE /\ toml[i] = peer_endpoint_from_exit_bundle(b) /\ UNCHANGED toml
             /\ cmd' = [pc |-> "credential", user |-> u, id |-> i, bundle |-> b]
    <3>1. cmd' \in PairCommands /\ cmd'.pc = "credential" /\ cmd'.user = u /\ cmd'.id = i /\ cmd'.bundle = b
      BY Zenon, <2>2, <2>4 DEF PairCommands
    <3>2. RelayOK' /\ Declaring'
      BY <1>1, <2>1, <2>4, <3>1 DEF RelayOK, Declaring
    <3>3. CredentialFitsRoute'
      BY Zenon, <2>1, <2>4, FitsFollows DEF PairingInv
    <3> QED BY <2>1, <3>2, <3>3, RelayLeavesIssuer DEF PairingInv
  <2> QED BY <1>2, <2>3, <2>4 DEF accept_exit, same_route
<1>3. ASSUME NEW u \in Users, NEW i \in Ids, NEW c \in [uuid : Nat, paired : BOOLEAN], ~c.paired,
             cmd.pc = "idle", creds' = [creds EXCEPT ![u][i] = c], UNCHANGED <<issuer, xkey, toml, cmd>>
      PROVE  PairingInv'
  <2>1. creds' \in [Users -> [Ids -> [uuid : Nat, paired : BOOLEAN]]]
    BY <1>1, <1>3
  <2>2. \A v \in Users, j \in Ids : creds'[v][j] = IF v = u /\ j = i THEN c ELSE creds[v][j]
    BY <1>1, <1>3
  <2>3. RelayOK' /\ Declaring'
    BY <1>1, <1>3, <2>1 DEF RelayOK, Declaring
  <2>4. CredentialFitsRoute'
    <3>1. \A v \in Users, j \in Ids : creds'[v][j].paired => creds'[v][j] = creds[v][j] /\ toml'[j] = toml[j]
      BY <1>3, <2>2
    <3> QED BY <1>3, <3>1, FitsFollows DEF PairingInv, issuer
  <2> QED BY <1>3, <2>3, <2>4, RelayLeavesIssuer DEF PairingInv
<1>4. ASSUME NEW u \in Users, NEW i \in Ids, cmd_user_peer_set(u, i) \/ cmd_user_peer_remove(u, i)
      PROVE  PairingInv'
  <2>1. cmd.pc = "idle" /\ UNCHANGED <<issuer, xkey, toml, cmd>>
    BY <1>4 DEF cmd_user_peer_set, cmd_user_peer_remove
  <2>2. \E c \in [uuid : Nat, paired : BOOLEAN] : ~c.paired /\ creds' = [creds EXCEPT ![u][i] = c]
    <3>1. NoCred \in [uuid : Nat, paired : BOOLEAN] /\ ~NoCred.paired
      BY DEF NoCred
    <3>2. \A n \in 1..uuids : /\ [uuid |-> n, paired |-> FALSE] \in [uuid : Nat, paired : BOOLEAN]
                              /\ ~[uuid |-> n, paired |-> FALSE].paired
      BY <1>1
    <3> QED BY Zenon, <1>4, <3>1, <3>2 DEF cmd_user_peer_set, cmd_user_peer_remove
  <2> QED BY Zenon, <1>3, <2>1, <2>2
<1>5. ASSUME NEW i \in Ids, Undeclare(i)
      PROVE  PairingInv'
  <2>1. /\ cmd.pc = "idle" /\ toml' = [toml EXCEPT ![i] = NoRoute] /\ UNCHANGED <<issuer, xkey, creds, cmd>>
        /\ \A u \in Users : ~creds[u][i].paired
    BY SMTT(30), <1>5 DEF Undeclare, NoCred
  <2>2. toml' \in [Ids -> [key : Nat, flow : Flows]]
    BY Zenon, <1>1, <2>1 DEF NoRoute, Flows
  <2>3. \A j \in Ids : j # i => toml'[j] = toml[j]
    BY <1>1, <2>1
  <2>4. RelayOK' /\ Declaring'
    BY <1>1, <2>1, <2>2 DEF RelayOK, Declaring
  <2>5. CredentialFitsRoute'
    <3>1. \A v \in Users, j \in Ids : creds'[v][j].paired => creds'[v][j] = creds[v][j] /\ toml'[j] = toml[j]
      BY <2>1, <2>3
    <3> QED BY <2>1, <3>1, FitsFollows DEF PairingInv, issuer
  <2> QED BY <2>1, <2>4, <2>5, RelayLeavesIssuer DEF PairingInv
<1> QED BY <1>2, <1>4, <1>5 DEF Operator


(* The steps of a command that has accepted a bundle.  Nobody else writes  *)
(* routes or credentials until it ends, so what it found still holds.      *)
LEMMA RunningKeepsPairing == PairingInv /\ Running => PairingInv'
<1> SUFFICES ASSUME PairingInv, Running PROVE PairingInv'
  OBVIOUS
<1>1. /\ toml \in [Ids -> [key : Nat, flow : Flows]]
      /\ creds \in [Users -> [Ids -> [uuid : Nat, paired : BOOLEAN]]]
      /\ cmd \in PairCommands /\ bundles \subseteq Bundle
  BY DEF PairingInv, RelayOK, IssuerOK
<1>2. ASSUME NEW at \in {"credential", "rollback", "refresh"}, Goto(at)
      PROVE  /\ cmd' \in PairCommands /\ cmd'.pc = at
             /\ cmd'.user = cmd.user /\ cmd'.id = cmd.id /\ cmd'.bundle = cmd.bundle
  BY Zenon, <1>1, <1>2 DEF Goto, PairCommands
<1>3. CASE ApplyRoute
  <2>1. cmd.pc = "apply" /\ UNCHANGED <<issuer, xkey, toml, creds>> /\ bundles' = bundles
    BY <1>3 DEF ApplyRoute, issuer
  <2>2. PICK at \in {"credential", "rollback"} : Goto(at)
    BY Zenon, <1>3 DEF ApplyRoute
  <2>3. RelayOK'
    BY <1>1, <1>2, <2>1, <2>2 DEF RelayOK
  <2>4. Declaring'
    BY <1>2, <2>1, <2>2 DEF PairingInv, Declaring
  <2>5. CredentialFitsRoute'
    BY <2>1, FitsFollows DEF PairingInv
  <2> QED BY <2>1, <2>3, <2>4, <2>5, RelayLeavesIssuer DEF PairingInv
<1>4. CASE Rollback
  <2>1. /\ cmd.pc = "rollback" /\ cmd' = Ready /\ UNCHANGED <<issuer, xkey, creds>> /\ bundles' = bundles
        /\ toml' \in {toml, [toml EXCEPT ![cmd.id] = NoRoute]}
    BY Zenon, <1>4 DEF Rollback, issuer
  <2>2. \A u \in Users : ~creds[u][cmd.id].paired
    BY <2>1 DEF PairingInv, Declaring
  <2>3. toml' \in [Ids -> [key : Nat, flow : Flows]]
    <3>1. NoRoute \in [key : Nat, flow : Flows]
      BY DEF NoRoute, Flows
    <3> QED BY <1>1, <2>1, <3>1
  <2>4. \A j \in Ids : j # cmd.id => toml'[j] = toml[j]
    BY <1>1, <2>1
  <2>5. RelayOK' /\ Declaring'
    BY <1>1, <2>1, <2>3, ReadyType DEF RelayOK, Declaring
  <2>6. CredentialFitsRoute'
    <3>1. \A v \in Users, j \in Ids : creds'[v][j].paired => creds'[v][j] = creds[v][j] /\ toml'[j] = toml[j]
      BY <2>1, <2>2, <2>4
    <3> QED BY <2>1, <3>1, FitsFollows DEF PairingInv
  <2> QED BY <2>1, <2>5, <2>6, RelayLeavesIssuer DEF PairingInv
<1>5. CASE StoreCredential
  <2>1. cmd.pc = "credential" /\ UNCHANGED <<issuer, xkey, toml>> /\ bundles' = bundles
    BY <1>5 DEF StoreCredential, issuer
  <2>2. CASE cmd' = Ready /\ UNCHANGED creds
    BY <2>1, <2>2, ReadyType, RelayRests
  <2>3. CASE /\ creds' = [creds EXCEPT ![cmd.user][cmd.id] = [uuid |-> cmd.bundle.uuid, paired |-> TRUE]]
             /\ Goto("refresh")
    <3>1. /\ cmd.user \in Users /\ cmd.id \in Ids /\ cmd.bundle \in bundles
          /\ toml[cmd.id] = peer_endpoint_from_exit_bundle(cmd.bundle)
      BY Zenon, <2>1 DEF PairingInv, Declaring
    <3>2. PICK c : c = [uuid |-> cmd.bundle.uuid, paired |-> TRUE]
      BY Zenon
    <3>3. c \in [uuid : Nat, paired : BOOLEAN] /\ c.uuid = cmd.bundle.uuid
      BY <1>1, <3>1, <3>2 DEF Bundle
    <3>4. creds' \in [Users -> [Ids -> [uuid : Nat, paired : BOOLEAN]]]
      BY Zenon, <1>1, <2>3, <3>2, <3>3
    <3>5. \A v \in Users, j \in Ids : creds'[v][j] = IF v = cmd.user /\ j = cmd.id THEN c ELSE creds[v][j]
      BY <1>1, <2>3, <3>2
    <3>6. RelayOK' /\ Declaring'
      BY Zenon, <1>1, <1>2, <2>1, <2>3, <3>4 DEF RelayOK, Declaring
    <3>7. ASSUME NEW v \in Users, NEW j \in Ids, creds'[v][j].paired
          PROVE  \E b \in bundles : b.uuid = creds'[v][j].uuid /\ toml[j] = peer_endpoint_from_exit_bundle(b)
      <4>1. CASE v = cmd.user /\ j = cmd.id
        BY <3>1, <3>3, <3>5, <4>1
      <4>2. CASE ~(v = cmd.user /\ j = cmd.id)
        <5>1. creds'[v][j] = creds[v][j]
          BY <3>5, <4>2
        <5> QED BY <3>7, <5>1 DEF PairingInv, CredentialFitsRoute
      <4> QED BY Zenon, <4>1, <4>2
    <3>8. CredentialFitsRoute'
      BY <2>1, <3>7 DEF CredentialFitsRoute
    <3> QED BY <2>1, <3>6, <3>8, RelayLeavesIssuer DEF PairingInv
  <2> QED BY <1>5, <2>2, <2>3 DEF StoreCredential
<1>6. CASE refresh_stale_subscription_service
  BY <1>6, ReadyType, RelayRests DEF refresh_stale_subscription_service
<1> QED BY <1>3, <1>4, <1>5, <1>6 DEF Running

(* Every step of the issuer, the relays and the operator.                  *)
LEMMA NextKeepsPairing == PairingInv /\ [PairingNext]_pairing_vars => PairingInv'
<1> SUFFICES ASSUME PairingInv, [PairingNext]_pairing_vars PROVE PairingInv'
  OBVIOUS
<1>1. CASE UNCHANGED pairing_vars
  <2>1. UNCHANGED <<toml, creds, cmd>> /\ bundles' = bundles /\ UNCHANGED <<issuer, xkey>>
    BY <1>1 DEF pairing_vars, issuer, relay
  <2> QED BY <2>1, MoreBundles, RelayLeavesIssuer DEF PairingInv
<1>2. CASE KillCommand
  BY <1>2, ReadyType, RelayRests DEF KillCommand
<1>3. CASE cmd_render_config
  <2>1. UNCHANGED <<issuer, xkey, toml, creds>>
    BY <1>3 DEF cmd_render_config
  <2>2. CASE UNCHANGED cmd
    BY <1>3, <2>1, <2>2, RelayRests DEF cmd_render_config, PairingInv, RelayOK
  <2>3. CASE cmd' = [Ready EXCEPT !.pc = "refresh"]
    <3>1. cmd' \in PairCommands /\ cmd'.pc = "refresh"
      BY Zenon, <2>3 DEF Ready, PairCommands
    <3> QED BY <2>1, <3>1, RelayRests
  <2> QED BY <1>3, <2>2, <2>3 DEF cmd_render_config
<1>4. CASE Revive \/ SubRestart
  <2>1. UNCHANGED <<toml, creds, cmd>> /\ bundles' = bundles /\ UNCHANGED <<issuer, xkey>>
    BY <1>4 DEF Revive, SubRestart, issuer
  <2> QED BY <2>1, MoreBundles, RelayLeavesIssuer DEF PairingInv
<1> QED BY <1>1, <1>2, <1>3, <1>4, IssuerKeepsPairing, OperatorKeepsPairing, RunningKeepsPairing
        DEF PairingNext, Relay

(* Before anything is paired there is nothing to fit.                      *)
LEMMA InitPairing == PairingInit => PairingInv
<1> SUFFICES ASSUME PairingInit PROVE PairingInv
  OBVIOUS
<1>1. IssuerOK
  <2>1. NoAccount \in [uuid : Nat, flow : Flows]
    BY DEF NoAccount, Flows
  <2>2. accounts \in [Names -> [uuid : Nat, flow : Flows]]
    BY <2>1 DEF PairingInit
  <2>3. uuids \in Nat /\ xkey \in Nat \ {0} /\ issue = Idle /\ bundles = {}
    BY DEF PairingInit
  <2> QED BY <2>2, <2>3, IdleIssue DEF IssuerOK
<1>2. RelayOK /\ Declaring
  BY Zenon, ReadyType DEF PairingInit, RelayOK, Declaring, NoRoute, NoCred, Flows
<1>3. CredentialFitsRoute /\ NoOrphan
  BY Zenon DEF PairingInit, CredentialFitsRoute, NoOrphan, NoCred
<1> QED BY <1>1, <1>2, <1>3 DEF PairingInv

(* The inductive invariant of pairing holds for any labels, users and      *)
(* endpoint ids and any number of accounts, keys, faults and kills.        *)
THEOREM PairingInvariance == PairingSpec => []PairingInv
<1> QED BY InitPairing, NextKeepsPairing, PTL DEF PairingSpec

(* accept_exit declares a route before it stores the credential, and       *)
(* stores a credential only for the same route: a paired credential fits   *)
(* the route that clients are told, whatever is replaced, killed or rolled *)
(* back.                                                                   *)
THEOREM CredentialsFit == PairingSpec => []CredentialFitsRoute
<1>1. PairingInv => CredentialFitsRoute
  BY DEF PairingInv
<1> QED BY <1>1, PairingInvariance, PTL

(* deliver_or_revoke leaves no account that nobody was handed: delivered,  *)
(* taken back, or named to the operator.                                   *)
THEOREM AccountsAreHanded == PairingSpec => []NoOrphan
<1>1. PairingInv => NoOrphan
  BY DEF PairingInv
<1> QED BY <1>1, PairingInvariance, PTL
==============================================================================
