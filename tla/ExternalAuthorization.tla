------------------------ MODULE ExternalAuthorization ------------------------
(***************************************************************************)
(* The agent's reconciler for externally managed credentials               *)
(* (external_authorization.rs).  It fetches snapshots from the control     *)
(* plane, adopts the ones it may, makes them durable, has vpn-admin apply  *)
(* them to the running sing-box, and acknowledges the revision applied.    *)
(* Local enforcement goes on while the control plane cannot be reached.    *)
(*                                                                         *)
(* A snapshot gives each credential one of five states: none (it does not  *)
(* list it), on, timed (its valid_until is the tick of the clock), revoked *)
(* or bad (the item fails its checks and is quarantined).                  *)
(***************************************************************************)
EXTENDS Integers

CONSTANTS
    Creds,
    Contents,           \* what the control plane may publish
    Faults,             \* what can go wrong
    MaxChanges, MaxCrashes      \* bounds

Status == {"none", "on", "timed", "revoked", "bad"}

FaultNames == {"fetch",         \* a fetch fails, or its body is refused
               "stale",         \* the answer to a fetch is an older snapshot
               "legacy",        \* a snapshot without a revision is published
               "resume",        \* a revocation is taken back within a revision
               "vpn-admin",     \* vpn-admin fails, before or after its change
               "ack",           \* an ACK, or the answer to it, is lost
               "save"}          \* the state file cannot be written

ASSUME ExternalAssumption ==
    /\ Contents \subseteq [Creds -> Status]
    /\ Faults \subseteq FaultNames
    /\ MaxChanges \in Nat /\ MaxCrashes \in Nat

NoRevision == 0         \* Option::None: also the revision of a legacy snapshot
NoCreds == [c \in Creds |-> "none"]
Snapshot == [rev : Nat, items : [Creds -> Status]]

VARIABLES
    cp, past,           \* control plane: its snapshot, and all it had
    cpacked,            \* control plane: the last revision acknowledged
    clock,              \* 0, then 1: the moment timed credentials expire
    live,               \* credentials the running sing-box accepts
    file,               \* PersistedExternalState on disk
    state,              \* ... and in memory
    fingerprint,        \* applied_active_fingerprint
    applied_here,       \* applied_this_process
    etag, quarantined,
    pc, wanted, error,  \* control point of tick, and its locals: active_fingerprint
                        \* and whether there is a fetch_error
    changes, crashes,
    lost                \* history: credentials the snapshot in use left out

outside == <<cp, past, cpacked, clock>>
memory  == <<state, fingerprint, applied_here, etag, quarantined>>
vars    == <<cp, past, cpacked, clock, live, file, state, fingerprint, applied_here, etag,
             quarantined, pc, wanted, error, changes, crashes, lost>>

Never == [rev |-> -1, items |-> NoCreds]        \* no ETag held

Empty == [desired |-> NoCreds, rev |-> NoRevision, applied |-> NoRevision,
          acked |-> NoRevision]

active_at(items, t) == {c \in Creds : items[c] = "on" \/ (items[c] = "timed" /\ t = 0)}

-----------------------------------------------------------------------------
(* parse_snapshot: a bad item is left out, and remembered.                 *)
Parsed(s) == [c \in Creds |-> IF s.items[c] = "bad" THEN "none" ELSE s.items[c]]
Quarantine(s) == {c \in Creds : s.items[c] = "bad"}

(* Mutant: a revocation that is taken back counts as a tightening.         *)
only_tightens_or_restores(now, next, quar) ==
    /\ \A c \in Creds : now[c] # "none" => next[c] # "none" \/ c \in quar
    /\ \A c \in Creds : next[c] # "none" => now[c] # "none"

only_tightens(now, next, quar) ==
    /\ \A c \in Creds : now[c] # "none" => next[c] # "none" \/ c \in quar
    /\ \A c \in Creds : next[c] # "none" =>
          now[c] # "none" /\ next[c] \in {now[c], "revoked"}

(* Mutant: a change within a revision is always refused.                   *)
adopts_new_revisions_only(st, s) ==
    st.rev = NoRevision \/ s.rev > st.rev \/ (s.rev = st.rev /\ Parsed(s) = st.desired)

(* The match of adopt_snapshot: may this snapshot replace the one held?    *)
adopts(st, s) ==
    \/ st.rev = NoRevision
    \/ s.rev > st.rev
    \/ /\ s.rev = st.rev
       /\ \/ Parsed(s) = st.desired
          \/ only_tightens(st.desired, Parsed(s), Quarantine(s))

adopted(st, s) ==
    IF Parsed(s) # st.desired \/ s.rev # st.rev
    THEN [desired |-> Parsed(s), rev |-> s.rev, applied |-> NoRevision, acked |-> NoRevision]
    ELSE st

-----------------------------------------------------------------------------
(* tick, up to the fetch.  A fetch is conditional on the ETag held, so it  *)
(* brings news or nothing.                                                 *)
Answers == {cp} \cup IF "stale" \in Faults THEN past ELSE {}

(* A fetch is due when the process starts and after a tick that failed;    *)
(* otherwise an event or the timer decides.                                *)
SkipFetch ==
    /\ pc = "idle" /\ pc' = "local"
    /\ UNCHANGED <<outside, live, file, memory, wanted, error, changes, crashes, lost>>

NotModified ==
    /\ pc \in {"idle", "due"} /\ pc' = "local"
    /\ etag \in Answers
    /\ UNCHANGED <<outside, live, file, memory, wanted, error, changes, crashes, lost>>

(* The request failed, or the body broke the contract as a whole.          *)
FetchFails ==
    /\ "fetch" \in Faults
    /\ pc \in {"idle", "due"} /\ pc' = "local" /\ error' = TRUE
    /\ etag' \in {etag, Never}
    /\ UNCHANGED <<outside, live, file, state, fingerprint, applied_here, quarantined,
                   wanted, changes, crashes, lost>>

(* A snapshot arrives.  A changed state is saved before anything is done   *)
(* with it; a save that fails ends the tick, with the change in memory.    *)
Fresh ==
    \E s \in Answers \ {etag} :
      LET st == adopted(state, s)
      IN  /\ pc \in {"idle", "due"}
          /\ IF adopts(state, s)
             THEN /\ state' = st
                  /\ quarantined' = Quarantine(s) /\ lost' = Quarantine(s)
                  /\ \/ /\ pc' = "local" /\ etag' = s
                        /\ file' = IF st = state THEN file ELSE st
                     \/ /\ "save" \in Faults /\ st # state
                        /\ pc' = "due" /\ UNCHANGED <<etag, file>>
                  /\ UNCHANGED error
             ELSE /\ etag' = Never /\ error' = TRUE /\ pc' = "local"
                  /\ UNCHANGED <<state, quarantined, file, lost>>
          /\ UNCHANGED <<outside, live, fingerprint, applied_here, wanted, changes, crashes>>

(* Mutant: the fingerprint is noted before the apply has succeeded.        *)
Enforce_notes_first ==
    LET now == active_at(state.desired, clock)
    IN  /\ pc = "local"
        /\ wanted' = now /\ fingerprint' = now
        /\ pc' = IF \/ ~applied_here \/ now # fingerprint
                    \/ (state.rev # NoRevision /\ state.applied # state.rev)
                 THEN "apply" ELSE "ack"
        /\ UNCHANGED <<outside, live, file, state, applied_here, etag, quarantined,
                       error, changes, crashes, lost>>

(* Local enforcement: is there anything to apply?  The set of active       *)
(* credentials is taken now; vpn-admin will take its own.                  *)
Enforce ==
    LET now == active_at(state.desired, clock)
    IN  /\ pc = "local"
        /\ wanted' = now
        /\ pc' = IF \/ ~applied_here \/ now # fingerprint
                    \/ (state.rev # NoRevision /\ state.applied # state.rev)
                 THEN "apply" ELSE "ack"
        /\ UNCHANGED <<outside, live, file, memory, error, changes, crashes, lost>>

(* tick returns, with an error or without; an error makes a fetch due.     *)
Return(failed) ==
    /\ pc' = IF failed THEN "due" ELSE "idle"
    /\ wanted' = {} /\ error' = FALSE

(* vpn-admin external-authorizations.  A failure may come after its change.*)
Apply ==
    /\ pc = "apply"
    /\ \/ /\ live' = active_at(state.desired, clock)
          /\ pc' = "applied" /\ UNCHANGED <<wanted, error>>
       \/ /\ "vpn-admin" \in Faults /\ Return(TRUE)
          /\ live' \in {live, active_at(state.desired, clock)}
    /\ UNCHANGED <<outside, file, memory, changes, crashes, lost>>

Applied ==
    LET st == [state EXCEPT !.applied = state.rev]
    IN  /\ pc = "applied"
        /\ fingerprint' = wanted /\ applied_here' = TRUE /\ state' = st
        /\ \/ file' = st /\ pc' = "ack" /\ UNCHANGED <<wanted, error>>
           \/ "save" \in Faults /\ Return(TRUE) /\ UNCHANGED file
        /\ UNCHANGED <<outside, live, etag, quarantined, changes, crashes, lost>>

(* Mutant: an incomplete revision is acknowledged.                         *)
MayAck_quarantined ==
    state.rev # NoRevision /\ state.applied = state.rev /\ state.acked # state.rev

MayAck ==
    /\ state.rev # NoRevision /\ state.applied = state.rev /\ state.acked # state.rev
    /\ quarantined = {}

(* The revision that was applied is acknowledged, unless the snapshot was  *)
(* adopted in part only.                                                   *)
Ack ==
    LET st == [state EXCEPT !.acked = state.rev]
        ends == Return(error \/ quarantined # {})
    IN  /\ pc = "ack"
        /\ \/ ~MayAck /\ ends /\ UNCHANGED <<cpacked, state, file>>
           \/ /\ MayAck /\ cpacked' = state.rev /\ state' = st
              /\ \/ file' = st /\ ends
                 \/ "save" \in Faults /\ Return(TRUE) /\ UNCHANGED file
           \/ /\ MayAck /\ "ack" \in Faults /\ Return(TRUE)
              /\ cpacked' \in {cpacked, state.rev} /\ UNCHANGED <<state, file>>
        /\ UNCHANGED <<cp, past, clock, live, fingerprint, applied_here, etag, quarantined,
                       changes, crashes, lost>>

Fetch == NotModified \/ FetchFails \/ Fresh
Tick  == SkipFetch \/ Fetch \/ Enforce \/ Apply \/ Applied \/ Ack

-----------------------------------------------------------------------------
(* The agent restarts: ExternalReconciler::open reads the file.            *)
Restart ==
    /\ crashes < MaxCrashes
    /\ crashes' = crashes + 1
    /\ state' = file
    /\ fingerprint' = {} /\ applied_here' = FALSE /\ etag' = Never /\ quarantined' = {}
    /\ Return(TRUE)
    /\ UNCHANGED <<outside, live, file, changes, lost>>

(* The control plane publishes a new revision, or one credential's         *)
(* revocation follows its owner's entitlement, which needs no revision.    *)
Publishes(s) ==
    /\ changes < MaxChanges
    /\ changes' = changes + 1
    /\ cp' = s /\ past' = past \cup {s}
    /\ UNCHANGED <<cpacked, clock, live, file, memory, pc, wanted, error, crashes, lost>>

Publish ==
    \E items \in Contents, rev \in {changes + 2} \cup (IF "legacy" \in Faults THEN {0} ELSE {}) :
      Publishes([rev |-> rev, items |-> items])

EntitlementChanges ==
    \E c \in Creds :
      \/ /\ cp.items[c] \in {"on", "timed"}
         /\ Publishes([cp EXCEPT !.items[c] = "revoked"])
      \/ /\ "resume" \in Faults /\ cp.items[c] = "revoked"
         /\ Publishes([cp EXCEPT !.items[c] = "on"])

Expiry ==
    /\ clock = 0 /\ clock' = 1
    /\ UNCHANGED <<cp, past, cpacked, live, file, memory, pc, wanted, error, changes, crashes, lost>>

Init ==
    /\ cp = [rev |-> 1, items |-> NoCreds] /\ past = {cp} /\ cpacked = NoRevision
    /\ clock = 0 /\ live = {}
    /\ file = Empty /\ state = Empty
    /\ fingerprint = {} /\ applied_here = FALSE /\ etag = Never /\ quarantined = {}
    /\ pc = "due" /\ wanted = {} /\ error = FALSE
    /\ changes = 0 /\ crashes = 0
    /\ lost = {}

Next == Tick \/ Restart \/ Publish \/ EntitlementChanges \/ Expiry

Spec == Init /\ [][Next]_vars

(* The main loop calls tick again and again, and vpn-admin succeeds now    *)
(* and then; nothing is assumed of the control plane.                      *)
FairSpec ==
    Spec /\ WF_vars(Tick) /\ SF_vars(Apply /\ pc' = "applied")

-----------------------------------------------------------------------------
StateRecord ==
    {st \in [desired : [Creds -> Status \ {"bad"}], rev : Nat, applied : Nat, acked : Nat] :
       st.applied \in {NoRevision, st.rev} /\ st.acked \in {NoRevision, st.applied}}

(* The shapes of the state; what was applied or acknowledged is the        *)
(* revision held, or none.                                                 *)
TypeOK ==
    /\ cp \in Snapshot /\ past \subseteq Snapshot /\ cpacked \in Nat
    /\ clock \in 0 .. 1 /\ live \subseteq Creds
    /\ file \in StateRecord /\ state \in StateRecord
    /\ fingerprint \subseteq Creds /\ applied_here \in BOOLEAN
    /\ etag \in Snapshot \cup {Never} /\ quarantined \subseteq Creds
    /\ pc \in {"idle", "due", "local", "apply", "applied", "ack"}
    /\ wanted \subseteq Creds /\ error \in BOOLEAN
    /\ changes \in 0 .. MaxChanges /\ crashes \in 0 .. MaxCrashes
    /\ lost \subseteq Creds

(* Whatever order snapshots arrive in, and across restarts, the node never *)
(* goes back: it adopts no older revision and no snapshot without one, and *)
(* within a revision no credential is granted that was not (adopt_snapshot *)
(* and only_tightens).                                                     *)
NeverWidens ==
    [][file.rev # NoRevision =>
         /\ file'.rev >= file.rev
         /\ file'.rev = file.rev =>
              active_at(file'.desired, 0) \subseteq active_at(file.desired, 0)]_vars

(* An acknowledged revision was applied in full: sing-box accepts exactly  *)
(* the credentials that were active when it was applied, and nothing in it *)
(* was quarantined (the last step of tick; what was quarantined is only    *)
(* known to the process that parsed it, so the second part ends with it).  *)
AckedInFull ==
    [][cpacked' # cpacked =>
         /\ crashes = 0 => lost = {}
         /\ cpacked' = state.rev
         /\ live \in {active_at(state.desired, 0), active_at(state.desired, clock)}]_vars

(* A timed credential of a snapshot with a revision stops working once its *)
(* time is over, whether or not the control plane is ever reached again    *)
(* (tick's local enforcement).  Without a revision only the fingerprint    *)
(* says what was applied, and that can be back at an earlier value.        *)
ExpiryEnforced ==
    [](clock = 1 => <>(state.rev # NoRevision => \A c \in live : state.desired[c] # "timed"))

(* The control plane's last revision is one, and has only ever revoked.    *)
Settled ==
    /\ cp.rev # NoRevision
    /\ \A s \in past : s.rev = cp.rev => active_at(cp.items, 0) \subseteq active_at(s.items, 0)

(* Once the control plane stops changing its mind, the node accepts the    *)
(* credentials it says, quarantined ones excepted, whatever stale answers, *)
(* failures and restarts came before; provided that a fetch that is due    *)
(* again and again also brings the current snapshot (tick).                *)
Converges ==
    SF_vars(Fresh /\ etag' = cp) /\ <>[]Settled => <>[](live = active_at(cp.items, clock))

-----------------------------------------------------------------------------
(* Why the node never goes back: the state in memory is never behind the   *)
(* one on disk, and only moves forward from where it is.                   *)
NotBehind(old, new) ==
    old.rev # NoRevision =>
      /\ new.rev >= old.rev
      /\ new.rev = old.rev => active_at(new.desired, 0) \subseteq active_at(old.desired, 0)

IInv == TypeOK /\ NotBehind(file, state)
==============================================================================
