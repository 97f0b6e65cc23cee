--------------------------- MODULE Authorizations ---------------------------
(***************************************************************************)
(* Authorization records and the part of users.json they own.  The agent   *)
(* sends vpn-admin sets of authorizations: compatibility credentials       *)
(* (external sync) and native leases (lease-pool sync).  Each writer       *)
(* replaces its own users and carries all others over; the renderer        *)
(* projects both back into one set and validates it again.                 *)
(*                                                                         *)
(* Prefixes of ids and names (cred_, ext_, native_) are membership in      *)
(* small sets, secrets are names, and None is an absent or empty one.      *)
(***************************************************************************)
EXTENDS Integers, FiniteSets, SequencesExt

LOCAL None == "none"

NATIVE_LEASE == 2
OVERLAP_SECS == 2
COMPAT_MAX_LIFETIME == 5

IsCredential(id) == id \in {"cred_1", "cred_2", "cred_3", "cred_n"}
IsNative(principal) == principal \in {"native_a", "native_b"}
IsExternal(principal) == principal \in {"ext_a", "ext_b"}

(* An Authorization.                                                       *)
Authorization(principal, id, class, from, until, revoked, uuid, password) ==
    [principal |-> principal, id |-> id, class |-> class, from |-> from, until |-> until,
     revoked |-> revoked, uuid |-> uuid, password |-> password]

validate_item(a) ==
    /\ IsCredential(a.id)
    /\ IF a.class = "native" THEN IsNative(a.principal) ELSE IsExternal(a.principal)
    /\ \/ a.revoked
       \/ /\ a.until - a.from > 0
          /\ ~(a.uuid = None /\ a.password = None)
          /\ "" \notin {a.uuid, a.password}
          /\ a.until - a.from <= IF a.class = "native" THEN NATIVE_LEASE ELSE COMPAT_MAX_LIFETIME

is_active_at(a, t) == ~a.revoked /\ a.from <= t /\ t < a.until

-----------------------------------------------------------------------------
(* The sweep of validate_set: starts and ends in order of time, ends       *)
(* first, as pairs of a time and the index of a credential, negative for   *)
(* its end.                                                                *)
Delta(e) == IF e[2] > 0 THEN 1 ELSE -1
EndsFirst(e, f) == e[1] < f[1] \/ (e[1] = f[1] /\ e[2] < f[2])
Events(creds) ==
    {<<creds[i].from, i>> : i \in DOMAIN creds} \cup {<<creds[i].until, -i>> : i \in DOMAIN creds}
Sweep(events) ==
    \A n \in DOMAIN events :
       FoldLeft(LAMBDA sum, e : sum + Delta(e), 0, SubSeq(events, 1, n)) <= 2

(* Mutant: starts sort before ends.                                        *)
SweepOf_starts_first(creds) ==
    Sweep(SetToSortSeq(Events(creds), LAMBDA e, f : e[1] < f[1] \/ (e[1] = f[1] /\ e[2] > f[2])))

SweepOf(creds) == Sweep(SetToSortSeq(Events(creds), EndsFirst))

overlap(a, b) ==
    (IF a.until <= b.until THEN a.until ELSE b.until) - (IF a.from >= b.from THEN a.from ELSE b.from)

validate_set(set) ==
    \A principal \in {set[i].principal : i \in DOMAIN set} :
       LET creds == SelectSeq(set, LAMBDA a : a.principal = principal /\ ~a.revoked)
       IN  /\ \A i, j \in DOMAIN creds : i < j => overlap(creds[i], creds[j]) <= OVERLAP_SECS
           /\ SweepOf(creds)

validate_authorizations(set) ==
    /\ \A i \in DOMAIN set : validate_item(set[i])
    /\ \A i, j \in DOMAIN set : set[i].id = set[j].id => i = j
    /\ validate_set(set)

-----------------------------------------------------------------------------
(* The users.json side.  is_active of a user with a cred_ id also wants    *)
(* its window to have begun.                                               *)
User(id, name, enabled, uuid, password, created, expires) ==
    [id |-> id, name |-> name, enabled |-> enabled, uuid |-> uuid, password |-> password,
     created |-> created, expires |-> expires]
user_is_active(u, t) ==
    u.enabled /\ (IsCredential(u.id) => u.created <= t) /\ t < u.expires

is_external(u) == IsCredential(u.id) /\ IsExternal(u.name)
is_lease_user(u) ==
    \/ u.id \in {"lease-0000", "lease-0001"}
    \/ IsCredential(u.id) /\ IsNative(u.name)

Stored(secret) == IF secret = None THEN "" ELSE secret
ToUser(a) ==
    User(a.id, a.principal, ~a.revoked, Stored(a.uuid), Stored(a.password), a.from, a.until)
Uuids(set) == {set[i].uuid : i \in DOMAIN set} \ {None}
Distinct(set) ==
    \A i, j \in DOMAIN set : set[i].uuid = set[j].uuid /\ set[i].uuid # None => i = j
ById(a, b) == <<a.id, b.id>> \in {<<"cred_1", "cred_2">>, <<"cred_1", "cred_3">>, <<"cred_2", "cred_3">>}

Rejected == [ok |-> FALSE]
Accepted(users) == [ok |-> TRUE, users |-> users]

(* external_authorization.rs's reconcile: all compatibility credentials.   *)
reconcile_external(users, set) ==
    LET others == SelectSeq(users, LAMBDA u : ~is_external(u))
    IN  IF /\ validate_authorizations(set)
           /\ \A i \in DOMAIN set : set[i].class = "compat"
           /\ Distinct(set)
           /\ \A i \in DOMAIN others : others[i].uuid \notin Uuids(set)
           /\ \A i \in DOMAIN others, j \in DOMAIN set : others[i].id # set[j].id
        THEN LET sorted == SortSeq(set, ById)
             IN  Accepted(others \o [i \in DOMAIN sorted |-> ToUser(sorted[i])])
        ELSE Rejected

(* lease_pool.rs's reconcile, for slots with authorization metadata, in    *)
(* the order of the slots.                                                 *)
reconcile_leases(users, set) ==
    LET others == SelectSeq(users, LAMBDA u : ~is_lease_user(u))
    IN  IF /\ \A i \in DOMAIN set : None \notin {set[i].uuid, set[i].password} /\ set[i].until > 0
           /\ validate_authorizations(set)
           /\ Distinct(set)
           /\ \A i \in DOMAIN others : others[i].uuid \notin Uuids(set)
        THEN Accepted(others \o [i \in DOMAIN set |-> ToUser(set[i])])
        ELSE Rejected

(* render_server_config_for_deployment: the set is put together again.     *)
Projected(users) ==
    LET creds == SelectSeq(users, LAMBDA u : IsCredential(u.id))
    IN  [i \in DOMAIN creds |->
           Authorization(creds[i].name, creds[i].id,
                         IF IsNative(creds[i].name) THEN "native" ELSE "compat",
                         creds[i].created, creds[i].expires, ~creds[i].enabled,
                         creds[i].uuid, creds[i].password)]
Renderable(users) == validate_authorizations(Projected(users))
=============================================================================
