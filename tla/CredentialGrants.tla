-------------------------- MODULE CredentialGrants --------------------------
(***************************************************************************)
(* The time-bounded credential grants of one operator-created account:     *)
(* what `vpn user renew-native` does to them, which of them the sing-box   *)
(* document carries, and the overlap policy of credential_policy.rs.       *)
(*                                                                         *)
(* A secret (a VLESS UUID with its Hysteria2 password) is a number, and    *)
(* `issued` counts those generated so far.  Every stored grant has class   *)
(* Native and generation 1: renew-native is the only code that stores one. *)
(* The apply of a changed store is AdminCommands' subject and succeeds.    *)
(***************************************************************************)
EXTENDS Integers, Sequences, FiniteSets

CONSTANTS
    NATIVE_LEASE_SECS,
    MAX_OVERLAP_SECS,
    VALID_FROM_SKEW_GRACE_SECS,
    MAX_LIVE_GRANTS_PER_CLASS,
    Horizon,            \* bound: the clock
    MaxIssues           \* bound: secrets generated

ASSUME PolicyAssumption ==
    /\ NATIVE_LEASE_SECS \in Nat /\ MAX_OVERLAP_SECS \in Nat
    /\ VALID_FROM_SKEW_GRACE_SECS \in Nat /\ VALID_FROM_SKEW_GRACE_SECS < NATIVE_LEASE_SECS
    /\ MAX_LIVE_GRANTS_PER_CLASS \in Nat \ {0}
    /\ Horizon \in Nat /\ MaxIssues \in Nat

VARIABLES
    account,            \* [secret, enabled, expires, credentials]
    time, issued

grant_vars == <<account, time, issued>>

(* i64::MAX, and revoked_at when it is absent.                             *)
Forever == Horizon + NATIVE_LEASE_SECS + 1

(* CredentialGrant::new, and the fields renewal must not touch.            *)
NewGrant(secret, from, until) ==
    [secret |-> secret, from |-> from, until |-> until, revoked |-> Forever]
Grant == [secret : Nat, from : Nat, until : Nat, revoked : Nat]

-----------------------------------------------------------------------------
(* CompatUser::is_active for an account whose id is not a cred_ id.        *)
account_active(a, t) == a.enabled /\ t < a.expires

is_revoked_at(g, t) == g.revoked <= t

grant_is_authorized(g, t) ==
    /\ ~is_revoked_at(g, t)
    /\ t + VALID_FROM_SKEW_GRACE_SECS >= g.from
    /\ t < g.until

overlap_secs(a, b) ==
    LET start == IF a.from >= b.from THEN a.from ELSE b.from
        end   == IF a.until <= b.until THEN a.until ELSE b.until
    IN  IF end >= start THEN end - start ELSE 0

(* CredentialGrant::validate: the window.                                  *)
validate_grant(g) == g.from < g.until /\ g.revoked >= g.from

validate_grant_set(grants) ==
    /\ \A i \in DOMAIN grants : validate_grant(grants[i])
    /\ \A i, j \in DOMAIN grants :
          i # j => overlap_secs(grants[i], grants[j]) <= MAX_OVERLAP_SECS
    /\ \A anchor \in DOMAIN grants :
          Cardinality({i \in DOMAIN grants : grant_is_authorized(grants[i], grants[anchor].from)})
             <= MAX_LIVE_GRANTS_PER_CLASS

live_grants(a, t) == {i \in DOMAIN a.credentials : grant_is_authorized(a.credentials[i], t)}

(* The last of the live grants: their generations are equal, and           *)
(* max_by_key returns the last maximum.                                    *)
IsCurrent(a, t, i) == i \in live_grants(a, t) /\ \A j \in live_grants(a, t) : j <= i

(* An account without stored grants holds one made of its own fields.      *)
effective_grants(a) ==
    IF a.credentials # <<>> THEN a.credentials ELSE <<NewGrant(a.secret, 0, a.expires)>>

(* The user entries of the sing-box document, by their secrets.            *)
Entries(a, t) ==
    LET grants == effective_grants(a)
    IN  IF account_active(a, t)
        THEN {grants[i].secret : i \in {j \in DOMAIN grants : grant_is_authorized(grants[j], t)}}
        ELSE {}

-----------------------------------------------------------------------------
(* CredentialGrant::renew_until.                                           *)
renew_until(g, until, t) ==
    IF is_revoked_at(g, t) \/ t >= g.until \/ until < g.until THEN g
    ELSE [g EXCEPT !.until = until]

Mint ==
    /\ issued < MaxIssues
    /\ issued' = issued + 1
    /\ account' = [account EXCEPT !.credentials =
                     Append(@, NewGrant(issued + 1, time, time + NATIVE_LEASE_SECS))]

Renew(i) ==
    /\ account' = [account EXCEPT !.credentials[i] =
                     renew_until(@, time + NATIVE_LEASE_SECS, time)]
    /\ UNCHANGED issued

(* Mutant: every call mints a grant.                                       *)
cmd_user_renew_native_remints == Mint /\ UNCHANGED time

cmd_user_renew_native ==
    /\ \/ live_grants(account, time) = {} /\ Mint
       \/ \E i \in live_grants(account, time) : IsCurrent(account, time, i) /\ Renew(i)
    /\ UNCHANGED time

(* cmd_user_rotate_vless, _hysteria and _credentials.                      *)
cmd_user_rotate ==
    /\ issued < MaxIssues
    /\ issued' = issued + 1
    /\ account' = [account EXCEPT !.secret = issued + 1]
    /\ UNCHANGED time

cmd_user_set_enabled ==
    /\ account' = [account EXCEPT !.enabled = ~@]
    /\ UNCHANGED <<time, issued>>

cmd_user_set_expiry ==
    /\ \E t \in {time, Forever} : account' = [account EXCEPT !.expires = t]
    /\ UNCHANGED <<time, issued>>

Elapse ==
    /\ time < Horizon
    /\ time' = time + 1
    /\ UNCHANGED <<account, issued>>

(* build_new_operator_user.                                                *)
GrantInit ==
    /\ account = [secret |-> 1, enabled |-> TRUE, expires |-> Forever, credentials |-> <<>>]
    /\ time = 0 /\ issued = 1

GrantNext == cmd_user_renew_native \/ cmd_user_rotate \/ cmd_user_set_enabled
             \/ cmd_user_set_expiry \/ Elapse

GrantSpec == GrantInit /\ [][GrantNext]_grant_vars

-----------------------------------------------------------------------------
(* The overlap policy, which nothing enforces when the store is read or    *)
(* written, is kept by renew-native itself.                                *)
InPolicy == validate_grant_set(account.credentials)

(* Renewal never brings back a grant that has died, and renewing before    *)
(* expiry leaves the sing-box document as it is, so nobody is cut off:     *)
(* only the end of the one live grant moves, and only forward.             *)
Silent ==
    account'.credentials # account.credentials =>
       /\ \A i \in DOMAIN account.credentials :
             account.credentials[i].until <= time =>
                account'.credentials[i] = account.credentials[i]
       /\ live_grants(account, time) # {} => Entries(account', time) = Entries(account, time)

RenewalIsSilent == []InPolicy /\ [][Silent]_grant_vars

(* "The sing-box server renders every user from effective_grants(), while  *)
(* clients are handed the user's own vless_uuid / hysteria2_password.      *)
(* Both views must therefore carry the same secrets".                      *)
ViewsAgree == account_active(account, time) => account.secret \in Entries(account, time)
=============================================================================
