------------------------------- MODULE Pairing -------------------------------
(***************************************************************************)
(* vpn-admin pair: an exit issues a dedicated account and hands it over in *)
(* a bundle; a relay declares the exit as a route and stores the account's *)
(* credential for one of its users.  The same issuing command on a relay   *)
(* makes the account of a Google hairpin, which an exit accepts.           *)
(*                                                                         *)
(* Each node runs one mutating command at a time (its lock file).  The     *)
(* commands are split where they can be killed; applying a config is one   *)
(* step here, with the outcomes that LiveApply has.  The exit's server     *)
(* parameters are its REALITY key; bundles travel by hand, so they can be  *)
(* lost, kept, and accepted twice.                                         *)
(***************************************************************************)
EXTENDS Naturals, FiniteSets

CONSTANTS
    PairLabels,         \* --label values
    Users,              \* users of the relay
    Ids,                \* endpoint ids the relay may declare
    MaxIssued,          \* accounts issued
    MaxKeys,            \* REALITY keys of the exit
    MaxFaults,          \* failed writes, applies and restarts
    MaxKills,           \* commands killed half way
    MaxRestarts         \* vpn-subscription restarted by someone else

ASSUME PairingAssumption ==
    /\ {MaxIssued, MaxKeys, MaxFaults, MaxKills, MaxRestarts} \subseteq Nat
    /\ MaxKeys > 0

VARIABLES
    accounts, uuids,    \* the issuers' dedicated users, and uuids given out
    xkey,               \* the exit's REALITY key
    issue,              \* the issuing command
    bundles,            \* bundles delivered
    excused,            \* uuids of a killed issue, or named to the operator
    toml,               \* [[peer_endpoints]] of the relay
    live,               \* its sing-box forwards to the exit
    creds,              \* peer_credentials of its users
    sub, substamp,      \* what vpn-subscription serves, and
                        \* subscription-restarted-for.sha256
    hairpin,            \* the exit's hairpin credential
    cmd,                \* the relay's command
    budget              \* faults, kills and restarts so far

issuer == <<accounts, uuids, issue, bundles, excused>>
relay  == <<toml, live, creds, sub, substamp, cmd>>
pairing_vars   == <<issuer, xkey, relay, hairpin, budget>>

Names == {"peer", "hairpin"} \X PairLabels
NoAccount == [uuid |-> 0, flow |-> ""]
NoRoute == [key |-> 0, flow |-> ""]
NoCred == [uuid |-> 0, paired |-> FALSE]
NoBundle == [kind |-> "", uuid |-> 0, key |-> 0, flow |-> ""]
Down == [i \in Ids |-> [key |-> 0, flow |-> "down"]]

Spend(what, max) == budget[what] < max /\ budget' = [budget EXCEPT ![what] = @ + 1]
Fails == Spend("faults", MaxFaults)
Works == UNCHANGED budget

-----------------------------------------------------------------------------
(* issue_exit and issue_hairpin up to the account: the sink is prepared    *)
(* first, a name is used once, and the account is live before it is saved. *)
create_dedicated_user(name, flow) ==
    /\ issue.pc = "idle"
    /\ accounts[name] = NoAccount
    /\ uuids < MaxIssued
    /\ uuids' = uuids + 1
    /\ \/ /\ Works
          /\ accounts' = [accounts EXCEPT ![name] = [uuid |-> uuids', flow |-> flow]]
          /\ issue' = [pc |-> "deliver", name |-> name, key |-> xkey]
       \/ Fails /\ UNCHANGED <<accounts, issue>>
    /\ UNCHANGED <<bundles, excused, xkey, relay, hairpin>>

issue_exit == \E label \in PairLabels, flow \in {"vision", "none"} :
                 create_dedicated_user(<<"peer", label>>, flow)
issue_hairpin == \E label \in PairLabels : create_dedicated_user(<<"hairpin", label>>, "vision")

Issued == accounts[issue.name]
Idle == [pc |-> "idle", name |-> <<"", "">>, key |-> 0]

(* Mutant: a bundle that could not be delivered leaves its account.        *)
deliver_or_revoke_keeps ==
    /\ issue.pc = "deliver"
    /\ \/ /\ Works
          /\ bundles' = bundles \cup {[kind |-> issue.name[1], uuid |-> Issued.uuid,
                                       key |-> issue.key, flow |-> Issued.flow]}
       \/ Fails /\ UNCHANGED bundles
    /\ issue' = Idle
    /\ UNCHANGED <<accounts, uuids, excused, xkey, relay, hairpin>>

deliver_or_revoke ==
    /\ issue.pc = "deliver"
    /\ \/ /\ Works
          /\ bundles' = bundles \cup {[kind |-> issue.name[1], uuid |-> Issued.uuid,
                                       key |-> issue.key, flow |-> Issued.flow]}
          /\ issue' = Idle
       \/ Fails /\ issue' = [issue EXCEPT !.pc = "revoke"] /\ UNCHANGED bundles
    /\ UNCHANGED <<accounts, uuids, excused, xkey, relay, hairpin>>

(* The account is taken back, or the operator is told to remove it.        *)
remove_dedicated_user ==
    /\ issue.pc = "revoke"
    /\ issue' = Idle
    /\ \/ Works /\ accounts' = [accounts EXCEPT ![issue.name] = NoAccount] /\ UNCHANGED excused
       \/ Fails /\ excused' = excused \cup {Issued.uuid} /\ UNCHANGED accounts
    /\ UNCHANGED <<uuids, bundles, xkey, relay, hairpin>>

KillIssue ==
    /\ issue.pc # "idle"
    /\ Spend("kills", MaxKills)
    /\ excused' = excused \cup {Issued.uuid}
    /\ issue' = Idle
    /\ UNCHANGED <<accounts, uuids, bundles, xkey, relay, hairpin>>

(* The exit's operator removes an account, or rotates the REALITY key.     *)
RemoveAccount(name) ==
    /\ issue.pc = "idle" /\ accounts[name] # NoAccount
    /\ accounts' = [accounts EXCEPT ![name] = NoAccount]
    /\ UNCHANGED <<uuids, issue, bundles, excused, xkey, relay, hairpin, budget>>

RotateKey ==
    /\ issue.pc = "idle" /\ xkey < MaxKeys
    /\ xkey' = xkey + 1
    /\ UNCHANGED <<issuer, relay, hairpin, budget>>

accept_hairpin(b) ==
    /\ issue.pc = "idle" /\ b.kind = "hairpin"
    /\ \/ Works /\ hairpin' = b.uuid
       \/ Fails /\ UNCHANGED hairpin
    /\ UNCHANGED <<issuer, xkey, relay>>

-----------------------------------------------------------------------------
(* The relayed endpoint that a bundle describes.                           *)
peer_endpoint_from_exit_bundle(b) == [key |-> b.key, flow |-> b.flow]

(* Mutant: two declarations are the same route whatever their flow.        *)
same_route_any_flow(existing, wanted) == existing.key = wanted.key

same_route(existing, wanted) == existing = wanted

Ready == [pc |-> "idle", user |-> "", id |-> "", bundle |-> NoBundle]
Goto(label) == cmd' = [cmd EXCEPT !.pc = label]
Declared == {i \in Ids : toml[i] # NoRoute}

(* accept_exit up to the declaration.  A refusal leaves everything; a      *)
(* route that is already declared is not applied again.                    *)
accept_exit(u, i, b, replace) ==
    LET wanted == peer_endpoint_from_exit_bundle(b)
    IN  /\ cmd.pc = "idle" /\ b.kind = "peer"
        /\ creds[u][i] = NoCred \/ replace
        /\ \/ /\ toml[i] = NoRoute
              /\ toml' = [toml EXCEPT ![i] = wanted]
              /\ cmd' = [pc |-> "apply", user |-> u, id |-> i, bundle |-> b]
           \/ /\ toml[i] # NoRoute /\ same_route(toml[i], wanted)
              /\ cmd' = [pc |-> "credential", user |-> u, id |-> i, bundle |-> b]
              /\ UNCHANGED toml
        /\ UNCHANGED <<issuer, xkey, live, creds, sub, substamp, hairpin, budget>>

(* The relay's config for the new route.  A failed apply normally keeps    *)
(* the previous process; when its own recovery fails too, either may run.  *)
ApplyRoute ==
    /\ cmd.pc = "apply"
    /\ \/ Works /\ live' = TRUE /\ Goto("credential")
       \/ Fails /\ live' \in {live, TRUE} /\ Goto("rollback")
    /\ UNCHANGED <<issuer, xkey, toml, creds, sub, substamp, hairpin>>

(* deployment.toml's backup is put back and applied, errors ignored.       *)
Rollback ==
    /\ cmd.pc = "rollback"
    /\ \/ /\ Works
          /\ toml' = [toml EXCEPT ![cmd.id] = NoRoute]
          /\ live' = (\E i \in Ids : toml'[i] # NoRoute)
       \/ /\ Fails
          /\ toml' \in {toml, [toml EXCEPT ![cmd.id] = NoRoute]}
          /\ UNCHANGED live
    /\ cmd' = Ready
    /\ UNCHANGED <<issuer, xkey, creds, sub, substamp, hairpin>>

StoreCredential ==
    /\ cmd.pc = "credential"
    /\ \/ /\ Works
          /\ creds' = [creds EXCEPT ![cmd.user][cmd.id] =
                         [uuid |-> cmd.bundle.uuid, paired |-> TRUE]]
          /\ Goto("refresh")
       \/ Fails /\ cmd' = Ready /\ UNCHANGED creds
    /\ UNCHANGED <<issuer, xkey, toml, live, sub, substamp, hairpin>>

(* refresh_stale_subscription_service: a process that serves other routes  *)
(* than deployment.toml's is restarted, once for each target.              *)
Stale == sub \notin {toml, Down}
refresh_stale_subscription_service ==
    /\ cmd.pc = "refresh"
    /\ \/ /\ Stale /\ substamp # toml
          /\ \/ Works /\ sub' = toml /\ substamp' = toml
             \/ Fails /\ sub' = toml /\ UNCHANGED substamp
             \/ Fails /\ sub' \in {sub, Down} /\ UNCHANGED substamp
       \/ ~(Stale /\ substamp # toml) /\ UNCHANGED <<sub, substamp, budget>>
    /\ cmd' = Ready
    /\ UNCHANGED <<issuer, xkey, toml, live, creds, hairpin>>

(* A killed command; what was being applied may or may not be running.     *)
KillCommand ==
    /\ cmd.pc # "idle"
    /\ Spend("kills", MaxKills)
    /\ live' \in IF cmd.pc = "apply" THEN {live, TRUE} ELSE {live}
    /\ cmd' = Ready
    /\ UNCHANGED <<issuer, xkey, toml, creds, sub, substamp, hairpin>>

(* user peer set and remove: a credential typed in by hand.                *)
cmd_user_peer_set(u, i) ==
    /\ cmd.pc = "idle" /\ i \in Declared
    /\ \E n \in 1..uuids : creds' = [creds EXCEPT ![u][i] = [uuid |-> n, paired |-> FALSE]]
    /\ UNCHANGED <<issuer, xkey, toml, live, sub, substamp, cmd, hairpin, budget>>

cmd_user_peer_remove(u, i) ==
    /\ cmd.pc = "idle" /\ creds[u][i] # NoCred
    /\ creds' = [creds EXCEPT ![u][i] = NoCred]
    /\ UNCHANGED <<issuer, xkey, toml, live, sub, substamp, cmd, hairpin, budget>>

(* The operator deletes the block of a route that nobody holds any more.   *)
Undeclare(i) ==
    /\ cmd.pc = "idle" /\ i \in Declared
    /\ \A u \in Users : creds[u][i] = NoCred
    /\ toml' = [toml EXCEPT ![i] = NoRoute]
    /\ UNCHANGED <<issuer, xkey, live, creds, sub, substamp, cmd, hairpin, budget>>

(* Mutant: the timer trusts what it applied last.                          *)
cmd_render_config_skips ==
    /\ cmd.pc = "idle"
    /\ cmd' = [Ready EXCEPT !.pc = "refresh"]
    /\ UNCHANGED <<issuer, xkey, toml, live, creds, sub, substamp, hairpin, budget>>

(* The reconcile timer's render-config.                                    *)
cmd_render_config ==
    /\ cmd.pc = "idle"
    /\ \/ /\ Works
          /\ live' = (Declared # {})
          /\ cmd' = [Ready EXCEPT !.pc = "refresh"]
       \/ Fails /\ UNCHANGED <<live, cmd>>
    /\ UNCHANGED <<issuer, xkey, toml, creds, sub, substamp, hairpin>>

(* vpn-subscription started by systemd after a failure, or by hand.        *)
Revive == sub = Down /\ sub' = toml /\ UNCHANGED <<issuer, xkey, toml, live, creds, substamp, cmd,
                                                   hairpin, budget>>
SubRestart ==
    /\ sub # toml
    /\ Spend("restarts", MaxRestarts)
    /\ sub' = toml
    /\ UNCHANGED <<issuer, xkey, toml, live, creds, substamp, cmd, hairpin>>

-----------------------------------------------------------------------------
PairingInit ==
    /\ accounts = [n \in Names |-> NoAccount] /\ uuids = 0 /\ xkey = 1
    /\ issue = Idle /\ bundles = {} /\ excused = {}
    /\ toml = [i \in Ids |-> NoRoute] /\ live = FALSE
    /\ creds = [u \in Users |-> [i \in Ids |-> NoCred]]
    /\ sub = toml /\ substamp = Down
    /\ hairpin = 0
    /\ cmd = Ready
    /\ budget = [faults |-> 0, kills |-> 0, restarts |-> 0]

Issuer ==
    \/ issue_exit \/ issue_hairpin \/ deliver_or_revoke \/ remove_dedicated_user
    \/ KillIssue \/ RotateKey
    \/ \E n \in Names : RemoveAccount(n)
    \/ \E b \in bundles : accept_hairpin(b)

(* What the relay's operator does.                                         *)
Operator ==
    \/ \E u \in Users, i \in Ids, b \in bundles, r \in BOOLEAN : accept_exit(u, i, b, r)
    \/ \E u \in Users, i \in Ids : cmd_user_peer_set(u, i) \/ cmd_user_peer_remove(u, i)
    \/ \E i \in Ids : Undeclare(i)

Running == ApplyRoute \/ Rollback \/ StoreCredential \/ refresh_stale_subscription_service

Relay == Operator \/ Running \/ KillCommand \/ cmd_render_config \/ Revive \/ SubRestart

PairingNext == Issuer \/ Relay
PairingSpec == PairingInit /\ [][PairingNext]_pairing_vars

-----------------------------------------------------------------------------
(* A credential that came by bundle fits the declared route: the account   *)
(* it stands for was made for the key and the flow that clients are told,  *)
(* however often bundles are accepted again or replaced.                   *)
CredentialFitsRoute ==
    \A u \in Users, i \in Ids :
       creds[u][i].paired =>
          \E b \in bundles : b.uuid = creds[u][i].uuid
                             /\ toml[i] = peer_endpoint_from_exit_bundle(b)

(* No account is left that nobody was handed: each one is in a delivered   *)
(* bundle, is being issued, or belongs to a command that was killed or     *)
(* that named it to the operator.                                          *)
NoOrphan ==
    \A n \in Names :
       accounts[n] # NoAccount =>
          \/ accounts[n].uuid \in {b.uuid : b \in bundles} \cup excused
          \/ issue.pc # "idle" /\ issue.name = n

(* Whatever fails or is killed, once the operator rests the reconcile      *)
(* timer gets the relay to forward to the exit of every credential its     *)
(* users hold, and vpn-subscription to serve the declared routes, unless   *)
(* it has been restarted for them before.                                  *)
Fairness == WF_pairing_vars(Running) /\ WF_pairing_vars(cmd_render_config /\ Works) /\ WF_pairing_vars(Revive)
InEffect ==
    /\ (\E u \in Users, i \in Ids : creds[u][i] # NoCred) => live
    /\ sub = toml \/ substamp = toml
PairingTakesEffect == Fairness /\ <>[][~Operator]_pairing_vars => <>[]InEffect

==============================================================================
