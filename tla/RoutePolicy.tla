----------------------------- MODULE RoutePolicy -----------------------------
(***************************************************************************)
(* The route rules of the sing-box server config: how server.rs builds     *)
(* them for an exit and for a relay, how sing-box evaluates them, and what *)
(* the doctor accepts.                                                     *)
(*                                                                         *)
(* A rule is a record of criteria and an action; an empty criterion is an  *)
(* absent key.  suf is domain_suffix = GOOGLE_EGRESS_DOMAINS, v6 is        *)
(* ip_version = 6.  Actions: "sniff", "resolve" and "options"              *)
(* (route-options) go on to the next rule; "reject", "direct" and          *)
(* "hairpin" end the evaluation.                                           *)
(*                                                                         *)
(* A deployment also says whether the node's own address is known (own)    *)
(* and whether the hairpin credential file is there (uuid).  users maps a  *)
(* user to its flags; a user stands for its active principals.             *)
(***************************************************************************)
EXTENDS Deployment

Inbounds == {"reality", "hy2"}
SubscriptionPort == 8080
TargetPort == 8443

(* C16_DENY_IPV4_CIDRS and _IPV6_CIDRS, by one representative address.     *)
DenyV4 == {"loopback", "inner4"}
DenyV6 == {"inner6"}
V6 == {"inner6", "public6"}
ProbeIps == {"1.1.1.1"}
ProbeDomains == {"gstatic"}
Google == {"gstatic", "google"}     \* names under GOOGLE_EGRESS_DOMAINS

(* A rule with no criterion.                                               *)
Rule(act) == [inb |-> {}, user |-> {}, net |-> "", port |-> 0, ip |-> {}, dom |-> {},
              suf |-> FALSE, v6 |-> FALSE, act |-> act]

Probes(users) == {u \in DOMAIN users : users[u].active /\ users[u].probe}
Hairpins(users) == {u \in DOMAIN users : users[u].active /\ users[u].hairpin}

-----------------------------------------------------------------------------
(* own_address_deny_rule, empty when no own address is known.              *)
own_address_deny_rule(d, inbounds) ==
    IF d.own THEN <<[Rule("reject") EXCEPT !.inb = inbounds, !.ip = {"own"}]>> ELSE <<>>

(* Mutant: names are not resolved before the address rules.                *)
c16_egress_deny_rules_unresolved(inbounds) ==
    << [Rule("reject") EXCEPT !.inb = inbounds, !.ip = DenyV4],
       [Rule("reject") EXCEPT !.inb = inbounds, !.ip = DenyV6],
       [Rule("reject") EXCEPT !.inb = inbounds, !.net = "tcp", !.port = 25] >>

c16_egress_deny_rules(inbounds) ==
    << [Rule("resolve") EXCEPT !.inb = inbounds],
       [Rule("reject") EXCEPT !.inb = inbounds, !.ip = DenyV4],
       [Rule("reject") EXCEPT !.inb = inbounds, !.ip = DenyV6],
       [Rule("reject") EXCEPT !.inb = inbounds, !.net = "tcp", !.port = 25] >>

(* The literal-IPv6 policy and the TLS spoof.                              *)
exit_egress_rules(d, hairpin_active) ==
    LET policy == IF d.egress # None THEN d.egress
                  ELSE IF hairpin_active THEN "reject_google" ELSE "allow"
        sniff  == IF hairpin_active THEN <<Rule("sniff")>>
                  ELSE IF policy = "reject_google"
                  THEN <<[Rule("sniff") EXCEPT !.v6 = TRUE, !.port = 443]>>
                  ELSE <<>>
        reject == IF policy = "allow" THEN <<>>
                  ELSE IF policy = "reject_all" THEN <<[Rule("reject") EXCEPT !.v6 = TRUE]>>
                  ELSE <<[Rule("reject") EXCEPT !.v6 = TRUE, !.suf = TRUE,
                                   !.port = IF hairpin_active THEN 0 ELSE 443]>>
        spoof  == IF d.spoof
                  THEN << [Rule("sniff") EXCEPT !.net = "tcp", !.port = 443],
                          [Rule("options") EXCEPT !.suf = TRUE, !.net = "tcp", !.port = 443] >>
                  ELSE <<>>
    IN  sniff \o reject \o spoof

(* The rule for one declared forwarding target.                            *)
TargetRule(act, host) ==
    [Rule(act) EXCEPT !.net = "tcp", !.port = TargetPort,
                      !.ip = {host} \ {"name"}, !.dom = {host} \cap {"name"}]

-----------------------------------------------------------------------------
(* The exit, from the back: the hairpin route, the egress policy, the      *)
(* self-test exception, the C-16 set after the identity-scoped rules.      *)
apply_google_egress_hairpin == <<[Rule("hairpin") EXCEPT !.suf = TRUE]>>

apply_exit_loopback_selftest_exception(users, rules) ==
    IF Probes(users) = {} THEN rules
    ELSE <<[Rule("direct") EXCEPT !.user = Probes(users), !.net = "tcp", !.ip = {"loopback"},
                                  !.port = SubscriptionPort]>> \o rules

(* The number of leading rules at these positions (take_while().count()).  *)
LeadingCount(rules, positions) ==
    Max({n \in 0..Len(rules) : 1..n \subseteq positions})

Splice(rules, n, new) ==
    SubSeq(rules, 1, n) \o new \o SubSeq(rules, n + 1, Len(rules))

insert_after_identity_scoped_rules(rules, new) ==
    Splice(rules, LeadingCount(rules, {i \in DOMAIN rules : rules[i].user # {}}), new)

apply_c16_egress_policy(d, rules) ==
    insert_after_identity_scoped_rules(rules,
        c16_egress_deny_rules(Inbounds) \o own_address_deny_rule(d, Inbounds))

ProbeRules(ids) ==
    << [Rule("direct") EXCEPT !.user = ids, !.net = "tcp", !.port = 443, !.ip = ProbeIps],
       [Rule("direct") EXCEPT !.user = ids, !.net = "tcp", !.port = 443, !.dom = ProbeDomains],
       [Rule("reject") EXCEPT !.user = ids] >>

(* Confinement goes after the leading rules that name only probes.         *)
apply_probe_user_confinement(users, rules) ==
    LET ids == Probes(users)
        scoped == {i \in DOMAIN rules : rules[i].user # {} /\ rules[i].user \subseteq ids}
    IN  IF ids = {} THEN rules
        ELSE Splice(rules, LeadingCount(rules, scoped), ProbeRules(ids))

ExitRules(d, users) ==
    LET hairpin_active == d.hairpin /\ d.uuid
        policy == exit_egress_rules(d, hairpin_active)
                  \o (IF hairpin_active THEN apply_google_egress_hairpin ELSE <<>>)
    IN  apply_probe_user_confinement(users,
          apply_c16_egress_policy(d,
            apply_exit_loopback_selftest_exception(users, policy)))

-----------------------------------------------------------------------------
exit_principal_ids(d, users) ==
    IF ~exit_principals_enabled(d) THEN {}
    ELSE {u \in DOMAIN users : users[u].active /\ users[u].principal
                               /\ ~users[u].hairpin /\ ~users[u].probe}

(* A relay that opted in is an exit for some users: rules scoped to them.  *)
exit_principal_rules(d, ids) ==
    LET scope(r) == [r EXCEPT !.inb = {"reality"}, !.user = ids]
        targets  == SetToSeq(relay_targets(d))
        rules == c16_egress_deny_rules({"reality"}) \o own_address_deny_rule(d, {"reality"})
                 \o [i \in DOMAIN targets |-> TargetRule("reject", targets[i])]
                 \o exit_egress_rules(d, FALSE) \o <<Rule("direct")>>
    IN  IF ids = {} THEN <<>> ELSE [i \in DOMAIN rules |-> scope(rules[i])]

(* The hairpin principals: sniffed, then only the Google names.            *)
HairpinRules(d, u) ==
    LET own(act) == [Rule(act) EXCEPT !.inb = {"reality"}, !.user = {u}]
    IN  <<own("sniff")>>
        \o (IF d.spoof
            THEN <<[own("options") EXCEPT !.suf = TRUE, !.net = "tcp", !.port = 443]>> ELSE <<>>)
        \o <<[own("direct") EXCEPT !.suf = TRUE]>>

(* The relay: self-test exception, hairpin principals, exit principals,    *)
(* the declared targets, and a reject of everything else.                  *)
RelayRules(d, users) ==
    LET targets  == SetToSeq(relay_targets(d))
        hairpins == SetToSeq(Hairpins(users))
        selftest == IF Probes(users) = {} THEN <<>>
                    ELSE <<[Rule("direct") EXCEPT !.inb = {"reality"}, !.user = Probes(users),
                               !.net = "tcp", !.ip = {"loopback"}, !.port = SubscriptionPort]>>
    IN  apply_probe_user_confinement(users,
          selftest
          \o FlattenSeq([i \in DOMAIN hairpins |-> HairpinRules(d, hairpins[i])])
          \o exit_principal_rules(d, exit_principal_ids(d, users))
          \o [i \in DOMAIN targets |-> [TargetRule("direct", targets[i]) EXCEPT !.inb = {"reality"}]]
          \o <<[Rule("reject") EXCEPT !.inb = Inbounds]>>)

(* render_server_config_for_deployment: its rules.                         *)
render_rules(d, users) == IF d.role = "exit" THEN ExitRules(d, users) ELSE RelayRules(d, users)

-----------------------------------------------------------------------------
(* sing-box's first-match evaluation.  A connection has a user, an inbound,*)
(* a network, a port, and as destination a literal address (ip) or a name  *)
(* that resolves to addr; sni is the name its first bytes show, if any.    *)
(* name and addr are what sing-box knows so far: sniff replaces the name,  *)
(* resolve fills in the address, and ip_version looks at the literal only. *)
Matches(r, c, name, addr) ==
    /\ r.inb = {} \/ c.inb \in r.inb
    /\ r.user = {} \/ c.user \in r.user
    /\ r.net \in {"", c.net}
    /\ r.port \in {0, c.port}
    /\ r.ip = {} \/ addr \in r.ip
    /\ r.dom = {} \/ name \in r.dom
    /\ r.suf => name \in Google
    /\ r.v6 => c.name = None /\ c.addr \in V6

RECURSIVE Evaluate(_, _, _, _)
Evaluate(rules, c, name, addr) ==
    IF rules = <<>> THEN "direct"
    ELSE LET r == Head(rules)
         IN  IF ~Matches(r, c, name, addr) THEN Evaluate(Tail(rules), c, name, addr)
             ELSE CASE r.act = "sniff" ->
                         Evaluate(Tail(rules), c, IF c.sni = None THEN name ELSE c.sni, addr)
                    [] r.act = "resolve" -> Evaluate(Tail(rules), c, name, c.addr)
                    [] r.act = "options" -> Evaluate(Tail(rules), c, name, addr)
                    [] OTHER -> r.act

(* What happens to a connection under a list of rules; route.final is      *)
(* "direct" on an exit, and a relay has no final but rejects every inbound.*)
Verdict(rules, c) == Evaluate(rules, c, c.name, IF c.name = None THEN c.addr ELSE None)

-----------------------------------------------------------------------------
(* The doctor's reading of a config: how many probe rules it starts with,  *)
(* then whether the rest is the policy it expects.                         *)
probe_confinement_rule_count(rules) ==
    LET exception == rules # <<>> /\ rules[1].user # {} /\ rules[1].ip = {"loopback"}
                     /\ rules[1].act = "direct"
        offset == IF exception THEN 1 ELSE 0
        is_probe(r) == /\ r.user # {}
                       /\ r.act = "reject" \/ r.ip # {} \/ r.dom # {}
                       /\ ~r.suf /\ r.inb = {}
    IN  IF /\ Len(rules) >= offset + 3
           /\ \A i \in offset + 1 .. offset + 3 : is_probe(rules[i])
           /\ rules[offset + 3].act = "reject"
        THEN offset + 3 ELSE 0

exit_egress_policy_matches(d, rules) ==
    LET tail == SubSeq(rules, probe_confinement_rule_count(rules) + 1, Len(rules))
    IN  tail = c16_egress_deny_rules(Inbounds) \o own_address_deny_rule(d, Inbounds)
               \o exit_egress_rules(d, d.hairpin)
               \o (IF d.hairpin THEN apply_google_egress_hairpin ELSE <<>>)

(* Mutant: the number of rules is not compared.                            *)
relay_policy_facts_uncounted(d, rules) == rules # <<>> /\ Last(rules).act = "reject"

(* The rules that let an exit principal out, and the principals they name. *)
ExitRoutes(rules) ==
    {i \in DOMAIN rules :
        /\ rules[i].user # {}
        /\ rules[i] = [Rule("direct") EXCEPT !.inb = {"reality"}, !.user = rules[i].user]}
BlockPrincipals(rules) == UNION {rules[i].user : i \in ExitRoutes(rules)}

(* relay_policy_facts: its fail_closed.                                    *)
relay_policy_facts(d, rules) ==
    LET routes == ExitRoutes(rules)
        end   == Max(routes)
        block == exit_principal_rules(d, rules[end].user)
        start == end + 1 - Len(block)
        inBlock(i) == routes # {} /\ i >= start /\ i <= end
        hairpins == {i \in DOMAIN rules : ~inBlock(i) /\ rules[i].user # {}
                                          /\ (rules[i].act = "sniff" \/ rules[i].suf)}
    IN  /\ Cardinality(routes) <= 1
        /\ routes # {} =>
              /\ exit_principals_enabled(d)
              /\ start >= 1
              /\ SubSeq(rules, start, end) = block
        /\ rules # <<>> /\ Last(rules).act = "reject"
        /\ Len(rules) = Cardinality(relay_targets(d)) + 1 + Cardinality(hairpins)
                        + probe_confinement_rule_count(rules)
                        + (IF routes = {} THEN 0 ELSE Len(block))

(* report_relay_policy: the doctor also compares the principals the block  *)
(* names with the accounts that may have one.                              *)
report_relay_policy(d, users, rules) ==
    IF d.role = "exit" THEN exit_egress_policy_matches(d, rules)
    ELSE /\ relay_policy_facts(d, rules)
         /\ BlockPrincipals(rules) = exit_principal_ids(d, users)
=============================================================================
