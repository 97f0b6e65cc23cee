----------------------------- MODULE MCPolicies ------------------------------
(***************************************************************************)
(* Deployments, accounts and connections over which the rendered route     *)
(* rules, the doctor and the served profiles are compared with what they   *)
(* promise.  A behaviour declares a deployment and then, on the server's   *)
(* side, the flags of one account, or on the client's side the credentials *)
(* of one user.                                                            *)
(***************************************************************************)
EXTENDS RoutePolicy, Provisioning, Observations, Authorizations

Blank(role) == [role |-> role, paths |-> <<>>, peers |-> <<>>, egress |-> None, hairpin |-> FALSE,
                uuid |-> FALSE, spoof |-> FALSE, own |-> FALSE, principals |-> None]

-----------------------------------------------------------------------------
(* The server's side: every combination of sections, a few peer lists.     *)
Ways == << AccessPath("path-a", "relay", "reality-1", {"tcp"}),
           AccessPath("path-b", "relay", "peer-a", {"tcp"}) >>
Exit(id, tag, host, path) == PeerEndpoint(id, tag, host, "vless", path, None, "vision")
RelayPeers ==
    { <<>>,
      <<Exit("peer-a", "A", "v4", "path-a")>>,
      <<Exit("peer-a", "A", "v4", "direct"), Exit("peer-b", "B", "name", "path-a")>>,
      <<Exit("peer-a", "A", "v4", "direct"), Exit("peer-b", "B", "name", "path-b")>> }

Flags == [active : BOOLEAN, probe : BOOLEAN, hairpin : BOOLEAN, principal : BOOLEAN]
Ordinary == [active |-> TRUE, probe |-> FALSE, hairpin |-> FALSE, principal |-> FALSE]

DeclareSections ==
    /\ stage = "server" /\ stage' = "account"
    /\ \E egress \in {None, "allow", "reject_google", "reject_all"},
          hairpin, uuid, spoof, own \in BOOLEAN, principals \in {None, "off", "on"} :
          /\ uuid => hairpin
          /\ d' = [d EXCEPT !.egress = egress, !.hairpin = hairpin, !.uuid = uuid,
                            !.spoof = spoof, !.own = own, !.principals = principals]
    /\ validate(d')
    /\ UNCHANGED who

DeclareAccount ==
    /\ stage = "account" /\ stage' = "policy"
    /\ \E flags \in Flags : who' = [alice |-> Ordinary, bob |-> flags]
    /\ UNCHANGED d

-----------------------------------------------------------------------------
(* The client's side: every accepted deployment of two paths and peers.    *)
PathsWithId(id) == {AccessPath(id, kind, via, {"tcp"}) :
                      kind \in {"direct", "relay"}, via \in {None, "reality-1", "peer-a"}}
PathLists == {<<>>} \cup {<<a>> : a \in PathsWithId("path-a")}
             \cup {<<a, b>> : a \in PathsWithId("path-a"), b \in PathsWithId("path-b")}
PeersWithId(id, tag) ==
    {PeerEndpoint(id, tag, host, transport, path, cref, flow) :
        host \in {"v4", "inner"}, transport \in {"vless", "hy2"},
        path \in {"direct", "path-a", "path-b"}, cref \in {None, "peer-a"},
        flow \in {"vision", "none"}}
PeerLists == {<<>>} \cup {<<a>> : a \in PeersWithId("peer-a", "A")}
             \cup {<<a, b>> : a \in PeersWithId("peer-a", "A"), b \in PeersWithId("peer-b", "B")}

DeclarePaths ==
    /\ stage = "client" /\ stage' = "peers"
    /\ \E paths \in PathLists : d' = [d EXCEPT !.paths = paths]
    /\ UNCHANGED who

DeclarePeers ==
    /\ stage = "peers" /\ stage' = "user"
    /\ \E peers \in PeerLists : d' = [d EXCEPT !.peers = peers]
    /\ validate(d')
    /\ UNCHANGED who

DeclareUser ==
    /\ stage = "user" /\ stage' = "profile"
    /\ who' \in [{"peer-a", "peer-b"} -> {None, "vless", "hy2"}]
    /\ UNCHANGED d

-----------------------------------------------------------------------------
(* Stores with an operator's user, a lease and an external credential, and *)
(* the sets of authorizations the agent may send: windows that touch,      *)
(* overlap or are too long, revoked credentials, ones with one secret, and *)
(* ones whose uuid is the operator's user's.                               *)
Alice == User("alice", "alice", TRUE, "u-alice", "p", 0, 9)
OldLease == User("cred_n", "native_a", TRUE, "u-lease", "p", 0, 2)
OldExternal == User("cred_3", "ext_b", TRUE, "u-ext", "p", 0, 4)

Windows == {<<0, 2>>, <<0, 4>>, <<1, 3>>, <<2, 4>>, <<2, 2>>, <<0, 6>>}
Item(p, id, w, kind) ==
    Authorization(p, id, IF IsNative(p) THEN "native" ELSE "compat", w[1], w[2], kind = "revoked",
                  IF kind = "clash" THEN "u-alice" ELSE id, IF kind = "half" THEN None ELSE "p")
Externals(id) ==
    {Item(p, id, w, kind) : p \in {"ext_a", "ext_b"}, w \in Windows,
                            kind \in {"live", "revoked", "half", "clash"}}
Leases(id) ==
    {Item(p, id, w, kind) : p \in {"native_a", "native_b"}, w \in Windows,
                            kind \in {"live", "revoked", "clash"}}
Thirds == {Item("ext_a", id, w, "live") : id \in {"cred_1", "cred_3"}, w \in Windows}

Send ==
    /\ stage = "store" /\ stage' = "first"
    /\ \/ who' = [from |-> "external", set |-> <<>>]
       \/ \E a \in Externals("cred_2") : who' = [from |-> "external", set |-> <<a>>]
       \/ \E a \in Leases("cred_n") : who' = [from |-> "leases", set |-> <<a>>]
    /\ UNCHANGED d

SendMore ==
    /\ stage = "first" /\ who.set # <<>> /\ stage' = "second"
    /\ \E a \in IF who.from = "leases" THEN Leases("cred_2") ELSE Externals("cred_1") :
          who' = [who EXCEPT !.set = Append(@, a)]
    /\ UNCHANGED d

SendThird ==
    /\ stage = "second" /\ who.from = "external" /\ stage' = "third"
    /\ \A a \in ToSet(who.set) : a.uuid = a.id /\ a.password = "p"
    /\ \E a \in Thirds : who' = [who EXCEPT !.set = Append(@, a)]
    /\ UNCHANGED d

Init ==
    \/ /\ stage = "store" /\ who = [from |-> None, set |-> <<>>]
       /\ d \in {<<Alice>>, <<OldExternal, Alice, OldLease>>}
    \/ /\ stage = "server"
       /\ d \in {Blank("exit")} \cup {[Blank("relay") EXCEPT !.paths = Ways, !.peers = p] :
                                        p \in RelayPeers}
       /\ who = [alice |-> Ordinary]
    \/ stage = "client" /\ d \in {Blank("exit"), Blank("relay")} /\ who = [alice |-> Ordinary]
    \/ ObservedInit

Next == DeclareSections \/ DeclareAccount \/ DeclarePaths \/ DeclarePeers \/ DeclareUser
        \/ ObservedNext \/ Send \/ SendMore \/ SendThird

Spec == Init /\ [][Next]_vars

-----------------------------------------------------------------------------
(* Connections: a literal destination, or a name with what it resolves to. *)
Destinations ==
    {[name |-> None, addr |-> a] :
       a \in {"loopback", "inner4", "inner6", "public6", "own", "1.1.1.1", "v4"}}
    \cup {[name |-> n, addr |-> a] : n \in {"gstatic", "google", "name"},
                                     a \in {"inner4", "own", "v4", "public4"}}
Connections ==
    {[user |-> u, inb |-> i, net |-> n, port |-> p, name |-> t.name, addr |-> t.addr, sni |-> s] :
       u \in {"alice", "bob"}, i \in Inbounds, n \in {"tcp", "udp"},
       p \in {25, 443, SubscriptionPort, TargetPort}, t \in Destinations, s \in {None, "google", "other"}}
Live == {c \in Connections : who[c.user].active}

(* The name a node that sniffs judges a connection by.                     *)
SeenName(c) == IF c.sni = None THEN c.name ELSE c.sni
Literal(c) == IF c.name = None THEN c.addr ELSE None

(* What the probe account may do anywhere.                                 *)
ProbeAllowed(c, name, inbounds) ==
    /\ c.net = "tcp"
    /\ \/ c.port = SubscriptionPort /\ Literal(c) = "loopback" /\ c.inb \in inbounds
       \/ c.port = 443 /\ (Literal(c) \in ProbeIps \/ name \in ProbeDomains)

(* What no tunnel user may reach through a node that lets traffic out.     *)
Isolated(c) ==
    \/ c.addr \in DenyV4 \cup DenyV6
    \/ d.own /\ c.addr = "own"
    \/ c.net = "tcp" /\ c.port = 25

IsTarget(c, addr, name) ==
    c.net = "tcp" /\ c.port = TargetPort /\ {addr, name} \cap relay_targets(d) # {}

Ipv6Refused(c, hairpin, policy) ==
    /\ Literal(c) \in V6
    /\ \/ policy = "reject_all"
       \/ policy = "reject_google" /\ (hairpin \/ c.port = 443) /\ c.sni \in Google

ExitPolicy(c) ==
    LET hairpin == d.hairpin /\ d.uuid
        policy  == IF d.egress = None /\ hairpin THEN "reject_google" ELSE d.egress
    IN  IF who[c.user].probe THEN IF ProbeAllowed(c, c.name, Inbounds) THEN "direct" ELSE "reject"
        ELSE IF Isolated(c) \/ Ipv6Refused(c, hairpin, policy) THEN "reject"
        ELSE IF hairpin /\ SeenName(c) \in Google THEN "hairpin" ELSE "direct"

RelayPolicy(c) ==
    LET u    == who[c.user]
        on   == c.inb = "reality"
        name == IF u.hairpin /\ on THEN SeenName(c) ELSE c.name
        allowed ==
            \/ u.hairpin /\ on /\ name \in Google
            \/ u.probe /\ ProbeAllowed(c, name, {"reality"})
            \/ /\ ~u.probe /\ on
               /\ IF u.principal /\ ~u.hairpin /\ d.principals = "on"
                  THEN ~Isolated(c) /\ ~IsTarget(c, c.addr, c.name)
                  ELSE IsTarget(c, Literal(c), name)
    IN  IF allowed THEN "direct" ELSE "reject"

(* Every connection of every account is treated exactly as its role and    *)
(* flags say: the rules server.rs emits, in the order it emits them, never *)
(* shadow or leak one another.                                             *)
PolicyAsDeclared ==
    stage = "policy" =>
       LET rules == render_rules(d, who)
       IN  \A c \in Live :
              Verdict(rules, c) = IF d.role = "exit" THEN ExitPolicy(c) ELSE RelayPolicy(c)

(* The doctor accepts what the renderer emits, in all but two corners: an  *)
(* exit whose hairpin credential file is missing, and a relay account that *)
(* is both probe and hairpin.  A document that lost one rule it accepts    *)
(* only if no connection got more than before, those of hairpin accounts   *)
(* aside.                                                                  *)
DoctorExact ==
    stage = "policy" =>
       LET rules == render_rules(d, who)
           corner == \/ d.role = "exit" /\ d.hairpin /\ ~d.uuid
                     \/ d.role = "relay" /\ who.bob.active /\ who.bob.probe /\ who.bob.hairpin
       IN  /\ report_relay_policy(d, who, rules) = ~corner
           /\ \A i \in DOMAIN rules :
                 LET lost == RemoveAt(rules, i)
                 IN  report_relay_policy(d, who, lost) =>
                        \A c \in Live : who[c.user].hairpin
                                         \/ Verdict(lost, c) \in {Verdict(rules, c), "reject"}

-----------------------------------------------------------------------------
(* The transport of the credential a user holds for an endpoint.           *)
Held(e) == IF e.origin = "local" THEN e.transport
           ELSE who[IF e.cref = None THEN e.id ELSE e.cref]
Relayed(e) == d.paths # <<>> /\ e.path \notin {None, "direct"}
Infra == infrastructure_endpoint_ids(d)

(* A user's credentials that do not fit the deployment: one of the wrong   *)
(* transport, or one for an exit whose first hop the user cannot use.      *)
Unservable(mode) ==
    \E e \in ToSet(served_endpoints(d)) :
       /\ mode = "tcp-only" => e.transport # "hy2"
       /\ \/ Held(e) \notin {None, e.transport}
          \/ /\ Held(e) # None /\ e.id \notin Infra /\ Relayed(e)
             /\ ~\E a \in relay_path(d, e.path), v \in ToSet(served_endpoints(d)) :
                   a.via = v.id /\ Held(v) = v.transport

(* Every route a relay hands out that dials through its own listener leads *)
(* to a server its own rules forward to; nothing makes it forward into its *)
(* own network.                                                            *)
Forwarded ==
    LET doc   == provisioning_document(d, who, "reliability", "normal")
        rules == render_rules(d, [alice |-> Ordinary])
        to(host) == [user |-> "alice", inb |-> "reality", net |-> "tcp", port |-> TargetPort,
                     name |-> None, addr |-> host, sni |-> None]
    IN  /\ doc.res = "ok" =>
              \A e \in ToSet(doc.endpoints), o \in ToSet(doc.config.outs) :
                 o.id = e.id /\ o.detour = "Reality" => Verdict(rules, to(e.host)) = "direct"
        /\ Verdict(rules, to("inner")) = "reject"

(* Every accepted deployment can be served: a user whose credentials fit   *)
(* it gets a document that passes its own validation, or an honest "no     *)
(* selectable route" exactly when no route of the user's is left; and both *)
(* ends agree, the relay forwarding to the exits it hands out and to no    *)
(* other.                                                                  *)
Servable ==
    stage = "profile" =>
       /\ \A mode \in Modes, profile \in Profiles :
             LET res == provisioning_document(d, who, profile, mode).res
             IN  IF Unservable(mode) THEN res = "err"
                 ELSE res = IF \E e \in ToSet(served_endpoints(d)) :
                                 /\ Held(e) # None /\ e.id \notin Infra
                                 /\ mode = "tcp-only" => e.transport # "hy2"
                            THEN "ok" ELSE "no_route"
       /\ d.role = "relay" => Forwarded

(* A route over a relay is never handed out as a direct one: its outbound  *)
(* dials through a first hop that is in the document, an automatic choice  *)
(* stays among the relayed routes as soon as there is one, a pinned        *)
(* profile shows one route, and no share link leads to an exit or to a     *)
(* first hop.                                                              *)
NoDirectDowngrade ==
    stage = "profile" =>
       /\ \A mode \in Modes, profile \in Profiles :
             LET doc  == provisioning_document(d, who, profile, mode)
                 outs == ToSet(doc.config.outs)
                 via  == {e.tag : e \in {f \in ToSet(doc.endpoints) : Relayed(f)}}
             IN  doc.res = "ok" =>
                    /\ \A o \in outs : o.tag \in via =>
                          \E h \in outs : h.tag = o.detour /\ h.detour = None /\ h.tag \notin via
                    /\ via # {} => /\ ToSet(doc.config.auto) \subseteq via
                                   /\ doc.config.default \in via \cup {"auto"}
                    /\ mode = "hiddify-pinned" =>
                          Cardinality({o.tag : o \in outs} \cap {e.tag : e \in ToSet(served_endpoints(d))}) = 1
       /\ LET list == render_share_links(d, who)
          IN  list.res = "ok" =>
                 \A e \in ToSet(list.links) : ~Relayed(e) /\ e.id \notin Infra

-----------------------------------------------------------------------------
Times == 0 .. 6
Owned(u) == IF who.from = "external" THEN is_external(u) ELSE is_lease_user(u)
Reconciled(users) ==
    IF who.from = "external" THEN reconcile_external(users, who.set)
    ELSE reconcile_leases(users, who.set)

(* A set within policy: no two credentials of a principal valid together   *)
(* for longer than the overlap, never three at once, and every id and uuid *)
(* belonging to one user.                                                  *)
WithinPolicy(set) ==
    LET both(i, j) == {t \in Times : is_active_at(set[i], t) /\ is_active_at(set[j], t)}
        same(i, j) == set[i].principal = set[j].principal
    IN  /\ \A i \in DOMAIN set : validate_item(set[i]) /\ set[i].uuid # Alice.uuid
        /\ \A i, j \in DOMAIN set : i # j =>
              /\ set[i].id # set[j].id /\ set[i].uuid # set[j].uuid
              /\ same(i, j) => Cardinality(both(i, j)) <= OVERLAP_SECS
        /\ \A i, j, k \in DOMAIN set :
              Cardinality({i, j, k}) = 3 /\ same(i, j) /\ same(i, k) =>
                 both(i, j) \cap both(i, k) = {}

(* A sync is accepted exactly if the set is within policy.  It then leaves *)
(* the users of everybody else alone, makes its own users active exactly   *)
(* while their authorization is, and changes nothing when it is repeated;  *)
(* and the store it leaves can be rendered, unless a credential that is    *)
(* not revoked came with one secret only.                                  *)
ReconcileExact ==
    stage \in {"first", "second", "third"} =>
       LET r    == Reconciled(d)
           half == \E a \in ToSet(who.set) : ~a.revoked /\ a.password = None
       IN  /\ r.ok = WithinPolicy(who.set)
           /\ r.ok =>
                 /\ SelectSeq(r.users, LAMBDA u : ~Owned(u)) = SelectSeq(d, LAMBDA u : ~Owned(u))
                 /\ \A t \in Times :
                       {u.id : u \in {v \in ToSet(r.users) : Owned(v) /\ user_is_active(v, t)}}
                          = {a.id : a \in {b \in ToSet(who.set) : is_active_at(b, t)}}
                 /\ Reconciled(r.users) = r
                 /\ Renderable(r.users) = ~half
=============================================================================
