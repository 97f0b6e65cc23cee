---------------------------- MODULE DoctorHosts -----------------------------
(***************************************************************************)
(* Hosts for vpn-admin doctor: a healthy exit or relay, the ways in which  *)
(* one aspect of it can differ, and which of these are defects.            *)
(***************************************************************************)
EXTENDS Doctor

Files == {"config", "private", "public", "short_id", "users", "cert", "key", "obfs"}
AllFiles == [f \in Files |-> "ok"]
Lives(left) == [state |-> "read", left |-> left]

Std == << ListenSocket(FALSE, FALSE, RealityPort, "sing-box"),
          ListenSocket(TRUE, FALSE, HysteriaPort, "sing-box"),
          ListenSocket(FALSE, FALSE, PublicPort, "nginx"),
          ListenSocket(FALSE, TRUE, BackendPort, "vpn-subscriptio"),
          ListenSocket(FALSE, FALSE, 22, "sshd") >>
StrayPort == 40000
Without(s, i) == SubSeq(s, 1, i - 1) \o SubSeq(s, i + 1, Len(s))
Others == [udp : BOOLEAN, lo : BOOLEAN, port : {22, RealityPort, BackendPort, 1234, StrayPort},
           owner : {"sing-box", "nginx", "unknown"}, dev : {FALSE}]
          \cup {ListenSocket(TRUE, FALSE, 68, owner) : owner \in {"systemd-network", "sing-box"}}

Served == [harness |-> TRUE, bound |-> TRUE, served |-> TRUE, exited |-> FALSE,
           stderr |-> FALSE, cursor |-> TRUE, journal |-> "none"]
Installed == [manifest |-> "read", pending |-> FALSE, tag |-> "1.3", core |-> "1.3", running |-> "a",
              recorded |-> [f \in Executables |-> "a"], installed |-> [f \in Executables |-> "a"]]
Inbounds0 == {[type |-> "vless", port |-> RealityPort], [type |-> "hysteria2", port |-> HysteriaPort]}

Healthy(role) ==
    [role |-> role, binary |-> TRUE, conf |-> "fresh", files |-> AllFiles, pair |-> TRUE,
     store |-> TRUE, user |-> "probe", hycert |-> Lives(180), webcert |-> Lives(180),
     singbox |-> "active", subscription |-> "active", reconcile |-> "ok", timer |-> "active",
     watchdog |-> "active", recorded |-> "ufw", firewalld |-> "unavailable", ufw |-> "active",
     ss |-> TRUE, sockets |-> Std, sshd |-> 22, inbounds |-> Inbounds0, udp4 |-> {"yes"},
     udp6 |-> {"yes"}, own |-> TRUE, ipv6 |-> "ok", table |-> "positive",
     dns |-> [i \in 1..Attempts |-> {"v4"}], conntrack |-> {[count |-> 1, max |-> 10]},
     udpmem |-> {}, versions |-> [x \in {"usr"} |-> "1.12"], release |-> Installed,
     verbose |-> FALSE, spoof |-> "off", policy |-> TRUE, egress |-> "declared",
     unpaired |-> FALSE, renders |-> TRUE, live |-> "same", reality |-> Served,
     hysteria2 |-> [Served EXCEPT !.stderr = "none"]]

Units == {"missing", "failed", "inactive"}
Confs == {"absent", "fresh", "stale", "invalid", "garbled"}
Timers == {"missing", "active", "inactive"}
FirewallProbes == {"active", "inactive", "unavailable"}
Certs == {[state |-> "absent", left |-> 0], [state |-> "unreadable", left |-> 0]}
         \cup {Lives(n) : n \in {-2, 0, 59, 60}}

(* What each observation can be on a host.                                 *)
Variants ==
    [binary |-> {FALSE}, conf |-> {"absent", "stale", "invalid", "garbled"},
     files |-> {[AllFiles EXCEPT ![f] = s] : f \in Files, s \in {"bad", "absent"}},
     pair |-> {FALSE}, store |-> {FALSE}, user |-> {"customer", "none"},
     hycert |-> Certs, webcert |-> Certs, singbox |-> Units, subscription |-> Units,
     reconcile |-> {"missing", "failed"}, timer |-> {"missing", "inactive"},
     watchdog |-> {"missing", "inactive"}, recorded |-> {"none", "firewalld", "other"},
     firewalld |-> FirewallProbes \ {"unavailable"}, ufw |-> FirewallProbes \ {"active"}, ss |-> {FALSE},
     sockets |-> {Without(Std, i) : i \in DOMAIN Std} \cup {Append(Std, l) : l \in Others}, sshd |-> {0},
     inbounds |-> {Inbounds0 \cup {[type |-> t, port |-> StrayPort]} : t \in {"mixed", "tuic", "vless"}},
     udp4 |-> {{}, {"no"}, {"no", "yes"}}, udp6 |-> {{}, {"no"}, {"no", "yes"}}, own |-> {FALSE},
     ipv6 |-> {"none", "noroute", "failed"}, table |-> {"absent", "negated", "other"},
     dns |-> {<<{}, {"v4"}, {}>>, <<{}, {}, {"v6"}>>, <<{}, {}, {}>>, <<{"v4", "v6"}, {}, {}>>},
     conntrack |-> {{}, {[count |-> 8, max |-> 10]}}, udpmem |-> {{[count |-> 8, max |-> 10]}},
     versions |-> {[x \in {"usr", "local"} |-> "1.12"], [usr |-> "1.12", local |-> "1.11"]},
     release |-> {[Installed EXCEPT !.tag = "1.2"], [Installed EXCEPT !.recorded["vpn-admin"] = ""],
                  [Installed EXCEPT !.recorded["vpn"] = ""], [Installed EXCEPT !.running = "b"],
                  [Installed EXCEPT !.installed["vpn"] = "b"], [Installed EXCEPT !.pending = TRUE],
                  [Installed EXCEPT !.manifest = "absent"]},
     verbose |-> {TRUE}, spoof |-> {"dropin_left", "capable", "incapable", "unread"},
     policy |-> {FALSE}, egress |-> {"none", "undeclared6"}, unpaired |-> {TRUE},
     renders |-> {FALSE}, live |-> {"stale", "shape", "unreachable"},
     reality |-> {[Served EXCEPT !.harness = FALSE]}
                 \cup [harness : {TRUE}, bound : BOOLEAN, served : {FALSE}, exited : {FALSE},
                       stderr : BOOLEAN, cursor : BOOLEAN, journal : {"none", "local", "remote"}],
     hysteria2 |-> {[Served EXCEPT !.harness = FALSE, !.stderr = "none"]}
                   \cup [harness : {TRUE}, bound : BOOLEAN, served : {FALSE}, exited : BOOLEAN,
                         stderr : {"none", "authentication", "certificate", "timeout"},
                         cursor : {TRUE}, journal : {"none"}]]

(* What is known of any host: ss lists sockets one after the other, the    *)
(* answers of the resolvers are yes or no, a file or a unit is in one of   *)
(* the states above, and a request is only answered over a client that     *)
(* bound its port.  Every other observation may be anything.               *)
Owners == {"sing-box", "vpn-subscriptio", "nginx", "sshd", "systemd-network", "unknown", "other"}
Socket == [udp : BOOLEAN, lo : BOOLEAN, port : Nat, owner : Owners, dev : BOOLEAN]
IsHost(h) ==
    /\ h.conf \in Confs
    /\ h.singbox \in {"active"} \cup Units /\ h.subscription \in {"active"} \cup Units
    /\ h.timer \in Timers
    /\ h.hycert.left \in Int /\ h.webcert.left \in Int
    /\ h.udp4 \subseteq {"yes", "no"} /\ h.udp6 \subseteq {"yes", "no"}
    /\ h.sockets \in Seq(Socket)
    /\ h.reality.served => h.reality.bound
    /\ h.hysteria2.served => h.hysteria2.bound

-----------------------------------------------------------------------------
(* An inbound that binds the port for UDP.                                 *)
TakesUdp(inbounds, port) ==
    \E i \in inbounds : i.port = port /\ i.type \notin {"vless", "vmess", "trojan", "http"}

(* Sockets nobody should be able to reach, or not served by who should.    *)
Exposed(h, l) ==
    LET want == {e \in expected_singbox_vpn_ports : e.udp = l.udp /\ e.port = l.port}
    IN  IF ~l.udp /\ l.port = BackendPort THEN ~l.lo
        ELSE IF ~l.udp /\ l.port = detect_ssh_port(h) THEN FALSE
        ELSE IF want # {} THEN \A e \in want : l.owner \notin {"unknown", e.owner}
        ELSE /\ ~l.lo
             /\ l.owner \in {"sing-box", "vpn-subscriptio"}
             /\ l.udp /\ l.port \in Ephemeral =>
                   /\ h.conf \notin {"absent", "garbled"}
                   /\ TakesUdp(h.inbounds, l.port)

(* A certificate that ran out a day ago or earlier.                        *)
Expired(cert) == cert.state = "read" /\ cert.left <= -HalfDays

(* The defects of a host that an operator must not be told away.  What     *)
(* cannot be observed is not a defect.                                     *)
Broken(h) ==
    LET keys == h.pair /\ \A f \in {"private", "public", "short_id"} : h.files[f] # "absent"
    IN  \/ ~h.binary \/ ~h.pair \/ ~h.store
        \/ \E f \in Files : h.files[f] = "bad" /\ (f = "config" => h.conf # "absent")
        \/ "absent" \in {h.files["private"], h.files["public"]}
        \/ h.conf \in {"invalid", "garbled"}
        \/ Expired(h.hycert) /\ h.files["cert"] # "absent"
        \/ Expired(h.webcert)
        \/ {h.singbox, h.subscription} \cap {"failed", "inactive"} # {}
        \/ h.reconcile = "failed" \/ h.timer = "inactive"
        \/ h.recorded \in {"firewalld", "none"} /\ h.firewalld = "inactive"
            /\ ~(h.recorded = "none" /\ h.ufw = "active")
        \/ h.ss /\ \/ ~listener_reported_by_ss(h, RealityPort, FALSE)
                   \/ ~listener_reported_by_ss(h, HysteriaPort, TRUE)
                   \/ h.udp4 = {"no"}
                   \/ \E i \in DOMAIN h.sockets : Exposed(h, h.sockets[i])
        \/ h.table = "negated"
        \/ \A i \in 1..Attempts : h.dns[i] = {}
        \/ /\ h.udp6 = {"no"}
           /\ \E i \in 1..Attempts : "v6" \in h.dns[i] /\ \A j \in 1..(i - 1) : h.dns[j] = {}
        \/ keys /\ (~h.renders \/ ~h.policy \/ h.spoof = "incapable" \/ h.conf = "stale")
        \/ keys /\ h.live = "stale"

(* Every transport that the role serves was dialed and answered.           *)
Dialed(h) ==
    /\ h.binary /\ h.store /\ h.user # "none" /\ h.pair
    /\ \A f \in {"private", "public", "short_id"} : h.files[f] # "absent"
    /\ h.reality.harness /\ h.reality.served
    /\ h.role = "exit" => h.hysteria2.harness /\ h.hysteria2.served

(* A dial that the server itself turned down.                              *)
Refused(h) ==
    /\ h.binary /\ h.store /\ h.user # "none"
    /\ \/ /\ LoadsReality(h) /\ h.reality.harness /\ ~h.reality.served
          /\ h.reality.stderr \/ (h.reality.cursor /\ h.reality.journal = "local")
       \/ /\ h.role = "exit" /\ h.hysteria2.harness /\ ~h.hysteria2.served
          /\ h.hysteria2.bound \/ ~h.hysteria2.exited
          /\ h.hysteria2.stderr \in {"authentication", "certificate"}

(* doctor exits with an error exactly when it printed a [FAIL], and it     *)
(* does so for every defect of the host and for nothing else: what it      *)
(* could not observe, or an absent option, is no failure, and one check    *)
(* never hides what another one found.  With --require-protocol only a     *)
(* host whose transports were all dialed passes, and no closing line or    *)
(* coverage summary calls a host healthy that was not dialed.              *)
HostVerdict(h, protocol, require) ==
    LET out == cmd_doctor(h, protocol, require)
    IN  /\ out.line = "failed" <=> (\E i \in DOMAIN out.found : out.found[i].status = "Fail")
        /\ out.line = "failed" <=>
              (Broken(h) \/ (protocol /\ Refused(h)) \/ (require /\ ~Dialed(h)))
        /\ out.line = "passed" <=> (~Broken(h) /\ protocol /\ Dialed(h))
        /\ out.coverage = "cleared" => Dialed(h) /\ ~Broken(h)

=============================================================================
