------------------------------- MODULE Doctor -------------------------------
(***************************************************************************)
(* vpn-admin doctor: the checks of cmd_doctor as functions of what they    *)
(* observe on the host h, in the order they run.  A check yields findings, *)
(* each with the status it prints and whether it raised the failure        *)
(* counter; the counter, and the outcome of the real handshakes, decide    *)
(* the exit status and the closing line.                                   *)
(*                                                                         *)
(* Messages are left out.  One unit of certificate lifetime is half a day. *)
(***************************************************************************)
EXTENDS Integers, FiniteSets, Sequences

Found(status, counted) == [status |-> status, counted |-> counted]
Ok   == Found("Ok", FALSE)
Info == Found("Info", FALSE)
Warn == Found("Warn", FALSE)
Fail == Found("Fail", TRUE)
(* A check that derives its increment from the status it computed.         *)
Tallied(status) == Found(status, status = "Fail")

-----------------------------------------------------------------------------
(* Files: "ok", "bad" (owner, group or mode), or "absent".                 *)
report_installed_file_policy(state) ==
    CASE state = "ok" -> <<Ok>> [] state = "bad" -> <<Fail>> [] OTHER -> <<>>

HalfDays == 2

(* Whole days left, rounded towards zero as i64 division does.             *)
cert_expiry_days(left) == IF left >= 0 THEN left \div HalfDays ELSE -((-left) \div HalfDays)

(* A certificate: "absent", "unreadable", or its remaining lifetime.       *)
report_cert_expiry(cert) ==
    IF cert.state # "read" THEN <<Warn>>
    ELSE LET days == cert_expiry_days(cert.left)
         IN  IF days < 0 THEN <<Fail>> ELSE IF days < 30 THEN <<Warn>> ELSE <<Ok>>

check_binary_and_config(h) ==
    IF ~h.binary THEN <<Fail>>
    ELSE IF h.conf = "absent" THEN <<Ok, Warn>>
    ELSE <<Ok>> \o report_installed_file_policy(h.files["config"])
         \o (IF h.conf \in {"invalid", "garbled"} THEN <<Fail>> ELSE <<Ok>>)

check_reality_keys(h) ==
    LET f == h.files
    IN  (IF f["private"] = "absent" THEN <<Fail>> ELSE report_installed_file_policy(f["private"]))
        \o IF f["public"] = "absent" THEN <<Fail>>
           ELSE report_installed_file_policy(f["public"])
                \o report_installed_file_policy(f["short_id"])
                \o (IF f["private"] # "absent" /\ h.pair THEN <<Ok>> ELSE <<Fail>>)

check_user_store(h) ==
    report_installed_file_policy(h.files["users"])
    \o (IF h.store THEN <<Ok>> ELSE <<Fail>>)

check_hysteria_material(h) ==
    report_installed_file_policy(h.files["cert"])
    \o report_installed_file_policy(h.files["key"])
    \o report_cert_expiry(IF h.files["cert"] = "absent" THEN [state |-> "absent"] ELSE h.hycert)
    \o (IF h.files["obfs"] = "absent" THEN <<Warn>>
        ELSE report_installed_file_policy(h.files["obfs"]) \o <<Ok>>)

-----------------------------------------------------------------------------
(* Units.  "missing" also stands for a host without systemctl.             *)
check_service(state) ==
    CASE state = "missing" -> <<Warn>>
      [] state = "active"  -> <<Ok>>
      [] OTHER             -> <<Fail>>          \* failed, or not active

check_reconcile(h) ==
    (CASE h.reconcile = "missing" -> <<Warn>>
       [] h.reconcile = "failed"  -> <<Fail>>
       [] OTHER                   -> <<Ok>>)
    \o (CASE h.timer = "missing" -> <<>>
          [] h.timer = "active"  -> <<Ok>>
          [] OTHER               -> <<Fail>>)

check_watchdog(h) == IF h.watchdog = "active" THEN <<Ok>> ELSE <<Warn>>

(* The firewall to judge is the one the installer recorded.                *)
firewall_backend_report(recorded, firewalld, ufw) ==
    IF recorded = "ufw"
    THEN CASE ufw = "active" -> "Ok" [] ufw = "inactive" -> "Warn" [] OTHER -> "Info"
    ELSE IF recorded \notin {"firewalld", "none"} THEN "Info"
    ELSE IF firewalld = "active" \/ (recorded = "none" /\ ufw = "active") THEN "Ok"
    ELSE IF firewalld = "inactive" THEN "Fail"
    ELSE IF recorded = "firewalld" THEN "Warn" ELSE "Info"

check_firewall(h) == <<Tallied(firewall_backend_report(h.recorded, h.firewalld, h.ufw))>>

(* Zone and owned rules are only ever reported.                            *)
check_firewall_zone_and_ownership == <<Info, Info>>

-----------------------------------------------------------------------------
(* The sockets in the order ss lists them: [udp, lo, port, owner, dev],    *)
(* owner "unknown" when ss could not name the process, dev when the        *)
(* address carries an interface.                                           *)
RealityPort == 443
HysteriaPort == 443
PublicPort == 8443
BackendPort == 8080
Ephemeral == 32768..60999

ListenSocket(udp, lo, port, owner) ==
    [udp |-> udp, lo |-> lo, port |-> port, owner |-> owner, dev |-> owner = "systemd-network"]

expected_singbox_vpn_ports ==
    { [udp |-> FALSE, port |-> RealityPort, owner |-> "sing-box"],
      [udp |-> TRUE, port |-> HysteriaPort, owner |-> "sing-box"],
      [udp |-> FALSE, port |-> PublicPort, owner |-> "nginx"] }

is_singbox_vpn_process(name) == name \in {"sing-box", "vpn-subscriptio"}

listener_reported_by_ss(h, port, udp) ==
    \E i \in DOMAIN h.sockets : h.sockets[i].port = port /\ (h.sockets[i].udp <=> udp)

check_listeners(h) ==
    LET one(port, udp) == IF ~h.ss THEN <<Warn>>
                          ELSE IF listener_reported_by_ss(h, port, udp) THEN <<Ok>> ELSE <<Fail>>
    IN  one(RealityPort, FALSE) \o one(HysteriaPort, TRUE)

(* The answers of the resolvers over all attempts: "yes", "no", or nothing *)
(* when no probe could be sent.                                            *)
run_udp_probe_candidates(answers) ==
    IF "yes" \in answers THEN "yes" ELSE IF "no" \in answers THEN "no" ELSE "none"

check_udp_egress(h) ==
    IF ~(h.ss /\ listener_reported_by_ss(h, HysteriaPort, TRUE)) THEN <<>>
    ELSE CASE run_udp_probe_candidates(h.udp4) = "yes" -> <<Ok>>
           [] run_udp_probe_candidates(h.udp4) = "no"  -> <<Fail>>
           [] OTHER -> <<Warn>>

(* `sshd -T` or sshd_config, else the first listener that sshd owns; 0 is  *)
(* unknown.                                                                *)
detect_ssh_port(h) ==
    LET live == {i \in DOMAIN h.sockets : ~h.sockets[i].udp /\ h.sockets[i].owner = "sshd"}
    IN  IF h.sshd # 0 THEN h.sshd ELSE IF live = {} THEN 0
        ELSE h.sockets[CHOOSE i \in live : \A j \in live : i <= j].port

(* (udp, port) pairs the inbounds of config.json bind.                     *)
declared_inbounds(inbounds) ==
    UNION {CASE i.type \in {"hysteria", "hysteria2", "tuic", "naive"} -> {<<TRUE, i.port>>}
             [] i.type \in {"vless", "vmess", "trojan", "http"} -> {<<FALSE, i.port>>}
             [] OTHER -> {<<TRUE, i.port>>, <<FALSE, i.port>>} : i \in inbounds}

ConfigParses(h) == h.conf \notin {"absent", "garbled"}

(* Mutant: any UDP socket on an ephemeral port is taken for a flow.        *)
OwnSocket_undeclared(h, l) ==
    IF ~(l.udp /\ l.port \in Ephemeral) THEN "Fail"
    ELSE IF ~ConfigParses(h) THEN "Warn" ELSE "Info"

(* A public socket of the program's own on a port it does not advertise:   *)
(* ss also lists the outbound UDP sockets of flows.                        *)
OwnSocket(h, l) ==
    IF ~(l.udp /\ l.port \in Ephemeral) THEN "Fail"
    ELSE IF ~ConfigParses(h) THEN "Warn"
    ELSE IF <<TRUE, l.port>> \in declared_inbounds(h.inbounds) THEN "Fail" ELSE "Info"

classify_public_surface(h, l) ==
    LET want == {e \in expected_singbox_vpn_ports : e.udp = l.udp /\ e.port = l.port}
    IN  IF ~l.udp /\ l.port = BackendPort THEN IF l.lo THEN "Ok" ELSE "Fail"
        ELSE IF ~l.udp /\ l.port = detect_ssh_port(h) THEN "Ok"
        ELSE IF want # {}
        THEN IF l.owner = "unknown" \/ \E e \in want : e.owner = l.owner THEN "Ok" ELSE "Fail"
        ELSE IF l.lo THEN "skip"
        ELSE IF is_singbox_vpn_process(l.owner) THEN OwnSocket(h, l)
        ELSE IF l.udp /\ l.port = 68 /\ l.owner = "systemd-network" /\ l.dev THEN "Info"
        ELSE "Warn"

(* A socket that is passed over ("skip") prints nothing.                   *)
check_expected_public_surface(h) ==
    IF ~h.ss THEN <<Warn>>
    ELSE (IF detect_ssh_port(h) = 0 THEN <<Info>> ELSE <<>>)
         \o IF \A i \in DOMAIN h.sockets : classify_public_surface(h, h.sockets[i]) = "skip"
            THEN <<Warn>>
            ELSE [i \in DOMAIN h.sockets |-> Tallied(classify_public_surface(h, h.sockets[i]))]

-----------------------------------------------------------------------------
(* The node's own address and the host's IPv6: reported, never counted.    *)
own_address_egress_rule_report(h) ==
    IF h.role # "exit" THEN <<>> ELSE IF h.own THEN <<Ok>> ELSE <<Warn>>

classify_host_ipv6(state) ==
    CASE state = "none" -> <<Info>> [] state = "ok" -> <<Ok>> [] OTHER -> <<Warn>>

classify_egress_isolation_table(table) ==
    CASE table = "absent" -> "Info" [] table = "negated" -> "Fail"
      [] table = "positive" -> "Ok" [] OTHER -> "Warn"
check_host_egress_isolation_table(h) == <<Tallied(classify_egress_isolation_table(h.table))>>

(* Up to three attempts; an error and an empty answer are both retried.    *)
Attempts == 3
resolve_hostname_with_retry(answers) ==
    LET good == {i \in 1..Attempts : answers[i] # {}}
    IN  IF good = {} THEN [addrs |-> {}, attempts |-> Attempts]
        ELSE LET n == CHOOSE i \in good : \A j \in good : i <= j
             IN  [addrs |-> answers[n], attempts |-> n]

classify_ipv6_posture(aaaa, probe) ==
    IF ~aaaa THEN "NoAaaa"
    ELSE CASE probe = "yes" -> "AaaaEgressOk" [] probe = "no" -> "AaaaEgressBroken"
           [] OTHER -> "AaaaEgressUnknown"
ipv6_posture_report(posture) ==
    CASE posture = "NoAaaa" -> Info [] posture = "AaaaEgressOk" -> Ok
      [] posture = "AaaaEgressBroken" -> Fail [] OTHER -> Warn

check_public_hostname_and_ipv6_policy(h) ==
    LET res == resolve_hostname_with_retry(h.dns)
    IN  IF res.addrs = {} THEN <<Fail>>
        ELSE (IF res.attempts > 1 THEN <<Info>> ELSE <<>>) \o <<Ok>>
             \o (IF "v4" \notin res.addrs THEN <<Warn>> ELSE <<>>)
             \o << ipv6_posture_report(classify_ipv6_posture("v6" \in res.addrs,
                                          run_udp_probe_candidates(h.udp6))) >>

(* Pressure of a kernel table in percent; utilisation is never a failure.  *)
conntrack_pressure_report(p) ==
    IF p.max # 0 /\ p.count * 100 >= 80 * p.max THEN <<Warn>> ELSE <<Ok>>
check_conntrack_pressure(h) ==
    (IF h.conntrack = {} THEN <<Info>>
     ELSE conntrack_pressure_report(CHOOSE p \in h.conntrack : TRUE)) \o <<Info, Info>>
check_udp_memory_pressure(h) ==
    (IF h.udpmem = {} THEN <<Info>>
     ELSE conntrack_pressure_report(CHOOSE p \in h.udpmem : TRUE)) \o <<Info>>

(* The versions of the sing-box binaries found, by path.                   *)
singbox_version_consistency_report(found) ==
    IF Cardinality(DOMAIN found) <= 1 THEN <<>>
    ELSE IF \A x, y \in DOMAIN found : found[x] = found[y] THEN <<Ok>> ELSE <<Warn>>

(* release_identity.rs: hashes recorded by the installer against those of  *)
(* the installed files and of the running program; "" is unrecorded, or    *)
(* missing.  r.tag is the core version of a release tag, or "main".        *)
Executables == {"vpn-admin", "vpn", "vpn-subscription-svc"}
recorded_hash(r, file) ==
    IF file = "vpn" /\ r.recorded["vpn"] = "" THEN r.recorded["vpn-admin"] ELSE r.recorded[file]
release_problem(r) ==
    \/ r.tag \notin {"main", r.core}
    \/ /\ r.recorded["vpn-admin"] # "" /\ r.running # ""
       /\ r.running \notin {r.recorded["vpn-admin"], recorded_hash(r, "vpn")}
    \/ \E f \in Executables : r.installed[f] = "" \/ recorded_hash(r, f) \notin {"", r.installed[f]}
evaluate_release(r) ==
    IF r.manifest # "read" THEN Warn
    ELSE IF r.pending THEN Info
    ELSE IF release_problem(r) THEN Warn
    ELSE IF \E f \in Executables : recorded_hash(r, f) = "" THEN Info ELSE Ok

-----------------------------------------------------------------------------
(* L4: the served material against the enforced one.                       *)
LoadsReality(h) == /\ h.pair
                   /\ \A f \in {"private", "public", "short_id"} : h.files[f] # "absent"

(* [google_egress_tls_spoof] and what the running sing-box may do.         *)
report_tls_spoof_capability(spoof) ==
    CASE spoof = "off" -> <<>> [] spoof = "dropin_left" -> <<Info>> [] spoof = "capable" -> <<Ok>>
      [] spoof = "incapable" -> <<Fail>> [] OTHER -> <<Warn>>

(* report_relay_policy; h.policy is the verdict RoutePolicy computes.  The *)
(* notes on Vision-less peers of a relay are left out.                     *)
report_role_policy(h) ==
    (IF h.verbose THEN <<Warn>> ELSE <<>>) \o report_tls_spoof_capability(h.spoof)
    \o IF h.role = "exit"
       THEN (IF h.policy THEN <<>> ELSE <<Fail>>)
            \o (CASE h.egress = "declared" -> <<Info>> [] h.egress = "undeclared6" -> <<Warn>> [] OTHER -> <<>>)
       ELSE <<IF h.policy THEN Ok ELSE Fail>> \o (IF h.unpaired THEN <<Warn>> ELSE <<>>)

(* The first Ok: client and server documents are rendered from the same    *)
(* parameters here, so their key and short id agree.                       *)
check_l4_subscription_coherence(h) ==
    IF ~LoadsReality(h) \/ ~h.store THEN <<Warn>>
    ELSE IF ~h.renders THEN <<Fail>>
    ELSE report_role_policy(h) \o <<Ok>>
         \o (CASE ~ConfigParses(h) -> <<Warn>> [] h.conf = "fresh" -> <<Ok>> [] OTHER -> <<Fail>>)

(* The fingerprint the running vpn-subscription answers with.              *)
check_l4_live_subscription_process_state(h) ==
    IF ~LoadsReality(h) THEN <<Warn>>
    ELSE CASE h.live = "same" -> <<Ok>> [] h.live = "stale" -> <<Fail>> [] OTHER -> <<Warn>>

-----------------------------------------------------------------------------
(* L5-6: a throwaway client dials the node's own listeners.                *)
report_protocol_unavailable(require) == IF require THEN <<Fail>> ELSE <<Warn>>

journal_has_local_reality_rejection(r) == r.cursor /\ r.journal = "local"

(* An answered request is a pass; a rejection needs the client's own word  *)
(* or a journal line about a local peer after the cursor.                  *)
run_reality_client_selftest(r) ==
    IF ~r.harness THEN "err"
    ELSE IF r.bound /\ r.served THEN "pass"
    ELSE IF r.stderr \/ journal_has_local_reality_rejection(r) THEN "rejected" ELSE "inconclusive"

check_l5_l6_reality_selftest(h, require) ==
    LET run == IF ~h.binary \/ ~LoadsReality(h) \/ ~h.store \/ h.user = "none" THEN "err"
               ELSE run_reality_client_selftest(h.reality)
    IN  CASE run = "pass"         -> [res |-> "Passed", found |-> <<Ok>>]
          [] run = "rejected"     -> [res |-> "Failed", found |-> <<Fail>>]
          [] run = "inconclusive" -> [res |-> "Inconclusive",
                                      found |-> report_protocol_unavailable(require)]
          [] OTHER                -> [res |-> "NotRun", found |-> report_protocol_unavailable(require)]

classify_hysteria2_selftest(relay_ok, stderr) ==
    IF relay_ok THEN "pass"
    ELSE IF stderr \in {"authentication", "certificate"} THEN "rejected"
    ELSE "inconclusive"                         \* unreachable, or nothing definite

run_hysteria2_client_selftest(r) ==
    IF ~r.harness \/ (~r.bound /\ r.exited) THEN "err"
    ELSE classify_hysteria2_selftest(r.bound /\ r.served, r.stderr)

check_l5_l6_hysteria2_selftest(h, require) ==
    LET run == IF ~h.binary \/ ~h.store \/ h.user = "none" THEN "err"
               ELSE run_hysteria2_client_selftest(h.hysteria2)
    IN  CASE run = "pass"         -> [res |-> "Passed", found |-> <<Ok>>]
          [] run = "rejected"     -> [res |-> "Failed", found |-> <<Fail>>]
          [] run = "inconclusive" -> [res |-> "Inconclusive",
                                      found |-> report_protocol_unavailable(require)]
          [] OTHER                -> [res |-> "NotRun", found |-> report_protocol_unavailable(require)]

combine_protocol_results(reality, hysteria2) ==
    LET both == {reality, hysteria2}
    IN  IF "Failed" \in both THEN "Failed"
        ELSE IF both = {"Passed"} THEN "Passed"
        ELSE IF "Passed" \in both THEN "Partial"
        ELSE IF "Inconclusive" \in both THEN "Inconclusive" ELSE "NotRun"

hysteria2_selftest_applies(role) == role = "exit"

check_l5_l6_protocol_selftest(h, require) ==
    LET reality == check_l5_l6_reality_selftest(h, require)
        hysteria2 == check_l5_l6_hysteria2_selftest(h, require)
    IN  IF ~hysteria2_selftest_applies(h.role)
        THEN [res |-> reality.res, found |-> reality.found \o <<Info>>]
        ELSE [res |-> combine_protocol_results(reality.res, hysteria2.res),
              found |-> reality.found \o hysteria2.found]

-----------------------------------------------------------------------------
l1_l4_checks(h) ==
    check_binary_and_config(h) \o check_reality_keys(h) \o check_user_store(h)
    \o check_hysteria_material(h) \o report_cert_expiry(h.webcert)
    \o check_service(h.singbox) \o check_service(h.subscription)
    \o check_reconcile(h) \o check_watchdog(h) \o check_firewall(h)
    \o check_listeners(h) \o check_udp_egress(h)
    \o own_address_egress_rule_report(h) \o check_expected_public_surface(h)
    \o classify_host_ipv6(h.ipv6) \o check_host_egress_isolation_table(h)
    \o check_firewall_zone_and_ownership
    \o check_l4_subscription_coherence(h) \o check_l4_live_subscription_process_state(h)
    \o check_public_hostname_and_ipv6_policy(h) \o check_conntrack_pressure(h)
    \o check_udp_memory_pressure(h) \o singbox_version_consistency_report(h.versions)
    \o <<evaluate_release(h.release), Info>>

Failures(found) == Cardinality({i \in DOMAIN found : found[i].counted})

(* The summary of --telegram and --client: each layer by its own result.   *)
build_doctor_coverage_report(l1_l4_failures, protocol_result) ==
    IF l1_l4_failures = 0 /\ protocol_result = "Passed" THEN "cleared" ELSE "caveat"

(* The exit status, the closing line and the coverage summary.             *)
cmd_doctor(h, protocol, require) ==
    LET l14   == l1_l4_checks(h)
        l56   == IF protocol THEN check_l5_l6_protocol_selftest(h, require)
                 ELSE [res |-> "NotRun", found |-> <<Warn>>]
        found == l14 \o l56.found \o <<Info>>
    IN  [found |-> found, res |-> l56.res,
         line |-> IF Failures(found) > 0 THEN "failed"
                  ELSE IF l56.res = "Passed" THEN "passed" ELSE "incomplete",
         coverage |-> build_doctor_coverage_report(Failures(l14), l56.res)]
=============================================================================
