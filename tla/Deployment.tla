----------------------------- MODULE Deployment -----------------------------
(***************************************************************************)
(* deployment.toml as the programs use it: the declared access paths and   *)
(* peer endpoints, the node's role and egress sections, what              *)
(* DeploymentConfig::validate refuses, and what is derived from an         *)
(* accepted file: the relay's forwarding targets and the endpoints that    *)
(* are served to clients.                                                  *)
(*                                                                         *)
(* A peer's host stands for the whole server (host, port and REALITY key): *)
(* "v4" and "name" are two dialable servers, "inner" a literal address     *)
(* that validate_relay_target_host denies.  Shape checks of one string     *)
(* (empty ids, unknown keys, malformed keys) have no bearing on another    *)
(* field and are left out.                                                 *)
(***************************************************************************)
EXTENDS Naturals, FiniteSets, SequencesExt

None == "none"
Local == {"reality-1", "hysteria2-1"}

(* RESERVED_ENDPOINT_TAGS.                                                 *)
ReservedTags == {"Reality", "Hysteria2", "auto", "select", "direct"}

(* A [[peer_endpoints]] entry and an [[access_paths]] entry.               *)
PeerEndpoint(id, tag, host, transport, path, cref, flow) ==
    [id |-> id, tag |-> tag, host |-> host, transport |-> transport,
     path |-> path, cref |-> cref, flow |-> flow]
AccessPath(id, kind, via, caps) ==
    [id |-> id, kind |-> kind, via |-> via, caps |-> caps]

PeerWithId(d, id) == {p \in ToSet(d.peers) : p.id = id}

relay_path(d, id) == {a \in ToSet(d.paths) : a.id = id /\ a.kind = "relay"}

-----------------------------------------------------------------------------
(* PeerEndpointSection::validate: what it relates between two fields.      *)
validate_peer(p) ==
    p.flow = "none" => p.transport = "vless" /\ p.path # "direct"

(* The uniqueness rules of DeploymentConfig::validate, and the rule that a *)
(* path is declared once access paths are used.                            *)
validate_names(d) ==
    /\ \A i, j \in DOMAIN d.paths : d.paths[i].id = d.paths[j].id => i = j
    /\ \A i, j \in DOMAIN d.peers :
          d.peers[i].id = d.peers[j].id \/ d.peers[i].tag = d.peers[j].tag => i = j
    /\ \A p \in ToSet(d.peers) :
          /\ validate_peer(p)
          /\ p.id \notin Local
          /\ p.tag \notin ReservedTags
          /\ d.paths # <<>> /\ p.path # "direct" =>
                \E a \in ToSet(d.paths) : a.id = p.path

(* A declared first hop is a real, direct, TCP-capable endpoint.           *)
validate_access_path_first_hops(d) ==
    \A a \in ToSet(d.paths) :
       a.via # None =>
          /\ a.kind = "relay"
          /\ a.via # "hysteria2-1"
          /\ IF a.via = "reality-1"
             THEN d.role = "relay"
             ELSE \E p \in PeerWithId(d, a.via) :
                     p.transport = "vless" /\ p.path = "direct" /\ p.cref = None
          /\ a.caps = {"tcp"}

(* An alias reuses the credential of the direct endpoint of its own server.*)
validate_credential_refs(d) ==
    \A p \in ToSet(d.peers) :
       p.cref # None =>
          /\ p.cref # p.id
          /\ \E t \in PeerWithId(d, p.cref) :
                /\ t.transport = p.transport
                /\ t.cref = None /\ t.path = "direct"
                /\ t.flow = p.flow
                /\ t.host = p.host

validate_relay_target_host(host) == host # "inner"

validate_relay_routes(d) ==
    \A p \in ToSet(d.peers) : \A a \in relay_path(d, p.path) :
       p.path # "direct" =>
          /\ p.transport = "vless"
          /\ a.via # None
          /\ a.via # p.id
          /\ a.via = "reality-1" => validate_relay_target_host(p.host)

(* A relay declares its own listener as first-hop infrastructure.          *)
validate_role(d) ==
    d.role = "relay" =>
       \E a \in ToSet(d.paths) : a.kind = "relay" /\ a.via = "reality-1"

(* The egress sections: which of them exclude each other, and their roles. *)
validate_sections(d) ==
    /\ d.egress # None => d.role = "exit" /\ ~(d.hairpin /\ d.egress = "allow")
    /\ d.principals # None => d.role = "relay"
    /\ d.spoof => ~d.hairpin

validate(d) ==
    /\ validate_names(d)
    /\ validate_access_path_first_hops(d)
    /\ validate_credential_refs(d)
    /\ validate_relay_routes(d)
    /\ validate_role(d)
    /\ validate_sections(d)

exit_principals_enabled(d) == d.principals = "on"

-----------------------------------------------------------------------------
(* The destinations a relay may dial: peers whose relay path starts at its *)
(* own listener.  Sorted and de-duplicated, hence a set.                   *)
relay_targets(d) ==
    IF d.role # "relay" THEN {}
    ELSE {p.host : p \in {q \in ToSet(d.peers) :
                            \E a \in relay_path(d, q.path) : a.via = "reality-1"}}

(* render.rs's standard_endpoints: the node's own two listeners.           *)
standard_endpoints ==
    << [id |-> "reality-1", tag |-> "Reality", host |-> "self", transport |-> "vless",
        path |-> None, cref |-> None, flow |-> "vision", origin |-> "local"],
       [id |-> "hysteria2-1", tag |-> "Hysteria2", host |-> "self", transport |-> "hy2",
        path |-> None, cref |-> None, flow |-> "vision", origin |-> "local"] >>

to_compat_endpoint(p) ==
    [id |-> p.id, tag |-> p.tag, host |-> p.host, transport |-> p.transport,
     path |-> p.path, cref |-> p.cref, flow |-> p.flow, origin |-> "peer"]

(* The endpoint set vpn-subscription serves and vpn-admin reproduces.      *)
served_endpoints(d) ==
    (IF d.role = "relay" THEN <<standard_endpoints[1]>> ELSE standard_endpoints)
    \o [i \in DOMAIN d.peers |-> to_compat_endpoint(d.peers[i])]

(* Endpoint ids that relay paths dial first: infrastructure, never a route *)
(* of their own.                                                           *)
infrastructure_endpoint_ids(d) ==
    {a.via : a \in {b \in ToSet(d.paths) : b.kind = "relay"}} \ {None}
=============================================================================
