----------------------------- MODULE Provisioning ----------------------------
(***************************************************************************)
(* What a client is handed: the contract endpoints of one user, the        *)
(* sing-box config rendered from them, the provisioning document and its   *)
(* own validation, and the answers of /sub/{token} and /v1/provision.      *)
(*                                                                         *)
(* A user is a function from peer endpoint ids to the transport of the     *)
(* credential held for it, or None.  Fallible functions return a record    *)
(* whose res is "ok", "no_route" (NoSelectableRoute) or "err".             *)
(***************************************************************************)
EXTENDS Deployment

Profiles == {"reliability", "performance", "auto"}
Modes == {"normal", "tcp-only", "quic-reject", "vision-off", "hiddify-pinned",
          "youtube-direct"}

Err == [res |-> "err"]
NoRoute == [res |-> "no_route"]
Omitted == [res |-> "omit"]

NoneOr(seq) == IF seq = <<>> THEN None ELSE seq[1]
Tags(seq) == [i \in DOMAIN seq |-> seq[i].tag]

-----------------------------------------------------------------------------
(* contract_endpoint_opt: a peer this user has no credential for is        *)
(* omitted, and a credential never crosses transports.                     *)
contract_endpoint_opt(user, ep, flow, tag) ==
    LET id   == IF ep.cref = None THEN ep.id ELSE ep.cref
        held == IF ep.origin = "local" THEN ep.transport ELSE user[id]
    IN  IF held = None THEN Omitted
        ELSE IF held # ep.transport THEN Err
        ELSE [res |-> "ok", id |-> ep.id, tag |-> tag, host |-> ep.host,
              transport |-> ep.transport, path |-> ep.path,
              flow |-> IF ep.transport = "hy2" \/ ep.flow = "none" THEN "none" ELSE flow]

(* contract_endpoint: the same, but a missing credential is an error.      *)
contract_endpoint(user, ep, flow, tag) ==
    LET built == contract_endpoint_opt(user, ep, flow, tag)
    IN  IF built = Omitted THEN Err ELSE built

-----------------------------------------------------------------------------
(* The first hop a selectable endpoint dials through: None for a direct    *)
(* route, "err" where the builder refuses.                                 *)
DetourOf(all, paths, ep) ==
    LET hops == {v \in ToSet(all) :
                   /\ \E a \in ToSet(paths) :
                         a.id = ep.path /\ a.kind = "relay" /\ a.via = v.id
                   /\ v.id # ep.id
                   /\ v.transport = "vless" /\ ep.transport = "vless"}
    IN  IF paths = <<>> \/ ep.path \in {None, "direct"} THEN None
        ELSE IF hops = {} THEN "err"
        ELSE (CHOOSE v \in hops : TRUE).tag

AutoMembers(tags, relayed) == IF relayed = <<>> THEN tags ELSE relayed

DefaultTag(selectable, relayed, profile, mode) ==
    LET first(t) == NoneOr(Tags(SelectSeq(selectable, LAMBDA e : e.transport = t)))
    IN  IF profile = "auto" /\ mode # "hiddify-pinned" THEN "auto"
        ELSE IF relayed # <<>> THEN relayed[1]
        ELSE IF profile = "performance" /\ first("hy2") # None THEN first("hy2")
        ELSE IF first("vless") # None THEN first("vless")
        ELSE selectable[1].tag

(* The detour chain behind a tag, and the suffix that hides its members.   *)
RECURSIVE Chain(_, _)
Chain(outs, chain) ==
    LET next == {o.detour : o \in {p \in ToSet(outs) : p.tag = Last(chain)}}
                \ ({None} \cup ToSet(chain))
    IN  IF next = {} THEN chain
        ELSE Chain(outs, Append(chain, CHOOSE t \in next : TRUE))

Hide(tag) == tag \o " (hidden)"

(* Mutant: the first hop keeps its visible name.                           *)
pin_to_single_route_visible(cfg) ==
    LET chain == Chain(cfg.outs, <<cfg.default>>)
        kept  == SelectSeq(cfg.outs, LAMBDA o : o.tag \in ToSet(chain))
    IN  [cfg EXCEPT !.outs = kept, !.tags = <<cfg.default>>, !.auto = <<cfg.default>>]

(* hiddify-pinned: one visible route and the hidden chain it dials through.*)
pin_to_single_route(cfg) ==
    LET chain     == Chain(cfg.outs, <<cfg.default>>)
        kept      == SelectSeq(cfg.outs, LAMBDA o : o.tag \in ToSet(chain))
        hidden(t) == IF t \in ToSet(Tail(chain)) THEN Hide(t) ELSE t
    IN  IF cfg.default \notin ToSet(cfg.tags) THEN Err
        ELSE [cfg EXCEPT
                !.outs = [i \in DOMAIN kept |->
                            [kept[i] EXCEPT !.tag = hidden(@), !.detour = hidden(@)]],
                !.tags = <<cfg.default>>,
                !.auto = <<cfg.default>>]

(* render_singbox_config_from_contract_with_access_paths.  A selectable    *)
(* endpoint becomes a route, infrastructure only an outbound; the selector *)
(* offers tags plus "auto", and route.final is always the selector.        *)
render_config(all, selectable_ids, paths, infrastructure, profile, mode) ==
    LET offered    == SelectSeq(all, LAMBDA e : e.id \in selectable_ids \cup infrastructure)
        selectable == SelectSeq(all, LAMBDA e : e.id \in selectable_ids)
        detour(e)  == IF e.id \in selectable_ids THEN DetourOf(all, paths, e) ELSE None
        relayed    == Tags(SelectSeq(selectable, LAMBDA e : detour(e) # None))
        outbound(e) ==
            [tag |-> e.tag, id |-> e.id, type |-> e.transport, flow |-> e.flow,
             detour |-> detour(e),
             net |-> IF detour(e) # None \/ (mode = "tcp-only" /\ e.transport = "vless")
                     THEN "tcp" ELSE "any"]
        cfg == [res |-> "ok",
                outs |-> [i \in DOMAIN offered |-> outbound(offered[i])],
                tags |-> Tags(selectable),
                auto |-> AutoMembers(Tags(selectable), relayed),
                default |-> DefaultTag(selectable, relayed, profile, mode),
                rules |-> {mode} \cap {"quic-reject", "youtube-direct"}]
    IN  IF \/ \E e \in ToSet(selectable) : detour(e) = "err"
           \/ ~IsInjective(Tags(selectable))
        THEN Err
        ELSE IF selectable = <<>> THEN NoRoute
        ELSE IF mode = "hiddify-pinned" THEN pin_to_single_route(cfg)
        ELSE cfg

-----------------------------------------------------------------------------
(* The catalog and the embedded config describe the same routes (B, C and  *)
(* E of the cross-validation; D holds of every config, whose route.final   *)
(* is the selector).                                                       *)
cross_validate_embedded_config(doc) ==
    LET relayed == {e.tag : e \in {f \in ToSet(doc.endpoints) :
                       \E a \in ToSet(doc.paths) : a.id = f.path /\ a.kind = "relay"}}
        rendered == {o.tag : o \in ToSet(doc.config.outs)} \cup {"auto", "select", "direct"}
        catalog  == {e.tag : e \in ToSet(doc.endpoints)}
    IN  /\ catalog \subseteq rendered
        /\ ToSet(doc.config.tags) = catalog
        /\ Len(doc.config.tags) = Len(doc.endpoints)
        /\ relayed # {} =>
              /\ \A o \in ToSet(doc.config.outs) : o.tag \in relayed => o.detour # None
              /\ ToSet(doc.config.auto) \subseteq relayed

(* ProvisioningDocument::validate: unique ids, resolved paths, exactly the *)
(* capabilities that are served, and the cross-validation.                 *)
validate_document(doc) ==
    /\ IsInjective([i \in DOMAIN doc.paths |-> doc.paths[i].id])
    /\ IsInjective([i \in DOMAIN doc.endpoints |-> doc.endpoints[i].id])
    /\ \A e \in ToSet(doc.endpoints) :
          doc.paths # <<>> /\ e.path \notin {None, "direct"} =>
             \E a \in ToSet(doc.paths) : a.id = e.path
    /\ doc.capabilities = {e.transport : e \in ToSet(doc.endpoints)}
    /\ cross_validate_embedded_config(doc)

(* Only hiddify-pinned lets application UDP into a relayed VLESS route.    *)
restore_application_udp_on_relayed_vless(cfg, mode) ==
    IF mode # "hiddify-pinned" THEN cfg
    ELSE [cfg EXCEPT !.outs = [i \in DOMAIN cfg.outs |->
            IF cfg.outs[i].type = "vless" /\ cfg.outs[i].detour # None
            THEN [cfg.outs[i] EXCEPT !.net = "any"] ELSE cfg.outs[i]]]

(* Mutant: the catalog of a pinned profile still lists every route.        *)
Catalog_unpinned(selectable, cfg, mode) == selectable

(* The catalog is narrowed to what the renderer kept.                      *)
Catalog(selectable, cfg, mode) ==
    IF mode # "hiddify-pinned" THEN selectable
    ELSE SelectSeq(selectable, LAMBDA e : e.tag \in {o.tag : o \in ToSet(cfg.outs)})

(* The endpoints of a profile: Hysteria2 is left out of a TCP-only one, and *)
(* a vision-off one is without a flow.                                     *)
UserEndpoints(d, mode) ==
    SelectSeq(served_endpoints(d), LAMBDA e : ~(mode = "tcp-only" /\ e.transport = "hy2"))
vision_off(e, mode) == mode = "vision-off" /\ e.transport = "vless"
user_flow(e, mode) == IF vision_off(e, mode) THEN "none" ELSE "vision"

(* provisioning_document_with_mode_and_access_paths_and_options.           *)
provisioning_document(d, user, profile, mode) ==
    LET eps   == UserEndpoints(d, mode)
        built == [i \in DOMAIN eps |->
                    contract_endpoint_opt(user, eps[i], user_flow(eps[i], mode), eps[i].tag)]
        all   == SelectSeq(built, LAMBDA e : e.res = "ok")
        infra == infrastructure_endpoint_ids(d)
        selectable == SelectSeq(all, LAMBDA e : e.id \notin infra)
        cfg   == render_config(all, {e.id : e \in ToSet(selectable)}, d.paths, infra,
                               profile, mode)
        catalog == Catalog(selectable, cfg, mode)
        doc   == [res |-> "ok", endpoints |-> catalog, paths |-> d.paths,
                  capabilities |-> {e.transport : e \in ToSet(catalog)},
                  config |-> restore_application_udp_on_relayed_vless(cfg, mode)]
    IN  IF Err \in ToSet(built) THEN Err
        ELSE IF selectable = <<>> /\ infra # {} THEN NoRoute
        ELSE IF cfg.res # "ok" THEN cfg
        ELSE IF validate_document(doc) THEN doc
        ELSE [res |-> "invalid"]

(* render_singbox_client_subscription_with_options, the path of a          *)
(* deployment without access paths.                                        *)
render_client_subscription(d, user, profile, mode) ==
    LET eps   == UserEndpoints(d, mode)
        tag(e) == IF vision_off(e, mode) THEN e.tag \o " (vision-off)" ELSE e.tag
        built == [i \in DOMAIN eps |->
                    contract_endpoint(user, eps[i], user_flow(eps[i], mode), tag(eps[i]))]
    IN  IF Err \in ToSet(built) THEN Err
        ELSE render_config(built, {e.id : e \in ToSet(built)}, <<>>, {}, profile, mode)

-----------------------------------------------------------------------------
(* Share links: direct routes only, and never a first hop.                 *)
share_link_endpoints(d) ==
    SelectSeq(served_endpoints(d),
              LAMBDA e : e.path \in {None, "direct"} /\ e.id \notin infrastructure_endpoint_ids(d))

render_share_links(d, user) ==
    LET eps   == share_link_endpoints(d)
        built == [i \in DOMAIN eps |-> contract_endpoint_opt(user, eps[i], "vision", eps[i].tag)]
    IN  IF Err \in ToSet(built) THEN Err
        ELSE [res |-> "ok", links |-> SelectSeq(built, LAMBDA e : e.res = "ok")]

user_has_relayed_route(d, user) ==
    \E e \in ToSet(served_endpoints(d)) :
       /\ e.path \notin {None, "direct"}
       /\ user[IF e.cref = None THEN e.id ELSE e.cref] # None

(* An answer: its status and the ids of the routes it offers.              *)
Answer(status, routes) == [status |-> status, routes |-> routes]
Refusal(r) == Answer(IF r.res = "no_route" THEN 503 ELSE 500, {})

(* The routes of a rendered config: what its selector offers.              *)
Routes(cfg) == {o.id : o \in {p \in ToSet(cfg.outs) : p.tag \in ToSet(cfg.tags)}}

(* format=singbox: the whole config, relay-aware once paths are declared.  *)
SingboxAnswer(d, user, profile, mode) ==
    IF d.paths = <<>>
    THEN LET cfg == render_client_subscription(d, user, profile, mode)
         IN  IF cfg.res = "ok" THEN Answer(200, Routes(cfg)) ELSE Answer(500, {})
    ELSE LET doc == provisioning_document(d, user, profile, mode)
         IN  IF doc.res = "ok" THEN Answer(200, Routes(doc.config)) ELSE Refusal(doc)

(* format=uri and format=hiddify: refused for what a link cannot express.  *)
LinkAnswer(d, user, mode) ==
    LET r == render_share_links(d, user)
    IN  IF \/ mode \in {"hiddify-pinned", "quic-reject", "youtube-direct", "tcp-only"}
           \/ user_has_relayed_route(d, user)
        THEN Answer(400, {})
        ELSE IF r.res = "err" THEN Answer(500, {})
        ELSE IF r.links = <<>> THEN Answer(503, {})
        ELSE Answer(200, {e.id : e \in ToSet(r.links)})

(* get_subscription once the token has named a user.                       *)
get_subscription(d, user, format, profile, mode) ==
    IF format = "singbox" THEN SingboxAnswer(d, user, profile, mode)
    ELSE LinkAnswer(d, user, mode)

(* get_provision: the default profile, and the diagnostic modes only.      *)
get_provision(d, user, mode) ==
    LET doc == provisioning_document(d, user, "reliability", mode)
    IN  IF doc.res = "ok" THEN Answer(200, {e.id : e \in ToSet(doc.endpoints)})
        ELSE Refusal(doc)
=============================================================================
