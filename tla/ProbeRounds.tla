----------------------------- MODULE ProbeRounds -----------------------------
(***************************************************************************)
(* The agent's protocol prober (protocol_probe.rs) and the heartbeat that  *)
(* carries its reports (main.rs).  The prober is a task of its own: it     *)
(* makes sure the node's probe user exists, publishes its links, fetches   *)
(* the targets, probes them and leaves a report in a one-place slot.  The  *)
(* main loop takes the report out of the slot before it sends it.          *)
(*                                                                         *)
(* gen counts the changes of the node's share links (a rotated REALITY     *)
(* key, a rotated credential); own and row are the generation the agent    *)
(* remembers and the one the control plane holds, 0 if they have none.     *)
(***************************************************************************)
EXTENDS AddressPolicy, FiniteSets

CONSTANTS
    Peers,              \* other nodes
    Statics,            \* the peers in static_targets
    Outcomes,           \* what a probe of an endpoint can meet, see probe_endpoint
    RepublishEvery,     \* rounds between two publications (30 in the code)
    MaxRounds,          \* bound: rounds of one agent process
    MaxDrops            \* bound: link changes, lost rows and restarts

ASSUME ProbeAssumption ==
    /\ Statics \subseteq Peers
    /\ RepublishEvery \in Nat \ {0} /\ MaxRounds \in Nat /\ MaxDrops \in Nat

Me == "me"
None == "none"
Public == <<8, 8, 8, 8>>
Loopback == <<127, 0, 0, 1>>

VARIABLES
    ppc, own, published, round, targets,    \* the prober
    streaks,            \* FailureStreaks: key -> [streak, seen]
    slot, taken,        \* the shared slot, and the process and round of the report that a
                        \* heartbeat carries
    row, received,      \* the control plane: this node's links, the rounds it counted
    gen, drops, life,   \* the node's links, faults so far, agent processes so far
    history             \* history: whether a key was ok in this round and the last, and the
                        \* rounds begun since the row was last written

prober == <<ppc, own, published, round, targets, streaks>>
probe_vars == <<prober, slot, taken, row, received, gen, drops, life, history>>

Nothing == [x \in {} |-> TRUE]

-----------------------------------------------------------------------------
(* probe_endpoint.  An outcome says how far the client got (tcp is the     *)
(* plain connect that only a REALITY endpoint gets), how many of the       *)
(* SAMPLES requests came back, and whether DNS and IPv6 worked.            *)
SAMPLES == 3

probe_endpoint(o) ==
    LET https     == o.samples > 0
        handshake == https \/ o.dns \/ o.v6
        early(error) == [ok |-> FALSE, error |-> error, loss |-> 100, ipv6 |-> "unknown"]
    IN  IF ~o.tcp THEN early("tcp_unreachable")
        ELSE IF o.client # "ready" THEN early(o.client)
        ELSE [ok    |-> handshake /\ https,
              error |-> IF handshake /\ https THEN None
                        ELSE IF ~handshake THEN "handshake_failed" ELSE "no_ipv4_egress",
              loss  |-> ((SAMPLES - o.samples) * 100) \div SAMPLES,
              ipv6  |-> IF o.v6 THEN "egress" ELSE IF https /\ o.dns THEN "blocked" ELSE "unknown"]

(* A target's address comes with it; the self-probe's is overridden with   *)
(* self_probe_host, the loopback address.                                  *)
Key(t) == <<t.node, t.vantage>>
Observed(ts) == {t \in ts : resolve_and_validate(<<t.addr>>) # <<>>}

(* deduplicate_targets: the first definition of a node wins, and the       *)
(* static ones come first.                                                 *)
deduplicate_targets(fetched) ==
    {[node |-> n, src |-> "static", vantage |-> "peer", addr |-> Public] : n \in Statics}
    \cup {t \in fetched : t.node \notin Statics \cup {Me}}

(* FailureStreaks::observe.                                                *)
observe(key, ok) ==
    LET consecutive == key \in DOMAIN streaks /\ streaks[key].seen + 1 = round
    IN  IF ok THEN 0 ELSE IF consecutive THEN streaks[key].streak + 1 ELSE 1

hysteretic_status(ok, streak) ==
    IF ok THEN "healthy" ELSE IF streak < 2 THEN "degraded" ELSE "failed"

-----------------------------------------------------------------------------
(* ensure_probe_user: vpn-admin creates the user or returns the existing   *)
(* one, and prints its links.  Once known, they are not asked for again.   *)
Ensure ==
    /\ ppc = "ensure"
    /\ own' \in IF own = 0 THEN {0, gen} ELSE {own}
    /\ published' = IF round % RepublishEvery = 0 THEN FALSE ELSE published
    /\ history' = [history EXCEPT !.since = @ + 1]
    /\ ppc' = "publish"
    /\ UNCHANGED <<round, targets, streaks, slot, taken, row, received, gen, drops, life>>

(* The control plane stores the links it is sent.                          *)
Written == row' = own /\ history' = [history EXCEPT !.since = 0]

(* publish_credential; the answer of a request that arrived can be lost.   *)
PublishLinks ==
    /\ ppc = "publish"
    /\ IF published \/ own = 0 THEN UNCHANGED <<published, row, history>>
       ELSE \/ published' = TRUE /\ Written
            \/ UNCHANGED published /\ (Written \/ UNCHANGED <<row, history>>)
    /\ ppc' = "fetch"
    /\ UNCHANGED <<own, round, targets, streaks, slot, taken, received, gen, drops, life>>

(* fetch_targets: the control plane may name any node, this one included,  *)
(* at any address; a failed request leaves the static targets.             *)
FetchTargets ==
    /\ ppc = "fetch"
    /\ \E nodes \in SUBSET (Peers \cup {Me}), addr \in {Public, Loopback} :
         targets' = deduplicate_targets(
             {[node |-> n, src |-> "fetched", vantage |-> "peer", addr |-> addr] : n \in nodes})
             \cup (IF own = 0 THEN {}
                   ELSE {[node |-> Me, src |-> "own", vantage |-> "self", addr |-> Loopback]})
    /\ ppc' = "probe"
    /\ UNCHANGED <<own, published, round, streaks, slot, taken, row, received, gen, drops, life, history>>

(* The probes, the streaks, and the report.                                *)
Probe ==
    /\ ppc = "probe" /\ round < MaxRounds
    /\ \E met \in [Observed(targets) -> Outcomes] :
         LET keys == {Key(t) : t \in Observed(targets)}
             at(k) == probe_endpoint(met[CHOOSE t \in Observed(targets) : Key(t) = k])
             streak(k) == observe(k, at(k).ok)
         IN  /\ streaks' = [k \in keys |-> [streak |-> streak(k), seen |-> round]]
             /\ slot' = [life |-> life, round |-> round + 1,
                         results |-> [k \in keys |->
                            [probe |-> at(k), status |-> hysteretic_status(at(k).ok, streak(k))]]]
             /\ history' = [history EXCEPT !.now = [k \in keys |-> at(k).ok], !.last = history.now]
    /\ round' = round + 1 /\ targets' = {}
    /\ ppc' = "ensure"
    /\ UNCHANGED <<own, published, taken, row, received, gen, drops, life>>

-----------------------------------------------------------------------------
NoHistory == [now |-> Nothing, last |-> Nothing, since |-> 0]
NoReport == [life |-> 0, round |-> 0, results |-> Nothing]

(* Mutant: the heartbeat copies the report and leaves it in the slot.      *)
take_report_copy ==
    /\ taken = <<>> /\ slot # NoReport
    /\ taken' = <<slot.life, slot.round>>
    /\ UNCHANGED <<prober, slot, row, received, gen, drops, life, history>>

(* The main loop's heartbeat: take_report, then the request, which may be  *)
(* held back by the gate, fail, or arrive with its answer lost.            *)
take_report ==
    /\ taken = <<>> /\ slot # NoReport
    /\ taken' = <<slot.life, slot.round>> /\ slot' = NoReport
    /\ UNCHANGED <<prober, row, received, gen, drops, life, history>>

heartbeat ==
    /\ taken # <<>>
    /\ taken' = <<>>
    /\ received' \in {received, Append(received, taken)}
    /\ UNCHANGED <<prober, slot, row, gen, drops, life, history>>

-----------------------------------------------------------------------------
Fault == drops < MaxDrops /\ drops' = drops + 1

(* The control plane loses this node's row (external).                     *)
DropRow ==
    /\ Fault /\ row' = 0
    /\ UNCHANGED <<prober, slot, taken, received, gen, life, history>>

(* vpn-admin rotates what the links are made of.                           *)
ChangeLinks ==
    /\ Fault /\ gen' = gen + 1
    /\ UNCHANGED <<prober, slot, taken, row, received, life, history>>

(* The agent restarts and forgets everything but what others hold.         *)
AgentRestart ==
    /\ Fault /\ life' = life + 1
    /\ ppc' = "ensure" /\ own' = 0 /\ published' = FALSE /\ round' = 0
    /\ targets' = {} /\ streaks' = Nothing /\ slot' = NoReport /\ taken' = <<>>
    /\ history' = NoHistory
    /\ UNCHANGED <<row, received, gen>>

ProbeInit ==
    /\ ppc = "ensure" /\ own = 0 /\ published = FALSE /\ round = 0
    /\ targets = {} /\ streaks = Nothing /\ slot = NoReport /\ taken = <<>>
    /\ row = 0 /\ received = <<>> /\ gen = 1 /\ drops = 0 /\ life = 1
    /\ history = NoHistory

Prober == Ensure \/ PublishLinks \/ FetchTargets \/ Probe
ProbeNext == Prober \/ take_report \/ heartbeat \/ DropRow \/ ChangeLinks \/ AgentRestart

ProbeSpec == ProbeInit /\ [][ProbeNext]_probe_vars

-----------------------------------------------------------------------------
(* A round reaches the control plane at most once, in the order the rounds *)
(* were made: the heartbeat takes the report out of the slot.              *)
CountedOnce ==
    \A i, j \in DOMAIN received :
       i < j => \/ received[i][1] < received[j][1]
                \/ received[i][1] = received[j][1] /\ received[i][2] < received[j][2]

(* The status of a report is hysteretic: an endpoint is "failed" exactly   *)
(* when it failed in this round and in the one directly before it, and     *)
(* "healthy" exactly when it answered; a gap starts the count anew.        *)
FailedMeansTwice ==
    slot # NoReport =>
       \A k \in DOMAIN slot.results :
          LET now  == history.now[k]
              last == k \in DOMAIN history.last /\ ~history.last[k]
          IN  slot.results[k].status =
                 IF now THEN "healthy" ELSE IF last THEN "failed" ELSE "degraded"

(* While the agent holds its links for published, they were written within *)
(* the last RepublishEvery rounds: a row that the control plane lost is    *)
(* back after at most that many rounds that reach it.                      *)
RepublishedInTime == published => own # 0 /\ history.since < RepublishEvery

(* What the control plane and the operator are told is true: each round    *)
(* counts once and in order, "failed" means failed twice running, and the  *)
(* node's own links are written again before they can go missing for long. *)
ReportsAreFaithful == CountedOnce /\ FailedMeansTwice /\ RepublishedInTime

==============================================================================
