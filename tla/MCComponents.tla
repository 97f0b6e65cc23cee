---------------------------- MODULE MCComponents ----------------------------
(***************************************************************************)
(* Components that share no state, side by side: the control-plane gate,   *)
(* the protocol prober, the pairing of two nodes, the grants of an account *)
(* and vpn-admin with its reconcile timer.  A behaviour is a behaviour of  *)
(* one of them, and part says of which.                                    *)
(***************************************************************************)
EXTENDS ControlPlaneGate, ProbeRounds, Pairing, CredentialGrants

CONSTANTS Procs, Creds, Free, Commands, MaxCommands

VARIABLES part, users, settings, sbak, rev, served, sstamp, lock, started, kills, hist,
          target, bak, stamp, running, active, clock, manual, pc, loc

(* vpn-admin where nothing fails, though processes are killed.             *)
Admin == INSTANCE AdminCommands WITH toml <- settings, Faults <- {}
MCCommands ==
    [kind : {"user"}, op : {"create", "disable", "enable"}, c : Creds, until : {0}, on : {TRUE}]
    \cup [kind : {"egress"}, eg : {1}]

admin_vars == <<users, settings, sbak, rev, served, sstamp, lock, started, kills, hist,
                target, bak, stamp, running, active, clock, manual, pc, loc>>
allvars == <<part, gate_vars, probe_vars, pairing_vars, grant_vars, admin_vars>>

(* Half-second ticks, and headers that ask for less than the backoff, more *)
(* than it, more than MAX_RETRY_AFTER, and for a date in the past, on a    *)
(* second and inside one.                                                  *)
MCHeaders ==
    {[kind |-> "none", n |-> 0]}
    \cup [kind : {"seconds"}, n : {0, 2, 5}]
    \cup [kind : {"date"}, n : {2, 5}]

(* A probe that gets through and one that does not.                        *)
MCOutcomes ==
    { [tcp |-> TRUE, client |-> "ready", samples |-> 0, dns |-> TRUE, v6 |-> FALSE],
      [tcp |-> TRUE, client |-> "ready", samples |-> 2, dns |-> TRUE, v6 |-> FALSE] }

MCInit ==
    /\ part \in {"gate", "probe", "pairing", "grants", "admin"}
    /\ GateInit /\ ProbeInit /\ PairingInit /\ GrantInit /\ Admin!Init
    /\ active => part = "admin"

MCNext ==
    /\ UNCHANGED part
    /\ \/ part = "gate" /\ GateNext
          /\ UNCHANGED <<probe_vars, pairing_vars, grant_vars, admin_vars>>
       \/ part = "probe" /\ ProbeNext
          /\ UNCHANGED <<gate_vars, pairing_vars, grant_vars, admin_vars>>
       \/ part = "pairing" /\ PairingNext
          /\ UNCHANGED <<gate_vars, probe_vars, grant_vars, admin_vars>>
       \/ part = "grants" /\ GrantNext
          /\ UNCHANGED <<gate_vars, probe_vars, pairing_vars, admin_vars>>
       \/ part = "admin" /\ Admin!Next
          /\ UNCHANGED <<gate_vars, probe_vars, pairing_vars, grant_vars>>

MCSpec == MCInit /\ [][MCNext]_allvars

(* AdminCommands' fairness, and its TimerRepairs: whatever process of      *)
(* vpn-admin was killed between two steps, the reconcile timer gets the    *)
(* server to run exactly the users and settings on disk.                   *)
AdminFairness ==
    /\ \A p \in Procs : WF_admin_vars(part = "admin" /\ Admin!Proceed(p))
    /\ WF_admin_vars(part = "admin" /\ \E p \in Procs : Admin!TimerFires(p))
TimerRepairs == part = "admin" /\ AdminFairness => Admin!TimerRepairs
=============================================================================
