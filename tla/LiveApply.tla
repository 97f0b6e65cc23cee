------------------------------ MODULE LiveApply ------------------------------
(***************************************************************************)
(* render_and_apply_singbox_config: the pipeline every vpn-admin command   *)
(* that changes authorization goes through.  It renders a document, skips  *)
(* it if it is already current, checks it, swaps it into place, restarts   *)
(* sing-box, proves the restart with a handshake, and records what it      *)
(* proved; on failure it puts the previous file back and restarts again.   *)
(*                                                                         *)
(* The pipeline is a subroutine.  A command calls it with Call, and the    *)
(* pipeline returns to loc[p].cont with its result in loc[p].ret:          *)
(*   "ok"   Ok(true), live        "no"  Ok(false), not proven live         *)
(*   "err"  Err                                                            *)
(***************************************************************************)
EXTENDS UserStore

CONSTANTS
    Procs,              \* vpn-admin processes
    Faults              \* which outcomes of the outside world can happen

(* What can go wrong around the pipeline.                                  *)
FaultNames == {"keys", "service", "invalid", "systemctl", "inactive", "rejected",
               "restore", "stamp", "save", "restart"}

ASSUME FaultsAssumption == Faults \subseteq FaultNames

VARIABLES
    target, bak,        \* config.json and its .bak
    stamp,              \* config.applied.sha256
    running, active,    \* the document sing-box runs, and systemd's is-active
    clock,              \* 0, then 1: the moment timed users expire
    manual,             \* the operator was told that recovery failed too
    pc, loc             \* control point and local variables of each process

host == <<target, bak, stamp, running, active>>

-----------------------------------------------------------------------------
(* The sing-box document: the settings it was rendered from and the keys   *)
(* of the users active at that time.                                       *)
NoDoc == [kind |-> "none"]
Torn  == [kind |-> "torn"]
Render(cfg, users, t) ==
    [kind |-> "doc", cfg |-> cfg,
     auth |-> [c \in Creds |-> IF is_active(users[c], t) THEN users[c].key ELSE 0]]
IsDoc(d) == d.kind = "doc"

Goto(p, label) == pc' = [pc EXCEPT ![p] = label]

Call(p, l, cfg, users, live, cont) ==
    /\ loc' = [loc EXCEPT ![p] =
                 [l EXCEPT !.acfg = cfg, !.ausers = users, !.live = live, !.cont = cont]]
    /\ Goto(p, "render")

Return(p, result) ==
    /\ loc' = [loc EXCEPT ![p].ret = result]
    /\ Goto(p, loc[p].cont)

-----------------------------------------------------------------------------
(* Mutant: the check for an already current config ignores the stamp.      *)
RenderStep_ignores_stamp(p) ==
    LET d == Render(loc[p].acfg, loc[p].ausers, clock)
    IN  /\ pc[p] = "render"
        /\ IF target = d /\ active
           THEN Return(p, "ok")
           ELSE /\ loc' = [loc EXCEPT ![p].doc = d, ![p].svc = TRUE]
                /\ Goto(p, "check")
        /\ UNCHANGED <<host, clock, manual>>

(* Keys, rendering, and the checks before anything is written.  A missing  *)
(* keyset or binary, or an uncontrollable service, is an error only when   *)
(* the caller requires a live apply.                                       *)
RenderStep(p) ==
    LET l == loc[p]
        d == Render(l.acfg, l.ausers, clock)
    IN  /\ pc[p] = "render"
        /\ \/ /\ "keys" \in Faults
              /\ Return(p, IF l.live THEN "err" ELSE "no")
           \/ \E svc \in IF "service" \in Faults THEN BOOLEAN ELSE {TRUE} :
                IF l.live /\ ~svc
                THEN Return(p, "err")
                ELSE IF target = d /\ stamp = d /\ svc /\ active
                THEN Return(p, "ok")
                ELSE /\ loc' = [loc EXCEPT ![p].doc = d, ![p].svc = svc]
                     /\ Goto(p, "check")
        /\ UNCHANGED <<host, clock, manual>>

(* apply_config_atomically up to the rename: validate, then keep a copy.   *)
CheckStep(p) ==
    /\ pc[p] = "check"
    /\ \/ /\ "invalid" \in Faults
          /\ Return(p, "err")
          /\ UNCHANGED bak
       \/ /\ bak' = IF target = NoDoc THEN bak ELSE target
          /\ Goto(p, "install")
          /\ UNCHANGED loc
    /\ UNCHANGED <<target, stamp, running, active, clock, manual>>

(* The rename.  Without a controllable service nothing is restarted.       *)
InstallStep(p) ==
    /\ pc[p] = "install"
    /\ target' = loc[p].doc
    /\ IF loc[p].svc THEN Goto(p, "reload") /\ UNCHANGED loc ELSE Return(p, "no")
    /\ UNCHANGED <<bak, stamp, running, active, clock, manual>>

(* The outcomes of reload_and_verify, with what they do to the service:    *)
(* systemctl fails and the old process stays; the restart sticks; or the   *)
(* new process does not stay active, at least not while it is watched.     *)
reload_and_verify(ok) ==
    \/ ~ok /\ "systemctl" \in Faults /\ UNCHANGED <<running, active>>
    \/ ok /\ IsDoc(target) /\ running' = target /\ active' = TRUE
    \/ /\ ~ok
       /\ "inactive" \in Faults \/ ~IsDoc(target)
       /\ running' = target
       /\ active' \in IF IsDoc(target) THEN BOOLEAN ELSE {FALSE}

(* Mutant: the outcome of the restart is not looked at.                    *)
ReloadStep_unverified(p) ==
    /\ pc[p] = "reload"
    /\ \E ok \in BOOLEAN : reload_and_verify(ok)
    /\ Goto(p, "handshake")
    /\ UNCHANGED <<target, bak, stamp, clock, manual, loc>>

(* The restart; only one that sticks goes on to the handshake.             *)
ReloadStep(p) ==
    /\ pc[p] = "reload"
    /\ \/ reload_and_verify(TRUE) /\ Goto(p, "handshake")
       \/ reload_and_verify(FALSE) /\ Goto(p, "restore")
    /\ UNCHANGED <<target, bak, stamp, clock, manual, loc>>

(* Only a rejected handshake blocks the commit.                            *)
HandshakeStep(p) ==
    /\ pc[p] = "handshake"
    /\ \/ Goto(p, "stamp")
       \/ "rejected" \in Faults /\ Goto(p, "restore")
    /\ UNCHANGED <<host, clock, manual, loc>>

(* std::fs::copy of the .bak truncates config.json before it fills it.     *)
RestoreStep(p) ==
    /\ pc[p] = "restore"
    /\ IF bak = NoDoc
       THEN manual' = TRUE /\ Return(p, "err") /\ UNCHANGED target
       ELSE target' = Torn /\ Goto(p, "restoring") /\ UNCHANGED <<manual, loc>>
    /\ UNCHANGED <<bak, stamp, running, active, clock>>

RestoringStep(p) ==
    /\ pc[p] = "restoring"
    /\ \/ target' = bak /\ Goto(p, "recover") /\ UNCHANGED <<manual, loc>>
       \/ "restore" \in Faults /\ manual' = TRUE /\ Return(p, "err") /\ UNCHANGED target
    /\ UNCHANGED <<bak, stamp, running, active, clock>>

RecoverStep(p) ==
    /\ pc[p] = "recover"
    /\ \/ reload_and_verify(TRUE) /\ UNCHANGED manual
       \/ reload_and_verify(FALSE) /\ manual' = TRUE
    /\ Return(p, "err")
    /\ UNCHANGED <<target, bak, stamp, clock>>

(* commit_applied_config_stamp.                                            *)
StampStep(p) ==
    /\ pc[p] = "stamp"
    /\ \/ stamp' = loc[p].doc /\ Return(p, "ok")
       \/ "stamp" \in Faults /\ Return(p, "err") /\ UNCHANGED stamp
    /\ UNCHANGED <<target, bak, running, active, clock, manual>>

Pipeline(p) ==
    \/ RenderStep(p) \/ CheckStep(p) \/ InstallStep(p) \/ ReloadStep(p)
    \/ HandshakeStep(p) \/ RestoreStep(p) \/ RestoringStep(p) \/ RecoverStep(p)
    \/ StampStep(p)

-----------------------------------------------------------------------------
(* systemd restarts sing-box on its own (Restart=on-failure, the watchdog):*)
(* the process loads whatever config.json is there.                        *)
ServiceRestart ==
    /\ "restart" \in Faults
    /\ running' = target /\ active' = IsDoc(target)
    /\ UNCHANGED <<target, bak, stamp, clock, manual, pc, loc>>

Expiry ==
    /\ clock = 0
    /\ clock' = 1
    /\ UNCHANGED <<host, manual, pc, loc>>
==============================================================================
