---------------------------- MODULE AdminCommands ----------------------------
(***************************************************************************)
(* vpn-admin: the commands that change a node's state.  Each process loads *)
(* deployment.toml, takes the state lock (an flock the kernel drops when   *)
(* the process dies), then runs one command to its end.  Commands change   *)
(* users.json, deployment.toml and the revision stamp around calls of the  *)
(* LiveApply pipeline.  A process may be killed between any two steps (the *)
(* agent kills vpn-admin after 60 seconds).                                *)
(***************************************************************************)
EXTENDS LiveApply

CONSTANTS
    MaxCommands,        \* bound: how many of them run
    MaxKills,           \* bound: how many processes are killed
    Free                \* the lock when no process holds it

Timer == [kind |-> "reconcile"]     \* vpn-expiry-reconcile.timer

ASSUME BoundsAssumption ==
    /\ MaxCommands \in Nat /\ MaxKills \in Nat
    /\ Free \notin Procs

VARIABLES
    users,              \* users.json
    toml,               \* deployment.toml: [ep: served endpoints, eg: egress policy]
    sbak,               \* deployment.toml.static-revision.bak
    rev,                \* applied_revision.json, 0 when missing
    served, sstamp,     \* endpoints vpn-subscription serves; its restart stamp
    lock,
    started, kills,     \* counters of the bounds
    hist                \* history: [snap: newest snapshot that was stamped,
                        \*           ep: endpoints of the last committed static revision]

files == <<users, toml, sbak, rev>>
sub == <<served, sstamp>>
bounds == <<started, kills>>
vars == <<host, clock, manual, pc, loc, files, sub, lock, bounds, hist>>

NoToml == [none |-> TRUE]
Idle == [cmd |-> Timer, cfg |-> NoToml, prev |-> NoUsers, next |-> NoUsers, orig |-> NoToml,
         acfg |-> NoToml, ausers |-> NoUsers, live |-> FALSE, svc |-> FALSE, doc |-> NoDoc,
         ret |-> "none", cont |-> "idle", touched |-> FALSE]

-----------------------------------------------------------------------------
(* DeploymentConfig::load comes first, then acquire_state_lock: a process  *)
(* that waits for the lock keeps the settings it loaded before.            *)
Begin(p, cmd) ==
    /\ pc[p] = "idle"
    /\ loc' = [loc EXCEPT ![p] = [Idle EXCEPT !.cmd = cmd, !.cfg = toml]]
    /\ Goto(p, "lock")
    /\ UNCHANGED <<host, clock, manual, files, sub, lock, kills, hist>>

Start(p, cmd) ==
    /\ started < MaxCommands
    /\ started' = started + 1
    /\ Begin(p, cmd)

TimerFires(p) == Begin(p, Timer) /\ UNCHANGED started

(* Mutant: a command runs without the lock.                                *)
Acquire_without_lock(p) ==
    /\ pc[p] = "lock"
    /\ lock' = p
    /\ Goto(p, "load")
    /\ UNCHANGED <<host, clock, manual, loc, files, sub, bounds, hist>>

Acquire(p) ==
    /\ pc[p] = "lock" /\ lock = Free
    /\ lock' = p
    /\ Goto(p, "load")
    /\ UNCHANGED <<host, clock, manual, loc, files, sub, bounds, hist>>

Exit(p) ==
    /\ pc' = [pc EXCEPT ![p] = "idle"]
    /\ loc' = [loc EXCEPT ![p] = Idle]
    /\ lock' = IF lock = p THEN Free ELSE lock

Finish(p) ==
    /\ pc[p] \in {"ok", "err"}
    /\ Exit(p)
    /\ UNCHANGED <<host, clock, manual, files, sub, bounds, hist>>

Kill(p) ==
    /\ pc[p] # "idle" /\ kills < MaxKills
    /\ kills' = kills + 1
    /\ Exit(p)
    /\ UNCHANGED <<host, clock, manual, files, sub, started, hist>>

-----------------------------------------------------------------------------
(* Mutant: a new store is published before the server runs it.             *)
UserCommand_saves_first(p) ==
    LET cmd == loc[p].cmd
    IN  /\ pc[p] = "load" /\ cmd.kind = "user"
        /\ \E u \in UserRec :
             /\ Mutates(cmd, users[cmd.c], u)
             /\ users' = [users EXCEPT ![cmd.c] = u]
             /\ Call(p, [loc[p] EXCEPT !.prev = users, !.next = users'],
                     loc[p].cfg, users', TRUE, "save")
        /\ UNCHANGED <<host, clock, manual, toml, sbak, rev, sub, lock, bounds, hist>>

(* Load and change one record, or refuse; then either a plain save         *)
(* (rotate-token; set-expiry that does not cross the active boundary), or  *)
(* a plain apply (a sync that changes nothing), or apply_users_and_save.   *)
UserCommand(p) ==
    LET l == loc[p]
        cmd == l.cmd
        old == users[cmd.c]
    IN  /\ pc[p] = "load" /\ cmd.kind = "user"
        /\ \/ /\ ~\E u \in UserRec : Mutates(cmd, old, u)
              /\ Goto(p, "err") /\ UNCHANGED loc
           \/ \E u \in UserRec :
                LET next == [users EXCEPT ![cmd.c] = u]
                    keep == [l EXCEPT !.prev = users, !.next = next]
                    unserved == \/ cmd.op = "token"
                                \/ cmd.op = "expiry" /\ is_active(old, clock) = is_active(u, clock)
                    same == cmd.op = "sync" /\ u = old
                IN  /\ Mutates(cmd, old, u)
                    /\ \/ /\ unserved
                          /\ loc' = [loc EXCEPT ![p] = keep] /\ Goto(p, "publish")
                       \/ same /\ Call(p, keep, l.cfg, next, TRUE, "checked")
                       \/ ~unserved /\ ~same /\ Call(p, keep, l.cfg, next, TRUE, "save")
        /\ UNCHANGED <<host, clock, manual, files, sub, lock, bounds, hist>>

(* save_users_atomic on its own.                                           *)
Publish(p) ==
    /\ pc[p] = "publish"
    /\ \/ users' = loc[p].next /\ Goto(p, "ok")
       \/ "save" \in Faults /\ Goto(p, "err") /\ UNCHANGED users
    /\ UNCHANGED <<host, clock, manual, loc, toml, sbak, rev, sub, lock, bounds, hist>>

Checked(p) ==
    /\ pc[p] = "checked"
    /\ Goto(p, IF loc[p].ret = "err" THEN "err" ELSE "ok")
    /\ UNCHANGED <<host, clock, manual, loc, files, sub, lock, bounds, hist>>

(* Mutant: a failed save leaves the new authorization running.             *)
Save_without_rollback(p) ==
    LET l == loc[p]
    IN  /\ pc[p] = "save"
        /\ \/ l.ret = "err" /\ Goto(p, "err") /\ UNCHANGED users
           \/ l.ret # "err" /\ users' = l.next /\ Goto(p, "ok")
           \/ "save" \in Faults /\ Goto(p, "err") /\ UNCHANGED users
        /\ UNCHANGED <<host, clock, manual, loc, toml, sbak, rev, sub, lock, bounds, hist>>

(* apply_users_and_save after the pipeline: publish, or put the previous   *)
(* authorization back.                                                     *)
Save(p) ==
    LET l == loc[p]
        revision == l.cmd.kind = "snapshot"
    IN  /\ pc[p] = "save"
        /\ \/ l.ret = "err" /\ Goto(p, "err") /\ UNCHANGED <<users, loc>>
           \/ /\ l.ret # "err"
              /\ users' = l.next
              /\ Goto(p, IF revision THEN "revstamp" ELSE "ok")
              /\ UNCHANGED loc
           \/ /\ l.ret # "err" /\ "save" \in Faults
              /\ Call(p, l, l.cfg, l.prev, TRUE, "unsaved")
              /\ UNCHANGED users
        /\ UNCHANGED <<host, clock, manual, toml, sbak, rev, sub, lock, bounds, hist>>

Unsaved(p) ==
    /\ pc[p] = "unsaved"
    /\ manual' = (manual \/ loc[p].ret = "err")
    /\ Goto(p, "err")
    /\ UNCHANGED <<host, clock, loc, files, sub, lock, bounds, hist>>

-----------------------------------------------------------------------------
(* cmd_render_config, run by the timer with --require-applied: apply what  *)
(* is on disk, then refresh a vpn-subscription that serves other endpoints *)
(* than the settings name, at most once per set of endpoints.              *)
Reconcile(p) ==
    /\ pc[p] = "load" /\ loc[p].cmd.kind = "reconcile"
    /\ Call(p, loc[p], loc[p].cfg, users, FALSE, "reconciled")
    /\ UNCHANGED <<host, clock, manual, files, sub, lock, bounds, hist>>

Reconciled(p) ==
    LET expected == loc[p].cfg.ep
    IN  /\ pc[p] = "reconciled"
        /\ Goto(p, IF loc[p].ret = "ok" THEN "ok" ELSE "err")
        /\ IF loc[p].ret = "ok" /\ served # expected /\ sstamp # expected
           THEN \/ served' = toml.ep /\ sstamp' = expected
                \/ Faults \cap {"stamp", "inactive"} # {} /\ served' = toml.ep /\ UNCHANGED sstamp
                \/ Faults \cap {"service", "systemctl"} # {} /\ UNCHANGED sub
           ELSE UNCHANGED sub
        /\ UNCHANGED <<host, clock, manual, loc, files, lock, bounds, hist>>

-----------------------------------------------------------------------------
(* cmd_egress_set: patch the exit section of deployment.toml, apply; on    *)
(* failure put the file back and apply the settings the process loaded     *)
(* when it began.                                                          *)
Egress(p) ==
    LET next == [toml EXCEPT !.eg = loc[p].cmd.eg]
    IN  /\ pc[p] = "load" /\ loc[p].cmd.kind = "egress"
        /\ toml' = next
        /\ Call(p, [loc[p] EXCEPT !.orig = toml], next, users, TRUE, "egress_applied")
        /\ UNCHANGED <<host, clock, manual, users, sbak, rev, sub, lock, bounds, hist>>

EgressApplied(p) ==
    LET l == loc[p]
    IN  /\ pc[p] = "egress_applied"
        /\ \/ l.ret # "err" /\ Goto(p, "ok") /\ UNCHANGED <<toml, manual, loc>>
           \/ /\ l.ret = "err"
              /\ toml' = l.orig
              /\ Call(p, l, l.cfg, users, TRUE, "egress_restored")
              /\ UNCHANGED manual
           \/ /\ l.ret = "err" /\ "save" \in Faults
              /\ manual' = TRUE /\ Goto(p, "err")
              /\ UNCHANGED <<toml, loc>>
        /\ UNCHANGED <<host, clock, users, sbak, rev, sub, lock, bounds, hist>>

EgressRestored(p) ==
    /\ pc[p] = "egress_restored"
    /\ manual' = (manual \/ loc[p].ret # "ok")
    /\ Goto(p, "err")
    /\ UNCHANGED <<host, clock, loc, files, sub, lock, bounds, hist>>

-----------------------------------------------------------------------------
(* The guard of cmd_apply_revision, common to both kinds of revision.      *)
Stale(p) == loc[p].cmd.rev <= rev

SkipStale(p) ==
    /\ pc[p] = "load" /\ loc[p].cmd.kind \in {"snapshot", "static"}
    /\ Stale(p)
    /\ Goto(p, "ok")
    /\ UNCHANGED <<host, clock, manual, loc, files, sub, lock, bounds, hist>>

(* Mutant: an older revision is applied like any other.                    *)
Snapshot_unguarded(p) ==
    /\ pc[p] = "load" /\ loc[p].cmd.kind = "snapshot"
    /\ Call(p, [loc[p] EXCEPT !.prev = users, !.next = loc[p].cmd.users],
            loc[p].cfg, loc[p].cmd.users, TRUE, "save")
    /\ UNCHANGED <<host, clock, manual, files, sub, lock, bounds, hist>>

(* A revision that is a full users-store document.                         *)
Snapshot(p) ==
    /\ pc[p] = "load" /\ loc[p].cmd.kind = "snapshot"
    /\ ~Stale(p)
    /\ Call(p, [loc[p] EXCEPT !.prev = users, !.next = loc[p].cmd.users],
            loc[p].cfg, loc[p].cmd.users, TRUE, "save")
    /\ UNCHANGED <<host, clock, manual, files, sub, lock, bounds, hist>>

(* commit_applied_revision_stamp.                                          *)
RevStamp(p, next, failed) ==
    \/ rev' = loc[p].cmd.rev /\ Goto(p, next)
    \/ "stamp" \in Faults /\ Goto(p, failed) /\ UNCHANGED rev

SnapshotStamp(p) ==
    /\ pc[p] = "revstamp"
    /\ RevStamp(p, "ok", "err")
    /\ hist' = IF pc'[p] = "ok" THEN [hist EXCEPT !.snap = loc[p].cmd.rev] ELSE hist
    /\ UNCHANGED <<host, clock, manual, loc, users, toml, sbak, sub, lock, bounds>>

-----------------------------------------------------------------------------
(* cmd_apply_static_revision.  vpn-subscription reads deployment.toml when *)
(* it starts; `ok` is the result of its reload_and_verify.                 *)
RestartSubscription(ok) ==
    \/ ok /\ served' = toml.ep /\ UNCHANGED sstamp
    \/ ~ok /\ "systemctl" \in Faults /\ UNCHANGED sub
    \/ ~ok /\ "inactive" \in Faults /\ served' = toml.ep /\ UNCHANGED sstamp

(* recover_interrupted_apply: a leftover backup is put back first.         *)
StaticRecover(p) ==
    /\ pc[p] = "load" /\ loc[p].cmd.kind = "static" /\ ~Stale(p)
    /\ IF sbak = NoToml
       THEN Goto(p, "plan") /\ UNCHANGED <<toml, loc>>
       ELSE toml' = sbak /\ Call(p, loc[p], sbak, users, TRUE, "recovered")
    /\ UNCHANGED <<host, clock, manual, users, sbak, rev, sub, lock, bounds, hist>>

StaticRecovered(p) ==
    /\ pc[p] = "recovered"
    /\ \/ loc[p].ret = "err" /\ Goto(p, "err") /\ UNCHANGED sub
       \/ loc[p].ret # "err" /\ RestartSubscription(TRUE) /\ Goto(p, "unbackup")
       \/ loc[p].ret # "err" /\ RestartSubscription(FALSE) /\ Goto(p, "err")
       \/ loc[p].ret # "err" /\ "service" \in Faults /\ Goto(p, "unbackup") /\ UNCHANGED sub
    /\ UNCHANGED <<host, clock, manual, loc, files, lock, bounds, hist>>

StaticUnbackup(p) ==
    /\ pc[p] = "unbackup"
    /\ sbak' = NoToml /\ Goto(p, "plan")
    /\ UNCHANGED <<host, clock, manual, loc, users, toml, rev, sub, lock, bounds, hist>>

(* plan_static_revision against the file, the dynamic state, the backup.   *)
StaticPlan(p) ==
    /\ pc[p] = "plan"
    /\ IF toml.ep = loc[p].cmd.ep
       THEN RevStamp(p, "ok", "err") /\ UNCHANGED <<sbak, loc>>
       ELSE /\ sbak' = toml
            /\ loc' = [loc EXCEPT ![p].orig = toml, ![p].prev = users]
            /\ Goto(p, "stage")
            /\ UNCHANGED rev
    /\ UNCHANGED <<host, clock, manual, users, toml, sub, lock, bounds, hist>>

(* The candidate replaces deployment.toml and goes through the pipeline.  *)
StaticStage(p) ==
    LET candidate == [toml EXCEPT !.ep = loc[p].cmd.ep]
    IN  /\ pc[p] = "stage"
        /\ \/ /\ toml' = candidate
              /\ Call(p, loc[p], candidate, loc[p].prev, TRUE, "static_applied")
              /\ UNCHANGED sbak
           \/ /\ "save" \in Faults
              /\ sbak' = NoToml /\ Goto(p, "err")
              /\ UNCHANGED <<toml, loc>>
        /\ UNCHANGED <<host, clock, manual, users, rev, sub, lock, bounds, hist>>

StaticApplied(p) ==
    LET touch == loc' = [loc EXCEPT ![p].touched = TRUE]
    IN  /\ pc[p] = "static_applied"
        /\ \/ loc[p].ret = "err" /\ Goto(p, "roll") /\ UNCHANGED <<sub, loc>>
           \/ loc[p].ret # "err" /\ RestartSubscription(TRUE) /\ touch /\ Goto(p, "static_stamp")
           \/ loc[p].ret # "err" /\ RestartSubscription(FALSE) /\ touch /\ Goto(p, "roll")
           \/ /\ loc[p].ret # "err" /\ "service" \in Faults
              /\ Goto(p, "roll") /\ UNCHANGED <<sub, loc>>
        /\ UNCHANGED <<host, clock, manual, files, lock, bounds, hist>>

StaticStamp(p) ==
    /\ pc[p] = "static_stamp"
    /\ RevStamp(p, "commit", "err")
    /\ UNCHANGED <<host, clock, manual, loc, users, toml, sbak, sub, lock, bounds, hist>>

StaticCommit(p) ==
    /\ pc[p] = "commit"
    /\ sbak' = NoToml /\ Goto(p, "ok")
    /\ hist' = [hist EXCEPT !.ep = toml.ep]
    /\ UNCHANGED <<host, clock, manual, loc, users, toml, rev, sub, lock, bounds>>

(* Mutant: the rollback renders the old settings and leaves the new file.  *)
StaticRoll_keeps_file(p) ==
    /\ pc[p] = "roll"
    /\ Call(p, loc[p], loc[p].orig, loc[p].prev, TRUE, "rolled")
    /\ UNCHANGED <<host, clock, manual, files, sub, lock, bounds, hist>>

(* The rollback.  The backup is kept only if deployment.toml could not be  *)
(* written back.                                                           *)
StaticRoll(p) ==
    /\ pc[p] = "roll"
    /\ \/ /\ toml' = loc[p].orig
          /\ Call(p, loc[p], loc[p].orig, loc[p].prev, TRUE, "rolled")
       \/ /\ "save" \in Faults
          /\ loc' = [loc EXCEPT ![p].ret = "err", ![p].orig = NoToml]
          /\ Goto(p, "rolled")
          /\ UNCHANGED toml
    /\ UNCHANGED <<host, clock, manual, users, sbak, rev, sub, lock, bounds, hist>>

StaticRolled(p) ==
    /\ pc[p] = "rolled"
    /\ \E ok \in BOOLEAN :
         /\ IF loc[p].touched THEN RestartSubscription(ok) ELSE ok /\ UNCHANGED sub
         /\ manual' = (manual \/ loc[p].ret = "err" \/ ~ok)
    /\ sbak' = IF loc[p].orig = NoToml THEN sbak ELSE NoToml
    /\ Goto(p, "err")
    /\ UNCHANGED <<host, clock, loc, users, toml, rev, lock, bounds, hist>>

(* deployment.toml or its backup cannot be written, or the backup not      *)
(* removed: the command ends there and then.                               *)
TomlUnwritten(p) ==
    /\ "save" \in Faults
    /\ \/ pc[p] = "load" /\ loc[p].cmd.kind = "egress"
       \/ pc[p] = "load" /\ loc[p].cmd.kind = "static" /\ ~Stale(p) /\ sbak # NoToml
       \/ pc[p] = "plan" /\ toml.ep # loc[p].cmd.ep
       \/ pc[p] = "unbackup"
    /\ Goto(p, "err")
    /\ UNCHANGED <<host, clock, manual, loc, files, sub, lock, bounds, hist>>

-----------------------------------------------------------------------------
settings == [ep |-> 0, eg |-> 0]

(* A node that was just initialised and has never started sing-box, or one *)
(* that runs what is on its disk.                                          *)
Init ==
    /\ users = NoUsers
    /\ toml = settings /\ sbak = NoToml /\ rev = 0
    /\ served = settings.ep /\ sstamp = -1
    /\ target \in {NoDoc, Render(settings, users, 0)}
    /\ bak = NoDoc /\ stamp = target /\ running = target /\ active = IsDoc(target)
    /\ clock = 0 /\ manual = FALSE
    /\ pc = [p \in Procs |-> "idle"] /\ loc = [p \in Procs |-> Idle]
    /\ lock = Free
    /\ started = 0 /\ kills = 0 /\ hist = [snap |-> 0, ep |-> settings.ep]

(* The steps of a process that has been started.                           *)
Proceed(p) ==
    \/ Acquire(p) \/ Finish(p)
    \/ UserCommand(p) \/ Publish(p) \/ Checked(p) \/ Save(p) \/ Unsaved(p)
    \/ Reconcile(p) \/ Reconciled(p)
    \/ Egress(p) \/ EgressApplied(p) \/ EgressRestored(p)
    \/ SkipStale(p) \/ Snapshot(p) \/ SnapshotStamp(p)
    \/ StaticRecover(p) \/ StaticRecovered(p) \/ StaticUnbackup(p) \/ StaticPlan(p)
    \/ StaticStage(p) \/ StaticApplied(p) \/ StaticStamp(p) \/ StaticCommit(p)
    \/ StaticRoll(p) \/ StaticRolled(p) \/ TomlUnwritten(p)
    \/ Pipeline(p) /\ UNCHANGED <<files, sub, lock, bounds, hist>>

Environment ==
    /\ ServiceRestart \/ Expiry
    /\ UNCHANGED <<files, sub, lock, bounds, hist>>

Next ==
    \/ Environment
    \/ \E p \in Procs :
         \/ \E cmd \in Commands : Start(p, cmd)
         \/ TimerFires(p)
         \/ Proceed(p)
         \/ Kill(p)

Spec == Init /\ [][Next]_vars

(* A started process runs on (a process that waits for the lock may wait   *)
(* forever if others keep taking it), and the timer keeps firing.          *)
Fairness ==
    /\ \A p \in Procs : WF_vars(Proceed(p))
    /\ WF_vars(\E p \in Procs : TimerFires(p))

FairSpec == Spec /\ Fairness

-----------------------------------------------------------------------------
Settings == [ep : Nat, eg : Nat]
Document == [kind : {"doc"}, cfg : Settings \cup {NoToml}, auth : [Creds -> 0 .. 2]]

(* Control points: of the pipeline, those it returns to, and the others.   *)
PipelineLabels == {"render", "check", "install", "reload", "handshake", "restore",
                   "restoring", "recover", "stamp"}
Returns == {"save", "checked", "unsaved", "reconciled", "egress_applied", "egress_restored",
            "recovered", "static_applied", "rolled"}
Labels == PipelineLabels \cup Returns
          \cup {"idle", "lock", "load", "ok", "err", "publish", "revstamp", "unbackup", "plan",
                "stage", "static_stamp", "commit", "roll"}

Local == [cmd : Commands \cup {Timer}, cfg : Settings \cup {NoToml},
          prev : Store, next : Store, orig : Settings \cup {NoToml},
          acfg : Settings \cup {NoToml}, ausers : Store, live : BOOLEAN, svc : BOOLEAN,
          doc : Document \cup {NoDoc}, ret : {"none", "ok", "no", "err"},
          cont : Labels, touched : BOOLEAN]

FilesOK ==
    /\ users \in Store
    /\ toml \in Settings /\ sbak \in Settings \cup {NoToml}
    /\ rev \in Nat /\ served \in Nat /\ sstamp \in Nat \cup {-1}
    /\ lock \in Procs \cup {Free}
    /\ started \in 0 .. MaxCommands /\ kills \in 0 .. MaxKills
    /\ hist \in [snap : Nat, ep : Nat]

HostOK ==
    /\ target \in Document \cup {NoDoc, Torn} /\ bak \in Document \cup {NoDoc, Torn}
    /\ stamp \in Document \cup {NoDoc} /\ running \in Document \cup {NoDoc, Torn}
    /\ active \in BOOLEAN /\ (active => IsDoc(running))
    /\ clock \in 0 .. 1 /\ manual \in BOOLEAN

ProcsOK == pc \in [Procs -> Labels] /\ loc \in [Procs -> Local]

(* The files, the service and each process's locals have their shapes.  A  *)
(* sing-box that is active runs a complete document.                       *)
TypeOK == FilesOK /\ HostOK /\ ProcsOK

(* lock.rs: two invocations never "each read the same starting users.json, *)
(* mutate independently, and have the second writer silently discard the   *)
(* first writer's change".  Whichever processes wait, fail or are killed,  *)
(* users.json changes as in SerialStore: by one command's effect on what   *)
(* was there.                                                              *)
Serial == INSTANCE SerialStore WITH store <- users
ImplementsSerialStore == Serial!Spec

(* The authorization part of a document for the users on disk, at a clock  *)
(* value the command may have seen.                                        *)
Authorizes(d) == IsDoc(d) /\ \E t \in 0 .. clock : d.auth = Render(toml, users, t).auth

(* "never claims a user mutation succeeded while the running server still  *)
(* has the old credentials loaded": when a command reports a live success, *)
(* sing-box is active and runs exactly the users of users.json, whatever   *)
(* earlier commands failed at, unless the operator was told to intervene.  *)
SuccessIsLive ==
    \A p \in Procs :
        pc[p] = "ok" /\ loc[p].ret = "ok" /\ ~manual => active /\ Authorizes(running)

(* "a bad or unreloadable revision leaves this node on its previous config *)
(* and previous users.json": after a command that failed at checking,      *)
(* restarting, the handshake or saving, the running server still matches   *)
(* users.json, up to users whose expiry has passed (the timer removes      *)
(* them), unless the operator was told that recovery failed too.           *)
FailureLeavesPrevious ==
    \A p \in Procs : pc[p] = "err" /\ active /\ ~manual =>
        \A c \in Creds :
            \/ running.auth[c] = Render(toml, users, clock).auth[c]
            \/ users[c].until <= clock /\ clock > 0 /\ running.auth[c] = users[c].key

(* apply_users_and_save: "a newly enabled credential is not distributed    *)
(* until the protocol accepts it".  users.json is what vpn-subscription    *)
(* hands to clients: a key that becomes usable there already runs.         *)
PublishedIsAccepted ==
    [][\A c \in Creds :
         /\ users'[c].key # users[c].key \/ ~is_active(users[c], clock)
         /\ is_active(users'[c], clock)
         /\ ~manual
         => IsDoc(running) /\ running.auth[c] = users'[c].key]_vars

(* The lock is held so that two invocations "can never interleave their    *)
(* load->mutate->persist->apply->reload sequences" (main.rs): the settings *)
(* a successful command left running are those on disk.                    *)
SettingsAreLive ==
    \A p \in Procs : pc[p] = "ok" /\ loc[p].ret = "ok" => running.cfg = toml

(* cmd_apply_revision, against "a stale revision with genuinely different  *)
(* (older) content [...] applied over a newer one": the users of an older  *)
(* revision never replace those of a newer one that was recorded as        *)
(* applied, in whatever order the two are delivered and wherever a process *)
(* is killed.                                                              *)
NewestSnapshotWins ==
    [][\A p \in Procs : pc[p] = "save" /\ pc'[p] = "revstamp" => loc[p].cmd.rev >= hist.snap]_vars

(* recover_interrupted_apply: "so a new revision is always planned against *)
(* the last committed static state".  Committed is a revision that got to  *)
(* its end: stamped, and its backup dropped.                               *)
PlannedOnCommitted ==
    \A p \in Procs : pc[p] = "plan" => toml.ep = hist.ep

(* "The expiry reconciliation timer also repairs a crash between these     *)
(* phases from the authoritative users.json state": whatever was killed,   *)
(* the server ends up running exactly the users and settings on disk.      *)
TimerRepairs == <>[](active /\ running = Render(toml, users, clock))
-----------------------------------------------------------------------------
(* The inductive invariant.  It speaks of a process at control point `at`  *)
(* with locals l.  Where is the control point of its command: inside the   *)
(* pipeline, the one the pipeline will return to.                          *)
Where(at, l) == IF at \in PipelineLabels THEN l.cont ELSE at

StaticLabels == {"recovered", "unbackup", "plan", "stage", "static_applied", "static_stamp",
                 "commit", "roll", "rolled"}

(* Which command is at which control point, and which locals it has set.   *)
Control(at, l) ==
    /\ at \in PipelineLabels => l.cont \in Returns
    /\ at # "idle" => l.cfg \in Settings
    /\ Where(at, l) \in {"egress_applied", "stage", "static_applied", "roll"} => l.orig \in Settings
    /\ Where(at, l) = "revstamp" => l.cmd.kind = "snapshot"
    /\ Where(at, l) \in StaticLabels => l.cmd.kind = "static"

(* A process that will write users.json holds the store s that is there,   *)
(* and what its command makes of it.                                       *)
Pending(at, l, s) ==
    Where(at, l) \in {"publish", "save"} =>
        l.cmd \in Commands /\ l.prev = s /\ l.next \in Effects(l.cmd, s)

IInv ==
    /\ TypeOK
    /\ \A p \in Procs :
         /\ pc[p] \notin {"idle", "lock"} => lock = p
         /\ Control(pc[p], loc[p])
         /\ Pending(pc[p], loc[p], users)
==============================================================================
