----------------------------- MODULE KeyMaterial -----------------------------
(***************************************************************************)
(* The vpn-admin commands that replace several files in one transaction:   *)
(* init, init --rotate, hysteria-obfs-rotate, google-egress-hairpin        *)
(* set/clear and restore, with the timer's render-config beside them.      *)
(*                                                                         *)
(* Each of them copies the files it will touch to .rotate-bak siblings,    *)
(* installs new contents one file at a time, renders and loads the config, *)
(* restarts what caches the material, and only then drops the copies; a    *)
(* failure on the way puts everything back.  The commands hold the state   *)
(* lock, so they never overlap, but the process can be killed between any  *)
(* two steps, and the next command finds what it left.                     *)
(*                                                                         *)
(* The config pipeline itself is the subject of LiveApply; here it is the  *)
(* steps a killed process can leave half done: write, load, prove.         *)
(***************************************************************************)
EXTENDS Naturals, Sequences, Functions

CONSTANTS
    Commands,           \* the commands an operator uses
    MaxCommands,        \* how many of them
    MaxFaults,          \* steps that fail
    MaxKills            \* processes killed on the way

CommandNames == {"init", "rotate", "obfs", "set", "clear", "backup", "restore"}

ASSUME MaterialAssumption ==
    /\ Commands \subseteq CommandNames
    /\ MaxCommands \in Nat /\ MaxFaults \in Nat /\ MaxKills \in Nat

VARIABLES
    file,               \* private.key, public.key, short_id.txt, ...: 0 is absent
    rbak,               \* their .rotate-bak siblings
    toml,               \* deployment.toml has a [google_egress_hairpin] section
    arch,               \* the newest backup archive
    target, cbak,       \* config.json and its .bak
    stamp,              \* config.applied.sha256
    running,            \* the document sing-box has loaded, NoDoc when it is down
    sub,                \* the endpoints vpn-subscription cached when it started
    substamp,           \* subscription-restarted-for.sha256
    op, pc,             \* the command under the lock and its control point
    last,               \* how the previous one ended
    fresh,              \* the newest contents generated
    good,               \* history: the files when a transaction last committed
    cmds, faults, kills

disk == <<file, rbak, toml, arch, target, cbak, stamp, substamp>>
live == <<running, sub>>
counts == <<cmds, kills>>
key_vars == <<disk, live, op, pc, last, fresh, good, counts, faults>>

-----------------------------------------------------------------------------
Files == {"users", "priv", "pub", "sid", "obfs", "uuid"}
Nothing == [f \in Files |-> 0]

(* BACKUP_MANIFEST without the TLS pair, which no command here generates.  *)
Archived == {"users", "priv", "pub", "sid", "obfs"}

NoDoc == [priv |-> 0, sid |-> 0, obfs |-> 0, uuid |-> 0, users |-> 0]
Down  == [pub |-> 0, sid |-> 0, obfs |-> 0]

(* load_reality_params succeeds: all three files, and one keypair.         *)
Coherent(f) == f["priv"] # 0 /\ f["pub"] = f["priv"] /\ f["sid"] # 0

(* The rendered document.  The hairpin needs its section and its file.     *)
Render(f, h) ==
    [priv |-> f["priv"], sid |-> f["sid"], obfs |-> f["obfs"],
     uuid |-> IF h THEN f["uuid"] ELSE 0, users |-> f["users"]]

(* What vpn-subscription serves after a start; without the public key and  *)
(* the short id it refuses to start.                                       *)
Served(f) ==
    IF f["pub"] = 0 \/ f["sid"] = 0
    THEN Down
    ELSE [pub |-> f["pub"], sid |-> f["sid"], obfs |-> f["obfs"]]

(* The files each command replaces, in the order it does.                  *)
Material(name) ==
    CASE name = "init"    -> <<"priv", "pub", "sid", "obfs">>
      [] name = "rotate"  -> <<"priv", "pub", "sid">>
      [] name = "obfs"    -> <<"obfs">>
      [] name = "set"     -> <<"uuid">>
      [] name = "clear"   -> <<"uuid">>
      [] name = "restore" -> <<"users", "priv", "pub", "sid", "obfs">>
      [] OTHER            -> <<>>
Touches(name) == Range(Material(name))

(* The order of rollback and commit: a restore leaves the users for last.  *)
Rewound(name) ==
    IF name = "restore" THEN <<"priv", "pub", "sid", "obfs", "users">> ELSE Material(name)

(* Two commands write a config rendered from the candidate themselves and  *)
(* leave no stamp; the others go through render_and_apply.                 *)
Direct(name) == name \in {"rotate", "obfs"}
Hairpin(name) == name \in {"set", "clear"}
Transactions == {"rotate", "obfs", "restore"}

NoOp == [name |-> "none", cand |-> <<>>, before |-> [file |-> Nothing, toml |-> FALSE,
         running |-> NoDoc, sub |-> Down, settled |-> FALSE, misled |-> FALSE],
         i |-> 1, applied |-> FALSE, undo |-> FALSE, ok |-> TRUE, stuck |-> FALSE]

-----------------------------------------------------------------------------
Goto(label) == pc' = label /\ op' = [op EXCEPT !.i = 1] /\ UNCHANGED last
Undo == pc' = "undo" /\ op' = [op EXCEPT !.i = 1, !.undo = TRUE] /\ UNCHANGED last
Finish(out) ==
    /\ last' = [name |-> op.name, out |-> out, before |-> op.before, stuck |-> op.stuck]
    /\ pc' = "idle"
    /\ op' = NoOp

(* Done with the i-th file; after the last one, go to label.               *)
Advance(label) ==
    IF op.i < Len(Material(op.name))
    THEN op' = [op EXCEPT !.i = @ + 1] /\ UNCHANGED <<pc, last>>
    ELSE Goto(label)

Current == Material(op.name)[op.i]
Rewinding == Rewound(op.name)[op.i]
Existed(f) == op.before.file[f] # 0

Works == UNCHANGED faults
Fails == faults < MaxFaults /\ faults' = faults + 1

(* systemctl fails, the new process does not stay up, or it does but only  *)
(* after verification gave up.                                             *)
BadReload == running' \in {running, NoDoc, target}
BadRestart == sub' \in {sub, Down}

-----------------------------------------------------------------------------
(* run: what a command has checked before it touches anything.  A refusal  *)
(* changes nothing and is no step.                                         *)
FirstGeneration == file["priv"] = 0 /\ target = NoDoc
Restorable ==
    /\ arch["users"] # 0
    /\ Coherent(arch)
Ready(name) ==
    CASE name = "init"    -> FirstGeneration
      [] name = "rotate"  -> ~FirstGeneration
      [] name = "obfs"    -> Coherent(file)
      [] name = "restore" -> Restorable
      [] OTHER            -> TRUE

(* The contents a command installs: newly generated, or the archive's.     *)
Candidate(name) ==
    CASE name = "restore" -> [f \in {g \in Archived : arch[g] # 0} |-> arch[f]]
      [] name = "clear"   -> [f \in {"uuid"} |-> 0]
      [] OTHER            -> [f \in Touches(name) |-> fresh + 1]

Settled ==
    /\ Coherent(file)
    /\ running = Render(file, toml) /\ target = running
    /\ sub = Served(file)

(* The stamp vouches for config.json, but sing-box runs something else: a  *)
(* recovery put the previous config back and its reload failed or was      *)
(* never reached.  render_and_apply takes such a host for current.         *)
Misled == stamp = target /\ running \notin {target, NoDoc}

Before == [file |-> file, toml |-> toml, running |-> running, sub |-> sub,
           settled |-> Settled, misled |-> Misled]

Begin(name) ==
    /\ pc = "idle" /\ cmds < MaxCommands
    /\ name \in Commands \ {"backup"}
    /\ Ready(name)
    /\ op' = [NoOp EXCEPT !.name = name, !.cand = Candidate(name), !.before = Before]
    /\ pc' = IF name = "init" THEN "install" ELSE "backup"
    /\ fresh' = fresh + 1
    /\ cmds' = cmds + 1
    /\ UNCHANGED <<disk, live, last, good, faults, kills>>

(* cmd_backup: whatever is there, complete or not.                         *)
TakeBackup ==
    /\ pc = "idle" /\ cmds < MaxCommands /\ "backup" \in Commands
    /\ arch' = [f \in Files |-> IF f \in Archived THEN file[f] ELSE 0]
    /\ cmds' = cmds + 1
    /\ UNCHANGED <<file, rbak, toml, target, cbak, stamp, substamp, live, op, pc, last, fresh,
                   good, faults, kills>>

(* vpn-expiry-reconcile.timer: render-config.                              *)
Timer ==
    /\ pc = "idle"
    /\ op' = [NoOp EXCEPT !.name = "render", !.before = Before]
    /\ pc' = "write"
    /\ UNCHANGED <<disk, live, last, fresh, good, counts, faults>>

-----------------------------------------------------------------------------
(* Mutant: a copy left by an earlier transaction is overwritten.           *)
BackupStep_overwrites ==
    /\ pc = "backup"
    /\ rbak' = [rbak EXCEPT ![Current] = file[Current]]
    /\ Advance("install") /\ Works
    /\ UNCHANGED <<file, toml, arch, target, cbak, stamp, substamp, live, fresh, good, counts>>

(* backup_for_rotate: a copy left by an earlier transaction is never       *)
(* overwritten.  On failure the copies made by this attempt are removed.   *)
BackupStep ==
    /\ pc = "backup"
    /\ \/ /\ rbak[Current] = 0
          /\ rbak' = [rbak EXCEPT ![Current] = file[Current]]
          /\ Advance("install") /\ Works
       \/ /\ IF rbak[Current] # 0 THEN Works ELSE Fails
          /\ rbak' = [f \in Files |->
                        IF \E j \in 1 .. op.i - 1 : Material(op.name)[j] = f /\ Existed(f)
                        THEN 0 ELSE rbak[f]]
          /\ Finish("refused")
    /\ UNCHANGED <<file, toml, arch, target, cbak, stamp, substamp, live, fresh, good, counts>>

DropCopies == rbak' = [f \in Files |-> IF f \in Touches(op.name) THEN 0 ELSE rbak[f]]

(* install_rotated_key_file and its siblings: one rename per file.  The    *)
(* rename may fail, or the ownership change that follows it, which only    *)
(* files that may be new get.                                              *)
AfterInstall ==
    CASE op.name = "init" -> "done" [] Hairpin(op.name) -> "toml" [] OTHER -> "write"
Put(f) == IF f \in DOMAIN op.cand THEN [file EXCEPT ![f] = op.cand[f]] ELSE file
Chowned == op.name \in {"init", "restore"} \/ (op.name = "obfs" /\ ~Existed("obfs"))
InstallStep ==
    /\ pc = "install"
    /\ \/ /\ file' = Put(Current)
          /\ Advance(AfterInstall) /\ Works
          /\ UNCHANGED rbak
       \/ /\ Fails
          /\ Current \in DOMAIN op.cand /\ (op.name = "clear" => Existed("uuid"))
          /\ file' \in IF Chowned THEN {file, Put(Current)} ELSE {file}
          /\ \/ /\ op.name \in {"rotate", "restore"} \/ (op.name = "obfs" /\ file' # file)
                /\ Undo
                /\ UNCHANGED rbak
             \/ /\ Hairpin(op.name) \/ (op.name = "obfs" /\ file' = file)
                /\ DropCopies
                /\ Finish("refused")
             \/ op.name = "init" /\ Finish("refused") /\ UNCHANGED rbak
    /\ UNCHANGED <<toml, arch, target, cbak, stamp, substamp, live, fresh, good, counts>>

InitDone ==
    /\ pc = "done"
    /\ good' = file
    /\ Finish("ok")
    /\ UNCHANGED <<disk, live, fresh, counts, faults>>

(* apply_google_egress_hairpin_toml; when it fails the credential is put   *)
(* back and its copy removed either way.                                   *)
TomlStep ==
    /\ pc = "toml"
    /\ \/ /\ toml' = (op.name = "set")
          /\ Goto("write") /\ Works
          /\ UNCHANGED <<file, rbak>>
       \/ /\ Fails
          /\ \/ file' = [file EXCEPT !["uuid"] = op.before.file["uuid"]]
             \/ faults' < MaxFaults /\ UNCHANGED file
          /\ rbak' = [rbak EXCEPT !["uuid"] = 0]
          /\ Finish(IF file' = op.before.file /\ (op.name = "set" \/ Existed("uuid"))
                    THEN "restored" ELSE "broken")
          /\ UNCHANGED toml
    /\ UNCHANGED <<arch, target, cbak, stamp, substamp, live, fresh, good, counts>>

-----------------------------------------------------------------------------
(* Where the pipeline returns to.  stuck: sing-box would not come back on  *)
(* the previous config either.                                             *)
Back(result, stuck) ==
    LET o == [op EXCEPT !.i = 1, !.stuck = @ \/ stuck]
        to == CASE op.name = "render" -> "refresh"
                [] Hairpin(op.name)   -> IF result = "ok" THEN "commit" ELSE "undo"
                [] op.name \in Transactions /\ op.undo -> "undosub"
                [] OTHER              -> IF result = "ok" THEN "sub" ELSE "undo"
    IN  IF op.name = "render" /\ result # "ok"
        THEN Finish(result)
        ELSE /\ pc' = to
             /\ op' = [o EXCEPT !.undo = @ \/ to = "undo",
                                !.ok = @ /\ (op.undo => result = "ok")]
             /\ UNCHANGED last
Applied(result) == Back(result, FALSE)

(* Rendering and apply_config_atomically.  A rotation renders from its     *)
(* candidate and always writes; render_and_apply needs a coherent keyset   *)
(* and skips a current document.                                           *)
Write(doc, current) ==
    /\ pc = "write"
    /\ \/ /\ ~Direct(op.name) /\ ~Coherent(file)
          /\ Applied("no") /\ Works
          /\ UNCHANGED <<target, cbak>>
       \/ /\ ~Direct(op.name) /\ Coherent(file) /\ current
          /\ Applied("ok") /\ Works
          /\ UNCHANGED <<target, cbak>>
       \/ /\ Direct(op.name) \/ (Coherent(file) /\ ~current)
          /\ \/ /\ cbak' = IF target = NoDoc THEN cbak ELSE target
                /\ target' = doc
                /\ pc' = "load" /\ op' = [op EXCEPT !.applied = TRUE]
                /\ Works /\ UNCHANGED last
             \/ /\ Fails
                /\ IF Direct(op.name) THEN Undo ELSE Applied("err")
                /\ UNCHANGED <<target, cbak>>
    /\ UNCHANGED <<file, rbak, toml, arch, stamp, substamp, live, fresh, good, counts>>

(* Mutant: the check for an already current config ignores the stamp.      *)
WriteStep_ignores_stamp ==
    Write(Render(file, toml), target = Render(file, toml) /\ running # NoDoc)

(* A document is current when it is in place, stamped, and sing-box is up. *)
WriteStep ==
    LET doc == Render(file, toml)
    IN  Write(doc, target = doc /\ stamp = doc /\ running # NoDoc)

(* reload_and_verify on sing-box.                                          *)
LoadStep ==
    /\ pc = "load"
    /\ \/ /\ running' = target
          /\ Goto(IF Direct(op.name) THEN "sub" ELSE "prove") /\ Works
       \/ /\ Fails /\ BadReload
          /\ IF Direct(op.name) THEN Undo ELSE Goto("reinstate")
    /\ UNCHANGED <<disk, sub, fresh, good, counts>>

(* render_and_apply after the restart: the handshake, then the stamp.      *)
ProveStep ==
    /\ pc = "prove"
    /\ \/ stamp' = target /\ Applied("ok") /\ Works
       \/ Fails /\ Goto("reinstate") /\ UNCHANGED stamp
       \/ Fails /\ Applied("err") /\ UNCHANGED stamp
    /\ UNCHANGED <<file, rbak, toml, arch, target, cbak, substamp, live, fresh, good, counts>>

(* render_and_apply's own recovery: config.json.bak, and a reload.         *)
ReinstateStep ==
    /\ pc = "reinstate"
    /\ \/ cbak = NoDoc /\ Back("err", TRUE) /\ Works /\ UNCHANGED <<target, running>>
       \/ /\ cbak # NoDoc
          /\ target' = cbak
          /\ \/ running' = cbak /\ Back("err", FALSE) /\ Works
             \/ running' \in {running, NoDoc} /\ Back("err", TRUE) /\ Fails
    /\ UNCHANGED <<file, rbak, toml, arch, cbak, stamp, substamp, sub, fresh, good, counts>>

(* Mutant: the subscription service is not restarted.                      *)
SubStep_skipped ==
    /\ pc = "sub"
    /\ good' = file
    /\ Goto("commit") /\ Works
    /\ UNCHANGED <<disk, live, fresh, counts>>

(* vpn-subscription must be restarted: it caches the material.  A rotation *)
(* then proves the new key with a handshake.                               *)
SubStep ==
    /\ pc = "sub"
    /\ \/ /\ sub' = Served(file) /\ sub' # Down
          /\ good' = file
          /\ Goto("commit") /\ Works
       \/ /\ Served(file) # Down
          /\ op.name = "rotate" /\ sub' = Served(file)
          /\ Undo /\ Fails /\ UNCHANGED good
       \/ /\ IF Served(file) = Down THEN Works ELSE Fails
          /\ BadRestart /\ Undo /\ UNCHANGED good
    /\ UNCHANGED <<disk, running, fresh, counts>>

(* Commit: drop the copies one by one.                                     *)
CommitStep ==
    /\ pc = "commit"
    /\ rbak' = [rbak EXCEPT ![Rewinding] = 0]
    /\ IF op.i < Len(Material(op.name))
       THEN op' = [op EXCEPT !.i = @ + 1] /\ UNCHANGED <<pc, last>>
       ELSE Finish("ok")
    /\ UNCHANGED <<file, toml, arch, target, cbak, stamp, substamp, live, fresh, good, counts, faults>>

-----------------------------------------------------------------------------
Bad == [op EXCEPT !.ok = FALSE]
AfterUndo ==
    CASE Hairpin(op.name) -> "undotoml" [] Direct(op.name) -> "undoconf" [] OTHER -> "write"
UndoNext(o) ==
    IF o.i < Len(Material(o.name))
    THEN op' = [o EXCEPT !.i = @ + 1] /\ UNCHANGED <<pc, last>>
    ELSE pc' = AfterUndo /\ op' = [o EXCEPT !.i = 1] /\ UNCHANGED last

(* The copy is renamed over the file, if there is a copy.                  *)
restore_from_rotate_backup(f) ==
    /\ file' = IF rbak[f] = 0 THEN file ELSE [file EXCEPT ![f] = rbak[f]]
    /\ rbak' = [rbak EXCEPT ![f] = 0]

(* The rollback closures, file by file: rename the copy back, or remove    *)
(* the file that did not exist before.  A failure is remembered.           *)
UndoStep ==
    /\ pc = "undo"
    /\ \/ /\ IF Existed(Rewinding)
             THEN restore_from_rotate_backup(Rewinding)
             ELSE file' = [file EXCEPT ![Rewinding] = 0] /\ UNCHANGED rbak
          /\ UndoNext(op) /\ Works
       \/ Fails /\ UndoNext(Bad) /\ UNCHANGED <<file, rbak>>
    /\ UNCHANGED <<toml, arch, target, cbak, stamp, substamp, live, fresh, good, counts>>

(* restore_google_egress_hairpin_state's second half; nothing is           *)
(* re-rendered.                                                            *)
UndoTomlStep ==
    /\ pc = "undotoml"
    /\ \/ /\ toml' = op.before.toml /\ Works
          /\ Finish(IF op.ok THEN "restored" ELSE "broken")
       \/ Fails /\ Finish("broken") /\ UNCHANGED toml
    /\ UNCHANGED <<file, rbak, arch, target, cbak, stamp, substamp, live, fresh, good, counts>>

(* Mutant: the previous config is not put back.                            *)
UndoConfStep_skipped ==
    /\ pc = "undoconf"
    /\ Goto("undoload") /\ Works
    /\ UNCHANGED <<disk, live, fresh, good, counts>>

(* A rotation puts config.json.bak back only if it replaced config.json.   *)
UndoConfStep ==
    /\ pc = "undoconf"
    /\ pc' = "undoload" /\ UNCHANGED last
    /\ \/ ~op.applied /\ UNCHANGED <<target, op>> /\ Works
       \/ op.applied /\ cbak # NoDoc /\ target' = cbak /\ UNCHANGED op /\ Works
       \/ op.applied /\ op' = Bad /\ UNCHANGED target /\ (IF cbak = NoDoc THEN Works ELSE Fails)
    /\ UNCHANGED <<file, rbak, toml, arch, cbak, stamp, substamp, live, fresh, good, counts>>

UndoLoadStep ==
    /\ pc = "undoload"
    /\ pc' = "undosub" /\ UNCHANGED last
    /\ \/ target # NoDoc /\ running' = target /\ UNCHANGED op /\ Works
       \/ BadReload /\ op' = Bad /\ (IF target = NoDoc THEN Works ELSE Fails)
    /\ UNCHANGED <<disk, sub, fresh, good, counts>>

UndoSubStep ==
    /\ pc = "undosub"
    /\ \/ /\ Served(file) # Down /\ sub' = Served(file) /\ Works
          /\ Finish(IF op.ok THEN "restored" ELSE "broken")
       \/ /\ IF Served(file) = Down THEN Works ELSE Fails
          /\ BadRestart /\ Finish("broken")
    /\ UNCHANGED <<disk, running, fresh, good, counts>>

(* refresh_stale_subscription_service: only a service seen to be stale,    *)
(* and at most once per target state.                                      *)
RefreshStep ==
    /\ pc = "refresh"
    /\ IF sub \in {Down, Served(file)} \/ substamp = Served(file)
       THEN Works /\ UNCHANGED <<sub, substamp>>
       ELSE \/ Works /\ sub' = Served(file) /\ substamp' = Served(file)
            \/ Fails /\ sub' = Served(file) /\ UNCHANGED substamp
            \/ Fails /\ BadRestart /\ UNCHANGED substamp
    /\ Finish("ok")
    /\ UNCHANGED <<file, rbak, toml, arch, target, cbak, stamp, running, fresh, good, counts>>

-----------------------------------------------------------------------------
(* The process dies; the lock goes with it.                                *)
Kill ==
    /\ pc # "idle" /\ kills < MaxKills
    /\ kills' = kills + 1
    /\ Finish("killed")
    /\ UNCHANGED <<disk, live, fresh, good, cmds, faults>>

(* systemd restarts a service on its own.                                  *)
ServiceRestart ==
    /\ faults < MaxFaults /\ faults' = faults + 1
    /\ \/ running # target /\ running' = target /\ UNCHANGED sub
       \/ sub # Served(file) /\ sub' = Served(file) /\ UNCHANGED running
    /\ UNCHANGED <<disk, op, pc, last, fresh, good, counts>>

(* A deployed host with an archive of earlier material, or a fresh one.    *)
KeyInit ==
    /\ \/ /\ file = [f \in Files |-> IF f = "uuid" THEN 0 ELSE 2]
          /\ target = Render(file, FALSE) /\ sub = Served(file)
       \/ file = Nothing /\ target = NoDoc /\ sub = Down
    /\ rbak = Nothing /\ toml = FALSE
    /\ arch = [f \in Files |-> IF f \in Archived \ {"obfs"} THEN 1 ELSE 0]
    /\ cbak = NoDoc /\ stamp = target /\ running = target /\ substamp = Down
    /\ op = NoOp /\ pc = "idle"
    /\ last = [name |-> "none", out |-> "ok", before |-> NoOp.before, stuck |-> FALSE]
    /\ fresh = 2 /\ good = file /\ cmds = 0 /\ faults = 0 /\ kills = 0

Step ==
    \/ BackupStep \/ InstallStep \/ InitDone \/ TomlStep
    \/ WriteStep \/ LoadStep \/ ProveStep \/ ReinstateStep
    \/ SubStep \/ CommitStep
    \/ UndoStep \/ UndoTomlStep \/ UndoConfStep \/ UndoLoadStep \/ UndoSubStep
    \/ RefreshStep

KeyNext ==
    \/ Step
    \/ \E name \in CommandNames : Begin(name)
    \/ TakeBackup \/ Timer
    \/ Kill \/ ServiceRestart

KeySpec == KeyInit /\ [][KeyNext]_key_vars

(* The timer keeps firing, and a process that holds the lock keeps going.  *)
Fairness == WF_key_vars(Step) /\ WF_key_vars(Timer)

-----------------------------------------------------------------------------
(* A rotation or restore that reports success leaves the files, config,    *)
(* sing-box and the subscription service on the same material, unless it   *)
(* began on a host whose stamp was already wrong about sing-box.           *)
CommittedIsLive ==
    pc = "idle" /\ last.name \in Transactions /\ last.out = "ok"
       /\ ~last.before.misled
    => /\ Settled
       /\ \A f \in Touches(last.name) : rbak[f] = 0

(* "no client-visible change occurred": after a reported successful        *)
(* rollback the files are the previous ones and, if the host was settled   *)
(* before, so are both services.  Left out is the case where the pipeline  *)
(* has already reported that sing-box would not come back.                 *)
RestoredIsPrevious ==
    pc = "idle" /\ last.name \in Transactions /\ last.out = "restored" /\ ~last.stuck
    => /\ file = last.before.file
       /\ last.before.settled => running = last.before.running /\ sub = last.before.sub

(* The material that last worked is never lost: until a transaction        *)
(* commits, every file it replaced still exists, in place or as its        *)
(* .rotate-bak copy, whatever fails, whenever the process dies, and        *)
(* whatever command is tried next.                                         *)
PreviousKept ==
    pc # "commit" => \A f \in Archived : good[f] \in {0, file[f], rbak[f]}

(* Whatever was killed or failed, render-config's timer eventually leaves  *)
(* sing-box and the subscription service on what the files say, except     *)
(* where it cannot see the difference: a torn keyset renders nothing, a    *)
(* misleading stamp looks current, and the subscription service is not     *)
(* restarted twice for one target state.                                   *)
Healed ==
    Coherent(file) =>
    /\ running = Render(file, toml) \/ Misled
    /\ sub \in {Down, Served(file)} \/ substamp = Served(file)
TimerHeals == Fairness => <>[]Healed

(* "Rollback restored and reloaded the complete previous state": the       *)
(* message of a failed restore, without RestoredIsPrevious's exception.    *)
RestoreReloads ==
    pc = "idle" /\ last.name = "restore" /\ last.out = "restored" /\ last.before.settled
    => running = last.before.running
==============================================================================
