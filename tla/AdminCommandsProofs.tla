------------------------- MODULE AdminCommandsProofs -------------------------
(***************************************************************************)
(* Proofs about vpn-admin for any number of processes, users, commands,    *)
(* faults and kills: every reachable state has its type, and users.json    *)
(* implements SerialStore.                                                 *)
(*                                                                         *)
(* Every action moves one process.  Moves says where to, with which        *)
(* locals, and that the control and pending parts of IInv hold there;      *)
(* MoveKeepsInv turns that into IInv'.  Each action then needs its files,  *)
(* its host and its move.                                                  *)
(***************************************************************************)
EXTENDS AdminCommands, TLAPS

Lands(p, at, l) ==
    /\ pc' = [pc EXCEPT ![p] = at]
    /\ loc' = [loc EXCEPT ![p] = l]
    /\ Control(at, l)
    /\ Pending(at, l, users')
    /\ at \notin {"idle", "lock"} => lock' = p

Moves(p) == \E at \in Labels, l \in Local : Lands(p, at, l)

(* A process other than p keeps its part of the invariant, because it does *)
(* not hold the lock if users.json changes.                                *)
LEMMA MoveKeepsInv ==
    ASSUME IInv, NEW p \in Procs, FilesOK', HostOK', Moves(p),
           users' = users \/ lock = p,
           \A q \in Procs : q # p /\ lock = q => lock' = q
    PROVE  IInv'
<1>1. PICK at \in Labels, l \in Local : Lands(p, at, l)
  BY DEF Moves
<1>2. pc \in [Procs -> Labels] /\ loc \in [Procs -> Local]
  BY DEF IInv, TypeOK, ProcsOK
<1>3. ProcsOK' /\ pc'[p] = at /\ loc'[p] = l
  BY <1>1, <1>2 DEF Lands, ProcsOK
<1>4. ASSUME NEW q \in Procs
      PROVE  /\ pc'[q] \notin {"idle", "lock"} => lock' = q
             /\ Control(pc'[q], loc'[q])
             /\ Pending(pc'[q], loc'[q], users')
  <2>1. CASE q = p
    BY <1>1, <1>3, <2>1 DEF Lands
  <2>2. CASE q # p
    <3>1. pc'[q] = pc[q] /\ loc'[q] = loc[q]
      BY <1>1, <1>2, <2>2 DEF Lands
    <3>2. /\ pc[q] \notin {"idle", "lock"} => lock = q
          /\ Control(pc[q], loc[q]) /\ Pending(pc[q], loc[q], users)
      BY DEF IInv
    <3>3. Pending(pc[q], loc[q], users')
      <4>1. CASE users' = users
        BY <3>2, <4>1
      <4>2. CASE lock = p
        BY <2>2, <3>2, <4>2 DEF Pending, Where, PipelineLabels
      <4> QED BY <4>1, <4>2
    <3> QED BY <2>2, <3>1, <3>2, <3>3
  <2> QED BY <2>1, <2>2
<1> QED BY <1>3, <1>4 DEF IInv, TypeOK

-----------------------------------------------------------------------------
(* The ways an action moves: goto, return from the pipeline, call of it.   *)
LEMMA Locals ==
    ASSUME IInv, NEW p \in Procs
    PROVE  /\ loc[p] \in Local /\ pc[p] \in Labels
           /\ loc = [loc EXCEPT ![p] = loc[p]]
           /\ Control(pc[p], loc[p]) /\ Pending(pc[p], loc[p], users)
           /\ pc[p] \notin {"idle", "lock"} => lock = p
BY DEF IInv, TypeOK, ProcsOK

(* The control points at which the invariant asks only for the settings.   *)
Quiet == {"load", "lock", "ok", "err", "checked", "unsaved", "reconciled", "egress_restored"}

(* A step to a control point where nothing is pending asks for nothing     *)
(* new.                                                                    *)
LEMMA GotoQuiet ==
    ASSUME IInv, NEW p \in Procs, NEW at \in Quiet, Goto(p, at), loc' = loc,
           pc[p] # "idle", at # "lock" => lock' = p
    PROVE  Moves(p)
<1>1. Lands(p, at, loc[p])
  BY Locals DEF Lands, Goto, Control, Pending, Where, Quiet, PipelineLabels, Returns, StaticLabels
<1>2. at \in Labels
  BY DEF Quiet, Labels, PipelineLabels, Returns
<1> QED BY <1>1, <1>2, Locals DEF Moves

(* A step of the pipeline keeps what the command will find on return.      *)
Same(l, m) ==
    l.cmd = m.cmd /\ l.cfg = m.cfg /\ l.prev = m.prev /\ l.next = m.next
    /\ l.orig = m.orig /\ l.cont = m.cont

(* A process that stays in render_and_apply_singbox_config, or returns to  *)
(* its caller, keeps the part of the invariant its caller relies on.       *)
LEMMA MoveInPipeline ==
    ASSUME IInv, NEW p \in Procs, pc[p] \in PipelineLabels,
           NEW l \in Local, Same(l, loc[p]),
           NEW at \in PipelineLabels \cup {loc[p].cont},
           pc' = [pc EXCEPT ![p] = at], loc' = [loc EXCEPT ![p] = l],
           users' = users, lock' = lock
    PROVE  Moves(p)
<1>1. at \in Labels
  BY Locals DEF Labels, Local
<1>2. Where(at, l) = Where(pc[p], loc[p])
  BY Locals DEF Where, Same, Control, PipelineLabels, Returns
<1>3. Control(at, l)
  BY <1>2, Locals DEF Control, Same, PipelineLabels, Returns
<1>4. Pending(at, l, users)
  BY <1>2, Locals DEF Pending, Same
<1>5. at \notin {"idle", "lock"} => lock = p
  BY Locals DEF PipelineLabels
<1> QED BY Zenon, <1>1, <1>3, <1>4, <1>5 DEF Moves, Lands

(* Returning from the pipeline is such a move.                             *)
LEMMA ReturnMoves ==
    ASSUME IInv, NEW p \in Procs, pc[p] \in PipelineLabels,
           NEW result \in {"ok", "no", "err"}, Return(p, result), users' = users, lock' = lock
    PROVE  Moves(p)
<1>1. [loc[p] EXCEPT !.ret = result] \in Local /\ Same([loc[p] EXCEPT !.ret = result], loc[p])
  BY Locals DEF Local, Same
<1>2. pc' = [pc EXCEPT ![p] = loc[p].cont] /\ loc' = [loc EXCEPT ![p] = [loc[p] EXCEPT !.ret = result]]
  BY Zenon DEF Return, Goto
<1>3. PICK l : l = [loc[p] EXCEPT !.ret = result]
  BY Zenon
<1>4. l \in Local /\ Same(l, loc[p]) /\ loc' = [loc EXCEPT ![p] = l]
  BY <1>1, <1>2, <1>3, Zenon
<1> QED BY Zenon, <1>2, <1>4, MoveInPipeline

(* So is a step from one control point of the pipeline to the next.        *)
LEMMA GotoMoves ==
    ASSUME IInv, NEW p \in Procs, pc[p] \in PipelineLabels,
           NEW at \in PipelineLabels, Goto(p, at), loc' = loc, users' = users, lock' = lock
    PROVE  Moves(p)
<1>1. Same(loc[p], loc[p])
  BY DEF Same
<1> QED BY Zenon, <1>1, Locals, MoveInPipeline DEF Goto

-----------------------------------------------------------------------------
(* Documents.                                                              *)
LEMMA RenderType ==
    ASSUME NEW cfg \in Settings \cup {NoToml}, NEW s \in Store, NEW t \in 0 .. 1
    PROVE  Render(cfg, s, t) \in Document
BY DEF Render, Document, Store, UserRec

(* Whatever a restart comes to, an active service runs a document.         *)
LEMMA ReloadType ==
    ASSUME HostOK, NEW ok \in BOOLEAN, reload_and_verify(ok), UNCHANGED <<target, bak, stamp, clock>>,
           manual' \in BOOLEAN
    PROVE  HostOK'
<1>1. CASE UNCHANGED <<running, active>>
  BY <1>1 DEF HostOK, IsDoc
<1>2. CASE running' = target /\ active' = IsDoc(target)
  BY Zenon, <1>2 DEF HostOK, IsDoc
<1>3. CASE running' = target /\ active' = FALSE
  BY Zenon, <1>3 DEF HostOK
<1> QED BY Zenon, <1>1, <1>2, <1>3 DEF reload_and_verify

(* Every step of render_and_apply_singbox_config preserves the invariant.  *)
LEMMA PipelineStep ==
    ASSUME IInv, NEW p \in Procs, Pipeline(p), UNCHANGED <<files, sub, lock, bounds, hist>>
    PROVE  IInv'
<1>1. FilesOK' /\ users' = users /\ lock' = lock
  BY DEF IInv, TypeOK, FilesOK, files, sub, bounds
<1>2. HostOK /\ loc[p] \in Local
  BY Locals DEF IInv, TypeOK
<1>3. SUFFICES HostOK' /\ Moves(p)
  BY <1>1, MoveKeepsInv
<1>4. CASE RenderStep(p)
  <2>1. HostOK'
    BY <1>2, <1>4 DEF RenderStep, host, HostOK, IsDoc
  <2>2. CASE \E result \in {"ok", "no", "err"} : Return(p, result)
    BY <1>1, <1>4, <2>1, <2>2, ReturnMoves DEF RenderStep, PipelineLabels
  <2>3. ASSUME NEW svc \in BOOLEAN,
               loc' = [loc EXCEPT ![p].doc = Render(loc[p].acfg, loc[p].ausers, clock),
                                  ![p].svc = svc],
               Goto(p, "check")
        PROVE  Moves(p)
    <3>1. PICK d \in Document : d = Render(loc[p].acfg, loc[p].ausers, clock)
      BY <1>2, RenderType DEF Local, HostOK
    <3>2. PICK l : l = [loc[p] EXCEPT !.doc = d, !.svc = svc]
      OBVIOUS
    <3>3. l \in Local /\ Same(l, loc[p])
      BY Zenon, <1>2, <3>2 DEF Local, Same
    <3>4. loc' = [loc EXCEPT ![p] = l]
      BY Zenon, <1>2, <2>3, <3>1, <3>2, Locals DEF IInv, TypeOK, ProcsOK
    <3> QED BY Zenon, <1>1, <1>4, <2>3, <3>3, <3>4, MoveInPipeline DEF RenderStep, Goto, PipelineLabels
  <2>4. \/ \E result \in {"ok", "no", "err"} : Return(p, result)
        \/ \E svc \in BOOLEAN :
             /\ loc' = [loc EXCEPT ![p].doc = Render(loc[p].acfg, loc[p].ausers, clock),
                                   ![p].svc = svc]
             /\ Goto(p, "check")
    BY Zenon, <1>4 DEF RenderStep
  <2> QED BY <2>1, <2>2, <2>3, <2>4
<1>5. CASE CheckStep(p)
  <2>1. HostOK'
    BY <1>2, <1>5 DEF CheckStep, HostOK, IsDoc
  <2>2. Moves(p)
    BY <1>1, <1>5, ReturnMoves, GotoMoves DEF CheckStep, PipelineLabels
  <2> QED BY <2>1, <2>2
<1>6. CASE InstallStep(p)
  <2>1. HostOK'
    BY <1>2, <1>6 DEF InstallStep, HostOK, IsDoc, Local
  <2>2. Moves(p)
    BY <1>1, <1>6, ReturnMoves, GotoMoves DEF InstallStep, PipelineLabels
  <2> QED BY <2>1, <2>2
<1>7. CASE ReloadStep(p)
  <2>1. HostOK'
    BY Zenon, <1>2, <1>7, ReloadType DEF ReloadStep, HostOK
  <2>2. Moves(p)
    BY Zenon, <1>1, <1>7, GotoMoves DEF ReloadStep, PipelineLabels
  <2> QED BY <2>1, <2>2
<1>8. CASE HandshakeStep(p)
  <2>1. HostOK'
    BY <1>2, <1>8 DEF HandshakeStep, host, HostOK, IsDoc
  <2>2. Moves(p)
    BY <1>1, <1>8, GotoMoves DEF HandshakeStep, PipelineLabels
  <2> QED BY <2>1, <2>2
<1>9. CASE RestoreStep(p)
  <2>1. HostOK'
    BY Zenon, <1>2, <1>9 DEF RestoreStep, HostOK, IsDoc
  <2>2. Moves(p)
    BY <1>1, <1>9, ReturnMoves, GotoMoves DEF RestoreStep, PipelineLabels
  <2> QED BY <2>1, <2>2
<1>10. CASE RestoringStep(p)
  <2>1. HostOK'
    BY Zenon, <1>2, <1>10 DEF RestoringStep, HostOK, IsDoc
  <2>2. Moves(p)
    BY <1>1, <1>10, ReturnMoves, GotoMoves DEF RestoringStep, PipelineLabels
  <2> QED BY <2>1, <2>2
<1>11. CASE RecoverStep(p)
  <2>1. HostOK'
    BY Zenon, <1>2, <1>11, ReloadType DEF RecoverStep, HostOK
  <2>2. Moves(p)
    BY <1>1, <1>11, ReturnMoves DEF RecoverStep, PipelineLabels
  <2> QED BY <2>1, <2>2
<1>12. CASE StampStep(p)
  <2>1. HostOK'
    BY <1>2, <1>12 DEF StampStep, HostOK, IsDoc, Local
  <2>2. Moves(p)
    BY <1>1, <1>12, ReturnMoves DEF StampStep, PipelineLabels
  <2> QED BY <2>1, <2>2
<1> QED BY <1>4, <1>5, <1>6, <1>7, <1>8, <1>9, <1>10, <1>11, <1>12 DEF Pipeline
-----------------------------------------------------------------------------
(* A call of the pipeline, given what its return point asks for.           *)
LEMMA CallMoves ==
    ASSUME IInv, NEW p \in Procs, lock' = p,
           NEW l \in Local, NEW cfg \in Settings, NEW s \in Store, NEW live \in BOOLEAN,
           NEW cont \in Returns, Call(p, l, cfg, s, live, cont),
           l.cfg \in Settings,
           cont \in {"egress_applied", "static_applied"} => l.orig \in Settings,
           cont \in StaticLabels => l.cmd.kind = "static",
           cont = "save" => l.cmd \in Commands /\ l.prev = users' /\ l.next \in Effects(l.cmd, users')
    PROVE  Moves(p)
<1>1. PICK m : m = [l EXCEPT !.acfg = cfg, !.ausers = s, !.live = live, !.cont = cont]
  OBVIOUS
<1>2. m \in Local /\ m.cont = cont /\ m.cfg = l.cfg /\ m.orig = l.orig /\ m.cmd = l.cmd
      /\ m.prev = l.prev /\ m.next = l.next
  BY ZenonT(30), <1>1 DEF Local, Labels
<1>3. loc' = [loc EXCEPT ![p] = m] /\ pc' = [pc EXCEPT ![p] = "render"]
  BY <1>1, Zenon DEF Call, Goto
<1>4. Where("render", m) = cont
  BY <1>2 DEF Where, PipelineLabels
<1>5. Control("render", m)
  BY <1>2, <1>4 DEF Control, PipelineLabels, Returns
<1>6. Pending("render", m, users')
  BY <1>2, <1>4 DEF Pending, Returns
<1> QED BY Zenon, <1>2, <1>3, <1>5, <1>6 DEF Moves, Lands, Labels, PipelineLabels

(* A goto between control points of a static revision.                     *)
LEMMA GotoStatic ==
    ASSUME IInv, NEW p \in Procs, NEW at \in {"plan", "unbackup", "static_stamp", "commit", "roll", "rolled"},
           Goto(p, at), lock' = p, pc[p] # "idle",
           NEW l \in Local, loc' = [loc EXCEPT ![p] = l],
           l.cmd = loc[p].cmd, l.cfg = loc[p].cfg, l.cmd.kind = "static",
           at = "roll" => l.orig \in Settings
    PROVE  Moves(p)
<1>1. Lands(p, at, l)
  BY Locals DEF Lands, Goto, Control, Pending, Where, PipelineLabels, StaticLabels
<1>2. at \in Labels
  BY DEF Labels, Returns
<1> QED BY <1>1, <1>2 DEF Moves

(* What the fields of a command range over, by its kind.                   *)
LEMMA CommandTypes ==
    ASSUME NEW l \in Local
    PROVE  /\ l.cmd.kind = "user" => l.cmd \in Commands /\ l.cmd.c \in Creds
           /\ l.cmd.kind = "snapshot" => l.cmd \in Commands /\ l.cmd.users \in Store
           /\ l.cmd.kind \in {"snapshot", "static"} => l.cmd.rev \in Nat
           /\ l.cmd.kind = "static" => l.cmd.ep \in Nat
           /\ l.cmd.kind = "egress" => l.cmd.eg \in Nat
BY CommandsAssumption DEF Local, CommandSpace, Timer

(* Replacing the store is what an apply-revision command may do to it.     *)
LEMMA SnapshotEffect ==
    ASSUME NEW cmd, NEW s, cmd.kind = "snapshot", cmd.users \in Store
    PROVE  cmd.users \in Effects(cmd, s)
BY DEF Effects

(* Changing the record of its user is what a user command may do to the    *)
(* store.                                                                  *)
LEMMA UserEffect ==
    ASSUME NEW cmd, NEW s \in Store, NEW u \in UserRec, cmd.kind = "user", cmd.c \in Creds,
           Mutates(cmd, s[cmd.c], u)
    PROVE  [s EXCEPT ![cmd.c] = u] \in Store /\ [s EXCEPT ![cmd.c] = u] \in Effects(cmd, s)
<1>1. PICK t : t = [s EXCEPT ![cmd.c] = u]
  BY Zenon
<1>2. t \in Store /\ t[cmd.c] = u
  BY <1>1 DEF Store
<1>3. t \in Effects(cmd, s)
  BY Zenon, <1>1, <1>2 DEF Effects
<1> QED BY <1>1, <1>2, <1>3

(* The part of an action's obligations that is the same for all of them.   *)
LEMMA StepOfHolder ==
    ASSUME IInv, NEW p \in Procs, pc[p] \notin {"idle", "lock"}, lock' = lock,
           FilesOK', HostOK', Moves(p)
    PROVE  IInv'
<1>1. lock = p
  BY Locals
<1> QED BY <1>1, MoveKeepsInv

(* A step that leaves the files or the host alone leaves their types       *)
(* alone.                                                                  *)
LEMMA Unchanged ==
    ASSUME IInv
    PROVE  /\ UNCHANGED <<host, clock, manual>> => HostOK'
           /\ UNCHANGED <<users, toml, sbak, rev, sub, lock, bounds, hist>> => FilesOK'
           /\ FilesOK /\ HostOK
BY DEF IInv, TypeOK, HostOK, FilesOK, host, sub, bounds, IsDoc
-----------------------------------------------------------------------------
(* One step per group of actions.                                          *)
LEMMA UserCommandKeeps ==
    ASSUME IInv, NEW p \in Procs, UserCommand(p)
    PROVE  IInv'
<1> DEFINE cmd == loc[p].cmd
<1>1. FilesOK' /\ HostOK' /\ users' = users /\ lock' = lock /\ pc[p] = "load"
  BY Zenon, Unchanged DEF UserCommand, files
<1>2. /\ cmd \in Commands /\ cmd.c \in Creds /\ cmd.kind = "user"
      /\ loc[p] \in Local /\ users \in Store /\ lock' = p /\ loc[p].cfg \in Settings
  BY Zenon, <1>1, Locals, CommandTypes, Unchanged DEF UserCommand, FilesOK, Control
<1>3. SUFFICES Moves(p)
  BY <1>1, StepOfHolder
<1>4. CASE Goto(p, "err") /\ UNCHANGED loc
  BY <1>1, <1>2, <1>4, GotoQuiet DEF Quiet
<1>5. ASSUME NEW u \in UserRec, Mutates(cmd, users[cmd.c], u),
             NEW next, next = [users EXCEPT ![cmd.c] = u],
             NEW keep, keep = [loc[p] EXCEPT !.prev = users, !.next = next],
             \/ loc' = [loc EXCEPT ![p] = keep] /\ Goto(p, "publish")
             \/ Call(p, keep, loc[p].cfg, next, TRUE, "checked")
             \/ Call(p, keep, loc[p].cfg, next, TRUE, "save")
      PROVE  Moves(p)
  <2>1. next \in Store /\ next \in Effects(cmd, users)
    BY Zenon, <1>2, <1>5, UserEffect
  <2>2. /\ keep \in Local /\ keep.cmd = cmd /\ keep.cfg = loc[p].cfg
        /\ keep.prev = users /\ keep.next = next
    BY Zenon, <1>2, <1>5, <2>1 DEF Local
  <2>3. CASE loc' = [loc EXCEPT ![p] = keep] /\ Goto(p, "publish")
    <3>1. Lands(p, "publish", keep)
      BY <1>1, <1>2, <2>1, <2>2, <2>3 DEF Lands, Goto, Control, Pending, Where, PipelineLabels, StaticLabels
    <3> QED BY <2>2, <3>1 DEF Moves, Labels
  <2>4. CASE Call(p, keep, loc[p].cfg, next, TRUE, "checked")
    BY Zenon, <1>2, <2>1, <2>2, <2>4, CallMoves DEF Returns, StaticLabels
  <2>5. CASE Call(p, keep, loc[p].cfg, next, TRUE, "save")
    BY Zenon, <1>1, <1>2, <2>1, <2>2, <2>5, CallMoves DEF Returns, StaticLabels
  <2> QED BY Zenon, <1>5, <2>3, <2>4, <2>5
<1> QED BY Zenon, <1>4, <1>5 DEF UserCommand

(* The steps of apply_users_and_save preserve the invariant.               *)
LEMMA SavesKeep ==
    ASSUME IInv, NEW p \in Procs, Publish(p) \/ Checked(p) \/ Save(p) \/ Unsaved(p)
    PROVE  IInv'
<1>1. /\ pc[p] \notin {"idle", "lock"} /\ lock = p /\ lock' = lock
      /\ loc[p] \in Local /\ loc[p].cfg \in Settings /\ users \in Store
      /\ loc[p].prev \in Store /\ loc[p].next \in Store
  BY Zenon, Locals, Unchanged DEF Publish, Checked, Save, Unsaved, Control, FilesOK, Local
<1>2. SUFFICES FilesOK' /\ HostOK' /\ Moves(p)
  BY <1>1, StepOfHolder
<1>3. CASE Publish(p)
  <2>1. FilesOK' /\ HostOK'
    BY Zenon, <1>1, <1>3, Unchanged DEF Publish, FilesOK, sub, bounds
  <2>2. Moves(p)
    BY Zenon, <1>1, <1>3, GotoQuiet DEF Publish, Quiet
  <2> QED BY <2>1, <2>2
<1>4. CASE Checked(p)
  <2>1. FilesOK' /\ HostOK'
    BY Zenon, <1>4, Unchanged DEF Checked, files
  <2>2. Moves(p)
    BY Zenon, <1>1, <1>4, GotoQuiet DEF Checked, Quiet
  <2> QED BY <2>1, <2>2
<1>5. CASE Unsaved(p)
  <2>1. FilesOK' /\ HostOK'
    BY Zenon, <1>5, Unchanged DEF Unsaved, files, HostOK, host, IsDoc
  <2>2. Moves(p)
    BY Zenon, <1>1, <1>5, GotoQuiet DEF Unsaved, Quiet
  <2> QED BY <2>1, <2>2
<1>6. CASE Save(p)
  <2>1. HostOK' /\ pc[p] = "save"
    BY <1>6, Unchanged DEF Save
  <2>2. CASE Goto(p, "err") /\ UNCHANGED <<users, loc>>
    <3>1. FilesOK'
      BY <1>6, <2>2, Unchanged DEF Save
    <3> QED BY <1>1, <2>1, <2>2, <3>1, GotoQuiet DEF Quiet
  <2>3. CASE Call(p, loc[p], loc[p].cfg, loc[p].prev, TRUE, "unsaved") /\ UNCHANGED users
    <3>1. FilesOK'
      BY <1>6, <2>3, Unchanged DEF Save
    <3> QED BY Zenon, <1>1, <2>1, <2>3, <3>1, CallMoves DEF Returns, StaticLabels
  <2>4. CASE /\ users' = loc[p].next
             /\ Goto(p, IF loc[p].cmd.kind = "snapshot" THEN "revstamp" ELSE "ok")
             /\ UNCHANGED loc
    <3>1. FilesOK'
      BY <1>1, <1>6, <2>4, Unchanged, CommandTypes DEF Save, FilesOK, sub, bounds
    <3>2. CASE loc[p].cmd.kind = "snapshot"
      <4>1. Lands(p, "revstamp", loc[p])
        BY <1>1, <2>4, <3>2, Locals DEF Lands, Goto, Control, Pending, Where, PipelineLabels, StaticLabels
      <4> QED BY <1>1, <2>1, <3>1, <4>1 DEF Moves, Labels
    <3>3. CASE loc[p].cmd.kind # "snapshot"
      BY <1>1, <2>1, <2>4, <3>1, <3>3, GotoQuiet DEF Quiet
    <3> QED BY <3>2, <3>3
  <2> QED BY Zenon, <1>6, <2>2, <2>3, <2>4 DEF Save
<1> QED BY <1>3, <1>4, <1>5, <1>6

(* render-config, as the timer runs it, preserves the invariant.           *)
LEMMA ReconcileKeeps ==
    ASSUME IInv, NEW p \in Procs, Reconcile(p) \/ Reconciled(p)
    PROVE  IInv'
<1>1. /\ pc[p] \notin {"idle", "lock"} /\ lock = p /\ lock' = lock
      /\ loc[p] \in Local /\ loc[p].cfg \in Settings /\ users \in Store
  BY Zenon, Locals, Unchanged DEF Reconcile, Reconciled, Control, FilesOK
<1>2. HostOK' /\ users' = users
  BY Zenon, Unchanged DEF Reconcile, Reconciled, files
<1>3. CASE Reconcile(p)
  <2>1. FilesOK'
    BY <1>3, Unchanged DEF Reconcile, files
  <2>2. Moves(p)
    BY Zenon, <1>1, <1>3, CallMoves DEF Reconcile, Returns, StaticLabels
  <2> QED BY <1>1, <1>2, <2>1, <2>2, StepOfHolder
<1>4. CASE Reconciled(p)
  <2>1. FilesOK'
    BY Zenon, <1>1, <1>4, Unchanged DEF Reconciled, FilesOK, files, sub, bounds, Settings
  <2>2. Moves(p)
    BY Zenon, <1>1, <1>4, GotoQuiet DEF Reconciled, Quiet
  <2> QED BY <1>1, <1>2, <2>1, <2>2, StepOfHolder
<1> QED BY <1>3, <1>4

(* egress set and its restore preserve the invariant.                      *)
LEMMA EgressKeeps ==
    ASSUME IInv, NEW p \in Procs, Egress(p) \/ EgressApplied(p) \/ EgressRestored(p)
    PROVE  IInv'
<1>1. /\ pc[p] \notin {"idle", "lock"} /\ lock = p /\ lock' = lock
      /\ loc[p] \in Local /\ loc[p].cfg \in Settings /\ users \in Store /\ toml \in Settings
  BY Zenon, Locals, Unchanged DEF Egress, EgressApplied, EgressRestored, Control, FilesOK
<1>2. CASE Egress(p)
  <2>1. PICK next \in Settings : next = [toml EXCEPT !.eg = loc[p].cmd.eg]
    BY <1>1, <1>2, CommandTypes DEF Egress, Settings
  <2>2. PICK l \in Local : l = [loc[p] EXCEPT !.orig = toml]
    BY Zenon, <1>1 DEF Local
  <2>3. l.cfg = loc[p].cfg /\ l.orig = toml
    BY <1>1, <2>2 DEF Local
  <2>4. toml' = next /\ Call(p, l, next, users, TRUE, "egress_applied")
    BY Zenon, <1>2, <2>1, <2>2 DEF Egress
  <2>5. FilesOK' /\ HostOK'
    BY <1>1, <1>2, <2>4, Unchanged DEF Egress, FilesOK, sub, bounds
  <2>6. Moves(p)
    BY Zenon, <1>1, <2>3, <2>4, CallMoves DEF Returns, StaticLabels
  <2> QED BY Zenon, <1>1, <2>5, <2>6, StepOfHolder
<1>3. CASE EgressApplied(p)
  <2>1. loc[p].orig \in Settings /\ pc[p] = "egress_applied"
    BY <1>3, Locals DEF EgressApplied, Control, Where, PipelineLabels
  <2>2. FilesOK' /\ HostOK'
    BY Zenon, <1>3, <2>1, Unchanged DEF EgressApplied, FilesOK, HostOK, host, sub, bounds, IsDoc
  <2>3. Moves(p)
    BY Zenon, <1>1, <1>3, GotoQuiet, CallMoves DEF EgressApplied, Returns, StaticLabels, Quiet
  <2> QED BY Zenon, <1>1, <2>2, <2>3, StepOfHolder
<1>4. CASE EgressRestored(p)
  <2>1. FilesOK' /\ HostOK'
    BY <1>4, Unchanged DEF EgressRestored, files, HostOK, host, IsDoc
  <2>2. Moves(p)
    BY <1>1, <1>4, GotoQuiet DEF EgressRestored, Quiet
  <2> QED BY Zenon, <1>1, <2>1, <2>2, StepOfHolder
<1> QED BY <1>2, <1>3, <1>4

(* apply-revision preserves the invariant.                                 *)
LEMMA RevisionKeeps ==
    ASSUME IInv, NEW p \in Procs, SkipStale(p) \/ Snapshot(p) \/ SnapshotStamp(p)
    PROVE  IInv'
<1>1. /\ pc[p] \notin {"idle", "lock"} /\ lock = p /\ lock' = lock
      /\ loc[p] \in Local /\ loc[p].cfg \in Settings /\ users \in Store
  BY Zenon, Locals, Unchanged DEF SkipStale, Snapshot, SnapshotStamp, Control, FilesOK
<1>2. HostOK'
  BY Zenon, Unchanged DEF SkipStale, Snapshot, SnapshotStamp
<1>3. CASE SkipStale(p)
  <2>1. FilesOK'
    BY Zenon, <1>3, Unchanged DEF SkipStale, files
  <2>2. Moves(p)
    BY Zenon, <1>1, <1>3, GotoQuiet DEF SkipStale, Quiet
  <2> QED BY <1>1, <1>2, <2>1, <2>2, StepOfHolder
<1>4. CASE Snapshot(p)
  <2>1. FilesOK' /\ users' = users /\ loc[p].cmd.kind = "snapshot"
    BY <1>4, Unchanged DEF Snapshot, files
  <2>2. /\ loc[p].cmd \in Commands /\ loc[p].cmd.users \in Store
        /\ loc[p].cmd.users \in Effects(loc[p].cmd, users)
    BY <1>1, <2>1, CommandTypes, SnapshotEffect
  <2>3. PICK l \in Local : l = [loc[p] EXCEPT !.prev = users, !.next = loc[p].cmd.users]
    BY Zenon, <1>1, <2>2 DEF Local
  <2>4. l.cfg = loc[p].cfg /\ l.cmd = loc[p].cmd /\ l.prev = users /\ l.next = loc[p].cmd.users
    BY <1>1, <2>3 DEF Local
  <2>5. Call(p, l, loc[p].cfg, loc[p].cmd.users, TRUE, "save")
    BY Zenon, <1>4, <2>3 DEF Snapshot
  <2>6. Moves(p)
    BY Zenon, <1>1, <2>1, <2>2, <2>4, <2>5, CallMoves DEF Returns, StaticLabels
  <2> QED BY Zenon, <1>1, <1>2, <2>1, <2>6, StepOfHolder
<1>5. CASE SnapshotStamp(p)
  <2>1. loc[p].cmd.rev \in Nat
    BY <1>1, <1>5, Locals, CommandTypes DEF SnapshotStamp, Control, Where, PipelineLabels
  <2>2. FilesOK'
    BY <1>5, <2>1, Unchanged DEF SnapshotStamp, RevStamp, FilesOK, sub, bounds
  <2>3. Moves(p)
    BY <1>1, <1>5, GotoQuiet DEF SnapshotStamp, RevStamp, Quiet
  <2> QED BY <1>1, <1>2, <2>2, <2>3, StepOfHolder
<1> QED BY <1>3, <1>4, <1>5

(* Restarting the subscription service gives it endpoints that exist.      *)
LEMMA RestartType ==
    ASSUME FilesOK, NEW ok \in BOOLEAN, RestartSubscription(ok)
    PROVE  served' \in Nat /\ sstamp' \in Nat \cup {-1}
BY DEF RestartSubscription, FilesOK, Settings, sub

(* recover_interrupted_apply preserves the invariant.                      *)
LEMMA StaticRecoveryKeeps ==
    ASSUME IInv, NEW p \in Procs, StaticRecover(p) \/ StaticRecovered(p) \/ StaticUnbackup(p)
    PROVE  IInv'
<1>1. /\ pc[p] \notin {"idle", "lock"} /\ lock = p /\ lock' = lock
      /\ loc[p] \in Local /\ loc[p].cfg \in Settings /\ users \in Store
      /\ sbak \in Settings \cup {NoToml}
  BY Zenon, Locals, Unchanged DEF StaticRecover, StaticRecovered, StaticUnbackup, Control, FilesOK
<1>2. HostOK' /\ loc[p].cmd.kind = "static"
  BY Zenon, Unchanged, Locals
     DEF StaticRecover, StaticRecovered, StaticUnbackup, Control, Where, PipelineLabels, StaticLabels
<1>3. CASE StaticRecover(p)
  <2>1. CASE sbak = NoToml
    <3>1. FilesOK'
      BY Zenon, <1>3, <2>1, Unchanged DEF StaticRecover
    <3>2. Moves(p)
      BY <1>1, <1>2, <1>3, <2>1, GotoStatic, Locals DEF StaticRecover
    <3> QED BY Zenon, <1>1, <1>2, <3>1, <3>2, StepOfHolder
  <2>2. CASE sbak # NoToml
    <3>1. FilesOK'
      BY <1>1, <1>3, <2>2, Unchanged DEF StaticRecover, FilesOK, sub, bounds
    <3>2. Moves(p)
      BY Zenon, <1>1, <1>2, <1>3, <2>2, CallMoves DEF StaticRecover, Returns, StaticLabels
    <3> QED BY <1>1, <1>2, <3>1, <3>2, StepOfHolder
  <2> QED BY <2>1, <2>2
<1>4. CASE StaticRecovered(p)
  <2>1. FilesOK'
    BY Zenon, <1>4, Unchanged, RestartType DEF StaticRecovered, FilesOK, files, sub, bounds
  <2>2. Moves(p)
    BY Zenon, <1>1, <1>2, <1>4, GotoStatic, GotoQuiet, Locals DEF StaticRecovered, Quiet
  <2> QED BY <1>1, <1>2, <2>1, <2>2, StepOfHolder
<1>5. CASE StaticUnbackup(p)
  <2>1. FilesOK'
    BY <1>5, Unchanged DEF StaticUnbackup, FilesOK, sub, bounds
  <2>2. Moves(p)
    BY <1>1, <1>2, <1>5, GotoStatic, Locals DEF StaticUnbackup
  <2> QED BY <1>1, <1>2, <2>1, <2>2, StepOfHolder
<1> QED BY <1>3, <1>4, <1>5

(* apply-static-revision preserves it up to the end of the live apply.     *)
LEMMA StaticApplyKeeps ==
    ASSUME IInv, NEW p \in Procs, StaticPlan(p) \/ StaticStage(p) \/ StaticApplied(p)
    PROVE  IInv'
<1>1. /\ pc[p] \notin {"idle", "lock"} /\ lock = p /\ lock' = lock
      /\ loc[p] \in Local /\ loc[p].cfg \in Settings /\ users \in Store /\ toml \in Settings
      /\ loc[p].prev \in Store
  BY Zenon, Locals, Unchanged DEF StaticPlan, StaticStage, StaticApplied, Control, FilesOK, Local
<1>2. HostOK' /\ loc[p].cmd.kind = "static"
  BY Zenon, Unchanged, Locals
     DEF StaticPlan, StaticStage, StaticApplied, Control, Where, PipelineLabels, StaticLabels
<1>3. loc[p].cmd.ep \in Nat /\ loc[p].cmd.rev \in Nat
  BY <1>1, <1>2, CommandTypes
<1>4. CASE StaticPlan(p)
  <2>1. FilesOK'
    BY <1>1, <1>3, <1>4, Unchanged DEF StaticPlan, RevStamp, FilesOK, sub, bounds
  <2>2. CASE toml.ep = loc[p].cmd.ep
    <3>1. Moves(p)
      BY <1>1, <1>4, <2>2, GotoQuiet DEF StaticPlan, RevStamp, Quiet
    <3> QED BY <1>1, <1>2, <2>1, <3>1, StepOfHolder
  <2>3. CASE toml.ep # loc[p].cmd.ep
    <3>1. PICK l \in Local : l = [loc[p] EXCEPT !.orig = toml, !.prev = users]
      BY Zenon, <1>1 DEF Local
    <3>2. l.cfg = loc[p].cfg /\ l.cmd = loc[p].cmd /\ l.orig = toml
      BY <1>1, <3>1 DEF Local
    <3>3. loc' = [loc EXCEPT ![p] = l] /\ Goto(p, "stage")
      BY Zenon, <1>1, <1>4, <2>3, <3>1, Locals DEF StaticPlan, IInv, TypeOK, ProcsOK
    <3>4. Lands(p, "stage", l)
      BY <1>1, <1>2, <3>2, <3>3 DEF Lands, Goto, Control, Pending, Where, PipelineLabels, StaticLabels
    <3>5. Moves(p)
      BY <3>4 DEF Moves, Labels
    <3> QED BY <1>1, <1>2, <2>1, <3>5, StepOfHolder
  <2> QED BY <2>2, <2>3
<1>5. CASE StaticStage(p)
  <2>1. loc[p].orig \in Settings
    BY <1>5, Locals DEF StaticStage, Control, Where, PipelineLabels
  <2>2. PICK candidate \in Settings : candidate = [toml EXCEPT !.ep = loc[p].cmd.ep]
    BY Zenon, <1>1, <1>3 DEF Settings
  <2>3. FilesOK'
    BY Zenon, <1>5, <2>2, Unchanged DEF StaticStage, FilesOK, sub, bounds
  <2>4. Moves(p)
    BY Zenon, <1>1, <1>2, <1>5, <2>1, <2>2, GotoQuiet, CallMoves DEF StaticStage, Quiet, Returns, StaticLabels
  <2> QED BY Zenon, <1>1, <1>2, <2>3, <2>4, StepOfHolder
<1>6. CASE StaticApplied(p)
  <2>1. FilesOK'
    BY Zenon, <1>6, Unchanged, RestartType DEF StaticApplied, FilesOK, files, sub, bounds
  <2>2. loc[p].orig \in Settings
    BY <1>6, Locals DEF StaticApplied, Control, Where, PipelineLabels
  <2>3. PICK l \in Local : l = [loc[p] EXCEPT !.touched = TRUE]
    BY Zenon, <1>1 DEF Local
  <2>4. l.cfg = loc[p].cfg /\ l.cmd = loc[p].cmd /\ l.orig = loc[p].orig
    BY <1>1, <2>3 DEF Local
  <2>5. loc' = loc \/ loc' = [loc EXCEPT ![p] = l]
    BY Zenon, <1>6, <2>3, Locals DEF StaticApplied, IInv, TypeOK, ProcsOK
  <2>6. Goto(p, "roll") \/ Goto(p, "static_stamp")
    BY Zenon, <1>6 DEF StaticApplied
  <2>7. Moves(p)
    BY <1>1, <1>2, <2>2, <2>4, <2>5, <2>6, GotoStatic, Locals
  <2> QED BY <1>1, <1>2, <2>1, <2>7, StepOfHolder
<1> QED BY <1>4, <1>5, <1>6

(* The commit and the rollback of apply-static-revision preserve it.       *)
LEMMA StaticEndKeeps ==
    ASSUME IInv, NEW p \in Procs,
           StaticStamp(p) \/ StaticCommit(p) \/ StaticRoll(p) \/ StaticRolled(p)
    PROVE  IInv'
<1>1. /\ pc[p] \notin {"idle", "lock"} /\ lock = p /\ lock' = lock
      /\ loc[p] \in Local /\ loc[p].cfg \in Settings /\ users \in Store /\ toml \in Settings
      /\ loc[p].prev \in Store
  BY Zenon, Locals, Unchanged DEF StaticStamp, StaticCommit, StaticRoll, StaticRolled, Control, FilesOK, Local
<1>2. loc[p].cmd.kind = "static" /\ loc[p].cmd.rev \in Nat
  BY Zenon, <1>1, Locals, CommandTypes
     DEF StaticStamp, StaticCommit, StaticRoll, StaticRolled, Control, Where, PipelineLabels, StaticLabels
<1>3. CASE StaticStamp(p)
  <2>1. FilesOK' /\ HostOK'
    BY Zenon, <1>1, <1>2, <1>3, Unchanged DEF StaticStamp, RevStamp, FilesOK, Settings, sub, bounds
  <2>2. Moves(p)
    BY Zenon, <1>1, <1>2, <1>3, GotoStatic, GotoQuiet, Locals DEF StaticStamp, RevStamp, Quiet
  <2> QED BY Zenon, <1>1, <2>1, <2>2, StepOfHolder
<1>4. CASE StaticCommit(p)
  <2>1. FilesOK' /\ HostOK'
    BY <1>1, <1>4, Unchanged DEF StaticCommit, FilesOK, Settings, sub, bounds
  <2>2. Moves(p)
    BY <1>1, <1>4, GotoQuiet DEF StaticCommit, Quiet
  <2> QED BY Zenon, <1>1, <2>1, <2>2, StepOfHolder
<1>5. CASE StaticRoll(p)
  <2>1. loc[p].orig \in Settings
    BY <1>5, Locals DEF StaticRoll, Control, Where, PipelineLabels
  <2>2. FilesOK' /\ HostOK'
    BY Zenon, <1>5, <2>1, Unchanged DEF StaticRoll, FilesOK, sub, bounds
  <2>3. CASE Call(p, loc[p], loc[p].orig, loc[p].prev, TRUE, "rolled")
    <3>1. Moves(p)
      BY Zenon, <1>1, <1>2, <2>1, <2>3, CallMoves DEF Returns, StaticLabels
    <3> QED BY <1>1, <2>2, <3>1, StepOfHolder
  <2>4. CASE loc' = [loc EXCEPT ![p].ret = "err", ![p].orig = NoToml] /\ Goto(p, "rolled")
    <3>1. PICK l \in Local : l = [loc[p] EXCEPT !.ret = "err", !.orig = NoToml]
      BY Zenon, <1>1 DEF Local
    <3>2. l.cfg = loc[p].cfg /\ l.cmd = loc[p].cmd
      BY <1>1, <3>1 DEF Local
    <3>3. loc' = [loc EXCEPT ![p] = l]
      BY Zenon, <2>4, <3>1, Locals DEF IInv, TypeOK, ProcsOK
    <3>4. Moves(p)
      BY Zenon, <1>1, <1>2, <2>4, <3>2, <3>3, GotoStatic
    <3> QED BY <1>1, <2>2, <3>4, StepOfHolder
  <2> QED BY Zenon, <1>5, <2>3, <2>4 DEF StaticRoll
<1>6. CASE StaticRolled(p)
  <2>1. FilesOK' /\ HostOK'
    <3>1. served' \in Nat /\ sstamp' \in Nat \cup {-1} /\ manual' \in BOOLEAN
      BY Zenon, <1>6, Unchanged, RestartType DEF StaticRolled, FilesOK, HostOK, sub
    <3> QED BY Zenon, <1>6, <3>1, Unchanged DEF StaticRolled, FilesOK, HostOK, host, bounds, IsDoc
  <2>2. Moves(p)
    BY Zenon, <1>1, <1>6, GotoQuiet DEF StaticRolled, Quiet
  <2> QED BY <1>1, <2>1, <2>2, StepOfHolder
<1> QED BY <1>3, <1>4, <1>5, <1>6

(* So does ending a command whose file cannot be written.                  *)
LEMMA UnwrittenKeeps ==
    ASSUME IInv, NEW p \in Procs, TomlUnwritten(p)
    PROVE  IInv'
<1>1. pc[p] \notin {"idle", "lock"} /\ lock = p /\ lock' = lock
  BY Locals DEF TomlUnwritten
<1>2. FilesOK' /\ HostOK'
  BY Zenon, Unchanged DEF TomlUnwritten, files
<1>3. Moves(p)
  BY <1>1, GotoQuiet DEF TomlUnwritten, Quiet
<1> QED BY <1>1, <1>2, <1>3, StepOfHolder

-----------------------------------------------------------------------------
(* A process that runs no command is in a legal state.                     *)
LEMMA IdleType == Idle \in Local /\ Control("idle", Idle) /\ \A s : Pending("idle", Idle, s)
<1>1. NoUser \in UserRec
  BY DEF NoUser, UserRec, Never
<1>2. NoUsers \in Store
  BY <1>1 DEF NoUsers, Store
<1>3. Idle \in Local
  BY <1>2 DEF Idle, Local, Labels
<1> QED BY <1>3 DEF Control, Pending, Where, PipelineLabels, StaticLabels

(* Starting a command, before the lock is taken, preserves the invariant.  *)
LEMMA BeginKeeps ==
    ASSUME IInv, NEW p \in Procs, NEW cmd \in Commands \cup {Timer}, Begin(p, cmd),
           started' \in 0 .. MaxCommands
    PROVE  IInv'
<1>1. FilesOK' /\ HostOK' /\ users' = users /\ lock' = lock
  BY Unchanged DEF Begin, FilesOK, files, sub
<1>2. PICK l : l = [Idle EXCEPT !.cmd = cmd, !.cfg = toml]
  OBVIOUS
<1>5. l \in Local /\ l.cfg = toml /\ toml \in Settings
  <2>1. Idle \in Local /\ toml \in Settings
    BY IdleType, Unchanged DEF FilesOK
  <2> QED BY Zenon, <1>2, <2>1 DEF Local
<1>3. Lands(p, "lock", l)
  BY <1>2, <1>5 DEF Begin, Goto, Lands, Control, Pending, Where, PipelineLabels, StaticLabels
<1>4. Moves(p)
  BY <1>3, <1>5 DEF Moves, Labels
<1> QED BY <1>1, <1>4, MoveKeepsInv

(* Taking the lock preserves it: nobody else held the lock.                *)
LEMMA AcquireKeeps ==
    ASSUME IInv, NEW p \in Procs, Acquire(p)
    PROVE  IInv'
<1>1. FilesOK' /\ HostOK' /\ users' = users
  BY Unchanged DEF Acquire, FilesOK, files, sub, bounds
<1>2. Moves(p)
  BY GotoQuiet DEF Acquire, Quiet
<1>3. \A q \in Procs : lock # q
  BY BoundsAssumption DEF Acquire
<1> QED BY <1>1, <1>2, <1>3, MoveKeepsInv

(* So does the end of a process, finished or killed: the kernel drops its  *)
(* lock.                                                                   *)
LEMMA ExitKeeps ==
    ASSUME IInv, NEW p \in Procs, Exit(p), kills' \in 0 .. MaxKills,
           UNCHANGED <<host, clock, manual, files, sub, started, hist>>
    PROVE  IInv'
<1>1. FilesOK' /\ HostOK' /\ users' = users
  BY Unchanged DEF Exit, FilesOK, files, sub
<1>2. Lands(p, "idle", Idle)
  BY IdleType DEF Exit, Lands
<1>3. Moves(p)
  BY <1>2, IdleType DEF Moves, Labels
<1> QED BY <1>1, <1>3, MoveKeepsInv DEF Exit

(* A restart by systemd and the passage of time preserve the invariant.    *)
LEMMA EnvironmentKeeps ==
    ASSUME IInv, Environment
    PROVE  IInv'
<1>1. FilesOK' /\ users' = users /\ lock' = lock /\ pc' = pc /\ loc' = loc
  BY Unchanged DEF Environment, ServiceRestart, Expiry, FilesOK, files, sub, bounds
<1>2. HostOK'
  <2>1. CASE ServiceRestart
    <3>1. active' \in BOOLEAN /\ (active' => IsDoc(running'))
      BY <2>1, Zenon DEF ServiceRestart, IsDoc
    <3> QED BY <2>1, <3>1, Unchanged DEF ServiceRestart, HostOK, IsDoc
  <2>2. CASE Expiry
    BY <2>2, Unchanged DEF Expiry, HostOK, host, IsDoc
  <2> QED BY <2>1, <2>2 DEF Environment
<1> QED BY <1>1, <1>2 DEF IInv, TypeOK, ProcsOK

(* The initial states satisfy the invariant.                               *)
LEMMA InitInv == Init => IInv
<1> SUFFICES ASSUME Init PROVE IInv
  OBVIOUS
<1>1. NoUsers \in Store
  BY DEF NoUsers, NoUser, UserRec, Store, Never
<1>2. settings \in Settings /\ settings.ep \in Nat
  BY DEF settings, Settings
<1>3. FilesOK
  BY <1>1, <1>2, BoundsAssumption DEF Init, FilesOK
<1>4. Render(settings, users, 0) \in Document
  BY <1>2, <1>3, RenderType DEF FilesOK
<1>5. HostOK
  <2>1. active \in BOOLEAN /\ (active => IsDoc(running))
    BY Zenon DEF Init, IsDoc
  <2>2. target \in Document \cup {NoDoc} /\ bak = NoDoc /\ stamp = target /\ running = target
        /\ clock = 0 /\ manual = FALSE
    BY <1>4, Zenon DEF Init
  <2>3. clock \in 0 .. 1
    BY <2>2
  <2>4. manual \in BOOLEAN
    BY <2>2, Zenon
  <2> QED BY <2>1, <2>2, <2>3, <2>4, Zenon DEF HostOK
<1>6. ProcsOK
  BY IdleType DEF Init, ProcsOK, Labels
<1> QED BY <1>3, <1>5, <1>6, IdleType DEF Init, IInv, TypeOK

(* Every step preserves the invariant: one case per action.                *)
LEMMA NextKeepsInv == IInv /\ [Next]_vars => IInv'
<1> SUFFICES ASSUME IInv, [Next]_vars PROVE IInv'
  OBVIOUS
<1>1. CASE Environment
  BY <1>1, EnvironmentKeeps
<1>2. ASSUME NEW p \in Procs, NEW cmd \in Commands, Start(p, cmd)
      PROVE  IInv'
  <2>1. started' \in 0 .. MaxCommands
    BY <1>2, Unchanged, BoundsAssumption DEF Start, FilesOK
  <2> QED BY <1>2, <2>1, BeginKeeps DEF Start
<1>3. ASSUME NEW p \in Procs, TimerFires(p)
      PROVE  IInv'
  BY <1>3, BeginKeeps, Unchanged DEF TimerFires, FilesOK
<1>4. ASSUME NEW p \in Procs, Kill(p)
      PROVE  IInv'
  <2>1. kills' \in 0 .. MaxKills
    BY <1>4, Unchanged, BoundsAssumption DEF Kill, FilesOK
  <2> QED BY <1>4, <2>1, ExitKeeps DEF Kill
<1>5. ASSUME NEW p \in Procs, Proceed(p)
      PROVE  IInv'
  <2>1. CASE Finish(p)
    BY <2>1, ExitKeeps, Unchanged DEF Finish, FilesOK, bounds
  <2>2. CASE Pipeline(p) /\ UNCHANGED <<files, sub, lock, bounds, hist>>
    BY <2>2, PipelineStep
  <2> QED BY <1>5, <2>1, <2>2, AcquireKeeps, UserCommandKeeps, SavesKeep, ReconcileKeeps, EgressKeeps,
             RevisionKeeps, StaticRecoveryKeeps, StaticApplyKeeps, StaticEndKeeps,
             UnwrittenKeeps DEF Proceed
<1>6. CASE UNCHANGED vars
  <2>1. FilesOK' /\ HostOK' /\ users' = users /\ lock' = lock /\ pc' = pc /\ loc' = loc
    BY <1>6, Unchanged DEF vars, files
  <2> QED BY <2>1 DEF IInv, TypeOK, ProcsOK
<1> QED BY <1>1, <1>2, <1>3, <1>4, <1>5, <1>6 DEF Next

(* Every reachable state of vpn-admin satisfies the inductive invariant.   *)
THEOREM Invariance == Spec => []IInv
BY InitInv, NextKeepsInv, PTL DEF Spec

(* The files, the service and the locals of every process keep their       *)
(* types, and an active sing-box runs a complete document, for any number  *)
(* of processes, users, commands, faults and kills.                        *)
THEOREM TypeCorrect == Spec => []TypeOK
<1>1. IInv => TypeOK
  BY DEF IInv
<1> QED BY <1>1, Invariance, PTL

(* Only the two steps that save a store change users.json.                 *)
LEMMA StoreChange ==
    ASSUME IInv, [Next]_vars, users' # users
    PROVE  \E p \in Procs : (Publish(p) \/ Save(p)) /\ users' = loc[p].next
<1>1. PICK p \in Procs : (\E cmd \in Commands : Start(p, cmd)) \/ TimerFires(p) \/ Proceed(p) \/ Kill(p)
  BY DEF Next, Environment, vars, files
<1>2. Proceed(p)
  BY Zenon, <1>1 DEF Start, TimerFires, Begin, Kill, files
<1>3. ~(Acquire(p) \/ Finish(p) \/ UserCommand(p) \/ Checked(p) \/ Unsaved(p) \/ Reconcile(p) \/ Reconciled(p)
        \/ Egress(p) \/ EgressApplied(p) \/ EgressRestored(p) \/ SkipStale(p) \/ Snapshot(p)
        \/ SnapshotStamp(p))
  BY Zenon DEF Acquire, Finish, UserCommand, Checked, Unsaved, Reconcile, Reconciled, Egress,
         EgressApplied, EgressRestored, SkipStale, Snapshot, SnapshotStamp, files
<1>4. ~(StaticRecover(p) \/ StaticRecovered(p) \/ StaticUnbackup(p) \/ StaticPlan(p) \/ StaticStage(p)
        \/ StaticApplied(p) \/ StaticStamp(p) \/ StaticCommit(p) \/ StaticRoll(p) \/ StaticRolled(p)
        \/ TomlUnwritten(p))
  BY Zenon DEF StaticRecover, StaticRecovered, StaticUnbackup, StaticPlan, StaticStage, StaticApplied,
         StaticStamp, StaticCommit, StaticRoll, StaticRolled, TomlUnwritten, files
<1>5. Publish(p) \/ Save(p)
  BY <1>2, <1>3, <1>4 DEF Proceed, files
<1> QED BY Zenon, <1>5 DEF Publish, Save

(* acquire_state_lock serialises the commands: users.json, as many         *)
(* processes read, apply, save and die around it, changes only by the      *)
(* effect of one command on the contents that are there.                   *)
THEOREM StoreIsSerial == Spec => ImplementsSerialStore
<1>1. Init => Serial!Init
  BY DEF Init, Serial!Init, NoUsers, NoUser, Serial!NoUsers, Serial!NoUser
<1>2. IInv /\ [Next]_vars => [Serial!Next]_users
  <2> SUFFICES ASSUME IInv, [Next]_vars PROVE [Serial!Next]_users
    OBVIOUS
  <2>1. ASSUME NEW p \in Procs, Publish(p) \/ Save(p), users' # users
        PROVE  Serial!Next
    <3>1. users' = loc[p].next /\ pc[p] \in {"publish", "save"}
      BY Zenon, <2>1 DEF Publish, Save
    <3>2. loc[p].cmd \in Commands /\ loc[p].next \in Effects(loc[p].cmd, users)
      BY <3>1, Locals DEF Pending, Where, PipelineLabels
    <3>3. ASSUME NEW cmd, NEW u, NEW v
          PROVE  Mutates(cmd, u, v) <=> Serial!Mutates(cmd, u, v)
      <4>1. NewUser = Serial!NewUser /\ NoUser = Serial!NoUser
        BY DEF NewUser, Serial!NewUser, NoUser, Serial!NoUser, Never, Serial!Never
      <4>2. /\ cmd_user_create(u, v) <=> Serial!cmd_user_create(u, v)
            /\ cmd_user_remove(u, v) <=> Serial!cmd_user_remove(u, v)
        BY <4>1 DEF cmd_user_create, Serial!cmd_user_create, cmd_user_remove, Serial!cmd_user_remove
      <4>3. /\ \A e : cmd_user_set_enabled(u, v, e) <=> Serial!cmd_user_set_enabled(u, v, e)
            /\ \A t : cmd_user_set_expiry(u, v, t) <=> Serial!cmd_user_set_expiry(u, v, t)
        BY DEF cmd_user_set_enabled, Serial!cmd_user_set_enabled, cmd_user_set_expiry,
               Serial!cmd_user_set_expiry
      <4>4. /\ cmd_user_rotate_token(u, v) <=> Serial!cmd_user_rotate_token(u, v)
            /\ rotate_and_apply(u, v) <=> Serial!rotate_and_apply(u, v)
        BY DEF cmd_user_rotate_token, Serial!cmd_user_rotate_token, rotate_and_apply,
               Serial!rotate_and_apply
      <4>5. \A on, t : reconcile(u, v, on, t) <=> Serial!reconcile(u, v, on, t)
        BY <4>1 DEF reconcile, Serial!reconcile
      <4> QED BY Zenon, <4>2, <4>3, <4>4, <4>5 DEF Mutates, Serial!Mutates
    <3>4. Effects(loc[p].cmd, users) \subseteq Serial!Effects(loc[p].cmd, users)
      BY Zenon, <3>3 DEF Effects, Serial!Effects, Store, Serial!Store, UserRec, Serial!UserRec,
                  Never, Serial!Never
    <3> QED BY <3>1, <3>2, <3>4 DEF Serial!Next
  <2>2. users' = users \/ \E p \in Procs : Publish(p) \/ Save(p)
    BY StoreChange
  <2> QED BY <2>1, <2>2
<1> QED BY <1>1, <1>2, Invariance, PTL DEF Spec, ImplementsSerialStore, Serial!Spec

-----------------------------------------------------------------------------
(* Where a command stands after a call of the pipeline, and with which     *)
(* locals.                                                                 *)
Called(p, l, cfg, s, live, cont) ==
    /\ pc'[p] = "render" /\ Where(pc'[p], loc'[p]) = cont
    /\ loc'[p].acfg = cfg /\ loc'[p].ausers = s /\ loc'[p].live = live /\ loc'[p].cont = cont
    /\ loc'[p].cmd = l.cmd /\ loc'[p].cfg = l.cfg /\ loc'[p].prev = l.prev /\ loc'[p].next = l.next
    /\ loc'[p].orig = l.orig

(* A call of the pipeline, spelled out.                                    *)
LEMMA CallShape ==
    ASSUME IInv, NEW p \in Procs, NEW l \in Local, NEW cfg, NEW s, NEW live \in BOOLEAN,
           NEW cont \in Returns, Call(p, l, cfg, s, live, cont)
    PROVE  Called(p, l, cfg, s, live, cont)
<1>1. pc \in [Procs -> Labels] /\ loc \in [Procs -> Local]
  BY DEF IInv, TypeOK, ProcsOK
<1>2. pc'[p] = "render" /\ loc'[p] = [l EXCEPT !.acfg = cfg, !.ausers = s, !.live = live, !.cont = cont]
  BY <1>1, Zenon DEF Call, Goto
<1>3. PICK m : m = [l EXCEPT !.acfg = cfg, !.ausers = s, !.live = live, !.cont = cont]
  OBVIOUS
<1>4. /\ m.acfg = cfg /\ m.ausers = s /\ m.live = live /\ m.cont = cont
      /\ m.cmd = l.cmd /\ m.cfg = l.cfg /\ m.prev = l.prev /\ m.next = l.next /\ m.orig = l.orig
  BY <1>3 DEF Local
<1> QED BY <1>2, <1>3, <1>4 DEF Called, Where, PipelineLabels

(* A missing backup is told from every settings file.                      *)
LEMMA NoTomlIsNone == NoToml \notin Settings
BY DEF NoToml, Settings

(* The pipeline keeps what its caller remembers.                           *)
LEMMA ReturnShape ==
    ASSUME IInv, NEW p \in Procs, NEW result, Return(p, result)
    PROVE  /\ pc'[p] = loc[p].cont /\ loc'[p].ret = result
           /\ Same(loc'[p], loc[p]) /\ loc'[p].ausers = loc[p].ausers
<1>1. pc \in [Procs -> Labels] /\ loc \in [Procs -> Local]
  BY DEF IInv, TypeOK, ProcsOK
<1>2. PICK m : m = [loc[p] EXCEPT !.ret = result]
  BY Zenon
<1>3. pc'[p] = loc[p].cont /\ loc'[p] = m
  BY <1>1, <1>2, Zenon DEF Return, Goto
<1>4. m.ret = result /\ Same(m, loc[p]) /\ m.ausers = loc[p].ausers
  BY <1>1, <1>2 DEF Local, Same
<1> QED BY <1>3, <1>4

(* A step of the pipeline moves within it, or back to its caller, and the  *)
(* caller finds its locals as they were.                                   *)
LEMMA PipelineShape ==
    ASSUME IInv, NEW p \in Procs, Pipeline(p)
    PROVE  /\ pc[p] \in PipelineLabels /\ Same(loc'[p], loc[p]) /\ loc'[p].ausers = loc[p].ausers
           /\ pc'[p] \in PipelineLabels \cup {loc[p].cont}
           /\ Where(pc'[p], loc'[p]) = Where(pc[p], loc[p])
<1>1. pc \in [Procs -> Labels] /\ loc \in [Procs -> Local] /\ Control(pc[p], loc[p])
  BY DEF IInv, TypeOK, ProcsOK
<1>2. pc[p] \in PipelineLabels
  BY Zenon DEF Pipeline, RenderStep, CheckStep, InstallStep, ReloadStep, HandshakeStep, RestoreStep,
         RestoringStep, RecoverStep, StampStep, PipelineLabels
<1>3. ASSUME NEW result, Return(p, result)
      PROVE  pc'[p] = loc[p].cont /\ Same(loc'[p], loc[p]) /\ loc'[p].ausers = loc[p].ausers
  BY Zenon, <1>3, ReturnShape
<1>4. ASSUME NEW at \in PipelineLabels, Goto(p, at), UNCHANGED loc
      PROVE  pc'[p] \in PipelineLabels /\ Same(loc'[p], loc[p]) /\ loc'[p].ausers = loc[p].ausers
  BY <1>1, <1>4 DEF Goto, Same
<1>5. ASSUME NEW d, NEW svc, loc' = [loc EXCEPT ![p].doc = d, ![p].svc = svc], Goto(p, "check")
      PROVE  pc'[p] \in PipelineLabels /\ Same(loc'[p], loc[p]) /\ loc'[p].ausers = loc[p].ausers
  <2>1. PICK m : m = [loc[p] EXCEPT !.doc = d, !.svc = svc]
    OBVIOUS
  <2>2. loc'[p] = m /\ pc'[p] = "check"
    BY <1>1, <1>5, <2>1 DEF Goto
  <2> QED BY <1>1, <2>1, <2>2 DEF Local, Same, PipelineLabels
<1>6. /\ pc'[p] \in PipelineLabels \cup {loc[p].cont}
      /\ Same(loc'[p], loc[p]) /\ loc'[p].ausers = loc[p].ausers
  <2>1. CASE RenderStep(p)
    BY Zenon, <1>3, <1>5, <2>1 DEF RenderStep
  <2>2. CASE CheckStep(p) \/ InstallStep(p) \/ ReloadStep(p) \/ HandshakeStep(p)
    BY Zenon, <1>3, <1>4, <2>2 DEF CheckStep, InstallStep, ReloadStep, HandshakeStep, PipelineLabels
  <2>3. CASE RestoreStep(p) \/ RestoringStep(p) \/ RecoverStep(p) \/ StampStep(p)
    BY Zenon, <1>3, <1>4, <2>3 DEF RestoreStep, RestoringStep, RecoverStep, StampStep, PipelineLabels
  <2> QED BY Zenon, <2>1, <2>2, <2>3 DEF Pipeline
<1>7. loc[p].cont \in Returns
  BY <1>1, <1>2 DEF Control
<1> QED BY Zenon, <1>2, <1>6, <1>7 DEF Where, Same, PipelineLabels, Returns

(* A step of one process moves no other.                                   *)
LEMMA MovesOne ==
    ASSUME IInv, NEW q \in Procs, NEW p \in Procs, p # q,
           (\E cmd \in Commands : Start(q, cmd)) \/ TimerFires(q) \/ Proceed(q) \/ Kill(q)
    PROVE  pc'[p] = pc[p]
<1>1. pc \in [Procs -> Labels]
  BY DEF IInv, TypeOK, ProcsOK
<1>2. SUFFICES \E at : Goto(q, at)
  BY <1>1, <1>2 DEF Goto
<1>3. CASE (\E cmd \in Commands : Start(q, cmd)) \/ TimerFires(q) \/ Kill(q) \/ Acquire(q) \/ Finish(q)
  BY Zenon, <1>3 DEF Start, TimerFires, Begin, Kill, Acquire, Finish, Exit, Goto
<1>4. CASE UserCommand(q)
  BY Zenon, <1>4 DEF UserCommand, Call
<1>5. CASE Publish(q) \/ Checked(q) \/ Save(q) \/ Unsaved(q) \/ Reconcile(q) \/ Reconciled(q)
  BY <1>5 DEF Publish, Checked, Save, Unsaved, Reconcile, Reconciled, Call
<1>6. CASE Egress(q) \/ EgressApplied(q) \/ EgressRestored(q) \/ SkipStale(q) \/ Snapshot(q) \/ SnapshotStamp(q)
  BY <1>6 DEF Egress, EgressApplied, EgressRestored, SkipStale, Snapshot, SnapshotStamp, RevStamp, Call
<1>7. CASE StaticRecover(q) \/ StaticRecovered(q) \/ StaticUnbackup(q) \/ StaticPlan(q) \/ StaticStage(q)
  BY Zenon, <1>7 DEF StaticRecover, StaticRecovered, StaticUnbackup, StaticPlan, StaticStage, RevStamp, Call
<1>8. CASE \/ StaticApplied(q) \/ StaticStamp(q) \/ StaticCommit(q) \/ StaticRoll(q)
           \/ StaticRolled(q) \/ TomlUnwritten(q)
  BY Zenon, <1>8 DEF StaticApplied, StaticStamp, StaticCommit, StaticRoll, StaticRolled, TomlUnwritten, RevStamp, Call
<1>9. CASE Pipeline(q)
  BY Zenon, <1>9 DEF Pipeline, RenderStep, CheckStep, InstallStep, ReloadStep, HandshakeStep, RestoreStep,
              RestoringStep, RecoverStep, StampStep, Return
<1> QED BY <1>3, <1>4, <1>5, <1>6, <1>7, <1>8, <1>9 DEF Proceed
==============================================================================
