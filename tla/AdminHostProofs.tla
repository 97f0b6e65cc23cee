--------------------------- MODULE AdminHostProofs ---------------------------
(***************************************************************************)
(* Proofs about the host vpn-admin leaves behind: a command that succeeds  *)
(* is served by the running sing-box, one that fails leaves what it served *)
(* and users.json only ever gets what the running sing-box was shown to    *)
(* accept; whatever commands and processes there are and whatever fails,   *)
(* until an applied stamp cannot be written, a process is killed or the    *)
(* operator is told to intervene.                                          *)
(*                                                                         *)
(* The inductive part is HostInv: documents are compared by the key they   *)
(* grant each user, and config.json, its backup, the stamp and the running *)
(* document are related at each control point of the pipeline and of the   *)
(* commands that call it.                                                  *)
(*                                                                         *)
(* Then the revisions: an older one never replaces a newer one, and a      *)
(* static one is planned on what was committed.  The inductive part is     *)
(* RevisionInv, which holds with any faults and kills.                     *)
(***************************************************************************)
EXTENDS AdminCommandsProofs

-----------------------------------------------------------------------------
(* The host.  A document grants each user a key, or none (0); a store owes *)
(* each user a key at a given time.                                        *)
Grants(d, c) == IF IsDoc(d) THEN d.auth[c] ELSE 0
Owed(s, t, c) == IF is_active(s[c], t) THEN s[c].key ELSE 0

Exact(d, s, t) == \A c \in Creds : Grants(d, c) = Owed(s, t, c)
Agree(d, e) == \A c \in Creds : Grants(d, c) = Grants(e, c)

(* d grants what s owes, up to users that have expired since.              *)
Lapsed(u, t) == u.present /\ u.enabled /\ u.until <= t /\ t > 0
Fits(d, s, t) ==
    /\ IsDoc(d) \/ (d = NoDoc /\ s = NoUsers)
    /\ \A c \in Creds : Grants(d, c) = Owed(s, t, c) \/ (Lapsed(s[c], t) /\ Grants(d, c) = s[c].key)

(* A document whose stamp st cannot be mistaken for it: if the stamp has   *)
(* what s owes now, so has the document.                                   *)
Kept(d, st, s, t) == Fits(d, s, t) /\ (Exact(st, s, t) => Agree(d, st))

(* config.json tg, its backup bk, the stamp st and the running document rn *)
(* when no command is at work on them.                                     *)
Settled(tg, bk, st, rn, s, t) ==
    /\ Kept(tg, st, s, t) /\ Kept(rn, st, s, t) /\ Fits(st, s, t)
    /\ tg = st => Agree(rn, st)
    /\ tg = NoDoc => bk = NoDoc

(* What a successful pipeline leaves.                                      *)
Proven(tg, st, rn, s, t) ==
    /\ IsDoc(tg) /\ IsDoc(rn) /\ tg = st /\ Agree(rn, tg)
    /\ \E u \in 0 .. t : Exact(tg, s, u)

(* The document of a pipeline that is under way, and the store the host is *)
(* settled with until then: that of users.json, or the new one when that   *)
(* could not be saved and the previous one is put back.                    *)
Made(l, t) == IsDoc(l.doc) /\ \E u \in 0 .. t : Exact(l.doc, l.ausers, u)
Base(l, s) == IF l.cont = "unsaved" THEN l.next ELSE s

(* Only the timer's command installs a document without restarting.        *)
Ready(l, tg, st, rn, s, t) ==
    /\ Made(l, t)
    /\ l.svc \/ l.cont = "reconciled"
    /\ l.cont = "reconciled" =>
         Kept(l.doc, st, s, t) /\ (l.doc = st => Agree(tg, st) /\ Agree(rn, st))

Inside(at, l) ==
    /\ at \in {"render", "check", "install"} => Settled(target, bak, stamp, running, Base(l, users), clock)
    /\ at \in {"check", "install"} => Ready(l, target, stamp, running, users, clock)
    /\ at = "install" => bak = target
    /\ at \in {"reload", "restore", "handshake", "stamp"} =>
         /\ Made(l, clock) /\ target = l.doc /\ Fits(stamp, Base(l, users), clock)
         /\ bak # NoDoc => Kept(bak, stamp, Base(l, users), clock)
    /\ at \in {"handshake", "stamp"} => running = l.doc /\ active
    /\ at \in {"restoring", "recover"} =>
         bak # NoDoc /\ Kept(bak, stamp, Base(l, users), clock) /\ Fits(stamp, Base(l, users), clock)
    /\ at = "recover" => target = bak
    /\ l.ausers = IF l.cont = "save" THEN l.next ELSE users
    /\ l.live \/ l.cont = "reconciled"
    /\ l.cont = "static_applied" => l.prev = users

Outside(at, l) ==
    /\ l.ret = "ok" => active /\ Proven(target, stamp, running, IF at = "save" THEN l.next ELSE users, clock)
    /\ at \notin {"save", "unsaved"} \/ (at = "save" /\ l.ret = "err") =>
         Settled(target, bak, stamp, running, users, clock)
    /\ at \in {"save", "unsaved", "checked", "egress_applied", "recovered", "static_applied"} =>
         l.ret \in {"ok", "err"}
    /\ at = "publish" => Settled(target, bak, stamp, running, l.next, clock)
    /\ at \in {"load", "publish"} => l.ret = "none"
    /\ at \in {"stage", "static_applied", "roll"} => l.prev = users

Tended(at, l) == IF at \in PipelineLabels THEN Inside(at, l) ELSE Outside(at, l)

(* Until a process is killed or the operator is told to intervene.         *)
HostInv ==
    kills = 0 /\ ~manual =>
        /\ lock = Free => Settled(target, bak, stamp, running, users, clock)
        /\ \A p \in Procs :
             /\ pc[p] = "lock" => loc[p].ret = "none"
             /\ lock = p => Tended(pc[p], loc[p])

(* What a store owed at an earlier time fits it.                           *)
LEMMA ExactFits ==
    ASSUME NEW s \in Store, NEW t \in 0 .. 1, NEW u \in 0 .. t, NEW d, IsDoc(d), Exact(d, s, u)
    PROVE  Fits(d, s, t)
<1>1. ASSUME NEW c \in Creds
      PROVE  Grants(d, c) = Owed(s, t, c) \/ (Lapsed(s[c], t) /\ Grants(d, c) = s[c].key)
  <2>1. Grants(d, c) = Owed(s, u, c) /\ s[c] \in UserRec
    BY DEF Exact, Store
  <2> QED BY <2>1 DEF Owed, Lapsed, is_active, UserRec, Never
<1> QED BY <1>1 DEF Fits

(* Before anyone has expired, to fit a store is to grant what it owes.     *)
LEMMA FitsAgree ==
    ASSUME NEW s, NEW d, NEW e, Fits(d, s, 0), Fits(e, s, 0)
    PROVE  Agree(d, e)
<1>1. \A c \in Creds : ~Lapsed(s[c], 0)
  BY DEF Lapsed
<1> QED BY Zenon, <1>1 DEF Fits, Agree

(* When users expire, what fitted still fits.                              *)
LEMMA FitsTick ==
    ASSUME NEW s \in Store, NEW d, Fits(d, s, 0)
    PROVE  Fits(d, s, 1)
<1>1. ASSUME NEW c \in Creds
      PROVE  Grants(d, c) = Owed(s, 1, c) \/ (Lapsed(s[c], 1) /\ Grants(d, c) = s[c].key)
  <2>1. Grants(d, c) = Owed(s, 0, c) /\ s[c] \in UserRec
    BY DEF Fits, Store, Lapsed
  <2> QED BY <2>1 DEF Owed, Lapsed, is_active, UserRec, Never
<1> QED BY <1>1 DEF Fits

(* Agreement is an equivalence, and carries over what a store owes.        *)
LEMMA AgreeLaws ==
    /\ \A d : Agree(d, d)
    /\ \A d, e : Agree(d, e) => Agree(e, d)
    /\ \A d, e, f : Agree(d, e) /\ Agree(e, f) => Agree(d, f)
    /\ \A d, e, s, t : Exact(d, s, t) /\ Agree(e, d) => Exact(e, s, t)
    /\ \A d, e, s, t : Exact(d, s, t) /\ Exact(e, s, t) => Agree(e, d)
BY DEF Agree, Exact

(* A rendered document grants what its store owes.                         *)
LEMMA RenderExact ==
    ASSUME NEW cfg, NEW s, NEW t
    PROVE  IsDoc(Render(cfg, s, t)) /\ Exact(Render(cfg, s, t), s, t)
BY DEF Render, IsDoc, Exact, Grants, Owed

(* Two documents that fit the store before users expire agree after it if  *)
(* the stamp is exact then.                                                *)
LEMMA KeptTick ==
    ASSUME NEW s \in Store, NEW d, NEW st, Fits(d, s, 0), Fits(st, s, 0)
    PROVE  Kept(d, st, s, 1)
BY FitsTick, FitsAgree DEF Kept

(* A settled host stays so when users expire and when sing-box restarts.   *)
LEMMA SettledTick ==
    ASSUME NEW s \in Store, NEW tg, NEW bk, NEW st, NEW rn, Settled(tg, bk, st, rn, s, 0)
    PROVE  Settled(tg, bk, st, rn, s, 1)
BY KeptTick, FitsTick DEF Settled, Kept

(* ... a restart makes the running document that of config.json.           *)
LEMMA SettledRestart ==
    ASSUME NEW s, NEW t, NEW tg, NEW bk, NEW st, NEW rn, Settled(tg, bk, st, rn, s, t)
    PROVE  Settled(tg, bk, st, tg, s, t)
BY AgreeLaws DEF Settled

(* What the pipeline has proven is settled.                                *)
LEMMA ProvenSettled ==
    ASSUME NEW s \in Store, NEW t \in 0 .. 1, NEW tg, NEW bk, NEW st, NEW rn, Proven(tg, st, rn, s, t)
    PROVE  Settled(tg, bk, st, rn, s, t)
<1>1. PICK u \in 0 .. t : Exact(tg, s, u)
  BY DEF Proven
<1>2. /\ IsDoc(tg) /\ IsDoc(rn) /\ tg = st /\ Agree(rn, tg) /\ Agree(rn, st) /\ Agree(tg, st)
      /\ Exact(rn, s, u) /\ tg # NoDoc
  BY <1>1, AgreeLaws DEF Proven, IsDoc, NoDoc
<1>3. Fits(tg, s, t) /\ Fits(rn, s, t)
  BY <1>1, <1>2, ExactFits
<1> QED BY <1>2, <1>3 DEF Settled, Kept

(* What the pipeline has proven stays proven when users expire.            *)
LEMMA ProvenTick ==
    ASSUME NEW s, NEW tg, NEW st, NEW rn, Proven(tg, st, rn, s, 0)
    PROVE  Proven(tg, st, rn, s, 1)
BY DEF Proven

-----------------------------------------------------------------------------
(* A step of one process leaves the locals of every other.                 *)
LEMMA LocalsStay ==
    ASSUME IInv, NEW p \in Procs, NEW q \in Procs, p # q, Proceed(q)
    PROVE  loc'[p] = loc[p]
<1>1. loc \in [Procs -> Local]
  BY DEF IInv, TypeOK, ProcsOK
<1>2. CASE \/ Acquire(q) \/ Finish(q) \/ Publish(q) \/ Checked(q) \/ Unsaved(q) \/ Reconciled(q)
           \/ EgressRestored(q)
  BY <1>1, <1>2 DEF Acquire, Finish, Exit, Publish, Checked, Unsaved, Reconciled, EgressRestored
<1>3. CASE UserCommand(q)
  BY <1>1, <1>3, Zenon DEF UserCommand, Call
<1>4. CASE Save(q) \/ Reconcile(q) \/ Egress(q) \/ EgressApplied(q) \/ SkipStale(q) \/ Snapshot(q)
  BY <1>1, <1>4 DEF Save, Reconcile, Egress, EgressApplied, SkipStale, Snapshot, Call
<1>5. CASE SnapshotStamp(q) \/ StaticRecover(q) \/ StaticRecovered(q) \/ StaticUnbackup(q) \/ StaticPlan(q)
  BY Zenon, <1>1, <1>5 DEF SnapshotStamp, StaticRecover, StaticRecovered, StaticUnbackup, StaticPlan, Call
<1>6. CASE StaticStage(q) \/ StaticApplied(q) \/ StaticStamp(q) \/ StaticCommit(q)
  BY Zenon, <1>1, <1>6 DEF StaticStage, StaticApplied, StaticStamp, StaticCommit, Call
<1>7. CASE StaticRoll(q) \/ StaticRolled(q) \/ TomlUnwritten(q)
  BY <1>1, <1>7 DEF StaticRoll, StaticRolled, TomlUnwritten, Call
<1>8. CASE Pipeline(q)
  BY Zenon, <1>1, <1>8 DEF Pipeline, RenderStep, CheckStep, InstallStep, ReloadStep, HandshakeStep, RestoreStep,
              RestoringStep, RecoverStep, StampStep, Return
<1> QED BY <1>2, <1>3, <1>4, <1>5, <1>6, <1>7, <1>8 DEF Proceed

(* A step of the process that holds the lock.                              *)
LEMMA HolderStep ==
    ASSUME IInv, HostInv, NEW p \in Procs, Proceed(p), lock' = p,
           kills' = 0 /\ ~manual' =>
               kills = 0 /\ ~manual /\ Tended(pc[p], loc[p])' /\ pc'[p] # "lock"
    PROVE  HostInv'
<1>1. ASSUME NEW q \in Procs, q # p
      PROVE  pc'[q] = pc[q] /\ loc'[q] = loc[q]
  BY <1>1, MovesOne, LocalsStay
<1> QED BY <1>1, BoundsAssumption DEF HostInv

(* The pipeline returns an error with the host as it was, or with the      *)
(* previous document back in place.                                        *)
LEMMA ReturnErr ==
    ASSUME IInv, NEW p \in Procs, pc[p] \in PipelineLabels, Inside(pc[p], loc[p]), Return(p, "err"),
           users' = users,
           loc[p].cont # "unsaved" => Settled(target', bak', stamp', running', users, clock')
    PROVE  Tended(pc[p], loc[p])'
<1>1. /\ pc'[p] = loc[p].cont /\ loc'[p].ret = "err" /\ loc'[p].prev = loc[p].prev
      /\ loc[p].cont \in Returns
  BY ReturnShape, Locals DEF Same, Control
<1>2. loc[p].cont = "static_applied" => loc[p].prev = users
  BY DEF Inside
<1>3. pc'[p] \notin PipelineLabels \cup {"load", "publish", "stage", "roll"}
  BY <1>1 DEF Returns, PipelineLabels
<1>4. Outside(pc[p], loc[p])'
  BY <1>1, <1>2, <1>3 DEF Outside
<1> QED BY <1>3, <1>4 DEF Tended

(* It returns success with the document of its store installed, stamped    *)
(* and running.                                                            *)
LEMMA ReturnOk ==
    ASSUME IInv, NEW p \in Procs, pc[p] \in PipelineLabels, Inside(pc[p], loc[p]), Return(p, "ok"),
           users' = users, active', clock' \in 0 .. 1,
           Proven(target', stamp', running', loc[p].ausers, clock')
    PROVE  Tended(pc[p], loc[p])'
<1>1. /\ pc'[p] = loc[p].cont /\ loc'[p].ret = "ok"
      /\ loc'[p].prev = loc[p].prev /\ loc'[p].next = loc[p].next
      /\ loc[p].cont \in Returns
  BY ReturnShape, Locals DEF Same, Control
<1>2. /\ loc[p].cont = "static_applied" => loc[p].prev = users
      /\ loc[p].ausers = IF loc[p].cont = "save" THEN loc[p].next ELSE users
  BY DEF Inside
<1>3. pc'[p] \notin PipelineLabels \cup {"load", "publish", "stage", "roll"}
  BY <1>1 DEF Returns, PipelineLabels
<1>4. Proven(target', stamp', running', IF pc'[p] = "save" THEN loc'[p].next ELSE users', clock')
  BY <1>1, <1>2
<1>5. pc'[p] # "save" => Settled(target', bak', stamp', running', users', clock')
  BY <1>4, ProvenSettled DEF IInv, TypeOK, FilesOK
<1>6. Outside(pc[p], loc[p])'
  BY <1>1, <1>2, <1>3, <1>4, <1>5 DEF Outside
<1> QED BY <1>3, <1>6 DEF Tended

(* The timer's command may end without a proof that sing-box runs.         *)
LEMMA ReturnNo ==
    ASSUME IInv, NEW p \in Procs, loc[p].cont = "reconciled", Return(p, "no"),
           users' = users, Settled(target', bak', stamp', running', users, clock')
    PROVE  Tended(pc[p], loc[p])'
<1>1. pc'[p] = "reconciled" /\ loc'[p].ret = "no"
  BY ReturnShape
<1>2. Outside(pc[p], loc[p])'
  BY <1>1 DEF Outside
<1> QED BY <1>1, <1>2 DEF Tended, PipelineLabels

(* render, check and install.                                              *)
LEMMA RenderTended ==
    ASSUME IInv, NEW p \in Procs, RenderStep(p), Inside(pc[p], loc[p]), users' = users
    PROVE  Tended(pc[p], loc[p])'
<1> DEFINE d == Render(loc[p].acfg, loc[p].ausers, clock)
<1>1. /\ pc[p] = "render" /\ pc[p] \in PipelineLabels
      /\ UNCHANGED <<target, bak, stamp, running, active, clock>>
      /\ clock \in 0 .. 1 /\ loc[p] \in Local /\ (active => IsDoc(running))
  BY Locals DEF RenderStep, host, PipelineLabels, IInv, TypeOK, HostOK
<1>2. /\ Settled(target, bak, stamp, running, Base(loc[p], users), clock)
      /\ loc[p].live \/ loc[p].cont = "reconciled"
      /\ loc[p].ausers = IF loc[p].cont = "save" THEN loc[p].next ELSE users
      /\ loc[p].cont = "static_applied" => loc[p].prev = users
  BY <1>1 DEF Inside
<1>3. IsDoc(d) /\ Exact(d, loc[p].ausers, clock)
  BY RenderExact
<1>4. CASE Return(p, "err")
  BY <1>1, <1>2, <1>4, ReturnErr DEF Base
<1>5. CASE ~loc[p].live /\ Return(p, "no")
  BY <1>1, <1>2, <1>5, ReturnNo DEF Base
<1>6. CASE target = d /\ stamp = d /\ active /\ Return(p, "ok")
  <2>1. Agree(running, target)
    BY <1>2, <1>6 DEF Settled
  <2>2. Proven(target, stamp, running, loc[p].ausers, clock)
    BY <1>1, <1>3, <1>6, <2>1 DEF Proven
  <2> QED BY <1>1, <1>6, <2>2, ReturnOk
<1>7. ASSUME NEW svc \in BOOLEAN, ~(loc[p].live /\ ~svc),
             loc' = [loc EXCEPT ![p].doc = d, ![p].svc = svc], Goto(p, "check")
      PROVE  Tended(pc[p], loc[p])'
  <2>1. PICK e : e = d
    OBVIOUS
  <2>2. PICK m : m = [loc[p] EXCEPT !.doc = e, !.svc = svc]
    OBVIOUS
  <2>3. loc'[p] = m /\ pc'[p] = "check"
    BY <1>7, <2>1, <2>2 DEF Goto, IInv, TypeOK, ProcsOK
  <2>4. /\ m.doc = e /\ m.svc = svc /\ m.live = loc[p].live /\ m.cont = loc[p].cont
        /\ m.ausers = loc[p].ausers /\ m.next = loc[p].next /\ m.prev = loc[p].prev
    BY <1>1, <2>2 DEF Local
  <2>5. Base(loc'[p], users') = Base(loc[p], users)
    BY <2>3, <2>4 DEF Base
  <2>6. Ready(m, target, stamp, running, users, clock)
    <3>1. Made(m, clock)
      BY <1>1, <1>3, <2>1, <2>4 DEF Made
    <3>2. m.svc \/ m.cont = "reconciled"
      BY <1>2, <1>7, <2>4
    <3>3. ASSUME m.cont = "reconciled"
          PROVE  Kept(e, stamp, users, clock) /\ (e = stamp => Agree(target, stamp) /\ Agree(running, stamp))
      <4>1. /\ Exact(e, users, clock) /\ IsDoc(e) /\ users \in Store
            /\ Settled(target, bak, stamp, running, users, clock)
        BY <1>2, <1>3, <2>1, <2>4, <3>3 DEF Base, IInv, TypeOK, FilesOK
      <4>2. Fits(e, users, clock)
        BY SMTT(30), <1>1, <4>1, ExactFits
      <4> QED BY <4>1, <4>2, AgreeLaws DEF Kept, Settled
    <3> QED BY <2>4, <3>1, <3>2, <3>3 DEF Ready
  <2>7. Inside(pc[p], loc[p])'
    BY Zenon, <1>1, <1>2, <2>3, <2>4, <2>5, <2>6 DEF Inside
  <2> QED BY <2>3, <2>7 DEF Tended, PipelineLabels
<1> QED BY Zenon, <1>4, <1>5, <1>6, <1>7 DEF RenderStep

(* The new document is checked, the old one kept, and the file replaced.   *)
LEMMA InstallTended ==
    ASSUME IInv, NEW p \in Procs, CheckStep(p) \/ InstallStep(p), Inside(pc[p], loc[p]), users' = users
    PROVE  Tended(pc[p], loc[p])'
<1>1. /\ pc[p] \in {"check", "install"} /\ pc[p] \in PipelineLabels
      /\ UNCHANGED <<stamp, running, active, clock>>
      /\ clock \in 0 .. 1 /\ loc[p] \in Local
  BY Locals DEF CheckStep, InstallStep, PipelineLabels, IInv, TypeOK, HostOK
<1>2. /\ Settled(target, bak, stamp, running, Base(loc[p], users), clock)
      /\ Ready(loc[p], target, stamp, running, users, clock)
      /\ loc[p].live \/ loc[p].cont = "reconciled"
      /\ loc[p].ausers = IF loc[p].cont = "save" THEN loc[p].next ELSE users
      /\ loc[p].cont = "static_applied" => loc[p].prev = users
  BY <1>1 DEF Inside
<1>3. CASE CheckStep(p) /\ Return(p, "err") /\ bak' = bak
  <2>1. UNCHANGED <<target, bak>>
    BY Zenon, <1>3 DEF CheckStep
  <2> QED BY Zenon, <1>1, <1>2, <1>3, <2>1, ReturnErr DEF Base
<1>4. CASE CheckStep(p) /\ Goto(p, "install") /\ loc' = loc /\ bak' = IF target = NoDoc THEN bak ELSE target
  <2>1. target' = target /\ bak' = target /\ pc'[p] = "install" /\ loc'[p] = loc[p]
    BY <1>2, <1>4 DEF CheckStep, Settled, Goto, IInv, TypeOK, ProcsOK
  <2>2. Settled(target', bak', stamp', running', Base(loc[p], users), clock')
    BY <1>1, <1>2, <2>1 DEF Settled
  <2>3. Inside(pc[p], loc[p])'
    BY <1>1, <1>2, <2>1, <2>2 DEF Inside
  <2> QED BY <2>1, <2>3 DEF Tended, PipelineLabels
<1>5. CASE InstallStep(p) /\ loc[p].svc
  <2>1. /\ target' = loc[p].doc /\ bak' = bak /\ bak = target
        /\ pc'[p] = "reload" /\ loc'[p] = loc[p]
    BY Zenon, <1>1, <1>5 DEF InstallStep, Goto, IInv, TypeOK, ProcsOK, Inside
  <2>2. /\ Made(loc[p], clock) /\ Fits(stamp, Base(loc[p], users), clock)
        /\ Kept(bak, stamp, Base(loc[p], users), clock)
    BY <1>2, <2>1 DEF Ready, Settled
  <2>3. Inside(pc[p], loc[p])'
    BY <1>1, <1>2, <2>1, <2>2 DEF Inside
  <2> QED BY <2>1, <2>3 DEF Tended, PipelineLabels
<1>6. CASE InstallStep(p) /\ ~loc[p].svc
  <2>1. target' = loc[p].doc /\ bak' = bak /\ Return(p, "no") /\ loc[p].cont = "reconciled"
    BY <1>2, <1>6 DEF InstallStep, Ready
  <2>2. /\ Kept(target', stamp, users, clock) /\ (target' = stamp => Agree(running, stamp))
        /\ IsDoc(target')
    BY <1>2, <2>1 DEF Ready, Made
  <2>3. target' # NoDoc
    BY SMTT(30), <2>2 DEF IsDoc, NoDoc
  <2>4. Settled(target', bak', stamp', running', users, clock')
    BY <1>1, <1>2, <2>1, <2>2, <2>3 DEF Settled, Base
  <2> QED BY <2>1, <2>4, ReturnNo
<1> QED BY <1>3, <1>4, <1>5, <1>6 DEF CheckStep

(* reload, handshake and stamp.                                            *)
LEMMA ReloadTended ==
    ASSUME IInv, NEW p \in Procs, ReloadStep(p) \/ HandshakeStep(p), Inside(pc[p], loc[p]), users' = users
    PROVE  Tended(pc[p], loc[p])'
<1>1. /\ pc[p] \in {"reload", "handshake"} /\ loc'[p] = loc[p]
      /\ UNCHANGED <<target, bak, stamp, clock>>
  BY Zenon DEF ReloadStep, HandshakeStep, host
<1>2. /\ Made(loc[p], clock) /\ target = loc[p].doc /\ Fits(stamp, Base(loc[p], users), clock)
      /\ bak # NoDoc => Kept(bak, stamp, Base(loc[p], users), clock)
      /\ pc[p] = "handshake" => running = loc[p].doc /\ active
      /\ loc[p].live \/ loc[p].cont = "reconciled"
      /\ loc[p].ausers = IF loc[p].cont = "save" THEN loc[p].next ELSE users
      /\ loc[p].cont = "static_applied" => loc[p].prev = users
  BY <1>1 DEF Inside
<1>3. \/ pc'[p] = "restore"
      \/ pc'[p] \in {"handshake", "stamp"} /\ running' = loc[p].doc /\ active'
  BY Zenon, <1>2 DEF ReloadStep, HandshakeStep, reload_and_verify, Goto, IInv, TypeOK, ProcsOK, host
<1>4. Inside(pc[p], loc[p])'
  BY <1>1, <1>2, <1>3 DEF Inside
<1> QED BY <1>3, <1>4 DEF Tended, PipelineLabels

(* commit_applied_config_stamp.                                            *)
LEMMA StampTended ==
    ASSUME IInv, "stamp" \notin Faults, NEW p \in Procs, StampStep(p), Inside(pc[p], loc[p]), users' = users
    PROVE  Tended(pc[p], loc[p])'
<1>1. /\ pc[p] = "stamp" /\ pc[p] \in PipelineLabels /\ stamp' = loc[p].doc /\ Return(p, "ok")
      /\ UNCHANGED <<target, bak, running, active, clock>> /\ clock \in 0 .. 1
  BY DEF StampStep, PipelineLabels, IInv, TypeOK, HostOK
<1>2. Made(loc[p], clock) /\ target = loc[p].doc /\ running = loc[p].doc /\ active
  BY <1>1 DEF Inside
<1>3. Proven(target', stamp', running', loc[p].ausers, clock')
  BY <1>1, <1>2, AgreeLaws DEF Made, Proven
<1> QED BY <1>1, <1>2, <1>3, ReturnOk

(* The way back, which ends with the previous document or with a call to   *)
(* the operator.                                                           *)
LEMMA RestoreTended ==
    ASSUME IInv, NEW p \in Procs, RestoreStep(p) \/ RestoringStep(p) \/ RecoverStep(p),
           Inside(pc[p], loc[p]), users' = users, ~manual'
    PROVE  Tended(pc[p], loc[p])'
<1>1. /\ pc[p] \in {"restore", "restoring", "recover"} /\ pc[p] \in PipelineLabels
      /\ UNCHANGED <<bak, stamp, clock>>
  BY Zenon DEF RestoreStep, RestoringStep, RecoverStep, PipelineLabels
<1>2. /\ Fits(stamp, Base(loc[p], users), clock)
      /\ bak # NoDoc => Kept(bak, stamp, Base(loc[p], users), clock)
      /\ loc[p].live \/ loc[p].cont = "reconciled"
      /\ loc[p].ausers = IF loc[p].cont = "save" THEN loc[p].next ELSE users
      /\ loc[p].cont = "static_applied" => loc[p].prev = users
  BY Zenon, <1>1 DEF Inside
<1>3. CASE RestoreStep(p) \/ RestoringStep(p)
  <2>1. /\ loc'[p] = loc[p] /\ pc'[p] \in {"restoring", "recover"} /\ bak # NoDoc
        /\ pc'[p] = "recover" => target' = bak
    BY Zenon, <1>3 DEF RestoreStep, RestoringStep, Goto, IInv, TypeOK, ProcsOK, Inside
  <2>2. Inside(pc[p], loc[p])'
    BY Zenon, <1>1, <1>2, <2>1 DEF Inside
  <2> QED BY <2>1, <2>2 DEF Tended, PipelineLabels
<1>4. CASE RecoverStep(p)
  <2>1. /\ target' = bak /\ running' = bak /\ IsDoc(bak) /\ Return(p, "err") /\ bak # NoDoc
    BY Zenon, <1>4 DEF RecoverStep, reload_and_verify, Inside
  <2>2. Settled(target', bak', stamp', running', Base(loc[p], users), clock')
    BY Zenon, <1>1, <1>2, <2>1, AgreeLaws DEF Settled
  <2> QED BY Zenon, <1>1, <2>1, <2>2, ReturnErr DEF Base
<1> QED BY <1>3, <1>4

(* A step of the pipeline, other than one after which the operator is told *)
(* to intervene.                                                           *)
LEMMA PipelineHost ==
    ASSUME IInv, HostInv, "stamp" \notin Faults, NEW p \in Procs, Pipeline(p),
           UNCHANGED <<files, sub, lock, bounds, hist>>
    PROVE  HostInv'
<1>1. /\ pc[p] \in PipelineLabels /\ lock = p /\ lock' = p /\ users' = users /\ kills' = kills
      /\ pc'[p] # "lock"
  <2>1. loc[p].cont \in Returns /\ pc[p] \in PipelineLabels /\ lock = p
    BY PipelineShape, Locals DEF Control, PipelineLabels
  <2> QED BY Zenon, <2>1, PipelineShape DEF files, bounds, PipelineLabels, Returns
<1>2. manual => manual'
  BY Zenon DEF Pipeline, RenderStep, CheckStep, InstallStep, ReloadStep, HandshakeStep, RestoreStep,
         RestoringStep, RecoverStep, StampStep, IInv, TypeOK, HostOK
<1>3. SUFFICES ASSUME kills' = 0, ~manual' PROVE Tended(pc[p], loc[p])'
  <2>1. Proceed(p)
    BY DEF Proceed
  <2> QED BY <1>1, <1>2, <1>3, <2>1, HolderStep
<1>4. Inside(pc[p], loc[p])
  BY <1>1, <1>2, <1>3 DEF HostInv, Tended
<1> QED BY Zenon, <1>1, <1>3, <1>4, RenderTended, InstallTended, ReloadTended, RestoreTended, StampTended DEF Pipeline

-----------------------------------------------------------------------------
(* A step after which the process that made it is still tended to.         *)
Tends(p) == Tended(pc[p], loc[p])' /\ pc'[p] # "lock"

(* The commands around the pipeline.  A call finds the host settled.       *)
LEMMA CallTended ==
    ASSUME NEW p \in Procs, NEW l \in Local, NEW cfg, NEW s, NEW live \in BOOLEAN, NEW cont \in Returns,
           Called(p, l, cfg, s, live, cont), UNCHANGED <<host, clock, users>>,
           Settled(target, bak, stamp, running, IF cont = "unsaved" THEN l.next ELSE users, clock),
           s = IF cont = "save" THEN l.next ELSE users,
           live \/ cont = "reconciled",
           cont = "static_applied" => l.prev = users
    PROVE  Tends(p)
<1>1. /\ pc'[p] = "render" /\ loc'[p].cont = cont /\ loc'[p].ausers = s /\ loc'[p].live = live
      /\ loc'[p].next = l.next /\ loc'[p].prev = l.prev
  BY DEF Called
<1>2. UNCHANGED <<target, bak, stamp, running, active, clock, users>>
  BY DEF host
<1>3. Settled(target', bak', stamp', running', Base(loc'[p], users'), clock')
  BY <1>1, <1>2 DEF Base
<1>4. Inside(pc[p], loc[p])'
  BY Zenon, <1>1, <1>2, <1>3 DEF Inside
<1> QED BY <1>1, <1>4 DEF Tends, Tended, PipelineLabels

(* A command that goes on without a call leaves the host settled.          *)
Plain == {"ok", "err", "unbackup", "plan", "static_stamp", "commit", "roll"}

(* The plain continuations of a command: no call, no write to the host.    *)
LEMMA GotoTended ==
    ASSUME IInv, NEW p \in Procs, NEW at \in Plain, Goto(p, at), loc'[p].ret = loc[p].ret,
           loc'[p].prev = loc[p].prev, UNCHANGED <<host, clock, users>>,
           Outside(pc[p], loc[p]), pc[p] \notin {"save", "unsaved"}, at = "roll" => loc[p].prev = users
    PROVE  Tends(p)
<1>1. pc'[p] = at /\ at \notin PipelineLabels
  BY DEF Goto, IInv, TypeOK, ProcsOK, Plain, PipelineLabels
<1>2. UNCHANGED <<target, bak, stamp, running, active, clock, users>>
  BY DEF host
<1>3. /\ loc[p].ret = "ok" => active /\ Proven(target, stamp, running, users, clock)
      /\ Settled(target, bak, stamp, running, users, clock)
  BY DEF Outside
<1>4. Outside(pc[p], loc[p])'
  BY <1>1, <1>2, <1>3 DEF Outside, Plain
<1> QED BY <1>1, <1>4 DEF Tends, Tended, Plain

(* A step of a command outside the pipeline.                               *)
LEMMA OutsideStep ==
    ASSUME IInv, HostInv, NEW p \in Procs, Proceed(p), pc[p] \notin PipelineLabels \cup {"idle", "lock"},
           UNCHANGED <<lock, kills>>, manual => manual',
           ASSUME kills = 0, ~manual', Outside(pc[p], loc[p])
           PROVE  Tends(p)
    PROVE  HostInv'
<1>1. lock = p
  BY Locals
<1>2. kills' = 0 /\ ~manual' => Outside(pc[p], loc[p])
  BY <1>1 DEF HostInv, Tended
<1> QED BY <1>1, <1>2, HolderStep DEF Tends

(* A change of a record that concerns neither its key nor whether it is    *)
(* active leaves the host settled.                                         *)
LEMMA UnservedSettled ==
    ASSUME NEW s \in Store, NEW t \in 0 .. 1, NEW c \in Creds, NEW u \in UserRec,
           s[c].present, u.present, u.key = s[c].key, u.enabled <=> s[c].enabled,
           is_active(u, t) <=> is_active(s[c], t),
           NEW tg, NEW bk, NEW st, NEW rn, Settled(tg, bk, st, rn, s, t)
    PROVE  Settled(tg, bk, st, rn, [s EXCEPT ![c] = u], t)
<1> DEFINE n == [s EXCEPT ![c] = u]
<1>1. n[c] = u /\ \A x \in Creds : x # c => n[x] = s[x]
  BY DEF Store
<1>2. \A x \in Creds : Owed(n, t, x) = Owed(s, t, x)
  BY <1>1 DEF Owed
<1>3. Lapsed(s[c], t) => Lapsed(u, t)
  <2>1. s[c] \in UserRec
    BY DEF Store
  <2> QED BY <2>1 DEF Lapsed, is_active, UserRec, Never
<1>4. s # NoUsers
  BY DEF NoUsers, NoUser
<1> HIDE DEF n
<1>5. \A d : Fits(d, s, t) => Fits(d, n, t)
  BY <1>1, <1>2, <1>3, <1>4 DEF Fits
<1>6. \A d : Exact(d, n, t) <=> Exact(d, s, t)
  BY <1>2 DEF Exact
<1>7. \A d : Kept(d, st, s, t) => Kept(d, st, n, t)
  BY <1>5, <1>6 DEF Kept
<1>8. Settled(tg, bk, st, rn, n, t)
  BY <1>5, <1>7 DEF Settled
<1> QED BY <1>8 DEF n

(* rotate-token, and set-expiry that keeps a user active or inactive.      *)
LEMMA UnservedChange ==
    ASSUME NEW cmd, NEW t \in 0 .. 1, NEW v \in UserRec, NEW u \in UserRec, Mutates(cmd, v, u),
           cmd.op = "token" \/ (cmd.op = "expiry" /\ is_active(v, t) = is_active(u, t))
    PROVE  /\ v.present /\ u.present /\ u.key = v.key /\ (u.enabled <=> v.enabled)
           /\ is_active(u, t) <=> is_active(v, t)
<1>1. CASE cmd.op = "token"
  <2>1. v.present /\ u = [v EXCEPT !.token = 1 - @]
    BY <1>1 DEF Mutates, cmd_user_rotate_token
  <2>2. u.present = v.present /\ u.key = v.key /\ u.enabled = v.enabled /\ u.until = v.until
    BY Zenon, <2>1 DEF UserRec
  <2> QED BY <2>1, <2>2 DEF is_active
<1>2. CASE cmd.op = "expiry" /\ is_active(v, t) = is_active(u, t)
  <2>1. v.present /\ u = [v EXCEPT !.until = cmd.until]
    BY <1>2 DEF Mutates, cmd_user_set_expiry
  <2>2. u.present = v.present /\ u.key = v.key /\ u.enabled = v.enabled
    BY Zenon, <2>1 DEF UserRec
  <2> QED BY <1>2, <2>1, <2>2 DEF is_active
<1> QED BY <1>1, <1>2

(* A user command on a settled host.                                       *)
LEMMA UserCommandHost ==
    ASSUME IInv, HostInv, NEW p \in Procs, UserCommand(p)
    PROVE  HostInv'
<1>1. /\ pc[p] = "load" /\ lock' = lock /\ UNCHANGED <<host, clock, users, kills, manual>>
      /\ UNCHANGED <<target, bak, stamp, running, active>>
      /\ loc[p] \in Local /\ users \in Store /\ clock \in 0 .. 1
  BY Zenon, Locals, Unchanged DEF UserCommand, files, bounds, host, FilesOK, HostOK
<1>2. SUFFICES ASSUME kills = 0, ~manual', Outside(pc[p], loc[p]) PROVE Tends(p)
  <2>1. Proceed(p)
    BY Zenon DEF Proceed
  <2> QED BY Zenon, <1>1, <1>2, <2>1, OutsideStep DEF PipelineLabels
<1>3. Settled(target, bak, stamp, running, users, clock) /\ loc[p].ret = "none"
  BY <1>1, <1>2 DEF Outside
<1>4. PICK cmd : cmd = loc[p].cmd
  OBVIOUS
<1>5. cmd.c \in Creds /\ cmd.kind = "user"
  BY Zenon, <1>1, <1>4, CommandTypes DEF UserCommand
<1>6. CASE Goto(p, "err") /\ UNCHANGED loc
  BY <1>1, <1>2, <1>6, GotoTended DEF Plain
<1>7. ASSUME NEW u \in UserRec, Mutates(cmd, users[cmd.c], u),
             NEW next, next = [users EXCEPT ![cmd.c] = u],
             NEW keep, keep = [loc[p] EXCEPT !.prev = users, !.next = next],
             \/ /\ \/ cmd.op = "token"
                   \/ cmd.op = "expiry" /\ is_active(users[cmd.c], clock) = is_active(u, clock)
                /\ loc' = [loc EXCEPT ![p] = keep] /\ Goto(p, "publish")
             \/ u = users[cmd.c] /\ Call(p, keep, loc[p].cfg, next, TRUE, "checked")
             \/ Call(p, keep, loc[p].cfg, next, TRUE, "save")
      PROVE  Tends(p)
  <2>1. keep \in Local /\ keep.next = next /\ keep.prev = users /\ keep.ret = "none" /\ users[cmd.c] \in UserRec
    BY Zenon, <1>1, <1>3, <1>5, <1>7, UserEffect DEF Local, Store
  <2>2. CASE /\ \/ cmd.op = "token"
                \/ cmd.op = "expiry" /\ is_active(users[cmd.c], clock) = is_active(u, clock)
             /\ loc' = [loc EXCEPT ![p] = keep] /\ Goto(p, "publish")
    <3>1. Settled(target, bak, stamp, running, next, clock)
      <4>1. PICK v \in UserRec : v = users[cmd.c]
        BY <2>1
      <4>2. /\ v.present /\ u.present /\ u.key = v.key /\ (u.enabled <=> v.enabled)
            /\ is_active(u, clock) <=> is_active(v, clock)
        BY <1>1, <1>7, <2>2, <4>1, UnservedChange
      <4> QED BY Zenon, <1>1, <1>3, <1>5, <1>7, <4>1, <4>2, UnservedSettled
    <3>2. pc'[p] = "publish" /\ loc'[p] = keep
      BY <2>2 DEF Goto, IInv, TypeOK, ProcsOK
    <3>3. Outside(pc[p], loc[p])'
      BY <1>1, <1>3, <2>1, <3>1, <3>2 DEF Outside
    <3> QED BY <3>2, <3>3 DEF Tends, Tended, PipelineLabels
  <2>3. CASE u = users[cmd.c] /\ Call(p, keep, loc[p].cfg, next, TRUE, "checked")
    <3>1. next = users
      BY <1>1, <1>5, <1>7, <2>3 DEF Store
    <3>2. Called(p, keep, loc[p].cfg, next, TRUE, "checked")
      BY Zenon, <2>1, <2>3, CallShape DEF Returns
    <3> QED BY Zenon, <1>1, <1>3, <2>1, <3>1, <3>2, CallTended DEF Returns
  <2>4. CASE Call(p, keep, loc[p].cfg, next, TRUE, "save")
    <3>1. Called(p, keep, loc[p].cfg, next, TRUE, "save")
      BY Zenon, <2>1, <2>4, CallShape DEF Returns
    <3> QED BY Zenon, <1>1, <1>3, <2>1, <3>1, CallTended DEF Returns
  <2> QED BY Zenon, <1>7, <2>2, <2>3, <2>4
<1> QED BY Zenon, <1>4, <1>6, <1>7 DEF UserCommand

(* The end of apply_users_and_save.                                        *)
LEMMA SavesHost ==
    ASSUME IInv, HostInv, NEW p \in Procs, Publish(p) \/ Checked(p) \/ Save(p) \/ Unsaved(p)
    PROVE  HostInv'
<1>1. /\ pc[p] \in {"publish", "checked", "save", "unsaved"}
      /\ UNCHANGED <<lock, host, clock, kills, target, bak, stamp, running, active>>
      /\ loc[p] \in Local /\ users \in Store /\ clock \in 0 .. 1 /\ loc[p].next \in Store
  BY Zenon, Locals, Unchanged DEF Publish, Checked, Save, Unsaved, bounds, host, FilesOK, HostOK, Local
<1>7. manual => manual'
  BY Zenon DEF Publish, Checked, Save, Unsaved
<1>2. SUFFICES ASSUME kills = 0, ~manual', Outside(pc[p], loc[p]) PROVE Tends(p)
  <2>1. Proceed(p)
    BY Zenon DEF Proceed
  <2> QED BY Zenon, <1>1, <1>2, <1>7, <2>1, OutsideStep DEF PipelineLabels
<1>3. CASE Checked(p) \/ (Publish(p) /\ UNCHANGED users)
  <2>1. /\ pc[p] \in {"checked", "publish"} /\ UNCHANGED <<users, loc>>
        /\ Goto(p, "ok") \/ Goto(p, "err")
    BY Zenon, <1>3 DEF Checked, Publish, files
  <2> QED BY Zenon, <1>1, <1>2, <2>1, GotoTended DEF Plain
<1>4. CASE Publish(p) /\ users' = loc[p].next /\ Goto(p, "ok")
  <2>1. /\ pc'[p] = "ok" /\ loc'[p].ret = "none"
        /\ Settled(target, bak, stamp, running, loc[p].next, clock)
    BY Zenon, <1>2, <1>4 DEF Publish, Goto, IInv, TypeOK, ProcsOK, Outside
  <2>2. Outside(pc[p], loc[p])'
    BY Zenon, <1>1, <1>4, <2>1 DEF Outside
  <2> QED BY <2>1, <2>2 DEF Tends, Tended, PipelineLabels
<1>5. CASE Unsaved(p)
  <2>1. /\ pc[p] = "unsaved" /\ pc'[p] = "err" /\ UNCHANGED <<users, loc>> /\ loc[p].ret = "ok"
        /\ Proven(target, stamp, running, users, clock) /\ active
    BY Zenon, <1>2, <1>5 DEF Unsaved, files, Goto, IInv, TypeOK, ProcsOK, Outside
  <2>2. Settled(target, bak, stamp, running, users, clock)
    BY Zenon, <1>1, <2>1, ProvenSettled
  <2>3. Outside(pc[p], loc[p])'
    BY <1>1, <2>1, <2>2 DEF Outside
  <2> QED BY <2>1, <2>3 DEF Tends, Tended, PipelineLabels
<1>6. CASE Save(p)
  <2>1. pc[p] = "save" /\ loc[p].ret \in {"ok", "err"} /\ loc[p].prev = users
    BY <1>2, <1>6, Locals DEF Save, Outside, Pending, Where, PipelineLabels
  <2>2. CASE loc[p].ret = "err"
    <3>1. /\ pc'[p] = "err" /\ UNCHANGED <<users, loc>>
          /\ Settled(target, bak, stamp, running, users, clock)
      BY Zenon, <1>2, <1>6, <2>1, <2>2 DEF Save, Goto, IInv, TypeOK, ProcsOK, Outside
    <3>2. Outside(pc[p], loc[p])'
      BY Zenon, <1>1, <2>2, <3>1 DEF Outside
    <3> QED BY Zenon, <3>1, <3>2 DEF Tends, Tended, PipelineLabels
  <2>3. CASE loc[p].ret = "ok"
    <3>1. active /\ Proven(target, stamp, running, loc[p].next, clock)
      BY Zenon, <1>2, <2>1, <2>3 DEF Outside
    <3>2. Settled(target, bak, stamp, running, loc[p].next, clock)
      BY Zenon, <1>1, <3>1, ProvenSettled
    <3>3. CASE /\ users' = loc[p].next /\ UNCHANGED loc
               /\ Goto(p, IF loc[p].cmd.kind = "snapshot" THEN "revstamp" ELSE "ok")
      <4>1. pc'[p] \in {"revstamp", "ok"} /\ loc'[p] = loc[p]
        BY <3>3 DEF Goto, IInv, TypeOK, ProcsOK
      <4>2. Outside(pc[p], loc[p])'
        BY <1>1, <2>3, <3>1, <3>2, <3>3, <4>1 DEF Outside
      <4> QED BY <4>1, <4>2 DEF Tends, Tended, PipelineLabels
    <3>4. CASE Call(p, loc[p], loc[p].cfg, loc[p].prev, TRUE, "unsaved") /\ UNCHANGED users
      <4>1. Called(p, loc[p], loc[p].cfg, loc[p].prev, TRUE, "unsaved")
        BY Zenon, <1>1, <3>4, CallShape DEF Returns
      <4> QED BY Zenon, <1>1, <2>1, <3>2, <3>4, <4>1, CallTended DEF Returns
    <3> QED BY Zenon, <1>6, <2>3, <3>3, <3>4 DEF Save
  <2> QED BY <2>1, <2>2, <2>3
<1> QED BY <1>3, <1>4, <1>5, <1>6 DEF Publish

(* The timer's command, and egress set.                                    *)
LEMMA ReconcileHost ==
    ASSUME IInv, HostInv, NEW p \in Procs,
           Reconcile(p) \/ Reconciled(p) \/ Egress(p) \/ EgressApplied(p) \/ EgressRestored(p)
    PROVE  HostInv'
<1>1. /\ pc[p] \in {"load", "reconciled", "egress_applied", "egress_restored"}
      /\ UNCHANGED <<lock, host, clock, kills, users>>
      /\ loc[p] \in Local
  BY Zenon, Locals, Unchanged
     DEF Reconcile, Reconciled, Egress, EgressApplied, EgressRestored, bounds, files
<1>2. manual => manual'
  BY Zenon DEF Reconcile, Reconciled, Egress, EgressApplied, EgressRestored
<1>3. SUFFICES ASSUME kills = 0, ~manual', Outside(pc[p], loc[p]) PROVE Tends(p)
  <2>1. Proceed(p)
    BY Zenon DEF Proceed
  <2> QED BY Zenon, <1>1, <1>2, <1>3, <2>1, OutsideStep DEF PipelineLabels
<1>4. Settled(target, bak, stamp, running, users, clock)
  BY Zenon, <1>1, <1>3 DEF Outside
<1>5. CASE Reconciled(p) \/ EgressRestored(p)
  <2>1. (Goto(p, "ok") \/ Goto(p, "err")) /\ UNCHANGED loc
    BY Zenon, <1>5 DEF Reconciled, EgressRestored
  <2> QED BY Zenon, <1>1, <1>3, <2>1, GotoTended DEF Plain
<1>6. CASE Reconcile(p)
  <2>1. Called(p, loc[p], loc[p].cfg, users, FALSE, "reconciled")
    BY Zenon, <1>1, <1>6, CallShape DEF Reconcile, Returns
  <2> QED BY Zenon, <1>1, <1>4, <2>1, CallTended DEF Returns
<1>7. CASE Egress(p)
  <2>1. PICK l : l = [loc[p] EXCEPT !.orig = toml]
    BY Zenon
  <2>2. PICK cfg : Call(p, l, cfg, users, TRUE, "egress_applied")
    BY Zenon, <1>7, <2>1 DEF Egress
  <2>3. l \in Local
    BY <1>1, <2>1, Unchanged DEF Local, FilesOK
  <2>4. Called(p, l, cfg, users, TRUE, "egress_applied")
    BY Zenon, <2>2, <2>3, CallShape DEF Returns
  <2> QED BY Zenon, <1>1, <1>4, <2>3, <2>4, CallTended DEF Returns
<1>8. CASE EgressApplied(p)
  <2>1. CASE Goto(p, "ok") /\ UNCHANGED loc
    BY Zenon, <1>1, <1>3, <1>8, <2>1, GotoTended DEF Plain, EgressApplied
  <2>2. CASE Call(p, loc[p], loc[p].cfg, users, TRUE, "egress_restored")
    <3>1. Called(p, loc[p], loc[p].cfg, users, TRUE, "egress_restored")
      BY Zenon, <1>1, <2>2, CallShape DEF Returns
    <3> QED BY Zenon, <1>1, <1>4, <3>1, CallTended DEF Returns
  <2> QED BY Zenon, <1>3, <1>8, <2>1, <2>2 DEF EgressApplied
<1> QED BY <1>5, <1>6, <1>7, <1>8

(* Revisions.                                                              *)
LEMMA SnapshotHost ==
    ASSUME IInv, HostInv, NEW p \in Procs, SkipStale(p) \/ Snapshot(p) \/ SnapshotStamp(p)
    PROVE  HostInv'
<1>1. /\ pc[p] \in {"load", "revstamp"}
      /\ UNCHANGED <<lock, host, clock, kills, users, manual>>
      /\ loc[p] \in Local
  BY Zenon, Locals DEF SkipStale, Snapshot, SnapshotStamp, bounds, files
<1>2. SUFFICES ASSUME kills = 0, ~manual', Outside(pc[p], loc[p]) PROVE Tends(p)
  <2>1. Proceed(p)
    BY Zenon DEF Proceed
  <2> QED BY Zenon, <1>1, <1>2, <2>1, OutsideStep DEF PipelineLabels
<1>3. Settled(target, bak, stamp, running, users, clock)
  BY Zenon, <1>1, <1>2 DEF Outside
<1>4. CASE SkipStale(p) \/ SnapshotStamp(p)
  <2>1. (Goto(p, "ok") \/ Goto(p, "err")) /\ UNCHANGED loc
    BY <1>4 DEF SkipStale, SnapshotStamp, RevStamp
  <2> QED BY Zenon, <1>1, <1>2, <2>1, GotoTended DEF Plain
<1>5. CASE Snapshot(p)
  <2>1. PICK s \in Store : s = loc[p].cmd.users
    BY <1>1, <1>5, CommandTypes DEF Snapshot
  <2>2. PICK l : l = [loc[p] EXCEPT !.prev = users, !.next = s]
    OBVIOUS
  <2>3. Call(p, l, loc[p].cfg, s, TRUE, "save")
    BY Zenon, <1>5, <2>1, <2>2 DEF Snapshot
  <2>4. l \in Local /\ l.next = s
    BY Zenon, <1>1, <2>1, <2>2, Unchanged DEF Local, FilesOK
  <2>5. Called(p, l, loc[p].cfg, s, TRUE, "save")
    BY Zenon, <2>3, <2>4, CallShape DEF Returns
  <2> QED BY Zenon, <1>1, <1>3, <2>4, <2>5, CallTended DEF Returns
<1> QED BY <1>4, <1>5

(* A static revision: recovery, the plan and the candidate.                *)
LEMMA StaticHost ==
    ASSUME IInv, HostInv, NEW p \in Procs,
           \/ StaticRecover(p) \/ StaticRecovered(p) \/ StaticUnbackup(p) \/ StaticPlan(p) \/ StaticStage(p)
           \/ TomlUnwritten(p)
    PROVE  HostInv'
<1>1. /\ pc[p] \in {"load", "recovered", "unbackup", "plan", "stage"}
      /\ UNCHANGED <<lock, host, clock, kills, users, manual>>
      /\ loc[p] \in Local
  BY Zenon, Locals
     DEF StaticRecover, StaticRecovered, StaticUnbackup, StaticPlan, StaticStage, TomlUnwritten, bounds, files
<1>2. SUFFICES ASSUME kills = 0, ~manual', Outside(pc[p], loc[p]) PROVE Tends(p)
  <2>1. Proceed(p)
    BY Zenon DEF Proceed
  <2> QED BY Zenon, <1>1, <1>2, <2>1, OutsideStep DEF PipelineLabels
<1>3. /\ Settled(target, bak, stamp, running, users, clock)
      /\ loc[p].ret = "ok" => active /\ Proven(target, stamp, running, users, clock)
      /\ pc[p] = "stage" => loc[p].prev = users
  BY Zenon, <1>1, <1>2 DEF Outside
<1>4. ASSUME NEW at \in {"ok", "err", "unbackup", "plan"}, Goto(p, at), UNCHANGED loc
      PROVE  Tends(p)
  BY Zenon, <1>1, <1>2, <1>4, GotoTended DEF Plain
<1>5. CASE StaticRecovered(p) \/ StaticUnbackup(p) \/ TomlUnwritten(p)
  BY Zenon, <1>4, <1>5 DEF StaticRecovered, StaticUnbackup, TomlUnwritten
<1>6. CASE StaticRecover(p)
  <2>1. CASE Call(p, loc[p], sbak, users, TRUE, "recovered")
    <3>1. Called(p, loc[p], sbak, users, TRUE, "recovered")
      BY Zenon, <1>1, <2>1, CallShape DEF Returns
    <3> QED BY Zenon, <1>1, <1>3, <3>1, CallTended DEF Returns
  <2> QED BY Zenon, <1>4, <1>6, <2>1 DEF StaticRecover
<1>7. CASE StaticPlan(p)
  <2>1. CASE loc' = [loc EXCEPT ![p].orig = toml, ![p].prev = users] /\ Goto(p, "stage")
    <3>1. PICK m : m = [loc[p] EXCEPT !.orig = toml, !.prev = users]
      OBVIOUS
    <3>2. loc'[p] = m /\ pc'[p] = "stage"
      BY <2>1, <3>1 DEF Goto, IInv, TypeOK, ProcsOK
    <3>3. m.prev = users /\ m.ret = loc[p].ret
      BY <1>1, <3>1 DEF Local
    <3>4. Outside(pc[p], loc[p])'
      BY Zenon, <1>1, <1>3, <3>2, <3>3 DEF Outside, host
    <3> QED BY Zenon, <3>2, <3>4 DEF Tends, Tended, PipelineLabels
  <2> QED BY <1>4, <1>7, <2>1 DEF StaticPlan, RevStamp
<1>8. CASE StaticStage(p)
  <2>1. pc[p] = "stage"
    BY <1>8 DEF StaticStage
  <2>2. ASSUME NEW cfg, Call(p, loc[p], cfg, loc[p].prev, TRUE, "static_applied")
        PROVE  Tends(p)
    <3>1. Called(p, loc[p], cfg, loc[p].prev, TRUE, "static_applied")
      BY Zenon, <1>1, <2>2, CallShape DEF Returns
    <3> QED BY Zenon, <1>1, <1>3, <2>1, <3>1, CallTended DEF Returns
  <2> QED BY Zenon, <1>4, <1>8, <2>2 DEF StaticStage
<1> QED BY <1>5, <1>6, <1>7, <1>8

(* A static revision: commit, or the way back.                             *)
LEMMA StaticEndHost ==
    ASSUME IInv, HostInv, NEW p \in Procs,
           StaticApplied(p) \/ StaticStamp(p) \/ StaticCommit(p) \/ StaticRoll(p) \/ StaticRolled(p)
    PROVE  HostInv'
<1>1. /\ pc[p] \in {"static_applied", "static_stamp", "commit", "roll", "rolled"}
      /\ UNCHANGED <<lock, host, clock, kills, users>>
      /\ loc[p] \in Local
  BY Zenon, Locals
     DEF StaticApplied, StaticStamp, StaticCommit, StaticRoll, StaticRolled, bounds, files
<1>2. manual => manual'
  BY Zenon DEF StaticApplied, StaticStamp, StaticCommit, StaticRoll, StaticRolled
<1>3. SUFFICES ASSUME kills = 0, ~manual', Outside(pc[p], loc[p]) PROVE Tends(p)
  <2>1. Proceed(p)
    BY Zenon DEF Proceed
  <2> QED BY Zenon, <1>1, <1>2, <1>3, <2>1, OutsideStep DEF PipelineLabels
<1>4. /\ Settled(target, bak, stamp, running, users, clock)
      /\ loc[p].ret = "ok" => active /\ Proven(target, stamp, running, users, clock)
      /\ pc[p] \in {"static_applied", "roll"} => loc[p].prev = users
  BY Zenon, <1>1, <1>3 DEF Outside
<1>5. ASSUME NEW at \in {"ok", "err", "static_stamp", "commit", "roll"}, Goto(p, at), UNCHANGED loc,
             at = "roll" => pc[p] = "static_applied"
      PROVE  Tends(p)
  BY Zenon, <1>1, <1>3, <1>4, <1>5, GotoTended DEF Plain
<1>6. CASE StaticStamp(p) \/ StaticCommit(p) \/ StaticRolled(p)
  BY <1>5, <1>6 DEF StaticStamp, StaticCommit, StaticRolled, RevStamp
<1>7. CASE StaticApplied(p)
  <2>1. ASSUME NEW at \in {"static_stamp", "roll"}, loc' = [loc EXCEPT ![p].touched = TRUE], Goto(p, at)
        PROVE  Tends(p)
    <3>1. PICK m : m = [loc[p] EXCEPT !.touched = TRUE]
      BY Zenon
    <3>2. loc'[p] = m
      BY <2>1, <3>1 DEF IInv, TypeOK, ProcsOK
    <3>3. m.prev = loc[p].prev /\ m.ret = loc[p].ret
      BY <1>1, <3>1 DEF Local
    <3>4. pc[p] = "static_applied"
      BY <1>7 DEF StaticApplied
    <3> QED BY <1>1, <1>3, <1>4, <2>1, <3>2, <3>3, <3>4, GotoTended DEF Plain
  <2>2. pc[p] = "static_applied"
    BY <1>7 DEF StaticApplied
  <2> QED BY Zenon, <1>5, <1>7, <2>1, <2>2 DEF StaticApplied
<1>8. CASE StaticRoll(p)
  <2>1. pc[p] = "roll"
    BY <1>8 DEF StaticRoll
  <2>2. CASE Call(p, loc[p], loc[p].orig, loc[p].prev, TRUE, "rolled")
    <3>1. Called(p, loc[p], loc[p].orig, loc[p].prev, TRUE, "rolled")
      BY Zenon, <1>1, <2>2, CallShape DEF Returns
    <3> QED BY Zenon, <1>1, <1>4, <2>1, <3>1, CallTended DEF Returns
  <2>3. CASE loc' = [loc EXCEPT ![p].ret = "err", ![p].orig = NoToml] /\ Goto(p, "rolled")
    <3>1. PICK m : m = [loc[p] EXCEPT !.ret = "err", !.orig = NoToml]
      OBVIOUS
    <3>2. loc'[p] = m /\ pc'[p] = "rolled"
      BY <2>3, <3>1 DEF Goto, IInv, TypeOK, ProcsOK
    <3>3. m.ret = "err"
      BY <1>1, <3>1 DEF Local
    <3>4. Outside(pc[p], loc[p])'
      BY <1>1, <1>4, <3>2, <3>3 DEF Outside, host
    <3> QED BY Zenon, <3>2, <3>4 DEF Tends, Tended, PipelineLabels
  <2> QED BY Zenon, <1>8, <2>2, <2>3 DEF StaticRoll
<1> QED BY <1>6, <1>7, <1>8

-----------------------------------------------------------------------------
(* A restart of sing-box by systemd finds what the command expects.        *)
LEMMA RestartTended ==
    ASSUME IInv, NEW p \in Procs, ServiceRestart, users' = users, Tended(pc[p], loc[p])
    PROVE  Tended(pc[p], loc[p])'
<1>1. /\ UNCHANGED <<target, bak, stamp, clock, users>> /\ running' = target /\ active' = IsDoc(target)
      /\ pc'[p] = pc[p] /\ loc'[p] = loc[p]
  BY DEF ServiceRestart
<1>2. \A s : Settled(target, bak, stamp, running, s, clock) =>
              Settled(target', bak', stamp', running', s, clock')
  BY <1>1, SettledRestart
<1>3. CASE pc[p] \in PipelineLabels
  <2>1. Inside(pc[p], loc[p])
    BY <1>3 DEF Tended
  <2>2. Ready(loc[p], target, stamp, running, users, clock) =>
          Ready(loc[p], target', stamp', running', users', clock')
    BY Zenon, <1>1 DEF Ready
  <2>3. pc[p] \in {"handshake", "stamp"} => running' = loc[p].doc /\ active'
    BY Zenon, <1>1, <2>1 DEF Inside, Made
  <2>4. Inside(pc[p], loc[p])'
    BY Zenon, <1>1, <1>2, <2>1, <2>2, <2>3 DEF Inside
  <2> QED BY <1>1, <1>3, <2>4 DEF Tended
<1>4. CASE pc[p] \notin PipelineLabels
  <2>1. Outside(pc[p], loc[p])
    BY <1>4 DEF Tended
  <2>2. \A s : Proven(target, stamp, running, s, clock) =>
                active' /\ Proven(target', stamp', running', s, clock')
    BY Zenon, <1>1, AgreeLaws DEF Proven
  <2>3. Outside(pc[p], loc[p])'
    BY Zenon, <1>1, <1>2, <2>1, <2>2 DEF Outside
  <2> QED BY Zenon, <1>1, <1>4, <2>3 DEF Tended
<1> QED BY <1>3, <1>4

(* So does the moment at which users expire.                               *)
LEMMA ExpiryTended ==
    ASSUME IInv, NEW p \in Procs, Expiry, users' = users, Tended(pc[p], loc[p])
    PROVE  Tended(pc[p], loc[p])'
<1>1. /\ UNCHANGED <<target, bak, stamp, running, active, users>> /\ clock = 0 /\ clock' = 1
      /\ pc'[p] = pc[p] /\ loc'[p] = loc[p]
  BY DEF Expiry, host
<1>2. users \in Store /\ loc[p].next \in Store /\ Base(loc[p], users) \in Store
  BY Locals, Unchanged DEF FilesOK, Local, Base
<1>3. \A s \in Store :
        Settled(target, bak, stamp, running, s, clock) => Settled(target', bak', stamp', running', s, clock')
  BY Zenon, <1>1, SettledTick
<1>4. CASE pc[p] \in PipelineLabels
  <2>1. Inside(pc[p], loc[p])
    BY <1>4 DEF Tended
  <2>2. Made(loc[p], clock) => Made(loc[p], clock')
    <3>1. clock = 0 /\ clock' = 1
      BY Zenon, <1>1
    <3>2. 0 .. clock \subseteq 0 .. clock'
      BY <3>1
    <3> QED BY <3>2, Zenon DEF Made
  <2>3. \A d : /\ Fits(d, Base(loc[p], users), clock) => Fits(d, Base(loc[p], users), clock')
               /\ Fits(stamp, Base(loc[p], users), clock) /\ Kept(d, stamp, Base(loc[p], users), clock)
                    => Kept(d, stamp', Base(loc[p], users), clock')
    BY Zenon, <1>1, <1>2, FitsTick, KeptTick DEF Kept
  <2>4. ASSUME Settled(target, bak, stamp, running, Base(loc[p], users), clock),
               Ready(loc[p], target, stamp, running, users, clock)
        PROVE  Ready(loc[p], target', stamp', running', users', clock')
    <3>1. Fits(stamp, Base(loc[p], users), clock)
      BY Zenon, <2>4 DEF Settled
    <3>2. loc[p].cont = "reconciled" => Base(loc[p], users) = users
      BY DEF Base
    <3> QED BY Zenon, <1>1, <2>2, <2>3, <2>4, <3>1, <3>2 DEF Ready
  <2>5. Inside(pc[p], loc[p])'
    BY Zenon, <1>1, <1>2, <1>3, <2>1, <2>2, <2>3, <2>4 DEF Inside
  <2> QED BY Zenon, <1>1, <1>4, <2>5 DEF Tended
<1>5. CASE pc[p] \notin PipelineLabels
  <2>1. Outside(pc[p], loc[p])
    BY <1>5 DEF Tended
  <2>2. \A s : Proven(target, stamp, running, s, clock) => Proven(target', stamp', running', s, clock')
    BY <1>1, ProvenTick
  <2>3. Outside(pc[p], loc[p])'
    BY Zenon, <1>1, <1>2, <1>3, <2>1, <2>2 DEF Outside
  <2> QED BY Zenon, <1>1, <1>5, <2>3 DEF Tended
<1> QED BY <1>4, <1>5

(* Restarts and expiry, whoever holds the lock.                            *)
LEMMA EnvironmentHost ==
    ASSUME IInv, HostInv, Environment
    PROVE  HostInv'
<1>1. /\ users' = users /\ users \in Store /\ lock' = lock /\ kills' = kills /\ manual' = manual
      /\ pc' = pc /\ loc' = loc
  BY Unchanged DEF Environment, ServiceRestart, Expiry, files, bounds, FilesOK
<1>2. SUFFICES ASSUME kills = 0, ~manual
               PROVE  /\ lock = Free => Settled(target', bak', stamp', running', users, clock')
                      /\ \A p \in Procs : lock = p => Tended(pc[p], loc[p])'
  BY Zenon, <1>1 DEF HostInv
<1>3. lock = Free => Settled(target', bak', stamp', running', users, clock')
  <2>1. lock = Free => Settled(target, bak, stamp, running, users, clock)
    BY Zenon, <1>2 DEF HostInv
  <2> QED BY <1>1, <2>1, SettledRestart, SettledTick DEF Environment, ServiceRestart, Expiry, host
<1>4. ASSUME NEW p \in Procs, lock = p
      PROVE  Tended(pc[p], loc[p])'
  <2>1. Tended(pc[p], loc[p])
    BY <1>2, <1>4 DEF HostInv
  <2> QED BY <1>1, <2>1, RestartTended, ExpiryTended DEF Environment
<1> QED BY <1>3, <1>4

(* How processes come and go.                                              *)
LEMMA ComingHost ==
    ASSUME IInv, HostInv, NEW p \in Procs, NEW cmd, Begin(p, cmd), kills' = kills
    PROVE  HostInv'
<1>1. /\ UNCHANGED <<host, clock, manual, users, lock>> /\ pc[p] = "idle"
      /\ UNCHANGED <<target, bak, stamp, running, active, clock>>
  BY DEF Begin, files, host
<1>2. pc'[p] = "lock" /\ loc'[p].ret = "none"
  <2>1. PICK m : m = [Idle EXCEPT !.cmd = cmd, !.cfg = toml]
    OBVIOUS
  <2>2. pc'[p] = "lock" /\ loc'[p] = m
    BY <2>1 DEF Begin, Goto, IInv, TypeOK, ProcsOK
  <2>3. m.ret = "none"
    BY <2>1 DEF Idle
  <2> QED BY <2>2, <2>3
<1>3. ASSUME NEW q \in Procs, q # p
      PROVE  pc'[q] = pc[q] /\ loc'[q] = loc[q]
  BY <1>3 DEF Begin, Goto, IInv, TypeOK, ProcsOK
<1>4. SUFFICES ASSUME kills = 0, ~manual, lock = p PROVE Tended(pc[p], loc[p])'
  <2>1. ASSUME NEW q \in Procs, q # p, Tended(pc[q], loc[q])
        PROVE  Tended(pc[q], loc[q])'
    BY ZenonT(30), <1>1, <1>3, <2>1 DEF Tended, Inside, Outside
  <2> QED BY Zenon, <1>1, <1>2, <1>3, <1>4, <2>1 DEF HostInv
<1>5. Settled(target, bak, stamp, running, users, clock)
  BY Zenon, <1>1, <1>4 DEF HostInv, Tended, Outside, PipelineLabels
<1>6. Outside(pc[p], loc[p])'
  BY <1>1, <1>2, <1>5 DEF Outside
<1> QED BY <1>2, <1>6 DEF Tended, PipelineLabels

(* Taking the lock and finishing leave the host as it is.                  *)
LEMMA GoingHost ==
    ASSUME IInv, HostInv, NEW p \in Procs, Acquire(p) \/ Finish(p)
    PROVE  HostInv'
<1>1. /\ UNCHANGED <<host, clock, manual, users, kills>>
      /\ UNCHANGED <<target, bak, stamp, running, active, clock>>
  BY DEF Acquire, Finish, files, host, bounds
<1>2. Proceed(p)
  BY DEF Proceed
<1>3. CASE Acquire(p)
  <2>1. pc[p] = "lock" /\ lock = Free /\ lock' = p /\ pc'[p] = "load" /\ loc'[p] = loc[p]
    BY <1>3 DEF Acquire, Goto, IInv, TypeOK, ProcsOK
  <2>2. SUFFICES ASSUME kills = 0, ~manual PROVE Tends(p)
    BY <1>1, <1>2, <2>1, <2>2, HolderStep DEF Tends
  <2>3. Settled(target, bak, stamp, running, users, clock) /\ loc[p].ret = "none"
    BY Zenon, <2>1, <2>2 DEF HostInv
  <2>4. Outside(pc[p], loc[p])'
    BY Zenon, <1>1, <2>1, <2>3 DEF Outside
  <2> QED BY Zenon, <2>1, <2>4 DEF Tends, Tended, PipelineLabels
<1>4. CASE Finish(p)
  <2>1. lock = p /\ lock' = Free /\ pc'[p] = "idle" /\ pc[p] \in {"ok", "err"}
    BY <1>4, Locals DEF Finish, Exit, IInv, TypeOK, ProcsOK
  <2>2. ASSUME NEW q \in Procs, q # p
        PROVE  pc'[q] = pc[q] /\ loc'[q] = loc[q]
    BY Zenon, <1>2, <2>2, MovesOne, LocalsStay
  <2>3. kills = 0 /\ ~manual => Settled(target, bak, stamp, running, users, clock)
    BY Zenon, <2>1 DEF HostInv, Tended, Outside, PipelineLabels
  <2> QED BY <1>1, <2>1, <2>2, <2>3, BoundsAssumption DEF HostInv
<1> QED BY <1>3, <1>4

(* Every step preserves the invariant.                                     *)
LEMMA NextHost ==
    ASSUME IInv, HostInv, "stamp" \notin Faults, [Next]_vars
    PROVE  HostInv'
<1>1. CASE UNCHANGED vars
  <2>1. /\ UNCHANGED <<target, bak, stamp, running, active, clock, manual, pc, loc, users>>
        /\ UNCHANGED <<lock, kills>>
    BY <1>1 DEF vars, host, files, bounds
  <2>2. ASSUME NEW p \in Procs, Inside(pc[p], loc[p]) PROVE Inside(pc[p], loc[p])'
    BY Zenon, <2>1, <2>2 DEF Inside
  <2>3. ASSUME NEW p \in Procs, Outside(pc[p], loc[p]) PROVE Outside(pc[p], loc[p])'
    BY Zenon, <2>1, <2>3 DEF Outside
  <2>4. ASSUME NEW p \in Procs, Tended(pc[p], loc[p]) PROVE Tended(pc[p], loc[p])'
    BY Zenon, <2>1, <2>2, <2>3, <2>4 DEF Tended
  <2> QED BY Zenon, <2>1, <2>4 DEF HostInv
<1>2. ASSUME NEW p \in Procs, Proceed(p)
      PROVE  HostInv'
  BY <1>2, GoingHost, UserCommandHost, SavesHost, ReconcileHost, SnapshotHost, StaticHost, StaticEndHost,
     PipelineHost DEF Proceed
<1>3. ASSUME NEW p \in Procs, NEW cmd \in Commands, Start(p, cmd)
      PROVE  HostInv'
  BY Zenon, <1>3, ComingHost DEF Start, Begin
<1>4. ASSUME NEW p \in Procs, TimerFires(p)
      PROVE  HostInv'
  BY Zenon, <1>4, ComingHost DEF TimerFires, Begin
<1>5. ASSUME NEW p \in Procs, Kill(p)
      PROVE  HostInv'
  <2>1. kills' # 0
    BY <1>5, Unchanged, BoundsAssumption DEF Kill, FilesOK
  <2> QED BY Zenon, <2>1 DEF HostInv
<1> QED BY <1>1, <1>2, <1>3, <1>4, <1>5, EnvironmentHost DEF Next

(* A new node is settled.                                                  *)
LEMMA InitHost == Init => HostInv
<1> SUFFICES ASSUME Init PROVE HostInv
  OBVIOUS
<1>1. /\ users = NoUsers /\ bak = NoDoc /\ stamp = target /\ running = target /\ clock = 0 /\ lock = Free
      /\ target \in {NoDoc, Render(settings, users, 0)} /\ pc = [p \in Procs |-> "idle"]
  BY DEF Init
<1>2. users \in Store
  BY <1>1 DEF NoUsers, NoUser, Store, UserRec, Never
<1>3. Fits(target, users, clock)
  <2>1. CASE target = NoDoc
    BY <1>1, <2>1 DEF Fits, Grants, Owed, is_active, NoUsers, NoUser, IsDoc, NoDoc
  <2>2. CASE target = Render(settings, users, 0)
    BY <1>1, <1>2, <2>2, RenderExact, ExactFits
  <2> QED BY <1>1, <2>1, <2>2
<1>4. Settled(target, bak, stamp, running, users, clock)
  BY <1>1, <1>3, AgreeLaws DEF Settled, Kept
<1> QED BY Zenon, <1>1, <1>4, BoundsAssumption DEF HostInv

(* render_and_apply_singbox_config and its callers: what config.json, its  *)
(* backup, the stamp and the running sing-box authorize, at every point of *)
(* every command, for as long as stamps can be written, no process is      *)
(* killed and the operator is not told to intervene.                       *)
THEOREM HostInvariance ==
    ASSUME "stamp" \notin Faults
    PROVE  Spec => []HostInv
<1>1. IInv /\ HostInv /\ [Next]_vars => HostInv'
  BY NextHost
<1> QED BY <1>1, InitInv, NextKeepsInv, InitHost, PTL DEF Spec

(* A command that reports a live success leaves sing-box running exactly   *)
(* the users of users.json, whatever failed before it.                     *)
THEOREM SuccessServes ==
    ASSUME "stamp" \notin Faults
    PROVE  Spec => [](kills = 0 => SuccessIsLive)
<1>1. IInv /\ HostInv => (kills = 0 => SuccessIsLive)
  <2> SUFFICES ASSUME IInv, HostInv, kills = 0, NEW p \in Procs, pc[p] = "ok", loc[p].ret = "ok", ~manual
               PROVE  active /\ Authorizes(running)
    BY DEF SuccessIsLive
  <2>1. active /\ Proven(target, stamp, running, users, clock)
    BY Locals DEF HostInv, Tended, Outside, PipelineLabels
  <2>2. PICK t \in 0 .. clock : IsDoc(running) /\ Exact(running, users, t)
    BY Zenon, <2>1, AgreeLaws DEF Proven
  <2>3. running.auth = [c \in Creds |-> Owed(users, t, c)]
    <3>1. running \in Document
      BY SMTT(30), <2>2, Unchanged DEF HostOK, IsDoc, NoDoc, Torn
    <3>2. running.auth \in [Creds -> 0 .. 2]
      BY <3>1 DEF Document
    <3> QED BY <2>2, <3>2 DEF Exact, Grants
  <2>4. Render(toml, users, t).auth = [c \in Creds |-> Owed(users, t, c)]
    BY DEF Render, Owed
  <2> QED BY Zenon, <2>1, <2>2, <2>3, <2>4 DEF Authorizes
<1> QED BY <1>1, Invariance, HostInvariance, PTL

(* A command that fails leaves sing-box running the users of users.json,   *)
(* up to those that have expired.                                          *)
THEOREM FailureKeepsServing ==
    ASSUME "stamp" \notin Faults
    PROVE  Spec => [](kills = 0 => FailureLeavesPrevious)
<1>1. IInv /\ HostInv => (kills = 0 => FailureLeavesPrevious)
  <2> SUFFICES ASSUME IInv, HostInv, kills = 0, NEW p \in Procs, pc[p] = "err", active, ~manual, NEW c \in Creds
               PROVE  \/ running.auth[c] = Render(toml, users, clock).auth[c]
                      \/ users[c].until <= clock /\ clock > 0 /\ running.auth[c] = users[c].key
    BY DEF FailureLeavesPrevious
  <2>1. IsDoc(running) /\ Fits(running, users, clock)
    BY Zenon, Locals, Unchanged DEF HostInv, Tended, Outside, PipelineLabels, Settled, Kept, HostOK
  <2>2. Render(toml, users, clock).auth[c] = Owed(users, clock, c)
    BY DEF Render, Owed
  <2> QED BY <2>1, <2>2 DEF Fits, Grants, Lapsed
<1> QED BY <1>1, Invariance, HostInvariance, PTL

(* A key that becomes usable in users.json is one that sing-box already    *)
(* accepts.                                                                *)
THEOREM PublishesAccepted ==
    ASSUME "stamp" \notin Faults, MaxKills = 0
    PROVE  Spec => PublishedIsAccepted
<1>1. IInv /\ HostInv /\ [Next]_vars =>
        [\A c \in Creds :
           /\ users'[c].key # users[c].key \/ ~is_active(users[c], clock)
           /\ is_active(users'[c], clock)
           /\ ~manual
           => IsDoc(running) /\ running.auth[c] = users'[c].key]_vars
  <2> SUFFICES ASSUME IInv, HostInv, [Next]_vars, NEW c \in Creds,
                      users'[c].key # users[c].key \/ ~is_active(users[c], clock),
                      is_active(users'[c], clock), ~manual
               PROVE  IsDoc(running) /\ running.auth[c] = users'[c].key
    OBVIOUS
  <2>1. users' # users
    OBVIOUS
  <2>2. PICK p \in Procs : (Publish(p) \/ Save(p)) /\ users' = loc[p].next
    BY <2>1, StoreChange
  <2>3. /\ lock = p /\ clock \in 0 .. 1 /\ loc[p].next \in Store
        /\ pc[p] \in {"publish", "save"}
    BY Zenon, <2>2, Locals, Unchanged DEF Publish, Save, HostOK, Local
  <2>10. kills = 0
    BY SMTT(30), Unchanged DEF FilesOK
  <2>4. Outside(pc[p], loc[p])
    BY Zenon, <2>3, <2>10 DEF HostInv, Tended, PipelineLabels
  <2>5. Settled(target, bak, stamp, running, users', clock)
    <3>1. CASE Publish(p)
      BY Zenon, <2>2, <2>4, <3>1 DEF Publish, Outside
    <3>2. CASE Save(p) /\ loc[p].ret = "ok"
      <4>1. Proven(target, stamp, running, users', clock)
        BY Zenon, <2>2, <2>4, <3>2 DEF Save, Outside
      <4> QED BY Zenon, <2>2, <2>3, <4>1, ProvenSettled
    <3>3. CASE Save(p) /\ loc[p].ret # "ok"
      BY Zenon, <2>1, <2>4, <3>3 DEF Save, Outside
    <3> QED BY <2>2, <3>1, <3>2, <3>3
  <2>6. Fits(running, users', clock)
    BY Zenon, <2>5 DEF Settled, Kept
  <2>7. users'[c] \in UserRec /\ ~Lapsed(users'[c], clock)
    BY SMTT(30), <2>2, <2>3 DEF Lapsed, is_active, Store, UserRec, Never
  <2>8. users' # NoUsers
    BY DEF NoUsers, NoUser, is_active
  <2>9. IsDoc(running) /\ Grants(running, c) = Owed(users', clock, c)
    BY Zenon, <2>6, <2>7, <2>8 DEF Fits
  <2> QED BY <2>9 DEF Grants, Owed
<1> QED BY <1>1, Invariance, HostInvariance, PTL DEF Spec, PublishedIsAccepted


-----------------------------------------------------------------------------
(* Revisions.  A revision that has been accepted stays newer than the      *)
(* recorded one until it is recorded, because the lock is held.            *)
Ahead(at, l) ==
    \/ Where(at, l) \in {"save", "revstamp"} /\ l.cmd.kind = "snapshot"
    \/ Where(at, l) \in StaticLabels \ {"commit"}
    => rev < l.cmd.rev

(* What deployment.toml and its backup hold at each point of a command     *)
(* that replaces them.                                                     *)
Staged(at, l) ==
    /\ Where(at, l) \in {"recovered", "unbackup"} => sbak # NoToml /\ toml = sbak
    /\ Where(at, l) = "plan" => sbak = NoToml
    /\ Where(at, l) = "stage" => sbak # NoToml /\ sbak = toml /\ l.orig = toml
    /\ Where(at, l) \in {"static_applied", "roll"} => sbak # NoToml /\ sbak = l.orig
    /\ Where(at, l) = "rolled" => sbak # NoToml /\ (l.orig = NoToml \/ (toml = l.orig /\ sbak = l.orig))
    /\ Where(at, l) = "egress_applied" => l.orig.ep = toml.ep

(* The endpoints of the last committed static revision are those of the    *)
(* backup, or of deployment.toml if there is none.                         *)
Committed == IF sbak = NoToml THEN toml.ep = hist.ep ELSE sbak.ep = hist.ep

RevisionInv ==
    /\ hist.snap <= rev
    /\ Committed
    /\ \A p \in Procs : lock = p => Ahead(pc[p], loc[p]) /\ Staged(pc[p], loc[p])

(* The control points at which nothing is staged.                          *)
Unstaged == {"lock", "load", "ok", "err", "publish", "checked", "unsaved", "reconciled", "egress_restored"}

(* A step to such a point, of the process that holds the lock, that leaves *)
(* the settings, their backup and the recorded revision alone.             *)
LEMMA UnstagedStep ==
    ASSUME IInv, RevisionInv, NEW p \in Procs, lock' = p, UNCHANGED <<toml, sbak, rev, hist>>,
           Where(pc'[p], loc'[p]) \in Unstaged
    PROVE  RevisionInv'
<1>1. Ahead(pc[p], loc[p])' /\ Staged(pc[p], loc[p])'
  BY DEF Ahead, Staged, Unstaged, StaticLabels
<1> QED BY <1>1 DEF RevisionInv, Committed

(* A goto changes the control point only.                                  *)
LEMMA GotoShape ==
    ASSUME IInv, NEW p \in Procs, NEW at \in Labels \ PipelineLabels, Goto(p, at)
    PROVE  pc'[p] = at /\ Where(pc'[p], loc'[p]) = at /\ (loc' = loc => loc'[p] = loc[p])
BY DEF IInv, TypeOK, ProcsOK, Goto, Where

(* The pipeline touches neither the settings nor the revision.             *)
LEMMA PipelineKeepsRevision ==
    ASSUME IInv, RevisionInv, NEW p \in Procs, Pipeline(p), UNCHANGED <<files, sub, lock, bounds, hist>>
    PROVE  RevisionInv'
<1>1. /\ lock = p /\ lock' = p /\ UNCHANGED <<toml, sbak, rev, hist>>
      /\ Same(loc'[p], loc[p]) /\ Where(pc'[p], loc'[p]) = Where(pc[p], loc[p])
  BY PipelineShape, Locals DEF files, PipelineLabels
<1>2. Ahead(pc[p], loc[p]) /\ Staged(pc[p], loc[p])
  BY <1>1 DEF RevisionInv
<1>3. Ahead(pc[p], loc[p])'
  BY <1>1, <1>2 DEF Ahead, Same
<1>4. Staged(pc[p], loc[p])'
  BY <1>1, <1>2 DEF Staged, Same
<1> QED BY <1>1, <1>3, <1>4 DEF RevisionInv, Committed

(* The commands that change users, and the timer.                          *)
LEMMA UsersKeepRevision ==
    ASSUME IInv, RevisionInv, NEW p \in Procs,
           UserCommand(p) \/ Publish(p) \/ Checked(p) \/ Save(p) \/ Unsaved(p) \/ Reconcile(p) \/ Reconciled(p)
    PROVE  RevisionInv'
<1>1. /\ lock = p /\ lock' = p /\ UNCHANGED <<toml, sbak, rev, hist>>
      /\ loc[p] \in Local /\ users \in Store /\ Ahead(pc[p], loc[p])
  BY Zenon, Locals, Unchanged
     DEF UserCommand, Publish, Checked, Save, Unsaved, Reconcile, Reconciled, files, RevisionInv, FilesOK
<1>2. CASE UserCommand(p)
  <2>1. PICK cmd : cmd = loc[p].cmd
    OBVIOUS
  <2>2. cmd.c \in Creds /\ cmd.kind = "user"
    BY Zenon, <1>1, <1>2, <2>1, CommandTypes DEF UserCommand
  <2>3. CASE Goto(p, "err")
    BY <1>1, <2>3, GotoShape, UnstagedStep DEF Unstaged, Labels, PipelineLabels
  <2>4. CASE Goto(p, "publish")
    BY <1>1, <2>4, GotoShape, UnstagedStep DEF Unstaged, Labels, PipelineLabels
  <2>5. ASSUME NEW u \in UserRec, Mutates(cmd, users[cmd.c], u),
               NEW next, next = [users EXCEPT ![cmd.c] = u],
               NEW keep, keep = [loc[p] EXCEPT !.prev = users, !.next = next],
               \/ Call(p, keep, loc[p].cfg, next, TRUE, "checked")
               \/ Call(p, keep, loc[p].cfg, next, TRUE, "save")
        PROVE  RevisionInv'
    <3>1. keep \in Local /\ keep.cmd = cmd
      BY Zenon, <1>1, <2>1, <2>2, <2>5, UserEffect DEF Local
    <3>2. CASE Call(p, keep, loc[p].cfg, next, TRUE, "checked")
      <4>1. Called(p, keep, loc[p].cfg, next, TRUE, "checked")
        BY Zenon, <3>1, <3>2, CallShape DEF Returns
      <4> QED BY <1>1, <4>1, UnstagedStep DEF Called, Unstaged
    <3>3. CASE Call(p, keep, loc[p].cfg, next, TRUE, "save")
      <4>1. Called(p, keep, loc[p].cfg, next, TRUE, "save")
        BY Zenon, <3>1, <3>3, CallShape DEF Returns
      <4>2. Ahead(pc[p], loc[p])' /\ Staged(pc[p], loc[p])'
        BY <2>2, <3>1, <4>1 DEF Called, Ahead, Staged, StaticLabels
      <4> QED BY <1>1, <4>2 DEF RevisionInv, Committed
    <3> QED BY Zenon, <2>5, <3>2, <3>3
  <2> QED BY Zenon, <1>2, <2>1, <2>3, <2>4, <2>5 DEF UserCommand
<1>3. CASE Publish(p) \/ Checked(p) \/ Unsaved(p) \/ Reconciled(p)
  <2>1. Goto(p, "ok") \/ Goto(p, "err")
    BY <1>3 DEF Publish, Checked, Unsaved, Reconciled
  <2> QED BY <1>1, <2>1, GotoShape, UnstagedStep DEF Unstaged, Labels, PipelineLabels
<1>4. CASE Reconcile(p)
  <2>1. Called(p, loc[p], loc[p].cfg, users, FALSE, "reconciled")
    BY Zenon, <1>1, <1>4, CallShape DEF Reconcile, Returns
  <2> QED BY <1>1, <2>1, UnstagedStep DEF Called, Unstaged
<1>5. CASE Save(p)
  <2>1. CASE Goto(p, "err") \/ Goto(p, "ok")
    BY <1>1, <2>1, GotoShape, UnstagedStep DEF Unstaged, Labels, PipelineLabels
  <2>2. CASE Call(p, loc[p], loc[p].cfg, loc[p].prev, TRUE, "unsaved")
    <3>1. Called(p, loc[p], loc[p].cfg, loc[p].prev, TRUE, "unsaved")
      BY Zenon, <1>1, <2>2, CallShape DEF Returns
    <3> QED BY <1>1, <3>1, UnstagedStep DEF Called, Unstaged
  <2>3. CASE loc[p].cmd.kind = "snapshot" /\ Goto(p, "revstamp") /\ UNCHANGED loc
    <3>1. pc'[p] = "revstamp" /\ Where(pc'[p], loc'[p]) = "revstamp" /\ loc'[p] = loc[p] /\ pc[p] = "save"
      BY <1>5, <2>3, GotoShape DEF Save, Labels, PipelineLabels
    <3>2. rev < loc[p].cmd.rev
      BY <1>1, <2>3, <3>1 DEF Ahead, Where, PipelineLabels
    <3>3. Ahead(pc[p], loc[p])' /\ Staged(pc[p], loc[p])'
      BY <1>1, <3>1, <3>2 DEF Ahead, Staged, StaticLabels
    <3> QED BY <1>1, <3>3 DEF RevisionInv, Committed
  <2> QED BY Zenon, <1>5, <2>1, <2>2, <2>3 DEF Save
<1> QED BY <1>2, <1>3, <1>4, <1>5

(* egress set puts back the endpoints that were there.                     *)
LEMMA EgressKeepsRevision ==
    ASSUME IInv, RevisionInv, NEW p \in Procs, Egress(p) \/ EgressApplied(p) \/ EgressRestored(p)
    PROVE  RevisionInv'
<1>1. /\ lock = p /\ lock' = p /\ UNCHANGED <<sbak, rev, hist>>
      /\ loc[p] \in Local /\ toml \in Settings /\ Staged(pc[p], loc[p])
      /\ hist.snap <= rev /\ Committed
  BY Zenon, Locals, Unchanged DEF Egress, EgressApplied, EgressRestored, files, RevisionInv, FilesOK
<1>2. CASE Egress(p)
  <2>1. PICK next : next = [toml EXCEPT !.eg = loc[p].cmd.eg]
    BY Zenon
  <2>2. next.ep = toml.ep /\ toml' = next
    BY <1>1, <1>2, <2>1 DEF Egress, Settings
  <2>3. PICK l \in Local : l = [loc[p] EXCEPT !.orig = toml]
    BY Zenon, <1>1 DEF Local
  <2>4. Call(p, l, next, users, TRUE, "egress_applied") /\ l.orig = toml
    BY Zenon, <1>1, <1>2, <2>1, <2>3 DEF Egress, Local
  <2>5. Called(p, l, next, users, TRUE, "egress_applied")
    BY Zenon, <2>4, CallShape DEF Returns
  <2>6. Ahead(pc[p], loc[p])' /\ Staged(pc[p], loc[p])'
    BY <2>2, <2>4, <2>5 DEF Called, Ahead, Staged, StaticLabels
  <2> QED BY <1>1, <2>2, <2>6 DEF RevisionInv, Committed
<1>3. CASE EgressApplied(p)
  <2>1. CASE UNCHANGED toml /\ (Goto(p, "ok") \/ Goto(p, "err"))
    BY <1>1, <2>1, GotoShape, UnstagedStep DEF Unstaged, Labels, PipelineLabels
  <2>2. CASE toml' = loc[p].orig /\ Call(p, loc[p], loc[p].cfg, users, TRUE, "egress_restored")
    <3>1. Called(p, loc[p], loc[p].cfg, users, TRUE, "egress_restored")
      BY Zenon, <1>1, <2>2, CallShape DEF Returns
    <3>2. toml'.ep = toml.ep
      BY Zenon, <1>1, <1>3, <2>2 DEF EgressApplied, Staged, Where, PipelineLabels
    <3>3. Ahead(pc[p], loc[p])' /\ Staged(pc[p], loc[p])'
      BY <3>1 DEF Called, Ahead, Staged, StaticLabels
    <3> QED BY <1>1, <3>2, <3>3 DEF RevisionInv, Committed
  <2> QED BY Zenon, <1>3, <2>1, <2>2 DEF EgressApplied
<1>4. CASE EgressRestored(p)
  BY <1>1, <1>4, GotoShape, UnstagedStep DEF EgressRestored, files, Unstaged, Labels, PipelineLabels
<1> QED BY <1>2, <1>3, <1>4

(* apply-revision records a revision newer than the one recorded before.   *)
LEMMA SnapshotKeepsRevision ==
    ASSUME IInv, RevisionInv, NEW p \in Procs, SkipStale(p) \/ Snapshot(p) \/ SnapshotStamp(p)
    PROVE  RevisionInv'
<1>1. /\ lock = p /\ lock' = p /\ UNCHANGED <<toml, sbak>> /\ loc[p] \in Local
      /\ rev \in Nat /\ hist \in [snap : Nat, ep : Nat]
      /\ hist.snap <= rev /\ Committed /\ Ahead(pc[p], loc[p]) /\ Control(pc[p], loc[p])
  BY Zenon, Locals, Unchanged DEF SkipStale, Snapshot, SnapshotStamp, files, RevisionInv, FilesOK
<1>2. CASE SkipStale(p)
  BY <1>1, <1>2, GotoShape, UnstagedStep DEF SkipStale, files, Unstaged, Labels, PipelineLabels
<1>3. CASE Snapshot(p)
  <2>1. loc[p].cmd.users \in Store /\ users \in Store
    BY <1>1, <1>3, CommandTypes, Unchanged DEF Snapshot, FilesOK
  <2>2. PICK l \in Local : l = [loc[p] EXCEPT !.prev = users, !.next = loc[p].cmd.users]
    BY Zenon, <1>1, <2>1 DEF Local
  <2>3. l.cmd = loc[p].cmd
    BY <1>1, <2>2 DEF Local
  <2>4. Call(p, l, loc[p].cfg, loc[p].cmd.users, TRUE, "save")
    BY Zenon, <1>3, <2>2 DEF Snapshot
  <2>5. Called(p, l, loc[p].cfg, loc[p].cmd.users, TRUE, "save")
    BY Zenon, <2>4, CallShape DEF Returns
  <2>6. rev < loc[p].cmd.rev /\ UNCHANGED <<rev, hist>>
    BY <1>1, <1>3, CommandTypes DEF Snapshot, Stale, files
  <2>7. Ahead(pc[p], loc[p])' /\ Staged(pc[p], loc[p])'
    BY <2>3, <2>5, <2>6 DEF Called, Ahead, Staged, StaticLabels
  <2> QED BY <1>1, <2>6, <2>7 DEF RevisionInv, Committed
<1>4. CASE SnapshotStamp(p)
  <2>1. Goto(p, "ok") \/ Goto(p, "err")
    BY <1>4 DEF SnapshotStamp, RevStamp
  <2>2. Ahead(pc[p], loc[p])' /\ Staged(pc[p], loc[p])'
    <3>1. Where(pc'[p], loc'[p]) \in {"ok", "err"}
      BY <2>1, GotoShape DEF Labels, PipelineLabels
    <3>2. Ahead(pc[p], loc[p])'
      BY <3>1 DEF Ahead, StaticLabels
    <3>3. Staged(pc[p], loc[p])'
      BY <3>1 DEF Staged
    <3> QED BY <3>2, <3>3
  <2>3. rev < loc[p].cmd.rev /\ loc[p].cmd.rev \in Nat
    BY <1>1, <1>4, CommandTypes DEF SnapshotStamp, Ahead, Control, Where, PipelineLabels
  <2>4. hist'.ep = hist.ep /\ hist'.snap <= rev'
    BY <1>1, <1>4, <2>3, GotoShape DEF SnapshotStamp, RevStamp, Labels, PipelineLabels
  <2> QED BY <1>1, <2>2, <2>4 DEF RevisionInv, Committed
<1> QED BY <1>2, <1>3, <1>4

(* What a step to a control point of a static revision leaves to show.     *)
LEMMA StagedStep ==
    ASSUME IInv, RevisionInv, NEW p \in Procs, lock' = p, hist' = hist, rev' = rev, Committed',
           loc[p].cmd.kind = "static", rev < loc[p].cmd.rev, loc'[p].cmd = loc[p].cmd,
           Staged(pc[p], loc[p])'
    PROVE  RevisionInv'
<1>1. Ahead(pc[p], loc[p])'
  BY DEF Ahead
<1> QED BY <1>1 DEF RevisionInv

(* Recovery puts the backup back and drops it.                             *)
LEMMA RecoveryKeepsRevision ==
    ASSUME IInv, RevisionInv, NEW p \in Procs, StaticRecover(p) \/ StaticRecovered(p) \/ StaticUnbackup(p)
    PROVE  RevisionInv'
<1>1. /\ lock = p /\ lock' = p /\ UNCHANGED <<rev, hist>> /\ loc[p] \in Local
      /\ rev \in Nat /\ Committed /\ Staged(pc[p], loc[p]) /\ Control(pc[p], loc[p]) /\ Ahead(pc[p], loc[p])
  BY Zenon, Locals, Unchanged DEF StaticRecover, StaticRecovered, StaticUnbackup, files, RevisionInv, FilesOK
<1>6. loc[p].cmd.kind = "static" /\ loc[p].cmd.rev \in Nat
  BY Zenon, <1>1, CommandTypes
     DEF StaticRecover, StaticRecovered, StaticUnbackup, Control, Where, PipelineLabels, StaticLabels
<1>2. loc[p].cmd.kind = "static" /\ rev < loc[p].cmd.rev
  <2>1. CASE StaticRecover(p)
    <3>1. rev \in Nat /\ ~(loc[p].cmd.rev <= rev)
      BY <1>1, <2>1 DEF StaticRecover, Stale
    <3> QED BY <1>6, <3>1
  <2>2. CASE StaticRecovered(p) \/ StaticUnbackup(p)
    BY Zenon, <1>1, <1>6, <2>2 DEF StaticRecovered, StaticUnbackup, Ahead, Where, PipelineLabels, StaticLabels
  <2> QED BY <2>1, <2>2
<1>3. CASE StaticRecover(p)
  <2>1. CASE sbak = NoToml
    <3>1. Goto(p, "plan") /\ UNCHANGED <<toml, loc, sbak>>
      BY Zenon, <1>3, <2>1 DEF StaticRecover
    <3>2. Where(pc'[p], loc'[p]) = "plan" /\ loc'[p] = loc[p]
      BY <3>1, GotoShape DEF Labels, PipelineLabels
    <3>3. Staged(pc[p], loc[p])' /\ Committed'
      BY <1>1, <2>1, <3>1, <3>2 DEF Staged, Committed
    <3> QED BY Zenon, <1>1, <1>2, <3>2, <3>3, StagedStep
  <2>2. CASE sbak # NoToml
    <3>1. toml' = sbak /\ Call(p, loc[p], sbak, users, TRUE, "recovered") /\ sbak' = sbak
      BY Zenon, <1>3, <2>2 DEF StaticRecover
    <3>2. Called(p, loc[p], sbak, users, TRUE, "recovered")
      BY Zenon, <1>1, <3>1, CallShape DEF Returns
    <3>3. Staged(pc[p], loc[p])' /\ Committed'
      BY Zenon, <1>1, <2>2, <3>1, <3>2 DEF Called, Staged, Committed
    <3>4. loc'[p].cmd = loc[p].cmd
      BY <3>2 DEF Called
    <3> QED BY <1>1, <1>2, <3>3, <3>4, StagedStep
  <2> QED BY <2>1, <2>2
<1>4. CASE StaticRecovered(p)
  <2>1. (Goto(p, "err") \/ Goto(p, "unbackup")) /\ UNCHANGED <<loc, toml, sbak>> /\ pc[p] = "recovered"
    BY Zenon, <1>4 DEF StaticRecovered, files
  <2>2. Where(pc'[p], loc'[p]) \in {"err", "unbackup"} /\ loc'[p] = loc[p] /\ Where(pc[p], loc[p]) = "recovered"
    <3>1. /\ "err" \in Labels \ PipelineLabels /\ "unbackup" \in Labels \ PipelineLabels
          /\ "recovered" \notin PipelineLabels
      BY Zenon DEF Labels, PipelineLabels, Returns
    <3>2. Where(pc'[p], loc'[p]) \in {"err", "unbackup"} /\ loc'[p] = loc[p]
      BY Zenon, <2>1, <3>1, GotoShape
    <3> QED BY Zenon, <2>1, <3>1, <3>2 DEF Where
  <2>3. Staged(pc[p], loc[p])' /\ Committed'
    BY <1>1, <2>1, <2>2 DEF Staged, Committed
  <2> QED BY <1>1, <1>2, <2>2, <2>3, StagedStep
<1>5. CASE StaticUnbackup(p)
  <2>1. Goto(p, "plan") /\ UNCHANGED <<loc, toml>> /\ sbak' = NoToml /\ pc[p] = "unbackup"
    BY <1>5 DEF StaticUnbackup
  <2>2. Where(pc'[p], loc'[p]) = "plan" /\ loc'[p] = loc[p] /\ Where(pc[p], loc[p]) = "unbackup"
    <3>1. "plan" \in Labels \ PipelineLabels /\ "unbackup" \notin PipelineLabels
      BY Zenon DEF Labels, PipelineLabels
    <3>2. Where(pc'[p], loc'[p]) = "plan" /\ loc'[p] = loc[p]
      BY Zenon, <2>1, <3>1, GotoShape
    <3> QED BY Zenon, <2>1, <3>1, <3>2 DEF Where
  <2>3. Staged(pc[p], loc[p])' /\ Committed'
    BY <1>1, <2>1, <2>2 DEF Staged, Committed
  <2> QED BY Zenon, <1>1, <1>2, <2>2, <2>3, StagedStep
<1> QED BY <1>3, <1>4, <1>5

(* The plan keeps a backup, the candidate leaves it alone.                 *)
LEMMA ApplyKeepsRevision ==
    ASSUME IInv, RevisionInv, NEW p \in Procs, StaticPlan(p) \/ StaticStage(p) \/ StaticApplied(p)
    PROVE  RevisionInv'
<1>1. /\ lock = p /\ lock' = p /\ hist' = hist /\ loc[p] \in Local /\ users \in Store
      /\ toml \in Settings /\ hist \in [snap : Nat, ep : Nat]
      /\ rev \in Nat /\ hist.snap <= rev /\ Committed /\ Staged(pc[p], loc[p]) /\ Control(pc[p], loc[p])
      /\ Ahead(pc[p], loc[p])
  BY Zenon, Locals, Unchanged DEF StaticPlan, StaticStage, StaticApplied, files, RevisionInv, FilesOK
<1>2. loc[p].cmd.kind = "static" /\ loc[p].cmd.rev \in Nat /\ rev < loc[p].cmd.rev
  BY Zenon, <1>1, CommandTypes
     DEF StaticPlan, StaticStage, StaticApplied, Control, Ahead, Where, PipelineLabels, StaticLabels
<1>3. CASE StaticPlan(p)
  <2>1. sbak = NoToml /\ toml' = toml
    BY <1>1, <1>3 DEF StaticPlan, Staged, Where, PipelineLabels
  <2>2. CASE toml.ep = loc[p].cmd.ep
    <3>1. /\ Goto(p, "ok") \/ Goto(p, "err")
          /\ rev' \in {rev, loc[p].cmd.rev} /\ sbak' = sbak
      BY <1>3, <2>2 DEF StaticPlan, RevStamp
    <3>2. Where(pc'[p], loc'[p]) \in {"ok", "err"}
      BY <3>1, GotoShape DEF Labels, PipelineLabels
    <3>3. Ahead(pc[p], loc[p])' /\ Staged(pc[p], loc[p])' /\ Committed'
      BY <1>1, <2>1, <3>1, <3>2 DEF Ahead, Staged, Committed, StaticLabels
    <3>4. hist'.snap = hist.snap /\ hist.snap \in Nat /\ rev \in Nat /\ hist.snap <= rev
      BY <1>1
    <3>5. rev' = rev \/ rev' = loc[p].cmd.rev
      BY <3>1
    <3>6. rev < loc[p].cmd.rev /\ loc[p].cmd.rev \in Nat
      BY <1>2
    <3>7. hist'.snap <= rev'
      BY <3>4, <3>5, <3>6
    <3> QED BY Zenon, <1>1, <3>3, <3>7 DEF RevisionInv
  <2>3. CASE toml.ep # loc[p].cmd.ep
    <3>1. /\ sbak' = toml /\ Goto(p, "stage") /\ rev' = rev
          /\ loc' = [loc EXCEPT ![p].orig = toml, ![p].prev = users]
      BY <1>3, <2>3 DEF StaticPlan
    <3>2. PICK l \in Local : l = [loc[p] EXCEPT !.orig = toml, !.prev = users]
      BY Zenon, <1>1 DEF Local
    <3>3. l.orig = toml /\ l.cmd = loc[p].cmd
      BY <1>1, <3>2 DEF Local
    <3>4. loc'[p] = l /\ Where(pc'[p], loc'[p]) = "stage"
      BY <3>1, <3>2, GotoShape DEF IInv, TypeOK, ProcsOK, Labels, PipelineLabels
    <3>5. Staged(pc[p], loc[p])' /\ Committed'
      BY <1>1, <2>1, <3>1, <3>3, <3>4, NoTomlIsNone DEF Staged, Committed
    <3> QED BY Zenon, <1>1, <1>2, <3>1, <3>3, <3>4, <3>5, StagedStep
  <2> QED BY <2>2, <2>3
<1>4. CASE StaticStage(p)
  <2>1. sbak # NoToml /\ sbak = toml /\ loc[p].orig = toml /\ rev' = rev
    BY <1>1, <1>4 DEF StaticStage, Staged, Where, PipelineLabels
  <2>2. PICK candidate : candidate = [toml EXCEPT !.ep = loc[p].cmd.ep]
    BY Zenon
  <2>3. CASE sbak' = NoToml /\ Goto(p, "err") /\ UNCHANGED <<toml, loc>>
    <3>1. Where(pc'[p], loc'[p]) = "err" /\ loc'[p] = loc[p]
      BY <2>3, GotoShape DEF Labels, PipelineLabels
    <3>2. Staged(pc[p], loc[p])' /\ Committed'
      BY Zenon, <1>1, <2>1, <2>3, <3>1 DEF Staged, Committed
    <3> QED BY <1>1, <1>2, <2>1, <3>1, <3>2, StagedStep
  <2>4. CASE toml' = candidate /\ sbak' = sbak
             /\ Call(p, loc[p], candidate, loc[p].prev, TRUE, "static_applied")
    <3>1. Called(p, loc[p], candidate, loc[p].prev, TRUE, "static_applied")
      BY Zenon, <1>1, <2>4, CallShape DEF Returns
    <3>2. loc'[p].cmd = loc[p].cmd /\ loc'[p].orig = loc[p].orig /\ Where(pc'[p], loc'[p]) = "static_applied"
      BY <3>1 DEF Called
    <3>3. Staged(pc[p], loc[p])' /\ Committed'
      BY <1>1, <2>1, <2>4, <3>2 DEF Staged, Committed
    <3> QED BY Zenon, <1>1, <1>2, <2>1, <3>2, <3>3, StagedStep
  <2> QED BY Zenon, <1>4, <2>2, <2>3, <2>4 DEF StaticStage
<1>5. CASE StaticApplied(p)
  <2>1. /\ UNCHANGED <<toml, sbak, rev>> /\ pc[p] = "static_applied"
        /\ Goto(p, "roll") \/ Goto(p, "static_stamp")
        /\ loc' = loc \/ loc' = [loc EXCEPT ![p].touched = TRUE]
    BY Zenon, <1>5 DEF StaticApplied, files
  <2>2. PICK l \in Local : l = [loc[p] EXCEPT !.touched = TRUE]
    BY Zenon, <1>1 DEF Local
  <2>3. loc'[p].orig = loc[p].orig /\ loc'[p].cmd = loc[p].cmd
    <3>1. l.orig = loc[p].orig /\ l.cmd = loc[p].cmd
      BY <1>1, <2>2 DEF Local
    <3>2. loc'[p] = loc[p] \/ loc'[p] = l
      BY Zenon, <2>1, <2>2 DEF IInv, TypeOK, ProcsOK
    <3> QED BY <3>1, <3>2
  <2>4. Where(pc'[p], loc'[p]) \in {"roll", "static_stamp"} /\ Where(pc[p], loc[p]) = "static_applied"
    BY <2>1, GotoShape DEF Where, Labels, PipelineLabels
  <2>5. Staged(pc[p], loc[p])' /\ Committed'
    BY <1>1, <2>1, <2>3, <2>4 DEF Staged, Committed
  <2> QED BY <1>1, <1>2, <2>1, <2>3, <2>5, StagedStep
<1> QED BY <1>3, <1>4, <1>5

(* The commit drops the backup with the revision it was kept for; the      *)
(* rollback drops it once deployment.toml is what it was.                  *)
LEMMA EndKeepsRevision ==
    ASSUME IInv, RevisionInv, NEW p \in Procs,
           StaticStamp(p) \/ StaticCommit(p) \/ StaticRoll(p) \/ StaticRolled(p)
    PROVE  RevisionInv'
<1>1. /\ lock = p /\ lock' = p /\ loc[p] \in Local
      /\ toml \in Settings /\ hist \in [snap : Nat, ep : Nat]
      /\ rev \in Nat /\ hist.snap <= rev /\ Committed /\ Staged(pc[p], loc[p]) /\ Control(pc[p], loc[p])
      /\ Ahead(pc[p], loc[p])
  BY Zenon, Locals, Unchanged DEF StaticStamp, StaticCommit, StaticRoll, StaticRolled, files, RevisionInv, FilesOK
<1>2. loc[p].cmd.kind = "static" /\ loc[p].cmd.rev \in Nat
  BY Zenon, <1>1, CommandTypes
     DEF StaticStamp, StaticCommit, StaticRoll, StaticRolled, Control, Where, PipelineLabels, StaticLabels
<1>3. CASE StaticStamp(p)
  <2>1. /\ Goto(p, "commit") \/ Goto(p, "err")
        /\ rev' \in {rev, loc[p].cmd.rev} /\ UNCHANGED <<toml, sbak, hist>>
        /\ pc[p] = "static_stamp"
    BY Zenon, <1>3 DEF StaticStamp, RevStamp
  <2>2. Where(pc'[p], loc'[p]) \in {"commit", "err"}
    BY <2>1, GotoShape DEF Labels, PipelineLabels
  <2>3. Ahead(pc[p], loc[p])' /\ Staged(pc[p], loc[p])' /\ Committed'
    BY Zenon, <1>1, <2>1, <2>2 DEF Ahead, Staged, Committed, StaticLabels
  <2>4. rev < loc[p].cmd.rev
    BY Zenon, <1>1, <2>1 DEF Ahead, Where, PipelineLabels, StaticLabels
  <2>5. hist'.snap <= rev'
    <3>1. hist'.snap = hist.snap /\ hist.snap \in Nat
      BY Zenon, <1>1, <2>1
    <3>2. rev' = rev \/ rev' = loc[p].cmd.rev
      BY <2>1
    <3>3. rev \in Nat /\ hist.snap <= rev
      BY <1>1
    <3> QED BY <1>2, <2>4, <3>1, <3>2, <3>3
  <2> QED BY Zenon, <1>1, <2>3, <2>5 DEF RevisionInv
<1>4. CASE StaticCommit(p)
  <2>1. /\ Goto(p, "ok") /\ UNCHANGED <<toml, rev>> /\ sbak' = NoToml
        /\ hist' = [hist EXCEPT !.ep = toml.ep]
    BY <1>4 DEF StaticCommit
  <2>2. hist'.ep = toml.ep /\ hist'.snap = hist.snap
    BY <1>1, <2>1
  <2>3. Where(pc'[p], loc'[p]) = "ok"
    BY <2>1, GotoShape DEF Labels, PipelineLabels
  <2>4. Ahead(pc[p], loc[p])' /\ Staged(pc[p], loc[p])' /\ Committed'
    BY <2>1, <2>2, <2>3 DEF Ahead, Staged, Committed, StaticLabels
  <2> QED BY <1>1, <2>1, <2>2, <2>4 DEF RevisionInv
<1>5. CASE StaticRoll(p)
  <2>1. /\ sbak # NoToml /\ sbak = loc[p].orig /\ UNCHANGED <<sbak, rev, hist>> /\ rev < loc[p].cmd.rev
    BY <1>1, <1>5 DEF StaticRoll, Staged, Ahead, Where, PipelineLabels, StaticLabels
  <2>2. CASE toml' = loc[p].orig /\ Call(p, loc[p], loc[p].orig, loc[p].prev, TRUE, "rolled")
    <3>1. Called(p, loc[p], loc[p].orig, loc[p].prev, TRUE, "rolled")
      BY Zenon, <1>1, <2>2, CallShape DEF Returns
    <3>2. loc'[p].cmd = loc[p].cmd /\ loc'[p].orig = loc[p].orig /\ Where(pc'[p], loc'[p]) = "rolled"
      BY <3>1 DEF Called
    <3>3. Staged(pc[p], loc[p])' /\ Committed'
      BY <1>1, <2>1, <2>2, <3>2 DEF Staged, Committed
    <3> QED BY Zenon, <1>1, <1>2, <2>1, <3>2, <3>3, StagedStep
  <2>3. CASE loc' = [loc EXCEPT ![p].ret = "err", ![p].orig = NoToml] /\ Goto(p, "rolled") /\ UNCHANGED toml
    <3>1. PICK m \in Local : m = [loc[p] EXCEPT !.ret = "err", !.orig = NoToml]
      BY Zenon, <1>1 DEF Local
    <3>2. m.orig = NoToml /\ m.cmd = loc[p].cmd
      BY <1>1, <3>1 DEF Local
    <3>5. loc'[p] = m
      BY <2>3, <3>1 DEF IInv, TypeOK, ProcsOK
    <3>3. loc'[p] = m /\ Where(pc'[p], loc'[p]) = "rolled"
      BY Zenon, <2>3, <3>5, GotoShape DEF Labels, Returns, PipelineLabels
    <3>4. Staged(pc[p], loc[p])'
      BY <2>1, <3>2, <3>3 DEF Staged
    <3>6. Committed'
      BY <1>1, <2>1, <2>3 DEF Committed
    <3> QED BY <1>1, <1>2, <2>1, <3>2, <3>3, <3>4, <3>6, StagedStep
  <2> QED BY Zenon, <1>5, <2>2, <2>3 DEF StaticRoll
<1>6. CASE StaticRolled(p)
  <2>1. /\ Goto(p, "err") /\ UNCHANGED <<toml, rev, hist>>
        /\ sbak' = IF loc[p].orig = NoToml THEN sbak ELSE NoToml
        /\ sbak # NoToml /\ (loc[p].orig = NoToml \/ (toml = loc[p].orig /\ sbak = loc[p].orig))
    BY Zenon, <1>1, <1>6 DEF StaticRolled, Staged, Where, PipelineLabels
  <2>2. Where(pc'[p], loc'[p]) = "err"
    BY <2>1, GotoShape DEF Labels, PipelineLabels
  <2>3. Ahead(pc[p], loc[p])' /\ Staged(pc[p], loc[p])'
    BY <2>2 DEF Ahead, Staged, StaticLabels
  <2>4. Committed'
    BY <1>1, <2>1 DEF Committed
  <2> QED BY Zenon, <1>1, <2>1, <2>3, <2>4 DEF RevisionInv
<1> QED BY <1>3, <1>4, <1>5, <1>6

(* What the environment does and how processes come and go concerns no     *)
(* revision.                                                               *)
LEMMA OutsideKeepsRevision ==
    ASSUME IInv, RevisionInv,
           \/ Environment
           \/ UNCHANGED vars
           \/ \E p \in Procs : \/ \E cmd \in Commands : Start(p, cmd)
                               \/ TimerFires(p) \/ Acquire(p) \/ Finish(p) \/ Kill(p) \/ TomlUnwritten(p)
    PROVE  RevisionInv'
<1>1. CASE Environment \/ UNCHANGED vars
  <2>1. UNCHANGED <<toml, sbak, rev, hist, lock, pc, loc>>
    BY <1>1 DEF Environment, ServiceRestart, Expiry, vars, files
  <2> QED BY Zenon, <2>1 DEF RevisionInv, Committed, Ahead, Staged
<1>2. ASSUME NEW p \in Procs, NEW cmd, Begin(p, cmd)
      PROVE  RevisionInv'
  <2>1. UNCHANGED <<toml, sbak, rev, hist, lock>> /\ Goto(p, "lock")
    BY <1>2 DEF Begin, files
  <2>2. CASE lock = p
    BY Zenon, <2>1, <2>2, GotoShape, UnstagedStep DEF Unstaged, Labels, PipelineLabels
  <2>3. ASSUME lock # p, NEW q \in Procs, lock = q
        PROVE  pc'[q] = pc[q] /\ loc'[q] = loc[q]
    BY <1>2, <2>3 DEF Begin, Goto, IInv, TypeOK, ProcsOK
  <2> QED BY ZenonT(30), <2>1, <2>2, <2>3 DEF RevisionInv, Committed, Ahead, Staged
<1>3. ASSUME NEW p \in Procs, Acquire(p) \/ TomlUnwritten(p)
      PROVE  RevisionInv'
  <2>1. UNCHANGED <<toml, sbak, rev, hist>> /\ (Goto(p, "load") \/ Goto(p, "err")) /\ lock' = p
    BY <1>3, Locals DEF Acquire, TomlUnwritten, files
  <2> QED BY SMTT(30), <2>1, GotoShape, UnstagedStep DEF Unstaged, Labels, PipelineLabels
<1>4. ASSUME NEW p \in Procs, Finish(p) \/ Kill(p)
      PROVE  RevisionInv'
  <2>1. UNCHANGED <<toml, sbak, rev, hist>> /\ Exit(p)
    BY <1>4 DEF Finish, Kill, files
  <2>2. ASSUME NEW q \in Procs, lock' = q
        PROVE  lock = q /\ pc'[q] = pc[q] /\ loc'[q] = loc[q]
    BY <2>1, <2>2, BoundsAssumption DEF Exit, IInv, TypeOK, ProcsOK
  <2> QED BY ZenonT(30), <2>1, <2>2 DEF RevisionInv, Committed, Ahead, Staged
<1> QED BY <1>1, <1>2, <1>3, <1>4 DEF Start, TimerFires

(* Every step preserves the invariant.                                     *)
LEMMA NextKeepsRevision == IInv /\ RevisionInv /\ [Next]_vars => RevisionInv'
<1> SUFFICES ASSUME IInv, RevisionInv, [Next]_vars PROVE RevisionInv'
  OBVIOUS
<1>1. ASSUME NEW p \in Procs, Proceed(p)
      PROVE  RevisionInv'
  BY <1>1, OutsideKeepsRevision, UsersKeepRevision, EgressKeepsRevision, SnapshotKeepsRevision,
     RecoveryKeepsRevision, ApplyKeepsRevision, EndKeepsRevision, PipelineKeepsRevision DEF Proceed
<1> QED BY <1>1, OutsideKeepsRevision DEF Next

(* A new node has no revision and no backup.                               *)
LEMMA InitRevision == Init => RevisionInv
<1> SUFFICES ASSUME Init PROVE RevisionInv
  OBVIOUS
<1>1. sbak = NoToml /\ toml = settings /\ rev = 0 /\ hist = [snap |-> 0, ep |-> settings.ep] /\ lock = Free
  BY DEF Init
<1>2. hist.snap <= rev
  BY <1>1
<1>3. Committed
  BY <1>1 DEF Committed
<1>4. \A p \in Procs : lock # p
  BY <1>1, BoundsAssumption
<1> QED BY <1>2, <1>3, <1>4 DEF RevisionInv

(* A process leaves the point where a new store is saved by saving it, or  *)
(* by being killed.                                                        *)
LEMMA LeavesSave ==
    ASSUME IInv, [Next]_vars, NEW p \in Procs, pc[p] = "save", pc'[p] \notin {"save", "idle"}
    PROVE  Save(p)
<1>1. \E q \in Procs : (\E cmd \in Commands : Start(q, cmd)) \/ TimerFires(q) \/ Proceed(q) \/ Kill(q)
  BY DEF Next, Environment, ServiceRestart, Expiry, vars
<1>2. (\E cmd \in Commands : Start(p, cmd)) \/ TimerFires(p) \/ Proceed(p) \/ Kill(p)
  BY <1>1, MovesOne
<1>3. ~Kill(p) /\ ~TimerFires(p) /\ ~\E cmd \in Commands : Start(p, cmd)
  BY DEF Kill, Exit, TimerFires, Start, Begin, IInv, TypeOK, ProcsOK
<1>4. ~Pipeline(p)
  BY PipelineShape DEF PipelineLabels
<1>5. ~(Acquire(p) \/ Finish(p) \/ UserCommand(p) \/ Publish(p) \/ Checked(p) \/ Unsaved(p) \/ Reconcile(p)
        \/ Reconciled(p) \/ Egress(p) \/ EgressApplied(p) \/ EgressRestored(p) \/ SkipStale(p) \/ Snapshot(p)
        \/ SnapshotStamp(p))
  BY DEF Acquire, Finish, UserCommand, Publish, Checked, Unsaved, Reconcile, Reconciled, Egress,
         EgressApplied, EgressRestored, SkipStale, Snapshot, SnapshotStamp
<1>6. ~(StaticRecover(p) \/ StaticRecovered(p) \/ StaticUnbackup(p) \/ StaticPlan(p) \/ StaticStage(p)
        \/ StaticApplied(p) \/ StaticStamp(p) \/ StaticCommit(p) \/ StaticRoll(p) \/ StaticRolled(p)
        \/ TomlUnwritten(p))
  BY DEF StaticRecover, StaticRecovered, StaticUnbackup, StaticPlan, StaticStage, StaticApplied,
         StaticStamp, StaticCommit, StaticRoll, StaticRolled, TomlUnwritten
<1> QED BY Zenon, <1>2, <1>3, <1>4, <1>5, <1>6 DEF Proceed

(* cmd_apply_revision and recover_interrupted_apply: what the revision     *)
(* stamp, deployment.toml and its backup say, at every point of every      *)
(* command, wherever processes are killed.                                 *)
THEOREM RevisionInvariance == Spec => []RevisionInv
BY InitInv, NextKeepsInv, InitRevision, NextKeepsRevision, PTL DEF Spec

(* recover_interrupted_apply: whatever failed or was killed, a static      *)
(* revision is planned against the endpoints of the last one that got to   *)
(* its end, because its backup outlives every other one.                   *)
THEOREM PlansAreOnCommitted == Spec => []PlannedOnCommitted
<1>1. IInv /\ RevisionInv => PlannedOnCommitted
  BY Locals DEF RevisionInv, PlannedOnCommitted, Staged, Committed, Where, PipelineLabels
<1> QED BY <1>1, Invariance, RevisionInvariance, PTL

(* cmd_apply_revision: the lock is held from the comparison of revisions   *)
(* to the stamp, so no older store replaces that of a recorded revision.   *)
THEOREM NewestStoreWins == Spec => NewestSnapshotWins
<1>1. IInv /\ RevisionInv /\ [Next]_vars =>
         [\A p \in Procs : pc[p] = "save" /\ pc'[p] = "revstamp" => loc[p].cmd.rev >= hist.snap]_vars
  <2> SUFFICES ASSUME IInv, RevisionInv, [Next]_vars, NEW p \in Procs, pc[p] = "save", pc'[p] = "revstamp"
               PROVE  loc[p].cmd.rev >= hist.snap
    OBVIOUS
  <2>1. Save(p)
    BY LeavesSave
  <2>2. /\ loc[p].cmd.kind = "snapshot" /\ loc[p].cmd.rev \in Nat /\ lock = p
        /\ rev \in Nat /\ hist \in [snap : Nat, ep : Nat]
    <3>1. ~Goto(p, "ok") /\ ~Goto(p, "err") /\ ~Goto(p, "render")
      BY DEF Goto, IInv, TypeOK, ProcsOK
    <3>2. loc[p].cmd.kind = "snapshot"
      BY <2>1, <3>1 DEF Save, Call
    <3> QED BY <3>2, Locals, CommandTypes, Unchanged DEF FilesOK
  <2>3. rev < loc[p].cmd.rev /\ hist.snap <= rev
    BY <2>2 DEF RevisionInv, Ahead, Where, PipelineLabels
  <2> QED BY <2>2, <2>3
<1> QED BY <1>1, Invariance, RevisionInvariance, PTL DEF Spec, NewestSnapshotWins

==============================================================================
