-------------------------- MODULE KeyMaterialProofs --------------------------
(***************************************************************************)
(* The material that last worked is never lost, and a rotation or restore  *)
(* leaves what it reports, for any number of commands, failures and kills. *)
(*                                                                         *)
(* PreviousKept only relates the files and their copies to the last commit.*)
(* What carries it through a transaction is what the files were when it    *)
(* began: a file is copied before it is replaced (Copied), and from then   *)
(* on until the commit it can be had back (Recoverable).  The one command  *)
(* that copies nothing, init, runs only where no key has ever worked       *)
(* (NoKeyYet).                                                             *)
(*                                                                         *)
(* CommittedIsLive and RestoredIsPrevious are about the end of a           *)
(* transaction.  TxInv follows it there: on the way forward the new keyset *)
(* is coherent, then rendered, loaded and served; on the way back the      *)
(* files are restored one by one, and the previous config is where the     *)
(* rollback will look for it.                                              *)
(***************************************************************************)
EXTENDS KeyMaterial, TLAPS

Applying == {"write", "load", "prove", "reinstate", "sub"}
Undoing == {"undo", "undotoml", "undoconf", "undoload", "undosub"}
Hairpins == {"set", "clear"}

Was(f) == op.before.file[f]
Mine == Touches(op.name) \cap Archived

IsOp(o) ==
    o = [name |-> o.name, cand |-> o.cand, before |-> o.before, i |-> o.i,
         applied |-> o.applied, undo |-> o.undo, ok |-> o.ok, stuck |-> o.stuck]

Typed ==
    /\ file \in [Files -> Nat] /\ rbak \in [Files -> Nat] /\ good \in [Files -> Nat]
    /\ arch \in [Files -> Nat] /\ fresh \in Nat
    /\ IsOp(op) /\ op.undo \in BOOLEAN
    /\ op.before.file \in [Files -> Nat]

Kept == \A f \in Archived : good[f] \in {0, file[f], rbak[f]}

Copied(f) == rbak[f] = Was(f) /\ good[f] \in {0, Was(f)}
Recoverable(f) ==
    /\ good[f] \in {0, Was(f)}
    /\ rbak[f] \in {0, Was(f)}
    /\ Was(f) \in {0, file[f], rbak[f]}

(* No key material has been committed yet.                                 *)
Unborn == \A f \in {"priv", "pub", "sid", "obfs"} : good[f] = 0

(* The steps of a transaction: making the copies, installing the new       *)
(* contents, applying them or putting the old ones back, and committing.   *)
Copying ==
    /\ pc = "backup" /\ op.name \in Transactions \cup Hairpins /\ ~op.undo
    /\ op.i \in DOMAIN Material(op.name)
    /\ file = op.before.file
    /\ \A j \in DOMAIN Material(op.name) :
          j < op.i => rbak[Material(op.name)[j]] = file[Material(op.name)[j]]
Installing ==
    /\ pc = "install" /\ op.i \in DOMAIN Material(op.name) /\ ~op.undo
    /\ \/ op.name = "init" /\ Unborn
       \/ /\ op.name \in Transactions \cup Hairpins
          /\ \A f \in Mine : Copied(f)
          /\ op.name = "obfs" => file = op.before.file
Changing ==
    /\ pc \in Applying \cup Undoing /\ op.name \in Transactions
    /\ \A f \in Mine : Recoverable(f)
    /\ pc \in {"write", "load", "prove", "sub"} /\ ~op.undo => file["priv"] # 0
    /\ pc = "sub" \/ (Direct(op.name) /\ pc \in Applying) => ~op.undo
    /\ pc = "undo" => op.undo
Committing ==
    /\ pc = "commit" /\ op.name \in Transactions
    /\ \A f \in Mine : good[f] = file[f]

Phase ==
    \/ pc = "idle" /\ op = NoOp
    \/ pc = "done" /\ op.name = "init" /\ Unborn /\ file["priv"] # 0
    \/ Copying \/ Installing \/ Changing \/ Committing
    \/ /\ pc \in (Applying \ {"sub"}) \cup Undoing \cup {"toml", "commit"}
       /\ op.name \in Hairpins
    \/ pc \in (Applying \ {"sub"}) \cup {"refresh"} /\ op.name = "render"

(* The control points that go through the files, and the new contents.     *)
Listing ==
    /\ pc \in {"undo", "commit"} => op.i \in DOMAIN Material(op.name)
    /\ op.name = "obfs" => Was("priv") # 0
    /\ pc \in {"backup", "install"} => \A f \in DOMAIN op.cand : op.cand[f] \in Nat
    /\ pc \in {"backup", "install"} /\ "priv" \in Touches(op.name) =>
          "priv" \in DOMAIN op.cand /\ op.cand["priv"] # 0
    /\ pc = "install" =>
          \A j \in DOMAIN Material(op.name) :
             j < op.i /\ Material(op.name)[j] = "priv" => file["priv"] # 0

NoKeyYet ==
    /\ file["priv"] = 0 => Unborn
    /\ op.name \in Transactions /\ pc # "commit" /\ Was("priv") = 0 => Unborn

IInv == Typed /\ Kept /\ Phase /\ Listing /\ NoKeyYet

-----------------------------------------------------------------------------
(* The lists of files: not empty, the same ones in either order, and with  *)
(* the private key in the ones that replace it.                            *)
LEMMA Lists ==
    ASSUME NEW n \in Transactions \cup Hairpins \cup {"init"}
    PROVE  /\ Len(Material(n)) \in Nat \ {0}
           /\ DOMAIN Material(n) = 1 .. Len(Material(n))
           /\ Touches(n) \subseteq Files
           /\ \A j \in DOMAIN Material(n) : Material(n)[j] \in Touches(n)
           /\ \A f \in Touches(n) : \E j \in DOMAIN Material(n) : Material(n)[j] = f
           /\ n # "init" => \A j \in DOMAIN Material(n) : Rewound(n)[j] \in Touches(n)
<1> USE DEF Transactions, Hairpins
<1>1. \A j \in DOMAIN Material(n) : Material(n)[j] \in Touches(n)
    BY DEF Touches, Range
<1>2. \A f \in Touches(n) : \E j \in DOMAIN Material(n) : Material(n)[j] = f
    BY DEF Touches, Range
<1>3. Len(Material(n)) \in Nat \ {0} /\ DOMAIN Material(n) = 1 .. Len(Material(n))
    <2>1. CASE n = "init"
        BY <2>1 DEF Material
    <2>2. CASE n = "rotate"
        BY <2>2 DEF Material
    <2>3. CASE n = "obfs"
        BY <2>3 DEF Material
    <2>4. CASE n = "restore"
        BY <2>4 DEF Material
    <2>5. CASE n \in {"set", "clear"}
        <3>1. Material(n) = <<"uuid">>
            BY <2>5 DEF Material
        <3> QED BY <3>1
    <2> QED BY <2>1, <2>2, <2>3, <2>4, <2>5
<1>4. \A j \in DOMAIN Material(n) : Material(n)[j] \in Files
    BY DEF Material, Files
<1>5. ASSUME n # "init", NEW j \in DOMAIN Material(n) PROVE Rewound(n)[j] \in Touches(n)
    <2>1. CASE n # "restore"
        BY <1>1, <2>1 DEF Rewound
    <2>2. CASE n = "restore"
        <3> DEFINE m == Material(n)
        <3>1. m = <<"users", "priv", "pub", "sid", "obfs">>
            BY <2>2 DEF Material
        <3>2. Rewound(n) = <<"priv", "pub", "sid", "obfs", "users">>
            BY <2>2 DEF Rewound
        <3>3. {m[1], m[2], m[3], m[4], m[5]} \subseteq Touches(n)
            BY <1>1, <3>1
        <3>4. j \in 1 .. 5
            BY <1>5, <3>1
        <3>5. j \in {1, 2, 3, 4, 5}
            BY <3>4
        <3> HIDE DEF m
        <3> QED BY <3>1, <3>2, <3>3, <3>5
    <2> QED BY <2>1, <2>2
<1> QED BY <1>1, <1>2, <1>3, <1>4, <1>5

-----------------------------------------------------------------------------
(* A command that is over leaves nothing to remember but the files.        *)
LEMMA Over ==
    ASSUME file' \in [Files -> Nat], rbak' \in [Files -> Nat], good' \in [Files -> Nat],
           arch' \in [Files -> Nat], fresh' \in Nat,
           Kept', file'["priv"] = 0 => Unborn',
           pc' = "idle", op' = NoOp
    PROVE  IInv'
<1>1. IsOp(NoOp) /\ NoOp.undo \in BOOLEAN /\ NoOp.before.file = Nothing /\ NoOp.name = "none"
    BY DEF IsOp, NoOp
<1>2. Typed'
    <2>1. Nothing \in [Files -> Nat]
        BY DEF Nothing
    <2>2. IsOp(op)'
        BY <1>1 DEF IsOp
    <2>3. (op'.undo \in BOOLEAN) /\ op'.before.file \in [Files -> Nat]
        BY <1>1, <2>1
    <2> QED BY <2>2, <2>3 DEF Typed
<1>3. Phase'
    BY DEF Phase
<1>4. Listing' /\ NoKeyYet'
    BY <1>1 DEF Listing, NoKeyYet, Transactions
<1> QED BY <1>2, <1>3, <1>4 DEF IInv

(* The files stay as they are and the command is over.                     *)
LEMMA Finished ==
    ASSUME IInv, UNCHANGED <<file, rbak, good, fresh>>, arch' \in [Files -> Nat],
           pc' = "idle", op' = NoOp
    PROVE  IInv'
<1>1. Kept'
    BY DEF IInv, Kept
<1>2. file'["priv"] = 0 => Unborn'
    BY DEF IInv, NoKeyYet, Unborn
<1> QED BY <1>1, <1>2, Over DEF IInv, Typed

(* What a step of the command under way leaves of it.                      *)
SameCommand ==
    /\ IsOp(op') /\ op'.undo \in BOOLEAN
    /\ op'.name = op.name /\ op'.cand = op.cand /\ op'.before = op.before

(* A step from one control point to another that changes no file.          *)
LEMMA Moves ==
    ASSUME IInv, SameCommand, UNCHANGED <<file, rbak, good, arch, fresh>>,
           pc \in Applying \cup Undoing,
           \/ pc' \in (Applying \ {"sub"}) \cup Undoing
           \/ pc' = "sub" /\ op.name \in Transactions
           \/ pc' = "commit" /\ op.name \in Hairpins
           \/ pc' = "refresh" /\ op.name = "render",
           pc' \in Undoing => op.name # "render",
           pc' \in {"write", "load", "prove", "sub"} /\ ~op'.undo =>
              pc \in {"write", "load", "prove", "sub"} /\ ~op.undo,
           pc' = "sub" \/ (Direct(op.name) /\ pc' \in Applying) => ~op'.undo,
           pc' = "undo" => op'.undo,
           pc' \in {"undo", "commit"} => op'.i = 1
    PROVE  IInv'
<1>1. Typed' /\ Kept'
    BY DEF IInv, Typed, Kept, SameCommand
<1>2. \/ Changing /\ op.name \in Transactions /\ pc' # "commit"
      \/ op.name \in Hairpins \cup {"render"}
    <2>1. Changing \/ op.name \in Hairpins \cup {"render"}
        BY DEF IInv, Phase, Copying, Installing, Committing, Applying, Undoing
    <2>2. Changing => op.name \in Transactions
        BY DEF Changing
    <2>3. op.name \in Transactions => pc' # "commit"
        BY DEF Transactions, Hairpins, Applying, Undoing
    <2> QED BY <2>1, <2>2, <2>3
<1>3. Phase'
    <2>1. CASE Changing /\ op.name \in Transactions /\ pc' # "commit"
        <3>1. pc' \in Applying \cup Undoing
            BY <2>1 DEF Applying, Hairpins, Transactions
        <3>2. Mine' = Mine /\ \A f : Was(f)' = Was(f)
            BY DEF Mine, Was, SameCommand
        <3>3. \A f \in Mine' : Recoverable(f)'
            BY <2>1, <3>2 DEF Changing, Recoverable
        <3>4. pc' \in {"write", "load", "prove", "sub"} /\ ~op'.undo => file["priv"] # 0
            BY <2>1 DEF Changing
        <3>5. op'.name = op.name
            BY DEF SameCommand
        <3> QED BY <2>1, <3>1, <3>3, <3>4, <3>5 DEF Phase, Changing
    <2>2. CASE op.name \in Hairpins
        BY <2>2 DEF Phase, SameCommand, Hairpins, Transactions
    <2>3. CASE op.name = "render"
        BY <2>3 DEF Phase, SameCommand, Hairpins, Transactions, Undoing, Applying
    <2> QED BY <1>2, <2>1, <2>2, <2>3
<1>4. Listing'
    <2>1. ASSUME pc' \in {"undo", "commit"} PROVE op'.i \in DOMAIN Material(op'.name)
        <3>1. op.name \in Transactions \cup Hairpins /\ op'.i = 1 /\ op'.name = op.name
            BY <1>2, <2>1 DEF Undoing, SameCommand, Applying, Hairpins
        <3> QED BY <3>1, Lists
    <2>2. pc' \notin {"backup", "install"}
        BY DEF Applying, Undoing
    <2>3. op'.name = "obfs" => Was("priv")' # 0
        BY DEF IInv, Listing, SameCommand, Was
    <2> QED BY <2>1, <2>2, <2>3 DEF Listing
<1>5. NoKeyYet'
    <2>1. pc # "commit" /\ op'.name = op.name /\ Was("priv")' = Was("priv") /\ Unborn' = Unborn
        BY DEF Applying, Undoing, SameCommand, Was, Unborn
    <2> QED BY <2>1 DEF IInv, NoKeyYet
<1> QED BY <1>1, <1>3, <1>4, <1>5 DEF IInv

(* The kinds of command at the control points of the pipeline.             *)
LEMMA Kinds ==
    ASSUME IInv, pc \in Applying \cup Undoing
    PROVE  /\ op.name \in Transactions \cup Hairpins \cup {"render"}
           /\ op.name \in Transactions => Changing
           /\ pc \in Undoing \/ pc = "sub" => op.name # "render"
           /\ pc = "sub" => op.name \in Transactions
           /\ IsOp(op) /\ op.undo \in BOOLEAN
<1>1. Changing \/ (op.name \in Hairpins /\ pc # "sub") \/ (op.name = "render" /\ pc \notin Undoing \cup {"sub"})
    BY DEF IInv, Phase, Copying, Installing, Committing, Applying, Undoing
<1>2. Changing => op.name \in Transactions
    BY DEF Changing
<1>3. "render" \notin Transactions \cup Hairpins /\ Transactions \cap Hairpins = {}
    BY DEF Transactions, Hairpins
<1>4. IsOp(op) /\ op.undo \in BOOLEAN
    BY DEF IInv, Typed
<1> QED BY <1>1, <1>2, <1>3, <1>4

(* The pipeline returns to the command that called it.                     *)
LEMMA Returns ==
    ASSUME IInv, UNCHANGED <<file, rbak, good, arch, fresh>>,
           NEW result, NEW stuck \in BOOLEAN, Back(result, stuck),
           pc \in {"write", "prove"} \/ (pc = "reinstate" /\ result = "err")
    PROVE  IInv'
<1>1. pc \in Applying \cup Undoing
    BY DEF Applying
<1>2. CASE op.name = "render" /\ result # "ok"
    BY <1>2, Finished DEF Back, Finish, IInv, Typed
<1>3. CASE ~(op.name = "render" /\ result # "ok")
    <2> DEFINE to == CASE op.name = "render" -> "refresh"
                       [] Hairpin(op.name)   -> IF result = "ok" THEN "commit" ELSE "undo"
                       [] op.name \in Transactions /\ op.undo -> "undosub"
                       [] OTHER              -> IF result = "ok" THEN "sub" ELSE "undo"
    <2>1. pc' = to /\ op' = [[op EXCEPT !.i = 1, !.stuck = @ \/ stuck] EXCEPT
                                !.undo = @ \/ to = "undo", !.ok = @ /\ (op.undo => result = "ok")]
        BY <1>3 DEF Back
    <2> HIDE DEF to
    <2>2. SameCommand /\ op'.i = 1 /\ op'.undo = (op.undo \/ to = "undo")
        BY Zenon, <1>1, <2>1, Kinds DEF IsOp, SameCommand
    <2>3. CASE op.name = "render"
        <3>1. pc' = "refresh"
            BY <2>1, <2>3 DEF to, Hairpin, Transactions
        <3> QED BY <1>1, <2>2, <2>3, <3>1, Moves DEF Undoing, Applying, Direct
    <2>4. CASE op.name \in Hairpins
        <3>1. pc' = to /\ to \in {"commit", "undo"}
            BY <2>1, <2>4 DEF to, Hairpin, Hairpins, Transactions
        <3> QED BY Zenon, <1>1, <2>2, <2>4, <3>1, Moves DEF Undoing, Applying, Direct, Hairpins
    <2>5. CASE op.name \in Transactions
        <3>1. op.name # "render" /\ ~Hairpin(op.name)
            BY <2>5 DEF Transactions, Hairpin
        <3>2. CASE op.undo
            <4>1. pc' = "undosub"
                BY <2>1, <2>5, <3>1, <3>2 DEF to
            <4> QED BY <1>1, <2>2, <3>1, <4>1, Moves DEF Undoing, Applying
        <3>3. CASE ~op.undo /\ result = "ok"
            <4>1. pc' = "sub" /\ to = "sub"
                BY <2>1, <2>5, <3>1, <3>3 DEF to
            <4>2. ~op'.undo
                BY Zenon, <2>2, <3>3, <4>1
            <4>3. pc \in {"write", "prove"}
                BY <3>3
            <4> QED BY <1>1, <2>2, <2>5, <3>1, <3>3, <4>1, <4>2, <4>3, Moves DEF Undoing
        <3>4. CASE ~op.undo /\ result # "ok"
            <4>1. pc' = "undo" /\ to = "undo"
                BY <2>1, <2>5, <3>1, <3>4 DEF to
            <4> QED BY Zenon, <1>1, <2>2, <3>1, <4>1, Moves DEF Undoing, Applying
        <3> QED BY <3>2, <3>3, <3>4
    <2> QED BY <1>1, <2>3, <2>4, <2>5, Kinds
<1> QED BY <1>2, <1>3

(* A transaction turns to its rollback.                                    *)
LEMMA TurnsBack ==
    ASSUME IInv, UNCHANGED <<file, rbak, good, arch, fresh>>, Undo,
           pc \in Applying, op.name # "render"
    PROVE  IInv'
<1>1. SameCommand /\ op'.i = 1 /\ op'.undo /\ pc' = "undo"
    BY Zenon DEF Undo, SameCommand, IsOp, IInv, Typed
<1> QED BY <1>1, Moves DEF Applying, Undoing

-----------------------------------------------------------------------------
(* Rendering, loading and proving a config, and putting the last one back. *)
LEMMA PipelineStep ==
    ASSUME IInv, WriteStep \/ LoadStep \/ ProveStep \/ ReinstateStep
    PROVE  IInv'
<1>1. UNCHANGED <<file, rbak, good, arch, fresh>>
    BY Zenon DEF WriteStep, Write, LoadStep, ProveStep, ReinstateStep, disk
<1>2. pc \in {"write", "load", "prove", "reinstate"} /\ pc \in Applying
    BY Zenon DEF WriteStep, Write, LoadStep, ProveStep, ReinstateStep, Applying
<1>3. IsOp(op) /\ op.undo \in BOOLEAN
    BY <1>2, Kinds
<1>4. Direct(op.name) => op.name # "render" /\ ~op.undo
    <2>1. Direct(op.name) => op.name \in Transactions /\ op.name # "render"
        BY DEF Direct, Transactions
    <2> QED BY <1>2, <2>1, Kinds DEF Changing
<1>5. CASE WriteStep
    <2>1. PICK doc, current : Write(doc, current)
        BY <1>5 DEF WriteStep
    <2>2. pc = "write"
        BY <2>1 DEF Write
    <2>3. CASE \E result \in {"no", "ok", "err"} : Applied(result)
        BY Zenon, <1>1, <2>2, <2>3, Returns DEF Applied
    <2>4. CASE Undo /\ Direct(op.name)
        BY <1>1, <1>2, <1>4, <2>4, TurnsBack
    <2>5. CASE pc' = "load" /\ op' = [op EXCEPT !.applied = TRUE]
        <3>1. SameCommand /\ op'.undo = op.undo
            BY Zenon, <1>3, <2>5 DEF SameCommand, IsOp
        <3> QED BY <1>1, <1>2, <1>4, <2>2, <2>5, <3>1, Moves DEF Applying, Undoing
    <2> QED BY <2>1, <2>3, <2>4, <2>5 DEF Write
<1>6. CASE LoadStep
    <2>1. pc = "load"
        BY <1>6 DEF LoadStep
    <2>2. ASSUME NEW label \in {"sub", "prove", "reinstate"}, Goto(label),
                 label = "sub" => Direct(op.name),
                 label # "sub" => ~Direct(op.name)
          PROVE  IInv'
        <3>1. SameCommand /\ op'.undo = op.undo /\ pc' = label
            BY <1>3, <2>2 DEF Goto, SameCommand, IsOp
        <3>2. Direct(op.name) => op.name \in Transactions
            BY DEF Direct, Transactions
        <3> QED BY <1>1, <1>2, <1>4, <2>1, <2>2, <3>1, <3>2, Moves DEF Applying, Undoing
    <2>3. CASE Undo /\ Direct(op.name)
        BY <1>1, <1>2, <1>4, <2>3, TurnsBack
    <2> QED BY <1>6, <2>2, <2>3 DEF LoadStep
<1>7. CASE ProveStep
    <2>1. pc = "prove"
        BY <1>7 DEF ProveStep
    <2>2. CASE \E result \in {"ok", "err"} : Applied(result)
        BY Zenon, <1>1, <2>1, <2>2, Returns DEF Applied
    <2>3. CASE Goto("reinstate")
        <3>1. SameCommand /\ op'.undo = op.undo /\ pc' = "reinstate"
            BY <1>3, <2>3 DEF Goto, SameCommand, IsOp
        <3> QED BY <1>1, <1>2, <1>4, <2>1, <3>1, Moves DEF Applying, Undoing
    <2> QED BY <1>7, <2>2, <2>3 DEF ProveStep
<1>8. CASE ReinstateStep
    <2>1. pc = "reinstate" /\ \E stuck \in BOOLEAN : Back("err", stuck)
        BY Zenon, <1>8 DEF ReinstateStep
    <2> QED BY <1>1, <2>1, Returns
<1> QED BY <1>5, <1>6, <1>7, <1>8

(* The rollback of config.json and of the services, and the steps a        *)
(* command ends with.                                                      *)
LEMMA ClosingStep ==
    ASSUME IInv, \/ UndoConfStep \/ UndoLoadStep \/ UndoTomlStep \/ UndoSubStep \/ RefreshStep
                 \/ Kill
    PROVE  IInv'
<1>1. UNCHANGED <<file, rbak, good, arch, fresh>>
    BY DEF UndoConfStep, UndoLoadStep, UndoTomlStep, UndoSubStep, RefreshStep, Kill, disk
<1>2. CASE UndoConfStep \/ UndoLoadStep
    <2>1. pc \in {"undoconf", "undoload"} /\ pc' \in {"undoload", "undosub"}
        BY <1>2 DEF UndoConfStep, UndoLoadStep
    <2>2. IsOp(op) /\ op.undo \in BOOLEAN /\ op.name # "render"
        BY <2>1, Kinds DEF Undoing
    <2>3. SameCommand
        BY <1>2, <2>2 DEF UndoConfStep, UndoLoadStep, Bad, SameCommand, IsOp
    <2> QED BY <1>1, <2>1, <2>2, <2>3, Moves DEF Applying, Undoing
<1>3. CASE UndoTomlStep \/ UndoSubStep \/ RefreshStep \/ Kill
    <2>1. pc' = "idle" /\ op' = NoOp
        BY <1>3 DEF UndoTomlStep, UndoSubStep, RefreshStep, Kill, Finish
    <2> QED BY <1>1, <2>1, Finished DEF IInv, Typed
<1> QED BY <1>2, <1>3

(* Backups, service restarts and stuttering.                               *)
LEMMA IdleStep ==
    ASSUME IInv, TakeBackup \/ ServiceRestart \/ UNCHANGED key_vars
    PROVE  IInv'
<1>1. UNCHANGED <<file, rbak, good, fresh, pc, op>>
    BY DEF TakeBackup, ServiceRestart, key_vars, disk
<1>2. arch' \in [Files -> Nat]
    <2>1. file \in [Files -> Nat] /\ arch \in [Files -> Nat]
        BY DEF IInv, Typed
    <2> QED BY <2>1 DEF TakeBackup, ServiceRestart, key_vars, disk
<1>3. Typed'
    BY <1>1, <1>2 DEF IInv, Typed, IsOp
<1>5. Kept'
    BY <1>1 DEF IInv, Kept, Was, Unborn
<1>6. Listing'
    BY <1>1 DEF IInv, Listing, Was
<1>7. NoKeyYet'
    BY <1>1 DEF IInv, NoKeyYet, Was, Unborn
<1>4. Phase'
    <2>1. Copying => Copying'
        BY <1>1 DEF Copying
    <2>2. Installing => Installing'
        BY <1>1 DEF Installing, Mine, Was, Unborn, Copied
    <2>3. Changing => Changing'
        BY <1>1 DEF Changing, Mine, Was, Recoverable
    <2>4. Committing => Committing'
        BY <1>1 DEF Committing, Mine
    <2> QED BY <1>1, <2>1, <2>2, <2>3, <2>4 DEF IInv, Phase, Unborn
<1> QED BY <1>3, <1>4, <1>5, <1>6, <1>7 DEF IInv

-----------------------------------------------------------------------------
(* The hairpin commands touch no archived file.                            *)
LEMMA HairpinFiles ==
    ASSUME NEW n \in Hairpins
    PROVE  Touches(n) \cap Archived = {}
<1>1. Material(n) = <<"uuid">>
    BY DEF Hairpins, Material
<1>2. Touches(n) \subseteq {"uuid"}
    BY <1>1 DEF Touches, Range
<1> QED BY <1>2 DEF Archived

(* The subscription service is restarted, and the transaction is decided.  *)
LEMMA SubscriptionStep ==
    ASSUME IInv, SubStep
    PROVE  IInv'
<1>1. pc = "sub" /\ pc \in Applying /\ UNCHANGED <<file, rbak, arch, fresh>>
    BY DEF SubStep, Applying, disk
<1>2. op.name \in Transactions /\ op.name # "render" /\ Changing /\ IsOp(op)
    BY <1>1, Kinds
<1>5. ~op.undo /\ op.undo \in BOOLEAN
    BY <1>1, <1>2, Kinds DEF Changing
<1>3. CASE good' = file /\ Goto("commit")
    <2>1. pc' = "commit" /\ SameCommand /\ op'.i = 1
        BY <1>2, <1>3, <1>5 DEF Goto, SameCommand, IsOp
    <2>2. Typed' /\ Kept'
        BY <1>1, <1>3, <2>1 DEF IInv, Typed, Kept, SameCommand
    <2>3. op'.name = op.name /\ Was("priv")' = Was("priv")
        BY <2>1 DEF SameCommand, Was
    <2>4. Mine \subseteq Files
        BY DEF Mine, Archived, Files
    <2>5. Phase'
        BY <1>1, <1>2, <1>3, <2>1, <2>3, <2>4 DEF Phase, Committing
    <2>6. op'.i \in DOMAIN Material(op'.name)
        BY <1>2, <2>1, <2>3, Lists
    <2>7. Listing'
        BY <2>1, <2>3, <2>6 DEF Listing, IInv
    <2>8. file["priv"] # 0
        BY <1>1, <1>2 DEF Changing
    <2>9. NoKeyYet'
        BY <1>1, <2>1, <2>8 DEF NoKeyYet
    <2> QED BY <2>2, <2>5, <2>7, <2>9 DEF IInv
<1>4. CASE Undo /\ UNCHANGED good
    BY <1>1, <1>2, <1>4, TurnsBack
<1> QED BY <1>3, <1>4 DEF SubStep

(* Once decided, the copies go: the files are what is kept.                *)
LEMMA CommitKeeps ==
    ASSUME IInv, CommitStep
    PROVE  IInv'
<1>1. pc = "commit" /\ UNCHANGED <<file, good, arch, fresh>>
    BY DEF CommitStep
<1>2. Committing \/ op.name \in Hairpins
    BY <1>1 DEF IInv, Phase, Copying, Installing, Changing, Applying, Undoing
<1>3. op.name \in Transactions \cup Hairpins /\ op.name # "init"
    BY <1>2 DEF Committing, Transactions, Hairpins
<1>4. op.i \in DOMAIN Material(op.name)
    BY <1>1 DEF IInv, Listing
<1>5. Rewinding \in Touches(op.name) /\ Touches(op.name) \subseteq Files
    BY <1>3, <1>4, Lists DEF Rewinding
<1>6. rbak' = [rbak EXCEPT ![Rewinding] = 0]
    BY DEF CommitStep
<1> HIDE DEF Rewinding
<1>7. rbak \in [Files -> Nat] /\ rbak' \in [Files -> Nat]
    BY <1>5, <1>6 DEF IInv, Typed
<1>8. Kept'
    <2> SUFFICES ASSUME NEW f \in Archived PROVE good[f] \in {0, file[f], rbak'[f]}
        BY <1>1 DEF Kept
    <2>1. CASE f = Rewinding
        <3>1. f \in Mine /\ op.name \notin Hairpins
            BY <1>5, <2>1, HairpinFiles DEF Mine
        <3> QED BY <1>2, <3>1 DEF Committing
    <2>2. CASE f # Rewinding
        BY <1>6, <1>7, <2>2 DEF IInv, Kept, Archived, Files
    <2> QED BY <2>1, <2>2
<1>9. CASE op.i < Len(Material(op.name)) /\ op' = [op EXCEPT !.i = @ + 1] /\ UNCHANGED pc
    <2>1. IsOp(op) /\ op.undo \in BOOLEAN
        BY DEF IInv, Typed
    <2>2. SameCommand /\ op'.i = op.i + 1 /\ pc' = "commit"
        BY <1>1, <1>9, <2>1 DEF SameCommand, IsOp
    <2>3. Typed'
        BY <1>1, <1>7, <2>2 DEF IInv, Typed, SameCommand
    <2>4. op'.name = op.name /\ Was("priv")' = Was("priv")
        BY <2>2 DEF SameCommand, Was
    <2>5. Phase'
        BY <1>1, <1>2, <2>2, <2>4 DEF Phase, Committing, Mine
    <2>6. op'.i \in DOMAIN Material(op'.name)
        BY <1>3, <1>4, <1>9, <2>2, <2>4, Lists
    <2>7. Listing'
        BY <2>2, <2>4, <2>6 DEF Listing, IInv
    <2>8. NoKeyYet'
        BY <1>1, <2>2 DEF IInv, NoKeyYet, Unborn
    <2> QED BY <1>8, <2>3, <2>5, <2>7, <2>8 DEF IInv
<1>10. CASE Finish("ok")
    <2>1. pc' = "idle" /\ op' = NoOp
        BY <1>10 DEF Finish
    <2>2. file'["priv"] = 0 => Unborn'
        BY <1>1 DEF IInv, NoKeyYet, Unborn
    <2> QED BY <1>1, <1>7, <1>8, <2>1, <2>2, Over DEF IInv, Typed
<1> QED BY <1>9, <1>10 DEF CommitStep

(* Putting a file back, or failing to, leaves every file of the            *)
(* transaction recoverable.                                                *)
LEMMA UndoKeeps ==
    ASSUME IInv, UndoStep
    PROVE  IInv'
<1>1. pc = "undo" /\ pc \in Undoing /\ UNCHANGED <<good, arch, fresh>>
    BY DEF UndoStep, Undoing
<1>2. /\ op.name \in Transactions \cup Hairpins /\ op.name \notin {"init", "render"}
      /\ op.name \in Transactions => Changing /\ op.undo
      /\ IsOp(op) /\ op.undo \in BOOLEAN
    BY <1>1, Kinds DEF Transactions, Hairpins, Changing
<1>3. op.i \in DOMAIN Material(op.name)
    BY <1>1 DEF IInv, Listing
<1>4. Rewinding \in Touches(op.name) /\ Touches(op.name) \subseteq Files
    BY <1>2, <1>3, Lists DEF Rewinding
<1> DEFINE g == Rewinding
<1>5. \/ /\ Was(g) # 0 /\ rbak[g] = 0
         /\ file' = file /\ rbak' = [rbak EXCEPT ![g] = 0]
      \/ /\ Was(g) # 0 /\ rbak[g] # 0
         /\ file' = [file EXCEPT ![g] = rbak[g]] /\ rbak' = [rbak EXCEPT ![g] = 0]
      \/ Was(g) = 0 /\ file' = [file EXCEPT ![g] = 0] /\ rbak' = rbak
      \/ file' = file /\ rbak' = rbak
    BY DEF UndoStep, restore_from_rotate_backup, Existed, Was
<1> HIDE DEF g
<1>6. g \in Touches(op.name) /\ g \in Files
    BY <1>4 DEF g
<1>7. file \in [Files -> Nat] /\ rbak \in [Files -> Nat]
    BY DEF IInv, Typed
<1>8. file' \in [Files -> Nat] /\ rbak' \in [Files -> Nat]
    BY <1>5, <1>6, <1>7
<1>9. \A f \in Files : f # g => file'[f] = file[f] /\ rbak'[f] = rbak[f]
    BY <1>5, <1>6, <1>7
<1>10. Mine \subseteq Files
    BY DEF Mine, Archived, Files
<1>11. ASSUME op.name \in Transactions, NEW f \in Mine
       PROVE  /\ good[f] \in {0, Was(f)} /\ rbak'[f] \in {0, Was(f)}
              /\ Was(f) \in {0, file'[f], rbak'[f]}
    <2>1. Recoverable(f)
        BY <1>2, <1>11 DEF Changing
    <2>2. CASE f = g
        BY <1>5, <1>6, <1>7, <2>1, <2>2 DEF Recoverable
    <2>3. CASE f # g
        BY <1>9, <1>10, <2>1, <2>3 DEF Recoverable
    <2> QED BY <2>2, <2>3
<1>12. Kept'
    <2> SUFFICES ASSUME NEW f \in Archived PROVE good[f] \in {0, file'[f], rbak'[f]}
        BY <1>1 DEF Kept
    <2>1. CASE f = g
        <3>1. f \in Mine /\ op.name \notin Hairpins
            BY <1>6, <2>1, HairpinFiles DEF Mine
        <3> QED BY <1>2, <1>11, <3>1
    <2>2. CASE f # g
        BY <1>9, <2>2 DEF IInv, Kept, Archived, Files
    <2> QED BY <2>1, <2>2
<1>13. file'["priv"] = 0 => Unborn
    <2>1. CASE g # "priv"
        BY <1>9, <2>1 DEF IInv, NoKeyYet, Files
    <2>2. CASE g = "priv"
        <3>1. "priv" \in Mine /\ op.name \in Transactions
            BY <1>2, <1>6, <2>2, HairpinFiles DEF Mine, Archived
        <3>2. Was("priv") = 0 => Unborn
            BY <1>1, <3>1 DEF IInv, NoKeyYet
        <3>3. Recoverable("priv")
            BY <1>2, <3>1 DEF Changing
        <3>4. Was("priv") # 0 => file'["priv"] # 0 \/ file["priv"] = 0
            BY <1>5, <1>6, <1>7, <2>2, <3>3 DEF Recoverable
        <3>5. file["priv"] = 0 => Unborn
            BY DEF IInv, NoKeyYet
        <3> QED BY <3>2, <3>4, <3>5
    <2> QED BY <2>1, <2>2
<1>14. PICK o \in {op, Bad} : UndoNext(o)
    BY DEF UndoStep
<1>15. /\ IsOp(o) /\ o.undo = op.undo /\ o.name = op.name /\ o.cand = op.cand
       /\ o.before = op.before /\ o.i = op.i
    BY <1>2, <1>14 DEF Bad, IsOp
<1>16. \/ pc' = "undo" /\ op.i < Len(Material(op.name)) /\ op' = [o EXCEPT !.i = op.i + 1]
       \/ pc' = AfterUndo /\ op' = [o EXCEPT !.i = 1]
    BY <1>1, <1>14, <1>15 DEF UndoNext
<1>17. SameCommand /\ op'.undo = op.undo /\ (pc' = "undo" => op'.i = op.i + 1)
       /\ (pc' = "undo" => op.i < Len(Material(op.name)))
    <2>1. AfterUndo # "undo"
        BY DEF AfterUndo, Hairpin, Direct
    <2> QED BY <1>2, <1>15, <1>16, <2>1 DEF SameCommand, IsOp
<1>18. /\ pc' \in {"undo", "undotoml", "undoconf", "write"}
       /\ Direct(op.name) => pc' # "write"
    BY <1>16 DEF AfterUndo, Hairpin, Direct
<1>19. op'.name = op.name /\ Was("priv")' = Was("priv") /\ Mine' = Mine /\ Unborn' = Unborn
    BY <1>1, <1>17 DEF SameCommand, Was, Mine, Unborn
<1>20. Typed'
    BY <1>1, <1>8, <1>17 DEF IInv, Typed, SameCommand
<1>21. Phase'
    <2>1. CASE op.name \in Hairpins
        BY <1>18, <1>19, <2>1 DEF Phase, Applying, Undoing
    <2>2. CASE op.name \in Transactions
        <3>1. pc' \in Applying \cup Undoing /\ pc' # "sub" /\ op'.undo
            BY <1>2, <1>17, <1>18, <2>2 DEF Applying, Undoing
        <3>2. \A f \in Mine' : Recoverable(f)'
            BY <1>1, <1>11, <1>17, <1>19, <2>2 DEF Recoverable, Was, SameCommand
        <3>3. Direct(op.name) => pc' \notin Applying
            BY <1>18 DEF Applying
        <3>4. Changing'
            BY <1>19, <2>2, <3>1, <3>2, <3>3 DEF Changing
        <3> QED BY <3>4 DEF Phase
    <2> QED BY <1>2, <2>1, <2>2
<1>22. Listing'
    <2>1. pc' = "undo" => op'.i \in DOMAIN Material(op'.name)
        BY SMTT(30), <1>2, <1>3, <1>17, <1>19, Lists
    <2> QED BY <1>18, <1>19, <2>1 DEF Listing, IInv
<1>23. NoKeyYet'
    BY <1>1, <1>13, <1>19 DEF IInv, NoKeyYet
<1> QED BY <1>12, <1>20, <1>21, <1>22, <1>23 DEF IInv

-----------------------------------------------------------------------------
(* A copy is made only where there is none, and an attempt that gives up   *)
(* removes only copies equal to their files.                               *)
LEMMA BackupKeeps ==
    ASSUME IInv, BackupStep
    PROVE  IInv'
<1>1. pc = "backup" /\ UNCHANGED <<file, good, arch, fresh>>
    BY DEF BackupStep
<1>2. Copying
    BY <1>1 DEF IInv, Phase, Installing, Changing, Committing, Applying, Undoing
<1>3. /\ op.name \in Transactions \cup Hairpins /\ ~op.undo
      /\ op.i \in DOMAIN Material(op.name) /\ file = op.before.file
      /\ \A j \in DOMAIN Material(op.name) :
            j < op.i => rbak[Material(op.name)[j]] = file[Material(op.name)[j]]
    BY <1>2 DEF Copying
<1>4. /\ Len(Material(op.name)) \in Nat \ {0}
      /\ DOMAIN Material(op.name) = 1 .. Len(Material(op.name))
      /\ Touches(op.name) \subseteq Files
      /\ \A j \in DOMAIN Material(op.name) : Material(op.name)[j] \in Touches(op.name)
      /\ \A f \in Touches(op.name) : \E j \in DOMAIN Material(op.name) : Material(op.name)[j] = f
    BY <1>3, Lists
<1>5. Current \in Files
    BY <1>3, <1>4 DEF Current
<1>6. IsOp(op) /\ op.undo \in BOOLEAN /\ rbak \in [Files -> Nat] /\ file \in [Files -> Nat]
    BY DEF IInv, Typed
<1>7. Archived \subseteq Files
    BY DEF Archived, Files
<1>8. CASE rbak[Current] = 0 /\ rbak' = [rbak EXCEPT ![Current] = file[Current]] /\ Advance("install")
    <2> DEFINE g == Current
    <2>1. g \in Files /\ rbak[g] = 0 /\ rbak' = [rbak EXCEPT ![g] = file[g]]
        BY <1>5, <1>8
    <2>2. g = Material(op.name)[op.i]
        BY DEF Current
    <2> HIDE DEF g
    <2>3. /\ rbak' \in [Files -> Nat] /\ rbak'[g] = file[g]
          /\ \A f \in Files : f # g => rbak'[f] = rbak[f]
        BY <1>6, <2>1
    <2>4. Kept'
        <3> SUFFICES ASSUME NEW f \in Archived PROVE good[f] \in {0, file[f], rbak'[f]}
            BY <1>1 DEF Kept
        <3>1. good[f] \in {0, file[f], rbak[f]}
            BY DEF IInv, Kept
        <3> QED BY <1>7, <2>1, <2>3, <3>1
    <2>5. \/ /\ op.i < Len(Material(op.name)) /\ op' = [op EXCEPT !.i = @ + 1] /\ pc' = "backup"
          \/ /\ op.i >= Len(Material(op.name)) /\ op' = [op EXCEPT !.i = 1] /\ pc' = "install"
        BY <1>1, <1>3, <1>4, <1>8 DEF Advance, Goto
    <2>6. SameCommand /\ op'.undo = op.undo /\ op'.i = IF pc' = "backup" THEN op.i + 1 ELSE 1
        BY <1>6, <2>5 DEF SameCommand, IsOp
    <2>7. /\ op'.name = op.name /\ op'.before = op.before /\ op'.cand = op.cand
          /\ \A f : Was(f)' = Was(f)
        BY <2>6 DEF SameCommand, Was
    <2>8. Typed'
        BY <1>1, <2>3, <2>6 DEF IInv, Typed, SameCommand
    <2>9. \A j \in DOMAIN Material(op.name) :
             j <= op.i => rbak'[Material(op.name)[j]] = file[Material(op.name)[j]]
        <3> SUFFICES ASSUME NEW j \in DOMAIN Material(op.name), j <= op.i
                     PROVE  rbak'[Material(op.name)[j]] = file[Material(op.name)[j]]
            OBVIOUS
        <3>1. Material(op.name)[j] \in Files
            BY <1>4
        <3>2. CASE j = op.i
            BY <2>2, <2>3, <3>2
        <3>3. CASE j # op.i
            <4>1. j < op.i
                BY SMTT(30), <1>3, <1>4, <3>3
            <4>2. rbak[Material(op.name)[j]] = file[Material(op.name)[j]]
                BY <1>3, <4>1
            <4> QED BY <2>3, <3>1, <4>2
        <3> QED BY <3>2, <3>3
    <2>10. op'.i \in DOMAIN Material(op.name)
        BY <1>3, <1>4, <2>5, <2>6
    <2>11. Phase'
        <3>1. CASE pc' = "backup"
            <4>1. \A j \in DOMAIN Material(op.name) :
                     j < op'.i => rbak'[Material(op.name)[j]] = file[Material(op.name)[j]]
                BY SMTT(30), <1>3, <1>4, <2>6, <2>9, <3>1
            <4>2. Copying'
                BY <1>1, <1>3, <2>6, <2>7, <2>10, <3>1, <4>1 DEF Copying
            <4> QED BY <4>2 DEF Phase
        <3>2. CASE pc' = "install"
            <4>1. \A f \in Touches(op.name) : rbak'[f] = Was(f)
                <5> SUFFICES ASSUME NEW f \in Touches(op.name) PROVE rbak'[f] = file[f]
                    BY <1>3 DEF Was
                <5>1. PICK j \in DOMAIN Material(op.name) : Material(op.name)[j] = f
                    BY <1>4
                <5>2. j <= op.i
                    BY <1>3, <1>4, <2>5, <3>2
                <5> QED BY <2>9, <5>1, <5>2
            <4>2. \A f \in Archived : good[f] \in {0, Was(f), rbak'[f]}
                BY <1>1, <1>3, <2>4 DEF Kept, Was
            <4>3. \A f \in Mine' : Copied(f)'
                BY <1>1, <2>7, <4>1, <4>2 DEF Mine, Copied
            <4>4. Installing'
                BY <1>1, <1>3, <2>6, <2>7, <2>10, <3>2, <4>3 DEF Installing
            <4> QED BY <4>4 DEF Phase
        <3> QED BY <2>5, <3>1, <3>2
    <2>12. Listing'
        <3>1. pc' = "install" => \A j \in DOMAIN Material(op.name) : ~(j < op'.i)
            BY <1>4, <2>6
        <3> QED BY <1>1, <2>5, <2>7, <3>1 DEF IInv, Listing
    <2>13. NoKeyYet'
        BY <1>1, <2>5, <2>7 DEF IInv, NoKeyYet, Unborn
    <2> QED BY <2>4, <2>8, <2>11, <2>12, <2>13 DEF IInv
<1>9. CASE /\ rbak' = [f \in Files |->
                        IF \E j \in 1 .. op.i - 1 : Material(op.name)[j] = f /\ Existed(f)
                        THEN 0 ELSE rbak[f]]
           /\ Finish("refused")
    <2>1. rbak' \in [Files -> Nat]
        BY <1>6, <1>9
    <2>2. \A f \in Files : rbak'[f] = rbak[f] \/ rbak[f] = file[f]
        BY SMTT(30), <1>3, <1>4, <1>9
    <2>3. Kept'
        BY <1>1, <1>7, <2>2 DEF IInv, Kept
    <2>4. pc' = "idle" /\ op' = NoOp
        BY <1>9 DEF Finish
    <2>5. file'["priv"] = 0 => Unborn'
        BY <1>1 DEF IInv, NoKeyYet, Unborn
    <2> QED BY <1>1, <2>1, <2>3, <2>4, <2>5, Over DEF IInv, Typed
<1> QED BY <1>8, <1>9 DEF BackupStep

(* Init is done: what is in place is the first material that works.        *)
LEMMA InitKeeps ==
    ASSUME IInv, InitDone
    PROVE  IInv'
<1>1. pc = "done" /\ good' = file /\ UNCHANGED <<file, rbak, arch, fresh>>
    BY DEF InitDone, disk
<1>2. file["priv"] # 0
    BY <1>1 DEF IInv, Phase, Copying, Installing, Changing, Committing, Applying, Undoing
<1>3. pc' = "idle" /\ op' = NoOp
    BY DEF InitDone, Finish
<1>4. Kept'
    BY <1>1 DEF Kept
<1> QED BY <1>1, <1>2, <1>3, <1>4, Over DEF IInv, Typed

(* The hairpin section is written, or the credential is put back.          *)
LEMMA TomlKeeps ==
    ASSUME IInv, TomlStep
    PROVE  IInv'
<1>1. pc = "toml" /\ UNCHANGED <<good, arch, fresh>>
    BY Zenon DEF TomlStep
<1>2. op.name \in Hairpins
    BY <1>1 DEF IInv, Phase, Copying, Installing, Changing, Committing, Applying, Undoing
<1>3. IsOp(op) /\ op.undo \in BOOLEAN
    BY DEF IInv, Typed
<1>4. CASE Goto("write") /\ UNCHANGED <<file, rbak>>
    <2>1. SameCommand /\ pc' = "write"
        BY <1>3, <1>4 DEF Goto, SameCommand, IsOp
    <2>2. op'.name = op.name /\ Was("priv")' = Was("priv")
        BY <2>1 DEF SameCommand, Was
    <2>3. Typed' /\ Kept'
        BY <1>1, <1>4, <2>1 DEF IInv, Typed, Kept, SameCommand
    <2>4. Phase'
        BY <1>2, <2>1, <2>2 DEF Phase, Applying
    <2>5. Listing'
        BY <2>1, <2>2 DEF IInv, Listing
    <2>6. NoKeyYet'
        BY <1>1, <1>4, <2>1, <2>2 DEF IInv, NoKeyYet, Unborn
    <2> QED BY <2>3, <2>4, <2>5, <2>6 DEF IInv
<1>5. CASE /\ file' \in {file, [file EXCEPT !["uuid"] = op.before.file["uuid"]]}
           /\ rbak' = [rbak EXCEPT !["uuid"] = 0]
           /\ pc' = "idle" /\ op' = NoOp
    <2>1. /\ file \in [Files -> Nat] /\ rbak \in [Files -> Nat]
          /\ op.before.file["uuid"] \in Nat /\ "uuid" \in Files
        BY DEF IInv, Typed, Files
    <2>2. file' \in [Files -> Nat] /\ rbak' \in [Files -> Nat]
        BY <1>5, <2>1
    <2>3. \A f \in Files \ {"uuid"} : file'[f] = file[f] /\ rbak'[f] = rbak[f]
        BY <1>5, <2>1
    <2>4. Archived \subseteq Files \ {"uuid"} /\ "priv" \in Files \ {"uuid"}
        BY DEF Archived, Files
    <2>5. Kept'
        BY <1>1, <2>3, <2>4 DEF IInv, Kept
    <2>6. file'["priv"] = 0 => Unborn'
        BY <1>1, <2>3, <2>4 DEF IInv, NoKeyYet, Unborn
    <2> QED BY <1>1, <1>5, <2>2, <2>5, <2>6, Over DEF IInv, Typed
<1> QED BY Zenon, <1>4, <1>5 DEF TomlStep, Finish

-----------------------------------------------------------------------------
(* What a step that installs the i-th file leaves of the files.            *)
LEMMA Installs ==
    ASSUME IInv, pc = "install", file' \in {file, Put(Current)}
    PROVE  /\ Installing /\ IsOp(op) /\ op.undo = FALSE
           /\ op.name \in Transactions \cup Hairpins \cup {"init"}
           /\ op.i \in 1 .. Len(Material(op.name))
           /\ Current \in Touches(op.name)
           /\ file' \in [Files -> Nat]
           /\ \A f \in Files : f # Current => file'[f] = file[f]
           /\ file'["priv"] # file["priv"] => file'["priv"] # 0
           /\ Current = "priv" /\ file' = Put(Current) => file'["priv"] # 0
<1>1. Installing
    BY DEF IInv, Phase, Copying, Changing, Committing, Applying, Undoing
<1>2. /\ op.name \in Transactions \cup Hairpins \cup {"init"}
      /\ op.i \in DOMAIN Material(op.name) /\ ~op.undo
    BY <1>1 DEF Installing
<1>3. Current \in Touches(op.name) /\ Current \in Files /\ op.i \in 1 .. Len(Material(op.name))
    BY <1>2, Lists DEF Current
<1>4. /\ \A f \in DOMAIN op.cand : op.cand[f] \in Nat
      /\ "priv" \in Touches(op.name) => "priv" \in DOMAIN op.cand /\ op.cand["priv"] # 0
    BY DEF IInv, Listing
<1>5. file \in [Files -> Nat] /\ IsOp(op) /\ op.undo \in BOOLEAN
    BY DEF IInv, Typed
<1> DEFINE g == Current
<1>6. g \in Touches(op.name) /\ g \in Files /\ file' \in {file, Put(g)}
    BY <1>3
<1> HIDE DEF g
<1>7. Put(g) = file \/ (g \in DOMAIN op.cand /\ Put(g) = [file EXCEPT ![g] = op.cand[g]])
    BY DEF Put
<1>8. Put(g) \in [Files -> Nat] /\ \A f \in Files : f # g => Put(g)[f] = file[f]
    BY <1>4, <1>5, <1>6, <1>7
<1>9. g = "priv" => Put(g)["priv"] # 0
    BY <1>4, <1>5, <1>6 DEF Put
<1>10. "priv" \in Files
    BY DEF Files
<1>11. /\ file' \in [Files -> Nat]
       /\ \A f \in Files : f # g => file'[f] = file[f]
       /\ file'["priv"] # file["priv"] => file'["priv"] # 0
       /\ g = "priv" /\ file' = Put(g) => file'["priv"] # 0
    BY <1>5, <1>6, <1>8, <1>9, <1>10
<1> QED BY <1>1, <1>2, <1>3, <1>5, <1>11 DEF g

(* While copies are there, or nothing has ever worked, the files may be    *)
(* replaced.                                                               *)
LEMMA InstallKept ==
    ASSUME IInv, pc = "install", file' \in {file, Put(Current)}, UNCHANGED <<rbak, good>>
    PROVE  Kept' /\ (file'["priv"] = 0 => Unborn')
<1>1. /\ Installing /\ op.name \in Transactions \cup Hairpins \cup {"init"}
      /\ Current \in Touches(op.name)
      /\ \A f \in Files : f # Current => file'[f] = file[f]
      /\ file'["priv"] # file["priv"] => file'["priv"] # 0
    BY Zenon, Installs
<1>2. Kept'
    <2> SUFFICES ASSUME NEW f \in Archived PROVE good[f] \in {0, file'[f], rbak[f]}
        BY DEF Kept
    <2>1. CASE f \notin Touches(op.name)
        <3>1. file'[f] = file[f]
            BY <1>1, <2>1 DEF Archived, Files
        <3> QED BY <3>1 DEF IInv, Kept
    <2>2. CASE f \in Touches(op.name) /\ op.name = "init"
        <3>1. f \in {"priv", "pub", "sid", "obfs"}
            BY <2>2 DEF Touches, Material, Range
        <3> QED BY <1>1, <2>2, <3>1 DEF Installing, Unborn, Transactions, Hairpins
    <2>3. CASE f \in Touches(op.name) /\ op.name # "init"
        <3>1. Copied(f)
            BY <1>1, <2>3 DEF Installing, Mine
        <3> QED BY <3>1 DEF Copied
    <2> QED BY <2>1, <2>2, <2>3
<1>3. file'["priv"] = 0 => Unborn'
    BY <1>1 DEF IInv, NoKeyYet, Unborn
<1> QED BY <1>2, <1>3

(* One file is installed; a step that fails gives up or rolls back.        *)
LEMMA InstallKeeps ==
    ASSUME IInv, InstallStep
    PROVE  IInv'
<1>1. pc = "install" /\ UNCHANGED <<good, arch, fresh>>
    BY DEF InstallStep
<1>2. file' \in {file, Put(Current)}
    BY DEF InstallStep
<1>3. /\ Installing /\ IsOp(op) /\ op.undo = FALSE
      /\ op.name \in Transactions \cup Hairpins \cup {"init"}
      /\ op.i \in 1 .. Len(Material(op.name))
      /\ Current \in Touches(op.name)
      /\ file' \in [Files -> Nat]
      /\ \A f \in Files : f # Current => file'[f] = file[f]
      /\ file'["priv"] # file["priv"] => file'["priv"] # 0
      /\ Current = "priv" /\ file' = Put(Current) => file'["priv"] # 0
    BY Zenon, <1>1, <1>2, Installs
<1>4. UNCHANGED rbak => Kept' /\ (file'["priv"] = 0 => Unborn')
    BY <1>1, <1>2, InstallKept
<1>5. /\ DOMAIN Material(op.name) = 1 .. Len(Material(op.name))
      /\ Len(Material(op.name)) \in Nat \ {0}
      /\ \A f \in Touches(op.name) : \E j \in DOMAIN Material(op.name) : Material(op.name)[j] = f
    BY <1>3, Lists
<1>6. /\ op.name \in Transactions \cup Hairpins => \A f \in Mine : Copied(f)
      /\ op.name = "init" => Unborn
      /\ op.name = "obfs" => file = op.before.file
    BY <1>3 DEF Installing, Transactions, Hairpins
<1>7. rbak \in [Files -> Nat]
    BY DEF IInv, Typed
<1>8. ASSUME SameCommand, UNCHANGED rbak
      PROVE  /\ Typed' /\ Kept' /\ op'.name = op.name
             /\ Unborn' = Unborn /\ (pc' # "commit" => NoKeyYet')
             /\ op'.name = "obfs" => Was("priv")' # 0
             /\ op'.name \in Transactions =>
                   \A f \in Mine' : Copied(f)' /\ Recoverable(f)'
    <2>1. op'.name = op.name /\ Mine' = Mine /\ \A f : Was(f)' = Was(f)
        BY <1>8 DEF SameCommand, Mine, Was
    <2>2. Unborn' = Unborn
        BY <1>1 DEF Unborn
    <2>3. Typed'
        BY <1>1, <1>3, <1>7, <1>8 DEF IInv, Typed, SameCommand
    <2>4. pc' # "commit" => NoKeyYet'
        BY <1>1, <1>4, <1>8, <2>1, <2>2 DEF IInv, NoKeyYet
    <2>5. op'.name \in Transactions => \A f \in Mine' : Copied(f)' /\ Recoverable(f)'
        BY <1>1, <1>6, <1>8, <2>1 DEF Copied, Recoverable
    <2>6. op'.name = "obfs" => Was("priv")' # 0
        BY <2>1 DEF IInv, Listing
    <2> QED BY <1>4, <1>8, <2>1, <2>2, <2>3, <2>4, <2>5, <2>6
<1>9. CASE file' = Put(Current) /\ Advance(AfterInstall) /\ UNCHANGED rbak
    <2>1. ASSUME NEW j \in DOMAIN Material(op.name), j <= op.i, Material(op.name)[j] = "priv"
          PROVE  file'["priv"] # 0
        <3>1. CASE j = op.i
            BY <1>3, <1>9, <2>1, <3>1 DEF Current
        <3>2. CASE j < op.i
            BY <1>1, <1>3, <2>1, <3>2 DEF IInv, Listing
        <3> QED BY <1>3, <1>5, <2>1, <3>1, <3>2
    <2>2. CASE op.i < Len(Material(op.name))
        <3>1. op' = [op EXCEPT !.i = @ + 1] /\ pc' = "install"
            BY <1>1, <1>9, <2>2 DEF Advance
        <3>2. SameCommand /\ op'.i = op.i + 1 /\ op'.undo = FALSE
            BY Zenon, <1>3, <3>1 DEF SameCommand, IsOp
        <3>3. op'.name = op.name /\ op'.cand = op.cand /\ op'.before = op.before
            BY <3>2 DEF SameCommand
        <3>4. op'.i \in DOMAIN Material(op.name)
            BY <1>3, <1>5, <2>2, <3>2
        <3>5. op.name # "obfs"
            BY <1>3, <2>2 DEF Material
        <3>6. \A f \in Mine' : op.name \in Transactions \cup Hairpins => Copied(f)'
            <4>1. op.name \in Hairpins => Mine' = {}
                BY <3>3, HairpinFiles DEF Mine
            <4> QED BY <1>8, <1>9, <3>2, <3>3, <4>1
        <3>7. Installing'
            BY <1>3, <1>6, <1>8, <1>9, <3>1, <3>2, <3>3, <3>4, <3>5, <3>6 DEF Installing
        <3>8. \A j \in DOMAIN Material(op.name) :
                 j < op'.i /\ Material(op.name)[j] = "priv" => file'["priv"] # 0
            BY <1>3, <1>5, <2>1, <3>2
        <3>9. Listing'
            BY <1>1, <1>8, <1>9, <3>1, <3>2, <3>3, <3>8 DEF IInv, Listing
        <3> QED BY <1>8, <1>9, <3>1, <3>2, <3>7, <3>9 DEF IInv, Phase
    <2>3. CASE ~(op.i < Len(Material(op.name)))
        <3>1. op' = [op EXCEPT !.i = 1] /\ pc' = AfterInstall
            BY <1>9, <2>3 DEF Advance, Goto
        <3>2. SameCommand /\ op'.undo = FALSE /\ op'.name = op.name
            BY Zenon, <1>3, <3>1 DEF SameCommand, IsOp
        <3>3. "priv" \in Touches(op.name) => file'["priv"] # 0
            BY <1>3, <1>5, <2>1, <2>3
        <3>4. CASE op.name = "init"
            <4>1. pc' = "done"
                BY <3>1, <3>4 DEF AfterInstall, Hairpin
            <4>2. "priv" \in Touches(op.name)
                BY <3>4 DEF Touches, Material, Range
            <4>3. Phase'
                BY <1>6, <1>8, <1>9, <3>2, <3>3, <3>4, <4>1, <4>2 DEF Phase
            <4>4. Listing'
                BY <1>8, <1>9, <3>2, <4>1 DEF Listing
            <4> QED BY <1>8, <1>9, <3>2, <4>1, <4>3, <4>4 DEF IInv
        <3>5. CASE op.name \in Hairpins
            <4>1. pc' = "toml"
                BY <3>1, <3>5 DEF AfterInstall, Hairpin, Hairpins
            <4>2. Phase'
                BY <3>2, <3>5, <4>1 DEF Phase
            <4>3. Listing'
                BY <1>8, <1>9, <3>2, <4>1 DEF Listing
            <4> QED BY <1>8, <1>9, <3>2, <4>1, <4>2, <4>3 DEF IInv
        <3>6. CASE op.name \in Transactions
            <4>1. pc' = "write"
                BY <3>1, <3>6 DEF AfterInstall, Hairpin, Transactions
            <4>2. file'["priv"] # 0
                <5>1. CASE op.name = "obfs"
                    <6>1. file["priv"] # 0
                        BY <1>6, <5>1 DEF IInv, Listing, Was
                    <6> QED BY <1>3, <6>1
                <5>2. CASE op.name # "obfs"
                    <6>1. "priv" \in Touches(op.name)
                        BY <3>6, <5>2 DEF Touches, Material, Range, Transactions
                    <6> QED BY <3>3, <6>1
                <5> QED BY <5>1, <5>2
            <4>3. Changing'
                BY <1>8, <1>9, <3>2, <3>6, <4>1, <4>2 DEF Changing, Applying
            <4>4. Listing'
                BY <1>8, <1>9, <3>2, <4>1 DEF Listing
            <4> QED BY <1>8, <1>9, <3>2, <4>1, <4>3, <4>4 DEF IInv, Phase
        <3> QED BY <1>3, <3>4, <3>5, <3>6
    <2> QED BY <2>2, <2>3
<1>10. CASE op.name \in Transactions /\ Undo /\ UNCHANGED rbak
    <2>1. SameCommand /\ op'.undo = TRUE /\ op'.name = op.name /\ pc' = "undo" /\ op'.i = 1
        BY Zenon, <1>3, <1>10 DEF Undo, SameCommand, IsOp
    <2>2. Changing'
        BY <1>8, <1>10, <2>1 DEF Changing, Applying, Undoing
    <2>3. op'.i \in DOMAIN Material(op'.name)
        BY <1>5, <2>1
    <2>4. Listing'
        BY <1>8, <1>10, <2>1, <2>3 DEF Listing
    <2> QED BY <1>8, <1>10, <2>1, <2>2, <2>4 DEF IInv, Phase
<1>11. CASE file' = file /\ op.name \in Hairpins \cup {"obfs"} /\ DropCopies /\ Finish("refused")
    <2>1. pc' = "idle" /\ op' = NoOp
        BY <1>11 DEF Finish
    <2>2. rbak' \in [Files -> Nat]
        BY <1>7, <1>11 DEF DropCopies
    <2>3. Kept'
        <3> SUFFICES ASSUME NEW f \in Archived PROVE good[f] \in {0, file[f], rbak'[f]}
            BY <1>1, <1>11 DEF Kept
        <3>1. CASE f \notin Touches(op.name)
            BY <1>11, <3>1 DEF DropCopies, IInv, Kept, Archived, Files
        <3>2. CASE f \in Touches(op.name)
            <4>1. op.name = "obfs" /\ f \in Mine
                BY <1>11, <3>2, HairpinFiles DEF Mine
            <4>2. Copied(f) /\ Was(f) = file[f]
                BY <1>6, <4>1 DEF Transactions, Was
            <4> QED BY <4>2 DEF Copied
        <3> QED BY <3>1, <3>2
    <2>4. file'["priv"] = 0 => Unborn'
        BY <1>1, <1>11 DEF IInv, NoKeyYet, Unborn
    <2> QED BY <1>1, <1>3, <2>1, <2>2, <2>3, <2>4, Over DEF IInv, Typed
<1>12. CASE Finish("refused") /\ UNCHANGED rbak
    <2>1. pc' = "idle" /\ op' = NoOp
        BY <1>12 DEF Finish
    <2> QED BY <1>1, <1>3, <1>4, <1>12, <2>1, Over DEF IInv, Typed
<1>13. \/ file' = Put(Current) /\ Advance(AfterInstall) /\ UNCHANGED rbak
       \/ op.name \in Transactions /\ Undo /\ UNCHANGED rbak
       \/ file' = file /\ op.name \in Hairpins \cup {"obfs"} /\ DropCopies /\ Finish("refused")
       \/ Finish("refused") /\ UNCHANGED rbak
    BY DEF InstallStep, Transactions, Hairpins, Hairpin, Chowned
<1> QED BY <1>9, <1>10, <1>11, <1>12, <1>13

-----------------------------------------------------------------------------
(* The contents a command is about to install.                             *)
LEMMA Candidates ==
    ASSUME IInv, NEW n \in Transactions \cup Hairpins \cup {"init"}, Ready(n)
    PROVE  /\ \A f \in DOMAIN Candidate(n) : Candidate(n)[f] \in Nat
           /\ "priv" \in Touches(n) =>
                 "priv" \in DOMAIN Candidate(n) /\ Candidate(n)["priv"] # 0
<1>1. arch \in [Files -> Nat] /\ fresh \in Nat
    BY DEF IInv, Typed
<1>2. CASE n = "restore"
    <2>1. Candidate(n) = [f \in {g \in Archived : arch[g] # 0} |-> arch[f]]
        BY <1>2 DEF Candidate
    <2>2. arch["priv"] # 0 /\ "priv" \in Archived
        BY <1>2 DEF Ready, Restorable, Coherent, Archived
    <2>3. Archived \subseteq Files
        BY DEF Archived, Files
    <2> QED BY <1>1, <2>1, <2>2, <2>3
<1>3. CASE n = "clear"
    <2>1. Candidate(n) = [f \in {"uuid"} |-> 0]
        BY <1>3 DEF Candidate
    <2>2. "priv" \notin Touches(n)
        BY <1>3 DEF Touches, Material, Range
    <2> QED BY <2>1, <2>2
<1>4. CASE n \notin {"restore", "clear"}
    <2>1. Candidate(n) = [f \in Touches(n) |-> fresh + 1]
        BY <1>4 DEF Candidate
    <2> QED BY <1>1, <2>1
<1> QED BY <1>2, <1>3, <1>4

(* A command begins: it remembers the files it found.                      *)
LEMMA BeginKeeps ==
    ASSUME IInv, NEW n \in CommandNames, Begin(n)
    PROVE  IInv'
<1>1. /\ UNCHANGED <<file, rbak, good, arch>> /\ fresh' = fresh + 1
      /\ op' = [NoOp EXCEPT !.name = n, !.cand = Candidate(n), !.before = Before]
      /\ pc' = IF n = "init" THEN "install" ELSE "backup"
      /\ n # "backup" /\ Ready(n)
    BY DEF Begin, disk
<1>2. n \in Transactions \cup Hairpins \cup {"init"}
    BY <1>1 DEF CommandNames, Transactions, Hairpins
<1>3. /\ IsOp(op') /\ op'.undo = FALSE /\ op'.i = 1 /\ op'.name = n
      /\ op'.cand = Candidate(n) /\ op'.before = Before
    BY Zenon, <1>1 DEF NoOp, IsOp
<1>4. Before.file = file
    BY DEF Before
<1>5. \A f : Was(f)' = file[f]
    BY <1>3, <1>4 DEF Was
<1>6. Typed' /\ Kept'
    <2>1. fresh' \in Nat
        BY <1>1 DEF IInv, Typed
    <2>2. op'.undo \in BOOLEAN /\ op'.before.file \in [Files -> Nat]
        BY Zenon, <1>3, <1>4 DEF IInv, Typed
    <2>3. Kept'
        BY <1>1 DEF IInv, Kept
    <2> QED BY <1>1, <1>3, <2>1, <2>2, <2>3 DEF IInv, Typed
<1>7. 1 \in DOMAIN Material(n) /\ \A j \in DOMAIN Material(n) : ~(j < 1)
    BY SMTT(30), <1>2, Lists
<1>8. Unborn' = Unborn
    BY <1>1 DEF Unborn
<1>9. Phase'
    <2>1. CASE n = "init"
        <3>1. Unborn
            BY <1>1, <2>1 DEF Ready, FirstGeneration, IInv, NoKeyYet
        <3> QED BY <1>1, <1>3, <1>7, <1>8, <2>1, <3>1 DEF Phase, Installing
    <2>2. CASE n # "init"
        BY <1>1, <1>2, <1>3, <1>4, <1>7, <2>2 DEF Phase, Copying
    <2> QED BY <2>1, <2>2
<1>10. /\ \A f \in DOMAIN Candidate(n) : Candidate(n)[f] \in Nat
       /\ "priv" \in Touches(n) =>
             "priv" \in DOMAIN Candidate(n) /\ Candidate(n)["priv"] # 0
    BY <1>1, <1>2, Candidates
<1>11. n = "obfs" => file["priv"] # 0
    BY <1>1 DEF Ready, Coherent
<1>12. Listing'
    BY <1>1, <1>3, <1>5, <1>7, <1>10, <1>11 DEF Listing
<1>13. NoKeyYet'
    BY <1>1, <1>5, <1>8 DEF IInv, NoKeyYet
<1> QED BY <1>6, <1>9, <1>12, <1>13 DEF IInv

(* The timer starts a render, which copies and undoes nothing.             *)
LEMMA TimerKeeps ==
    ASSUME IInv, Timer
    PROVE  IInv'
<1>1. /\ UNCHANGED <<file, rbak, good, arch, fresh>> /\ pc' = "write"
      /\ op' = [NoOp EXCEPT !.name = "render", !.before = Before]
    BY DEF Timer, disk
<1>2. IsOp(op') /\ op'.undo = FALSE /\ op'.name = "render" /\ op'.before = Before
    BY Zenon, <1>1 DEF NoOp, IsOp
<1>3. Before.file = file
    BY DEF Before
<1>4. Typed' /\ Kept'
    BY Zenon, <1>1, <1>2, <1>3 DEF IInv, Typed, Kept
<1>5. Phase'
    BY <1>1, <1>2 DEF Phase, Applying
<1>6. Listing'
    BY <1>1, <1>2 DEF Listing
<1>7. NoKeyYet'
    BY <1>1, <1>2 DEF IInv, NoKeyYet, Unborn, Transactions
<1> QED BY <1>4, <1>5, <1>6, <1>7 DEF IInv

(* A host without material satisfies the invariant.                        *)
LEMMA InitIInv == KeyInit => IInv
<1> SUFFICES ASSUME KeyInit PROVE IInv
    OBVIOUS
<1>1. /\ file = [f \in Files |-> IF f = "uuid" THEN 0 ELSE 2] \/ file = [f \in Files |-> 0]
      /\ rbak = [f \in Files |-> 0] /\ good = file /\ fresh = 2
      /\ arch = [f \in Files |-> IF f \in Archived \ {"obfs"} THEN 1 ELSE 0]
      /\ op = NoOp /\ pc = "idle"
    BY Zenon DEF KeyInit, Nothing
<1>2. IsOp(NoOp) /\ NoOp.undo = FALSE /\ NoOp.name = "none" /\ NoOp.before.file = Nothing
    BY Zenon DEF NoOp, IsOp
<1>3. Nothing \in [Files -> Nat] /\ file \in [Files -> Nat] /\ rbak \in [Files -> Nat]
      /\ arch \in [Files -> Nat]
    BY <1>1 DEF Nothing
<1>4. Typed
    BY Zenon, <1>1, <1>2, <1>3 DEF Typed
<1>5. Kept /\ Phase
    BY <1>1 DEF Kept, Phase
<1>6. Listing
    BY <1>1, <1>2 DEF Listing
<1>7. file["priv"] = 0 => Unborn
    BY <1>1 DEF Unborn, Files
<1>8. NoKeyYet
    BY <1>1, <1>2, <1>7 DEF NoKeyYet, Transactions
<1> QED BY <1>4, <1>5, <1>6, <1>8 DEF IInv

-----------------------------------------------------------------------------
(* The inductive invariant of the transactions.                            *)
THEOREM Invariant == KeySpec => []IInv
<1>1. IInv /\ [KeyNext]_key_vars => IInv'
    <2> SUFFICES ASSUME IInv, [KeyNext]_key_vars PROVE IInv'
        OBVIOUS
    <2>1. CASE WriteStep \/ LoadStep \/ ProveStep \/ ReinstateStep
        BY <2>1, PipelineStep
    <2>2. CASE UndoConfStep \/ UndoLoadStep \/ UndoTomlStep \/ UndoSubStep \/ RefreshStep \/ Kill
        BY <2>2, ClosingStep
    <2>3. CASE TakeBackup \/ ServiceRestart \/ UNCHANGED key_vars
        BY <2>3, IdleStep
    <2>4. CASE \E name \in CommandNames : Begin(name)
        BY <2>4, BeginKeeps
    <2>5. CASE BackupStep
        BY <2>5, BackupKeeps
    <2>6. CASE InstallStep
        BY <2>6, InstallKeeps
    <2>7. CASE InitDone
        BY <2>7, InitKeeps
    <2>8. CASE TomlStep
        BY <2>8, TomlKeeps
    <2>9. CASE SubStep
        BY <2>9, SubscriptionStep
    <2>10. CASE CommitStep
        BY <2>10, CommitKeeps
    <2>11. CASE UndoStep
        BY <2>11, UndoKeeps
    <2>12. CASE Timer
        BY <2>12, TimerKeeps
    <2> QED BY <2>1, <2>2, <2>3, <2>4, <2>5, <2>6, <2>7, <2>8, <2>9, <2>10, <2>11, <2>12
            DEF KeyNext, Step
<1> QED BY <1>1, InitIInv, PTL DEF KeySpec

(* The material that last worked is never lost, in place or as a           *)
(* .rotate-bak copy, whatever fails, whenever a process is killed and      *)
(* whatever is tried next (backup_for_rotate never overwrites a copy).     *)
THEOREM WorkingMaterialIsKept == KeySpec => []PreviousKept
<1>1. IInv => PreviousKept
    BY DEF IInv, Kept, PreviousKept
<1> QED BY <1>1, Invariant, PTL

-----------------------------------------------------------------------------
(* What a transaction does to the services, on top of IInv.  Each part     *)
(* says what holds from some control point on, so that the last one is     *)
(* CommittedIsLive or RestoredIsPrevious.                                  *)
Keyset == {"priv", "pub", "sid"}

(* The transaction's part of the control flow.                             *)
Routes ==
    /\ pc # "undotoml"
    /\ op.name = "restore" => pc \notin {"undoconf", "undoload"}
    /\ Direct(op.name) => pc \notin {"prove", "reinstate"}

(* What was there when it began, and what it does not touch.               *)
Origin ==
    /\ toml = op.before.toml
    /\ op.before.settled =>
         /\ Coherent(op.before.file)
         /\ op.before.running = Render(op.before.file, op.before.toml)
         /\ op.before.sub = Served(op.before.file)
    /\ \A f \in Files \ Touches(op.name) : file[f] = Was(f)

(* The new keyset is coherent, or the present one stays.                   *)
Replacing ==
    /\ pc \in {"backup", "install"} =>
         IF op.name = "obfs" THEN Coherent(file)
         ELSE Keyset \subseteq DOMAIN op.cand /\ Coherent(op.cand)
    /\ pc = "install" =>
         \A j \in DOMAIN Material(op.name) :
            j < op.i /\ Material(op.name)[j] \in Keyset =>
               file[Material(op.name)[j]] = op.cand[Material(op.name)[j]]

(* The way to the commit: from a host that the stamp does not mislead to   *)
(* one where everything runs what the files say.                           *)
Succeeding ==
    /\ pc \in {"write", "load", "prove", "sub"} /\ ~op.undo => Coherent(file)
    /\ pc \in {"load", "prove", "sub"} => target = Render(file, toml)
    /\ pc = "prove" => running = target
    /\ ~op.before.misled =>
         /\ pc \in {"backup", "install"} \/ (pc = "write" /\ ~op.undo) => ~Misled
         /\ pc = "sub" => running = target
         /\ pc = "commit" => Settled
    /\ pc = "commit" =>
         \A j \in DOMAIN Material(op.name) : j < op.i => rbak[Rewound(op.name)[j]] = 0

(* The way back: the files one by one, ...                                 *)
Reverting ==
    op.ok =>
      /\ pc = "undo" =>
           \A j \in DOMAIN Material(op.name) :
              j < op.i => file[Rewound(op.name)[j]] = Was(Rewound(op.name)[j])
      /\ pc \in Undoing \ {"undo"} \/ (pc \in Applying /\ op.undo) => file = op.before.file

(* ... and the services, if they were settled when it began.  A rotation   *)
(* keeps the previous config in place or in config.json.bak; a restore     *)
(* renders what it has put back, and the pipeline skips a document only    *)
(* where sing-box runs it.                                                 *)
Reloading ==
    op.before.settled /\ ~op.stuck =>
      /\ Direct(op.name) /\ pc \notin {"undoload", "undosub", "commit"} =>
           IF op.applied THEN cbak = op.before.running ELSE target = op.before.running
      /\ Direct(op.name) /\ pc \in {"backup", "install", "write"} => ~op.applied
      /\ op.name = "restore" /\ pc \notin {"load", "reinstate", "undosub", "commit"} =>
           running = target
      /\ pc = "undoload" /\ op.ok => target = op.before.running
      /\ pc = "undosub" /\ op.ok => running = target /\ target = op.before.running

(* How it ended.                                                           *)
Ended ==
    /\ CommittedIsLive
    /\ last.name \in Transactions /\ last.out = "restored" /\ ~last.stuck =>
         /\ file = last.before.file
         /\ last.before.settled =>
              running = target /\ target = last.before.running /\ sub = Served(file) /\ sub = last.before.sub

Underway == Routes /\ Origin /\ Replacing /\ Succeeding /\ Reverting /\ Reloading

TxInv == (op.name \in Transactions => Underway) /\ (pc = "idle" => Ended)

-----------------------------------------------------------------------------
(* A command that is over and has neither committed nor rolled back.       *)
LEMMA NothingEnded ==
    ASSUME pc' = "idle", op' = NoOp,
           last'.name \notin Transactions \/ last'.out \notin {"ok", "restored"}
    PROVE  TxInv'
<1>1. op'.name \notin Transactions
    BY DEF NoOp, Transactions
<1>2. Ended'
    BY DEF Ended, CommittedIsLive
<1> QED BY <1>1, <1>2 DEF TxInv

(* Another command than these under way.                                   *)
LEMMA OtherUnderway ==
    ASSUME op'.name \notin Transactions, pc' # "idle"
    PROVE  TxInv'
BY DEF TxInv

(* Where a transaction can be.                                             *)
LEMMA Places ==
    ASSUME IInv, TxInv, op.name \in Transactions
    PROVE  /\ Underway /\ IsOp(op) /\ op.undo \in BOOLEAN
           /\ pc \in {"backup", "install", "commit"} \cup Applying \cup Undoing
           /\ pc \in {"backup", "install"} => ~op.undo
           /\ pc = "sub" \/ (Direct(op.name) /\ pc \in Applying) => ~op.undo
           /\ pc = "undo" => op.undo
           /\ pc = "backup" => file = op.before.file
           /\ pc \in {"backup", "install", "undo", "commit"} => op.i \in DOMAIN Material(op.name)
           /\ pc \in Applying \cup Undoing => \A f \in Mine : Recoverable(f)
<1>1. Underway /\ IsOp(op) /\ op.undo \in BOOLEAN
    BY DEF IInv, Typed, TxInv
<1>2. NoOp.name \notin Transactions /\ Transactions \cap (Hairpins \cup {"init", "render"}) = {}
    BY DEF NoOp, Transactions, Hairpins
<1>3. Copying \/ (Installing /\ op.name # "init") \/ Changing \/ Committing
    BY <1>2 DEF IInv, Phase
<1>4. CASE Copying
    BY <1>1, <1>4 DEF Copying, Applying, Undoing
<1>5. CASE Installing /\ op.name # "init"
    BY <1>1, <1>5 DEF Installing, Applying, Undoing
<1>6. CASE Changing
    <2>1. pc \in Applying \cup Undoing /\ pc \notin {"backup", "install", "commit"}
        BY <1>6 DEF Changing, Applying, Undoing
    <2>2. pc = "undo" => op.i \in DOMAIN Material(op.name)
        BY DEF IInv, Listing
    <2> QED BY Zenon, <1>1, <1>6, <2>1, <2>2 DEF Changing
<1>7. CASE Committing
    <2>1. op.i \in DOMAIN Material(op.name)
        BY <1>7 DEF Committing, IInv, Listing
    <2>2. pc = "commit" /\ pc \notin Applying \cup Undoing
        BY <1>7 DEF Committing, Applying, Undoing
    <2> QED BY <1>1, <2>1, <2>2
<1> QED BY Zenon, <1>3, <1>4, <1>5, <1>6, <1>7

(* What the moves of the control point do to the command's record.         *)
SameFlags == op'.applied = op.applied /\ op'.ok = op.ok /\ op'.stuck = op.stuck

(* To another control point.                                               *)
LEMMA GotoDoes ==
    ASSUME IsOp(op), op.undo \in BOOLEAN, NEW label, Goto(label)
    PROVE  SameCommand /\ SameFlags /\ op'.undo = op.undo /\ op'.i = 1 /\ pc' = label
BY DEF Goto, IsOp, SameCommand, SameFlags

(* To the rollback.                                                        *)
LEMMA UndoDoes ==
    ASSUME IsOp(op), Undo
    PROVE  SameCommand /\ SameFlags /\ op'.undo /\ op'.i = 1 /\ pc' = "undo"
BY Zenon DEF Undo, IsOp, SameCommand, SameFlags

(* From the pipeline, to what follows it in either direction.              *)
LEMMA BackDoes ==
    ASSUME IsOp(op), op.undo \in BOOLEAN, op.name \in Transactions,
           NEW result, NEW stuck \in BOOLEAN, Back(result, stuck)
    PROVE  /\ SameCommand /\ op'.i = 1 /\ op'.applied = op.applied
           /\ pc' = IF op.undo THEN "undosub" ELSE IF result = "ok" THEN "sub" ELSE "undo"
           /\ op'.undo = (op.undo \/ pc' = "undo")
           /\ op'.ok = (op.ok /\ (op.undo => result = "ok"))
           /\ op'.stuck = (op.stuck \/ stuck)
<1> DEFINE to == CASE op.name = "render" -> "refresh"
                   [] Hairpin(op.name)   -> IF result = "ok" THEN "commit" ELSE "undo"
                   [] op.name \in Transactions /\ op.undo -> "undosub"
                   [] OTHER              -> IF result = "ok" THEN "sub" ELSE "undo"
<1>1. op.name # "render" /\ ~Hairpin(op.name)
    BY DEF Transactions, Hairpin
<1>2. pc' = to /\ op' = [[op EXCEPT !.i = 1, !.stuck = @ \/ stuck] EXCEPT
                            !.undo = @ \/ to = "undo", !.ok = @ /\ (op.undo => result = "ok")]
    BY <1>1 DEF Back
<1>3. to = IF op.undo THEN "undosub" ELSE IF result = "ok" THEN "sub" ELSE "undo"
    BY <1>1
<1> HIDE DEF to
<1>4. SameCommand /\ op'.i = 1 /\ op'.applied = op.applied
    BY Zenon, <1>2 DEF IsOp, SameCommand
<1>5. op'.undo = (op.undo \/ to = "undo")
    BY <1>2 DEF IsOp
<1>6. op'.ok = (op.ok /\ (op.undo => result = "ok"))
    BY <1>2 DEF IsOp
<1>7. op'.stuck = (op.stuck \/ stuck)
    BY <1>2 DEF IsOp
<1> QED BY <1>2, <1>3, <1>4, <1>5, <1>6, <1>7

(* The files a transaction touches and the order it rewinds them in.       *)
LEMMA Rewinds ==
    ASSUME NEW n \in Transactions
    PROVE  /\ \A f \in Touches(n) : \E j \in DOMAIN Material(n) : Rewound(n)[j] = f
           /\ Touches(n) \subseteq Archived
           /\ n # "obfs" => Keyset \subseteq Touches(n)
           /\ n = "obfs" => Touches(n) \cap Keyset = {}
<1>1. \A f \in Touches(n) : \E j \in DOMAIN Material(n) : Material(n)[j] = f
    BY Lists
<1>2. CASE n = "rotate"
    <2>1. Material(n) = <<"priv", "pub", "sid">> /\ Rewound(n) = Material(n)
        BY <1>2 DEF Material, Rewound
    <2>2. Touches(n) = {"priv", "pub", "sid"}
        <3>1. Material(n)[1] = "priv" /\ Material(n)[2] = "pub" /\ Material(n)[3] = "sid"
            BY <2>1
        <3>2. DOMAIN Material(n) = {1, 2, 3}
            BY <2>1
        <3> QED BY <3>1, <3>2 DEF Touches, Range
    <2> QED BY <1>1, <1>2, <2>1, <2>2 DEF Archived, Keyset
<1>3. CASE n = "obfs"
    <2>1. Material(n) = <<"obfs">> /\ Rewound(n) = Material(n)
        BY <1>3 DEF Material, Rewound
    <2>2. Touches(n) = {"obfs"}
        BY <2>1 DEF Touches, Range
    <2> QED BY <1>1, <1>3, <2>1, <2>2 DEF Archived, Keyset
<1>4. CASE n = "restore"
    <2> DEFINE m == Material(n)
    <2>1. m = <<"users", "priv", "pub", "sid", "obfs">>
        BY <1>4 DEF Material
    <2>2. Touches(n) = {"users", "priv", "pub", "sid", "obfs"}
        <3>1. m[1] = "users" /\ m[2] = "priv" /\ m[3] = "pub" /\ m[4] = "sid" /\ m[5] = "obfs"
            BY <2>1
        <3>2. DOMAIN m = {1, 2, 3, 4, 5}
            BY <2>1
        <3> QED BY <3>1, <3>2 DEF Touches, Range
    <2>3. Rewound(n) = <<"priv", "pub", "sid", "obfs", "users">>
        BY <1>4 DEF Rewound
    <2>4. /\ Rewound(n)[1] = "priv" /\ Rewound(n)[2] = "pub" /\ Rewound(n)[3] = "sid"
          /\ Rewound(n)[4] = "obfs" /\ Rewound(n)[5] = "users"
        BY <2>3
    <2>5. {1, 2, 3, 4, 5} \subseteq DOMAIN m
        BY <2>1
    <2> HIDE DEF m
    <2>6. \A f \in Touches(n) : \E j \in DOMAIN Material(n) : Rewound(n)[j] = f
        BY <2>2, <2>4, <2>5 DEF m
    <2> QED BY <1>4, <2>2, <2>6 DEF Archived, Keyset
<1> QED BY <1>2, <1>3, <1>4 DEF Transactions

-----------------------------------------------------------------------------
(* What it does not touch stays.                                           *)
LEMMA OriginKept ==
    ASSUME Origin, SameCommand, toml' = toml,
           \A f \in Files \ Touches(op.name) : file'[f] = file[f]
    PROVE  Origin'
<1>1. op'.name = op.name /\ op'.before = op.before
    BY DEF SameCommand
<1>2. \A f : Was(f)' = Was(f)
    BY <1>1 DEF Was
<1> QED BY <1>1, <1>2 DEF Origin

(* A transaction turns back, with the previous config still to be had.     *)
LEMMA ToUndo ==
    ASSUME op.name \in Transactions, SameCommand, Origin', pc' = "undo", op'.i = 1,
           op.before.settled /\ ~op'.stuck =>
             /\ Direct(op.name) =>
                  IF op'.applied THEN cbak' = op.before.running ELSE target' = op.before.running
             /\ op.name = "restore" => running' = target'
    PROVE  TxInv'
<1>1. op'.name = op.name /\ op'.before = op.before
    BY DEF SameCommand
<1>2. Routes' /\ Replacing' /\ Succeeding'
    BY Zenon DEF Routes, Replacing, Succeeding
<1>3. Reverting'
    <2>1. /\ DOMAIN Material(op.name) = 1 .. Len(Material(op.name))
          /\ Len(Material(op.name)) \in Nat
        BY Lists
    <2>2. \A j \in DOMAIN Material(op'.name) : ~(j < op'.i)
        BY SMTT(30), <1>1, <2>1
    <2>3. pc' \notin Undoing \ {"undo"} /\ pc' \notin Applying
        BY DEF Undoing, Applying
    <2> QED BY Zenon, <2>2, <2>3 DEF Reverting
<1>4. Reloading'
    BY <1>1 DEF Reloading
<1> QED BY <1>2, <1>3, <1>4 DEF TxInv, Underway

(* Any other step of a transaction that leaves the files alone.            *)
LEMMA Onward ==
    ASSUME Underway, op.name \in Transactions, SameCommand, UNCHANGED <<file, toml>>,
           pc' \notin {"idle", "undo"},
           Routes', Replacing', Succeeding', Reverting', Reloading'
    PROVE  TxInv'
<1>1. Origin'
    BY OriginKept DEF Underway
<1> QED BY <1>1 DEF TxInv, Underway

(* Copying the files.                                                      *)
LEMMA BackupTx ==
    ASSUME IInv, TxInv, BackupStep
    PROVE  TxInv'
<1>1. pc = "backup" /\ UNCHANGED <<file, toml, target, cbak, stamp, running, sub>>
    BY DEF BackupStep, live
<1>2. CASE Finish("refused")
    BY <1>2, NothingEnded DEF Finish
<1>3. CASE Advance("install")
    <2>1. IsOp(op) /\ op.undo \in BOOLEAN
        BY DEF IInv, Typed
    <2>2. /\ SameCommand /\ SameFlags /\ op'.undo = op.undo
          /\ \/ pc' = "backup"
             \/ pc' = "install" /\ op'.i = 1
        <3>1. CASE op.i < Len(Material(op.name))
            BY <1>1, <1>3, <2>1, <3>1 DEF Advance, IsOp, SameCommand, SameFlags
        <3>2. CASE ~(op.i < Len(Material(op.name)))
            BY <1>3, <2>1, <3>2, GotoDoes DEF Advance
        <3> QED BY <3>1, <3>2
    <2>3. CASE op.name \notin Transactions
        BY <2>2, <2>3, OtherUnderway DEF SameCommand
    <2>4. CASE op.name \in Transactions
        <3>1. /\ Underway /\ ~op.undo
              /\ op'.name = op.name /\ op'.cand = op.cand /\ op'.before = op.before
            BY <1>1, <2>2, <2>4, Places DEF SameCommand
        <3>2. Routes'
            BY <2>2 DEF Routes
        <3>3. Replacing'
            <4>1. /\ DOMAIN Material(op.name) = 1 .. Len(Material(op.name))
                  /\ Len(Material(op.name)) \in Nat
                BY <2>4, Lists
            <4>2. pc' = "install" => \A j \in DOMAIN Material(op'.name) : ~(j < op'.i)
                BY <2>2, <3>1, <4>1
            <4>3. IF op.name = "obfs" THEN Coherent(file)
                  ELSE Keyset \subseteq DOMAIN op.cand /\ Coherent(op.cand)
                BY <1>1, <3>1 DEF Underway, Replacing
            <4> QED BY <1>1, <3>1, <4>2, <4>3 DEF Replacing
        <3>4. Succeeding'
            <4>1. ~op.before.misled => ~Misled'
                BY <1>1, <3>1 DEF Underway, Succeeding, Misled
            <4> QED BY <2>2, <3>1, <4>1 DEF Succeeding
        <3>5. Reverting'
            BY <2>2, <3>1 DEF Reverting, Applying, Undoing
        <3>6. Reloading'
            BY Zenon, <1>1, <2>2, <3>1 DEF Underway, Reloading, SameFlags
        <3> QED BY <1>1, <2>2, <2>4, <3>1, <3>2, <3>3, <3>4, <3>5, <3>6, Onward
    <2> QED BY <2>3, <2>4
<1> QED BY <1>2, <1>3 DEF BackupStep

(* Installing the new contents.                                            *)
LEMMA InstallTx ==
    ASSUME IInv, TxInv, InstallStep
    PROVE  TxInv'
<1>1. pc = "install" /\ UNCHANGED <<toml, target, cbak, stamp, running, sub>>
    BY DEF InstallStep, live
<1>2. CASE Finish("refused")
    BY <1>2, NothingEnded DEF Finish
<1>3. IsOp(op) /\ op.undo \in BOOLEAN
    BY DEF IInv, Typed
<1>4. CASE op.name \notin Transactions /\ ~Finish("refused")
    <2>1. Advance(AfterInstall) \/ Undo
        BY <1>4 DEF InstallStep
    <2>2. op'.name = op.name
        BY Zenon, <1>3, <2>1 DEF Advance, Goto, Undo, IsOp
    <2>3. pc' # "idle"
        BY <1>1, <2>1 DEF Advance, Goto, Undo, AfterInstall
    <2> QED BY <1>4, <2>2, <2>3, OtherUnderway
<1>5. CASE op.name \in Transactions /\ ~Finish("refused")
    <2>1. Underway /\ ~op.undo /\ op.i \in DOMAIN Material(op.name)
        BY <1>1, <1>5, Places
    <2>2. Current \in Touches(op.name) /\ file \in [Files -> Nat] /\ Touches(op.name) \subseteq Files
        BY <1>5, <2>1, Lists DEF Current, IInv, Typed
    <2>3. file' \in {file, Put(Current)}
        BY DEF InstallStep
    <2>4. \A f \in Files \ Touches(op.name) : file'[f] = file[f]
        BY <2>2, <2>3 DEF Put
    <2>5. CASE Undo
        <3>1. SameCommand /\ SameFlags /\ op'.i = 1 /\ pc' = "undo"
            BY <1>3, <2>5, UndoDoes
        <3>2. Origin'
            BY <1>1, <2>1, <2>4, <3>1, OriginKept DEF Underway
        <3>3. op.before.settled /\ ~op'.stuck =>
                /\ Direct(op.name) =>
                     IF op'.applied THEN cbak' = op.before.running ELSE target' = op.before.running
                /\ op.name = "restore" => running' = target'
            BY <1>1, <2>1, <3>1 DEF Underway, Reloading, SameFlags
        <3> QED BY <1>5, <3>1, <3>2, <3>3, ToUndo
    <2>6. CASE Advance(AfterInstall) /\ file' = Put(Current)
        <3>1. AfterInstall = "write"
            BY <1>5 DEF AfterInstall, Transactions, Hairpin
        <3>2. /\ SameCommand /\ SameFlags /\ op'.undo = op.undo
              /\ \/ pc' = "install" /\ op'.i = op.i + 1
                 \/ pc' = "write" /\ op.i >= Len(Material(op.name))
            <4>1. CASE op.i < Len(Material(op.name))
                BY <1>1, <1>3, <2>6, <4>1 DEF Advance, IsOp, SameCommand, SameFlags
            <4>2. CASE ~(op.i < Len(Material(op.name)))
                <5>1. op.i >= Len(Material(op.name))
                    BY SMTT(30), <1>5, <2>1, <4>2, Lists
                <5> QED BY <1>3, <2>6, <3>1, <4>2, <5>1, GotoDoes DEF Advance
            <4> QED BY <4>1, <4>2
        <3>3. op'.name = op.name /\ op'.cand = op.cand /\ op'.before = op.before
            BY <3>2 DEF SameCommand
        <3>4. Origin'
            BY Zenon, <1>1, <2>1, <2>4, <3>2, OriginKept DEF Underway
        <3>5. Routes'
            BY <3>2 DEF Routes
        <3>6. \A j \in DOMAIN Material(op.name) :
                 j <= op.i /\ Material(op.name)[j] \in Keyset /\ op.name # "obfs" =>
                    file'[Material(op.name)[j]] = op.cand[Material(op.name)[j]]
            <4> SUFFICES ASSUME NEW j \in DOMAIN Material(op.name), j <= op.i,
                                Material(op.name)[j] \in Keyset, op.name # "obfs"
                         PROVE  file'[Material(op.name)[j]] = op.cand[Material(op.name)[j]]
                OBVIOUS
            <4>1. Keyset \subseteq DOMAIN op.cand
                BY <1>1, <2>1 DEF Underway, Replacing
            <4>2. Material(op.name)[j] \in Files
                BY DEF Keyset, Files
            <4>3. CASE Material(op.name)[j] = Current
                BY <2>2, <2>6, <4>1, <4>2, <4>3 DEF Put
            <4>4. CASE Material(op.name)[j] # Current
                <5>1. j < op.i
                    BY SMTT(30), <1>5, <2>1, <4>4, Lists DEF Current
                <5>2. file[Material(op.name)[j]] = op.cand[Material(op.name)[j]]
                    BY <1>1, <2>1, <5>1 DEF Underway, Replacing
                <5> QED BY <2>2, <2>6, <4>2, <4>4, <5>2 DEF Put
            <4> QED BY <4>3, <4>4
        <3>7. op.name = "obfs" => \A f \in Keyset : file'[f] = file[f]
            BY <1>5, <2>4, Rewinds DEF Keyset, Files
        <3>8. op.name = "obfs" => Coherent(file')
            <4>1. op.name = "obfs" => Coherent(file)
                BY <1>1, <2>1 DEF Underway, Replacing
            <4> QED BY <3>7, <4>1 DEF Coherent, Keyset
        <3>9. op.name # "obfs" => Keyset \subseteq DOMAIN op.cand /\ Coherent(op.cand)
            BY <1>1, <2>1 DEF Underway, Replacing
        <3>10. Replacing'
            <4>1. ASSUME pc' = "install", NEW j \in DOMAIN Material(op.name), j < op'.i,
                         Material(op.name)[j] \in Keyset
                  PROVE  file'[Material(op.name)[j]] = op.cand[Material(op.name)[j]]
                <5>1. j <= op.i
                    BY SMTT(30), <1>5, <2>1, <3>2, <4>1, Lists
                <5>2. op.name # "obfs"
                    BY <1>5, <4>1, Lists, Rewinds
                <5> QED BY <3>6, <4>1, <5>1, <5>2
            <4> QED BY SMTT(30), <3>3, <3>8, <3>9, <4>1 DEF Replacing
        <3>11. pc' = "write" => Coherent(file')
            <4>1. CASE op.name = "obfs"
                BY <3>8, <4>1
            <4>2. CASE op.name # "obfs" /\ pc' = "write"
                <5>1. ASSUME NEW f \in Keyset PROVE file'[f] = op.cand[f]
                    <6>1. f \in Touches(op.name)
                        BY <1>5, <4>2, Rewinds
                    <6>2. PICK j \in DOMAIN Material(op.name) : Material(op.name)[j] = f
                        BY <1>5, <6>1, Lists
                    <6>3. j \in 1 .. Len(Material(op.name)) /\ Len(Material(op.name)) \in Nat
                        BY <1>5, Lists
                    <6>4. op.i >= Len(Material(op.name)) /\ op.i \in 1 .. Len(Material(op.name))
                        BY <1>5, <2>1, <3>2, <4>2, Lists
                    <6>5. j <= op.i
                        BY <6>3, <6>4
                    <6> QED BY <3>6, <4>2, <6>2, <6>5
                <5> QED BY <3>9, <4>2, <5>1 DEF Coherent, Keyset
            <4> QED BY <4>1, <4>2
        <3>12. Succeeding'
            <4>1. ~op.before.misled => ~Misled'
                BY <1>1, <2>1 DEF Underway, Succeeding, Misled
            <4> QED BY Zenon, <3>2, <3>3, <3>11, <4>1 DEF Succeeding
        <3>13. Reverting'
            BY <2>1, <3>2 DEF Reverting, Applying, Undoing
        <3>14. Reloading'
            BY Zenon, <1>1, <2>1, <3>2, <3>3 DEF Underway, Reloading, SameFlags
        <3>15. pc' # "idle"
            BY <3>2
        <3> QED BY <3>4, <3>5, <3>10, <3>12, <3>13, <3>14, <3>15 DEF TxInv, Underway
    <2> QED BY <1>5, <2>5, <2>6 DEF InstallStep
<1> QED BY <1>2, <1>4, <1>5

-----------------------------------------------------------------------------
(* Writing the config.                                                     *)
LEMMA WriteTx ==
    ASSUME IInv, TxInv, WriteStep, op.name \in Transactions
    PROVE  TxInv'
<1> DEFINE doc == Render(file, toml)
           current == target = doc /\ stamp = doc /\ running # NoDoc
<1>1. Write(doc, current)
    BY DEF WriteStep
<1> HIDE DEF doc, current
<1>2. pc = "write" /\ UNCHANGED <<file, toml, rbak, stamp, running, sub>>
    BY <1>1 DEF Write, live
<1>3. Underway /\ IsOp(op) /\ op.undo \in BOOLEAN /\ (Direct(op.name) => ~op.undo)
    BY <1>2, Places DEF Applying
<1>4. op.name = "restore" <=> ~Direct(op.name)
    BY DEF Direct, Transactions
<1>5. ~op.undo => Coherent(file)
    BY Zenon, <1>2, <1>3 DEF Underway, Succeeding
<1>6. op.undo /\ op.ok => file = op.before.file
    BY Zenon, <1>2, <1>3 DEF Underway, Reverting, Applying
<1>7. CASE UNCHANGED <<target, cbak>> /\ ~Direct(op.name)
           /\ \/ Back("no", FALSE) /\ ~Coherent(file)
              \/ Back("ok", FALSE) /\ current
              \/ Back("err", FALSE)
    <2>1. PICK result \in {"no", "ok", "err"} :
             /\ Back(result, FALSE)
             /\ result = "no" => ~Coherent(file)
             /\ result = "ok" => current
        BY Zenon, <1>7
    <2>2. /\ SameCommand /\ op'.i = 1 /\ op'.applied = op.applied
          /\ pc' = IF op.undo THEN "undosub" ELSE IF result = "ok" THEN "sub" ELSE "undo"
          /\ op'.undo = (op.undo \/ pc' = "undo")
          /\ op'.ok = (op.ok /\ (op.undo => result = "ok"))
          /\ op'.stuck = (op.stuck \/ FALSE)
        BY Zenon, <1>3, <2>1, BackDoes
    <2>3. op'.name = op.name /\ op'.before = op.before
        BY <2>2 DEF SameCommand
    <2>4. op.before.settled /\ ~op'.stuck => running = target
        BY Zenon, <1>2, <1>3, <1>4, <1>7, <2>2 DEF Underway, Reloading
    <2>5. CASE pc' = "undo"
        <3>1. Origin'
            BY Zenon, <1>2, <1>3, <2>2, OriginKept DEF Underway
        <3> QED BY Zenon, <1>2, <1>7, <2>2, <2>4, <2>5, <3>1, ToUndo
    <2>6. CASE pc' = "sub"
        <3>1. ~op.undo /\ ~op'.undo /\ current
            BY Zenon, <1>3, <2>1, <2>2, <2>6
        <3>2. target = Render(file, toml) /\ stamp = target /\ running # NoDoc
            BY <3>1 DEF current, doc
        <3>3. ~op.before.misled => running = target
            BY Zenon, <1>2, <1>3, <3>1, <3>2 DEF Underway, Succeeding, Misled
        <3>4. Routes' /\ Replacing'
            BY Zenon, <2>6 DEF Routes, Replacing
        <3>5. Succeeding'
            BY Zenon, <1>2, <1>5, <1>7, <2>3, <2>6, <3>1, <3>2, <3>3 DEF Succeeding
        <3>6. Reverting'
            BY Zenon, <2>6, <3>1 DEF Reverting, Undoing
        <3>7. Reloading'
            BY Zenon, <1>2, <1>7, <2>2, <2>3, <2>4, <2>6 DEF Reloading
        <3> QED BY Zenon, <1>2, <1>3, <2>2, <2>6, <3>4, <3>5, <3>6, <3>7, Onward
    <2>7. CASE pc' = "undosub"
        <3>1. op.undo /\ op'.undo
            BY <1>3, <2>2, <2>7
        <3>2. op'.ok => op.ok /\ result = "ok"
            BY Zenon, <2>2, <3>1
        <3>3. Routes' /\ Replacing' /\ Succeeding'
            BY Zenon, <1>4, <1>7, <2>3, <2>7 DEF Routes, Replacing, Succeeding
        <3>4. Reverting'
            BY Zenon, <1>2, <1>6, <2>3, <2>7, <3>1, <3>2 DEF Reverting
        <3>5. op'.ok => target = Render(op.before.file, op.before.toml)
            <4>1. toml = op.before.toml
                BY <1>3 DEF Underway, Origin
            <4> QED BY <1>6, <2>1, <3>1, <3>2, <4>1 DEF current, doc
        <3>6. Reloading'
            <4>1. op.before.settled => op.before.running = Render(op.before.file, op.before.toml)
                BY <1>3 DEF Underway, Origin
            <4> QED BY Zenon, <1>2, <1>7, <2>2, <2>3, <2>4, <2>7, <3>5, <4>1 DEF Reloading
        <3> QED BY <1>2, <1>3, <2>2, <2>7, <3>3, <3>4, <3>6, Onward
    <2> QED BY Zenon, <2>2, <2>5, <2>6, <2>7
<1>8. CASE Undo /\ UNCHANGED <<target, cbak>> /\ Direct(op.name)
    <2>1. SameCommand /\ SameFlags /\ op'.i = 1 /\ pc' = "undo"
        BY <1>3, <1>8, UndoDoes
    <2>2. Origin'
        BY <1>2, <1>3, <2>1, OriginKept DEF Underway
    <2>3. op.before.settled /\ ~op'.stuck =>
             IF op'.applied THEN cbak' = op.before.running ELSE target' = op.before.running
        BY <1>2, <1>3, <1>8, <2>1 DEF Underway, Reloading, SameFlags
    <2> QED BY <1>4, <1>8, <2>1, <2>2, <2>3, ToUndo
<1>9. CASE /\ cbak' = IF target = NoDoc THEN cbak ELSE target
           /\ target' = doc
           /\ pc' = "load" /\ op' = [op EXCEPT !.applied = TRUE]
    <2>1. /\ SameCommand /\ op'.i = op.i /\ op'.applied = TRUE
          /\ op'.undo = op.undo /\ op'.ok = op.ok /\ op'.stuck = op.stuck
        BY Zenon, <1>3, <1>9 DEF IsOp, SameCommand
    <2>2. op'.name = op.name /\ op'.before = op.before
        BY <2>1 DEF SameCommand
    <2>3. Routes' /\ Replacing'
        BY <1>9 DEF Routes, Replacing
    <2>4. Succeeding'
        BY <1>2, <1>5, <1>9, <2>1, <2>2 DEF Succeeding, doc
    <2>5. Reverting'
        BY <1>2, <1>6, <1>9, <2>1, <2>2 DEF Reverting, Undoing
    <2>6. ASSUME op.before.settled, ~op.stuck, Direct(op.name) PROVE cbak' = op.before.running
        <3>1. target = op.before.running
            BY Zenon, <1>2, <1>3, <2>6 DEF Underway, Reloading
        <3>2. /\ op.before.running = Render(op.before.file, op.before.toml)
              /\ Coherent(op.before.file)
            BY <1>3, <2>6 DEF Underway, Origin
        <3>3. target # NoDoc
            <4>1. Render(op.before.file, op.before.toml).priv = op.before.file["priv"]
                BY DEF Render
            <4>2. op.before.file["priv"] # 0
                BY <3>2 DEF Coherent
            <4>3. NoDoc.priv = 0
                BY DEF NoDoc
            <4> QED BY <3>1, <3>2, <4>1, <4>2, <4>3
        <3> QED BY <1>9, <3>1, <3>3
    <2>7. Reloading'
        BY <1>9, <2>1, <2>2, <2>6 DEF Reloading
    <2> QED BY <1>2, <1>3, <1>9, <2>1, <2>3, <2>4, <2>5, <2>7, Onward
<1> QED BY Zenon, <1>1, <1>7, <1>8, <1>9 DEF Write, Applied

(* Loading it.                                                             *)
LEMMA LoadTx ==
    ASSUME IInv, TxInv, LoadStep, op.name \in Transactions
    PROVE  TxInv'
<1>1. pc = "load" /\ UNCHANGED <<file, toml, rbak, target, cbak, stamp, sub>>
    BY DEF LoadStep, disk
<1>2. Underway /\ IsOp(op) /\ op.undo \in BOOLEAN /\ (Direct(op.name) => ~op.undo)
    BY <1>1, Places DEF Applying
<1>3. op.name = "restore" <=> ~Direct(op.name)
    BY DEF Direct, Transactions
<1>4. target = Render(file, toml) /\ (~op.undo => Coherent(file))
    BY Zenon, <1>1, <1>2 DEF Underway, Succeeding
<1>5. op.undo /\ op.ok => file = op.before.file
    BY Zenon, <1>1, <1>2 DEF Underway, Reverting, Applying
<1>6. op.before.settled /\ ~op.stuck /\ Direct(op.name) =>
         IF op.applied THEN cbak = op.before.running ELSE target = op.before.running
    BY Zenon, <1>1, <1>2 DEF Underway, Reloading
<1>7. CASE Undo /\ Direct(op.name)
    <2>1. SameCommand /\ SameFlags /\ op'.i = 1 /\ pc' = "undo"
        BY <1>2, <1>7, UndoDoes
    <2>2. Origin'
        BY <1>1, <1>2, <2>1, OriginKept DEF Underway
    <2> QED BY Zenon, <1>1, <1>3, <1>6, <1>7, <2>1, <2>2, ToUndo DEF SameFlags
<1>8. CASE \/ running' = target /\ Goto(IF Direct(op.name) THEN "sub" ELSE "prove")
           \/ Goto("reinstate") /\ ~Direct(op.name)
    <2>1. /\ SameCommand /\ SameFlags /\ op'.undo = op.undo /\ op'.i = 1
          /\ \/ pc' = "sub" /\ Direct(op.name) /\ running' = target
             \/ pc' = "prove" /\ ~Direct(op.name) /\ running' = target
             \/ pc' = "reinstate" /\ ~Direct(op.name)
        BY <1>2, <1>8, GotoDoes
    <2>2. op'.name = op.name /\ op'.before = op.before
        BY <2>1 DEF SameCommand
    <2>3. Routes' /\ Replacing'
        BY <2>1, <2>2 DEF Routes, Replacing
    <2>4. Succeeding'
        BY Zenon, <1>1, <1>4, <2>1, <2>2 DEF Succeeding
    <2>5. Reverting'
        BY Zenon, <1>1, <1>2, <1>5, <2>1, <2>2 DEF Reverting, Undoing, SameFlags
    <2>6. Reloading'
        BY Zenon, <1>1, <1>3, <1>6, <2>1, <2>2 DEF Reloading, SameFlags
    <2> QED BY <1>1, <1>2, <2>1, <2>3, <2>4, <2>5, <2>6, Onward
<1> QED BY <1>7, <1>8 DEF LoadStep

(* Proving it with a handshake.                                            *)
LEMMA ProveTx ==
    ASSUME IInv, TxInv, ProveStep, op.name \in Transactions
    PROVE  TxInv'
<1>1. pc = "prove" /\ UNCHANGED <<file, toml, rbak, target, cbak, running, sub>>
    BY DEF ProveStep, live
<1>2. Underway /\ IsOp(op) /\ op.undo \in BOOLEAN
    BY Zenon, <1>1, Places DEF Applying
<1>3. op.name = "restore" /\ ~Direct(op.name)
    BY <1>1, <1>2 DEF Underway, Routes, Direct, Transactions
<1>4. target = Render(file, toml) /\ running = target /\ (~op.undo => Coherent(file))
    BY Zenon, <1>1, <1>2 DEF Underway, Succeeding
<1>5. op.undo /\ op.ok => file = op.before.file
    BY <1>1, <1>2 DEF Underway, Reverting, Applying
<1>6. CASE Goto("reinstate")
    <2>1. SameCommand /\ SameFlags /\ op'.undo = op.undo /\ pc' = "reinstate"
        BY <1>2, <1>6, GotoDoes
    <2>2. op'.name = op.name /\ op'.before = op.before
        BY Zenon, <2>1 DEF SameCommand
    <2>3. Routes' /\ Replacing' /\ Succeeding'
        BY Zenon, <1>3, <2>1, <2>2 DEF Routes, Replacing, Succeeding
    <2>4. Reverting'
        BY Zenon, <1>1, <1>5, <2>1, <2>2 DEF Reverting, Undoing, SameFlags
    <2>5. Reloading'
        BY Zenon, <1>3, <2>1, <2>2 DEF Reloading
    <2> QED BY <1>1, <1>2, <2>1, <2>3, <2>4, <2>5, Onward
<1>7. CASE Back("ok", FALSE) \/ Back("err", FALSE)
    <2>1. PICK result \in {"ok", "err"} : Back(result, FALSE)
        BY Zenon, <1>7
    <2>2. /\ SameCommand /\ op'.i = 1 /\ op'.applied = op.applied
          /\ pc' = IF op.undo THEN "undosub" ELSE IF result = "ok" THEN "sub" ELSE "undo"
          /\ op'.undo = (op.undo \/ pc' = "undo")
          /\ op'.ok = (op.ok /\ (op.undo => result = "ok"))
          /\ op'.stuck = (op.stuck \/ FALSE)
        BY Zenon, <1>2, <2>1, BackDoes
    <2>3. op'.name = op.name /\ op'.before = op.before
        BY <2>2 DEF SameCommand
    <2>4. CASE pc' = "undo"
        <3>1. Origin'
            BY Zenon, <1>1, <1>2, <2>2, OriginKept DEF Underway
        <3> QED BY Zenon, <1>1, <1>3, <1>4, <2>2, <2>4, <3>1, ToUndo
    <2>5. CASE pc' = "sub"
        <3>1. ~op.undo /\ ~op'.undo
            BY <1>2, <2>2, <2>5
        <3>2. Routes' /\ Replacing'
            BY <2>5 DEF Routes, Replacing
        <3>3. Succeeding'
            BY Zenon, <1>1, <1>4, <2>5, <3>1 DEF Succeeding
        <3>4. Reverting'
            BY <2>5, <3>1 DEF Reverting, Undoing
        <3>5. Reloading'
            BY <1>1, <1>3, <1>4, <2>3, <2>5 DEF Reloading
        <3> QED BY Zenon, <1>1, <1>2, <2>2, <2>5, <3>2, <3>3, <3>4, <3>5, Onward
    <2>6. CASE pc' = "undosub"
        <3>1. op.undo /\ op'.undo /\ (op'.ok => op.ok)
            BY Zenon, <1>2, <2>2, <2>6
        <3>2. Routes' /\ Replacing' /\ Succeeding'
            BY Zenon, <1>3, <2>3, <2>6 DEF Routes, Replacing, Succeeding
        <3>3. Reverting'
            BY Zenon, <1>1, <1>5, <2>3, <2>6, <3>1 DEF Reverting
        <3>4. op.before.settled /\ op'.ok => target = op.before.running
            BY Zenon, <1>2, <1>4, <1>5, <3>1 DEF Underway, Origin
        <3>5. Reloading'
            BY Zenon, <1>1, <1>3, <1>4, <2>3, <2>6, <3>4 DEF Reloading
        <3> QED BY <1>1, <1>2, <2>2, <2>6, <3>2, <3>3, <3>5, Onward
    <2> QED BY Zenon, <2>2, <2>4, <2>5, <2>6
<1> QED BY Zenon, <1>6, <1>7 DEF ProveStep, Applied

(* The pipeline's own recovery.                                            *)
LEMMA ReinstateTx ==
    ASSUME IInv, TxInv, ReinstateStep, op.name \in Transactions
    PROVE  TxInv'
<1>1. pc = "reinstate" /\ UNCHANGED <<file, toml, rbak, cbak, sub>>
    BY DEF ReinstateStep
<1>2. Underway /\ IsOp(op) /\ op.undo \in BOOLEAN
    BY <1>1, Places DEF Applying
<1>3. op.name = "restore" /\ ~Direct(op.name)
    BY <1>1, <1>2 DEF Underway, Routes, Direct, Transactions
<1>4. PICK stuck \in BOOLEAN : Back("err", stuck) /\ (~stuck => running' = target')
    BY Zenon DEF ReinstateStep
<1>5. /\ SameCommand /\ op'.i = 1
      /\ pc' = IF op.undo THEN "undosub" ELSE "undo"
      /\ op'.ok = (op.ok /\ (op.undo => "err" = "ok"))
      /\ op'.stuck = (op.stuck \/ stuck)
    BY SMTT(30), <1>2, <1>4, BackDoes
<1>6. op'.name = op.name /\ op'.before = op.before
    BY <1>5 DEF SameCommand
<1>7. CASE pc' = "undo"
    <2>1. Origin'
        BY <1>1, <1>2, <1>5, OriginKept DEF Underway
    <2>2. ~op'.stuck => running' = target'
        BY <1>4, <1>5
    <2> QED BY <1>3, <1>5, <1>7, <2>1, <2>2, ToUndo
<1>8. CASE pc' = "undosub"
    <2>1. ~op'.ok
        BY Zenon, <1>2, <1>5, <1>8
    <2>2. Routes' /\ Replacing' /\ Succeeding' /\ Reverting'
        BY Zenon, <1>3, <1>6, <1>8, <2>1 DEF Routes, Replacing, Succeeding, Reverting
    <2>3. Reloading'
        BY Zenon, <1>3, <1>6, <1>8, <2>1 DEF Reloading
    <2> QED BY <1>1, <1>2, <1>5, <1>8, <2>2, <2>3, Onward
<1> QED BY <1>5, <1>7, <1>8

-----------------------------------------------------------------------------
(* Restarting the subscription service.                                    *)
LEMMA SubTx ==
    ASSUME IInv, TxInv, SubStep
    PROVE  TxInv'
<1>1. pc = "sub" /\ UNCHANGED <<file, toml, rbak, target, cbak, stamp, running>>
    BY DEF SubStep, disk
<1>2. op.name \in Transactions
    BY <1>1, Kinds DEF Applying
<1>3. Underway /\ IsOp(op) /\ op.undo \in BOOLEAN /\ ~op.undo
    BY <1>1, <1>2, Places
<1>4. Coherent(file) /\ target = Render(file, toml) /\ (~op.before.misled => running = target)
    BY <1>1, <1>3 DEF Underway, Succeeding
<1>5. CASE Undo
    <2>1. SameCommand /\ SameFlags /\ op'.i = 1 /\ pc' = "undo"
        BY <1>3, <1>5, UndoDoes
    <2>2. Origin'
        BY <1>1, <1>3, <2>1, OriginKept DEF Underway
    <2>3. op.before.settled /\ ~op'.stuck =>
            /\ Direct(op.name) =>
                 IF op'.applied THEN cbak' = op.before.running ELSE target' = op.before.running
            /\ op.name = "restore" => running' = target'
        BY <1>1, <1>3, <2>1 DEF Underway, Reloading, SameFlags
    <2> QED BY <1>2, <2>1, <2>2, <2>3, ToUndo
<1>6. CASE sub' = Served(file) /\ Goto("commit")
    <2>1. SameCommand /\ SameFlags /\ op'.undo = op.undo /\ op'.i = 1 /\ pc' = "commit"
        BY <1>3, <1>6, GotoDoes
    <2>2. op'.name = op.name /\ op'.before = op.before
        BY <2>1 DEF SameCommand
    <2>3. Routes' /\ Replacing'
        BY <2>1 DEF Routes, Replacing
    <2>4. Succeeding'
        <3>1. ~op.before.misled => Settled'
            BY <1>1, <1>4, <1>6 DEF Settled
        <3>2. /\ DOMAIN Material(op.name) = 1 .. Len(Material(op.name))
              /\ Len(Material(op.name)) \in Nat
            BY <1>2, Lists
        <3>3. \A j \in DOMAIN Material(op'.name) : ~(j < op'.i)
            BY SMTT(30), <2>1, <2>2, <3>2
        <3> QED BY Zenon, <2>1, <2>2, <3>1, <3>3 DEF Succeeding
    <2>5. Reverting'
        BY <2>1 DEF Reverting, Undoing, Applying
    <2>6. Reloading'
        BY <2>1 DEF Reloading
    <2> QED BY <1>1, <1>2, <1>3, <2>1, <2>3, <2>4, <2>5, <2>6, Onward
<1> QED BY <1>5, <1>6 DEF SubStep

(* Dropping the copies; with the last of them the transaction is over.     *)
LEMMA CommitTx ==
    ASSUME IInv, TxInv, CommitStep
    PROVE  TxInv'
<1>1. pc = "commit" /\ UNCHANGED <<file, toml, target, cbak, stamp, running, sub>>
      /\ rbak' = [rbak EXCEPT ![Rewinding] = 0]
    BY DEF CommitStep, live
<1>2. IsOp(op) /\ op.undo \in BOOLEAN /\ rbak \in [Files -> Nat]
    BY DEF IInv, Typed
<1>3. CASE op.name \notin Transactions
    <2>1. CASE Finish("ok")
        BY <1>3, <2>1, NothingEnded DEF Finish
    <2>2. CASE op' = [op EXCEPT !.i = @ + 1] /\ UNCHANGED pc
        <3>1. op'.name = op.name
            BY <1>2, <2>2 DEF IsOp
        <3> QED BY <1>1, <1>3, <2>2, <3>1, OtherUnderway
    <2> QED BY <2>1, <2>2 DEF CommitStep
<1>4. CASE op.name \in Transactions
    <2>1. Underway /\ op.i \in DOMAIN Material(op.name)
        BY Zenon, <1>1, <1>4, Places
    <2>2. /\ DOMAIN Material(op.name) = 1 .. Len(Material(op.name))
          /\ Len(Material(op.name)) \in Nat
          /\ \A j \in DOMAIN Material(op.name) : Rewound(op.name)[j] \in Touches(op.name)
          /\ Touches(op.name) \subseteq Files
        BY Zenon, <1>4, Lists DEF Transactions
    <2>3. \A j \in DOMAIN Material(op.name) : Rewound(op.name)[j] \in Files
        BY <2>2
    <2>4. \A j \in DOMAIN Material(op.name) : j < op.i => rbak[Rewound(op.name)[j]] = 0
        BY Zenon, <1>1, <2>1 DEF Underway, Succeeding
    <2>5. ASSUME NEW j \in DOMAIN Material(op.name), j <= op.i PROVE rbak'[Rewound(op.name)[j]] = 0
        <3>1. CASE Rewound(op.name)[j] = Rewinding
            BY Zenon, <1>1, <1>2, <2>3, <3>1
        <3>2. CASE Rewound(op.name)[j] # Rewinding
            <4>1. j < op.i
                BY <2>1, <2>2, <2>5, <3>2 DEF Rewinding
            <4> QED BY <1>1, <1>2, <2>3, <2>4, <3>2, <4>1
        <3> QED BY Zenon, <3>1, <3>2
    <2>6. ~op.before.misled => Settled'
        <3>1. ~op.before.misled => Settled
            BY <1>1, <2>1 DEF Underway, Succeeding
        <3> QED BY <1>1, <3>1 DEF Settled
    <2>7. CASE op.i < Len(Material(op.name))
        <3>1. op' = [op EXCEPT !.i = @ + 1] /\ pc' = "commit"
            BY <1>1, <2>7 DEF CommitStep
        <3>2. SameCommand /\ SameFlags /\ op'.undo = op.undo /\ op'.i = op.i + 1
            BY <1>2, <3>1 DEF IsOp, SameCommand, SameFlags
        <3>3. op'.name = op.name /\ op'.before = op.before
            BY <3>2 DEF SameCommand
        <3>4. \A j \in DOMAIN Material(op'.name) : j < op'.i => rbak'[Rewound(op'.name)[j]] = 0
            <4>1. \A j \in DOMAIN Material(op.name) : j < op.i + 1 => j <= op.i
                BY <2>1, <2>2
            <4> QED BY Zenon, <2>5, <3>2, <3>3, <4>1
        <3>5. Routes' /\ Replacing'
            BY <3>1 DEF Routes, Replacing
        <3>6. Succeeding'
            BY <2>6, <3>1, <3>3, <3>4 DEF Succeeding
        <3>7. Reverting' /\ Reloading'
            BY <3>1 DEF Reverting, Reloading, Undoing, Applying
        <3> QED BY <1>1, <1>4, <2>1, <3>1, <3>2, <3>5, <3>6, <3>7, Onward
    <2>8. CASE ~(op.i < Len(Material(op.name)))
        <3>1. Finish("ok")
            BY <2>8 DEF CommitStep
        <3>2. /\ pc' = "idle" /\ op'.name \notin Transactions
              /\ last'.name = op.name /\ last'.out = "ok" /\ last'.before = op.before
            BY Zenon, <3>1 DEF Finish, NoOp, Transactions
        <3>3. ASSUME NEW f \in Touches(op.name) PROVE rbak'[f] = 0
            <4>1. PICK j \in DOMAIN Material(op.name) : Rewound(op.name)[j] = f
                BY <1>4, Rewinds
            <4>2. j <= op.i
                BY <2>1, <2>2, <2>8
            <4> QED BY <2>5, <4>1, <4>2
        <3>4. Ended'
            BY <2>6, <3>2, <3>3 DEF Ended, CommittedIsLive
        <3> QED BY <3>2, <3>4 DEF TxInv
    <2> QED BY <2>7, <2>8
<1> QED BY <1>3, <1>4

-----------------------------------------------------------------------------
(* Putting a file back.                                                    *)
LEMMA UndoTx ==
    ASSUME IInv, TxInv, UndoStep
    PROVE  TxInv'
<1>1. pc = "undo" /\ UNCHANGED <<toml, target, cbak, stamp, running, sub>>
    BY DEF UndoStep, live
<1>2. IsOp(op) /\ op.undo \in BOOLEAN /\ rbak \in [Files -> Nat] /\ file \in [Files -> Nat]
    BY DEF IInv, Typed
<1> DEFINE PutBack == IF Existed(Rewinding)
                      THEN restore_from_rotate_backup(Rewinding)
                      ELSE file' = [file EXCEPT ![Rewinding] = 0] /\ UNCHANGED rbak
<1>3. PICK o \in {op, Bad} : UndoNext(o) /\ (o = Bad \/ PutBack)
    BY DEF UndoStep
<1>4. /\ IsOp(o) /\ o.name = op.name /\ o.cand = op.cand /\ o.before = op.before /\ o.i = op.i
      /\ o.applied = op.applied /\ o.undo = op.undo /\ o.stuck = op.stuck
      /\ o.ok => op.ok /\ PutBack
    <2>1. CASE o = Bad
        BY Zenon, <1>2, <2>1 DEF Bad, IsOp
    <2>2. CASE o = op /\ PutBack
        BY <1>2, <2>2
    <2> QED BY Zenon, <1>3, <2>1, <2>2
<1>5. /\ SameCommand /\ op'.applied = op.applied /\ op'.stuck = op.stuck /\ op'.undo = op.undo
      /\ op'.ok = o.ok
      /\ \/ op.i < Len(Material(op.name)) /\ pc' = "undo" /\ op'.i = op.i + 1
         \/ ~(op.i < Len(Material(op.name))) /\ pc' = AfterUndo /\ op'.i = 1
    <2>1. CASE op.i < Len(Material(op.name))
        BY <1>1, <1>2, <1>3, <1>4, <2>1 DEF UndoNext, IsOp, SameCommand
    <2>2. CASE ~(op.i < Len(Material(op.name)))
        BY <1>2, <1>3, <1>4, <2>2 DEF UndoNext, IsOp, SameCommand
    <2> QED BY Zenon, <2>1, <2>2
<1>6. op'.name = op.name /\ op'.before = op.before
    BY <1>5 DEF SameCommand
<1>7. CASE op.name \notin Transactions
    <2>1. pc' # "idle"
        BY <1>5 DEF AfterUndo
    <2> QED BY <1>6, <1>7, <2>1, OtherUnderway
<1>8. CASE op.name \in Transactions
    <2>1. Underway /\ op.undo /\ op.i \in DOMAIN Material(op.name) /\ \A f \in Mine : Recoverable(f)
        BY Zenon, <1>1, <1>8, Places DEF Undoing
    <2>2. /\ DOMAIN Material(op.name) = 1 .. Len(Material(op.name))
          /\ Len(Material(op.name)) \in Nat
          /\ \A j \in DOMAIN Material(op.name) : Rewound(op.name)[j] \in Touches(op.name)
          /\ Touches(op.name) \subseteq Files
        BY <1>8, Lists DEF Transactions
    <2>3. Touches(op.name) \subseteq Archived
        BY <1>8, Rewinds
    <2>4. Rewinding \in Touches(op.name) /\ Rewinding \in Files /\ Rewinding \in Mine
        BY <2>1, <2>2, <2>3 DEF Rewinding, Mine
    <2>5. \A f \in Files : f # Rewinding => file'[f] = file[f]
        BY <1>2, <2>4 DEF UndoStep, restore_from_rotate_backup
    <2>6. ASSUME o.ok PROVE file'[Rewinding] = Was(Rewinding)
        <3>1. /\ rbak[Rewinding] \in {0, Was(Rewinding)}
              /\ Was(Rewinding) \in {0, file[Rewinding], rbak[Rewinding]}
            BY <2>1, <2>4 DEF Recoverable
        <3>2. CASE Existed(Rewinding) /\ restore_from_rotate_backup(Rewinding)
            BY <1>2, <2>4, <3>1, <3>2 DEF Existed, Was, restore_from_rotate_backup
        <3>3. CASE ~Existed(Rewinding) /\ file' = [file EXCEPT ![Rewinding] = 0]
            BY <1>2, <2>4, <3>3 DEF Existed, Was
        <3> QED BY <1>4, <2>6, <3>2, <3>3
    <2>7. ASSUME o.ok, NEW j \in DOMAIN Material(op.name), j <= op.i
          PROVE  file'[Rewound(op.name)[j]] = Was(Rewound(op.name)[j])
        <3>1. CASE Rewound(op.name)[j] = Rewinding
            BY <2>6, <2>7, <3>1
        <3>2. CASE Rewound(op.name)[j] # Rewinding
            <4>1. j < op.i
                BY SMTT(30), <2>1, <2>2, <2>7, <3>2 DEF Rewinding
            <4>2. file[Rewound(op.name)[j]] = Was(Rewound(op.name)[j])
                BY Zenon, <1>1, <1>4, <2>1, <2>7, <4>1 DEF Underway, Reverting
            <4>3. Rewound(op.name)[j] \in Files
                BY <2>2
            <4> QED BY <2>5, <3>2, <4>2, <4>3
        <3> QED BY <3>1, <3>2
    <2>8. \A f \in Files \ Touches(op.name) : file'[f] = file[f]
        BY <2>4, <2>5
    <2>9. Origin'
        BY Zenon, <1>1, <1>5, <2>1, <2>8, OriginKept DEF Underway
    <2>10. op.before.settled /\ ~op'.stuck =>
             /\ Direct(op.name) =>
                  IF op'.applied THEN cbak' = op.before.running ELSE target' = op.before.running
             /\ op.name = "restore" => running' = target'
        BY Zenon, <1>1, <1>5, <2>1 DEF Underway, Reloading
    <2>11. CASE pc' = "undo" /\ op'.i = op.i + 1
        <3>1. Routes' /\ Replacing' /\ Succeeding'
            BY Zenon, <2>11 DEF Routes, Replacing, Succeeding
        <3>2. Reverting'
            <4>1. \A j \in DOMAIN Material(op.name) : j < op.i + 1 => j <= op.i
                BY SMTT(30), <2>1, <2>2
            <4>2. \A f : Was(f)' = Was(f)
                BY <1>6 DEF Was
            <4>3. op'.ok => \A j \in DOMAIN Material(op'.name) :
                     j < op'.i => file'[Rewound(op'.name)[j]] = Was(Rewound(op.name)[j])
                BY Zenon, <1>5, <1>6, <2>7, <2>11, <4>1
            <4> QED BY Zenon, <1>6, <2>11, <4>2, <4>3 DEF Reverting, Undoing, Applying
        <3>3. Reloading'
            BY Zenon, <1>6, <2>10, <2>11 DEF Reloading
        <3> QED BY <2>9, <2>11, <3>1, <3>2, <3>3 DEF TxInv, Underway
    <2>12. CASE ~(op.i < Len(Material(op.name))) /\ pc' = AfterUndo
        <3>1. pc' = IF Direct(op.name) THEN "undoconf" ELSE "write"
            BY <1>8, <2>12 DEF AfterUndo, Transactions, Hairpin
        <3>2. op.name = "restore" <=> ~Direct(op.name)
            BY <1>8 DEF Direct, Transactions
        <3>3. ASSUME o.ok PROVE file' = op.before.file
            <4>1. op.before.file \in [Files -> Nat] /\ file' \in [Files -> Nat]
                <5>1. op.before.file \in [Files -> Nat]
                    BY DEF IInv, Typed
                <5>2. file' \in [Files -> Nat]
                    BY SMTT(30), <1>2, <2>4 DEF UndoStep, restore_from_rotate_backup
                <5> QED BY <5>1, <5>2
            <4>2. ASSUME NEW f \in Files PROVE file'[f] = op.before.file[f]
                <5>1. CASE f \in Touches(op.name)
                    <6>1. PICK j \in DOMAIN Material(op.name) : Rewound(op.name)[j] = f
                        BY <1>8, <5>1, Rewinds
                    <6>2. j <= op.i
                        BY <2>1, <2>2, <2>12
                    <6> QED BY <2>7, <3>3, <6>1, <6>2 DEF Was
                <5>2. CASE f \notin Touches(op.name)
                    BY <2>1, <2>8, <5>2 DEF Underway, Origin, Was
                <5> QED BY <5>1, <5>2
            <4> QED BY <4>1, <4>2
        <3>4. Routes' /\ Replacing'
            BY <1>6, <3>1, <3>2 DEF Routes, Replacing
        <3>5. Succeeding'
            BY <1>5, <2>1, <3>1 DEF Succeeding
        <3>6. Reverting'
            BY Zenon, <1>5, <1>6, <3>1, <3>3 DEF Reverting
        <3>7. Reloading'
            BY Zenon, <1>6, <2>10, <3>1, <3>2 DEF Reloading
        <3>8. pc' # "idle"
            BY <3>1
        <3> QED BY <2>9, <3>4, <3>5, <3>6, <3>7, <3>8 DEF TxInv, Underway
    <2> QED BY <1>5, <2>11, <2>12
<1> QED BY <1>7, <1>8

(* Putting the previous config back.                                       *)
LEMMA UndoConfTx ==
    ASSUME IInv, TxInv, UndoConfStep, op.name \in Transactions
    PROVE  TxInv'
<1>1. pc = "undoconf" /\ pc' = "undoload" /\ UNCHANGED <<file, toml, rbak, cbak, running, sub>>
    BY DEF UndoConfStep, live
<1>2. Underway /\ IsOp(op) /\ op.undo \in BOOLEAN
    BY Places
<1>3. op.name # "restore" /\ Direct(op.name)
    BY <1>1, <1>2 DEF Underway, Routes, Direct, Transactions
<1>4. op' \in {op, Bad}
    BY DEF UndoConfStep
<1>5. /\ SameCommand /\ op'.stuck = op.stuck /\ (op'.ok => op.ok /\ op' # Bad)
    <2>1. Bad.ok = FALSE
        BY <1>2 DEF Bad, IsOp
    <2>2. CASE op' = op
        BY <1>2, <2>1, <2>2 DEF SameCommand
    <2>3. CASE op' = Bad
        BY Zenon, <1>2, <2>1, <2>3 DEF SameCommand, Bad, IsOp
    <2> QED BY <1>4, <2>2, <2>3
<1>6. op'.name = op.name /\ op'.before = op.before
    BY <1>5 DEF SameCommand
<1>7. Routes' /\ Replacing' /\ Succeeding'
    BY Zenon, <1>1, <1>3, <1>6 DEF Routes, Replacing, Succeeding
<1>8. Reverting'
    BY Zenon, <1>1, <1>2, <1>5, <1>6 DEF Underway, Reverting, Undoing
<1>9. ASSUME op.before.settled, ~op.stuck, op'.ok PROVE target' = op.before.running
    <2>1. IF op.applied THEN cbak = op.before.running ELSE target = op.before.running
        BY Zenon, <1>1, <1>2, <1>3, <1>9 DEF Underway, Reloading
    <2>2. op' # Bad
        BY <1>5, <1>9
    <2> QED BY SMTT(30), <2>1, <2>2 DEF UndoConfStep
<1>10. Reloading'
    BY Zenon, <1>1, <1>3, <1>5, <1>6, <1>9 DEF Reloading
<1> QED BY <1>1, <1>2, <1>5, <1>7, <1>8, <1>10, Onward

(* Loading the previous config.                                            *)
LEMMA UndoLoadTx ==
    ASSUME IInv, TxInv, UndoLoadStep, op.name \in Transactions
    PROVE  TxInv'
<1>1. pc = "undoload" /\ pc' = "undosub" /\ UNCHANGED <<file, toml, rbak, target, cbak, sub>>
    BY DEF UndoLoadStep, disk
<1>2. Underway /\ IsOp(op) /\ op.undo \in BOOLEAN
    BY Places
<1>3. op.name # "restore" /\ Direct(op.name)
    BY <1>1, <1>2 DEF Underway, Routes, Direct, Transactions
<1>4. op' \in {op, Bad} /\ (op' = Bad \/ running' = target)
    BY DEF UndoLoadStep
<1>5. SameCommand /\ op'.stuck = op.stuck /\ (op'.ok => op.ok /\ running' = target)
    <2>1. CASE op' = op /\ running' = target
        BY <1>2, <2>1 DEF SameCommand
    <2>2. CASE op' = Bad
        BY Zenon, <1>2, <2>2 DEF SameCommand, Bad, IsOp
    <2> QED BY <1>4, <2>1, <2>2
<1>6. op'.name = op.name /\ op'.before = op.before
    BY <1>5 DEF SameCommand
<1>7. Routes' /\ Replacing' /\ Succeeding'
    BY Zenon, <1>1, <1>3, <1>6 DEF Routes, Replacing, Succeeding
<1>8. Reverting'
    BY Zenon, <1>1, <1>2, <1>5, <1>6 DEF Underway, Reverting, Undoing
<1>9. op.before.settled /\ ~op.stuck /\ op'.ok => target = op.before.running
    BY Zenon, <1>1, <1>2, <1>5 DEF Underway, Reloading
<1>10. Reloading'
    BY <1>1, <1>3, <1>5, <1>6, <1>9 DEF Reloading
<1> QED BY <1>1, <1>2, <1>5, <1>7, <1>8, <1>10, Onward

(* The end of a rollback: the last restart tells how it went.              *)
LEMMA UndoSubTx ==
    ASSUME IInv, TxInv, UndoSubStep
    PROVE  TxInv'
<1>1. pc = "undosub" /\ UNCHANGED <<file, toml, rbak, target, cbak, running>>
    BY DEF UndoSubStep, disk
<1>2. CASE Finish("broken")
    BY <1>2, NothingEnded DEF Finish
<1>3. CASE sub' = Served(file) /\ Finish("restored") /\ op.ok
    <2>1. /\ pc' = "idle" /\ op' = NoOp /\ last'.name = op.name /\ last'.out = "restored"
          /\ last'.before = op.before /\ last'.stuck = op.stuck
        BY <1>3 DEF Finish
    <2>2. CASE op.name \notin Transactions
        BY <2>1, <2>2, NothingEnded
    <2>3. CASE op.name \in Transactions
        <3>1. Underway
            BY <2>3, Places
        <3>2. file = op.before.file
            BY <1>1, <1>3, <3>1 DEF Underway, Reverting, Undoing
        <3>3. ASSUME op.before.settled, ~op.stuck
              PROVE  running = target /\ target = op.before.running /\ sub' = op.before.sub
            <4>1. running = target /\ target = op.before.running
                BY <1>1, <1>3, <3>1, <3>3 DEF Underway, Reloading
            <4>2. op.before.sub = Served(op.before.file)
                BY <3>1, <3>3 DEF Underway, Origin
            <4> QED BY <1>3, <3>2, <4>1, <4>2
        <3>4. Ended'
            BY <1>1, <1>3, <2>1, <3>2, <3>3 DEF Ended, CommittedIsLive
        <3>5. op'.name \notin Transactions
            BY Zenon, <2>1 DEF NoOp, Transactions
        <3> QED BY <3>4, <3>5 DEF TxInv
    <2> QED BY <2>2, <2>3
<1> QED BY <1>2, <1>3 DEF UndoSubStep

-----------------------------------------------------------------------------
(* The steps that end no transaction, and those of the other commands.     *)
LEMMA OtherTx ==
    ASSUME IInv, TxInv, InitDone \/ TomlStep \/ RefreshStep \/ UndoTomlStep \/ Kill \/ Timer
    PROVE  TxInv'
<1>1. IsOp(op)
    BY DEF IInv, Typed
<1>2. CASE InitDone \/ RefreshStep
    <2>1. pc \in {"done", "refresh"} /\ Finish("ok")
        BY <1>2 DEF InitDone, RefreshStep
    <2>2. op.name \notin Transactions
        BY <2>1, Places DEF Applying, Undoing
    <2> QED BY <2>1, <2>2, NothingEnded DEF Finish
<1>3. CASE TomlStep
    <2>1. pc = "toml"
        BY <1>3 DEF TomlStep
    <2>2. op.name \notin Transactions
        BY <2>1, Places DEF Applying, Undoing
    <2>3. CASE Goto("write")
        <3>1. op'.name = op.name /\ pc' = "write"
            BY <1>1, <2>3 DEF Goto, IsOp
        <3> QED BY <2>2, <3>1, OtherUnderway
    <2>4. CASE \E out : Finish(out)
        BY <2>2, <2>4, NothingEnded DEF Finish
    <2> QED BY <1>3, <2>3, <2>4 DEF TomlStep
<1>4. CASE UndoTomlStep
    <2>1. pc = "undotoml" /\ \E out : Finish(out)
        BY <1>4 DEF UndoTomlStep
    <2>2. op.name \notin Transactions
        BY <2>1 DEF TxInv, Underway, Routes
    <2> QED BY SMTT(30), <2>1, <2>2, NothingEnded DEF Finish
<1>5. CASE Kill
    BY <1>5, NothingEnded DEF Kill, Finish
<1>6. CASE Timer
    <2>1. op'.name = "render" /\ pc' = "write"
        BY <1>6 DEF Timer, NoOp
    <2> QED BY <2>1, OtherUnderway DEF Transactions
<1> QED BY <1>2, <1>3, <1>4, <1>5, <1>6

(* The pipeline under the other commands.                                  *)
LEMMA OtherPipelineTx ==
    ASSUME IInv, op.name \notin Transactions,
           \/ WriteStep \/ LoadStep \/ ProveStep \/ ReinstateStep
           \/ UndoConfStep \/ UndoLoadStep
    PROVE  TxInv'
<1>1. IsOp(op)
    BY DEF IInv, Typed
<1>2. \/ \E out : Finish(out)
      \/ pc' # "idle" /\ op'.name = op.name
    <2>1. ASSUME NEW result, NEW stuck, Back(result, stuck)
          PROVE  Finish(result) \/ (pc' # "idle" /\ op'.name = op.name)
        BY Zenon, <1>1, <2>1 DEF Back, IsOp
    <2>2. ASSUME NEW label, Goto(label) PROVE pc' = label /\ op'.name = op.name
        BY <1>1, <2>2 DEF Goto, IsOp
    <2>3. Undo => pc' = "undo" /\ op'.name = op.name
        BY <1>1 DEF Undo, IsOp
    <2>4. CASE WriteStep
        <3>1. CASE \E result : Back(result, FALSE)
            BY Zenon, <2>1, <3>1
        <3>2. CASE Undo
            BY <2>3, <3>2
        <3>3. CASE pc' = "load" /\ op' = [op EXCEPT !.applied = TRUE]
            BY <1>1, <3>3 DEF IsOp
        <3> QED BY Zenon, <2>4, <3>1, <3>2, <3>3 DEF WriteStep, Write, Applied
    <2>5. CASE LoadStep
        <3>1. \/ \E label \in {"sub", "prove", "reinstate"} : Goto(label)
              \/ Undo
            BY <2>5 DEF LoadStep
        <3> QED BY <2>2, <2>3, <3>1
    <2>6. CASE ProveStep \/ ReinstateStep
        <3>1. CASE Goto("reinstate")
            BY SMTT(30), <2>2, <3>1
        <3>2. CASE \E result, stuck : Back(result, stuck)
            <4>1. PICK result, stuck : Back(result, stuck)
                BY <3>2
            <4> QED BY <2>1, <4>1
        <3> QED BY Zenon, <2>6, <3>1, <3>2 DEF ProveStep, ReinstateStep, Applied
    <2>7. CASE UndoConfStep \/ UndoLoadStep
        <3>1. pc' \in {"undoload", "undosub"} /\ op' \in {op, Bad}
            BY Zenon, <2>7 DEF UndoConfStep, UndoLoadStep
        <3>2. Bad.name = op.name
            BY <1>1 DEF Bad, IsOp
        <3> QED BY <3>1, <3>2
    <2> QED BY <2>4, <2>5, <2>6, <2>7
<1>3. CASE \E out : Finish(out)
    BY SMTT(30), <1>3, NothingEnded DEF Finish
<1>4. CASE pc' # "idle" /\ op'.name = op.name
    BY <1>4, OtherUnderway
<1> QED BY <1>2, <1>3, <1>4

(* systemd restarts a service, or nothing happens to the host.             *)
LEMMA RestartTx ==
    ASSUME IInv, TxInv, TakeBackup \/ ServiceRestart \/ UNCHANGED key_vars
    PROVE  TxInv'
<1>1. /\ UNCHANGED <<file, rbak, toml, target, cbak, stamp, op, pc, last>>
      /\ running' \in {running, target} /\ sub' \in {sub, Served(file)}
    BY DEF TakeBackup, ServiceRestart, key_vars, disk, live
<1>2. running = target => running' = target
    BY <1>1
<1>3. Settled => Settled'
    BY <1>1 DEF Settled
<1>4. ~Misled => ~Misled'
    BY <1>1 DEF Misled
<1>5. pc = "idle" => Ended'
    <2>1. CommittedIsLive => CommittedIsLive'
        BY <1>1, <1>3 DEF CommittedIsLive
    <2> QED BY Zenon, <1>1, <1>2, <2>1 DEF TxInv, Ended
<1>6. ASSUME op.name \in Transactions PROVE Underway'
    <2>1. Underway
        BY <1>6 DEF TxInv
    <2>2. \A f : Was(f)' = Was(f)
        BY <1>1 DEF Was
    <2>3. Routes' /\ Origin' /\ Replacing' /\ Reverting'
        BY Zenon, <1>1, <2>1, <2>2 DEF Underway, Routes, Origin, Replacing, Reverting
    <2>4. Succeeding'
        BY Zenon, <1>1, <1>2, <1>3, <1>4, <2>1 DEF Underway, Succeeding
    <2>5. Reloading'
        BY <1>1, <1>2, <2>1 DEF Underway, Reloading
    <2> QED BY <2>3, <2>4, <2>5 DEF Underway
<1> QED BY <1>1, <1>5, <1>6 DEF TxInv

(* A transaction begins: it knows the host as it is, and has a coherent    *)
(* keyset to install.                                                      *)
LEMMA BeginTx ==
    ASSUME IInv, TxInv, NEW n \in CommandNames, Begin(n)
    PROVE  TxInv'
<1>1. /\ UNCHANGED <<file, toml, target, cbak, stamp, running, sub, arch>>
      /\ op' = [NoOp EXCEPT !.name = n, !.cand = Candidate(n), !.before = Before]
      /\ pc' = IF n = "init" THEN "install" ELSE "backup"
      /\ Ready(n)
    BY DEF Begin, disk, live
<1>2. /\ op'.name = n /\ op'.cand = Candidate(n) /\ op'.before = Before
      /\ op'.applied = FALSE /\ op'.undo = FALSE
    BY <1>1 DEF NoOp
<1>3. /\ Before.file = file /\ Before.toml = toml /\ Before.running = running /\ Before.sub = sub
      /\ Before.settled = Settled /\ Before.misled = Misled
    BY DEF Before
<1>4. CASE n \notin Transactions
    BY <1>1, <1>2, <1>4, OtherUnderway
<1>5. CASE n \in Transactions
    <2>1. pc' = "backup"
        BY <1>1, <1>5 DEF Transactions
    <2>2. Routes'
        BY <2>1 DEF Routes
    <2>3. Origin'
        <3>1. \A f : Was(f)' = file[f]
            BY <1>2, <1>3 DEF Was
        <3>2. Settled => Coherent(file) /\ running = Render(file, toml) /\ sub = Served(file)
            BY DEF Settled
        <3> QED BY <1>1, <1>2, <1>3, <3>1, <3>2 DEF Origin
    <2>4. Replacing'
        <3>1. n = "obfs" => Coherent(file)
            BY <1>1 DEF Ready
        <3>2. ASSUME n = "rotate" PROVE Keyset \subseteq DOMAIN Candidate(n) /\ Coherent(Candidate(n))
            <4>1. Candidate(n) = [f \in Touches(n) |-> fresh + 1]
                BY <3>2 DEF Candidate
            <4>2. Keyset \subseteq Touches(n)
                BY <1>5, <3>2, Rewinds
            <4>3. fresh + 1 # 0
                BY DEF IInv, Typed
            <4> QED BY <4>1, <4>2, <4>3 DEF Coherent, Keyset
        <3>3. ASSUME n = "restore" PROVE Keyset \subseteq DOMAIN Candidate(n) /\ Coherent(Candidate(n))
            <4>1. Candidate(n) = [f \in {g \in Archived : arch[g] # 0} |-> arch[f]]
                BY <3>3 DEF Candidate
            <4>2. Coherent(arch)
                BY <1>1, <3>3 DEF Ready, Restorable
            <4> QED BY <4>1, <4>2 DEF Coherent, Keyset, Archived
        <3> QED BY <1>1, <1>2, <1>5, <2>1, <3>1, <3>2, <3>3 DEF Replacing, Transactions
    <2>5. Succeeding'
        <3>1. Misled' = Misled
            BY <1>1 DEF Misled
        <3> QED BY <1>2, <1>3, <2>1, <3>1 DEF Succeeding
    <2>6. Reverting'
        BY <2>1 DEF Reverting, Undoing, Applying
    <2>7. Reloading'
        <3>1. Settled => target = running
            BY DEF Settled
        <3> QED BY <1>1, <1>2, <1>3, <2>1, <3>1 DEF Reloading
    <2> QED BY <2>1, <2>2, <2>3, <2>4, <2>5, <2>6, <2>7 DEF TxInv, Underway
<1> QED BY <1>4, <1>5

-----------------------------------------------------------------------------
(* The transactions' invariant, on top of the files'.                      *)
THEOREM Transacting == KeySpec => []TxInv
<1>1. KeyInit => TxInv
    <2> SUFFICES ASSUME KeyInit PROVE TxInv
        OBVIOUS
    <2>1. op.name = "none" /\ last.name = "none"
        BY Zenon DEF KeyInit, NoOp
    <2> QED BY <2>1 DEF TxInv, Ended, CommittedIsLive, Transactions
<1>2. IInv /\ TxInv /\ [KeyNext]_key_vars => TxInv'
    <2> SUFFICES ASSUME IInv, TxInv, [KeyNext]_key_vars PROVE TxInv'
        OBVIOUS
    <2>1. CASE BackupStep \/ InstallStep
        BY <2>1, BackupTx, InstallTx
    <2>2. CASE WriteStep \/ LoadStep \/ ProveStep \/ ReinstateStep \/ UndoConfStep \/ UndoLoadStep
        <3>1. CASE op.name \in Transactions
            BY <2>2, <3>1, WriteTx, LoadTx, ProveTx, ReinstateTx, UndoConfTx, UndoLoadTx
        <3> QED BY <2>2, <3>1, OtherPipelineTx
    <2>3. CASE SubStep \/ CommitStep \/ UndoStep \/ UndoSubStep
        BY <2>3, SubTx, CommitTx, UndoTx, UndoSubTx
    <2>4. CASE InitDone \/ TomlStep \/ RefreshStep \/ UndoTomlStep \/ Kill \/ Timer
        BY <2>4, OtherTx
    <2>5. CASE TakeBackup \/ ServiceRestart \/ UNCHANGED key_vars
        BY <2>5, RestartTx
    <2>6. CASE \E name \in CommandNames : Begin(name)
        BY <2>6, BeginTx
    <2> QED BY <2>1, <2>2, <2>3, <2>4, <2>5, <2>6 DEF KeyNext, Step
<1> QED BY <1>1, <1>2, Invariant, PTL DEF KeySpec

(* A rotation or restore that reports success has moved the files, the     *)
(* config, sing-box and the subscription service to the same material and  *)
(* left no copy, unless the host's stamp was wrong when it began.          *)
THEOREM CommitIsLive == KeySpec => []CommittedIsLive
<1>1. TxInv => CommittedIsLive
    BY DEF TxInv, Ended, CommittedIsLive
<1> QED BY <1>1, Transacting, PTL

(* A rollback that reports success has put the previous files back and,    *)
(* on a host that was settled, both services, however far the transaction  *)
(* had come, unless the pipeline said that sing-box would not come back.   *)
THEOREM RollbackIsComplete == KeySpec => []RestoredIsPrevious
<1>1. TxInv => RestoredIsPrevious
    BY DEF TxInv, Ended, RestoredIsPrevious
<1> QED BY <1>1, Transacting, PTL
==============================================================================
