-------------------------- MODULE JobPipelineProofs --------------------------
(* Proofs about the job pipeline, for every set of jobs, every capacity    *)
(* and retry limit, every combination of faults and any number of claims   *)
(* and crashes.                                                            *)
EXTENDS JobPipeline, FiniteSetTheorems, TLAPS

(* Appending to a queue adds exactly the new report.                       *)
LEMMA AppendReports ==
    ASSUME NEW s \in Seq(Report), NEW r \in Report
    PROVE  /\ Append(s, r) \in Seq(Report)
           /\ Reports(Append(s, r)) = Reports(s) \cup {r}
           /\ Len(Append(s, r)) = Len(s) + 1
<1> DEFINE t == Append(s, r)
<1>1. /\ t \in Seq(Report) /\ Len(t) = Len(s) + 1 /\ Len(s) \in Nat
      /\ \A i \in 1 .. Len(s) : t[i] = s[i]
      /\ t[Len(s) + 1] = r
      /\ DOMAIN t = 1 .. Len(s) + 1 /\ DOMAIN s = 1 .. Len(s)
  OBVIOUS
<1> HIDE DEF t
<1>2. Reports(t) \subseteq Reports(s) \cup {r}
  BY <1>1 DEF Reports
<1>3. Reports(s) \cup {r} \subseteq Reports(t)
  BY <1>1 DEF Reports
<1> QED BY <1>1, <1>2, <1>3 DEF t

(* The first report of a queue, and what is left without it.               *)
LEMMA TailReports ==
    ASSUME NEW s \in Seq(Report), s # <<>>
    PROVE  /\ Head(s) \in Report /\ Head(s) \in Reports(s) /\ Head(s) = s[1]
           /\ Tail(s) \in Seq(Report)
           /\ Reports(Tail(s)) \subseteq Reports(s)
           /\ Len(Tail(s)) = Len(s) - 1
BY DEF Reports

(* An empty queue.                                                         *)
LEMMA EmptyReports ==
    <<>> \in Seq(Report) /\ Reports(<<>>) = {} /\ Len(<<>>) = 0
BY DEF Reports

(* A queue holds reports.                                                  *)
LEMMA ReportsType ==
    ASSUME NEW s \in Seq(Report)
    PROVE  Reports(s) \subseteq Report /\ Len(s) \in Nat
BY DEF Reports

(* What prune leaves is part of what it got and fits, if it got at most    *)
(* one entry too many.                                                     *)
LEMMA PruneFits ==
    ASSUME NEW es, IsFiniteSet(es), Cardinality(es) <= MAX_ENTRIES + 1, NEW l \in prune(es)
    PROVE  l \subseteq es /\ IsFiniteSet(l) /\ Cardinality(l) <= MAX_ENTRIES
<1> DEFINE fresh == {e \in es : e.day >= day - RETENTION}
<1>1. IsFiniteSet(fresh) /\ Cardinality(fresh) <= Cardinality(es)
  <2>1. fresh \subseteq es
    OBVIOUS
  <2> QED BY <2>1, FS_Subset
<1>2. Cardinality(fresh) \in Nat /\ Cardinality(es) \in Nat
  BY <1>1, FS_CardinalityType
<1>3. CASE l = fresh /\ Cardinality(fresh) <= MAX_ENTRIES
  BY <1>1, <1>3
<1>4. CASE \E e \in fresh : l = fresh \ {e}
  <2>1. PICK e \in fresh : l = fresh \ {e}
    BY <1>4
  <2>2. IsFiniteSet(l) /\ Cardinality(l) = Cardinality(fresh) - 1
    BY Zenon, <1>1, <2>1, FS_RemoveElement
  <2> QED BY <1>1, <1>2, <2>1, <2>2, PipelineAssumption
<1> QED BY <1>3, <1>4 DEF prune

-----------------------------------------------------------------------------
(* What the Worker, the log and the main loop see of the queues is the set *)
(* of reports held.  A step that holds no new report and leaves the jobs   *)
(* and the main loop alone keeps the facts about them.                     *)
LEMMA HeldShrinks ==
    ASSUME IInv, UNCHANGED <<token, effects, main, log, readable>>, Held' \subseteq Held,
           \A j \in Jobs : wstate'[j] = wstate[j]
                            \/ (wstate'[j] = "pending" /\ wstate[j] = "claimed")
    PROVE  Working' /\ ReportsCurrent' /\ LogCurrent'
<1>1. Working'
  BY DEF IInv, Working, TypeOK, Claim, main, recorded
<1>2. ReportsCurrent'
  BY DEF IInv, ReportsCurrent
<1>3. LogCurrent'
  BY DEF IInv, LogCurrent
<1> QED BY <1>1, <1>2, <1>3

(* Steps that touch neither the queues nor the main loop.                  *)
LEMMA OutsideKeeps ==
    ASSUME IInv,
           \/ \E j \in Jobs : WorkerReclaims(j) \/ LeaseEnds(j)
           \/ DayPasses \/ LogBreaks
    PROVE  IInv'
<1>1. UNCHANGED <<token, wresult, effects, log, queue, main, task, crashes, owed>>
  BY DEF WorkerReclaims, LeaseEnds, DayPasses, LogBreaks, worker, node
<1>2. TypeOK'
  <2>1. CASE \E j \in Jobs : WorkerReclaims(j)
    BY <2>1 DEF IInv, TypeOK, WorkerReclaims, node, main, task
  <2>2. CASE \E j \in Jobs : LeaseEnds(j)
    BY <2>2 DEF IInv, TypeOK, LeaseEnds, worker, node, main, task
  <2>3. CASE DayPasses
    BY <2>3, PipelineAssumption DEF IInv, TypeOK, DayPasses, worker, main, task
  <2>4. CASE LogBreaks
    BY Zenon, <2>4 DEF IInv, TypeOK, LogBreaks, worker, main, task
  <2> QED BY <2>1, <2>2, <2>3, <2>4
<1>3. Held' = Held
  BY <1>1 DEF Held, main, task
<1>4. \A j \in Jobs : wstate'[j] = wstate[j] \/ (wstate'[j] = "pending" /\ wstate[j] = "claimed")
  BY DEF WorkerReclaims, LeaseEnds, DayPasses, LogBreaks, worker, IInv, TypeOK
<1>5. readable' = readable \/ readable' = FALSE
  BY DEF WorkerReclaims, LeaseEnds, DayPasses, LogBreaks, node
<1>6. Working'
  BY Zenon, <1>1, <1>3, <1>4, <1>5 DEF IInv, Working, TypeOK, Claim, main, recorded
<1>7. ReportsCurrent' /\ LogCurrent'
  BY <1>1, <1>3, <1>5 DEF IInv, ReportsCurrent, LogCurrent
<1>8. Fits'
  BY <1>1 DEF IInv, Fits, main, task
<1>9. CompletionMatchesNode'
  BY <1>1, <1>4 DEF IInv, CompletionMatchesNode, TypeOK
<1> QED BY <1>2, <1>6, <1>7, <1>8, <1>9 DEF IInv

-----------------------------------------------------------------------------
(* The delivery task only hands on reports it found in the file.           *)
LEMMA TakeBatchKeeps ==
    ASSUME IInv, TakeBatch
    PROVE  IInv'
<1> USE DEF TakeBatch
<1>1. TypeOK'
  <2>1. queue \in Seq(Report) /\ \A r \in Reports(queue) : r.attempts < REPORT_ATTEMPTS
    BY DEF IInv, TypeOK
  <2> QED BY Zenon, <2>1, EmptyReports DEF IInv, TypeOK, worker, node, main
<1>2. Held' \subseteq Held
  BY EmptyReports DEF Held, main
<1>3. Working' /\ ReportsCurrent' /\ LogCurrent'
  BY <1>2, HeldShrinks DEF worker, node
<1>4. Fits'
  BY EmptyReports, ReportsType DEF IInv, TypeOK, Fits, node, main
<1>5. CompletionMatchesNode'
  BY DEF IInv, CompletionMatchesNode, worker, node
<1> QED BY <1>1, <1>3, <1>4, <1>5 DEF IInv

(* Taking up the next report of a batch preserves the invariant.           *)
LEMMA NextReportKeeps ==
    ASSUME IInv, NextReport
    PROVE  IInv'
<1> USE DEF NextReport
<1>0. batch \in Seq(Report) /\ batch # <<>>
  BY DEF IInv, TypeOK
<1>1. TypeOK'
  <2>1. batch' \in Seq(Report) /\ Reports(batch') \subseteq Reports(batch)
    BY Zenon, <1>0, TailReports
  <2>2. owed' \subseteq Claim
    BY DEF IInv, TypeOK
  <2>3. \A s \in {queue', entries', batch', kept'} :
          s \in Seq(Report) /\ \A r \in Reports(s) : r.attempts < REPORT_ATTEMPTS
    BY <2>1 DEF IInv, TypeOK, main
  <2>4. rat' \in {"next", "sent"} /\ (rat' = "sent" => batch' # <<>>)
    OBVIOUS
  <2> QED BY Zenon, <2>2, <2>3, <2>4 DEF IInv, TypeOK, worker, node, main
<1>2. Held' \subseteq Held
  BY Zenon, <1>0, TailReports DEF Held, main
<1>3. Working' /\ ReportsCurrent' /\ LogCurrent'
  BY <1>2, HeldShrinks DEF worker, node
<1>4. Fits'
  <2>1. Len(batch') <= Len(batch) /\ Len(batch') \in Nat /\ Len(batch) \in Nat
    BY <1>0, TailReports, ReportsType
  <2>2. kept \in Seq(Report) /\ Len(kept) \in Nat
    BY ReportsType DEF IInv, TypeOK
  <2> QED BY <2>1, <2>2, PipelineAssumption DEF IInv, Fits, node, main
<1>5. CompletionMatchesNode'
  BY DEF IInv, CompletionMatchesNode, worker, node
<1> QED BY <1>1, <1>3, <1>4, <1>5 DEF IInv

(* A report the Worker takes is current, so its result is that of the last *)
(* change, and the main loop is not working on its job.                    *)
LEMMA SettlingKeeps ==
    ASSUME IInv, NEW r \in Report, UNCHANGED <<token, effects, main, log, readable>>,
           Held' \subseteq Held \cup {r},
           \E h \in Held : h.job = r.job /\ h.token = r.token /\ h.result = r.result,
           UNCHANGED worker \/ (Takes(r) /\ WorkerSettles(r))
    PROVE  Working' /\ ReportsCurrent' /\ LogCurrent' /\ CompletionMatchesNode'
<1>1. PICK h \in Held : h.job = r.job /\ h.token = r.token /\ h.result = r.result
  OBVIOUS
<1>2. r.job \in Jobs /\ r.result \in Nat /\ r.token \in Nat
  BY DEF Report
<1>3. ReportsCurrent' /\ LogCurrent'
  BY <1>1 DEF IInv, ReportsCurrent, LogCurrent
<1>4. at # "idle" /\ r.job = cur.job => r.token < token[r.job]
  BY <1>1 DEF IInv, Working
<1>5. Working'
  <2>1. at # "idle" => wstate'[cur.job] = wstate[cur.job]
    <3>1. CASE UNCHANGED worker
      BY <3>1 DEF worker
    <3>2. CASE Takes(r) /\ WorkerSettles(r)
      <4>1. at # "idle" => r.job # cur.job
        BY <1>2, <1>4, <3>2 DEF Takes
      <4>2. at # "idle" => cur.job \in Jobs
        BY DEF IInv, TypeOK, Claim
      <4> QED BY <1>2, <3>2, <4>1, <4>2 DEF IInv, TypeOK, WorkerSettles
    <3> QED BY <3>1, <3>2
  <2>2. \A x \in Held' : at # "idle" /\ x.job = cur.job => x.token < cur.token
    BY <1>1 DEF IInv, Working
  <2> QED BY <2>1, <2>2 DEF IInv, Working, main, recorded
<1>6. CompletionMatchesNode'
  <2>1. CASE UNCHANGED worker
    BY <2>1 DEF IInv, CompletionMatchesNode, worker
  <2>2. CASE Takes(r) /\ WorkerSettles(r)
    <3>1. r.result # Failed => r.result = effects[r.job] /\ r.result > 0
      BY <1>1, <1>2, <2>2 DEF IInv, ReportsCurrent, Takes, Failed
    <3> QED BY Zenon, <1>2, <2>2, <3>1 DEF IInv, TypeOK, CompletionMatchesNode, WorkerSettles, Failed
  <2> QED BY <2>1, <2>2
<1> QED BY <1>3, <1>5, <1>6

(* Answered and Unanswered settle the report at the head of the batch, or  *)
(* nothing; the batch loses it and kept may get it back.                   *)
LEMMA AnsweredKeeps ==
    ASSUME IInv, Answered
    PROVE  IInv'
<1> DEFINE r == Head(batch)
<1>0. batch \in Seq(Report) /\ batch # <<>>
  BY DEF IInv, TypeOK, Answered
<1>1. r \in Report /\ r \in Held /\ batch' \in Seq(Report) /\ Reports(batch') \subseteq Reports(batch)
      /\ Len(batch') = Len(batch) - 1
  BY <1>0, TailReports DEF Answered, Held
<1>2. UNCHANGED worker \/ (Takes(r) /\ WorkerSettles(r))
  BY DEF Answered
<1>3. UNCHANGED <<expired, node, queue, main, kept, crashes>> /\ rat' = "next"
      /\ owed' = owed \ {Of(r)}
  BY DEF Answered
<1> HIDE DEF r
<1>4. TypeOK'
  <2>1. /\ wstate' \in [Jobs -> {"pending", "claimed", "done", "failed"}]
        /\ token' = token /\ wresult' \in [Jobs -> Nat]
    BY Zenon, <1>1, <1>2 DEF IInv, TypeOK, worker, WorkerSettles, Report
  <2>2. \A s \in {queue', entries', batch', kept'} :
          s \in Seq(Report) /\ \A x \in Reports(s) : x.attempts < REPORT_ATTEMPTS
    BY <1>1, <1>3 DEF IInv, TypeOK, main
  <2>3. owed' \subseteq Claim
    BY <1>3 DEF IInv, TypeOK
  <2> QED BY Zenon, <1>3, <2>1, <2>2, <2>3 DEF IInv, TypeOK, node, main
<1>5. Held' \subseteq Held \cup {r}
  BY <1>1, <1>3 DEF Held, main
<1>6. token' = token
  BY <1>2 DEF worker, WorkerSettles
<1>7. Working' /\ ReportsCurrent' /\ LogCurrent' /\ CompletionMatchesNode'
  <2>1. \E h \in Held : h.job = r.job /\ h.token = r.token /\ h.result = r.result
    BY <1>1
  <2>2. UNCHANGED <<token, effects, main, log, readable>>
    BY <1>3, <1>6 DEF node
  <2> QED BY <1>1, <1>2, <1>5, <2>1, <2>2, SettlingKeeps
<1>8. Fits'
  <2>1. Len(batch) \in Nat /\ Len(kept) \in Nat
    BY <1>0, ReportsType DEF IInv, TypeOK
  <2> QED BY <1>1, <1>3, <2>1, PipelineAssumption DEF IInv, Fits, node, main
<1> QED BY <1>4, <1>7, <1>8 DEF IInv

(* So does keeping a report that got no answer for another try.            *)
LEMMA UnansweredKeeps ==
    ASSUME IInv, Unanswered
    PROVE  IInv'
<1> DEFINE h == Head(batch)
           r == [h EXCEPT !.attempts = @ + 1]
<1>0. batch \in Seq(Report) /\ batch # <<>>
  BY DEF IInv, TypeOK, Unanswered
<1>1. h \in Report /\ h \in Held /\ batch' \in Seq(Report) /\ Reports(batch') \subseteq Reports(batch)
      /\ Len(batch') = Len(batch) - 1
  BY <1>0, TailReports DEF Unanswered, Held
<1>2. r \in Report /\ h.job = r.job /\ h.token = r.token /\ h.result = r.result
  BY <1>1 DEF Report
<1>3. UNCHANGED worker \/ (Takes(r) /\ WorkerSettles(r))
  BY DEF Unanswered
<1>4. UNCHANGED <<expired, node, queue, main, crashes>> /\ rat' = "next"
  BY DEF Unanswered
<1>5. \/ r.attempts >= REPORT_ATTEMPTS /\ owed' = owed \ {Of(r)} /\ kept' = kept
      \/ ~(r.attempts >= REPORT_ATTEMPTS) /\ kept' = Append(kept, r) /\ owed' = owed
  BY DEF Unanswered
<1> HIDE DEF h, r
<1>6. /\ kept \in Seq(Report) /\ kept' \in Seq(Report)
      /\ Reports(kept') \subseteq Reports(kept) \cup {r}
      /\ Len(kept') <= Len(kept) + 1
      /\ Len(kept) \in Nat /\ Len(kept') \in Nat
  <2>1. kept \in Seq(Report) /\ Len(kept) \in Nat
    BY ReportsType DEF IInv, TypeOK
  <2>2. CASE kept' = kept
    BY <2>1, <2>2
  <2>3. CASE kept' = Append(kept, r)
    BY <1>2, <2>1, <2>3, AppendReports
  <2> QED BY <1>5, <2>2, <2>3
<1>7. \A x \in Reports(kept') : x.attempts < REPORT_ATTEMPTS
  <2>1. \A x \in Reports(kept) : x.attempts < REPORT_ATTEMPTS
    BY DEF IInv, TypeOK
  <2>2. CASE kept' = kept
    BY <2>1, <2>2
  <2>3. CASE ~(r.attempts >= REPORT_ATTEMPTS)
    <3>1. r.attempts < REPORT_ATTEMPTS
      BY <1>2, <2>3, PipelineAssumption DEF Report
    <3> QED BY <1>6, <2>1, <3>1
  <2> QED BY <1>5, <2>2, <2>3
<1>8. TypeOK'
  <2>1. /\ wstate' \in [Jobs -> {"pending", "claimed", "done", "failed"}]
        /\ token' = token /\ wresult' \in [Jobs -> Nat]
    BY Zenon, <1>2, <1>3 DEF IInv, TypeOK, worker, WorkerSettles, Report
  <2>2. \A s \in {queue', entries', batch', kept'} :
          s \in Seq(Report) /\ \A x \in Reports(s) : x.attempts < REPORT_ATTEMPTS
    BY <1>1, <1>4, <1>6, <1>7 DEF IInv, TypeOK, main
  <2>3. owed' \subseteq Claim
    BY <1>5 DEF IInv, TypeOK
  <2> QED BY Zenon, <1>4, <2>1, <2>2, <2>3 DEF IInv, TypeOK, node, main
<1>9. Held' \subseteq Held \cup {r}
  BY <1>1, <1>4, <1>6 DEF Held, main
<1>10. Working' /\ ReportsCurrent' /\ LogCurrent' /\ CompletionMatchesNode'
  <2>1. UNCHANGED <<token, effects, main, log, readable>>
    BY <1>3, <1>4 DEF node, worker, WorkerSettles
  <2> QED BY <1>1, <1>2, <1>3, <1>9, <2>1, SettlingKeeps
<1>11. Fits'
  <2>1. Len(batch) \in Nat
    BY <1>0, ReportsType
  <2> QED BY <1>1, <1>4, <1>6, <2>1, PipelineAssumption DEF IInv, Fits, node, main
<1> QED BY <1>8, <1>10, <1>11 DEF IInv

(* So does writing the kept reports back to the queue file.                *)
LEMMA SaveKeptKeeps ==
    ASSUME IInv, SaveKept
    PROVE  IInv'
<1> USE DEF SaveKept
<1>1. queue' \in {queue, kept} /\ kept' = <<>>
  OBVIOUS
<1>2. \A s \in {queue', entries', batch', kept'} :
          s \in Seq(Report) /\ \A x \in Reports(s) : x.attempts < REPORT_ATTEMPTS
  BY Zenon, <1>1, EmptyReports DEF IInv, TypeOK, main
<1>3. TypeOK'
  BY <1>2 DEF IInv, TypeOK, worker, node, main
<1>4. Held' \subseteq Held
  BY <1>1, EmptyReports DEF Held, main
<1>5. Working' /\ ReportsCurrent' /\ LogCurrent'
  BY <1>4, HeldShrinks DEF worker, node
<1>6. Fits'
  <2>1. Len(batch) \in Nat /\ Len(kept) \in Nat
    BY ReportsType DEF IInv, TypeOK
  <2> QED BY <1>1, <2>1, EmptyReports, PipelineAssumption DEF IInv, Fits, node, main
<1>7. CompletionMatchesNode'
  BY DEF IInv, CompletionMatchesNode, worker, node
<1> QED BY <1>3, <1>5, <1>6, <1>7 DEF IInv

(* A crash loses only what was in memory.                                  *)
LEMMA CrashKeeps ==
    ASSUME IInv, Crash
    PROVE  IInv'
<1> USE DEF Crash, Return
<1>1. \A s \in {queue', entries', batch', kept'} :
          s \in Seq(Report) /\ \A x \in Reports(s) : x.attempts < REPORT_ATTEMPTS
  BY Zenon, EmptyReports DEF IInv, TypeOK
<1>2. TypeOK'
  BY SMTT(30), <1>1, PipelineAssumption DEF IInv, TypeOK, worker, node, Failed
<1>3. Held' \subseteq Held
  BY EmptyReports DEF Held
<1>4. Working' /\ ReportsCurrent' /\ LogCurrent'
  BY Zenon, <1>3 DEF IInv, Working, ReportsCurrent, LogCurrent, worker, node
<1>5. Fits'
  BY EmptyReports, PipelineAssumption DEF IInv, Fits, node
<1>6. CompletionMatchesNode'
  BY DEF IInv, CompletionMatchesNode, worker, node
<1> QED BY <1>2, <1>4, <1>5, <1>6 DEF IInv

-----------------------------------------------------------------------------
(* A new claim gets a token no report carries.                             *)
LEMMA ClaimKeeps ==
    ASSUME IInv, NEW j \in Jobs, claim(j)
    PROVE  IInv'
<1> USE DEF claim
<1>1. /\ token[j] \in Nat /\ token' = [token EXCEPT ![j] = token[j] + 1]
      /\ token[j] + 1 \in 0 .. MaxClaims
  BY PipelineAssumption DEF IInv, TypeOK
<1>2. Held' = Held
  BY DEF Held, task
<1>3. \/ at' = "claimed" /\ cur' = [job |-> j, token |-> token[j] + 1]
      \/ at' = "idle" /\ UNCHANGED cur
  OBVIOUS
<1>4. TypeOK'
  <2>1. \A s \in {queue', entries', batch', kept'} :
          s \in Seq(Report) /\ \A x \in Reports(s) : x.attempts < REPORT_ATTEMPTS
    BY DEF IInv, TypeOK, task
  <2>2. (at' = "idle" => cur' = NoClaim) /\ (at' # "idle" => cur' \in Claim)
    BY SMTT(30), <1>1, <1>3 DEF IInv, TypeOK, Claim
  <2> QED BY <1>1, <1>3, <2>1, <2>2, PipelineAssumption DEF IInv, TypeOK, node, task
<1>5. Held \subseteq Report
  BY ReportsType DEF Held, IInv, TypeOK
<1>6. \A r \in Held : r.token <= token[r.job] /\ r.job \in Jobs /\ r.token \in Nat
  BY <1>5 DEF IInv, ReportsCurrent, Report
<1>7. ReportsCurrent'
  <2>1. SUFFICES ASSUME NEW r \in Held
                 PROVE  /\ r.token <= token'[r.job]
                        /\ r.token = token'[r.job] /\ r.result # Failed
                           => r.result = effects[r.job]
    BY <1>2 DEF ReportsCurrent, node
  <2>2. token \in [Jobs -> Nat]
    BY DEF IInv, TypeOK
  <2>3. CASE r.job = j
    <3>1. token'[r.job] = token[r.job] + 1 /\ token[r.job] \in Nat
      BY <1>1, <2>2, <2>3
    <3> QED BY <1>6, <3>1
  <2>4. CASE r.job # j
    <3>1. token'[r.job] = token[r.job]
      BY <1>1, <1>6, <2>2, <2>4
    <3> QED BY <3>1 DEF IInv, ReportsCurrent
  <2> QED BY <2>3, <2>4
<1>8. Working'
  <2>1. SUFFICES ASSUME at' # "idle"
                 PROVE  Working'
    BY DEF Working
  <2>2. at' = "claimed" /\ cur'.job = j /\ cur'.token = token[j] + 1
    BY <1>3, <2>1
  <2>3. token'[j] = token[j] + 1 /\ wstate'[j] = "claimed"
    BY <1>1 DEF IInv, TypeOK
  <2>4. \A r \in Held' : r.job = j => r.token < token[j] + 1
    BY <1>1, <1>2, <1>6
  <2> QED BY <2>2, <2>3, <2>4 DEF Working
<1>9. LogCurrent' /\ Fits'
  BY DEF IInv, LogCurrent, Fits, node, task
<1>10. CompletionMatchesNode'
  BY DEF IInv, TypeOK, CompletionMatchesNode, node
<1> QED BY <1>4, <1>7, <1>8, <1>9, <1>10 DEF IInv

(* A replayed completion is the job's last change, because the log is.     *)
LEMMA ApplyJobKeeps ==
    ASSUME IInv, apply_job
    PROVE  IInv'
<1>1. at = "claimed" /\ cur \in Claim
  BY DEF IInv, TypeOK, apply_job
<1>2. UNCHANGED <<worker, expired, node, queue, task, crashes, owed>>
  BY DEF apply_job
<1>3. CASE Return
  <2>1. TypeOK'
    BY SMTT(30), <1>2, <1>3, EmptyReports, PipelineAssumption
       DEF IInv, TypeOK, worker, node, task, Return, Failed
  <2>2. Held' \subseteq Held
    BY <1>2, <1>3, EmptyReports DEF Held, task, Return
  <2>3. Working' /\ ReportsCurrent' /\ LogCurrent' /\ CompletionMatchesNode'
    BY <1>2, <1>3, <2>2 DEF IInv, Working, ReportsCurrent, LogCurrent, CompletionMatchesNode,
                            Return, worker, node
  <2>4. Fits'
    BY <1>2, <1>3, EmptyReports, PipelineAssumption DEF IInv, Fits, node, task, Return
  <2> QED BY <2>1, <2>3, <2>4 DEF IInv
<1>4. CASE /\ at' \in {"enqueue", "run"} /\ UNCHANGED <<cur, entries>>
           /\ \/ /\ at' = "enqueue" /\ readable /\ UNCHANGED attempt
                 /\ \E e \in recorded(cur.job) : result' = e.result
              \/ /\ at' = "run" /\ attempt' = 1 /\ UNCHANGED result
                 /\ readable => recorded(cur.job) = {}
  <2>1. result' \in Nat /\ attempt' \in 0 .. RUN_ATTEMPTS
    BY <1>4, PipelineAssumption DEF IInv, TypeOK, recorded
  <2>2. TypeOK'
    BY <1>1, <1>2, <1>4, <2>1 DEF IInv, TypeOK, worker, node, task
  <2>3. Held' = Held
    BY <1>2, <1>4 DEF Held, task
  <2>4. at' = "enqueue" => result' = effects[cur.job]
    BY <1>4 DEF IInv, LogCurrent, recorded
  <2>5. Working'
    BY <1>1, <1>2, <1>4, <2>3, <2>4 DEF IInv, Working, worker, node, recorded
  <2>6. ReportsCurrent'
    BY <1>2, <2>3 DEF IInv, ReportsCurrent, worker, node
  <2>7. LogCurrent' /\ CompletionMatchesNode'
    BY <1>2 DEF IInv, LogCurrent, CompletionMatchesNode, worker, node
  <2>8. Fits'
    BY <1>2, <1>4 DEF IInv, Fits, node, task
  <2> QED BY <2>2, <2>5, <2>6, <2>7, <2>8 DEF IInv
<1> QED BY <1>3, <1>4 DEF apply_job

(* A change of a job is made while none of its reports is current and the  *)
(* log does not hold it.                                                   *)
LEMMA RunJobKeeps ==
    ASSUME IInv, run_job
    PROVE  IInv'
<1>1. at = "run" /\ cur \in Claim /\ cur.job \in Jobs
  BY DEF IInv, TypeOK, Claim, run_job
<1>0. effects \in [Jobs -> Nat] /\ token \in [Jobs -> Nat]
  BY DEF IInv, TypeOK
<1>2. UNCHANGED <<worker, expired, log, readable, day, queue, cur, entries, task, crashes, owed>>
  BY DEF run_job
<1>3. effects' = effects \/ effects' = [effects EXCEPT ![cur.job] = effects[cur.job] + 1]
  BY DEF run_job
<1>4. \/ at' = "record" /\ result' = effects'[cur.job] /\ result' > 0
      \/ at' = "run" /\ UNCHANGED result
      \/ at' = "enqueue" /\ result' = Failed
  BY <1>0, <1>1 DEF run_job
<1>5. effects' \in [Jobs -> Nat] /\ \A j \in Jobs : j # cur.job => effects'[j] = effects[j]
  BY <1>0, <1>1, <1>3
<1>6. TypeOK'
  <2>1. result' \in Nat
    BY <1>1, <1>4, <1>5 DEF IInv, TypeOK, Failed
  <2>2. attempt' \in 0 .. RUN_ATTEMPTS
    BY PipelineAssumption DEF IInv, TypeOK, run_job
  <2>3. at' \in {"run", "record", "enqueue"}
    BY <1>4
  <2>4. \A s \in {queue', entries', batch', kept'} :
          s \in Seq(Report) /\ \A x \in Reports(s) : x.attempts < REPORT_ATTEMPTS
    BY <1>2 DEF IInv, TypeOK, task
  <2> QED BY Zenon, <1>1, <1>2, <1>5, <2>1, <2>2, <2>3, <2>4 DEF IInv, TypeOK, worker, task
<1>7. Held' = Held
  BY <1>2 DEF Held, task
<1>8. Working'
  BY <1>1, <1>2, <1>4, <1>7 DEF IInv, Working, worker, recorded
<1>9. ReportsCurrent'
  <2>1. SUFFICES ASSUME NEW r \in Held
                 PROVE  /\ r.token <= token[r.job]
                        /\ r.token = token[r.job] /\ r.result # Failed
                           => r.result = effects'[r.job]
    BY <1>2, <1>7 DEF ReportsCurrent, worker
  <2>2. r \in Report
    BY ReportsType DEF Held, IInv, TypeOK
  <2>3. CASE r.job = cur.job
    <3>1. r.token < token[r.job] /\ r.token \in Nat /\ token[r.job] \in Nat
      BY Zenon, <1>0, <1>1, <2>2, <2>3 DEF IInv, Working, Report
    <3> QED BY <3>1
  <2>4. CASE r.job # cur.job
    BY <1>5, <2>2, <2>4 DEF IInv, ReportsCurrent, Report
  <2> QED BY <2>3, <2>4
<1>10. LogCurrent'
  <2>1. readable => \A e \in log : e.job # cur.job /\ e.job \in Jobs
    BY <1>1 DEF IInv, Working, recorded, TypeOK
  <2> QED BY <1>2, <1>5, <2>1 DEF IInv, LogCurrent
<1>11. CompletionMatchesNode'
  BY Zenon, <1>1, <1>2, <1>5 DEF IInv, Working, CompletionMatchesNode, worker
<1>12. Fits'
  BY <1>2 DEF IInv, Fits, task
<1> QED BY <1>6, <1>8, <1>9, <1>10, <1>11, <1>12 DEF IInv

(* record writes the last change, and drops no more than it must.          *)
LEMMA RecordKeeps ==
    ASSUME IInv, record
    PROVE  IInv'
<1> DEFINE e == [job |-> cur.job, result |-> result, day |-> day]
           es == (log \ recorded(cur.job)) \cup {e}
<1>1. /\ at = "record" /\ cur \in Claim /\ cur.job \in Jobs
      /\ result = effects[cur.job] /\ result \in Nat /\ day \in 0 .. MaxDays
      /\ IsFiniteSet(log) /\ Cardinality(log) <= MAX_ENTRIES /\ Cardinality(log) \in Nat
  BY FS_CardinalityType DEF IInv, TypeOK, Working, Fits, Claim, record
<1>2. UNCHANGED <<worker, expired, effects, readable, day, queue, task, crashes, owed>>
  BY DEF record
<1>3. (readable /\ log' \in prune(es)) \/ log' = log
  BY DEF record
<1>4. e \in [job : Jobs, result : Nat, day : 0 .. MaxDays]
  BY <1>1
<1>5. IsFiniteSet(es) /\ Cardinality(es) <= MAX_ENTRIES + 1
  <2>1. IsFiniteSet(log \ recorded(cur.job))
        /\ Cardinality(log \ recorded(cur.job)) <= Cardinality(log)
    <3>1. log \ recorded(cur.job) \subseteq log
      OBVIOUS
    <3> QED BY <1>1, <3>1, FS_Subset
  <2>2. IsFiniteSet(es) /\ Cardinality(es) <= Cardinality(log \ recorded(cur.job)) + 1
    <3> DEFINE rest == log \ recorded(cur.job)
    <3>1. es = rest \cup {e} /\ IsFiniteSet(rest)
      BY <2>1
    <3> HIDE DEF rest, e, es
    <3>2. Cardinality(rest) \in Nat
      BY <3>1, FS_CardinalityType
    <3>3. /\ IsFiniteSet(rest \cup {e})
          /\ Cardinality(rest \cup {e})
               = IF e \in rest THEN Cardinality(rest) ELSE Cardinality(rest) + 1
      BY <3>1, FS_AddElement
    <3>4. IsFiniteSet(es) /\ Cardinality(es) <= Cardinality(rest) + 1
      BY <3>1, <3>2, <3>3
    <3> QED BY <3>4 DEF rest
  <2>3. Cardinality(es) \in Nat /\ Cardinality(log \ recorded(cur.job)) \in Nat
    BY <2>1, <2>2, FS_CardinalityType
  <2> HIDE DEF es
  <2> QED BY SMTT(30), <1>1, <2>1, <2>2, <2>3, PipelineAssumption
<1>6. \/ at' = "enqueue" /\ UNCHANGED <<cur, attempt, result, entries>>
      \/ Return
  BY DEF record
<1>7. /\ log' \subseteq log \cup {e} /\ IsFiniteSet(log') /\ Cardinality(log') <= MAX_ENTRIES
  <2>1. CASE readable /\ log' \in prune(es)
    <3>1. log' \subseteq es /\ IsFiniteSet(log') /\ Cardinality(log') <= MAX_ENTRIES
      <4> HIDE DEF es
      <4> QED BY <1>5, <2>1, PruneFits
    <3> QED BY <3>1
  <2>2. CASE log' = log
    BY <1>1, <2>2
  <2> QED BY <1>3, <2>1, <2>2
<1> HIDE DEF e, es
<1>8. /\ Held' \subseteq Held
      /\ entries' \in {entries, <<>>}
  BY <1>2, <1>6, EmptyReports DEF Held, task, Return
<1>9. TypeOK'
  <2>1. \A s \in {queue', entries', batch', kept'} :
          s \in Seq(Report) /\ \A x \in Reports(s) : x.attempts < REPORT_ATTEMPTS
    BY Zenon, <1>2, <1>8, EmptyReports DEF IInv, TypeOK, task
  <2>2. log' \subseteq [job : Jobs, result : Nat, day : 0 .. MaxDays]
    BY <1>4, <1>7 DEF IInv, TypeOK
  <2>3. /\ at' \in {"idle", "enqueue"}
        /\ at' = "idle" => cur' = NoClaim
        /\ at' # "idle" => cur' \in Claim
        /\ attempt' \in 0 .. RUN_ATTEMPTS /\ result' \in Nat
    BY SMTT(30), <1>1, <1>6, PipelineAssumption DEF IInv, TypeOK, Return, Failed
  <2> QED BY Zenon, <1>2, <2>1, <2>2, <2>3 DEF IInv, TypeOK, worker, task
<1>10. Working'
  BY Zenon, <1>1, <1>2, <1>6, <1>8 DEF IInv, Working, Return, worker
<1>11. ReportsCurrent' /\ CompletionMatchesNode'
  BY Zenon, <1>2, <1>8 DEF IInv, ReportsCurrent, CompletionMatchesNode, worker
<1>12. LogCurrent'
  BY SMTT(30), <1>1, <1>2, <1>7 DEF IInv, LogCurrent, e
<1>13. Fits'
  BY <1>2, <1>7, <1>8, EmptyReports, PipelineAssumption DEF IInv, Fits, task
<1> QED BY <1>9, <1>10, <1>11, <1>12, <1>13 DEF IInv

(* enqueue reads what the delivery task also reads.                        *)
LEMMA EnqueueKeeps ==
    ASSUME IInv, enqueue
    PROVE  IInv'
<1> USE DEF enqueue
<1>1. Held' \subseteq Held
  BY DEF Held, task
<1>2. \A s \in {queue', entries', batch', kept'} :
          s \in Seq(Report) /\ \A x \in Reports(s) : x.attempts < REPORT_ATTEMPTS
  BY DEF IInv, TypeOK, task
<1>3. TypeOK'
  BY <1>2 DEF IInv, TypeOK, worker, node, task
<1>4. Working'
  BY Zenon, <1>1 DEF IInv, Working, worker, node
<1>5. ReportsCurrent' /\ LogCurrent' /\ CompletionMatchesNode'
  BY Zenon, <1>1 DEF IInv, ReportsCurrent, LogCurrent, CompletionMatchesNode, worker, node
<1>6. Fits'
  BY DEF IInv, Fits, node, task
<1> QED BY <1>3, <1>4, <1>5, <1>6 DEF IInv

(* push adds a report of the current claim, which carries the last change. *)
LEMMA PushKeeps ==
    ASSUME IInv, push
    PROVE  IInv'
<1> DEFINE new == [job |-> cur.job, token |-> cur.token, result |-> result, attempts |-> 0]
           base == IF Len(entries) >= MAX_PENDING THEN Tail(entries) ELSE entries
<1>1. /\ at = "push" /\ cur \in Claim /\ cur.token = token[cur.job]
      /\ result = Failed \/ result = effects[cur.job]
      /\ entries \in Seq(Report) /\ Len(entries) \in Nat /\ Len(entries) <= MAX_PENDING
  BY ReportsType DEF IInv, TypeOK, Working, Fits, push
<1>2. UNCHANGED <<worker, expired, node, task, crashes>> /\ Return
  BY DEF push
<1>3. new \in Report /\ new.attempts < REPORT_ATTEMPTS /\ new.token = token[new.job]
      /\ (new.result # Failed => new.result = effects[new.job])
  BY SMTT(30), <1>1, PipelineAssumption DEF IInv, TypeOK, Claim, Report
<1>4. /\ base \in Seq(Report) /\ Reports(base) \subseteq Reports(entries)
      /\ Len(base) + 1 <= MAX_PENDING
  <2>1. CASE Len(entries) >= MAX_PENDING
    <3>1. entries # <<>>
      BY <2>1, EmptyReports, PipelineAssumption
    <3> QED BY <1>1, <2>1, <3>1, TailReports, PipelineAssumption
  <2>2. CASE ~(Len(entries) >= MAX_PENDING)
    BY <1>1, <2>2, PipelineAssumption
  <2> QED BY <2>1, <2>2
<1>5. (queue' = Append(base, new)) \/ queue' = queue
  BY DEF push
<1>6. owed' \subseteq Claim
  BY <1>1 DEF push, IInv, TypeOK
<1> HIDE DEF new, base
<1>7. /\ queue' \in Seq(Report) /\ Reports(queue') \subseteq Held \cup {new}
      /\ Len(queue') <= MAX_PENDING
      /\ \A x \in Reports(queue') : x.attempts < REPORT_ATTEMPTS
  <2>1. CASE queue' = queue
    BY <2>1 DEF IInv, TypeOK, Fits, Held
  <2>2. CASE queue' = Append(base, new)
    <3>1. queue' \in Seq(Report) /\ Reports(queue') = Reports(base) \cup {new}
          /\ Len(queue') <= MAX_PENDING
      BY <1>3, <1>4, <2>2, AppendReports
    <3>2. \A x \in Reports(entries) : x.attempts < REPORT_ATTEMPTS
      BY DEF IInv, TypeOK
    <3> QED BY <1>3, <1>4, <3>1, <3>2 DEF Held
  <2> QED BY <1>5, <2>1, <2>2
<1>8. Held' \subseteq Held \cup {new}
  BY <1>2, <1>7, EmptyReports DEF Held, task, Return
<1>9. TypeOK'
  <2>1. \A s \in {queue', entries', batch', kept'} :
          s \in Seq(Report) /\ \A x \in Reports(s) : x.attempts < REPORT_ATTEMPTS
    BY Zenon, <1>2, <1>7, EmptyReports DEF IInv, TypeOK, task, Return
  <2> QED BY SMTT(30), <1>2, <1>6, <2>1, PipelineAssumption
          DEF IInv, TypeOK, worker, node, task, Return, Failed
<1>10. Working' /\ LogCurrent' /\ CompletionMatchesNode'
  BY <1>2 DEF IInv, Working, LogCurrent, CompletionMatchesNode, worker, node, Return
<1>11. ReportsCurrent'
  <2>1. token[new.job] \in Nat
    BY <1>3 DEF IInv, TypeOK, Report
  <2> QED BY SMTT(30), <1>2, <1>3, <1>8, <2>1 DEF IInv, ReportsCurrent, worker, node
<1>12. Fits'
  BY <1>2, <1>7, EmptyReports, PipelineAssumption DEF IInv, Fits, node, task, Return
<1> QED BY <1>9, <1>10, <1>11, <1>12 DEF IInv

-----------------------------------------------------------------------------
(* Every reachable state satisfies the inductive invariant.                *)
THEOREM Invariance == Spec => []IInv
<1>1. Init => IInv
  <2> SUFFICES ASSUME Init PROVE IInv
    OBVIOUS
  <2> USE DEF Init
  <2>1. TypeOK
    BY EmptyReports, PipelineAssumption DEF TypeOK, Failed
  <2>2. Held = {}
    BY EmptyReports DEF Held
  <2>3. Working /\ ReportsCurrent /\ LogCurrent
    BY <2>2 DEF Working, ReportsCurrent, LogCurrent
  <2>4. Fits
    BY EmptyReports, FS_EmptySet, PipelineAssumption DEF Fits
  <2>5. CompletionMatchesNode
    BY DEF CompletionMatchesNode
  <2> QED BY <2>1, <2>3, <2>4, <2>5 DEF IInv
<1>2. IInv /\ [Next]_vars => IInv'
  <2> SUFFICES ASSUME IInv, [Next]_vars PROVE IInv'
    OBVIOUS
  <2>1. CASE Main
    BY <2>1, ClaimKeeps, ApplyJobKeeps, RunJobKeeps, RecordKeeps, EnqueueKeeps, PushKeeps
       DEF Main
  <2>2. CASE Deliver
    BY <2>2, TakeBatchKeeps, NextReportKeeps, AnsweredKeeps, UnansweredKeeps, SaveKeptKeeps
       DEF Deliver
  <2>3. CASE Outside
    BY <2>3, OutsideKeeps, CrashKeeps DEF Outside
  <2>4. CASE UNCHANGED vars
    BY ZenonT(30), <2>4 DEF vars, IInv, TypeOK, Working, ReportsCurrent, LogCurrent, Fits, Held, recorded,
                CompletionMatchesNode
  <2> QED BY <2>1, <2>2, <2>3, <2>4 DEF Next
<1> QED BY <1>1, <1>2, PTL DEF Spec

(* The types of the pipeline's variables, for every instance.              *)
THEOREM TypeCorrect == Spec => []TypeOK
<1>1. IInv => TypeOK
  BY DEF IInv
<1> QED BY <1>1, Invariance, PTL

(* A job the Worker holds as done carries the result of the job's last     *)
(* change on the node, whatever was lost, repeated, killed or restarted.   *)
THEOREM CompletionIsTrue == Spec => []CompletionMatchesNode
<1>1. IInv => CompletionMatchesNode
  BY DEF IInv
<1> QED BY <1>1, Invariance, PTL

(* The report queue and the operation log never outgrow their capacity.    *)
THEOREM FilesAreBounded == Spec => []FilesBounded
<1>1. IInv => FilesBounded
  BY DEF IInv, Fits, FilesBounded
<1> QED BY <1>1, Invariance, PTL

-----------------------------------------------------------------------------
(* When the agent is left to do its work: it does not die, vpn-admin is    *)
(* not killed after its change, the operation log can be read and written  *)
(* and forgets nothing, neither by age nor for want of room.               *)
Undisturbed ==
    /\ "timeout" \notin Faults /\ "log" \notin Faults /\ MaxCrashes = 0
    /\ MaxDays <= RETENTION
    /\ IsFiniteSet(Jobs) /\ Cardinality(Jobs) <= MAX_ENTRIES

(* A job has changed the node at most once, and then that is on record or  *)
(* about to be; the log has one entry per job.                             *)
OnceInv ==
    /\ readable
    /\ \A e, f \in log : e.job = f.job => e = f
    /\ \A j \in Jobs :
         \/ effects[j] = 0
         \/ effects[j] = 1 /\ (recorded(j) # {} \/ (at = "record" /\ cur.job = j))

(* A log with one entry per job has room for all jobs.                     *)
LEMMA OneEntryPerJob ==
    ASSUME Undisturbed, NEW es, \A e \in es : e.job \in Jobs,
           \A e, f \in es : e.job = f.job => e = f
    PROVE  IsFiniteSet(es) /\ Cardinality(es) <= MAX_ENTRIES
<1> DEFINE of == [e \in es |-> e.job]
<1>1. of \in Injection(es, Jobs)
  BY DEF Injection, IsInjective
<1>2. IsFiniteSet(Jobs) /\ Cardinality(Jobs) <= MAX_ENTRIES
  BY DEF Undisturbed
<1>3. IsFiniteSet(es) /\ Cardinality(es) <= Cardinality(Jobs)
  <2> HIDE DEF of
  <2> QED BY <1>1, <1>2, FS_Injection
<1>4. Cardinality(es) \in Nat /\ Cardinality(Jobs) \in Nat
  BY <1>2, <1>3, FS_CardinalityType
<1> QED BY <1>2, <1>3, <1>4, PipelineAssumption

(* Then prune removes nothing.                                             *)
LEMMA NothingForgotten ==
    ASSUME Undisturbed, day \in 0 .. MaxDays,
           NEW es \in SUBSET [job : Jobs, result : Nat, day : 0 .. MaxDays],
           \A e, f \in es : e.job = f.job => e = f, NEW l \in prune(es)
    PROVE  l = es
<1> DEFINE fresh == {e \in es : e.day >= day - RETENTION}
<1>1. \A e \in es : e.day >= day - RETENTION
  <2> SUFFICES ASSUME NEW e \in es PROVE e.day >= day - RETENTION
    OBVIOUS
  <2>1. e.day \in Int /\ e.day >= 0 /\ day \in Int /\ day <= MaxDays
    BY PipelineAssumption
  <2> QED BY <2>1, PipelineAssumption DEF Undisturbed
<1>2. fresh = es
  BY <1>1
<1>3. Cardinality(es) <= MAX_ENTRIES
  BY OneEntryPerJob
<1> QED BY Zenon, <1>2, <1>3 DEF prune

(* The record of a change goes into the log in place of any older one.     *)
LEMMA RecordKeepsOnce ==
    ASSUME Undisturbed, IInv, OnceInv, record
    PROVE  OnceInv'
<1> DEFINE e == [job |-> cur.job, result |-> result, day |-> day]
           es == (log \ recorded(cur.job)) \cup {e}
<1>1. /\ cur.job \in Jobs /\ result \in Nat /\ day \in 0 .. MaxDays
      /\ log \subseteq [job : Jobs, result : Nat, day : 0 .. MaxDays]
  BY DEF IInv, TypeOK, Claim, record
<1>2. log' \in prune(es) /\ UNCHANGED <<effects, readable>>
  BY Zenon DEF record, OnceInv, Undisturbed
<1>3. e \in [job : Jobs, result : Nat, day : 0 .. MaxDays] /\ e.job = cur.job
  BY <1>1
<1> HIDE DEF e
<1>4. es \subseteq [job : Jobs, result : Nat, day : 0 .. MaxDays]
  BY <1>1, <1>3
<1>5. \A x \in es : x = e \/ (x \in log /\ x.job # cur.job)
  BY Zenon DEF recorded
<1>6. \A x, y \in es : x.job = y.job => x = y
  BY <1>3, <1>5 DEF OnceInv
<1>7. log' = es
  <2> HIDE DEF es
  <2> QED BY <1>1, <1>2, <1>4, <1>6, NothingForgotten
<1>8. \A j \in Jobs : recorded(j) # {} \/ j = cur.job => recorded(j)' # {}
  <2> SUFFICES ASSUME NEW j \in Jobs, recorded(j) # {} \/ j = cur.job
               PROVE  recorded(j)' # {}
    OBVIOUS
  <2>1. CASE j = cur.job
    BY <1>3, <1>7, <2>1 DEF recorded
  <2>2. CASE j # cur.job
    <3>1. PICK x \in log : x.job = j
      BY <2>2 DEF recorded
    <3>2. x \in es
      BY <2>2, <3>1 DEF recorded
    <3> QED BY <1>7, <3>1, <3>2 DEF recorded
  <2> QED BY <2>1, <2>2
<1>9. \A j \in Jobs : effects'[j] = 0 \/ (effects'[j] = 1 /\ recorded(j)' # {})
  BY <1>2, <1>8 DEF OnceInv
<1> QED BY <1>2, <1>6, <1>7, <1>9 DEF OnceInv

(* A job that is run has no record, and so has changed nothing yet.        *)
LEMMA RunKeepsOnce ==
    ASSUME Undisturbed, IInv, OnceInv, run_job
    PROVE  OnceInv'
<1>1. /\ at = "run" /\ cur.job \in Jobs /\ effects \in [Jobs -> Nat]
      /\ UNCHANGED <<log, readable, cur>>
  BY DEF IInv, TypeOK, Claim, run_job
<1>2. effects[cur.job] = 0
  BY <1>1 DEF IInv, Working, OnceInv
<1>3. \/ UNCHANGED effects
      \/ effects' = [effects EXCEPT ![cur.job] = @ + 1] /\ at' = "record"
  BY DEF run_job, Undisturbed
<1>4. CASE UNCHANGED effects
  BY <1>1, <1>4 DEF OnceInv, recorded
<1>5. CASE effects' = [effects EXCEPT ![cur.job] = @ + 1] /\ at' = "record"
  <2>1. \A j \in Jobs : effects'[j] = IF j = cur.job THEN 1 ELSE effects[j]
    BY <1>1, <1>2, <1>5
  <2>2. \A j \in Jobs : recorded(j)' = recorded(j)
    BY <1>1 DEF recorded
  <2> QED BY <1>1, <1>5, <2>1, <2>2 DEF OnceInv
<1> QED BY <1>3, <1>4, <1>5

(* Every other step leaves the log, the node and a record due as they are. *)
LEMMA NextKeepsOnce ==
    ASSUME Undisturbed, IInv, OnceInv, [Next]_vars
    PROVE  OnceInv'
<1>1. ASSUME UNCHANGED <<effects, log, readable>>, at # "record" \/ UNCHANGED <<at, cur>>
      PROVE  OnceInv'
  <2>1. \A j \in Jobs : recorded(j)' = recorded(j)
    BY <1>1 DEF recorded
  <2> QED BY <1>1, <2>1 DEF OnceInv
<1>2. CASE Main
  <2>1. CASE (\E j \in Jobs : claim(j)) \/ apply_job \/ enqueue \/ push
    BY Zenon, <1>1, <2>1 DEF claim, apply_job, enqueue, push, node
  <2> QED BY <1>2, <2>1, RunKeepsOnce, RecordKeepsOnce DEF Main
<1>3. CASE Deliver
  BY <1>1, <1>3 DEF Deliver, TakeBatch, NextReport, Answered, Unanswered, SaveKept, node, main
<1>4. CASE Outside
  <2>1. ~Crash /\ ~LogBreaks
    BY DEF Crash, LogBreaks, Undisturbed, IInv, TypeOK
  <2> QED BY Zenon, <1>1, <1>4, <2>1 DEF Outside, WorkerReclaims, LeaseEnds, DayPasses, node, main
<1>5. CASE UNCHANGED vars
  BY <1>1, <1>5 DEF vars
<1> QED BY <1>2, <1>3, <1>4, <1>5 DEF Next

(* A job changes the node at most once, however often its lease ends and   *)
(* it is handed out again and whatever becomes of its reports, as long as  *)
(* its completion can be recorded and is kept (op_dedup.rs).               *)
THEOREM JobsRunOnce ==
    ASSUME Undisturbed
    PROVE  Spec => []AppliedOnce
<1>1. Init => OnceInv
  BY DEF Init, OnceInv
<1>2. IInv /\ OnceInv /\ [Next]_vars => OnceInv'
  BY NextKeepsOnce
<1>3. OnceInv => AppliedOnce
  BY DEF OnceInv, AppliedOnce
<1> QED BY <1>1, <1>2, <1>3, Invariance, PTL DEF Spec
==============================================================================
