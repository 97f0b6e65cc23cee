----------------------------- MODULE JobPipeline -----------------------------
(***************************************************************************)
(* A provisioning job's way through the agent.  The main loop claims a job *)
(* under a one-claim token with a lease, looks it up in the operation log  *)
(* (op_dedup.rs), runs vpn-admin (dispatch.rs), records the outcome and    *)
(* puts a report into the queue file (report_queue.rs).  A second task     *)
(* delivers the reports.  The two tasks run on different threads and share *)
(* the queue file without a lock; the agent may die between any two steps. *)
(*                                                                         *)
(* A job stands for one that changes the node each time it is run, as      *)
(* ROTATE_CREDENTIALS does: effects[j] counts the changes, and the result  *)
(* of a run is the number of the change it made.                           *)
(***************************************************************************)
EXTENDS Integers, Sequences, FiniteSets

CONSTANTS
    Jobs,
    RUN_ATTEMPTS,       \* MAX_ATTEMPTS of dispatch.rs
    REPORT_ATTEMPTS,    \* MAX_ATTEMPTS of report_queue.rs
    MAX_PENDING,        \* capacity of the report queue
    MAX_ENTRIES,        \* capacity of the operation log
    RETENTION,          \* RETENTION_SECS, in days
    Faults,             \* what can go wrong
    MaxClaims, MaxCrashes, MaxDays      \* bounds

FaultNames == {"vpn-admin",     \* vpn-admin fails without changing anything
               "timeout",       \* vpn-admin is killed after its change
               "claim",         \* the answer to a claim is lost
               "network",       \* a report, or the answer to it, is lost
               "queue", "log"}  \* a file cannot be written

ASSUME PipelineAssumption ==
    /\ RUN_ATTEMPTS \in Nat \ {0} /\ REPORT_ATTEMPTS \in Nat \ {0}
    /\ MAX_PENDING \in Nat \ {0} /\ MAX_ENTRIES \in Nat \ {0}
    /\ RETENTION \in Nat
    /\ Faults \subseteq FaultNames
    /\ MaxClaims \in Nat /\ MaxCrashes \in Nat /\ MaxDays \in Nat

VARIABLES
    wstate, token,      \* the Worker: state of each job, number of its claims
    wresult,            \* the Worker: the result it was told
    expired,            \* the latest claim whose lease is over on the agent's clock
    effects,            \* changes each job has made on the node
    log, readable, day, \* the operation log, and whether it parses; the wall clock
    queue,              \* the report queue file
    at, cur, attempt, result, entries,  \* main loop: control and locals
    rat, batch, kept,   \* delivery task: control and locals
    crashes,
    owed                \* history: reports persisted and not yet disposed of

worker == <<wstate, token, wresult>>
node   == <<effects, log, readable, day>>
main   == <<at, cur, attempt, result, entries>>
task   == <<rat, batch, kept>>
vars   == <<wstate, token, wresult, expired, effects, log, readable, day, queue,
            at, cur, attempt, result, entries, rat, batch, kept, crashes, owed>>

Failed == 0             \* the result of a run that failed
NoClaim == [job |-> "none", token |-> 0]

Claim  == [job : Jobs, token : Nat]
Report == [job : Jobs, token : Nat, result : Nat, attempts : Nat]

lease_is_live(claim) == claim.token > expired[claim.job]

(* poll_once returns, and its local variables with it.                     *)
Return ==
    /\ at' = "idle" /\ cur' = NoClaim
    /\ attempt' = 0 /\ result' = Failed /\ entries' = <<>>

recorded(j) == {e \in log : e.job = j}

-----------------------------------------------------------------------------
(* The Worker.  It hands out pending jobs, takes a claim back when its     *)
(* lease runs out on the Worker's own clock, and takes a report only under *)
(* the token of the current claim.                                         *)
WorkerReclaims(j) ==
    /\ wstate[j] = "claimed"
    /\ wstate' = [wstate EXCEPT ![j] = "pending"]
    /\ UNCHANGED <<token, wresult, expired, node, queue, main, task, crashes, owed>>

LeaseEnds(j) ==
    /\ expired[j] < token[j]
    /\ expired' = [expired EXCEPT ![j] = token[j]]
    /\ UNCHANGED <<worker, node, queue, main, task, crashes, owed>>

DayPasses ==
    /\ day < MaxDays
    /\ day' = day + 1
    /\ UNCHANGED <<worker, expired, effects, log, readable, queue, main, task, crashes, owed>>

Takes(r) == wstate[r.job] = "claimed" /\ token[r.job] = r.token

WorkerSettles(r) ==
    /\ wstate' = [wstate EXCEPT ![r.job] = IF r.result = Failed THEN "failed" ELSE "done"]
    /\ wresult' = [wresult EXCEPT ![r.job] = r.result]
    /\ UNCHANGED token

-----------------------------------------------------------------------------
(* The main loop.  poll_once claims a job; the answer may be lost after    *)
(* the Worker has handed the job out.                                      *)
claim(j) ==
    /\ at = "idle"
    /\ wstate[j] = "pending" /\ token[j] < MaxClaims
    /\ wstate' = [wstate EXCEPT ![j] = "claimed"]
    /\ token' = [token EXCEPT ![j] = @ + 1]
    /\ \/ at' = "claimed" /\ cur' = [job |-> j, token |-> token[j] + 1]
       \/ "claim" \in Faults /\ UNCHANGED <<at, cur>>
    /\ UNCHANGED <<wresult, expired, node, queue, attempt, result, entries, task, crashes, owed>>

(* The operation log stops parsing; nothing in the agent repairs it.       *)
LogBreaks ==
    /\ "log" \in Faults /\ readable
    /\ readable' = FALSE
    /\ UNCHANGED <<worker, expired, effects, log, day, queue, main, task, crashes, owed>>

(* Mutant: the completion is recorded before the job is run.               *)
apply_job_records_first ==
    /\ at = "claimed"
    /\ \/ ~lease_is_live(cur) /\ Return /\ UNCHANGED log
       \/ /\ lease_is_live(cur)
          /\ \/ /\ \E e \in recorded(cur.job) : result' = e.result
                /\ at' = "enqueue" /\ UNCHANGED <<cur, attempt, entries, log>>
             \/ /\ recorded(cur.job) = {}
                /\ log' = log \cup {[job |-> cur.job, result |-> effects[cur.job] + 1,
                                     day |-> day]}
                /\ at' = "run" /\ attempt' = 1 /\ UNCHANGED <<cur, result, entries>>
    /\ UNCHANGED <<worker, expired, effects, readable, day, queue, task, crashes, owed>>

(* Mutant: the operation log is not consulted.                             *)
apply_job_always_runs ==
    /\ at = "claimed"
    /\ IF lease_is_live(cur)
       THEN at' = "run" /\ attempt' = 1 /\ UNCHANGED <<cur, result, entries>>
       ELSE Return
    /\ UNCHANGED <<worker, expired, node, queue, task, crashes, owed>>

(* A claim whose lease is already over is refused.  A recorded completion  *)
(* is replayed as it stands, whatever its age; a log that cannot be read   *)
(* is passed over.                                                         *)
apply_job ==
    /\ at = "claimed"
    /\ \/ ~lease_is_live(cur) /\ Return
       \/ /\ lease_is_live(cur) /\ readable
          /\ \E e \in recorded(cur.job) : result' = e.result
          /\ at' = "enqueue" /\ UNCHANGED <<cur, attempt, entries>>
       \/ /\ lease_is_live(cur) /\ (readable => recorded(cur.job) = {})
          /\ at' = "run" /\ attempt' = 1 /\ UNCHANGED <<cur, result, entries>>
    /\ UNCHANGED <<worker, expired, node, queue, task, crashes, owed>>

(* run_job, one attempt.  An attempt that times out is killed, and it may  *)
(* have changed the node by then; any error is retried.                    *)
run_job ==
    /\ at = "run"
    /\ \/ /\ effects' = [effects EXCEPT ![cur.job] = @ + 1]
          /\ result' = effects[cur.job] + 1
          /\ at' = "record" /\ attempt' = 0
       \/ /\ \/ "vpn-admin" \in Faults /\ UNCHANGED effects
             \/ "timeout" \in Faults /\ effects' = [effects EXCEPT ![cur.job] = @ + 1]
          /\ IF attempt < RUN_ATTEMPTS
             THEN attempt' = attempt + 1 /\ UNCHANGED <<at, result>>
             ELSE result' = Failed /\ at' = "enqueue" /\ attempt' = 0
    /\ UNCHANGED <<worker, expired, log, readable, day, queue, cur, entries, task, crashes, owed>>

(* prune: the logs that may be left, the oldest entry going first.         *)
prune(es) ==
    LET fresh == {e \in es : e.day >= day - RETENTION}
    IN  IF Cardinality(fresh) <= MAX_ENTRIES THEN {fresh}
        ELSE {fresh \ {e} : e \in {o \in fresh : \A x \in fresh : o.day <= x.day}}

(* OpDedupLog::record, then the lease again: a report under a lease that   *)
(* ran out during the run is suppressed.                                   *)
record ==
    /\ at = "record"
    /\ \/ /\ readable
          /\ log' \in prune((log \ recorded(cur.job))
                            \cup {[job |-> cur.job, result |-> result, day |-> day]})
       \/ (~readable \/ "log" \in Faults) /\ UNCHANGED log
    /\ IF lease_is_live(cur)
       THEN at' = "enqueue" /\ UNCHANGED <<cur, attempt, result, entries>>
       ELSE Return
    /\ UNCHANGED <<worker, expired, effects, readable, day, queue, task, crashes, owed>>

(* ReportQueue::enqueue reads the file, and ...                            *)
enqueue ==
    /\ at = "enqueue"
    /\ entries' = queue /\ at' = "push"
    /\ UNCHANGED <<worker, expired, node, queue, cur, attempt, result, task, crashes, owed>>

(* Mutant: a full queue takes one more.                                    *)
push_unbounded ==
    /\ at = "push" /\ Return
    /\ queue' = Append(entries, [job |-> cur.job, token |-> cur.token,
                                 result |-> result, attempts |-> 0])
    /\ owed' = owed \cup {cur}
    /\ UNCHANGED <<worker, expired, node, task, crashes>>

(* ... writes it back with the new report, without the oldest when full.   *)
push ==
    LET full == Len(entries) >= MAX_PENDING
        new  == [job |-> cur.job, token |-> cur.token, result |-> result, attempts |-> 0]
        gone == IF full THEN {[job |-> entries[1].job, token |-> entries[1].token]} ELSE {}
    IN  /\ at = "push" /\ Return
        /\ \/ /\ queue' = Append(IF full THEN Tail(entries) ELSE entries, new)
              /\ owed' = (owed \ gone) \cup {cur}
           \/ "queue" \in Faults /\ UNCHANGED <<queue, owed>>
        /\ UNCHANGED <<worker, expired, node, task, crashes>>

Main == (\E j \in Jobs : claim(j)) \/ apply_job \/ run_job \/ record \/ enqueue \/ push

-----------------------------------------------------------------------------
(* The delivery task: run of report_queue.rs.                              *)
Of(r) == [job |-> r.job, token |-> r.token]

TakeBatch ==
    /\ rat = "load" /\ queue # <<>>
    /\ batch' = queue /\ kept' = <<>> /\ rat' = "next"
    /\ UNCHANGED <<worker, expired, node, queue, main, crashes, owed>>

(* A report whose lease is over is discarded; any other is sent.           *)
NextReport ==
    /\ rat = "next" /\ batch # <<>>
    /\ IF lease_is_live(Head(batch))
       THEN rat' = "sent" /\ UNCHANGED <<batch, owed>>
       ELSE batch' = Tail(batch) /\ owed' = owed \ {Of(Head(batch))} /\ UNCHANGED rat
    /\ UNCHANGED <<worker, expired, node, queue, main, kept, crashes>>

(* complete and fail came back: the Worker took the report or refused it   *)
(* for good, and either way it is done with.                               *)
Answered ==
    LET r == Head(batch)
    IN  /\ rat = "sent" /\ rat' = "next"
        /\ IF Takes(r) THEN WorkerSettles(r) ELSE UNCHANGED worker
        /\ batch' = Tail(batch)
        /\ owed' = owed \ {Of(r)}
        /\ UNCHANGED <<expired, node, queue, main, kept, crashes>>

(* Mutant: a failed delivery is not counted.                               *)
Unanswered_uncounted ==
    LET r == Head(batch)
    IN  /\ rat = "sent" /\ "network" \in Faults /\ rat' = "next"
        /\ \/ UNCHANGED worker
           \/ Takes(r) /\ WorkerSettles(r)
        /\ batch' = Tail(batch) /\ kept' = Append(kept, r)
        /\ UNCHANGED <<expired, node, queue, main, crashes, owed>>

(* No answer, whether or not the report arrived: kept for another attempt  *)
(* while there is one left.                                                *)
Unanswered ==
    LET r == [Head(batch) EXCEPT !.attempts = @ + 1]
    IN  /\ rat = "sent" /\ "network" \in Faults /\ rat' = "next"
        /\ \/ UNCHANGED worker
           \/ Takes(r) /\ WorkerSettles(r)
        /\ batch' = Tail(batch)
        /\ IF r.attempts >= REPORT_ATTEMPTS
           THEN owed' = owed \ {Of(r)} /\ UNCHANGED kept
           ELSE kept' = Append(kept, r) /\ UNCHANGED owed
        /\ UNCHANGED <<expired, node, queue, main, crashes>>

(* What is left over replaces the file.                                    *)
SaveKept ==
    /\ rat = "next" /\ batch = <<>>
    /\ rat' = "load"
    /\ queue' = kept \/ ("queue" \in Faults /\ UNCHANGED queue)
    /\ kept' = <<>>
    /\ UNCHANGED <<worker, expired, node, main, batch, crashes, owed>>

Deliver == TakeBatch \/ NextReport \/ Answered \/ Unanswered \/ SaveKept

(* The agent dies and starts again: what is in the files is what is left.  *)
Crash ==
    /\ crashes < MaxCrashes
    /\ crashes' = crashes + 1
    /\ Return
    /\ rat' = "load" /\ batch' = <<>> /\ kept' = <<>>
    /\ UNCHANGED <<worker, expired, node, queue, owed>>

-----------------------------------------------------------------------------
Init ==
    /\ wstate = [j \in Jobs |-> "pending"]
    /\ token = [j \in Jobs |-> 0] /\ wresult = [j \in Jobs |-> Failed]
    /\ expired = [j \in Jobs |-> 0] /\ effects = [j \in Jobs |-> 0]
    /\ log = {} /\ readable = TRUE /\ day = 0
    /\ queue = <<>>
    /\ at = "idle" /\ cur = NoClaim /\ attempt = 0 /\ result = Failed /\ entries = <<>>
    /\ rat = "load" /\ batch = <<>> /\ kept = <<>>
    /\ crashes = 0
    /\ owed = {}

Outside ==
    \/ \E j \in Jobs : WorkerReclaims(j) \/ LeaseEnds(j)
    \/ DayPasses \/ LogBreaks \/ Crash

Next == Main \/ Deliver \/ Outside

Spec == Init /\ [][Next]_vars

(* The main task is scheduled by the runtime, and each await of it ends:   *)
(* vpn-admin runs under a timeout and the HTTP client has one.  Nothing is *)
(* assumed of the delivery task.                                           *)
FairSpec == Spec /\ WF_vars(Main)

-----------------------------------------------------------------------------
Reports(s) == {s[i] : i \in DOMAIN s}

(* The shapes of the state; a report in any copy of the queue still has    *)
(* attempts left, and a claim is at hand exactly while a job is worked on. *)
TypeOK ==
    /\ wstate \in [Jobs -> {"pending", "claimed", "done", "failed"}]
    /\ token \in [Jobs -> 0 .. MaxClaims] /\ wresult \in [Jobs -> Nat]
    /\ expired \in [Jobs -> 0 .. MaxClaims] /\ effects \in [Jobs -> Nat]
    /\ log \subseteq [job : Jobs, result : Nat, day : 0 .. MaxDays]
    /\ readable \in BOOLEAN /\ day \in 0 .. MaxDays
    /\ at \in {"idle", "claimed", "run", "record", "enqueue", "push"}
    /\ at = "idle" => cur = NoClaim
    /\ at # "idle" => cur \in Claim
    /\ attempt \in 0 .. RUN_ATTEMPTS /\ result \in Nat
    /\ rat \in {"load", "next", "sent"} /\ (rat = "sent" => batch # <<>>)
    /\ \A s \in {queue, entries, batch, kept} :
          s \in Seq(Report) /\ \A r \in Reports(s) : r.attempts < REPORT_ATTEMPTS
    /\ crashes \in 0 .. MaxCrashes
    /\ owed \subseteq Claim

-----------------------------------------------------------------------------
(* However often the Worker hands a job out again, however late or often   *)
(* a report is delivered and wherever the agent dies, a job the Worker     *)
(* holds as done carries the result of the last change the job made on     *)
(* the node (apply_job, op_dedup.rs and the claim token of each report).   *)
CompletionMatchesNode ==
    \A j \in Jobs : wstate[j] = "done" => wresult[j] = effects[j] /\ effects[j] > 0

(* A job changes the node at most once, also when its lease runs out and   *)
(* it is handed out again: the recorded completion is replayed instead     *)
(* (op_dedup.rs).                                                          *)
AppliedOnce == \A j \in Jobs : effects[j] <= 1

(* Neither file outgrows its capacity although two tasks rewrite the queue *)
(* from copies of their own (enqueue and prune).                           *)
FilesBounded == Len(queue) <= MAX_PENDING /\ Cardinality(log) <= MAX_ENTRIES

(* Every report leaves the queue, provided that the delivery task is       *)
(* scheduled and its requests end (the HTTP client has a timeout): a       *)
(* delivery that keeps failing is given up after REPORT_ATTEMPTS (run of   *)
(* report_queue.rs).                                                       *)
RetriesAreFinite == WF_vars(Deliver) => []<>(queue = <<>>)

(* A report that enqueue persisted stays in the queue, or in the delivery  *)
(* task's hands, until it is delivered, refused, out of date, out of       *)
(* attempts or pushed out by a newer one.                                  *)
ReportSurvives ==
    owed \subseteq {Of(r) : r \in Reports(queue) \cup Reports(batch) \cup Reports(kept)}

-----------------------------------------------------------------------------
(* The inductive invariant behind the safety properties.  While the main   *)
(* loop works on a claim, that claim is the current one and no report      *)
(* carries its token yet; so a report the Worker can still take was made   *)
(* after the last change of its job.                                       *)
Held == Reports(queue) \cup Reports(entries) \cup Reports(batch) \cup Reports(kept)

Working ==
    at # "idle" =>
      /\ cur.token = token[cur.job]
      /\ wstate[cur.job] \in {"pending", "claimed"}
      /\ \A r \in Held : r.job = cur.job => r.token < cur.token
      /\ at = "record" => result = effects[cur.job] /\ result > 0
      /\ at \in {"enqueue", "push"} => result = Failed \/ result = effects[cur.job]
      /\ at \in {"run", "record"} /\ readable => recorded(cur.job) = {}

ReportsCurrent ==
    \A r \in Held :
      /\ r.token <= token[r.job]
      /\ r.token = token[r.job] /\ r.result # Failed => r.result = effects[r.job]

LogCurrent == readable => \A e \in log : e.result = effects[e.job]

Fits ==
    /\ Len(queue) <= MAX_PENDING /\ Len(entries) <= MAX_PENDING
    /\ Len(batch) + Len(kept) <= MAX_PENDING
    /\ IsFiniteSet(log) /\ Cardinality(log) <= MAX_ENTRIES

IInv ==
    /\ TypeOK /\ Working /\ ReportsCurrent /\ LogCurrent /\ Fits
    /\ CompletionMatchesNode
==============================================================================
