------------------------- MODULE ControlPlaneProofs -------------------------
(***************************************************************************)
(* Proofs about the three parts of the agent that face the control plane   *)
(* and share no state: the gate that paces requests, the reconciler of     *)
(* external authorizations and the protocol prober.                        *)
(*                                                                         *)
(* The gate: for every backoff, clamp and header set.  GateInv is          *)
(* inductive; the properties follow from it.                               *)
(*                                                                         *)
(* The reconciler: for every set of credentials, whatever the control      *)
(* plane publishes and whatever fails.                                     *)
(*                                                                         *)
(* The prober: for every set of peers, outcome and period.  ProbeInv is    *)
(* inductive; ReportsAreFaithful follows from it.                          *)
(***************************************************************************)
EXTENDS ControlPlaneGate, ExternalAuthorization, ProbeRounds, TLAPS

(* A jittered delay, between half the step and the step, is a natural      *)
(* number below it.                                                        *)
LEMMA HalfRange ==
    ASSUME NEW s \in Nat, NEW d \in (s \div 2) .. s
    PROVE  d \in Nat /\ d <= s
OBVIOUS

(* More seconds are not fewer ticks.                                       *)
LEMMA ProductMonotone ==
    ASSUME NEW t \in Nat, NEW a \in Nat, NEW b \in Nat, a <= b
    PROVE  t * a \in Nat /\ t * b \in Nat /\ t * a <= t * b
OBVIOUS

(* Rounded up to whole seconds, a wait is not shorter than it was.         *)
LEMMA RoundingUpCovers ==
    ASSUME NEW a \in Nat
    PROVE  SecondsUp(a) \in Nat /\ a <= Tps * SecondsUp(a)
<1> DEFINE q == a \div Tps
           r == a % Tps
<1>1. /\ q \in Nat /\ r \in Nat
      /\ a = Tps * q + r
      /\ r < Tps
  BY GateAssumption
<1>2. SecondsUp(a) = q + (IF r > 0 THEN 1 ELSE 0)
  BY DEF SecondsUp
<1> HIDE DEF q, r
<1>3. Tps * (q + 1) = Tps * q + Tps
  BY <1>1, GateAssumption
<1> QED
  BY <1>1, <1>2, <1>3, GateAssumption

(* next_delay yields a natural number of ticks, at most the backoff cap.   *)
LEMMA DelayBounded ==
    ASSUME NEW f \in Nat, NEW d \in next_delay(f)
    PROVE  d \in Nat /\ d <= Cap
<1> DEFINE e == Smaller(f, 20)
<1>1. e \in 0 .. 20
  BY DEF Smaller
<1>2. 2^e \in Nat
  BY Zenon, <1>1, ShiftAssumption
<1> HIDE DEF e
<1>3. Base * 2^e \in Nat
  BY <1>2, GateAssumption
<1>4. Smaller(Base * 2^e, Cap) \in Nat /\ Smaller(Base * 2^e, Cap) <= Cap
  BY <1>3, GateAssumption DEF Smaller
<1>5. Step(f) \in Nat /\ Step(f) <= Cap
  BY <1>4 DEF Step, e
<1>6. d \in (Step(f) \div 2) .. Step(f)
  BY DEF next_delay
<1> DEFINE s == Step(f)
<1> HIDE DEF s
<1>7. d \in Nat /\ d <= s
  BY <1>5, <1>6, HalfRange DEF s
<1> QED
  BY <1>5, <1>7, GateAssumption DEF s

(* A parsed Retry-After covers what the header asked for and stays within  *)
(* the clamp; a header that asks for nothing yet to come parses to None.   *)
LEMMA ParsedCoversDemand ==
    ASSUME GateTypeOK, NEW h \in Headers
    PROVE  LET r == parse_retry_after(h)
           IN  /\ r \in Nat \cup {NoDuration}
               /\ r # NoDuration => r <= Tps * MAX_RETRY_AFTER /\ Demand(h) <= now + r
               /\ r = NoDuration => Demand(h) <= now
               /\ Demand(h) \in Nat
<1> DEFINE max == MAX_RETRY_AFTER
<1>0. /\ now \in Nat /\ h.n \in Nat /\ max \in Nat /\ Tps \in Nat
      /\ h.kind \in {"none", "seconds", "date"}
  BY GateAssumption DEF GateTypeOK, HeaderType
<1>a. Tps * max \in Nat
  BY <1>0
<1>1. CASE h.kind = "none"
  BY <1>0, <1>1 DEF parse_retry_after, Demand, NoDuration
<1>2. CASE h.kind = "seconds"
  <2> DEFINE n == h.n
             r == Tps * Smaller(n, max)
  <2>1. parse_retry_after(h) = r /\ Demand(h) = Smaller(now + Tps * n, now + Tps * max)
    BY <1>2 DEF parse_retry_after, Demand
  <2>2. n \in Nat
    BY <1>0
  <2> HIDE DEF n
  <2>3. r \in Nat /\ Tps * n \in Nat /\ r <= Tps * max /\ (r = Tps * n \/ r = Tps * max)
    BY <1>0, <2>2, ProductMonotone DEF Smaller
  <2> HIDE DEF r
  <2> QED
    BY <1>0, <1>a, <2>1, <2>3 DEF Smaller, NoDuration
<1>3. CASE h.kind = "date"
  <2> DEFINE n == h.n
             up == SecondsUp(n - now)
             r == Tps * Smaller(up, max)
  <2>1. /\ parse_retry_after(h) = IF n - now < 0 THEN NoDuration ELSE r
        /\ Demand(h) = Smaller(n, now + Tps * max)
    BY <1>3 DEF parse_retry_after, Demand
  <2>2. n \in Nat
    BY <1>0
  <2> HIDE DEF n
  <2>3. CASE n - now < 0
    BY <1>0, <1>a, <2>1, <2>2, <2>3 DEF Smaller, NoDuration
  <2>4. CASE ~(n - now < 0)
    <3>1. up \in Nat /\ n - now <= Tps * up
      BY <1>0, <2>2, <2>4, RoundingUpCovers
    <3> HIDE DEF up
    <3>2. r \in Nat /\ Tps * up \in Nat /\ r <= Tps * max /\ (r = Tps * up \/ r = Tps * max)
      BY <1>0, <3>1, ProductMonotone DEF Smaller
    <3> HIDE DEF r
    <3> QED
      BY <1>0, <1>a, <2>1, <2>2, <2>4, <3>1, <3>2 DEF Smaller, NoDuration
  <2> QED
    BY <2>3, <2>4
<1> QED
  BY <1>0, <1>1, <1>2, <1>3

-----------------------------------------------------------------------------
(* A recorded failure keeps GateInv, as long as the wait parsed from the   *)
(* answer covers what the server asked for.                                *)
LEMMA FailureKeepsGate ==
    ASSUME GateInv, NEW r \in Nat \cup {NoDuration}, NEW want \in Nat,
           r # NoDuration => r <= Tps * MAX_RETRY_AFTER /\ want <= now + r,
           r = NoDuration => want <= now,
           record_failure(r), now' = now, inflight' \subseteq Tasks,
           demanded' = Larger(demanded, want)
    PROVE  GateInv'
<1> DEFINE clamp == Tps * MAX_RETRY_AFTER
<1>0. clamp \in Nat
  BY GateAssumption
<1>1. PICK delay \in next_delay(failures) :
        /\ failures' = failures + 1
        /\ server_minimum_until' =
               IF r = NoDuration THEN server_minimum_until
               ELSE Larger(server_minimum_until, now + r)
        /\ blocked_until' =
               Larger(blocked_until, now + (IF r = NoDuration THEN delay ELSE Larger(r, delay)))
  BY DEF record_failure
<1>2. delay \in Nat /\ delay <= Cap
  BY DelayBounded DEF GateInv, GateTypeOK
<1> HIDE DEF clamp
<1> USE <1>0, <1>1, <1>2, GateAssumption DEF Larger, NoDuration
<1>3. GateTypeOK'
  BY DEF GateInv, GateTypeOK
<1>4. MinimumKept'
  BY DEF GateInv, GateTypeOK, MinimumKept, clamp
<1>5. SilenceBounded'
  BY DEF GateInv, GateTypeOK, SilenceBounded, clamp
<1> QED
  BY <1>3, <1>4, <1>5 DEF GateInv

(* The initial states satisfy the invariant.                               *)
LEMMA InitGate == GateInit => GateInv
<1>1. Tps * MAX_RETRY_AFTER \in Nat
  BY GateAssumption
<1> QED
  BY <1>1, GateAssumption
     DEF GateInit, GateInv, GateTypeOK, MinimumKept, SilenceBounded, Larger, Tasks

(* Every step preserves the invariant: one case per action.                *)
LEMMA NextKeepsGate == GateInv /\ [GateNext]_gate_vars => GateInv'
<1> SUFFICES ASSUME GateInv, [GateNext]_gate_vars PROVE GateInv'
  OBVIOUS
<1> DEFINE clamp == Tps * MAX_RETRY_AFTER
<1>0. clamp \in Nat /\ Cap \in Nat
  BY GateAssumption
<1> HIDE DEF clamp
<1> USE <1>0 DEF GateInv, GateTypeOK, MinimumKept, SilenceBounded, Larger, gate, clamp
<1>1. CASE GateTick
  BY <1>1 DEF GateTick
<1>2. CASE SendReport
  BY <1>2 DEF SendReport, Tasks
<1>3. ASSUME NEW t \in Tasks, polling(t) PROVE GateInv'
  BY <1>3 DEF polling, Gated, Tasks
<1>4. ASSUME NEW t \in Tasks, AnswerSuccess(t) PROVE GateInv'
  BY <1>4 DEF AnswerSuccess, record_success
<1>5. ASSUME NEW t \in Tasks, NEW h \in Headers, AnswerFailure(t, h) PROVE GateInv'
  <2> DEFINE r == parse_retry_after(h)
             want == Demand(h)
  <2>1. /\ r \in Nat \cup {NoDuration} /\ want \in Nat
        /\ r # NoDuration => r <= clamp /\ want <= now + r
        /\ r = NoDuration => want <= now
    BY ParsedCoversDemand
  <2>2. /\ record_failure(r) /\ now' = now /\ inflight' \subseteq Tasks
        /\ demanded' = Larger(demanded, want)
    BY <1>5 DEF AnswerFailure
  <2> HIDE DEF r, want
  <2> QED
    BY Zenon, <2>1, <2>2, FailureKeepsGate
<1>6. ASSUME NEW t \in Tasks, NetworkError(t) PROVE GateInv'
  <2>1. CASE t \in Gated
    <3>1. /\ record_failure(NoDuration) /\ now' = now /\ inflight' \subseteq Tasks
          /\ demanded' = Larger(demanded, 0)
      BY <1>6, <2>1 DEF NetworkError
    <3> QED
      BY <3>1, FailureKeepsGate DEF NoDuration
  <2>2. CASE t \notin Gated
    BY <1>6, <2>2 DEF NetworkError
  <2> QED
    BY <2>1, <2>2
<1>7. ASSUME NEW t \in Tasks, AnswerUnobserved(t) PROVE GateInv'
  BY <1>7 DEF AnswerUnobserved
<1>8. CASE UNCHANGED gate_vars
  BY <1>8 DEF gate_vars
<1> QED
  BY <1>1, <1>2, <1>3, <1>4, <1>5, <1>6, <1>7, <1>8 DEF GateNext

(* GateInv holds throughout.                                               *)
THEOREM GateInvariance == GateSpec => []GateInv
  BY InitGate, NextKeepsGate, PTL DEF GateSpec

(* No polling request leaves while a wait a server asked for runs.         *)
THEOREM RetryAfterIsHonoured == GateSpec => []RetryAfterHonoured
<1>1. GateInv => RetryAfterHonoured
  BY DEF GateInv, GateTypeOK, MinimumKept, RetryAfterHonoured, check_at
<1> QED
  BY <1>1, GateInvariance, PTL

(* The gate is never closed beyond the clamp and the cap.                  *)
THEOREM SilenceIsBounded == GateSpec => []SilenceBounded
<1>1. GateInv => SilenceBounded
  BY DEF GateInv
<1> QED
  BY <1>1, GateInvariance, PTL

(* Only a success brings the reopening forward, and never before the       *)
(* longest wait a server asked for.                                        *)
THEOREM WaitIsNeverShortened == GateSpec => WaitNeverShortened
<1> DEFINE Kept == blocked_until' < blocked_until =>
                       /\ failures' = 0
                       /\ demanded > now => blocked_until' >= demanded
<1>1. ASSUME GateInv, GateNext PROVE Kept
  <2> USE DEF GateInv, GateTypeOK
  <2>1. ASSUME record_success PROVE Kept
    BY <1>1, <2>1 DEF record_success, MinimumKept
  <2>2. ASSUME NEW r \in Nat \cup {NoDuration}, record_failure(r) PROVE ~(blocked_until' < blocked_until)
    <3>1. PICK delay \in next_delay(failures) :
            blocked_until' =
               Larger(blocked_until, now + (IF r = NoDuration THEN delay ELSE Larger(r, delay)))
      BY <2>2 DEF record_failure
    <3>2. delay \in Nat
      BY <1>1, DelayBounded
    <3> QED
      BY <1>1, <3>1, <3>2 DEF Larger, NoDuration
  <2>3. CASE blocked_until' = blocked_until
    BY <1>1, <2>3
  <2>4. ASSUME NEW t \in Tasks, AnswerSuccess(t) PROVE Kept
    BY <2>1, <2>4 DEF AnswerSuccess
  <2>5. ASSUME NEW t \in Tasks, NEW h \in Headers, AnswerFailure(t, h) PROVE Kept
    <3>1. parse_retry_after(h) \in Nat \cup {NoDuration}
      BY <1>1, ParsedCoversDemand
    <3> QED
      BY Zenon, <2>2, <2>5, <3>1 DEF AnswerFailure
  <2>6. ASSUME NEW t \in Tasks, NetworkError(t) PROVE Kept
    BY Zenon, <2>2, <2>3, <2>6 DEF NetworkError, gate
  <2> QED
    BY <1>1, <2>3, <2>4, <2>5, <2>6
       DEF GateNext, GateTick, SendReport, polling, AnswerUnobserved, gate
<1>2. GateInv /\ [GateNext]_gate_vars => [Kept]_gate_vars
  BY <1>1
<1> QED
  BY <1>2, GateInvariance, PTL DEF GateSpec, WaitNeverShortened

-----------------------------------------------------------------------------
(* External authorizations.                                                *)
(* Leaving out bad items yields a state without any.                       *)
LEMMA ParsedType ==
    ASSUME NEW s \in Snapshot
    PROVE  Parsed(s) \in [Creds -> Status \ {"bad"}]
BY DEF Parsed, Snapshot, Status

(* A tightening grants nothing new.                                        *)
LEMMA TighteningGrantsNothing ==
    ASSUME NEW cur \in [Creds -> Status], NEW next \in [Creds -> Status], NEW quar,
           only_tightens(cur, next, quar)
    PROVE  active_at(next, 0) \subseteq active_at(cur, 0)
BY DEF only_tightens, active_at

(* Moving forward twice is moving forward.                                 *)
LEMMA ForwardComposes ==
    ASSUME NEW a \in StateRecord, NEW b \in StateRecord, NEW c \in StateRecord,
           NotBehind(a, b), NotBehind(b, c)
    PROVE  NotBehind(a, c)
BY DEF NotBehind, StateRecord, NoRevision

(* An adopted snapshot moves the state forward.                            *)
LEMMA AdoptionMovesForward ==
    ASSUME NEW st \in StateRecord, NEW s \in Snapshot, adopts(st, s)
    PROVE  /\ adopted(st, s) \in StateRecord
           /\ NotBehind(st, adopted(st, s))
           /\ adopted(st, s) # st =>
                adopted(st, s).applied = NoRevision /\ adopted(st, s).acked = NoRevision
<1>1. /\ Parsed(s) \in [Creds -> Status \ {"bad"}] /\ s.rev \in Nat
      /\ st.desired \in [Creds -> Status \ {"bad"}] /\ st.rev \in Nat
  BY ParsedType DEF Snapshot, StateRecord
<1>2. CASE Parsed(s) = st.desired /\ s.rev = st.rev
  BY <1>1, <1>2 DEF adopted, NotBehind
<1>3. CASE Parsed(s) # st.desired \/ s.rev # st.rev
  <2> DEFINE new == [desired |-> Parsed(s), rev |-> s.rev, applied |-> NoRevision,
                     acked |-> NoRevision]
  <2>1. adopted(st, s) = new
    BY <1>3 DEF adopted
  <2>2. new \in StateRecord /\ new.desired = Parsed(s) /\ new.rev = s.rev
        /\ new.applied = NoRevision /\ new.acked = NoRevision
    BY <1>1 DEF StateRecord, NoRevision
  <2> HIDE DEF new
  <2>3. NotBehind(st, new)
    <3>1. CASE st.rev = NoRevision
      BY <3>1 DEF NotBehind
    <3>2. CASE s.rev > st.rev
      BY <1>1, <2>2, <3>2 DEF NotBehind
    <3>3. CASE s.rev = st.rev /\ Parsed(s) = st.desired
      BY <1>3, <3>3
    <3>4. CASE s.rev = st.rev /\ only_tightens(st.desired, Parsed(s), Quarantine(s))
      <4>1. active_at(Parsed(s), 0) \subseteq active_at(st.desired, 0)
        BY <1>1, <3>4, TighteningGrantsNothing DEF Status
      <4> QED BY <1>1, <2>2, <3>4, <4>1 DEF NotBehind
    <3> QED BY <3>1, <3>2, <3>3, <3>4 DEF adopts
  <2> QED BY <2>1, <2>2, <2>3
<1> QED BY <1>2, <1>3

-----------------------------------------------------------------------------
(* Nothing moves backward by standing still, and noting progress does not  *)
(* move the state.                                                         *)
LEMMA ForwardReflexive ==
    ASSUME NEW a \in StateRecord
    PROVE  NotBehind(a, a)
BY DEF NotBehind, StateRecord

(* Noting that a revision is applied or acknowledged moves nothing.        *)
LEMMA ProgressStays ==
    ASSUME NEW a \in StateRecord, NEW b \in StateRecord, b.desired = a.desired, b.rev = a.rev
    PROVE  NotBehind(a, b) /\ NotBehind(b, a)
BY DEF NotBehind, StateRecord

(* What a step does to the two copies of the state: the one in memory      *)
(* moves forward or, at a restart, is read from the file; the file is left *)
(* alone or gets the one in memory.                                        *)
Forward ==
    /\ \/ state' = file /\ file' = file
       \/ NotBehind(state, state')
    /\ file' \in {file, state'}

(* A forward step preserves the order of file, memory and what comes next. *)
LEMMA ForwardKeepsInv ==
    ASSUME IInv, TypeOK', Forward
    PROVE  IInv' /\ NotBehind(file, file')
<1>1. file \in StateRecord /\ state \in StateRecord /\ file' \in StateRecord
      /\ state' \in StateRecord /\ NotBehind(file, state)
  BY DEF IInv, TypeOK
<1>2. NotBehind(file, state')
  BY <1>1, ForwardComposes, ForwardReflexive DEF Forward
<1>3. NotBehind(file', state') /\ NotBehind(file, file')
  BY <1>1, <1>2, ForwardReflexive DEF Forward
<1> QED BY <1>3 DEF IInv

(* The snapshots that can be answered with are snapshots.                  *)
LEMMA AnswersType ==
    ASSUME IInv
    PROVE  Answers \subseteq Snapshot
BY DEF IInv, TypeOK, Answers

(* Adopting a snapshot in tick is a forward step.                          *)
LEMMA FreshForward ==
    ASSUME IInv, Fresh
    PROVE  TypeOK' /\ Forward
<1>1. PICK s \in Answers \ {etag} :
        LET st == adopted(state, s)
        IN  /\ pc \in {"idle", "due"}
            /\ IF adopts(state, s)
               THEN /\ state' = st
                    /\ quarantined' = Quarantine(s) /\ lost' = Quarantine(s)
                    /\ \/ /\ pc' = "local" /\ etag' = s
                          /\ file' = IF st = state THEN file ELSE st
                       \/ /\ "save" \in Faults /\ st # state
                          /\ pc' = "due" /\ UNCHANGED <<etag, file>>
                    /\ UNCHANGED error
               ELSE /\ etag' = Never /\ error' = TRUE /\ pc' = "local"
                    /\ UNCHANGED <<state, quarantined, file, lost>>
            /\ UNCHANGED <<outside, live, fingerprint, applied_here, wanted, changes, crashes>>
  BY DEF Fresh
<1>2. s \in Snapshot /\ state \in StateRecord
  BY AnswersType DEF IInv, TypeOK
<1>3. CASE adopts(state, s)
  <2>1. state' = adopted(state, s) /\ file' \in {file, state'}
        /\ UNCHANGED <<outside, live, fingerprint, applied_here, wanted, changes, crashes, error>>
        /\ pc' \in {"local", "due"} /\ etag' \in {s, etag}
        /\ quarantined' = Quarantine(s) /\ lost' = Quarantine(s)
    BY <1>1, <1>3
  <2>2. state' \in StateRecord /\ NotBehind(state, state')
        /\ (state' # state => state'.applied = NoRevision /\ state'.acked = NoRevision)
    BY <1>2, <1>3, <2>1, AdoptionMovesForward
  <2>4. Quarantine(s) \subseteq Creds
    BY DEF Quarantine
  <2>5. file' \in StateRecord
    BY <2>1, <2>2 DEF IInv, TypeOK
  <2>6. TypeOK'
    BY <1>2, <2>1, <2>2, <2>4, <2>5 DEF IInv, TypeOK, outside
  <2> QED BY <2>1, <2>2, <2>6 DEF Forward
<1>4. CASE ~adopts(state, s)
  <2>1. /\ UNCHANGED <<outside, live, fingerprint, applied_here, wanted, changes, crashes>>
        /\ etag' = Never /\ error' = TRUE /\ pc' = "local"
        /\ UNCHANGED <<state, quarantined, file, lost>>
    BY <1>1, <1>4
  <2>2. TypeOK'
    BY <2>1 DEF IInv, TypeOK, outside
  <2> QED BY <1>2, <2>1, <2>2, ForwardReflexive DEF Forward
<1> QED BY <1>3, <1>4

(* Every other part of tick, one step each.                                *)
LEMMA TickForward ==
    ASSUME IInv, Tick
    PROVE  TypeOK' /\ Forward
<1>0. state \in StateRecord /\ file \in StateRecord
  BY DEF IInv, TypeOK
<1>1. CASE SkipFetch \/ NotModified
  BY <1>0, <1>1, ForwardReflexive DEF SkipFetch, NotModified, IInv, TypeOK, Forward, outside, memory
<1>2. CASE FetchFails
  BY <1>0, <1>2, ForwardReflexive DEF FetchFails, IInv, TypeOK, Forward, outside
<1>3. CASE Fresh
  BY <1>3, FreshForward
<1>4. CASE Enforce
  <2>1. UNCHANGED <<outside, live, file, memory, error, changes, crashes, lost>>
        /\ wanted' = active_at(state.desired, clock) /\ pc' \in {"apply", "ack"}
    BY <1>4 DEF Enforce
  <2>2. wanted' \subseteq Creds
    BY <2>1 DEF active_at
  <2> QED BY <1>0, <2>1, <2>2, ForwardReflexive DEF IInv, TypeOK, Forward, outside, memory
<1>5. CASE Apply
  <2>1. UNCHANGED <<outside, file, memory, changes, crashes, lost>>
        /\ live' \in {live, active_at(state.desired, clock)}
        /\ pc' \in {"applied", "due"} /\ wanted' \in {wanted, {}} /\ error' \in {error, FALSE}
    BY Zenon, <1>5 DEF Apply, Return
  <2>2. live' \subseteq Creds /\ wanted' \subseteq Creds /\ error' \in BOOLEAN
    BY Zenon, <2>1 DEF active_at, IInv, TypeOK
  <2> QED BY <1>0, <2>1, <2>2, ForwardReflexive DEF IInv, TypeOK, Forward, outside, memory
<1>6. CASE Applied
  <2> DEFINE st == [state EXCEPT !.applied = state.rev]
  <2>1. /\ UNCHANGED <<outside, live, etag, quarantined, changes, crashes, lost>>
        /\ fingerprint' = wanted /\ applied_here' = TRUE /\ state' = st
        /\ file' \in {file, state'} /\ pc' \in {"ack", "due"}
        /\ wanted' \in {wanted, {}} /\ error' \in {error, FALSE}
    BY Zenon, <1>6 DEF Applied, Return
  <2>2. st \in StateRecord /\ st.desired = state.desired /\ st.rev = state.rev
        /\ st.applied = state.rev /\ st.acked = state.acked
    BY <1>0 DEF StateRecord
  <2> HIDE DEF st
  <2>4. wanted' \subseteq Creds /\ error' \in BOOLEAN /\ file' \in StateRecord
    BY Zenon, <1>0, <2>1, <2>2 DEF IInv, TypeOK
  <2>5. TypeOK'
    BY <2>1, <2>2, <2>4 DEF IInv, TypeOK, outside
  <2> QED BY <1>0, <2>1, <2>2, <2>5, ProgressStays DEF Forward
<1>7. CASE Ack
  <2> DEFINE st == [state EXCEPT !.acked = state.rev]
  <2>1. /\ UNCHANGED <<cp, past, clock, live, fingerprint, applied_here, etag, quarantined,
                       changes, crashes, lost>>
        /\ cpacked' \in {cpacked, state.rev}
        /\ state' = state \/ (state' = st /\ state.applied = state.rev)
        /\ file' \in {file, state'} /\ pc' \in {"idle", "due"}
        /\ wanted' = {} /\ error' = FALSE
    BY <1>7 DEF Ack, Return, MayAck
  <2>2. /\ st.desired = state.desired /\ st.rev = state.rev
        /\ state.applied = state.rev => st \in StateRecord
    BY <1>0 DEF StateRecord
  <2> HIDE DEF st
  <2>3. state' \in StateRecord
    BY <2>1, <2>2 DEF IInv, TypeOK
  <2>4. cpacked' \in Nat /\ file' \in StateRecord
    BY <1>0, <2>1, <2>3 DEF IInv, TypeOK, StateRecord
  <2>5. TypeOK'
    BY Zenon, <2>1, <2>3, <2>4 DEF IInv, TypeOK
  <2> QED BY <1>0, <2>1, <2>2, <2>5, ProgressStays, ForwardReflexive DEF Forward
<1> QED BY <1>1, <1>2, <1>3, <1>4, <1>5, <1>6, <1>7 DEF Tick, Fetch

(* So are a restart of the agent and what happens outside it.              *)
LEMMA OutsideForward ==
    ASSUME IInv, Restart \/ Publish \/ EntitlementChanges \/ Expiry
    PROVE  TypeOK' /\ Forward
<1>0. state \in StateRecord /\ file \in StateRecord
  BY DEF IInv, TypeOK
<1>1. CASE Restart
  <2>1. /\ state' = file /\ file' = file /\ pc' = "due" /\ wanted' = {} /\ error' = FALSE
        /\ fingerprint' = {} /\ applied_here' = FALSE /\ etag' = Never /\ quarantined' = {}
        /\ UNCHANGED <<outside, live, changes, lost>>
        /\ crashes < MaxCrashes /\ crashes' = crashes + 1
    BY <1>1 DEF Restart, Return
  <2>2. crashes' \in 0 .. MaxCrashes
    BY <2>1, ExternalAssumption DEF IInv, TypeOK
  <2>3. TypeOK'
    BY Zenon, <1>0, <2>1, <2>2 DEF IInv, TypeOK, outside
  <2> QED BY <2>1, <2>3 DEF Forward
<1>2. CASE Expiry
  BY <1>0, <1>2, ForwardReflexive DEF Expiry, IInv, TypeOK, Forward, memory
<1>3. ASSUME NEW s \in Snapshot, Publishes(s)
      PROVE  TypeOK' /\ Forward
  BY <1>0, <1>3, ExternalAssumption, ForwardReflexive DEF Publishes, IInv, TypeOK, Forward, memory
<1>4. CASE Publish
  <2>1. PICK items \in Contents, rev \in {changes + 2} \cup (IF "legacy" \in Faults THEN {0} ELSE {}) :
          Publishes([rev |-> rev, items |-> items])
    BY <1>4 DEF Publish
  <2>2. rev \in Nat
    BY ExternalAssumption DEF IInv, TypeOK
  <2>3. [rev |-> rev, items |-> items] \in Snapshot
    BY <2>2, ExternalAssumption DEF Snapshot
  <2> QED BY <1>3, <2>1, <2>3
<1>5. CASE EntitlementChanges
  <2>1. PICK c \in Creds, to \in {"revoked", "on"} : Publishes([cp EXCEPT !.items[c] = to])
    BY Zenon, <1>5 DEF EntitlementChanges
  <2>2. [cp EXCEPT !.items[c] = to] \in Snapshot
    BY DEF IInv, TypeOK, Snapshot, Status
  <2> QED BY <1>3, <2>1, <2>2
<1> QED BY <1>1, <1>2, <1>4, <1>5

-----------------------------------------------------------------------------
(* Every step of the system.                                               *)
LEMMA StepForward ==
    ASSUME IInv, [Next]_vars
    PROVE  IInv' /\ NotBehind(file, file')
<1>1. CASE Next
  BY <1>1, TickForward, OutsideForward, ForwardKeepsInv DEF Next
<1>2. CASE UNCHANGED vars
  <2>1. IInv' /\ file' = file /\ file \in StateRecord
    BY <1>2 DEF vars, IInv, TypeOK
  <2> QED BY <2>1, ForwardReflexive
<1> QED BY <1>1, <1>2

(* The state in memory is never behind the one on disk.                    *)
THEOREM Invariance == Spec => []IInv
<1>1. Init => IInv
  <2> SUFFICES ASSUME Init PROVE IInv
    OBVIOUS
  <2>1. Empty \in StateRecord /\ NoCreds \in [Creds -> Status]
    <3>1. NoCreds \in [Creds -> Status \ {"bad"}] /\ NoCreds \in [Creds -> Status]
      BY DEF NoCreds, Status
    <3> QED BY <3>1 DEF Empty, StateRecord, NoRevision
  <2>2. cp \in Snapshot
    BY <2>1 DEF Init, Snapshot
  <2>4. past \subseteq Snapshot
    BY <2>2 DEF Init
  <2>3. TypeOK
    <3>1. changes \in 0 .. MaxChanges /\ crashes \in 0 .. MaxCrashes /\ cpacked \in Nat
          /\ clock \in 0 .. 1
      BY ExternalAssumption DEF Init, NoRevision
    <3>2. applied_here \in BOOLEAN /\ error \in BOOLEAN /\ etag \in Snapshot \cup {Never}
      BY Zenon DEF Init
    <3>3. pc \in {"idle", "due", "local", "apply", "applied", "ack"}
      BY DEF Init
    <3>4. live \subseteq Creds /\ fingerprint \subseteq Creds /\ quarantined \subseteq Creds
          /\ wanted \subseteq Creds /\ lost \subseteq Creds
      BY DEF Init
    <3>5. file \in StateRecord /\ state \in StateRecord
      BY <2>1 DEF Init
    <3> QED BY <2>2, <2>4, <3>1, <3>2, <3>3, <3>4, <3>5 DEF TypeOK
  <2> QED BY <2>1, <2>3, ForwardReflexive DEF Init, IInv
<1>2. IInv /\ [Next]_vars => IInv'
  BY StepForward
<1> QED BY <1>1, <1>2, PTL DEF Spec

(* The types of the reconciler's variables, for every instance.            *)
THEOREM TypeCorrect == Spec => []TypeOK
<1>1. IInv => TypeOK
  BY DEF IInv
<1> QED BY <1>1, Invariance, PTL

(* Whatever arrives, fails or restarts, the durable state never goes back  *)
(* to an older revision and, within one, never grants a credential again.  *)
THEOREM NodeNeverWidens == Spec => NeverWidens
<1>1. IInv /\ [Next]_vars =>
        [file.rev # NoRevision =>
           /\ file'.rev >= file.rev
           /\ file'.rev = file.rev =>
                active_at(file'.desired, 0) \subseteq active_at(file.desired, 0)]_vars
  BY StepForward DEF NotBehind
<1> QED BY <1>1, Invariance, PTL DEF Spec, NeverWidens

-----------------------------------------------------------------------------
(* Acknowledgements.  What sing-box accepts once a snapshot was applied:   *)
(* the credentials active then, which is now or before the expiry.         *)
AppliedLive(st, accepted, t) ==
    accepted \in {active_at(st.desired, 0), active_at(st.desired, t)}

(* A process only reaches the ACK after it applied something itself; what  *)
(* it noted as applied is what sing-box accepts; and until a restart it    *)
(* knows what the snapshot in use left out.                                *)
AckInv ==
    /\ pc = "ack" => applied_here
    /\ pc = "applied" => AppliedLive(state, live, clock)
    /\ applied_here /\ state.rev # NoRevision /\ state.applied = state.rev =>
         AppliedLive(state, live, clock)
    /\ crashes = 0 => lost = quarantined

(* Adopting a snapshot either changes nothing or forgets what was applied. *)
LEMMA FreshKeepsAck ==
    ASSUME IInv, AckInv, Fresh
    PROVE  AckInv' /\ cpacked' = cpacked
<1>1. PICK s \in Answers \ {etag} :
        LET st == adopted(state, s)
        IN  /\ pc \in {"idle", "due"}
            /\ IF adopts(state, s)
               THEN /\ state' = st
                    /\ quarantined' = Quarantine(s) /\ lost' = Quarantine(s)
                    /\ \/ /\ pc' = "local" /\ etag' = s
                          /\ file' = IF st = state THEN file ELSE st
                       \/ /\ "save" \in Faults /\ st # state
                          /\ pc' = "due" /\ UNCHANGED <<etag, file>>
                    /\ UNCHANGED error
               ELSE /\ etag' = Never /\ error' = TRUE /\ pc' = "local"
                    /\ UNCHANGED <<state, quarantined, file, lost>>
            /\ UNCHANGED <<outside, live, fingerprint, applied_here, wanted, changes, crashes>>
  BY DEF Fresh
<1>2. pc' \in {"local", "due"} /\ UNCHANGED <<cpacked, clock, live, applied_here, crashes>>
  BY <1>1 DEF outside
<1>3. state' = state \/ (state'.rev # NoRevision => state'.applied # state'.rev)
  <2>1. CASE adopts(state, s)
    <3>1. s \in Snapshot /\ state \in StateRecord /\ state' = adopted(state, s)
      BY <1>1, <2>1, AnswersType DEF IInv, TypeOK
    <3>2. state' # state => state'.applied = NoRevision
      BY <2>1, <3>1, AdoptionMovesForward
    <3> QED BY <3>2
  <2>2. CASE ~adopts(state, s)
    BY <1>1, <2>2
  <2> QED BY <2>1, <2>2
<1>4. crashes' = 0 => lost' = quarantined'
  BY <1>1 DEF AckInv
<1>5. (applied_here /\ state.rev # NoRevision /\ state.applied = state.rev =>
         AppliedLive(state, live, clock))'
  BY <1>2, <1>3 DEF AckInv
<1> QED BY <1>2, <1>4, <1>5 DEF AckInv

(* Every other step of the system; an ACK is sent from where all of the    *)
(* invariant holds.                                                        *)
LEMMA NextKeepsAck ==
    ASSUME IInv, AckInv, Next
    PROVE  /\ AckInv'
           /\ cpacked' # cpacked =>
                /\ crashes = 0 => lost = {}
                /\ cpacked' = state.rev
                /\ live \in {active_at(state.desired, 0), active_at(state.desired, clock)}
<1>0. state \in StateRecord /\ file \in StateRecord /\ crashes \in Nat
  BY ExternalAssumption DEF IInv, TypeOK
<1>1. CASE SkipFetch \/ NotModified \/ FetchFails
  <2>1. pc' = "local"
        /\ UNCHANGED <<cpacked, clock, live, state, applied_here, quarantined, crashes, lost>>
    BY <1>1 DEF SkipFetch, NotModified, FetchFails, outside, memory
  <2> QED BY <2>1 DEF AckInv
<1>2. CASE Fresh
  BY <1>2, FreshKeepsAck
<1>3. CASE Enforce
  <2>1. pc' \in {"apply", "ack"} /\ (pc' = "ack" => applied_here)
        /\ UNCHANGED <<cpacked, clock, live, state, applied_here, quarantined, crashes, lost>>
    BY <1>3 DEF Enforce, outside, memory
  <2> QED BY <2>1 DEF AckInv
<1>4. CASE Apply
  <2>1. pc' \in {"applied", "due"} /\ live' \in {live, active_at(state.desired, clock)}
        /\ (pc' = "applied" => live' = active_at(state.desired, clock))
        /\ UNCHANGED <<cpacked, clock, state, applied_here, quarantined, crashes, lost>>
    BY <1>4 DEF Apply, Return, outside, memory
  <2>2. (pc = "applied" => AppliedLive(state, live, clock))'
    BY <2>1 DEF AppliedLive
  <2>3. (applied_here /\ state.rev # NoRevision /\ state.applied = state.rev =>
           AppliedLive(state, live, clock))'
    BY <2>1 DEF AckInv, AppliedLive
  <2> QED BY <2>1, <2>2, <2>3 DEF AckInv
<1>5. CASE Applied
  <2> DEFINE st == [state EXCEPT !.applied = state.rev]
  <2>1. pc = "applied" /\ pc' \in {"ack", "due"} /\ applied_here' = TRUE /\ state' = st
        /\ UNCHANGED <<cpacked, clock, live, quarantined, crashes, lost>>
    BY <1>5 DEF Applied, Return, outside
  <2>2. st.desired = state.desired
    BY <1>0 DEF StateRecord
  <2> HIDE DEF st
  <2>3. AppliedLive(state, live, clock)'
    BY <2>1, <2>2 DEF AckInv, AppliedLive
  <2> QED BY <2>1, <2>3 DEF AckInv
<1>6. CASE Ack
  <2> DEFINE st == [state EXCEPT !.acked = state.rev]
  <2>1. /\ pc = "ack" /\ pc' \in {"idle", "due"}
        /\ UNCHANGED <<clock, live, applied_here, quarantined, crashes, lost>>
        /\ state' \in {state, st}
        /\ cpacked' # cpacked => MayAck /\ cpacked' = state.rev
    BY <1>6 DEF Ack, Return
  <2>2. st.desired = state.desired /\ st.rev = state.rev /\ st.applied = state.applied
    BY <1>0 DEF StateRecord
  <2> HIDE DEF st
  <2>3. state'.desired = state.desired /\ state'.rev = state.rev
        /\ state'.applied = state.applied
    BY <2>1, <2>2
  <2>4. AckInv'
    BY <2>1, <2>3 DEF AckInv, AppliedLive
  <2>5. ASSUME cpacked' # cpacked
        PROVE  /\ crashes = 0 => lost = {}
               /\ cpacked' = state.rev
               /\ live \in {active_at(state.desired, 0), active_at(state.desired, clock)}
    BY <2>1, <2>5 DEF AckInv, AppliedLive, MayAck
  <2> QED BY <2>4, <2>5
<1>7. CASE Restart
  <2>1. pc' = "due" /\ applied_here' = FALSE /\ crashes' = crashes + 1 /\ cpacked' = cpacked
    BY <1>7 DEF Restart, Return, outside
  <2>2. crashes' # 0
    BY <1>0, <2>1
  <2> QED BY <2>1, <2>2 DEF AckInv
<1>8. ASSUME NEW s, Publishes(s)
      PROVE  AckInv' /\ cpacked' = cpacked
  BY <1>8 DEF Publishes, memory, AckInv
<1>9. CASE Publish \/ EntitlementChanges
  <2>1. \E s : Publishes(s)
    BY <1>9, Zenon DEF Publish, EntitlementChanges
  <2> QED BY <1>8, <2>1, Zenon
<1>10. CASE Expiry
  <2>1. clock = 0 /\ UNCHANGED <<cpacked, live, state, applied_here, quarantined, pc, crashes, lost>>
    BY <1>10 DEF Expiry, memory
  <2>2. AppliedLive(state, live, clock) => AppliedLive(state, live, clock)'
    BY <2>1 DEF AppliedLive
  <2> QED BY <2>1, <2>2 DEF AckInv
<1> QED BY <1>1, <1>2, <1>3, <1>4, <1>5, <1>6, <1>7, <1>9, <1>10 DEF Next, Tick, Fetch

(* An acknowledged revision was applied in full, whatever snapshots, lost  *)
(* answers, failed writes and restarts came in between.                    *)
THEOREM AcksAreEarned == Spec => AckedInFull
<1>1. Init => AckInv
  BY DEF Init, AckInv
<1>2. IInv /\ AckInv /\ [Next]_vars => AckInv'
  <2>1. ASSUME AckInv, UNCHANGED vars PROVE AckInv'
    BY <2>1 DEF vars, AckInv
  <2> QED BY <2>1, NextKeepsAck
<1>3. IInv /\ AckInv /\ [Next]_vars =>
        [cpacked' # cpacked =>
           /\ crashes = 0 => lost = {}
           /\ cpacked' = state.rev
           /\ live \in {active_at(state.desired, 0), active_at(state.desired, clock)}]_vars
  BY NextKeepsAck
<1>4. Spec => [](IInv /\ AckInv)
  BY <1>1, <1>2, Invariance, PTL DEF Spec
<1> QED BY <1>3, <1>4, PTL DEF Spec, AckedInFull

-----------------------------------------------------------------------------
(* The prober, its reports and the heartbeat that carries them.            *)

(* Rounds by agent process, then by number.                                *)
Before(a, b) == a[1] < b[1] \/ (a[1] = b[1] /\ a[2] < b[2])

(* The reports the control plane counted (got), the one a heartbeat        *)
(* carries (t) and the one in the slot (s), for process l after round r:   *)
(* counted in order, and each newer than those before it.                  *)
InOrder(got, t, s, l, r) ==
    /\ l \in Nat /\ r \in Nat /\ got \in Seq(Nat \X Nat)
    /\ t # <<>> => t = <<l, t[2]>> /\ t[2] \in 1..r
    /\ s # NoReport => s.life = l /\ s.round \in 1..r
    /\ t # <<>> /\ s # NoReport => t[2] < s.round
    /\ \A i \in DOMAIN got :
          /\ Before(got[i], <<l, r + 1>>)
          /\ t # <<>> => Before(got[i], t)
          /\ s # NoReport => Before(got[i], <<l, s.round>>)
    /\ \A i, j \in DOMAIN got : i < j => Before(got[i], got[j])

(* FailureStreaks knows the keys of the last round; a streak is zero for   *)
(* those that were ok.                                                     *)
StreaksFit(st, ok, r) ==
    /\ DOMAIN st = DOMAIN ok
    /\ \A k \in DOMAIN st :
          /\ st[k].seen + 1 = r /\ st[k].streak \in Nat
          /\ st[k].streak = 0 <=> ok[k]

(* A key is reported healthy when this round reached it, failed when       *)
(* neither this one nor the last did, and degraded otherwise.              *)
StatusesFit(results, ok, last) ==
    /\ DOMAIN results = DOMAIN ok
    /\ \A k \in DOMAIN results :
          results[k].status = IF ok[k] THEN "healthy"
                              ELSE IF k \in DOMAIN last /\ ~last[k] THEN "failed" ELSE "degraded"

(* A published row was written within the current RepublishEvery rounds,   *)
(* and its links are known.                                                *)
Slack(pub, o, point, r, since) ==
    pub => /\ o # 0
           /\ IF point # "ensure" THEN since <= r % RepublishEvery
              ELSE since + 1 <= IF r % RepublishEvery = 0 THEN RepublishEvery ELSE r % RepublishEvery

(* The inductive invariant.                                                *)
ProbeInv ==
    /\ history = [now |-> history.now, last |-> history.last, since |-> history.since]
    /\ history.since \in Nat
    /\ InOrder(received, taken, slot, life, round)
    /\ StreaksFit(streaks, history.now, round)
    /\ slot # NoReport => StatusesFit(slot.results, history.now, history.last)
    /\ Slack(published, own, ppc, round, history.since)

(* Division has one remainder.                                             *)
LEMMA OneQuotient ==
    ASSUME NEW d \in Nat \ {0}, NEW q \in Nat, NEW p \in Nat, NEW m \in Nat, NEW n \in Nat,
           m < d, n < d, d * q + m = d * p + n
    PROVE  m = n
<1>1. ASSUME NEW a \in Nat, NEW b \in Nat, a < b
      PROVE  d * a + d <= d * b
  <2>1. d * (a + 1) <= d * b
    BY <1>1, ProductMonotone, a + 1 \in Nat, a + 1 <= b
  <2>2. d * (a + 1) = d * a + d
    OBVIOUS
  <2> QED
    BY <2>1, <2>2
<1>2. ~(q < p)
  <2> SUFFICES ASSUME q < p PROVE FALSE
    OBVIOUS
  <2>1. d * q + d <= d * p
    BY <1>1
  <2> QED
    BY <2>1, ProductMonotone
<1>3. ~(p < q)
  <2> SUFFICES ASSUME p < q PROVE FALSE
    OBVIOUS
  <2>1. d * p + d <= d * q
    BY <1>1
  <2> QED
    BY <2>1, ProductMonotone
<1>4. q = p
  BY <1>2, <1>3
<1> QED
  BY <1>4, ProductMonotone

(* The remainder of the next round, which is what decides when the links   *)
(* are published again.                                                    *)
LEMMA NextRemainder ==
    ASSUME NEW d \in Nat \ {0}, NEW r \in Nat
    PROVE  /\ r % d \in Nat /\ r % d < d
           /\ (r + 1) % d = IF (r % d) + 1 = d THEN 0 ELSE (r % d) + 1
<1> DEFINE q == r \div d
           m == r % d
           p == (r + 1) \div d
           n == (r + 1) % d
<1>1. q \in Nat /\ m \in Nat /\ m < d /\ r = d * q + m
  OBVIOUS
<1>2. p \in Nat /\ n \in Nat /\ n < d /\ r + 1 = d * p + n
  OBVIOUS
<1> HIDE DEF q, m, p, n
<1>3. CASE m + 1 = d
  <2>1. d * (q + 1) = d * q + d
    BY <1>1
  <2>2. d * (q + 1) + 0 = d * p + n
    BY <1>1, <1>2, <1>3, <2>1, ProductMonotone
  <2>3. n = 0
    BY <1>1, <1>2, <2>2, OneQuotient, q + 1 \in Nat
  <2> QED
    BY <1>1, <1>3, <2>3 DEF m, n
<1>4. CASE m + 1 # d
  <2>1. d * q + (m + 1) = d * p + n
    BY <1>1, <1>2, ProductMonotone
  <2>2. n = m + 1
    BY <1>1, <1>2, <1>4, <2>1, OneQuotient, m + 1 \in Nat, m + 1 < d
  <2> QED
    BY <1>1, <1>4, <2>2 DEF m, n
<1> QED
  BY <1>3, <1>4

(* A round brings the next publication no further away than it is due.     *)
LEMMA ProbeSlack ==
    ASSUME NEW pub, NEW o, NEW r \in Nat, NEW since \in Nat,
           Slack(pub, o, "probe", r, since)
    PROVE  Slack(pub, o, "ensure", r + 1, since)
<1> DEFINE m == r % RepublishEvery
           n == (r + 1) % RepublishEvery
<1>1. /\ RepublishEvery \in Nat /\ m \in Nat /\ m < RepublishEvery
      /\ n = IF m + 1 = RepublishEvery THEN 0 ELSE m + 1
  BY NextRemainder, ProbeAssumption, Zenon
<1>2. pub => o # 0 /\ since <= m
  BY Zenon DEF Slack
<1> HIDE DEF m, n
<1>3. pub => o # 0 /\ since + 1 <= IF n = 0 THEN RepublishEvery ELSE n
  BY <1>1, <1>2, SMT
<1> QED
  BY <1>3 DEF Slack, n

(* A round that does not publish begins.                                   *)
LEMMA EnsureSlack ==
    ASSUME NEW pub, NEW o, NEW r \in Nat, NEW since \in Nat,
           Slack(pub, o, "ensure", r, since), r % RepublishEvery # 0
    PROVE  Slack(pub, o, "publish", r, since + 1)
BY NextRemainder, ProbeAssumption DEF Slack

(* A counted report is a process and a round.                              *)
LEMMA PairOf ==
    ASSUME NEW got \in Seq(Nat \X Nat), NEW i \in DOMAIN got
    PROVE  got[i] = <<got[i][1], got[i][2]>> /\ got[i][1] \in Nat /\ got[i][2] \in Nat
<1>1. got[i] \in Nat \X Nat
  OBVIOUS
<1> QED
  BY <1>1

(* A process's rounds are in order.                                        *)
LEMMA BeforePair ==
    ASSUME NEW l \in Nat, NEW a \in Nat, NEW b \in Nat
    PROVE  <<l, a>> \in Nat \X Nat /\ (a < b => Before(<<l, a>>, <<l, b>>))
BY DEF Before

(* Positions in a list that is one longer.                                 *)
LEMMA OneLonger ==
    ASSUME NEW n \in Nat, NEW i \in 1..(n + 1)
    PROVE  /\ i = n + 1 \/ i \in 1..n
           /\ \A j \in 1..(n + 1) : i < j => i \in 1..n
OBVIOUS

(* take_report moves the report from the slot to the heartbeat.            *)
LEMMA TakenInOrder ==
    ASSUME NEW got, NEW s, NEW l, NEW r, s # NoReport,
           InOrder(got, <<>>, s, l, r)
    PROVE  InOrder(got, <<s.life, s.round>>, NoReport, l, r)
BY Zenon DEF InOrder

(* A heartbeat that is lost, or one that arrived, carries its report no    *)
(* longer.                                                                 *)
LEMMA LostInOrder ==
    ASSUME NEW got, NEW t, NEW s, NEW l, NEW r, InOrder(got, t, s, l, r)
    PROVE  InOrder(got, <<>>, s, l, r)
BY Zenon DEF InOrder

(* A heartbeat that arrives has its report counted after the others.       *)
LEMMA SentInOrder ==
    ASSUME NEW got, NEW t, NEW s, NEW l, NEW r, t # <<>>, InOrder(got, t, s, l, r)
    PROVE  InOrder(Append(got, t), <<>>, s, l, r)
<1>1. /\ l \in Nat /\ r \in Nat /\ got \in Seq(Nat \X Nat)
      /\ t = <<l, t[2]>> /\ t[2] \in 1..r
      /\ s # NoReport => s.round \in 1..r /\ t[2] < s.round
  BY Zenon DEF InOrder
<1> DEFINE g == Append(got, t)
           m == Len(got)
           n == m + 1
           x == t[2]
           y == s.round
<1>a. x \in Nat /\ r + 1 \in Nat /\ x < r + 1 /\ (y \in 1..r => y \in Nat)
  <2> HIDE DEF x, y
  <2>1. x \in 1..r /\ r \in Nat
    BY <1>1, Zenon DEF x
  <2> QED
    BY <2>1, SMT
<1>b. t \in Nat \X Nat
  BY <1>1, <1>a, BeforePair, Zenon
<1>2. /\ g \in Seq(Nat \X Nat) /\ DOMAIN g = 1..n /\ DOMAIN got = 1..m /\ m \in Nat
      /\ g[n] = t
      /\ \A i \in DOMAIN got : g[i] = got[i]
  <2>1. /\ Append(got, t) \in Seq(Nat \X Nat) /\ Len(got) \in Nat
        /\ DOMAIN Append(got, t) = 1..(Len(got) + 1) /\ DOMAIN got = 1..Len(got)
        /\ Append(got, t)[Len(got) + 1] = t
        /\ \A i \in 1..Len(got) : Append(got, t)[i] = got[i]
    <3> DEFINE P == Nat \X Nat
    <3>1. got \in Seq(P) /\ t \in P
      BY <1>1, <1>b, Zenon
    <3> HIDE DEF P
    <3>2. /\ Append(got, t) \in Seq(P) /\ Len(got) \in Nat
          /\ DOMAIN Append(got, t) = 1..(Len(got) + 1) /\ DOMAIN got = 1..Len(got)
          /\ Append(got, t)[Len(got) + 1] = t
          /\ \A i \in 1..Len(got) : Append(got, t)[i] = got[i]
      BY <3>1, SMT
    <3> QED
      BY <3>2, Zenon DEF P
  <2> QED
    BY <2>1, Zenon
<1>c. \A i \in DOMAIN g : i = n \/ i \in DOMAIN got
  BY <1>2, OneLonger, Zenon
<1>d. \A i, j \in DOMAIN g : i < j => i \in DOMAIN got
  BY <1>2, OneLonger, Zenon
<1>3. Before(t, <<l, r + 1>>) /\ (s # NoReport => Before(t, <<l, s.round>>))
  <2>1. Before(<<l, x>>, <<l, r + 1>>)
    BY <1>1, <1>a, BeforePair, Zenon
  <2>2. s # NoReport => Before(<<l, x>>, <<l, y>>)
    BY <1>1, <1>a, BeforePair, Zenon
  <2>3. t = <<l, x>>
    BY <1>1, Zenon
  <2> HIDE DEF x
  <2> QED
    BY <2>1, <2>2, <2>3, Zenon
<1> HIDE DEF g, m, n
<1>4. ASSUME NEW i \in DOMAIN g
      PROVE  Before(g[i], <<l, r + 1>>) /\ (s # NoReport => Before(g[i], <<l, s.round>>))
  BY <1>2, <1>3, <1>c, Zenon DEF InOrder
<1>5. ASSUME NEW i \in DOMAIN g, NEW j \in DOMAIN g, i < j
      PROVE  Before(g[i], g[j])
  <2>1. i \in DOMAIN got
    BY <1>5, <1>d, Zenon
  <2>2. CASE j = n
    BY <1>2, <2>1, <2>2, Zenon DEF InOrder
  <2>3. CASE j \in DOMAIN got
    BY <1>2, <1>5, <2>1, <2>3, Zenon DEF InOrder
  <2> QED
    BY <1>c, <2>2, <2>3, Zenon
<1>6. s # NoReport => s.life = l /\ s.round \in 1..r
  BY Zenon DEF InOrder
<1> QED
  BY <1>1, <1>2, <1>4, <1>5, <1>6, Zenon DEF InOrder, g

(* What was counted before this round is before the next one and before a  *)
(* restart's first.                                                        *)
LEMMA BeforeLater ==
    ASSUME NEW got \in Seq(Nat \X Nat), NEW i \in DOMAIN got, NEW l \in Nat, NEW r \in Nat,
           Before(got[i], <<l, r + 1>>)
    PROVE  Before(got[i], <<l, r + 1 + 1>>) /\ Before(got[i], <<l + 1, 0 + 1>>)
BY SMTT(30), PairOf DEF Before

(* A round replaces the report in the slot by a newer one.                 *)
LEMMA ProbedInOrder ==
    ASSUME NEW got, NEW t, NEW s, NEW l, NEW r, NEW results, InOrder(got, t, s, l, r)
    PROVE  InOrder(got, t, [life |-> l, round |-> r + 1, results |-> results], l, r + 1)
<1> DEFINE u == [life |-> l, round |-> r + 1, results |-> results]
<1>1. u.life = l /\ u.round = r + 1
  OBVIOUS
<1>a. /\ l \in Nat /\ r \in Nat /\ got \in Seq(Nat \X Nat)
      /\ t # <<>> => t = <<l, t[2]>> /\ t[2] \in 1..r
  BY Zenon DEF InOrder
<1>b. /\ r + 1 \in Nat /\ r + 1 \in 1..(r + 1)
      /\ \A x \in 1..r : x \in 1..(r + 1) /\ x < r + 1
  <2>1. r \in Nat
    BY <1>a
  <2> QED
    BY <2>1, SMT
<1>2. /\ l \in Nat /\ r \in Nat /\ got \in Seq(Nat \X Nat) /\ r + 1 \in Nat /\ r + 1 \in 1..(r + 1)
      /\ t # <<>> => t = <<l, t[2]>> /\ t[2] \in 1..(r + 1) /\ t[2] < r + 1
  BY <1>a, <1>b, Zenon
<1> HIDE DEF u
<1>3. \A i \in DOMAIN got : Before(got[i], <<l, r + 1>>) /\ (t # <<>> => Before(got[i], t))
  BY Zenon DEF InOrder
<1>4. \A i \in DOMAIN got : Before(got[i], <<l, r + 1 + 1>>)
  BY <1>2, <1>3, BeforeLater, Zenon
<1>5. \A i, j \in DOMAIN got : i < j => Before(got[i], got[j])
  BY Zenon DEF InOrder
<1>6. InOrder(got, t, u, l, r + 1)
  BY <1>1, <1>2, <1>3, <1>4, <1>5, Zenon DEF InOrder
<1> QED
  BY <1>6, Zenon DEF u

(* A restart loses the slot and begins with round one of a new process.    *)
LEMMA RestartedInOrder ==
    ASSUME NEW got, NEW t, NEW s, NEW l, NEW r, InOrder(got, t, s, l, r)
    PROVE  InOrder(got, <<>>, NoReport, l + 1, 0)
<1>a. l \in Nat /\ r \in Nat /\ got \in Seq(Nat \X Nat)
  BY Zenon DEF InOrder
<1>1. l \in Nat /\ r \in Nat /\ got \in Seq(Nat \X Nat) /\ l + 1 \in Nat /\ 0 \in Nat
  BY <1>a, SMT
<1>2. \A i \in DOMAIN got : Before(got[i], <<l, r + 1>>)
  BY Zenon DEF InOrder
<1>3. \A i \in DOMAIN got : Before(got[i], <<l + 1, 0 + 1>>)
  BY <1>1, <1>2, BeforeLater, Zenon
<1>4. \A i, j \in DOMAIN got : i < j => Before(got[i], got[j])
  BY Zenon DEF InOrder
<1> QED
  BY <1>1, <1>3, <1>4, Zenon DEF InOrder

(* What one round makes of the streaks st: the new streaks, the outcomes   *)
(* and the statuses that are reported.                                     *)
Observes(keys, r, st, st2, now2, results) ==
    /\ DOMAIN st2 = keys /\ DOMAIN now2 = keys /\ DOMAIN results = keys
    /\ \A k \in keys :
          /\ st2[k].seen = r
          /\ st2[k].streak = IF now2[k] THEN 0
                             ELSE IF k \in DOMAIN st /\ st[k].seen + 1 = r THEN st[k].streak + 1
                             ELSE 1
          /\ results[k].status = hysteretic_status(now2[k], st2[k].streak)

(* The status of an outcome, by the streak it leads to.                    *)
LEMMA StatusOf ==
    ASSUME NEW ok, NEW x \in Nat
    PROVE  /\ ok => hysteretic_status(ok, 0) = "healthy"
           /\ ~ok => hysteretic_status(ok, 1) = "degraded"
           /\ ~ok /\ x = 0 => hysteretic_status(ok, x + 1) = "degraded"
           /\ ~ok /\ x # 0 => hysteretic_status(ok, x + 1) = "failed"
           /\ x + 1 \in Nat /\ x + 1 # 0 /\ 0 \in Nat /\ 1 \in Nat /\ 1 # 0
BY DEF hysteretic_status

(* observe and hysteretic_status keep streaks and statuses in step with    *)
(* the outcomes of the last two rounds.                                    *)
LEMMA ObservedFit ==
    ASSUME NEW keys, NEW r \in Nat, NEW st, NEW ok, NEW st2, NEW now2, NEW results,
           StreaksFit(st, ok, r), Observes(keys, r, st, st2, now2, results)
    PROVE  StreaksFit(st2, now2, r + 1) /\ StatusesFit(results, now2, ok)
<1>1. ASSUME NEW k \in keys
      PROVE  /\ st2[k].seen + 1 = r + 1 /\ st2[k].streak \in Nat
             /\ st2[k].streak = 0 <=> now2[k]
             /\ results[k].status = IF now2[k] THEN "healthy"
                   ELSE IF k \in DOMAIN ok /\ ~ok[k] THEN "failed" ELSE "degraded"
  <2>1. /\ DOMAIN st = DOMAIN ok
        /\ k \in DOMAIN st => /\ st[k].seen + 1 = r /\ st[k].streak \in Nat
                              /\ st[k].streak = 0 <=> ok[k]
    BY Zenon DEF StreaksFit
  <2>2. /\ st2[k].seen = r
        /\ st2[k].streak = IF now2[k] THEN 0
                           ELSE IF k \in DOMAIN st /\ st[k].seen + 1 = r THEN st[k].streak + 1
                           ELSE 1
        /\ results[k].status = hysteretic_status(now2[k], st2[k].streak)
    BY Zenon DEF Observes
  <2>a. st2[k].seen + 1 = r + 1 /\ 0 \in Nat
    BY <2>2, Zenon
  <2>3. CASE now2[k]
    <3>1. hysteretic_status(now2[k], 0) = "healthy"
      BY <2>3, <2>a, StatusOf, Zenon
    <3>2. st2[k].streak = 0
      BY <2>2, <2>3, Zenon
    <3> QED
      BY <2>2, <2>3, <2>a, <3>1, <3>2, Zenon
  <2>4. CASE ~now2[k] /\ k \in DOMAIN st
    <3>1. st2[k].streak = st[k].streak + 1 /\ st[k].streak \in Nat
      BY <2>1, <2>2, <2>4, Zenon
    <3> DEFINE x == st[k].streak
    <3>x. x \in Nat
      BY <3>1, Zenon
    <3> HIDE DEF x
    <3>y. /\ x = 0 => hysteretic_status(now2[k], x + 1) = "degraded"
          /\ x # 0 => hysteretic_status(now2[k], x + 1) = "failed"
          /\ x + 1 \in Nat /\ x + 1 # 0
      BY <2>4, <3>x, SMTT(30) DEF hysteretic_status
    <3>2. /\ st[k].streak = 0 => hysteretic_status(now2[k], st[k].streak + 1) = "degraded"
          /\ st[k].streak # 0 => hysteretic_status(now2[k], st[k].streak + 1) = "failed"
          /\ st[k].streak + 1 \in Nat /\ st[k].streak + 1 # 0
      BY <3>y, Zenon DEF x
    <3>3. /\ st2[k].streak \in Nat /\ st2[k].streak # 0
          /\ st[k].streak = 0 => results[k].status = "degraded"
          /\ st[k].streak # 0 => results[k].status = "failed"
      BY <2>2, <3>1, <3>2, Zenon
    <3>4. st[k].streak = 0 <=> ok[k]
      BY <2>1, <2>4, Zenon
    <3> QED
      BY <2>1, <2>4, <2>a, <3>3, <3>4, Zenon
  <2>5. CASE ~now2[k] /\ k \notin DOMAIN st
    <3>1. hysteretic_status(now2[k], 1) = "degraded" /\ 1 \in Nat /\ 1 # 0
      BY <2>5, <2>a, StatusOf, Zenon
    <3>2. st2[k].streak = 1 /\ k \notin DOMAIN ok
      BY <2>1, <2>2, <2>5, Zenon
    <3> QED
      BY <2>2, <2>5, <2>a, <3>1, <3>2, Zenon
  <2> QED
    BY <2>3, <2>4, <2>5, Zenon
<1> QED
  BY <1>1, Zenon DEF StreaksFit, StatusesFit, Observes

(* ProbeInv holds when the agent starts.                                   *)
LEMMA InitProbe == ProbeInit => ProbeInv
<1> SUFFICES ASSUME ProbeInit PROVE ProbeInv
  OBVIOUS
<1>1. /\ history = [now |-> history.now, last |-> history.last, since |-> history.since]
      /\ history.since \in Nat /\ history.now = Nothing
  BY DEF ProbeInit, NoHistory
<1>2. InOrder(received, taken, slot, life, round)
  BY DEF ProbeInit, InOrder
<1>3. StreaksFit(streaks, history.now, round)
  BY <1>1 DEF ProbeInit, StreaksFit, Nothing
<1>4. Slack(published, own, ppc, round, history.since)
  BY DEF ProbeInit, Slack
<1> QED
  BY <1>1, <1>2, <1>3, <1>4, Zenon DEF ProbeInit, ProbeInv

(* Every step of the prober, of the heartbeat and of the control plane     *)
(* keeps ProbeInv, restarts and lost rows included.                        *)
LEMMA NextKeepsProbe == ProbeInv /\ [ProbeNext]_probe_vars => ProbeInv'
<1> SUFFICES ASSUME ProbeInv, [ProbeNext]_probe_vars PROVE ProbeInv'
  OBVIOUS
<1>i. /\ history = [now |-> history.now, last |-> history.last, since |-> history.since]
      /\ history.since \in Nat
      /\ InOrder(received, taken, slot, life, round)
      /\ StreaksFit(streaks, history.now, round)
      /\ slot # NoReport => StatusesFit(slot.results, history.now, history.last)
      /\ Slack(published, own, ppc, round, history.since)
  BY Zenon DEF ProbeInv
<1>r. round \in Nat /\ life \in Nat
  BY <1>i, Zenon DEF InOrder
<1>1. CASE Ensure
  <2>1. /\ ppc = "ensure" /\ ppc' = "publish"
        /\ own' \in IF own = 0 THEN {0, gen} ELSE {own}
        /\ published' = IF round % RepublishEvery = 0 THEN FALSE ELSE published
        /\ history' = [history EXCEPT !.since = @ + 1]
        /\ UNCHANGED <<round, streaks, slot, taken, received, life>>
    BY <1>1 DEF Ensure
  <2>2. /\ history' = [now |-> history'.now, last |-> history'.last, since |-> history'.since]
        /\ history'.now = history.now /\ history'.last = history.last
        /\ history'.since = history.since + 1 /\ history'.since \in Nat
    BY <1>i, <2>1
  <2>3. Slack(published', own', ppc', round', history'.since)
    <3>1. CASE ~published'
      BY <3>1, Zenon DEF Slack
    <3>2. CASE published'
      <4>1. round % RepublishEvery # 0 /\ published
        BY <2>1, <3>2, Zenon
      <4>2. own # 0
        BY <1>i, <4>1, Zenon DEF Slack
      <4>3. own' = own
        BY <2>1, <4>2, Zenon
      <4>4. Slack(published, own, "publish", round, history.since + 1)
        BY <1>i, <1>r, <2>1, <4>1, EnsureSlack, Zenon
      <4> QED
        BY <2>1, <2>2, <3>2, <4>1, <4>3, <4>4, Zenon DEF Slack
    <3> QED
      BY <3>1, <3>2, Zenon
  <2> QED
    BY <1>i, <2>1, <2>2, <2>3, Zenon DEF ProbeInv
<1>2. CASE PublishLinks
  <2>1. /\ ppc = "publish" /\ ppc' = "fetch"
        /\ UNCHANGED <<own, round, streaks, slot, taken, received, life>>
        /\ \/ UNCHANGED <<published, history>>
           \/ own # 0 /\ history' = [history EXCEPT !.since = 0]
           \/ UNCHANGED <<published, history>>
    BY <1>2 DEF PublishLinks, Written
  <2>2. /\ history' = [now |-> history'.now, last |-> history'.last, since |-> history'.since]
        /\ history'.now = history.now /\ history'.last = history.last
        /\ history'.since \in Nat
        /\ \/ published' = published /\ history'.since = history.since
           \/ own # 0 /\ history'.since = 0
    BY <1>i, <2>1
  <2>3. Slack(published', own', ppc', round', history'.since)
    <3>1. CASE published' = published /\ history'.since = history.since
      BY <1>i, <2>1, <3>1 DEF Slack
    <3>2. CASE own # 0 /\ history'.since = 0
      BY <1>r, <2>1, <3>2, NextRemainder, ProbeAssumption DEF Slack
    <3> QED
      BY <2>2, <3>1, <3>2, Zenon
  <2> QED
    BY <1>i, <2>1, <2>2, <2>3, Zenon DEF ProbeInv
<1>3. CASE FetchTargets
  <2>1. /\ ppc = "fetch" /\ ppc' = "probe"
        /\ UNCHANGED <<own, published, round, streaks, slot, taken, received, life, history>>
    BY <1>3, Zenon DEF FetchTargets
  <2>2. Slack(published', own', ppc', round', history'.since)
    BY <1>i, <2>1 DEF Slack
  <2> QED
    BY <1>i, <2>1, <2>2, Zenon DEF ProbeInv
<1>4. CASE Probe
  <2>p. PICK met \in [Observed(targets) -> Outcomes] :
         LET keys == {Key(t) : t \in Observed(targets)}
             at(k) == probe_endpoint(met[CHOOSE t \in Observed(targets) : Key(t) = k])
             streak(k) == observe(k, at(k).ok)
         IN  /\ streaks' = [k \in keys |-> [streak |-> streak(k), seen |-> round]]
             /\ slot' = [life |-> life, round |-> round + 1,
                         results |-> [k \in keys |->
                            [probe |-> at(k), status |-> hysteretic_status(at(k).ok, streak(k))]]]
             /\ history' = [history EXCEPT !.now = [k \in keys |-> at(k).ok], !.last = history.now]
    BY <1>4, Zenon DEF Probe
  <2> DEFINE keys == {Key(t) : t \in Observed(targets)}
             at(k) == probe_endpoint(met[CHOOSE t \in Observed(targets) : Key(t) = k])
             streak(k) == observe(k, at(k).ok)
             found == [k \in keys |->
                            [probe |-> at(k), status |-> hysteretic_status(at(k).ok, streak(k))]]
  <2>1. /\ streaks' = [k \in keys |-> [streak |-> streak(k), seen |-> round]]
        /\ slot' = [life |-> life, round |-> round + 1, results |-> found]
        /\ history' = [history EXCEPT !.now = [k \in keys |-> at(k).ok], !.last = history.now]
    BY <2>p
  <2>2. /\ ppc = "probe" /\ ppc' = "ensure" /\ round' = round + 1
        /\ UNCHANGED <<own, published, taken, received, life>>
    BY <1>4, Zenon DEF Probe
  <2> HIDE DEF keys, at
  <2>3. /\ history' = [now |-> history'.now, last |-> history'.last, since |-> history'.since]
        /\ history'.now = [k \in keys |-> at(k).ok] /\ history'.last = history.now
        /\ history'.since = history.since
    BY <1>i, <2>1, Zenon
  <2>4. \A k \in keys :
           /\ streaks'[k].seen = round
           /\ streaks'[k].streak = IF history'.now[k] THEN 0
                 ELSE IF k \in DOMAIN streaks /\ streaks[k].seen + 1 = round THEN streaks[k].streak + 1
                 ELSE 1
           /\ found[k].status = hysteretic_status(history'.now[k], streaks'[k].streak)
    <3> TAKE k \in keys
    <3>1. streaks'[k] = [streak |-> streak(k), seen |-> round] /\ history'.now[k] = at(k).ok
      BY <2>1, <2>3, Zenon
    <3>2. found[k] = [probe |-> at(k), status |-> hysteretic_status(at(k).ok, streak(k))]
      BY Zenon
    <3> HIDE DEF found, streak
    <3>a. /\ [streak |-> streak(k), seen |-> round].streak = streak(k)
          /\ [streak |-> streak(k), seen |-> round].seen = round
      OBVIOUS
    <3>b. \A a, b : [probe |-> a, status |-> b].status = b
      OBVIOUS
    <3>3. streaks'[k].streak = streak(k) /\ streaks'[k].seen = round
      BY <3>1, <3>a, Zenon
    <3>4. found[k].status = hysteretic_status(at(k).ok, streak(k))
      BY <3>2, <3>b, Zenon
    <3> QED
      BY <3>1, <3>3, <3>4, Zenon DEF observe, streak
  <2>5. DOMAIN streaks' = keys /\ DOMAIN history'.now = keys /\ DOMAIN found = keys
    BY <2>1, <2>3, Zenon
  <2> HIDE DEF found
  <2>6. StreaksFit(streaks', history'.now, round + 1) /\ StatusesFit(found, history'.now, history.now)
    <3>1. Observes(keys, round, streaks, streaks', history'.now, found)
      BY <2>4, <2>5, Zenon DEF Observes
    <3> QED
      BY <1>i, <1>r, <3>1, ObservedFit, Zenon
  <2>7. slot'.results = found
    BY <2>1
  <2>8. InOrder(received, taken, slot', life, round + 1)
    BY <1>i, <2>1, ProbedInOrder, Zenon
  <2>9. Slack(published, own, "ensure", round + 1, history.since)
    BY <1>i, <1>r, <2>2, ProbeSlack, Zenon
  <2> QED
    BY <1>i, <2>2, <2>3, <2>6, <2>7, <2>8, <2>9, Zenon DEF ProbeInv
<1>5. CASE take_report
  <2>1. /\ taken = <<>> /\ slot # NoReport
        /\ taken' = <<slot.life, slot.round>> /\ slot' = NoReport
        /\ UNCHANGED <<ppc, own, published, round, streaks, received, life, history>>
    BY <1>5, Zenon DEF take_report, prober
  <2>2. InOrder(received, taken', slot', life, round)
    BY <1>i, <2>1, TakenInOrder, Zenon
  <2> QED
    BY <1>i, <2>1, <2>2, Zenon DEF ProbeInv
<1>6. CASE heartbeat
  <2>1. /\ taken # <<>> /\ taken' = <<>>
        /\ received' = received \/ received' = Append(received, taken)
        /\ UNCHANGED <<ppc, own, published, round, streaks, slot, life, history>>
    BY <1>6, Zenon DEF heartbeat, prober
  <2>2. InOrder(received', taken', slot, life, round)
    BY <1>i, <2>1, LostInOrder, SentInOrder, Zenon
  <2> QED
    BY <1>i, <2>1, <2>2, Zenon DEF ProbeInv
<1>7. CASE AgentRestart
  <2>1. /\ life' = life + 1 /\ published' = FALSE /\ round' = 0 /\ streaks' = Nothing
        /\ slot' = NoReport /\ taken' = <<>> /\ history' = NoHistory /\ received' = received
    BY <1>7, Zenon DEF AgentRestart
  <2>2. InOrder(received', taken', slot', life', round')
    BY <1>i, <2>1, RestartedInOrder, Zenon
  <2>3. /\ history' = [now |-> history'.now, last |-> history'.last, since |-> history'.since]
        /\ history'.since \in Nat /\ history'.now = Nothing
    BY <2>1 DEF NoHistory
  <2>4. StreaksFit(streaks', history'.now, round')
    BY <2>1, <2>3 DEF StreaksFit, Nothing
  <2>5. Slack(published', own', ppc', round', history'.since)
    BY <2>1, Zenon DEF Slack
  <2> QED
    BY <2>1, <2>2, <2>3, <2>4, <2>5, Zenon DEF ProbeInv
<1>8. CASE DropRow \/ ChangeLinks \/ UNCHANGED probe_vars
  <2>1. UNCHANGED <<ppc, own, published, round, streaks, slot, taken, received, life, history>>
    BY <1>8, Zenon DEF DropRow, ChangeLinks, probe_vars, prober
  <2> QED
    BY <1>i, <2>1, Zenon DEF ProbeInv
<1> QED
  BY <1>1, <1>2, <1>3, <1>4, <1>5, <1>6, <1>7, <1>8, Zenon DEF ProbeNext, Prober

(* ProbeInv implies what the reports promise.                              *)
LEMMA ProbeInvFaithful == ProbeInv => ReportsAreFaithful
<1> SUFFICES ASSUME ProbeInv PROVE ReportsAreFaithful
  OBVIOUS
<1>1. CountedOnce
  BY Zenon DEF ProbeInv, InOrder, CountedOnce, Before
<1>2. FailedMeansTwice
  BY Zenon DEF ProbeInv, StatusesFit, FailedMeansTwice
<1>3. RepublishedInTime
  <2>1. round \in Nat /\ history.since \in Nat /\ Slack(published, own, ppc, round, history.since)
    BY Zenon DEF ProbeInv, InOrder
  <2> DEFINE m == round % RepublishEvery
  <2>2. m \in Nat /\ m < RepublishEvery /\ RepublishEvery \in Nat \ {0}
    BY <2>1, NextRemainder, ProbeAssumption
  <2>3. published => /\ own # 0
                     /\ \/ history.since <= m
                        \/ history.since + 1 <= IF m = 0 THEN RepublishEvery ELSE m
    BY <2>1, Zenon DEF Slack
  <2> HIDE DEF m
  <2>4. published => own # 0 /\ history.since < RepublishEvery
    BY <2>1, <2>2, <2>3, SMT
  <2> QED
    BY <2>4, Zenon DEF RepublishedInTime
<1> QED
  BY <1>1, <1>2, <1>3, Zenon DEF ReportsAreFaithful

(* ReportsAreFaithful, for every set of peers, every outcome and every     *)
(* period RepublishEvery: no round is counted twice or out of order,       *)
(* failed means two rounds in a row, and a published row is never older    *)
(* than RepublishEvery rounds.                                             *)
THEOREM ProbeReportsAreFaithful == ProbeSpec => []ReportsAreFaithful
BY InitProbe, NextKeepsProbe, ProbeInvFaithful, PTL DEF ProbeSpec
=============================================================================
