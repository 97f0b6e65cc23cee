--------------------------- MODULE MCTransactions ---------------------------
(***************************************************************************)
(* Two components whose work a crash can interrupt, for TLC: the agent's   *)
(* job pipeline and the vpn-admin commands that replace key material.      *)
(* They share no state, so a behaviour is a behaviour of one of them, and  *)
(* part says of which.                                                     *)
(*                                                                         *)
(* The job pipeline comes in two instances.  The one of the configuration  *)
(* has one job and every fault.  Calm has two jobs and a lossy network,    *)
(* but neither crashes nor failing writes: the properties below are        *)
(* promised on those terms only.                                           *)
(***************************************************************************)
EXTENDS JobPipeline, KeyMaterial

VARIABLE part

Calm == INSTANCE JobPipeline WITH
    Jobs <- {"j1", "j2"}, Faults <- {"network"}, RUN_ATTEMPTS <- 1, MaxCrashes <- 0, MaxDays <- 0

MCInit ==
    /\ KeyInit
    /\ \/ part = "keys" /\ Init
       \/ part = "jobs" /\ file # Nothing /\ Init
       \/ part = "calm" /\ file # Nothing /\ Calm!Init

MCNext ==
    /\ UNCHANGED part
    /\ \/ part = "keys" /\ KeyNext /\ UNCHANGED vars
       \/ part = "jobs" /\ Next /\ UNCHANGED key_vars
       \/ part = "calm" /\ Calm!Next /\ UNCHANGED key_vars

MCSpec == MCInit /\ [][MCNext]_<<part, vars, key_vars>>

(* However often a job is handed out again, it changes the node once: the  *)
(* recorded completion is replayed instead (op_dedup.rs).                  *)
CalmAppliedOnce == part = "calm" => Calm!AppliedOnce

(* Every report leaves the queue, provided that the delivery task is       *)
(* scheduled: a delivery that keeps failing is given up after              *)
(* REPORT_ATTEMPTS (run of report_queue.rs).                               *)
CalmRetriesAreFinite == part = "calm" => Calm!RetriesAreFinite
==============================================================================
