------------------------------ MODULE MCEvents -------------------------------
(***************************************************************************)
(* The agent's two tasks on the channels of jobs and leases, for TLC: the  *)
(* authorizations' is handled like the leases'.                            *)
(***************************************************************************)
EXTENDS EventSchedule

MCOrder == <<"jobs", "leases">>

=============================================================================
