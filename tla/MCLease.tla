------------------------------- MODULE MCLease -------------------------------
(***************************************************************************)
(* The lease pool on one slot, or switched off, for TLC.                   *)
(***************************************************************************)
EXTENDS LeasePool

MCSlots == {0}
MCPools == {{}, {0}}

=============================================================================
