----------------------------- MODULE SerialStore -----------------------------
(***************************************************************************)
(* What the state lock promises: users.json behaves as if commands ran one *)
(* after the other, each changing the contents the one before it left, and *)
(* a command that fails or is killed either took effect or left no trace.  *)
(***************************************************************************)
EXTENDS UserStore

VARIABLE store

Init == store = NoUsers

Next == \E cmd \in Commands : store' \in Effects(cmd, store)

Spec == Init /\ [][Next]_store
==============================================================================
