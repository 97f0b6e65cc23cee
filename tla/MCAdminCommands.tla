--------------------------- MODULE MCAdminCommands ---------------------------
(* Small instances of AdminCommands: one user, two processes.              *)
EXTENDS AdminCommands, TLC

CONSTANT c1

Ops(c, ops) == [kind : {"user"}, op : ops, c : {c}, until : {0}, on : {TRUE}]
Shorten(c) == {[kind |-> "user", op |-> "expiry", c |-> c, until |-> 1, on |-> TRUE]}
Sync(c) == [kind : {"user"}, op : {"sync"}, c : {c}, until : {1}, on : BOOLEAN]

UserCommands == Ops(c1, {"create", "remove", "disable", "enable", "rotate", "token", "expiry"})
                \cup Shorten(c1) \cup Sync(c1)

EgressCommands == [kind : {"egress"}, eg : {0, 1}]
NewExit == [kind |-> "egress", eg |-> 1]

LocalCommands == UserCommands \cup {NewExit}

(* Revision r carries endpoints r, or a store in which c1 has key r.       *)
StaticCommands == {[kind |-> "static", rev |-> r, ep |-> r] : r \in 1 .. 2}
Keyed(k) == [c \in Creds |-> [NewUser EXCEPT !.key = k]]
SnapshotCommands == {[kind |-> "snapshot", rev |-> r, users |-> Keyed(r)] : r \in 1 .. 2}
RevisionCommands == StaticCommands \cup SnapshotCommands

AnyProcess == Permutations(Procs)
==============================================================================
