------------------------------ MODULE UserStore ------------------------------
(***************************************************************************)
(* users.json and what one command makes of it.  A store is a function     *)
(* from user ids to records; a revision that carries a whole store         *)
(* replaces it, every other user command changes one record.               *)
(***************************************************************************)
EXTENDS Integers

CONSTANTS
    Creds,              \* user ids
    Commands            \* the commands operators and the agent may run

(* A user record.  It is active while `enabled` and before `until`; Never  *)
(* is after every clock value.  Key 1 stands for the credentials of        *)
(* creation, key 2 for rotated ones, and so on in turn.                    *)
Never == 2
UserRec == [present : BOOLEAN, enabled : BOOLEAN, key : 0 .. 2, until : 0 .. Never, token : 0 .. 1]
Store == [Creds -> UserRec]
NoUser == [present |-> FALSE, enabled |-> FALSE, key |-> 0, until |-> 0, token |-> 0]
NewUser == [present |-> TRUE, enabled |-> TRUE, key |-> 1, until |-> Never, token |-> 0]
NoUsers == [c \in Creds |-> NoUser]

is_active(u, t) == u.present /\ u.enabled /\ t < u.until

(* The commands: on one user, on the exit section of deployment.toml, a    *)
(* revision that is a store, and a revision of static settings.            *)
UserOps == {"create", "remove", "enable", "disable", "rotate", "token", "expiry", "sync"}
CommandSpace ==
    [kind : {"user"}, op : UserOps, c : Creds, until : 0 .. Never, on : BOOLEAN]
    \cup [kind : {"egress"}, eg : Nat]
    \cup [kind : {"snapshot"}, rev : Nat, users : Store]
    \cup [kind : {"static"}, rev : Nat, ep : Nat]

ASSUME CommandsAssumption == Commands \subseteq CommandSpace

-----------------------------------------------------------------------------
(* What each user command makes of record u: v.  A command for which there *)
(* is no such v refuses (find_user_mut, or an id that is taken).           *)
cmd_user_create(u, v) == ~u.present /\ v = NewUser
cmd_user_remove(u, v) == u.present /\ v = NoUser
cmd_user_set_enabled(u, v, enabled) == u.present /\ v = [u EXCEPT !.enabled = enabled]
cmd_user_set_expiry(u, v, until) == u.present /\ v = [u EXCEPT !.until = until]
cmd_user_rotate_token(u, v) == u.present /\ v = [u EXCEPT !.token = 1 - @]
rotate_and_apply(u, v) == u.present /\ v = [u EXCEPT !.key = IF @ = 1 THEN 2 ELSE 1]

(* One record of a lease pool or of an external snapshot: if it is listed, *)
(* the list's credentials and expiry replace what is there, and only the   *)
(* subscription token of a present user is kept; if not, it is removed.    *)
reconcile(u, v, listed, until) ==
    v = IF listed THEN [NewUser EXCEPT !.until = until, !.token = u.token] ELSE NoUser

Mutates(cmd, u, v) ==
    \/ cmd.op = "create" /\ cmd_user_create(u, v)
    \/ cmd.op = "remove" /\ cmd_user_remove(u, v)
    \/ cmd.op = "enable" /\ cmd_user_set_enabled(u, v, TRUE)
    \/ cmd.op = "disable" /\ cmd_user_set_enabled(u, v, FALSE)
    \/ cmd.op = "expiry" /\ cmd_user_set_expiry(u, v, cmd.until)
    \/ cmd.op = "token" /\ cmd_user_rotate_token(u, v)
    \/ cmd.op = "rotate" /\ rotate_and_apply(u, v)
    \/ cmd.op = "sync" /\ reconcile(u, v, cmd.on, cmd.until)

(* The stores a command may leave in place of s.                           *)
Effects(cmd, s) ==
    {t \in Store :
        \/ cmd.kind = "snapshot" /\ t = cmd.users
        \/ /\ cmd.kind = "user"
           /\ t = [s EXCEPT ![cmd.c] = t[cmd.c]]
           /\ Mutates(cmd, s[cmd.c], t[cmd.c])}
==============================================================================
