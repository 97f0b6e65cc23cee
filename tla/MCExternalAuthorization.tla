----------------------- MODULE MCExternalAuthorization -----------------------
(* Small instances of the reconciler for external authorizations.          *)
EXTENDS ExternalAuthorization

(* Credentials without an end appear by resuming revoked ones, and a bad   *)
(* item is parsed as one that is not there.                                *)
TimedContents == [Creds -> Status \ {"on", "none"}]
==============================================================================
