--------------------------- MODULE MCFixAttempts ---------------------------
(* One issue of every kind; a Code rule that fails in two files.            *)
EXTENDS FixAttempts, TLC

EveryKind == {"issue" :> k : k \in {"code", "web", "remote", "poll", "remote_poll"}}
=============================================================================
