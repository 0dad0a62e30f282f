---------------------------- MODULE MCWorkItems ----------------------------
(* A small environment: two pages, a plain Web check that shares its group  *)
(* with a Code rule, a member of a check family, a session check, a poll.   *)
EXTENDS WorkItems, TLC

TwoPages == {"home", "about"}
AllProducers == {"title", "rule", "axe.rule", "dup", "psi"}
Engines == ("title" :> "web") @@ ("axe.rule" :> "web") @@ ("rule" :> "code")
             @@ ("dup" :> "site") @@ ("psi" :> "poll")
Canonical == ("title" :> "a") @@ ("rule" :> "a") @@ ("psi" :> "a")
               @@ ("axe.rule" :> "m") @@ ("dup" :> "m")
UserDecides == ("a" :> {"ignored", "claimed"}) @@ ("m" :> {})
Keys == ("a" :> "a") @@ ("m" :> "fam")
=============================================================================
