---------------------------- MODULE IssueGroups ----------------------------
(***************************************************************************)
(* What the issue list promises, one canonical check (an issue group) at a *)
(* time: whether some finding of the group is open, and the lifecycle row  *)
(* laid over it (db/issue_states.rs).  Findings open and close with what   *)
(* runs observe; the lifecycle changes with the user's decisions, with a   *)
(* verification, and when a group marked as gone is observed again.        *)
(***************************************************************************)
CONSTANT Groups

VARIABLES open,      \* groups with an open finding
          lifecycle  \* the lifecycle row of every group

\* "claimed" and "verified" are the status `verified` by user_claim and by
\* local_scan; a group with no row is "new".
Lifecycles ==
  {"new", "snoozed", "ignored", "blocked", "claimed", "verified", "regressed"}
Decisions == {"new", "snoozed", "ignored", "blocked", "claimed"}

\* IssueStatus::is_inactive_for_scoring
Inactive == {"snoozed", "ignored", "blocked", "claimed", "verified"}

\* Mutant: a user's claim is treated as a proof of absence.
ClaimProves(l) ==
  CASE l \in {"verified", "claimed"} -> "regressed"
    [] l = "ignored" -> "new"
    [] OTHER -> l

\* reconcile_reobserved_lifecycle, for one group that was observed again.
Reobserve(l) ==
  CASE l = "verified" -> "regressed"
    [] l \in {"claimed", "ignored"} -> "new"
    [] OTHER -> l

Reobserved(lc, seen) == [g \in Groups |-> IF g \in seen THEN Reobserve(lc[g]) ELSE lc[g]]

TypeOK == open \subseteq Groups /\ lifecycle \in [Groups -> Lifecycles]

Init == open = {} /\ lifecycle = [g \in Groups |-> "new"]

\* A run reports the groups it saw and closes the last finding of others.
Commit(seen, gone) ==
  /\ open' = (open \cup seen) \ gone
  /\ lifecycle' = Reobserved(lifecycle, seen)

Decide(g, l) ==
  /\ lifecycle' = [lifecycle EXCEPT ![g] = l]
  /\ UNCHANGED open

Next ==
  \/ \E seen, gone \in SUBSET Groups : seen \cap gone = {} /\ Commit(seen, gone)
  \/ \E g \in Groups, l \in Decisions \cup {"verified"} : Decide(g, l)

Spec == Init /\ [][Next]_<<open, lifecycle>>
=============================================================================
