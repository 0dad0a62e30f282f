--------------------------- MODULE GroupRegister ---------------------------
(***************************************************************************)
(* What the connected service promises of the lifecycle of a group, to an  *)
(* installation that decides about it while others change it: a register   *)
(* of revisions.  A decision takes effect in one step, once, and only on   *)
(* the revision its user had been shown; a newer one of the installation   *)
(* is never followed by an older one.                                      *)
(***************************************************************************)
EXTENDS Naturals

CONSTANTS Groups, Keys

VARIABLES open,      \* the site takes changes
          revision,  \* of every group
          taken,     \* decisions taken by the installation, numbered in order
          seen,      \* the revision that the user was shown at every decision
          effect,    \* the revision that every decision made, 0 for none
          last       \* the last decision that took effect, per group

Init ==
  /\ open = FALSE
  /\ revision = [g \in Groups |-> 0]
  /\ taken = 0
  /\ seen = [k \in Keys |-> 0] /\ effect = [k \in Keys |-> 0]
  /\ last = [g \in Groups |-> 0]

\* The bootstrap makes the first revision of every group.
Open ==
  /\ ~open /\ open' = TRUE
  /\ revision' = [g \in Groups |-> 1]
  /\ UNCHANGED <<taken, seen, effect, last>>

\* Somebody else changes a group.
Change(g) ==
  /\ open
  /\ revision' = [revision EXCEPT ![g] = @ + 1]
  /\ UNCHANGED <<open, taken, seen, effect, last>>

\* What the user is shown may be old, and is never ahead.
Decide(g, shown) ==
  /\ taken + 1 \in Keys /\ shown <= revision[g]
  /\ taken' = taken + 1
  /\ seen' = [seen EXCEPT ![taken + 1] = shown]
  /\ UNCHANGED <<open, revision, effect, last>>

TakeEffect(g, k) ==
  /\ open
  /\ k <= taken /\ effect[k] = 0 /\ last[g] < k
  /\ seen[k] = revision[g]
  /\ revision' = [revision EXCEPT ![g] = @ + 1]
  /\ effect' = [effect EXCEPT ![k] = revision[g] + 1]
  /\ last' = [last EXCEPT ![g] = k]
  /\ UNCHANGED <<open, taken, seen>>

Next ==
  \/ Open
  \/ \E g \in Groups :
       \/ Change(g)
       \/ \E shown \in 0 .. revision[g] : Decide(g, shown)
       \/ \E k \in Keys : TakeEffect(g, k)

Spec == Init /\ [][Next]_<<open, revision, taken, seen, effect, last>>

\* Nothing comes between what the user was shown and what the decision made of it.
OnWhatWasSeen == \A k \in Keys : effect[k] # 0 => effect[k] = seen[k] + 1
=============================================================================
