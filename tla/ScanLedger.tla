----------------------------- MODULE ScanLedger -----------------------------
(***************************************************************************)
(* What the scan record promises to its readers, by idempotency key        *)
(* (docs/engineering/unified-scan-architecture.md, "Idempotency" and       *)
(* "Cancellation and progress"): one key stands for one plan, evidence     *)
(* only accumulates while the entry is open, and the entry settles once,   *)
(* with an outcome the evidence supports.                                  *)
(***************************************************************************)
CONSTANTS Keys, Components, Outcomes

VARIABLE entry

Absent == [outcome |-> "absent"]
Amounts == {"none", "some", "all"}
AtLeast(x, y) == x = y \/ y = "none" \/ x = "all"

Init == entry = [k \in Keys |-> Absent]

Admit(k, plan) ==
  /\ entry[k] = Absent
  /\ entry' = [entry EXCEPT ![k] =
                 [outcome |-> "open", plan |-> plan,
                  evidence |-> [c \in Components |-> "none"]]]

Gather(k, ev) ==
  /\ entry[k].outcome = "open"
  /\ \A c \in Components :
       /\ AtLeast(ev[c], entry[k].evidence[c])
       /\ ev[c] # "none" => entry[k].plan[c] = "planned"
  /\ entry' = [entry EXCEPT ![k].evidence = ev]

Supported(k, outcome) ==
  /\ outcome = "complete" =>
       \A c \in Components : entry[k].plan[c] = "planned" => entry[k].evidence[c] = "all"
  /\ outcome = "partial" => \E c \in Components : entry[k].evidence[c] # "none"

Settle(k, outcome) ==
  /\ entry[k].outcome = "open"
  /\ Supported(k, outcome)
  /\ entry' = [entry EXCEPT ![k].outcome = outcome]

Forget(S) == entry' = [k \in Keys |-> IF k \in S THEN Absent ELSE entry[k]]

Next ==
  \/ \E k \in Keys :
       \/ \E plan \in [Components -> {"absent", "skipped", "planned"}] : Admit(k, plan)
       \/ \E ev \in [Components -> Amounts] : Gather(k, ev)
       \/ \E outcome \in Outcomes : Settle(k, outcome)
  \/ \E S \in SUBSET Keys : Forget(S)

Spec == Init /\ [][Next]_entry
=============================================================================
