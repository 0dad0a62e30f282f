-------------------------- MODULE MCScanExecution --------------------------
(* Small instances of ScanExecution and of its refinement of ScanLedger.   *)
(* HistorySpec starts on a scope that has a history: a visible execution of *)
(* an earlier call, settled and past the retry window.  With it two calls   *)
(* are enough for retention to rank both classes, for a pass of one class   *)
(* to meet what is too old in the other, and for a key to be admitted again *)
(* after its row was forgotten.                                             *)
EXTENDS ScanExecutionLedger, TLC

CONSTANT OldKey     \* the key of an execution of an earlier call

WebPlan == WebOnly
FullPlan == [k \in Components |-> "planned"]
UnlinkedPlan == [k \in Components |-> IF k = "web" THEN "planned" ELSE "skipped"]
CodePlan == [k \in Components |-> IF k = "code" THEN "planned" ELSE "absent"]

WebAndFull == {WebPlan, FullPlan}
MixedPlans == {FullPlan, UnlinkedPlan, CodePlan}

OldRow ==
  [NewRow([key |-> OldKey, class |-> "general_scan", plan |-> WebPlan]) EXCEPT
     !.status = "complete", !.comp["web"] = "complete",
     !.evidence["web"] = "all", !.aged = TRUE]

HistoryInit ==
  /\ rows = [id \in Ids |-> IF id = 1 THEN OldRow ELSE NoRow]
  /\ nextId = 2
  /\ pc = [c \in Callers |-> "idle"]
  /\ at = [c \in Callers |-> "web"]
  /\ req = [c \in Callers |-> NoRequest]
  /\ own = [c \in Callers |-> 0]
  /\ result = [c \in Callers |-> "none"]
  /\ flagged = {}
  /\ backlog = <<>>
  /\ faults = 0
  /\ crashes = 0

HistorySpec == HistoryInit /\ [][Next]_vars

Symmetry == Permutations(Callers) \cup Permutations(Keys \ {OldKey})
=============================================================================
