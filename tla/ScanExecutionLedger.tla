------------------------ MODULE ScanExecutionLedger ------------------------
(***************************************************************************)
(* How the execution table implements ScanLedger: a key's entry is the row *)
(* that holds it, without the components, the ageing and the difference    *)
(* between a planned and a running execution.                              *)
(***************************************************************************)
EXTENDS ScanExecutionInv

Shown(r) == [outcome |-> IF r.status \in Unsettled THEN "open" ELSE r.status,
             plan |-> r.plan, evidence |-> r.evidence]

Holds(table, id, k) == table[id] # NoRow /\ table[id].key = k

EntryIn(table, k) ==
  IF \E id \in Ids : Holds(table, id, k)
    THEN Shown(table[CHOOSE id \in Ids : Holds(table, id, k)])
    ELSE [outcome |-> "absent"]

Entries(table) == [k \in Keys |-> EntryIn(table, k)]

Ledger == INSTANCE ScanLedger WITH entry <- Entries(rows), Outcomes <- Terminal

\* A component that was never started has committed nothing.
Unstarted(r) == \A k \in Components : r.comp[k] \in PlannedStatus => r.evidence[k] = "none"

\* What makes the evidence of an entry accumulate: a component that is being
\* collected, or whose last write is still queued, has not committed everything,
\* and one write at most is queued for an execution.
EvidenceInv ==
  /\ \A id \in Ids : Present(id) => Unstarted(rows[id])
  /\ \A c \in Callers : pc[c] = "collect" => rows[own[c]].evidence[at[c]] # "all"
  /\ \A n \in DOMAIN backlog : backlog[n].op = "persist" =>
       /\ rows[backlog[n].id].evidence[backlog[n].comp] # "all"
       /\ \A m \in DOMAIN backlog :
            backlog[m].op = "persist" /\ backlog[m].id = backlog[n].id => m = n

\* The detailed execution table keeps the ledger's promise: one key stands for
\* one plan, evidence only accumulates while its entry is open, and the entry
\* settles once, with an outcome the evidence supports.
LedgerKept == Ledger!Spec
=============================================================================
