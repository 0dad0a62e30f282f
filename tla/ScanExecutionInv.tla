-------------------------- MODULE ScanExecutionInv --------------------------
(***************************************************************************)
(* The inductive invariant behind the safety of ScanExecution: what every  *)
(* call, and every operation whose call gave up, relies on about its row.  *)
(***************************************************************************)
EXTENDS ScanExecution

\* Every row is coherent, its evidence backs it, and a component is what its
\* plan says until the plan asked for it to be collected.
RowInv(r) ==
  /\ CoherentRow(r)
  /\ \A k \in Components :
       /\ r.plan[k] # "planned" <=> r.comp[k] \in {"absent", "skipped"}
       /\ r.plan[k] # "planned" => r.comp[k] = r.plan[k]
       /\ r.comp[k] = "complete" => r.evidence[k] = "all"
       /\ r.comp[k] = "incomplete" => r.evidence[k] # "none"

TableInv ==
  /\ \A id \in Ids : id >= nextId => ~Present(id)
  /\ \A i, j \in Ids : Present(i) /\ Present(j) /\ rows[i].key = rows[j].key => i = j
  /\ \A id \in Ids : Present(id) => RowInv(rows[id])

\* Which callers have a request and an execution, and whose it is.
CallerInv ==
  \A c \in Callers :
    /\ pc[c] = "idle" <=> req[c] = NoRequest
    /\ pc[c] \in {"idle", "admit"} => own[c] = 0
    /\ pc[c] \in {"idle", "admit", "precheck"} => at[c] = "web"
    /\ pc[c] \notin {"idle", "admit", "done"} => own[c] # 0
    /\ own[c] # 0 =>
         /\ own[c] < nextId
         /\ \A d \in Callers : own[d] = own[c] => d = c
         /\ Present(own[c]) => /\ rows[own[c]].key = req[c].key
                               /\ rows[own[c]].plan = req[c].plan
                               /\ rows[own[c]].class = req[c].class

Working == {"precheck", "start", "collect", "finish", "gate"}

\* Collection runs Web then Code: the other component is settled when Code is
\* at hand and untouched while Web is.
InOrder(r, k) ==
  /\ r.plan[k] = "planned"
  /\ k = "code" => r.comp["web"] \notin Unsettled
  /\ k = "web" => r.comp["code"] = r.plan["code"]

\* An evidence claim a settlement may still be carrying.
Backs(r, k, status) ==
  /\ status = "complete" => r.evidence[k] = "all"
  /\ status = "incomplete" => r.evidence[k] # "none"

\* A component that is being settled was started, or is the Code component the
\* cancellation gate settles without starting.
CanSettle(r, k) ==
  /\ InOrder(r, k)
  /\ r.comp[k] = "running" \/ (k = "code" /\ r.comp[k] = "planned")

\* What a call in a phase knows of its execution r, with component k at hand
\* and a collector's answer res.
WorkAt(phase, r, k, res) ==
  /\ ~r.aged
  /\ phase = "precheck" => r.status = "planned"
  /\ phase = "start" => r.comp[k] = "planned" /\ InOrder(r, k)
  /\ phase = "collect" => r.comp[k] = "running" /\ InOrder(r, k)
  /\ phase = "finish" => CanSettle(r, k) /\ res \in Settled /\ Backs(r, k, res)
  /\ phase = "gate" => k = "code" /\ r.comp["code"] = "planned" /\ InOrder(r, k)

\* A call past its last settlement left its execution settled.
WorkInv ==
  \A c \in Callers :
    /\ pc[c] \in Working =>
         Open(own[c]) /\ WorkAt(pc[c], rows[own[c]], at[c], result[c])
    /\ pc[c] \in {"link", "prune"} => ~Open(own[c])

\* Operations in the backlog: a settlement still finds its evidence and its
\* component as its caller left them, and is the last its execution will get; a
\* late write of a run finds its component still running, whoever reports that
\* component reports it failed, and only after the write.
Final(o) == o.op \in {"start", "cancel", "finish"}

BacklogInv ==
  \A n \in DOMAIN backlog :
    LET o == backlog[n]
    IN  /\ Final(o) =>
             /\ o.id < nextId
             /\ \A c \in Callers : own[c] = o.id => pc[c] = "done"
             /\ \A m \in DOMAIN backlog :
                  Final(backlog[m]) /\ backlog[m].id = o.id => m = n
        /\ o.op = "finish" /\ Open(o.id) =>
             /\ CanSettle(rows[o.id], o.comp)
             /\ Backs(rows[o.id], o.comp, o.status)
        /\ o.op = "persist" =>
             /\ Open(o.id) /\ rows[o.id].comp[o.comp] = "running"
             /\ \A c \in Callers :
                  own[c] = o.id /\ pc[c] # "done" =>
                     at[c] = o.comp /\ pc[c] = "finish" /\ result[c] = "failed"
             /\ \A m \in DOMAIN backlog :
                  backlog[m].op = "finish" /\ backlog[m].id = o.id =>
                    backlog[m].status = "failed" /\ n < m

IInv == TypeOK /\ TableInv /\ CallerInv /\ WorkInv /\ BacklogInv
=============================================================================
