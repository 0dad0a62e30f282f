------------------------ MODULE ScanExecutionProofs ------------------------
(***************************************************************************)
(* Proofs about ScanExecution for any callers, keys, plans and bounds:     *)
(* IInv is inductive, and it implies the safety properties of the runs.    *)
(***************************************************************************)
EXTENDS ScanExecutionLedger, FiniteSetTheorems, TLAPS

-----------------------------------------------------------------------------
(* What each database operation does to one row.                           *)

\* A freshly admitted row is well formed and coherent.
LEMMA NewRowInv ==
  ASSUME NEW r \in Requests
  PROVE  NewRow(r) \in Rows /\ RowInv(NewRow(r)) /\ NewRow(r) # NoRow
BY DEF Requests, AllPlans, PlannedStatus, NewRow, Rows, RowInv, CoherentRow, NoRow,
       ComponentStatus, Unsettled, Settled, Delivered, Terminal, Components

\* A row is not the absent row.
LEMMA RowIsPresent ==
  ASSUME NEW r \in Rows
  PROVE  r # NoRow
BY DEF Rows, NoRow, Unsettled, Terminal

\* Starting a planned component of an open row keeps it coherent.
LEMMA StartRow ==
  ASSUME NEW r \in Rows, RowInv(r), r.status \in Unsettled,
         NEW k \in Components, r.comp[k] = "planned",
         NEW s, s = [r EXCEPT !.status = "running", !.comp[k] = "running"]
  PROVE  s \in Rows /\ RowInv(s)
<1>1. /\ s.plan = r.plan /\ s.evidence = r.evidence /\ s.status = "running"
      /\ s.comp = [r.comp EXCEPT ![k] = "running"]
  BY DEF Rows
<1>2. s \in Rows
  BY DEF Rows, ComponentStatus, Unsettled
<1>3. r.plan[k] = "planned" /\ s.comp[k] = "running"
  BY <1>1 DEF RowInv, Rows
<1>4. \A j \in Components \ {k} : s.comp[j] = r.comp[j]
  BY <1>1 DEF Rows
<1>5. CoherentRow(s)
  BY <1>1, <1>3 DEF CoherentRow, Unsettled
<1>6. RowInv(s)
  BY <1>1, <1>3, <1>4, <1>5 DEF RowInv
<1> QED  BY <1>2, <1>6

\* A pre-start cancellation settles the row and every planned component.
LEMMA CancelRow ==
  ASSUME NEW r \in Rows, RowInv(r), r.status = "planned",
         NEW s, s = [r EXCEPT !.status = "cancelled",
                              !.comp = [k \in Components |->
                                  IF @[k] = "planned" THEN "cancelled" ELSE @[k]]]
  PROVE  s \in Rows /\ RowInv(s)
BY DEF Rows, RowInv, CoherentRow, AllPlans,
       ComponentStatus, PlannedStatus, Unsettled, Settled, Delivered, Terminal, Components

\* A run may be committed while its component is not reported delivered.
LEMMA PersistRow ==
  ASSUME NEW r \in Rows, RowInv(r), NEW k \in Components, r.comp[k] \notin Delivered,
         NEW amount \in {"some", "all"}, NEW s, s = [r EXCEPT !.evidence[k] = amount]
  PROVE  s \in Rows /\ RowInv(s)
BY DEF Rows, RowInv, CoherentRow, Delivered, Components

\* The outcome of settled components is the one CoherentRow asks for.
LEMMA OutcomeCases ==
  ASSUME NEW comp
  PROVE  LET Has(S) == \E k \in Components : comp[k] \in S
         IN  /\ Outcome(comp) \in Terminal
             /\ Outcome(comp) = "complete" =>
                  Has(Delivered) /\ ~Has({"failed", "cancelled", "incomplete"})
             /\ Outcome(comp) = "partial" =>
                  Has(Delivered) /\ Has({"failed", "cancelled", "incomplete"})
             /\ Outcome(comp) = "cancelled" => ~Has(Delivered) /\ ~Has({"failed"})
             /\ Outcome(comp) = "failed" =>
                  ~Has(Delivered) /\ (Has({"failed"}) \/ ~Has({"cancelled"}))
BY DEF Outcome, Terminal, Components, Delivered

FinishedRow(r, k, status) ==
  LET comp == [r.comp EXCEPT ![k] = status]
  IN  [r EXCEPT !.comp = comp, !.status = IF StillOpen(comp) THEN @ ELSE Outcome(comp)]

\* Settling a component keeps the row coherent; settling the last one settles
\* the execution, and Web is the last one when Code is not planned.
LEMMA FinishRow ==
  ASSUME NEW r \in Rows, RowInv(r), r.status \in Unsettled,
         NEW k \in Components, CanSettle(r, k),
         NEW status \in Settled, Backs(r, k, status)
  PROVE  LET s == FinishedRow(r, k, status)
         IN  /\ s \in Rows /\ RowInv(s)
             /\ s.key = r.key /\ s.class = r.class /\ s.plan = r.plan /\ s.aged = r.aged
             /\ s.evidence = r.evidence
             /\ k = "web" /\ r.plan["code"] = "planned" =>
                  /\ s.status \in Unsettled
                  /\ InOrder(s, "code") /\ s.comp["code"] = "planned"
             /\ ~(k = "web" /\ r.plan["code"] = "planned") => s.status \in Terminal
<1> USE DEF Components
<1> DEFINE comp == [r.comp EXCEPT ![k] = status]
           s == FinishedRow(r, k, status)
<1>1. /\ s.plan = r.plan /\ s.evidence = r.evidence /\ s.comp = comp
      /\ s.status = IF StillOpen(comp) THEN r.status ELSE Outcome(comp)
      /\ s.key = r.key /\ s.class = r.class /\ s.aged = r.aged
      /\ s = [r EXCEPT !.comp = comp, !.status = s.status]
  BY DEF Rows, FinishedRow
<1>2. comp \in [Components -> ComponentStatus]
  BY DEF Rows, ComponentStatus
<1>3. r.plan[k] = "planned" /\ comp[k] = status
  BY DEF CanSettle, InOrder, Rows
<1>4. \A j \in Components \ {k} : comp[j] = r.comp[j]
  BY DEF Rows
<1> HIDE DEF comp, s
<1>5. s \in Rows
  BY <1>1, <1>2, OutcomeCases DEF Rows
<1>6. \A j \in Components :
        /\ r.plan[j] = "planned" => comp[j] \in Unsettled \cup Settled
        /\ r.plan[j] # "planned" => comp[j] \in {"absent", "skipped"} /\ comp[j] = r.plan[j]
  BY <1>2, <1>3, <1>4
     DEF RowInv, ComponentStatus, PlannedStatus, Unsettled, Settled, Delivered
<1>7. StillOpen(comp) <=> \E j \in Components : r.plan[j] = "planned" /\ comp[j] \in Unsettled
  BY <1>6 DEF StillOpen, Unsettled
<1>8. CoherentRow(s)
  <2>1. CASE StillOpen(comp)
    <3>1. r.status = "planned" => FALSE
      <4>1. SUFFICES ASSUME r.status = "planned" PROVE FALSE
        OBVIOUS
      <4>2. r.comp = r.plan
        BY <4>1 DEF RowInv, CoherentRow
      <4>3. k = "code" /\ r.comp["web"] \notin Unsettled
        BY <4>2, <1>3 DEF CanSettle, InOrder
      <4>4. \A j \in Components : comp[j] \notin Unsettled
        BY <4>3, <1>3, <1>4 DEF Unsettled, Settled, Delivered
      <4> QED  BY <4>4, <2>1 DEF StillOpen
    <3> QED  BY <2>1, <3>1, <1>1, <1>7 DEF CoherentRow, Unsettled
  <2>2. CASE ~StillOpen(comp)
    <3>1. \A j \in Components : r.plan[j] = "planned" => comp[j] \in Settled
      BY <2>2, <1>6, <1>7
    <3>2. s.status = Outcome(comp) /\ s.status \in Terminal
      BY <2>2, <1>1, OutcomeCases
    <3>3. s.status = "complete" => \A j \in Components : r.plan[j] = "planned" => comp[j] = "complete"
      BY <3>1, <3>2, OutcomeCases DEF Settled, Delivered
    <3>4. s.status = "partial" =>
            /\ \E j \in Components : r.plan[j] = "planned" /\ comp[j] \in Delivered
            /\ \E j \in Components : r.plan[j] = "planned" /\ comp[j] # "complete"
      BY <1>6, <3>2, OutcomeCases DEF Delivered
    <3>5. s.status = "cancelled" =>
            \A j \in Components : comp[j] \notin Delivered /\ comp[j] # "failed"
      BY <3>2, OutcomeCases
    <3>6. s.status = "failed" =>
            /\ \A j \in Components : comp[j] \notin Delivered
            /\ \E j \in Components : r.plan[j] = "planned" /\ comp[j] = "failed"
      BY <1>3, <1>6, <3>1, <3>2, OutcomeCases DEF Settled, Delivered
    <3> QED  BY <1>1, <1>7, <2>2, <3>2, <3>3, <3>4, <3>5, <3>6
             DEF CoherentRow, Terminal, Unsettled
  <2> QED  BY <2>1, <2>2
<1>9. RowInv(s)
  BY <1>1, <1>3, <1>4, <1>8 DEF RowInv, Backs, Settled, Delivered
<1>10. ASSUME k = "web", r.plan["code"] = "planned"
       PROVE  /\ s.status \in Unsettled
              /\ InOrder(s, "code") /\ s.comp["code"] = "planned"
  BY <1>10, <1>1, <1>3, <1>4, <1>7 DEF InOrder, CanSettle, Unsettled, Settled, Delivered
<1>11. ASSUME ~(k = "web" /\ r.plan["code"] = "planned")
       PROVE  s.status \in Terminal
  <2>1. ~StillOpen(comp)
    BY <1>11, <1>3, <1>4, <1>6, <1>7 DEF CanSettle, InOrder, Unsettled, Settled, Delivered
  <2> QED  BY <2>1, <1>1, OutcomeCases
<1> QED  BY <1>1, <1>5, <1>9, <1>10, <1>11 DEF s

-----------------------------------------------------------------------------
(* Reading the state.                                                      *)

\* A row is absent or a record, and a record is open or settled.
LEMMA RowFacts ==
  ASSUME TypeOK, NEW id \in Ids
  PROVE  /\ Present(id) <=> rows[id] \in Rows
         /\ ~Present(id) <=> rows[id] = NoRow
         /\ Present(id) => (Open(id) <=> ~Closed(id))
BY RowIsPresent DEF TypeOK, Present, Open, Closed, Rows, Unsettled, Terminal

\* What a queued operation carries.
LEMMA OpFacts ==
  ASSUME NEW o \in Ops
  PROVE  /\ Final(o) => o.id \in Ids /\ o.comp \in Components
         /\ o.op = "persist" =>
              /\ o.id \in Ids /\ o.comp \in Components /\ o.amount \in {"some", "all"}
         /\ o.op = "finish" => o.status \in Settled
         /\ o.op = "admit" => o.req \in Requests
         /\ o.op \in {"admit", "start", "cancel", "link", "persist", "finish", "prune"}
BY DEF Ops, Final

\* The queue holds operations.
LEMMA QueueFacts ==
  ASSUME TypeOK, NEW n \in DOMAIN backlog
  PROVE  backlog[n] \in Ops /\ n \in Nat /\ n >= 1
BY DEF TypeOK

\* What a call that has a row knows: its id is its own and below the counter.
LEMMA CallerFacts ==
  ASSUME TypeOK, CallerInv, NEW c \in Callers, pc[c] \notin {"idle", "admit", "done"}
  PROVE  /\ own[c] \in Ids /\ own[c] < nextId
         /\ req[c] \in Requests
         /\ \A d \in Callers : own[d] = own[c] => d = c
BY DEF TypeOK, CallerInv

\* No queued settlement concerns the execution of a call that is not over, and
\* a queued run only that of a call about to report the component failed.
LEMMA NothingQueuedFor ==
  ASSUME TypeOK, BacklogInv, NEW c \in Callers, pc[c] # "done",
         NEW n \in DOMAIN backlog
  PROVE  /\ Final(backlog[n]) => backlog[n].id # own[c]
         /\ backlog[n].op = "persist" /\ backlog[n].id = own[c] =>
              pc[c] = "finish" /\ at[c] = backlog[n].comp /\ result[c] = "failed"
BY DEF BacklogInv

\* A call moves to phase p with component k at hand and the answer v, changing
\* at most its own row, to r.
Moves(c, p, k, v, r) ==
  /\ pc[c] \notin {"idle", "admit", "done"}
  /\ backlog = <<>> \/ pc[c] # "finish"
  /\ p \in {"start", "collect", "finish", "gate", "link", "prune"}
  /\ k \in Components /\ v \in Results
  /\ \/ r = rows[own[c]]
     \/ /\ Present(own[c]) /\ r \in Rows /\ RowInv(r)
        /\ r.key = rows[own[c]].key /\ r.class = rows[own[c]].class
        /\ r.plan = rows[own[c]].plan
  /\ p \in Working => Present(own[c]) /\ r.status \in Unsettled /\ WorkAt(p, r, k, v)
  /\ p \in {"link", "prune"} => r = NoRow \/ r.status \notin Unsettled
  /\ rows' = [rows EXCEPT ![own[c]] = r]
  /\ pc' = [pc EXCEPT ![c] = p]
  /\ at' = [at EXCEPT ![c] = k]
  /\ result' = [result EXCEPT ![c] = v]
  /\ UNCHANGED <<nextId, req, own, flagged, backlog, faults, crashes>>

\* Such a move keeps the invariant.
LEMMA CallerMoves ==
  ASSUME IInv, NEW c \in Callers, NEW p, NEW k, NEW v, NEW r, Moves(c, p, k, v, r)
  PROVE  IInv'
<1> USE DEF IInv, Moves
<1>1. own[c] \in Ids /\ own[c] < nextId /\ req[c] \in Requests
  BY CallerFacts
<1>2. rows'[own[c]] = r /\ \A id \in Ids \ {own[c]} : rows'[id] = rows[id]
  BY <1>1 DEF TypeOK
<1>3. \A d \in Callers \ {c} :
        /\ pc'[d] = pc[d] /\ at'[d] = at[d] /\ result'[d] = result[d]
        /\ own[d] # own[c]
  BY CallerFacts DEF TypeOK
<1>4. pc'[c] = p /\ at'[c] = k /\ result'[c] = v
  BY DEF TypeOK
<1>5. r \in Rows \cup {NoRow} /\ (Present(own[c]) => r \in Rows)
  BY <1>1, RowFacts DEF TypeOK
<1>6. TypeOK'
  BY <1>5 DEF TypeOK, Phases
<1>7. \A id \in Ids :
        Present(id)' => /\ Present(id)
                        /\ rows'[id].key = rows[id].key /\ rows'[id].class = rows[id].class
                        /\ rows'[id].plan = rows[id].plan
                        /\ RowInv(rows'[id])
  BY <1>2 DEF Present, TableInv
<1>8. TableInv'
  BY <1>7 DEF TableInv
<1>9. CallerInv'
  BY <1>3, <1>4, <1>7 DEF CallerInv, TypeOK
<1>10. WorkInv'
  <2>1. ASSUME NEW d \in Callers \ {c}, pc[d] \notin {"idle", "admit", "done"}
        PROVE  rows'[own[d]] = rows[own[d]]
    BY <2>1, <1>2, <1>3, CallerFacts
  <2>2. ASSUME NEW d \in Callers \ {c}
        PROVE  /\ pc'[d] \in Working =>
                    Open(own[d])' /\ WorkAt(pc'[d], rows'[own[d]], at'[d], result'[d])
               /\ pc'[d] \in {"link", "prune"} => ~Open(own[d])'
    BY <2>1, <1>3 DEF WorkInv, Working, Open, Present
  <2>3. /\ pc'[c] \in Working =>
             Open(own[c])' /\ WorkAt(pc'[c], rows'[own[c]], at'[c], result'[c])
        /\ pc'[c] \in {"link", "prune"} => ~Open(own[c])'
    BY <1>2, <1>4, <1>5, RowIsPresent DEF Open, Present
  <2> QED  BY <2>2, <2>3 DEF WorkInv
<1>11. BacklogInv'
  <2>1. ASSUME NEW n \in DOMAIN backlog, Final(backlog[n]) \/ backlog[n].op = "persist"
        PROVE  backlog[n].id # own[c] /\ rows'[backlog[n].id] = rows[backlog[n].id]
    BY <2>1, <1>2, NothingQueuedFor, QueueFacts, OpFacts
  <2>2. ASSUME NEW n \in DOMAIN backlog
        PROVE  LET o == backlog[n]
               IN  /\ Final(o) => \A d \in Callers : own[d] = o.id => pc'[d] = "done"
                   /\ o.op = "persist" =>
                       \A d \in Callers :
                         own[d] = o.id /\ pc'[d] # "done" =>
                           at'[d] = o.comp /\ pc'[d] = "finish" /\ result'[d] = "failed"
    BY <2>1, <1>3 DEF BacklogInv
  <2> QED  BY <2>1, <2>2 DEF BacklogInv, Open, Present, Final
<1> QED  BY <1>6, <1>8, <1>9, <1>10, <1>11

-----------------------------------------------------------------------------
(* The steps of a call, by family.                                         *)

\* A call takes a request.
LEMMA CallStep ==
  ASSUME IInv, NEW c \in Callers, NEW r \in Requests, Call(c, r)
  PROVE  IInv'
<1> USE DEF IInv, Call, Goto, Quiet
<1>1. TypeOK'
  BY DEF TypeOK, Phases
<1>2. TableInv'
  BY DEF TableInv, Present
<1>3. req'[c] # NoRequest
  BY DEF TypeOK, Requests, NoRequest, Classes
<1>4. CallerInv'
  BY <1>3 DEF CallerInv, TypeOK, Present
<1>5. WorkInv'
  BY DEF WorkInv, TypeOK, Working, Open, Present
<1>6. BacklogInv'
  <2>1. own[c] = 0
    BY DEF CallerInv
  <2>2. ASSUME NEW n \in DOMAIN backlog, Final(backlog[n]) \/ backlog[n].op = "persist"
        PROVE  backlog[n].id # own[c]
    BY <2>1, <2>2, QueueFacts, OpFacts DEF Ids
  <2> QED  BY <2>2 DEF BacklogInv, Open, Present, Final, TypeOK
<1> QED  BY <1>1, <1>2, <1>4, <1>5, <1>6

\* A call ends, leaving its row as it is; its last operation may stay queued.
LEMMA CallEnds ==
  ASSUME IInv, NEW c \in Callers, pc[c] \notin {"idle", "done"},
         pc' = [pc EXCEPT ![c] = "done"],
         faults' \in 0 .. MaxFaults,
         UNCHANGED <<rows, nextId, at, req, own, result, flagged, backlog, crashes>>
  PROVE  IInv'
<1> USE DEF IInv
<1>1. TypeOK'
  BY DEF TypeOK, Phases
<1>2. TableInv'
  BY DEF TableInv, Present
<1>3. CallerInv'
  BY DEF CallerInv, TypeOK, Present
<1>4. WorkInv'
  BY DEF WorkInv, TypeOK, Working, Open, Present
<1>5. BacklogInv'
  BY DEF BacklogInv, Open, Present, Final, TypeOK
<1> QED  BY <1>1, <1>2, <1>3, <1>4, <1>5

\* Admission inserts a row that belongs to the caller alone.
LEMMA AdmitNewStep ==
  ASSUME IInv, NEW c \in Callers, AdmitNew(c)
  PROVE  IInv'
<1> USE DEF IInv, AdmitNew, InTurn, Goto, Quiet
<1> DEFINE r == NewRow(req[c])
<1>1. req[c] \in Requests /\ nextId \in Ids /\ own[c] = 0 /\ at[c] = "web"
  BY DEF TypeOK, CallerInv, CanInsert
<1>2. r \in Rows /\ RowInv(r) /\ r # NoRow
  BY <1>1, NewRowInv
<1>3. /\ r.key = req[c].key /\ r.class = req[c].class /\ r.plan = req[c].plan
      /\ r.comp = req[c].plan /\ r.status = "planned" /\ ~r.aged
  BY DEF NewRow
<1> HIDE DEF r
<1>4. rows' = [rows EXCEPT ![nextId] = r]
  BY DEF DbAdmit, r
<1>5. rows'[nextId] = r /\ \A id \in Ids \ {nextId} : rows'[id] = rows[id]
  BY <1>1, <1>4 DEF TypeOK
<1>6. TypeOK'
  <2>1. nextId + 1 \in 1 .. MaxRows + 1
    BY <1>1, BoundsAssumption DEF Ids
  <2> QED  BY <1>1, <1>2, <1>4, <2>1 DEF TypeOK, Phases
<1>7. TableInv'
  <2>1. \A id \in Ids : Present(id) => rows[id].key # r.key
    BY <1>3 DEF CanInsert, Holder
  <2>2. \A id \in Ids : id >= nextId' => ~Present(id)'
    BY <1>1, <1>5 DEF TableInv, Present, Ids
  <2>3. \A i, j \in Ids : Present(i)' /\ Present(j)' /\ rows'[i].key = rows'[j].key => i = j
    BY <1>5, <2>1 DEF TableInv, Present
  <2>4. \A id \in Ids : Present(id)' => RowInv(rows'[id])
    BY <1>2, <1>5 DEF TableInv, Present
  <2> QED  BY <2>2, <2>3, <2>4 DEF TableInv
<1>8. /\ own'[c] = nextId /\ pc'[c] \in {"precheck", "start"}
      /\ \A d \in Callers \ {c} : own'[d] = own[d] /\ pc'[d] = pc[d] /\ own[d] # nextId
  BY <1>1 DEF TypeOK, CallerInv
<1>9. CallerInv'
  <2>1. ASSUME NEW d \in Callers \ {c}, own[d] # 0
        PROVE  rows'[own[d]] = rows[own[d]] /\ own[d] < nextId'
    BY <2>1, <1>1, <1>5, <1>8 DEF TypeOK, CallerInv, Ids
  <2>2. \A d \in Callers \ {c} : pc[d] \notin {"idle", "admit", "done"} => own[d] # 0
    BY DEF CallerInv
  <2>3. pc'[c] = "precheck" => at'[c] = "web"
    BY <1>1
  <2>4. req[c] # NoRequest /\ own'[c] # 0 /\ own'[c] < nextId'
    BY <1>1, <1>8 DEF CallerInv, Ids
  <2>5. \A d \in Callers : own'[d] = own'[c] => d = c
    BY <1>8
  <2> QED  BY <1>3, <1>5, <1>8, <2>1, <2>2, <2>3, <2>4, <2>5 DEF CallerInv, Present
<1>10. WorkInv'
  <2>1. pc'[c] = "start" => req[c].plan = WebOnly
    BY <1>1, <1>8 DEF Requests, TypeOK, Classes
  <2>2. WorkAt(pc'[c], r, at'[c], result'[c]) /\ pc'[c] \notin {"link", "prune"}
    BY <1>1, <1>3, <1>8, <2>1 DEF WorkAt, InOrder, WebOnly, Components
  <2>3. Open(own[c])'
    BY <1>2, <1>3, <1>5, <1>8 DEF Open, Present, Unsettled
  <2>4. ASSUME NEW d \in Callers \ {c}, pc[d] \notin {"idle", "admit", "done"}
        PROVE  rows'[own[d]] = rows[own[d]]
    BY <2>4, <1>5, <1>8, CallerFacts
  <2> QED  BY <1>5, <1>8, <2>2, <2>3, <2>4 DEF WorkInv, Open, Present, Working
<1>11. BacklogInv'
  BY DEF BacklogInv
<1> QED  BY <1>6, <1>7, <1>9, <1>10, <1>11

\* Cancelling before the start settles the planned row.
LEMMA CancelBeforeStartStep ==
  ASSUME IInv, NEW c \in Callers, CancelBeforeStart(c)
  PROVE  IInv'
<1> USE DEF CancelBeforeStart, InTurn, Goto, Quiet
<1> DEFINE old == rows[own[c]]
           r == [old EXCEPT !.status = "cancelled",
                            !.comp = [k \in Components |->
                                IF @[k] = "planned" THEN "cancelled" ELSE @[k]]]
<1>1. own[c] \in Ids /\ Open(own[c]) /\ old.status = "planned"
  BY CallerFacts DEF IInv, WorkInv, WorkAt, Working
<1>2. Present(own[c]) /\ old \in Rows /\ RowInv(old)
  BY <1>1, RowFacts DEF IInv, TableInv, Open
<1>3. r \in Rows /\ RowInv(r)
  BY <1>1, <1>2, CancelRow
<1>4. r.key = old.key /\ r.class = old.class /\ r.plan = old.plan /\ r.status = "cancelled"
  BY <1>2 DEF Rows
<1>5. rows' = [rows EXCEPT ![own[c]] = r]
  BY <1>1, <1>2 DEF DbCancel, IInv, TypeOK
<1>6. /\ pc' = [pc EXCEPT ![c] = "prune"]
      /\ at' = [at EXCEPT ![c] = at[c]] /\ result' = [result EXCEPT ![c] = result[c]]
      /\ at[c] \in Components /\ result[c] \in Results
  BY DEF IInv, TypeOK
<1> HIDE DEF r, old
<1>7. Moves(c, "prune", at[c], result[c], r)
  BY <1>2, <1>3, <1>4, <1>5, <1>6 DEF Moves, old, Working, Unsettled
<1> QED  BY <1>7, CallerMoves

\* The first component to collect is Web when it is planned, Code otherwise.
LEMMA BeginComponentsStep ==
  ASSUME IInv, NEW c \in Callers, BeginComponents(c)
  PROVE  IInv'
<1> USE DEF BeginComponents, Goto, Quiet
<1> DEFINE r == rows[own[c]]
           web == req[c].plan["web"] = "planned"
           p == IF web THEN "start" ELSE "gate"
           k == IF web THEN "web" ELSE "code"
<1>1. own[c] \in Ids /\ Open(own[c]) /\ r.status = "planned" /\ ~r.aged /\ at[c] = "web"
  BY CallerFacts DEF IInv, WorkInv, WorkAt, Working, CallerInv
<1>2. Present(own[c]) /\ r \in Rows /\ RowInv(r) /\ r.plan = req[c].plan
  BY <1>1, CallerFacts, RowFacts DEF IInv, TableInv, CallerInv, Open, Ids
<1>3. r.comp = r.plan
  BY <1>1, <1>2 DEF RowInv, CoherentRow
<1>4. ~web => r.plan["code"] = "planned" /\ r.comp["web"] \notin Unsettled
  BY <1>2, <1>3 DEF Rows, AllPlans, PlannedStatus, Components, Unsettled
<1>5. WorkAt(p, r, k, result[c])
  BY <1>1, <1>2, <1>3, <1>4 DEF WorkAt, InOrder
<1>6. /\ rows' = [rows EXCEPT ![own[c]] = r]
      /\ pc' = [pc EXCEPT ![c] = p] /\ at' = [at EXCEPT ![c] = k]
      /\ result' = [result EXCEPT ![c] = result[c]]
      /\ k \in Components /\ result[c] \in Results
  BY <1>1 DEF IInv, TypeOK, Components
<1>7. r.status \in Unsettled /\ p \in {"start", "gate"}
  BY <1>1 DEF Open
<1> HIDE DEF r, p, k, web
<1>8. Moves(c, p, k, result[c], r)
  BY <1>2, <1>5, <1>6, <1>7 DEF Moves, r, Working
<1> QED  BY <1>8, CallerMoves

\* A component starts.
LEMMA StartComponentStep ==
  ASSUME IInv, NEW c \in Callers, StartComponent(c)
  PROVE  IInv'
<1> USE DEF StartComponent, InTurn, Goto, Quiet
<1> DEFINE old == rows[own[c]]
           k == at[c]
           r == [old EXCEPT !.status = "running", !.comp[k] = "running"]
<1>1. /\ own[c] \in Ids /\ Open(own[c]) /\ ~old.aged
      /\ old.comp[k] = "planned" /\ InOrder(old, k)
      /\ k \in Components /\ result[c] \in Results
  BY CallerFacts DEF IInv, TypeOK, WorkInv, WorkAt, Working
<1>2. Present(own[c]) /\ old \in Rows /\ RowInv(old)
  BY <1>1, RowFacts DEF IInv, TableInv, Open
<1>3. r \in Rows /\ RowInv(r)
  BY <1>1, <1>2, StartRow DEF Open
<1>4. /\ r.key = old.key /\ r.class = old.class /\ r.plan = old.plan /\ r.status = "running"
      /\ r.aged = old.aged /\ r.comp = [old.comp EXCEPT ![k] = "running"]
  BY <1>2 DEF Rows
<1>5. rows' = [rows EXCEPT ![own[c]] = r]
  BY <1>1, <1>2 DEF DbStart, IInv, TypeOK
<1>6. WorkAt("collect", r, k, result[c])
  BY <1>1, <1>2, <1>4 DEF WorkAt, InOrder, Rows, Components
<1>7. /\ pc' = [pc EXCEPT ![c] = "collect"]
      /\ at' = [at EXCEPT ![c] = k] /\ result' = [result EXCEPT ![c] = result[c]]
  BY DEF IInv, TypeOK
<1> HIDE DEF r, old, k
<1>8. Moves(c, "collect", k, result[c], r)
  BY <1>1, <1>2, <1>3, <1>4, <1>5, <1>6, <1>7 DEF Moves, old, Working, Unsettled
<1> QED  BY <1>8, CallerMoves

\* A commit of a run of the component at hand keeps the row as its call needs it.
LEMMA CommitRun ==
  ASSUME IInv, NEW c \in Callers, pc[c] = "collect",
         NEW amount \in {"some", "all"}
  PROVE  LET r == [rows[own[c]] EXCEPT !.evidence[at[c]] = amount]
         IN  /\ own[c] \in Ids /\ Present(own[c]) /\ r \in Rows /\ RowInv(r)
             /\ r.key = rows[own[c]].key /\ r.class = rows[own[c]].class
             /\ r.plan = rows[own[c]].plan /\ r.status \in Unsettled
             /\ r.evidence[at[c]] = amount
             /\ WorkAt("collect", r, at[c], result[c])
             /\ DbPersist(own[c], at[c], amount) = [rows EXCEPT ![own[c]] = r]
<1> DEFINE old == rows[own[c]]
           k == at[c]
           r == [rows[own[c]] EXCEPT !.evidence[at[c]] = amount]
<1>1. /\ own[c] \in Ids /\ Open(own[c]) /\ ~old.aged
      /\ old.comp[k] = "running" /\ InOrder(old, k) /\ k \in Components
  BY CallerFacts DEF IInv, TypeOK, WorkInv, WorkAt, Working
<1>2. Present(own[c]) /\ old \in Rows /\ RowInv(old)
  BY <1>1, RowFacts DEF IInv, TableInv, Open
<1>3. r \in Rows /\ RowInv(r)
  BY <1>1, <1>2, PersistRow DEF Delivered
<1>4. /\ r.key = old.key /\ r.class = old.class /\ r.plan = old.plan /\ r.status = old.status
      /\ r.aged = old.aged /\ r.comp = old.comp /\ r.evidence[k] = amount
  BY <1>1, <1>2 DEF Rows
<1>5. WorkAt("collect", r, k, result[c])
  BY <1>1, <1>4 DEF WorkAt, InOrder
<1>6. DbPersist(own[c], k, amount) = [rows EXCEPT ![own[c]] = r]
  BY <1>1, <1>2 DEF DbPersist, IInv, TypeOK
<1> QED  BY <1>1, <1>2, <1>3, <1>4, <1>5, <1>6 DEF Open

\* A page commits while the scan goes on.
LEMMA PersistPageStep ==
  ASSUME IInv, NEW c \in Callers, PersistPage(c)
  PROVE  IInv'
<1> USE DEF PersistPage, InTurn, Quiet
<1> DEFINE r == [rows[own[c]] EXCEPT !.evidence[at[c]] = "some"]
<1>1. /\ pc' = [pc EXCEPT ![c] = "collect"] /\ at' = [at EXCEPT ![c] = at[c]]
      /\ result' = [result EXCEPT ![c] = result[c]]
      /\ at[c] \in Components /\ result[c] \in Results
  BY DEF IInv, TypeOK
<1>2. Moves(c, "collect", at[c], result[c], r)
  BY <1>1, CommitRun DEF Moves, Working
<1> QED  BY <1>2, CallerMoves

\* The collector commits its run and answers with what it committed.
LEMMA CollectorDeliversStep ==
  ASSUME IInv, NEW c \in Callers, NEW res \in Delivered, CollectorDelivers(c, res)
  PROVE  IInv'
<1> USE DEF CollectorDelivers, InTurn, Goto, Quiet
<1> DEFINE amount == IF res = "complete" THEN "all" ELSE "some"
           r == [rows[own[c]] EXCEPT !.evidence[at[c]] = amount]
<1>1. /\ pc' = [pc EXCEPT ![c] = "finish"] /\ at' = [at EXCEPT ![c] = at[c]]
      /\ result' = [result EXCEPT ![c] = res]
      /\ at[c] \in Components /\ res \in Results /\ res \in Settled
  BY DEF IInv, TypeOK, Results, Settled
<1>2. amount \in {"some", "all"} /\ rows' = DbPersist(own[c], at[c], amount)
  OBVIOUS
<1>3. /\ Present(own[c]) /\ r \in Rows /\ RowInv(r)
      /\ r.key = rows[own[c]].key /\ r.class = rows[own[c]].class
      /\ r.plan = rows[own[c]].plan /\ r.status \in Unsettled
      /\ r.evidence[at[c]] = amount
      /\ WorkAt("collect", r, at[c], result[c])
      /\ rows' = [rows EXCEPT ![own[c]] = r]
  BY <1>2, CommitRun
<1> HIDE DEF r, amount
<1>4. WorkAt("finish", r, at[c], res)
  BY <1>1, <1>3 DEF WorkAt, CanSettle, Backs, amount
<1>5. Moves(c, "finish", at[c], res, r)
  BY <1>1, <1>3, <1>4 DEF Moves, Working
<1> QED  BY <1>5, CallerMoves

\* The collector answers with an error.
LEMMA CollectorFailsStep ==
  ASSUME IInv, NEW c \in Callers, NEW res \in {"failed", "cancelled"}, CollectorFails(c, res)
  PROVE  IInv'
<1> USE DEF CollectorFails, Goto, Quiet
<1> DEFINE r == rows[own[c]]
<1>1. own[c] \in Ids /\ Open(own[c]) /\ WorkAt("collect", r, at[c], result[c])
  BY CallerFacts DEF IInv, WorkInv, Working
<1>2. WorkAt("finish", r, at[c], res) /\ res \in Results
  BY <1>1 DEF WorkAt, CanSettle, Backs, Settled, Results
<1>3. /\ pc' = [pc EXCEPT ![c] = "finish"] /\ at' = [at EXCEPT ![c] = at[c]]
      /\ result' = [result EXCEPT ![c] = res] /\ at[c] \in Components
      /\ rows' = [rows EXCEPT ![own[c]] = r]
  BY <1>1 DEF IInv, TypeOK
<1> HIDE DEF r
<1>4. Moves(c, "finish", at[c], res, r)
  BY <1>1, <1>2, <1>3 DEF Moves, r, Working, Open
<1> QED  BY <1>4, CallerMoves

\* A component settles; the call goes on to Code or past its last settlement.
LEMMA FinishComponentStep ==
  ASSUME IInv, NEW c \in Callers, FinishComponent(c)
  PROVE  IInv'
<1> USE DEF FinishComponent, InTurn, Goto, Quiet
<1> DEFINE old == rows[own[c]]
           r == FinishedRow(old, at[c], result[c])
           p == After(at[c], req[c].plan, rows'[own[c]].comp)
           k == IF p = "gate" THEN "code" ELSE at[c]
<1>1. /\ own[c] \in Ids /\ Open(own[c]) /\ WorkAt("finish", old, at[c], result[c])
      /\ at[c] \in Components
  BY CallerFacts DEF IInv, TypeOK, WorkInv, Working
<1>2. Present(own[c]) /\ old \in Rows /\ RowInv(old) /\ old.plan = req[c].plan
  BY <1>1, CallerFacts, RowFacts DEF IInv, TableInv, CallerInv, Open, Ids
<1>3. CanSettle(old, at[c]) /\ result[c] \in Settled /\ Backs(old, at[c], result[c]) /\ ~old.aged
  BY <1>1 DEF WorkAt
<1>4. /\ r \in Rows /\ RowInv(r)
      /\ at[c] = "web" /\ old.plan["code"] = "planned" =>
           /\ r.status \in Unsettled /\ InOrder(r, "code") /\ r.comp["code"] = "planned"
      /\ ~(at[c] = "web" /\ old.plan["code"] = "planned") => r.status \in Terminal
      /\ r.key = old.key /\ r.class = old.class /\ r.plan = old.plan /\ r.aged = old.aged
  BY <1>1, <1>2, <1>3, FinishRow DEF Open
<1>6. rows' = [rows EXCEPT ![own[c]] = r]
  BY <1>1, <1>2 DEF DbFinish, FinishedRow, IInv, TypeOK
<1>7. /\ p = "gate" <=> at[c] = "web" /\ old.plan["code"] = "planned"
      /\ p \in {"gate", "link", "prune"}
  BY <1>2 DEF After
<1>8. /\ pc' = [pc EXCEPT ![c] = p] /\ at' = [at EXCEPT ![c] = k]
      /\ result' = [result EXCEPT ![c] = "none"]
      /\ k \in Components /\ "none" \in Results
  BY <1>1 DEF IInv, TypeOK, Components, Results
<1>9. p = "gate" => r.status \in Unsettled /\ WorkAt(p, r, k, "none")
  BY <1>3, <1>4, <1>7 DEF WorkAt
<1>10. p # "gate" => r.status \notin Unsettled
  BY <1>4, <1>7 DEF Terminal, Unsettled
<1> HIDE DEF r, k, p, old
<1>11. Moves(c, p, k, "none", r)
  BY <1>2, <1>4, <1>6, <1>7, <1>8, <1>9, <1>10 DEF Moves, old, Working
<1> QED  BY <1>11, CallerMoves

\* The cancellation check before Code.
LEMMA CodeGateStep ==
  ASSUME IInv, NEW c \in Callers, CodeGate(c)
  PROVE  IInv'
<1> USE DEF CodeGate, Goto, Quiet
<1> DEFINE r == rows[own[c]]
           p == IF c \in flagged THEN "finish" ELSE "start"
           v == IF c \in flagged THEN "cancelled" ELSE result[c]
<1>1. own[c] \in Ids /\ Open(own[c]) /\ WorkAt("gate", r, at[c], result[c])
  BY CallerFacts DEF IInv, WorkInv, Working
<1>2. WorkAt(p, r, at[c], v)
  BY <1>1 DEF WorkAt, CanSettle, Backs, Settled
<1>3. /\ pc' = [pc EXCEPT ![c] = p] /\ at' = [at EXCEPT ![c] = at[c]]
      /\ result' = [result EXCEPT ![c] = v] /\ at[c] \in Components /\ v \in Results
      /\ rows' = [rows EXCEPT ![own[c]] = r] /\ p \in {"finish", "start"}
  BY <1>1 DEF IInv, TypeOK, Results, Settled
<1> HIDE DEF r, p, v
<1>4. Moves(c, p, at[c], v, r)
  BY <1>1, <1>2, <1>3 DEF Moves, r, Working, Open
<1> QED  BY <1>4, CallerMoves

\* The score link goes on to retention, or ends the call when the row is gone.
LEMMA LinkScoreStep ==
  ASSUME IInv, NEW c \in Callers, LinkScore(c)
  PROVE  IInv'
<1> USE DEF LinkScore, InTurn, Goto, Quiet
<1>1. CASE pc' = [pc EXCEPT ![c] = "done"]
  BY <1>1, CallEnds DEF IInv, TypeOK
<1>2. CASE pc' = [pc EXCEPT ![c] = "prune"]
  <2> DEFINE r == rows[own[c]]
  <2>1. own[c] \in Ids /\ ~Open(own[c])
    BY CallerFacts DEF IInv, WorkInv
  <2>2. /\ at' = [at EXCEPT ![c] = at[c]] /\ result' = [result EXCEPT ![c] = result[c]]
        /\ at[c] \in Components /\ result[c] \in Results
        /\ rows' = [rows EXCEPT ![own[c]] = r]
    BY <2>1 DEF IInv, TypeOK
  <2>3. r = NoRow \/ r.status \notin Unsettled
    BY <2>1 DEF Open, Present
  <2> HIDE DEF r
  <2>4. Moves(c, "prune", at[c], result[c], r)
    BY <1>2, <2>2, <2>3 DEF Moves, r, Working
  <2> QED  BY <2>4, CallerMoves
<1> QED  BY <1>1, <1>2

-----------------------------------------------------------------------------
(* Steps that leave operations behind, and steps of the table alone.       *)

\* Retention removes settled rows of calls that no longer need them.
LEMMA RowsRemoved ==
  ASSUME IInv, NEW S,
         \A id \in Ids : id \in S /\ Present(id) =>
            Closed(id) \/ (backlog = <<>> /\ rows[id].aged),
         rows' = [id \in Ids |-> IF id \in S THEN NoRow ELSE rows[id]],
         UNCHANGED <<nextId, pc, at, req, own, result, backlog>>
  PROVE  TableInv' /\ CallerInv' /\ WorkInv' /\ BacklogInv'
<1> USE DEF IInv
<1>1. \A id \in Ids : Present(id)' => Present(id) /\ rows'[id] = rows[id]
  BY DEF Present
<1>2. \A id \in Ids : Open(id) /\ (backlog = <<>> => ~rows[id].aged) => rows'[id] = rows[id]
  BY DEF Open, Closed, Unsettled, Terminal
<1>3. TableInv'
  BY <1>1 DEF TableInv
<1>4. CallerInv'
  BY <1>1 DEF CallerInv, TypeOK, Ids
<1>5. WorkInv'
  <2>1. ASSUME NEW c \in Callers, pc[c] \in Working
        PROVE  rows'[own[c]] = rows[own[c]]
    BY <2>1, <1>2, CallerFacts DEF WorkInv, WorkAt, Working
  <2>2. ASSUME NEW c \in Callers, pc[c] \in {"link", "prune"}
        PROVE  ~Open(own[c])'
    BY <2>2, <1>1, CallerFacts DEF WorkInv, Open, Present
  <2> QED  BY <2>1, <2>2 DEF WorkInv, Open, Present
<1>6. BacklogInv'
  <2>1. ASSUME NEW n \in DOMAIN backlog, Open(backlog[n].id), backlog[n].id \in Ids
        PROVE  rows'[backlog[n].id] = rows[backlog[n].id]
    BY <2>1, <1>2
  <2>2. ASSUME NEW n \in DOMAIN backlog, Final(backlog[n]) \/ backlog[n].op = "persist"
        PROVE  /\ backlog[n].id \in Ids
               /\ Open(backlog[n].id)' => Open(backlog[n].id)
               /\ backlog[n].op = "persist" => Open(backlog[n].id)
    BY <2>2, <1>1, QueueFacts, OpFacts DEF BacklogInv, Open, Present
  <2> QED  BY <2>1, <2>2 DEF BacklogInv, Open, Present, Final
<1> QED  BY <1>3, <1>4, <1>5, <1>6

\* Retention after a scan: the call is over.
LEMMA PruneStep ==
  ASSUME IInv, NEW c \in Callers, Prune(c)
  PROVE  IInv'
<1> USE DEF Prune, InTurn, Goto, Quiet
<1> DEFINE S == Expired(req[c].class)
<1>1. rows' = [id \in Ids |-> IF id \in S THEN NoRow ELSE rows[id]]
  BY DEF DbPrune
<1>2. \A id \in S : Closed(id)
  BY DEF Expired
<1> HIDE DEF S
<1>3. \A id \in Ids : Present(id)' => Present(id) /\ rows'[id] = rows[id]
  BY <1>1 DEF Present
<1>4. \A id \in Ids : Open(id) => rows'[id] = rows[id]
  BY <1>1, <1>2 DEF Open, Closed, Unsettled, Terminal
<1>5. TypeOK'
  BY <1>1 DEF IInv, TypeOK, Phases
<1>6. TableInv'
  BY <1>3 DEF IInv, TableInv
<1>7. CallerInv'
  BY <1>3 DEF IInv, CallerInv, TypeOK, Ids
<1>8. WorkInv'
  <2>1. ASSUME NEW d \in Callers, pc[d] \in Working
        PROVE  rows'[own[d]] = rows[own[d]]
    BY <2>1, <1>4, CallerFacts DEF IInv, WorkInv, Working, Open, Present, TypeOK
  <2>2. ASSUME NEW d \in Callers, pc[d] \in {"link", "prune"}
        PROVE  ~Open(own[d])'
    BY <2>2, <1>3, CallerFacts DEF IInv, WorkInv, Open, Present
  <2>3. \A d \in Callers : pc'[d] = pc[d] \/ pc'[d] = "done"
    BY DEF IInv, TypeOK
  <2> QED  BY <2>1, <2>2, <2>3 DEF IInv, WorkInv, Working, Open, Present
<1>9. BacklogInv'
  BY DEF BacklogInv
<1> QED  BY <1>5, <1>6, <1>7, <1>8, <1>9 DEF IInv

\* The sweep removes abandoned rows.
LEMMA SweepAbandonedStep ==
  ASSUME IInv, SweepAbandoned
  PROVE  IInv'
<1> USE DEF SweepAbandoned, Quiet
<1> DEFINE S == {id \in Ids : Open(id) /\ rows[id].aged}
<1>1. rows' = [id \in Ids |-> IF id \in S THEN NoRow ELSE rows[id]]
  OBVIOUS
<1>2. TypeOK'
  BY <1>1 DEF IInv, TypeOK
<1> QED  BY <1>1, <1>2, RowsRemoved DEF IInv

\* A row grows old.
LEMMA RowAgesStep ==
  ASSUME IInv, NEW i \in Ids, RowAges(i)
  PROVE  IInv'
<1> USE DEF IInv, RowAges, Quiet
<1> DEFINE r == [rows[i] EXCEPT !.aged = TRUE]
<1>1. rows[i] \in Rows
  BY RowFacts
<1>2. /\ r \in Rows /\ r.key = rows[i].key /\ r.class = rows[i].class /\ r.plan = rows[i].plan
      /\ r.status = rows[i].status /\ r.comp = rows[i].comp /\ r.evidence = rows[i].evidence
  BY <1>1 DEF Rows
<1>3. rows' = [rows EXCEPT ![i] = r]
  OBVIOUS
<1> HIDE DEF r
<1>4. rows'[i] = r /\ \A id \in Ids \ {i} : rows'[id] = rows[id]
  BY <1>3 DEF TypeOK
<1>5. TypeOK'
  BY <1>2, <1>3 DEF TypeOK
<1>6. RowInv(rows[i]) => RowInv(r)
  BY <1>2 DEF RowInv, CoherentRow
<1>7. \A id \in Ids : /\ Present(id)' <=> Present(id)
                      /\ Open(id)' <=> Open(id)
  BY <1>2, <1>4, RowIsPresent DEF Present, Open
<1>8. \A id \in Ids : /\ rows'[id].key = rows[id].key /\ rows'[id].class = rows[id].class
                      /\ rows'[id].plan = rows[id].plan /\ rows'[id].comp = rows[id].comp
                      /\ rows'[id].status = rows[id].status
                      /\ rows'[id].evidence = rows[id].evidence
  BY <1>2, <1>4
<1>9. TableInv'
  BY <1>4, <1>6, <1>7, <1>8 DEF TableInv
<1>10. CallerInv'
  BY <1>7, <1>8 DEF CallerInv, TypeOK
<1>11. WorkInv'
  <2>1. ASSUME NEW c \in Callers, pc[c] \in Working
        PROVE  rows'[own[c]] = rows[own[c]]
    <3>1. own[c] \in Ids /\ Open(own[c]) /\ pc[c] # "done"
      BY <2>1, CallerFacts DEF WorkInv, Working
    <3>2. own[c] # i
      BY <3>1 DEF Referenced
    <3> QED  BY <3>1, <3>2, <1>4
  <2>2. ASSUME NEW c \in Callers, pc[c] \in {"link", "prune"}
        PROVE  ~Open(own[c])'
    BY <2>2, <1>7, CallerFacts DEF WorkInv
  <2> QED  BY <2>1, <2>2 DEF WorkInv, Open, Present
<1>12. BacklogInv'
  <2>1. ASSUME NEW n \in DOMAIN backlog, Final(backlog[n]) \/ backlog[n].op = "persist"
        PROVE  backlog[n].id \in Ids
    BY <2>1, QueueFacts, OpFacts
  <2> QED  BY <2>1, <1>7, <1>8 DEF BacklogInv, Final, CanSettle, InOrder, Backs
<1> QED  BY <1>5, <1>9, <1>10, <1>11, <1>12

\* Cancellation flags concern no row.
LEMMA UserCancelsStep ==
  ASSUME IInv, NEW c \in Callers, UserCancels(c)
  PROVE  IInv'
BY DEF IInv, UserCancels, TypeOK, TableInv, CallerInv, WorkInv, BacklogInv, Present, Open

\* A crash ends every call and empties the queue.
LEMMA CrashStep ==
  ASSUME IInv, Crash
  PROVE  IInv'
<1> USE DEF IInv, Crash
<1>1. \A c \in Callers : pc'[c] = IF pc[c] = "idle" THEN "idle" ELSE "done"
  OBVIOUS
<1>2. TypeOK'
  BY BoundsAssumption DEF TypeOK, Phases, Ops
<1>3. TableInv'
  BY DEF TableInv, Present
<1>4. CallerInv'
  BY <1>1 DEF CallerInv, Present
<1>5. WorkInv'
  BY <1>1 DEF WorkInv, Working
<1>6. BacklogInv'
  BY DEF BacklogInv
<1> QED  BY <1>2, <1>3, <1>4, <1>5, <1>6

\* A queue with one more operation.
LEMMA AppendFacts ==
  ASSUME TypeOK, NEW o \in Ops, backlog' = Append(backlog, o)
  PROVE  /\ backlog' \in Seq(Ops)
         /\ \A n \in DOMAIN backlog :
              n \in DOMAIN backlog' /\ backlog'[n] = backlog[n] /\ n < Len(backlog) + 1
         /\ backlog'[Len(backlog) + 1] = o
         /\ \A n \in DOMAIN backlog' : n \in DOMAIN backlog \/ n = Len(backlog) + 1
BY DEF TypeOK

\* What a call leaves in the queue when it gives up.
LEMMA LostOpFacts ==
  ASSUME IInv, NEW c \in Callers,
         pc[c] \in {"admit", "precheck", "start", "finish", "link", "prune"}
  PROVE  LET o == LostOp(c)
         IN  /\ o \in Ops /\ o.op # "persist"
             /\ Final(o) => pc[c] \in {"precheck", "start", "finish"} /\ o.id = own[c]
             /\ o.op = "finish" =>
                  pc[c] = "finish" /\ o.comp = at[c] /\ o.status = result[c]
<1> DEFINE o == LostOp(c)
<1>1. at[c] \in Components
  BY DEF IInv, TypeOK
<1>2. req[c] \in Requests
  BY DEF IInv, TypeOK, CallerInv
<1>3. pc[c] # "admit" => own[c] \in Ids
  BY CallerFacts DEF IInv
<1>4. CASE pc[c] = "admit"
  BY <1>2, <1>4 DEF LostOp, Ops, Final
<1>5. CASE pc[c] = "precheck"
  BY <1>1, <1>3, <1>5 DEF LostOp, Ops, Final
<1>6. CASE pc[c] = "start"
  BY <1>1, <1>3, <1>6 DEF LostOp, Ops, Final
<1>7. CASE pc[c] = "finish"
  <2>1. result[c] \in Settled
    BY <1>7 DEF IInv, WorkInv, WorkAt, Working
  <2> QED  BY <2>1, <1>1, <1>3, <1>7 DEF LostOp, Ops, Final
<1>8. CASE pc[c] = "link"
  BY <1>1, <1>3, <1>8 DEF LostOp, Ops, Final
<1>9. CASE pc[c] = "prune"
  BY <1>2, <1>9 DEF LostOp, Ops, Final, Requests
<1> QED  BY <1>4, <1>5, <1>6, <1>7, <1>8, <1>9

\* A call whose operation fails ends; a timed-out operation stays queued.
LEMMA CallFailsStep ==
  ASSUME IInv, NEW c \in Callers, NEW queued \in BOOLEAN, CallFails(c, queued)
  PROVE  IInv'
<1> USE DEF CallFails, Fault, Goto
<1> DEFINE o == LostOp(c)
<1>1. faults' \in 0 .. MaxFaults /\ pc[c] \notin {"idle", "done"}
  BY BoundsAssumption DEF IInv, TypeOK
<1>2. CASE ~queued
  BY <1>1, <1>2, CallEnds
<1>3. CASE queued
  <2>1. /\ o \in Ops /\ o.op # "persist"
        /\ Final(o) => pc[c] \in {"precheck", "start", "finish"} /\ o.id = own[c]
        /\ o.op = "finish" => pc[c] = "finish" /\ o.comp = at[c] /\ o.status = result[c]
    BY LostOpFacts
  <2>2. backlog' = Append(backlog, o)
    BY <1>3
  <2> HIDE DEF o
  <2> USE DEF IInv
  <2> DEFINE L == Len(backlog) + 1
  <2>3. /\ backlog' \in Seq(Ops)
        /\ \A n \in DOMAIN backlog : n \in DOMAIN backlog' /\ backlog'[n] = backlog[n] /\ n < L
        /\ backlog'[L] = o
        /\ \A n \in DOMAIN backlog' : n \in DOMAIN backlog \/ n = L
    BY <2>1, <2>2, AppendFacts
  <2> HIDE DEF L
  <2>4. TypeOK'
    BY <1>1, <2>3 DEF TypeOK, Phases
  <2>5. TableInv' /\ CallerInv' /\ WorkInv'
    BY DEF TableInv, CallerInv, WorkInv, TypeOK, Working, Present, Open
  <2>6. BacklogInv'
    <3>1. \A d \in Callers : pc'[d] = IF d = c THEN "done" ELSE pc[d]
      BY DEF TypeOK
    <3>2. ASSUME Final(o)
          PROVE  /\ o.id < nextId
                 /\ \A d \in Callers : own[d] = o.id => pc'[d] = "done"
                 /\ \A m \in DOMAIN backlog' : Final(backlog'[m]) /\ backlog'[m].id = o.id => m = L
      BY <3>1, <3>2, <2>1, <2>3, CallerFacts, NothingQueuedFor
    <3>3. ASSUME o.op = "finish", Open(o.id)
          PROVE  CanSettle(rows[o.id], o.comp) /\ Backs(rows[o.id], o.comp, o.status)
      BY <3>3, <2>1 DEF WorkInv, WorkAt, Working, Final
    <3>4. ASSUME NEW n \in DOMAIN backlog, Final(backlog[n])
          PROVE  \A m \in DOMAIN backlog' :
                   Final(backlog'[m]) /\ backlog'[m].id = backlog[n].id => m = n
      BY <3>4, <1>1, <2>1, <2>3, NothingQueuedFor DEF BacklogInv
    <3>5. ASSUME NEW n \in DOMAIN backlog, backlog[n].op = "persist"
          PROVE  \A m \in DOMAIN backlog' :
                   backlog'[m].op = "finish" /\ backlog'[m].id = backlog[n].id =>
                     backlog'[m].status = "failed" /\ n < m
      BY <3>5, <1>1, <2>1, <2>3, NothingQueuedFor DEF BacklogInv, Final
    <3>6. ASSUME NEW n \in DOMAIN backlog
          PROVE  LET p == backlog[n]
                 IN  /\ Final(p) => /\ p.id < nextId
                                    /\ \A d \in Callers : own[d] = p.id => pc'[d] = "done"
                     /\ p.op = "finish" /\ Open(p.id) =>
                          CanSettle(rows[p.id], p.comp) /\ Backs(rows[p.id], p.comp, p.status)
                     /\ p.op = "persist" =>
                          /\ Open(p.id) /\ rows[p.id].comp[p.comp] = "running"
                          /\ \A d \in Callers :
                               own[d] = p.id /\ pc'[d] # "done" =>
                                 at[d] = p.comp /\ pc'[d] = "finish" /\ result[d] = "failed"
      BY <3>1 DEF BacklogInv
    <3> QED  BY <2>1, <2>3, <3>2, <3>3, <3>4, <3>5, <3>6 DEF BacklogInv, Open, Present, Final
  <2> QED  BY <2>4, <2>5, <2>6
<1> QED  BY <1>2, <1>3

\* A failed write of a run fails its component; the write may stay queued.
LEMMA PersistFailsStep ==
  ASSUME IInv, NEW c \in Callers, NEW amount \in {"some", "all"}, NEW queued \in BOOLEAN,
         PersistFails(c, amount, queued)
  PROVE  IInv'
<1> USE DEF IInv, PersistFails, Fault, Goto
<1> DEFINE o == [op |-> "persist", id |-> own[c], comp |-> at[c], amount |-> amount]
           L == Len(backlog) + 1
<1>1. faults' \in 0 .. MaxFaults /\ pc[c] = "collect"
  BY BoundsAssumption DEF TypeOK
<1>2. /\ own[c] \in Ids /\ Open(own[c]) /\ at[c] \in Components
      /\ WorkAt("collect", rows[own[c]], at[c], result[c])
      /\ \A d \in Callers : own[d] = own[c] => d = c
  BY <1>1, CallerFacts DEF WorkInv, Working, TypeOK
<1>3. o \in Ops /\ o.op = "persist" /\ o.id = own[c] /\ o.comp = at[c] /\ ~Final(o)
  BY <1>2 DEF Ops, Final
<1>4. backlog' = backlog \/ backlog' = Append(backlog, o)
  OBVIOUS
<1> HIDE DEF o
<1>5. /\ backlog' \in Seq(Ops)
      /\ \A n \in DOMAIN backlog : n \in DOMAIN backlog' /\ backlog'[n] = backlog[n] /\ n < L
      /\ \A n \in DOMAIN backlog' : n \in DOMAIN backlog \/ (n = L /\ backlog'[n] = o)
  <2>1. CASE backlog' = backlog
    BY <2>1 DEF TypeOK
  <2>2. CASE backlog' = Append(backlog, o)
    BY <2>2, <1>3, AppendFacts
  <2> QED  BY <1>4, <2>1, <2>2
<1> HIDE DEF L
<1>6. \A d \in Callers : /\ pc'[d] = IF d = c THEN "finish" ELSE pc[d]
                         /\ result'[d] = IF d = c THEN "failed" ELSE result[d]
  BY DEF TypeOK
<1>7. TypeOK'
  BY <1>1, <1>5 DEF TypeOK, Phases, Results, Settled
<1>8. TableInv'
  BY DEF TableInv, Present
<1>9. CallerInv'
  BY <1>1, <1>6 DEF CallerInv, Present
<1>10. WorkAt("finish", rows[own[c]], at[c], "failed")
  BY <1>2 DEF WorkAt, CanSettle, Backs, Settled
<1>11. WorkInv'
  BY <1>2, <1>6, <1>10 DEF WorkInv, Working, Open, Present
<1>12. BacklogInv'
  <2>1. ASSUME NEW n \in DOMAIN backlog', n \notin DOMAIN backlog
        PROVE  /\ backlog'[n] = o /\ Open(o.id) /\ rows[o.id].comp[o.comp] = "running"
               /\ \A d \in Callers : own[d] = o.id /\ pc'[d] # "done" =>
                    at[d] = o.comp /\ pc'[d] = "finish" /\ result'[d] = "failed"
               /\ \A m \in DOMAIN backlog' : ~(backlog'[m].op = "finish" /\ backlog'[m].id = o.id)
    BY <2>1, <1>1, <1>2, <1>3, <1>5, <1>6, NothingQueuedFor DEF WorkAt, Final
  <2>2. ASSUME NEW n \in DOMAIN backlog, NEW m \in DOMAIN backlog',
               Final(backlog'[m])
        PROVE  m \in DOMAIN backlog /\ backlog'[m] = backlog[m]
    BY <2>2, <1>3, <1>5
  <2>3. ASSUME NEW n \in DOMAIN backlog
        PROVE  LET p == backlog[n]
               IN  /\ Final(p) => /\ p.id < nextId
                                  /\ \A d \in Callers : own[d] = p.id => pc'[d] = "done"
                   /\ p.op = "finish" /\ Open(p.id) =>
                        CanSettle(rows[p.id], p.comp) /\ Backs(rows[p.id], p.comp, p.status)
                   /\ p.op = "persist" =>
                        /\ Open(p.id) /\ rows[p.id].comp[p.comp] = "running"
                        /\ \A d \in Callers :
                             own[d] = p.id /\ pc'[d] # "done" =>
                               at[d] = p.comp /\ pc'[d] = "finish" /\ result'[d] = "failed"
    BY <1>1, <1>6, NothingQueuedFor DEF BacklogInv
  <2>4. ASSUME NEW n \in DOMAIN backlog
        PROVE  /\ Final(backlog[n]) =>
                    \A m \in DOMAIN backlog' :
                      Final(backlog'[m]) /\ backlog'[m].id = backlog[n].id => m = n
               /\ backlog[n].op = "persist" =>
                    \A m \in DOMAIN backlog' :
                      backlog'[m].op = "finish" /\ backlog'[m].id = backlog[n].id =>
                        backlog'[m].status = "failed" /\ n < m
    BY <2>2 DEF BacklogInv, Final
  <2> QED  BY <1>3, <1>5, <2>1, <2>3, <2>4 DEF BacklogInv, Open, Present, Final
<1> QED  BY <1>7, <1>8, <1>9, <1>11, <1>12

-----------------------------------------------------------------------------
(* The worker reaches an operation nobody waits for.                       *)

\* A queue without its head.
LEMMA TailFacts ==
  ASSUME TypeOK, backlog # <<>>, backlog' = Tail(backlog)
  PROVE  /\ backlog' \in Seq(Ops) /\ 1 \in DOMAIN backlog /\ Head(backlog) = backlog[1]
         /\ \A n \in DOMAIN backlog' :
              n \in Nat /\ n >= 1 /\ n + 1 \in DOMAIN backlog /\ backlog'[n] = backlog[n + 1]
BY DEF TypeOK

\* The rows stay as an operation p behind the head needs them.
Undisturbed(p) ==
  /\ p.op = "finish" /\ Open(p.id)' =>
       CanSettle(rows'[p.id], p.comp) /\ Backs(rows'[p.id], p.comp, p.status)
  /\ p.op = "persist" => Open(p.id)' /\ rows'[p.id].comp[p.comp] = "running"

\* The operations behind the head keep what they rely on.
LEMMA DrainKeepsBacklog ==
  ASSUME IInv, backlog # <<>>, backlog' = Tail(backlog),
         UNCHANGED <<pc, at, own, result>>, nextId' \in {nextId, nextId + 1},
         \A p \in Ops : \A n \in DOMAIN backlog : n # 1 /\ p = backlog[n] => Undisturbed(p)
  PROVE  BacklogInv'
<1> USE DEF IInv
<1>1. /\ 1 \in DOMAIN backlog
      /\ \A n \in DOMAIN backlog' :
           /\ n \in Nat /\ n >= 1 /\ n + 1 \in DOMAIN backlog /\ n + 1 # 1
           /\ backlog'[n] = backlog[n + 1]
  BY TailFacts
<1>2. nextId \in Nat /\ nextId' \in Nat
  BY BoundsAssumption DEF TypeOK
<1>3. ASSUME NEW n \in DOMAIN backlog', NEW p, p = backlog'[n]
      PROVE  /\ Final(p) => /\ p.id < nextId'
                            /\ \A d \in Callers : own'[d] = p.id => pc'[d] = "done"
                            /\ \A m \in DOMAIN backlog' :
                                 Final(backlog'[m]) /\ backlog'[m].id = p.id => m = n
             /\ p.op = "finish" /\ Open(p.id)' =>
                  CanSettle(rows'[p.id], p.comp) /\ Backs(rows'[p.id], p.comp, p.status)
             /\ p.op = "persist" =>
                  /\ Open(p.id)' /\ rows'[p.id].comp[p.comp] = "running"
                  /\ \A d \in Callers :
                       own'[d] = p.id /\ pc'[d] # "done" =>
                         at'[d] = p.comp /\ pc'[d] = "finish" /\ result'[d] = "failed"
                  /\ \A m \in DOMAIN backlog' :
                       backlog'[m].op = "finish" /\ backlog'[m].id = p.id =>
                         backlog'[m].status = "failed" /\ n < m
  <2>1. n + 1 \in DOMAIN backlog /\ n + 1 # 1 /\ p = backlog[n + 1] /\ n \in Nat
    BY <1>1, <1>3
  <2>2. ASSUME Final(p)
        PROVE  /\ p.id < nextId'
               /\ \A d \in Callers : own'[d] = p.id => pc'[d] = "done"
    <3>1. p.id \in Ids /\ p.id < nextId
      BY <2>1, <2>2, QueueFacts, OpFacts DEF BacklogInv
    <3> QED  BY <1>2, <2>1, <2>2, <3>1 DEF BacklogInv, Ids
  <2>3. ASSUME Final(p), NEW m \in DOMAIN backlog', Final(backlog'[m]), backlog'[m].id = p.id
        PROVE  m = n
    <3>1. m + 1 = n + 1
      BY <1>1, <2>1, <2>3 DEF BacklogInv
    <3> QED  BY <3>1, <1>1, <2>1
  <2>4. ASSUME p.op = "persist", NEW m \in DOMAIN backlog',
               backlog'[m].op = "finish", backlog'[m].id = p.id
        PROVE  backlog'[m].status = "failed" /\ n < m
    <3>1. backlog[m + 1].status = "failed" /\ n + 1 < m + 1
      BY <1>1, <2>1, <2>4 DEF BacklogInv
    <3> QED  BY <3>1, <1>1, <2>1
  <2>5. ASSUME p.op = "persist", NEW d \in Callers, own'[d] = p.id, pc'[d] # "done"
        PROVE  at'[d] = p.comp /\ pc'[d] = "finish" /\ result'[d] = "failed"
    BY <2>1, <2>5 DEF BacklogInv
  <2>6. /\ p.op = "finish" /\ Open(p.id)' =>
             CanSettle(rows'[p.id], p.comp) /\ Backs(rows'[p.id], p.comp, p.status)
        /\ p.op = "persist" => Open(p.id)' /\ rows'[p.id].comp[p.comp] = "running"
    <3>1. Undisturbed(p)
      BY <2>1, QueueFacts
    <3> QED  BY <3>1 DEF Undisturbed
  <2> QED  BY <2>2, <2>3, <2>4, <2>5, <2>6
<1> QED  BY <1>3 DEF BacklogInv, Open, Present, Final

\* A drained operation that rewrites one row, which no call still works on
\* (unless it is a late run of a component about to be reported failed).
RewritesRow(i, r) ==
  /\ i \in Ids /\ Present(i) /\ r \in Rows /\ RowInv(r)
  /\ r.key = rows[i].key /\ r.class = rows[i].class /\ r.plan = rows[i].plan
  /\ rows' = [rows EXCEPT ![i] = r]
  /\ \A c \in Callers : own[c] = i /\ pc[c] # "done" =>
       /\ pc[c] = "finish" /\ result[c] = "failed"
       /\ r.status = rows[i].status /\ r.comp = rows[i].comp /\ r.aged = rows[i].aged
  /\ UNCHANGED <<nextId, pc, at, req, own, result>>

\* Such an operation keeps the table and the callers right.
LEMMA RewriteKeeps ==
  ASSUME IInv, NEW i, NEW r, RewritesRow(i, r)
  PROVE  /\ rows' \in [Ids -> Rows \cup {NoRow}]
         /\ rows'[i] = r /\ \A id \in Ids \ {i} : rows'[id] = rows[id]
         /\ TableInv' /\ CallerInv' /\ WorkInv'
<1> USE DEF IInv, RewritesRow
<1>1. rows'[i] = r /\ \A id \in Ids \ {i} : rows'[id] = rows[id]
  BY DEF TypeOK
<1>2. rows' \in [Ids -> Rows \cup {NoRow}]
  BY DEF TypeOK
<1>3. \A id \in Ids : Present(id)' => /\ Present(id) /\ rows'[id].key = rows[id].key
                                      /\ rows'[id].class = rows[id].class
                                      /\ rows'[id].plan = rows[id].plan
                                      /\ RowInv(rows'[id])
  BY <1>1 DEF Present, TableInv
<1>4. TableInv'
  BY <1>3 DEF TableInv
<1>5. CallerInv'
  BY <1>3 DEF CallerInv, TypeOK
<1>6. WorkInv'
  <2>1. ASSUME NEW c \in Callers, pc[c] \in Working
        PROVE  Open(own[c])' /\ WorkAt(pc[c], rows'[own[c]], at[c], result[c])
    <3>1. own[c] \in Ids /\ Open(own[c]) /\ WorkAt(pc[c], rows[own[c]], at[c], result[c])
      BY <2>1, CallerFacts DEF WorkInv, Working
    <3>2. CASE own[c] # i
      BY <3>1, <3>2, <1>1 DEF Open, Present
    <3>3. CASE own[c] = i
      <4>1. /\ pc[c] = "finish" /\ result[c] = "failed"
            /\ r.status = rows[i].status /\ r.comp = rows[i].comp /\ r.aged = rows[i].aged
        BY <2>1, <3>3 DEF Working
      <4>2. Open(own[c])'
        BY <4>1, <3>1, <3>3, <1>1, RowIsPresent DEF Open, Present
      <4>3. WorkAt("finish", r, at[c], "failed")
        BY <4>1, <3>1, <3>3 DEF WorkAt, CanSettle, InOrder, Backs
      <4> QED  BY <4>1, <4>2, <4>3, <3>3, <1>1
    <3> QED  BY <3>2, <3>3
  <2>2. ASSUME NEW c \in Callers, pc[c] \in {"link", "prune"}
        PROVE  ~Open(own[c])'
    <3>1. own[c] \in Ids /\ own[c] # i
      BY <2>2, CallerFacts
    <3> QED  BY <2>2, <3>1, <1>1 DEF WorkInv, Open, Present
  <2> QED  BY <2>1, <2>2 DEF WorkInv
<1> QED  BY <1>1, <1>2, <1>4, <1>5, <1>6

\* What the operation at the head and those behind it say of the same row.
LEMMA BehindHead ==
  ASSUME IInv, backlog # <<>>, NEW o, o = Head(backlog),
         NEW n \in DOMAIN backlog, n # 1, NEW p, p = backlog[n]
  PROVE  /\ o \in Ops /\ p \in Ops
         /\ Final(o) /\ Final(p) => p.id # o.id
         /\ p.op = "finish" \/ p.op = "persist" => p.id \in Ids /\ p.comp \in Components
         /\ p.op = "finish" /\ Open(p.id) =>
              CanSettle(rows[p.id], p.comp) /\ Backs(rows[p.id], p.comp, p.status)
         /\ p.op = "finish" /\ o.op = "persist" /\ o.id = p.id => p.status = "failed"
         /\ p.op = "persist" =>
              /\ Open(p.id) /\ rows[p.id].comp[p.comp] = "running"
              /\ o.op = "finish" => o.id # p.id
<1> USE DEF IInv
<1>1. /\ 1 \in DOMAIN backlog /\ Head(backlog) = backlog[1]
      /\ backlog[1] \in Ops /\ backlog[n] \in Ops
  BY DEF TypeOK
<1>2. n \in Nat /\ n > 1
  BY QueueFacts
<1>3. backlog[n].op = "persist" /\ backlog[1].op = "finish" => backlog[1].id # backlog[n].id
  BY <1>1, <1>2 DEF BacklogInv
<1> QED  BY <1>1, <1>2, <1>3, OpFacts DEF BacklogInv, Final

\* The drained operation is a start, a cancel, a run or a settlement.
LEMMA DrainRow ==
  ASSUME IInv, DrainBacklog, NEW o, o = Head(backlog),
         o.op \in {"start", "cancel", "persist", "finish"}
  PROVE  IInv'
<1> DEFINE old == rows[o.id]
<1>1. o = backlog[1] /\ 1 \in DOMAIN backlog /\ o \in Ops
  BY DEF IInv, TypeOK, DrainBacklog
<1>2. /\ o.id \in Ids /\ o.comp \in Components
      /\ o.op = "persist" => o.amount \in {"some", "all"}
      /\ o.op = "finish" => o.status \in Settled
  BY <1>1, OpFacts DEF Final
<1>3. o.op # "persist" => \A c \in Callers : own[c] = o.id => pc[c] = "done"
  BY <1>1 DEF IInv, BacklogInv, Final
<1>4. Present(o.id) => old \in Rows /\ RowInv(old)
  BY <1>2, RowFacts DEF IInv, TableInv
<1>5. /\ nextId' = nextId /\ UNCHANGED <<pc, at, req, own, result, flagged, faults, crashes>>
      /\ backlog # <<>> /\ backlog' = Tail(backlog)
      /\ o.op = "start" => rows' = DbStart(o.id, o.comp)
      /\ o.op = "cancel" => rows' = DbCancel(o.id)
      /\ o.op = "persist" => rows' = DbPersist(o.id, o.comp, o.amount)
      /\ o.op = "finish" => rows' = DbFinish(o.id, o.comp, o.status)
  BY DEF DrainBacklog
<1>6. CASE rows' = rows
  <2>1. TypeOK'
    BY <1>5, <1>6, TailFacts DEF IInv, TypeOK
  <2>2. TableInv' /\ CallerInv' /\ WorkInv'
    BY <1>5, <1>6 DEF IInv, TableInv, CallerInv, WorkInv, Present, Open
  <2>3. ASSUME NEW p \in Ops, NEW n \in DOMAIN backlog, n # 1, p = backlog[n]
        PROVE  Undisturbed(p)
    BY <1>5, <1>6, <2>3, BehindHead DEF Undisturbed, Open, Present
  <2>4. BacklogInv'
    BY <1>5, <2>3, DrainKeepsBacklog
  <2> QED  BY <2>1, <2>2, <2>4 DEF IInv
<1>7. ASSUME NEW r, RewritesRow(o.id, r),
             \A p \in Ops : \A n \in DOMAIN backlog : n # 1 /\ p = backlog[n] /\ p.id = o.id =>
               /\ p.op = "finish" /\ r.status \in Unsettled =>
                    CanSettle(r, p.comp) /\ Backs(r, p.comp, p.status)
               /\ p.op = "persist" => r.status \in Unsettled /\ r.comp[p.comp] = "running"
      PROVE  IInv'
  <2>1. /\ rows' \in [Ids -> Rows \cup {NoRow}]
        /\ rows'[o.id] = r /\ \A id \in Ids \ {o.id} : rows'[id] = rows[id]
        /\ TableInv' /\ CallerInv' /\ WorkInv'
    BY <1>7, RewriteKeeps
  <2>2. TypeOK'
    BY <1>5, <2>1, TailFacts DEF IInv, TypeOK
  <2>3. \A id \in Ids \ {o.id} : Open(id)' <=> Open(id)
    BY <2>1 DEF Open, Present
  <2>4. Open(o.id)' <=> r.status \in Unsettled
    <3>1. r \in Rows
      BY <1>7 DEF RewritesRow
    <3> QED  BY <2>1, <3>1, RowIsPresent DEF Open, Present
  <2>5. ASSUME NEW p \in Ops, NEW n \in DOMAIN backlog, n # 1, p = backlog[n]
        PROVE  Undisturbed(p)
    <3>1. CASE p.id = o.id
      BY <3>1, <1>7, <2>1, <2>4, <2>5 DEF Undisturbed
    <3>2. CASE p.id # o.id
      BY <3>2, <1>5, <2>1, <2>3, <2>5, BehindHead DEF Undisturbed
    <3> QED  BY <3>1, <3>2
  <2>6. BacklogInv'
    BY <1>5, <2>5, DrainKeepsBacklog
  <2> QED  BY <2>1, <2>2, <2>6 DEF IInv
<1>8. CASE o.op = "start" /\ CanStart(o.id, o.comp)
  <2> DEFINE r == [old EXCEPT !.status = "running", !.comp[o.comp] = "running"]
  <2>1. Open(o.id) /\ Present(o.id) /\ old.comp[o.comp] = "planned"
    BY <1>8 DEF CanStart, Open
  <2>2. r \in Rows /\ RowInv(r)
    BY <1>2, <1>4, <2>1, StartRow DEF Open
  <2>3. /\ r.key = old.key /\ r.class = old.class /\ r.plan = old.plan /\ r.status = "running"
        /\ \A k \in Components : old.comp[k] = "running" => r.comp[k] = "running"
    BY <1>2, <1>4, <2>1 DEF Rows
  <2>4. rows' = [rows EXCEPT ![o.id] = r]
    BY <1>5, <1>8, <1>2 DEF DbStart, IInv, TypeOK
  <2> HIDE DEF r
  <2>5. RewritesRow(o.id, r)
    BY <1>2, <1>3, <1>5, <1>8, <2>1, <2>2, <2>3, <2>4 DEF RewritesRow
  <2>6. ASSUME NEW p \in Ops, NEW n \in DOMAIN backlog, n # 1, p = backlog[n], p.id = o.id
        PROVE  /\ p.op # "finish"
               /\ p.op = "persist" =>
                    r.status \in Unsettled /\ r.comp[p.comp] = "running"
    BY <1>5, <1>8, <2>3, <2>6, BehindHead DEF Final, Unsettled
  <2> QED  BY <1>7, <2>5, <2>6
<1>9. CASE o.op = "cancel" /\ Present(o.id) /\ old.status = "planned"
  <2> DEFINE r == [old EXCEPT !.status = "cancelled",
                              !.comp = [k \in Components |->
                                  IF @[k] = "planned" THEN "cancelled" ELSE @[k]]]
  <2>1. r \in Rows /\ RowInv(r)
    BY <1>4, <1>9, CancelRow
  <2>2. r.key = old.key /\ r.class = old.class /\ r.plan = old.plan /\ r.status = "cancelled"
    BY <1>4, <1>9 DEF Rows
  <2>3. rows' = [rows EXCEPT ![o.id] = r]
    BY <1>5, <1>9, <1>2 DEF DbCancel, IInv, TypeOK
  <2> HIDE DEF r
  <2>4. RewritesRow(o.id, r)
    BY <1>2, <1>3, <1>5, <1>9, <2>1, <2>2, <2>3 DEF RewritesRow
  <2>5. \A k \in Components : old.comp[k] # "running"
    BY <1>4, <1>9 DEF RowInv, CoherentRow, Rows, AllPlans, PlannedStatus
  <2>6. ASSUME NEW p \in Ops, NEW n \in DOMAIN backlog, n # 1, p = backlog[n], p.id = o.id
        PROVE  p.op # "finish" /\ p.op # "persist"
    BY <1>5, <1>9, <2>5, <2>6, BehindHead DEF Final
  <2> QED  BY <1>7, <2>4, <2>6
<1>10. CASE o.op = "persist"
  <2> DEFINE r == [old EXCEPT !.evidence[o.comp] = o.amount]
  <2>1. /\ Open(o.id) /\ Present(o.id) /\ old.comp[o.comp] = "running"
        /\ \A c \in Callers : own[c] = o.id /\ pc[c] # "done" =>
             pc[c] = "finish" /\ result[c] = "failed"
    BY <1>1, <1>10 DEF IInv, BacklogInv, Open
  <2>2. r \in Rows /\ RowInv(r)
    BY <1>2, <1>4, <1>10, <2>1, PersistRow DEF Delivered
  <2>3. /\ r.key = old.key /\ r.class = old.class /\ r.plan = old.plan /\ r.status = old.status
        /\ r.comp = old.comp /\ r.aged = old.aged
    BY <1>4, <2>1 DEF Rows
  <2>4. rows' = [rows EXCEPT ![o.id] = r]
    BY <1>5, <1>10, <1>2, <2>1 DEF DbPersist, IInv, TypeOK
  <2> HIDE DEF r
  <2>5. RewritesRow(o.id, r)
    BY <1>2, <1>5, <1>10, <2>1, <2>2, <2>3, <2>4 DEF RewritesRow
  <2>6. ASSUME NEW p \in Ops, NEW n \in DOMAIN backlog, n # 1, p = backlog[n], p.id = o.id
        PROVE  /\ p.op = "finish" =>
                    CanSettle(r, p.comp) /\ Backs(r, p.comp, p.status)
               /\ p.op = "persist" =>
                    r.status \in Unsettled /\ r.comp[p.comp] = "running"
    BY <1>5, <1>10, <2>1, <2>3, <2>6, BehindHead DEF CanSettle, InOrder, Backs, Open
  <2> QED  BY <1>7, <2>5, <2>6
<1>11. CASE o.op = "finish" /\ Open(o.id)
  <2> DEFINE r == FinishedRow(old, o.comp, o.status)
  <2>1. Present(o.id) /\ CanSettle(old, o.comp) /\ Backs(old, o.comp, o.status)
    BY <1>1, <1>11 DEF IInv, BacklogInv, Open
  <2>2. r \in Rows /\ RowInv(r) /\ r.key = old.key /\ r.class = old.class /\ r.plan = old.plan
    BY <1>2, <1>4, <1>11, <2>1, FinishRow DEF Open
  <2>3. rows' = [rows EXCEPT ![o.id] = r]
    BY <1>5, <1>11, <1>2, <1>4, <2>1 DEF DbFinish, FinishedRow, IInv, TypeOK
  <2> HIDE DEF r
  <2>4. RewritesRow(o.id, r)
    BY <1>2, <1>3, <1>5, <1>11, <2>1, <2>2, <2>3 DEF RewritesRow
  <2>5. ASSUME NEW p \in Ops, NEW n \in DOMAIN backlog, n # 1, p = backlog[n], p.id = o.id
        PROVE  p.op # "finish" /\ p.op # "persist"
    BY <1>5, <1>11, <2>5, BehindHead DEF Final
  <2> QED  BY <1>7, <2>4, <2>5
<1>12. \/ rows' = rows
       \/ o.op = "start" /\ CanStart(o.id, o.comp)
       \/ o.op = "cancel" /\ Present(o.id) /\ old.status = "planned"
       \/ o.op = "persist"
       \/ o.op = "finish" /\ Open(o.id)
  <2>1. o.op = "start" /\ ~CanStart(o.id, o.comp) => rows' = rows
    BY <1>5 DEF DbStart
  <2>2. o.op = "cancel" /\ ~(Present(o.id) /\ old.status = "planned") => rows' = rows
    BY <1>5 DEF DbCancel
  <2>3. o.op = "finish" /\ ~Open(o.id) => rows' = rows
    BY <1>5 DEF DbFinish
  <2> HIDE DEF old
  <2> QED  BY <2>1, <2>2, <2>3
<1> QED  BY <1>6, <1>8, <1>9, <1>10, <1>11, <1>12

\* The drained operation is an admission: its row belongs to nobody.
LEMMA DrainAdmit ==
  ASSUME IInv, DrainBacklog, NEW o, o = Head(backlog), o.op = "admit"
  PROVE  IInv'
<1> DEFINE r == NewRow(o.req)
<1>1. o = backlog[1] /\ 1 \in DOMAIN backlog /\ o \in Ops /\ o.req \in Requests
  BY OpFacts DEF IInv, TypeOK, DrainBacklog
<1>2. /\ UNCHANGED <<pc, at, req, own, result, flagged, faults, crashes>>
      /\ backlog # <<>> /\ backlog' = Tail(backlog)
      /\ rows' = DbAdmit(o.req)
      /\ nextId' = IF CanInsert(o.req) THEN nextId + 1 ELSE nextId
  BY DEF DrainBacklog
<1>3. r \in Rows /\ RowInv(r) /\ r # NoRow /\ r.key = o.req.key
  BY <1>1, NewRowInv DEF NewRow
<1>4. nextId \in Nat /\ nextId + 1 \in Nat
  BY DEF IInv, TypeOK
<1>5. ~CanInsert(o.req) => rows' = rows
  BY <1>2 DEF DbAdmit
<1>6. CanInsert(o.req) =>
        /\ nextId \in Ids /\ rows'[nextId] = r /\ rows' = [rows EXCEPT ![nextId] = r]
        /\ \A id \in Ids : Present(id) => rows[id].key # r.key
  BY <1>2, <1>3 DEF DbAdmit, CanInsert, Holder, IInv, TypeOK
<1> HIDE DEF r
<1>7. \A id \in Ids : id < nextId \/ Present(id) => rows'[id] = rows[id]
  <2>1. \A id \in Ids : Present(id) => id < nextId
    BY <1>4, BoundsAssumption DEF IInv, TableInv, Ids
  <2>2. CanInsert(o.req) => \A id \in Ids : id < nextId => rows'[id] = rows[id]
    BY <1>4, <1>6 DEF IInv, TypeOK
  <2> QED  BY <1>5, <2>1, <2>2
<1>8. TypeOK'
  <2>1. nextId' \in 1 .. MaxRows + 1
    BY <1>2, <1>6, BoundsAssumption DEF IInv, TypeOK, Ids
  <2>2. rows' \in [Ids -> Rows \cup {NoRow}]
    BY <1>3, <1>5, <1>6 DEF IInv, TypeOK
  <2> QED  BY <2>1, <2>2, <1>2, TailFacts DEF IInv, TypeOK
<1>9. TableInv'
  <2>1. CASE ~CanInsert(o.req)
    BY <2>1, <1>2, <1>5 DEF IInv, TableInv, Present
  <2>2. CASE CanInsert(o.req)
    <3>1. \A id \in Ids \ {nextId} : rows'[id] = rows[id]
      BY <2>2, <1>6 DEF IInv, TypeOK
    <3>2. \A id \in Ids : id >= nextId' => ~Present(id)'
      BY <2>2, <1>2, <1>4, <3>1 DEF IInv, TableInv, Present, Ids
    <3>3. \A i, j \in Ids : Present(i)' /\ Present(j)' /\ rows'[i].key = rows'[j].key => i = j
      BY <2>2, <1>3, <1>6, <3>1 DEF IInv, TableInv, Present
    <3>4. \A id \in Ids : Present(id)' => RowInv(rows'[id])
      BY <2>2, <1>3, <1>6, <3>1 DEF IInv, TableInv, Present
    <3> QED  BY <3>2, <3>3, <3>4 DEF TableInv
  <2> QED  BY <2>1, <2>2
<1>10. \A c \in Callers : own[c] # 0 => rows'[own[c]] = rows[own[c]] /\ own[c] < nextId'
  BY <1>2, <1>4, <1>7 DEF IInv, TypeOK, CallerInv, Ids
<1>11. CallerInv'
  BY <1>2, <1>10 DEF IInv, CallerInv, Present
<1>12. WorkInv'
  <2>1. \A c \in Callers : pc[c] \notin {"idle", "admit", "done"} => own[c] # 0
    BY DEF IInv, CallerInv
  <2> QED  BY <2>1, <1>2, <1>10 DEF IInv, WorkInv, Working, Present, Open
<1>13. BacklogInv'
  <2>1. ASSUME NEW p \in Ops, NEW n \in DOMAIN backlog, n # 1, p = backlog[n]
        PROVE  Undisturbed(p)
    <3>1. p.op = "finish" => p.id \in Ids /\ p.id < nextId
      BY <2>1, OpFacts DEF IInv, BacklogInv, Final
    <3>2. p.op = "persist" => p.id \in Ids /\ Present(p.id)
      BY <2>1, OpFacts DEF IInv, BacklogInv, Open
    <3> QED  BY <2>1, <3>1, <3>2, <1>2, <1>7, BehindHead DEF Undisturbed, Open, Present
  <2> QED  BY <2>1, <1>2, DrainKeepsBacklog
<1> QED  BY <1>8, <1>9, <1>11, <1>12, <1>13 DEF IInv

\* The drained operation is a retention pass or a score link.
LEMMA DrainRest ==
  ASSUME IInv, DrainBacklog, NEW o, o = Head(backlog), o.op \in {"prune", "link"}
  PROVE  IInv'
<1>1. /\ UNCHANGED <<nextId, pc, at, req, own, result, flagged, faults, crashes>>
      /\ backlog # <<>> /\ backlog' = Tail(backlog)
      /\ rows' = IF o.op = "prune" THEN DbPrune(o.class) ELSE rows
  BY DEF DrainBacklog
<1>2. \A id \in Ids : rows'[id] = rows[id] \/ (rows'[id] = NoRow /\ Closed(id))
  BY <1>1 DEF DbPrune, Expired
<1>3. \A id \in Ids : /\ Present(id)' => Present(id) /\ rows'[id] = rows[id]
                      /\ Open(id) => rows'[id] = rows[id]
  BY <1>2 DEF Present, Open, Closed, Unsettled, Terminal
<1>4. TypeOK'
  <2>1. rows' \in [Ids -> Rows \cup {NoRow}]
    BY <1>1 DEF DbPrune, IInv, TypeOK
  <2> QED  BY <2>1, <1>1, TailFacts DEF IInv, TypeOK
<1>5. TableInv'
  BY <1>1, <1>3 DEF IInv, TableInv
<1>6. CallerInv'
  BY <1>1, <1>3 DEF IInv, CallerInv, TypeOK, Ids
<1>7. WorkInv'
  <2>1. ASSUME NEW c \in Callers, pc[c] \in Working
        PROVE  rows'[own[c]] = rows[own[c]]
    BY <2>1, <1>3, CallerFacts DEF IInv, WorkInv, Working
  <2>2. ASSUME NEW c \in Callers, pc[c] \in {"link", "prune"}
        PROVE  ~Open(own[c])'
    <3>1. own[c] \in Ids /\ ~Open(own[c])
      BY <2>2, CallerFacts DEF IInv, WorkInv
    <3> QED  BY <3>1, <1>1, <1>3 DEF Open, Present
  <2> QED  BY <2>1, <2>2, <1>1 DEF IInv, WorkInv, Open, Present
<1>8. BacklogInv'
  <2>1. ASSUME NEW p \in Ops, NEW n \in DOMAIN backlog, n # 1, p = backlog[n]
        PROVE  Undisturbed(p)
    BY <2>1, <1>1, <1>3, BehindHead DEF Undisturbed, Open, Present
  <2> QED  BY <2>1, <1>1, DrainKeepsBacklog
<1> QED  BY <1>4, <1>5, <1>6, <1>7, <1>8 DEF IInv

\* Whatever the drained operation is, the invariant holds after it.
LEMMA DrainBacklogStep ==
  ASSUME IInv, DrainBacklog
  PROVE  IInv'
<1>1. PICK o : o = Head(backlog)
  OBVIOUS
<1>2. o \in Ops
  BY <1>1 DEF IInv, TypeOK, DrainBacklog
<1> QED  BY <1>1, <1>2, OpFacts, DrainRow, DrainAdmit, DrainRest

-----------------------------------------------------------------------------
(* The inductive invariant and what follows from it.                       *)

\* The empty table satisfies the invariant.
LEMMA InitIInv == Init => IInv
<1> SUFFICES ASSUME Init PROVE IInv
  OBVIOUS
<1> USE DEF Init
<1>1. TypeOK
  BY BoundsAssumption DEF TypeOK, Phases, Components, Results, Ops
<1>2. TableInv /\ WorkInv /\ BacklogInv
  BY DEF TableInv, WorkInv, BacklogInv, Present, Working
<1>3. CallerInv
  BY DEF CallerInv
<1> QED  BY <1>1, <1>2, <1>3 DEF IInv

\* Every step of a waiting call preserves the invariant.
LEMMA StepIInv ==
  ASSUME IInv, NEW c \in Callers, Step(c)
  PROVE  IInv'
<1>1. CASE AdmitNew(c)
  BY <1>1, AdmitNewStep
<1>2. CASE AdmitReuse(c) \/ AdmitReject(c)
  BY <1>2, CallEnds DEF AdmitReuse, AdmitReject, InTurn, Goto, Quiet, IInv, TypeOK
<1>3. CASE CancelBeforeStart(c)
  BY <1>3, CancelBeforeStartStep
<1>4. CASE BeginComponents(c)
  BY <1>4, BeginComponentsStep
<1>5. CASE StartComponent(c)
  BY <1>5, StartComponentStep
<1>6. CASE PersistPage(c)
  BY <1>6, PersistPageStep
<1>7. CASE \E res \in Delivered : CollectorDelivers(c, res)
  BY <1>7, CollectorDeliversStep
<1>8. CASE \E res \in {"failed", "cancelled"} : CollectorFails(c, res)
  BY <1>8, CollectorFailsStep
<1>9. CASE FinishComponent(c)
  BY <1>9, FinishComponentStep
<1>10. CASE CodeGate(c)
  BY <1>10, CodeGateStep
<1>11. CASE LinkScore(c)
  BY <1>11, LinkScoreStep
<1>12. CASE Prune(c)
  BY <1>12, PruneStep
<1> QED  BY <1>1, <1>2, <1>3, <1>4, <1>5, <1>6, <1>7, <1>8, <1>9, <1>10, <1>11, <1>12
         DEF Step

\* So does every step of the system.
LEMMA NextIInv == IInv /\ [Next]_vars => IInv'
<1> SUFFICES ASSUME IInv, [Next]_vars PROVE IInv'
  OBVIOUS
<1>1. ASSUME NEW c \in Callers, NEW r \in CanCall, Call(c, r) PROVE IInv'
  BY <1>1, CallStep DEF CanCall
<1>2. ASSUME NEW c \in Callers, Step(c) PROVE IInv'
  BY <1>2, StepIInv
<1>3. ASSUME NEW c \in Callers, UserCancels(c) PROVE IInv'
  BY <1>3, UserCancelsStep
<1>4. ASSUME NEW c \in Callers, NEW queued \in BOOLEAN, CallFails(c, queued) PROVE IInv'
  BY <1>4, CallFailsStep
<1>5. ASSUME NEW c \in Callers, NEW queued \in BOOLEAN, NEW amount \in {"some", "all"},
             PersistFails(c, amount, queued)
      PROVE  IInv'
  BY <1>5, PersistFailsStep
<1>6. CASE DrainBacklog
  BY <1>6, DrainBacklogStep
<1>7. ASSUME NEW id \in Ids, RowAges(id) PROVE IInv'
  BY <1>7, RowAgesStep
<1>8. CASE SweepAbandoned
  BY <1>8, SweepAbandonedStep
<1>9. CASE Crash
  BY <1>9, CrashStep
<1>10. CASE UNCHANGED vars
  BY <1>10 DEF vars, IInv, TypeOK, TableInv, CallerInv, WorkInv, BacklogInv, Present, Open
<1> QED  BY <1>1, <1>2, <1>3, <1>4, <1>5, <1>6, <1>7, <1>8, <1>9, <1>10 DEF Next

\* The inductive invariant holds in every reachable state.
THEOREM Invariance == Spec => []IInv
BY InitIInv, NextIInv, PTL DEF Spec

\* Every variable keeps its type.
THEOREM TypeCorrect == Spec => []TypeOK
<1>1. IInv => TypeOK
  BY DEF IInv
<1> QED  BY <1>1, Invariance, PTL

\* An execution's status always says what its components say.
THEOREM StatusIsCoherent == Spec => []StatusCoherent
<1>1. IInv => StatusCoherent
  BY DEF IInv, TableInv, RowInv, StatusCoherent
<1> QED  BY <1>1, Invariance, PTL

\* A component reported delivered has the evidence in the database.
THEOREM EvidenceIsBacked == Spec => []EvidenceBacked
<1>1. IInv => EvidenceBacked
  BY DEF IInv, TableInv, RowInv, EvidenceBacked
<1> QED  BY <1>1, Invariance, PTL

\* Two calls never collect for the same key.
THEOREM OneCollectorPerKey == Spec => []OneCollector
<1>1. IInv => OneCollector
  <2> SUFFICES ASSUME IInv, NEW c \in Callers, Collecting(c)
               PROVE  /\ Open(own[c]) /\ rows[own[c]].plan = req[c].plan
                      /\ \A d \in Callers : Collecting(d) /\ req[d].key = req[c].key => d = c
    BY DEF OneCollector
  <2>1. \A d \in Callers : Collecting(d) =>
          /\ own[d] \in Ids /\ own[d] # 0 /\ Open(own[d]) /\ Present(own[d])
          /\ rows[own[d]].key = req[d].key /\ rows[own[d]].plan = req[d].plan
    BY CallerFacts DEF IInv, CallerInv, WorkInv, Collecting, Working, Open, Ids
  <2>2. \A d \in Callers : Collecting(d) /\ req[d].key = req[c].key => own[d] = own[c]
    BY <2>1 DEF IInv, TableInv
  <2>3. \A d \in Callers : own[d] = own[c] => d = c
    BY <2>1 DEF IInv, CallerInv
  <2> QED  BY <2>1, <2>2, <2>3
<1> QED  BY <1>1, Invariance, PTL

-----------------------------------------------------------------------------
(* What a step may do to a row, and the action properties that follow.     *)

\* The ways a row may change: it is admitted, it moves on while open, it ages
\* once settled, or retention or the sweep removes it.
RowChange(id) ==
  \/ rows'[id] = rows[id]
  \/ ~Present(id)
  \/ Open(id) /\ Present(id)'
  \/ /\ Closed(id)
     /\ rows'[id].status = rows[id].status /\ rows'[id].comp = rows[id].comp
     /\ rows'[id].evidence = rows[id].evidence
     /\ Present(id)'
  \/ /\ ~Present(id)' /\ Closed(id)
     /\ Cardinality(Outlive(id)) >= Keep
     /\ rows[id].class = "general_scan" => PassOf("general_scan")
  \/ ~Present(id)' /\ Open(id) /\ rows[id].aged /\ ~Referenced(id)

\* The newer settled rows of a class are finitely many.
LEMMA NewerFinite ==
  ASSUME NEW id \in Ids
  PROVE  IsFiniteSet(Newer(id))
<1>1. IsFiniteSet(Ids)
  BY BoundsAssumption, FS_Interval DEF Ids
<1> QED  BY <1>1, FS_Subset DEF Newer

\* Among some settled rows of one class there is a newest: its newer rows are the
\* fewest, and none of them is among the given ones.
LEMMA NewestOf ==
  ASSUME NEW S \in SUBSET Ids, S # {},
         \A i, j \in S : Closed(i) /\ rows[i].class = rows[j].class
  PROVE  \E m \in S : \A j \in S : j <= m
<1> DEFINE R == StrictSubsetOrdering(Ids)
           T == {Newer(j) : j \in S}
<1>1. IsFiniteSet(Ids)
  BY BoundsAssumption, FS_Interval DEF Ids
<1>2. IsWellFoundedOn(R, SUBSET Ids)
  BY <1>1, FS_StrictSubsetOrderingWellFounded, FS_FiniteSubsetsOfFinite
<1>3. T \subseteq SUBSET Ids /\ T # {}
  BY DEF Newer
<1>4. PICK x \in T : \A y \in T : ~(<<y, x>> \in R)
  <2> HIDE DEF R, T
  <2> QED  BY <1>2, <1>3, WFMin
<1>5. PICK m \in S : x = Newer(m)
  OBVIOUS
<1>6. ASSUME NEW j \in S PROVE j <= m
  <2> SUFFICES ASSUME j > m PROVE FALSE
    BY DEF Ids
  <2>1. j \in Newer(m) /\ j \notin Newer(j)
    BY DEF Newer, Ids
  <2>2. Newer(j) \subseteq Newer(m)
    BY DEF Newer, Ids
  <2>3. <<Newer(j), Newer(m)>> \in R
    BY <2>1, <2>2 DEF StrictSubsetOrdering, Newer
  <2> QED  BY <1>4, <1>5, <2>3
<1> QED  BY <1>6

\* The rows newer than an expired one include Keep that are not expired: those
\* newer than the newest expired one, or all of them when none is expired.
LEMMA KeptNewer ==
  ASSUME NEW class, NEW id \in Expired(class)
  PROVE  Cardinality(Newer(id) \ Expired(class)) >= Keep
<1> DEFINE S == Newer(id) \cap Expired(class)
           K == Newer(id) \ Expired(class)
<1>1. id \in Ids /\ Closed(id) /\ Cardinality(Newer(id)) >= Keep
  BY DEF Expired
<1>2. IsFiniteSet(Newer(id)) /\ IsFiniteSet(K)
  BY <1>1, NewerFinite, FS_Subset
<1>3. CASE S = {}
  <2>1. K = Newer(id)
    BY <1>3
  <2> QED  BY <1>1, <2>1
<1>4. CASE S # {}
  <2>1. PICK m \in S : \A j \in S : j <= m
    BY <1>4, NewestOf DEF Newer
  <2>2. m \in Ids /\ m > id /\ rows[m].class = rows[id].class
        /\ Cardinality(Newer(m)) >= Keep
    BY DEF Newer, Expired
  <2>3. Newer(m) \subseteq Newer(id)
    BY <1>1, <2>2 DEF Newer, Ids
  <2>4. \A j \in Newer(m) : j \notin Expired(class)
    BY <1>1, <2>1, <2>2, <2>3 DEF Newer, Ids
  <2>5. Newer(m) \in SUBSET K
    BY <2>3, <2>4
  <2>6. Cardinality(Newer(m)) <= Cardinality(K)
    BY <1>2, <2>5, FS_Subset
  <2>7. Cardinality(Newer(m)) \in Nat /\ Cardinality(K) \in Nat
    BY <1>2, <2>2, NewerFinite, FS_CardinalityType
  <2> QED  BY <2>2, <2>6, <2>7, KeepAssumption
<1> QED  BY <1>3, <1>4

\* A retention pass removes a settled row only when Keep newer ones of its class
\* outlive it, and a visible one only in the pass of a visible scan.
LEMMA PruneChanges ==
  ASSUME TypeOK, NEW class, rows' = DbPrune(class), PassOf(class), NEW id \in Ids
  PROVE  RowChange(id)
<1>1. CASE id \notin Expired(class)
  BY <1>1 DEF DbPrune, RowChange
<1>2. CASE id \in Expired(class)
  <2>1. /\ Closed(id)
        /\ rows[id].class = class \/ class = "general_scan"
    BY <1>2 DEF Expired
  <2>2. rows[id].class = "general_scan" => PassOf("general_scan")
    BY <2>1
  <2>3. ~Present(id)'
    BY <1>2 DEF DbPrune, Present
  <2>4. Outlive(id) = Newer(id) \ Expired(class)
    <3>1. ASSUME NEW j \in Ids PROVE Closed(j) => (Present(j)' <=> j \notin Expired(class))
      BY DEF DbPrune, Present, Closed
    <3> QED  BY <3>1 DEF Outlive, Newer
  <2> QED  BY <1>2, <2>1, <2>2, <2>3, <2>4, KeptNewer DEF RowChange
<1> QED  BY <1>1, <1>2

\* A step that rewrites one open row, keeping it present, changes rows as allowed.
LEMMA RewriteChanges ==
  ASSUME TypeOK, NEW i \in Ids, Open(i), NEW r, r # NoRow,
         rows' = [rows EXCEPT ![i] = r], NEW id \in Ids
  PROVE  RowChange(id)
BY DEF RowChange, Present, TypeOK

\* Starts, cancellations and settlements rewrite open rows only.
LEMMA DbChanges ==
  ASSUME TypeOK, NEW i \in Ids, NEW k \in Components, NEW status,
         rows' = DbStart(i, k) \/ rows' = DbCancel(i) \/ rows' = DbFinish(i, k, status),
         NEW id \in Ids
  PROVE  RowChange(id)
<1>1. CASE rows' = rows
  BY <1>1 DEF RowChange
<1>2. CASE rows' # rows /\ rows' = DbStart(i, k)
  <2> DEFINE r == [rows[i] EXCEPT !.status = "running", !.comp[k] = "running"]
  <2>1. Open(i) /\ rows[i] \in Rows
    BY <1>2, RowFacts DEF DbStart, CanStart, Open
  <2>2. rows' = [rows EXCEPT ![i] = r]
    BY <1>2 DEF DbStart, TypeOK
  <2>3. r # NoRow
    BY <2>1 DEF Rows, NoRow
  <2> QED  BY <2>1, <2>2, <2>3, RewriteChanges
<1>3. CASE rows' # rows /\ rows' = DbCancel(i)
  <2> DEFINE r == [rows[i] EXCEPT !.status = "cancelled",
                                  !.comp = [j \in Components |->
                                      IF @[j] = "planned" THEN "cancelled" ELSE @[j]]]
  <2>1. Open(i) /\ rows[i] \in Rows
    BY <1>3, RowFacts DEF DbCancel, Open, Unsettled
  <2>2. rows' = [rows EXCEPT ![i] = r]
    BY <1>3 DEF DbCancel, TypeOK
  <2>3. r # NoRow
    BY <2>1 DEF Rows, NoRow
  <2> QED  BY <2>1, <2>2, <2>3, RewriteChanges
<1>4. CASE rows' # rows /\ rows' = DbFinish(i, k, status)
  <2> DEFINE r == FinishedRow(rows[i], k, status)
  <2>1. Open(i) /\ rows[i] \in Rows
    BY <1>4, RowFacts DEF DbFinish, Open
  <2>2. rows' = [rows EXCEPT ![i] = r]
    BY <1>4, <2>1 DEF DbFinish, FinishedRow, TypeOK
  <2>3. r # NoRow
    BY <2>1 DEF Rows, NoRow, FinishedRow
  <2> QED  BY <2>1, <2>2, <2>3, RewriteChanges
<1> QED  BY <1>1, <1>2, <1>3, <1>4

\* A run is committed under an open execution.
LEMMA PersistChanges ==
  ASSUME TypeOK, NEW i \in Ids, Open(i), NEW k, NEW amount,
         rows' = DbPersist(i, k, amount), NEW id \in Ids
  PROVE  RowChange(id)
<1> DEFINE r == [rows[i] EXCEPT !.evidence[k] = amount]
<1>1. rows[i] \in Rows /\ Present(i)
  BY RowFacts DEF Open
<1>2. rows' = [rows EXCEPT ![i] = r] /\ r # NoRow
  BY <1>1 DEF DbPersist, TypeOK, Rows, NoRow
<1> QED  BY <1>2, RewriteChanges

\* An admission inserts a row where there was none.
LEMMA AdmitChanges ==
  ASSUME IInv, NEW r, rows' = DbAdmit(r), NEW id \in Ids
  PROVE  RowChange(id)
<1>1. CASE ~CanInsert(r)
  BY <1>1 DEF DbAdmit, RowChange
<1>2. CASE CanInsert(r)
  <2>1. ~Present(nextId)
    BY <1>2 DEF CanInsert, IInv, TableInv, Ids
  <2> QED  BY <1>2, <2>1 DEF DbAdmit, RowChange, IInv, TypeOK
<1> QED  BY <1>1, <1>2

\* A call waiting for the worker.
LEMMA StepChanges ==
  ASSUME IInv, NEW c \in Callers, Step(c), NEW id \in Ids
  PROVE  RowChange(id)
<1>1. ASSUME rows' = rows PROVE RowChange(id)
  BY <1>1 DEF RowChange
<1>2. CASE AdmitNew(c)
  BY <1>2, AdmitChanges DEF AdmitNew
<1>3. CASE CancelBeforeStart(c) \/ StartComponent(c) \/ FinishComponent(c)
  <2>1. own[c] \in Ids /\ at[c] \in Components
    BY <1>3, CallerFacts
       DEF CancelBeforeStart, StartComponent, FinishComponent, InTurn, IInv, TypeOK
  <2> QED  BY <1>3, <2>1, DbChanges
           DEF CancelBeforeStart, StartComponent, FinishComponent, IInv
<1>4. CASE PersistPage(c) \/ \E res \in Delivered : CollectorDelivers(c, res)
  <2>1. own[c] \in Ids /\ Open(own[c])
    BY <1>4, CallerFacts DEF PersistPage, CollectorDelivers, InTurn, IInv, WorkInv, Working
  <2> QED  BY <1>4, <2>1, PersistChanges DEF PersistPage, CollectorDelivers, IInv
<1>5. CASE Prune(c)
  <2>1. PassOf(req[c].class)
    BY <1>5 DEF Prune, InTurn, Goto, PassOf, IInv, TypeOK
  <2> QED  BY <1>5, <2>1, PruneChanges DEF Prune, IInv
<1>6. CASE \/ AdmitReuse(c) \/ AdmitReject(c) \/ BeginComponents(c) \/ CodeGate(c)
           \/ LinkScore(c) \/ \E res \in {"failed", "cancelled"} : CollectorFails(c, res)
  BY <1>1, <1>6 DEF AdmitReuse, AdmitReject, BeginComponents, CodeGate, LinkScore, CollectorFails
<1> QED  BY <1>2, <1>3, <1>4, <1>5, <1>6 DEF Step

\* An operation nobody waits for.
LEMMA DrainChanges ==
  ASSUME IInv, DrainBacklog, NEW id \in Ids
  PROVE  RowChange(id)
<1>1. PICK o \in Ops : o = Head(backlog) /\ o = backlog[1] /\ 1 \in DOMAIN backlog
  BY DEF DrainBacklog, IInv, TypeOK
<1>2. /\ o.op = "admit" => rows' = DbAdmit(o.req)
      /\ o.op = "start" => rows' = DbStart(o.id, o.comp)
      /\ o.op = "cancel" => rows' = DbCancel(o.id)
      /\ o.op = "persist" => rows' = DbPersist(o.id, o.comp, o.amount)
      /\ o.op = "finish" => rows' = DbFinish(o.id, o.comp, o.status)
      /\ o.op = "prune" => rows' = DbPrune(o.class)
      /\ o.op = "link" => rows' = rows
  BY <1>1 DEF DrainBacklog
<1>3. CASE o.op = "admit"
  BY <1>2, <1>3, AdmitChanges
<1>4. CASE Final(o)
  BY <1>1, <1>2, <1>4, OpFacts, DbChanges DEF Final, IInv
<1>5. CASE o.op = "persist"
  <2>1. o.id \in Ids /\ Open(o.id)
    BY <1>1, <1>5, OpFacts DEF IInv, BacklogInv
  <2> QED  BY <1>2, <1>5, <2>1, PersistChanges DEF IInv
<1>6. CASE o.op = "prune"
  <2>1. PassOf(o.class)
    BY <1>1, <1>6 DEF DrainBacklog, PassOf
  <2> QED  BY <1>2, <1>6, <2>1, PruneChanges DEF IInv
<1>7. CASE o.op = "link"
  BY <1>2, <1>7 DEF RowChange
<1> QED  BY <1>1, <1>3, <1>4, <1>5, <1>6, <1>7, OpFacts DEF Final

\* The sweep, while nothing is queued, removes no row a call still works on.
LEMMA SweepChanges ==
  ASSUME IInv, SweepAbandoned, NEW id \in Ids
  PROVE  RowChange(id)
<1>1. CASE ~(Open(id) /\ rows[id].aged)
  BY <1>1 DEF SweepAbandoned, RowChange
<1>2. CASE Open(id) /\ rows[id].aged
  <2>1. \A c \in Callers : own[c] = id => pc[c] = "done"
    <3> SUFFICES ASSUME NEW c \in Callers, own[c] = id, pc[c] # "done" PROVE FALSE
      OBVIOUS
    <3>1. pc[c] \notin {"idle", "admit"}
      BY DEF IInv, CallerInv, Ids
    <3>2. pc[c] \in Working \cup {"link", "prune"}
      BY <3>1 DEF IInv, TypeOK, Phases, Working
    <3> QED  BY <3>2, <1>2 DEF IInv, WorkInv, WorkAt
  <2>2. ~Referenced(id)
    BY <2>1 DEF Referenced, SweepAbandoned
  <2>3. ~Present(id)'
    BY <1>2 DEF SweepAbandoned, Present
  <2> QED  BY <1>2, <2>2, <2>3 DEF RowChange
<1> QED  BY <1>1, <1>2

\* No step changes a row in any other way.
LEMMA NextChanges ==
  ASSUME IInv, [Next]_vars, NEW id \in Ids
  PROVE  RowChange(id)
<1>1. ASSUME rows' = rows PROVE RowChange(id)
  BY <1>1 DEF RowChange
<1>2. ASSUME NEW c \in Callers, Step(c) PROVE RowChange(id)
  BY <1>2, StepChanges
<1>3. CASE DrainBacklog
  BY <1>3, DrainChanges
<1>4. CASE SweepAbandoned
  BY <1>4, SweepChanges
<1>5. ASSUME NEW i \in Ids, RowAges(i) PROVE RowChange(id)
  <2>1. rows[i] \in Rows /\ Present(i)
    BY <1>5, RowFacts DEF RowAges, IInv
  <2>2. CASE Open(i)
    <3> DEFINE r == [rows[i] EXCEPT !.aged = TRUE]
    <3>1. rows' = [rows EXCEPT ![i] = r] /\ r # NoRow
      BY <1>5, <2>1 DEF RowAges, Rows, NoRow
    <3> QED  BY <2>2, <3>1, RewriteChanges DEF IInv
  <2>3. CASE ~Open(i)
    <3>1. Closed(i)
      BY <2>1, <2>3, RowFacts DEF IInv
    <3>2. /\ rows'[i].status = rows[i].status /\ rows'[i].comp = rows[i].comp
          /\ rows'[i].evidence = rows[i].evidence /\ rows'[i] # NoRow
          /\ id # i => rows'[id] = rows[id]
      BY <1>5, <2>1 DEF RowAges, Rows, NoRow, IInv, TypeOK
    <3> QED  BY <3>1, <3>2 DEF RowChange, Present
  <2> QED  BY <2>2, <2>3
<1>6. CASE \/ Crash \/ UNCHANGED vars
           \/ \E c \in Callers :
                \/ \E r \in CanCall : Call(c, r)
                \/ UserCancels(c)
                \/ \E queued \in BOOLEAN :
                     \/ CallFails(c, queued)
                     \/ \E amount \in {"some", "all"} : PersistFails(c, amount, queued)
  BY <1>1, <1>6 DEF Crash, Call, UserCancels, CallFails, PersistFails, vars
<1> QED  BY <1>2, <1>3, <1>4, <1>5, <1>6 DEF Next

\* Settled history is immutable.
THEOREM SettledIsFrozen == Spec => SettledFrozen
<1>1. IInv /\ [Next]_vars =>
        [\A id \in Ids : Closed(id) /\ Present(id)' =>
           /\ rows'[id].status = rows[id].status
           /\ rows'[id].comp = rows[id].comp
           /\ rows'[id].evidence = rows[id].evidence]_vars
  BY NextChanges DEF RowChange, Open, Closed, Unsettled, Terminal
<1> QED  BY <1>1, Invariance, PTL DEF Spec, SettledFrozen

\* Retention and the sweep forget only what they may: a settled row only when Keep
\* newer settled rows of its class outlive it, a visible one only in a visible
\* scan's pass, and an open one only when it is abandoned.
THEOREM RetentionIsSafe == Spec => RetentionSafe
<1>1. IInv /\ [Next]_vars =>
        [\A id \in Ids : Present(id) /\ ~Present(id)' =>
           \/ Open(id) /\ rows[id].aged /\ ~Referenced(id)
           \/ /\ Closed(id)
              /\ Cardinality(Outlive(id)) >= Keep
              /\ rows[id].class = "general_scan" => PassOf("general_scan")]_vars
  BY NextChanges DEF RowChange, Present
<1> QED  BY <1>1, Invariance, PTL DEF Spec, RetentionSafe

-----------------------------------------------------------------------------
(***************************************************************************)
(* The execution table implements ScanLedger, for any callers, keys, plans *)
(* and bounds: every step admits an entry, gathers evidence for an open    *)
(* one, settles one, forgets some, or changes none.                        *)
(***************************************************************************)
-----------------------------------------------------------------------------
(* Entries of a table in which a key has one row at most.                  *)

Unique(t) ==
  \A i, j \in Ids : t[i] # NoRow /\ t[j] # NoRow /\ t[i].key = t[j].key => i = j

\* The entry of a key is the row that holds it.
LEMMA EntryOfRow ==
  ASSUME NEW t, Unique(t), NEW i \in Ids, t[i] # NoRow
  PROVE  EntryIn(t, t[i].key) = Shown(t[i])
<1> DEFINE j == CHOOSE id \in Ids : Holds(t, id, t[i].key)
<1>1. Holds(t, i, t[i].key)
  BY DEF Holds
<1>2. j \in Ids /\ Holds(t, j, t[i].key)
  BY <1>1
<1>3. j = i
  BY <1>2 DEF Unique, Holds
<1> QED  BY <1>1, <1>3 DEF EntryIn

\* A key that no row holds has no entry.
LEMMA EntryOfNone ==
  ASSUME NEW t, NEW k, \A id \in Ids : t[id] # NoRow => t[id].key # k
  PROVE  EntryIn(t, k) = [outcome |-> "absent"]
BY DEF EntryIn, Holds

\* A key keeps its entry when the rows that hold it are the same.
LEMMA SameEntry ==
  ASSUME NEW t, NEW u, Unique(t), Unique(u), NEW k,
         \A id \in Ids : Holds(t, id, k) \/ Holds(u, id, k) => u[id] = t[id]
  PROVE  EntryIn(u, k) = EntryIn(t, k)
<1>1. CASE \E id \in Ids : Holds(t, id, k)
  <2>1. PICK id \in Ids : Holds(t, id, k)
    BY <1>1
  <2>2. u[id] = t[id] /\ t[id] # NoRow /\ t[id].key = k
    BY <2>1 DEF Holds
  <2>3. EntryIn(t, k) = Shown(t[id])
    BY <2>2, EntryOfRow
  <2>4. EntryIn(u, k) = Shown(u[id])
    BY <2>2, EntryOfRow
  <2> QED  BY <2>2, <2>3, <2>4
<1>2. CASE ~\E id \in Ids : Holds(t, id, k)
  <2>1. \A id \in Ids : t[id] # NoRow => t[id].key # k
    BY <1>2 DEF Holds
  <2>2. \A id \in Ids : u[id] # NoRow => u[id].key # k
    BY <1>2 DEF Holds
  <2>3. EntryIn(t, k) = [outcome |-> "absent"]
    BY <2>1, EntryOfNone
  <2>4. EntryIn(u, k) = [outcome |-> "absent"]
    BY <2>2, EntryOfNone
  <2> QED  BY <2>3, <2>4
<1> QED  BY <1>1, <1>2

\* Rewriting one row changes the entry of its key.
LEMMA EntryRewritten ==
  ASSUME NEW t, NEW u, Unique(t), Unique(u), NEW i \in Ids, NEW k \in Keys,
         u[i] # NoRow, u[i].key = k, t[i] # NoRow => t[i].key = k,
         \A j \in Ids \ {i} : u[j] = t[j]
  PROVE  Entries(u) = [Entries(t) EXCEPT ![k] = Shown(u[i])]
<1>1. EntryIn(u, k) = Shown(u[i])
  BY EntryOfRow
<1>2. ASSUME NEW l \in Keys \ {k} PROVE EntryIn(u, l) = EntryIn(t, l)
  <2>1. \A id \in Ids : Holds(t, id, l) \/ Holds(u, id, l) => u[id] = t[id]
    BY DEF Holds
  <2> QED  BY <2>1, SameEntry
<1> HIDE DEF EntryIn
<1> QED  BY <1>1, <1>2 DEF Entries

\* The table of the specification is such a table.
LEMMA TableUnique ==
  ASSUME TableInv
  PROVE  Unique(rows)
BY DEF TableInv, Unique, Present

-----------------------------------------------------------------------------
(* What a step does to the table.                                          *)

Admits == \E q \in Requests : CanInsert(q) /\ rows' = [rows EXCEPT ![nextId] = NewRow(q)]

\* A row moves on without new evidence: it starts, ages or settles.
MovesOn(i, s) ==
  /\ Present(i)
  /\ s.key = rows[i].key /\ s.plan = rows[i].plan /\ s.evidence = rows[i].evidence
  /\ Unstarted(s)
  /\ Shown(s) = Shown(rows[i]) \/ (Open(i) /\ s.status \in Terminal)
  /\ rows' = [rows EXCEPT ![i] = s]

Gathers(i, k, amount) ==
  /\ Open(i)
  /\ rows[i].comp[k] = "running" /\ rows[i].plan[k] = "planned"
  /\ rows[i].evidence[k] # "all"
  /\ rows' = [rows EXCEPT ![i].evidence[k] = amount]

\* A call gathers for the component at hand; the queue, for its first operation.
CallGathers(c) ==
  /\ pc[c] = "collect" /\ backlog = <<>> /\ backlog' = <<>>
  /\ \/ Gathers(own[c], at[c], "some")
     \/ Gathers(own[c], at[c], "all") /\ pc'[c] # "collect"

QueueGathers ==
  /\ backlog # <<>> /\ backlog' = Tail(backlog)
  /\ backlog[1].op = "persist"
  /\ Gathers(backlog[1].id, backlog[1].comp, backlog[1].amount)

Removes == \A id \in Ids : rows'[id] \in {rows[id], NoRow}

TableChange ==
  \/ rows' = rows
  \/ Admits
  \/ \E i \in Ids, s \in Rows : MovesOn(i, s)
  \/ \E c \in Callers : CallGathers(c)
  \/ QueueGathers
  \/ Removes

\* Starting a component shows no change.
LEMMA StartMoves ==
  ASSUME IInv, EvidenceInv, NEW i \in Ids, NEW k \in Components, rows' = DbStart(i, k)
  PROVE  rows' = rows \/ \E s \in Rows : MovesOn(i, s)
<1> SUFFICES ASSUME CanStart(i, k) PROVE \E s \in Rows : MovesOn(i, s)
  BY DEF DbStart
<1> DEFINE r == rows[i]
           s == [rows[i] EXCEPT !.status = "running", !.comp[k] = "running"]
<1>1. Present(i) /\ r \in Rows /\ RowInv(r) /\ r.status \in Unsettled /\ r.comp[k] = "planned"
  BY RowFacts DEF CanStart, Open, IInv, TableInv
<1>2. s \in Rows
  BY <1>1, StartRow
<1>3. /\ s.key = r.key /\ s.plan = r.plan /\ s.evidence = r.evidence /\ s.status = "running"
      /\ \A j \in Components : s.comp[j] = IF j = k THEN "running" ELSE r.comp[j]
  BY <1>1 DEF Rows
<1>4. Unstarted(s)
  BY <1>1, <1>3 DEF EvidenceInv, Unstarted, PlannedStatus
<1>5. Shown(s) = Shown(r)
  BY <1>1, <1>3 DEF Shown, Unsettled
<1>6. rows' = [rows EXCEPT ![i] = s]
  BY <1>1 DEF DbStart, IInv, TypeOK
<1> QED  BY <1>1, <1>2, <1>3, <1>4, <1>5, <1>6 DEF MovesOn

\* A cancellation before the start settles the row.
LEMMA CancelMoves ==
  ASSUME IInv, EvidenceInv, NEW i \in Ids, rows' = DbCancel(i)
  PROVE  rows' = rows \/ \E s \in Rows : MovesOn(i, s)
<1> SUFFICES ASSUME Present(i), rows[i].status = "planned" PROVE \E s \in Rows : MovesOn(i, s)
  BY DEF DbCancel
<1> DEFINE r == rows[i]
           s == [rows[i] EXCEPT !.status = "cancelled",
                                !.comp = [j \in Components |->
                                    IF @[j] = "planned" THEN "cancelled" ELSE @[j]]]
<1>1. r \in Rows /\ RowInv(r) /\ Open(i)
  BY RowFacts DEF Open, IInv, TableInv, Unsettled
<1>2. s \in Rows
  BY <1>1, CancelRow
<1>3. /\ s.key = r.key /\ s.plan = r.plan /\ s.evidence = r.evidence /\ s.status = "cancelled"
      /\ \A j \in Components : s.comp[j] = IF r.comp[j] = "planned" THEN "cancelled" ELSE r.comp[j]
  BY <1>1 DEF Rows
<1>4. Unstarted(s)
  BY <1>3 DEF EvidenceInv, Unstarted, PlannedStatus
<1>5. rows' = [rows EXCEPT ![i] = s]
  BY <1>1 DEF DbCancel, IInv, TypeOK
<1> QED  BY <1>1, <1>2, <1>3, <1>4, <1>5 DEF MovesOn, Terminal

\* A settlement of a component settles its row or shows no change.
LEMMA FinishMoves ==
  ASSUME IInv, EvidenceInv, NEW i \in Ids, NEW k \in Components, NEW status \in Settled,
         Open(i) => CanSettle(rows[i], k) /\ Backs(rows[i], k, status),
         rows' = DbFinish(i, k, status)
  PROVE  rows' = rows \/ \E s \in Rows : MovesOn(i, s)
<1> SUFFICES ASSUME Open(i) PROVE \E s \in Rows : MovesOn(i, s)
  BY DEF DbFinish
<1> DEFINE r == rows[i]
           s == FinishedRow(rows[i], k, status)
<1>1. Present(i) /\ r \in Rows /\ RowInv(r) /\ r.status \in Unsettled
  BY RowFacts DEF Open, IInv, TableInv
<1>2. /\ s \in Rows /\ s.key = r.key /\ s.plan = r.plan /\ s.evidence = r.evidence
  BY <1>1, FinishRow
<1>3. \A j \in Components : s.comp[j] = IF j = k THEN status ELSE r.comp[j]
  BY <1>1 DEF FinishedRow, Rows
<1>4. Unstarted(s)
  BY <1>1, <1>2, <1>3 DEF EvidenceInv, Unstarted, PlannedStatus, Settled, Delivered
<1>5. s.status \in Unsettled \/ s.status \in Terminal
  BY <1>2 DEF Rows
<1>6. s.status \in Unsettled => Shown(s) = Shown(r)
  BY <1>1, <1>2 DEF Shown
<1>7. rows' = [rows EXCEPT ![i] = s]
  BY <1>1 DEF DbFinish, FinishedRow, IInv, TypeOK
<1> QED  BY <1>1, <1>2, <1>4, <1>5, <1>6, <1>7 DEF MovesOn

\* Growing old shows no change.
LEMMA AgeMoves ==
  ASSUME IInv, EvidenceInv, NEW i \in Ids, RowAges(i)
  PROVE  \E s \in Rows : MovesOn(i, s)
<1> DEFINE r == rows[i]
           s == [rows[i] EXCEPT !.aged = TRUE]
<1>1. Present(i) /\ r \in Rows
  BY RowFacts DEF RowAges, IInv
<1>2. /\ s \in Rows /\ s.key = r.key /\ s.plan = r.plan /\ s.evidence = r.evidence
      /\ s.status = r.status /\ s.comp = r.comp
  BY <1>1 DEF Rows
<1>3. Unstarted(s) /\ Shown(s) = Shown(r)
  BY <1>1, <1>2 DEF EvidenceInv, Unstarted, Shown
<1>4. rows' = [rows EXCEPT ![i] = s]
  BY <1>1 DEF RowAges, IInv, TypeOK
<1> QED  BY <1>1, <1>2, <1>3, <1>4 DEF MovesOn

\* A call that collects commits evidence for the component at hand.
LEMMA CommitGathers ==
  ASSUME IInv, EvidenceInv, NEW c \in Callers, pc[c] = "collect",
         NEW amount, rows' = DbPersist(own[c], at[c], amount)
  PROVE  Gathers(own[c], at[c], amount)
<1>1. Open(own[c]) /\ WorkAt("collect", rows[own[c]], at[c], result[c])
  BY DEF IInv, WorkInv, Working
<1>2. rows' = [rows EXCEPT ![own[c]].evidence[at[c]] = amount]
  BY <1>1 DEF DbPersist, Open
<1> QED  BY <1>1, <1>2 DEF Gathers, WorkAt, InOrder, EvidenceInv

\* A call's step.
LEMMA StepTable ==
  ASSUME IInv, EvidenceInv, NEW c \in Callers, Step(c)
  PROVE  TableChange
<1> USE DEF TableChange
<1>1. CASE AdmitNew(c)
  <2>1. req[c] \in Requests
    BY <1>1 DEF AdmitNew, InTurn, IInv, TypeOK, CallerInv
  <2> QED  BY <1>1, <2>1 DEF AdmitNew, DbAdmit, Admits
<1>2. CASE CancelBeforeStart(c) \/ StartComponent(c)
  <2>1. own[c] \in Ids /\ at[c] \in Components
    BY <1>2, CallerFacts DEF CancelBeforeStart, StartComponent, InTurn, IInv, TypeOK
  <2> QED  BY <1>2, <2>1, CancelMoves, StartMoves DEF CancelBeforeStart, StartComponent
<1>3. CASE FinishComponent(c)
  <2>1. own[c] \in Ids /\ at[c] \in Components
    BY <1>3, CallerFacts DEF FinishComponent, InTurn, IInv, TypeOK
  <2>2. WorkAt("finish", rows[own[c]], at[c], result[c])
    BY <1>3 DEF FinishComponent, InTurn, IInv, WorkInv, Working
  <2> QED  BY <1>3, <2>1, <2>2, FinishMoves DEF FinishComponent, WorkAt
<1>4. CASE PersistPage(c) \/ \E res \in Delivered : CollectorDelivers(c, res)
  <2>1. pc[c] = "collect" /\ backlog = <<>> /\ backlog' = <<>>
    BY <1>4 DEF PersistPage, CollectorDelivers, InTurn, Quiet
  <2>2. CASE PersistPage(c)
    <3>1. rows' = DbPersist(own[c], at[c], "some")
      BY <2>2 DEF PersistPage
    <3> QED  BY <2>1, <3>1, CommitGathers DEF CallGathers
  <2>3. ASSUME NEW res \in Delivered, CollectorDelivers(c, res) PROVE CallGathers(c)
    <3>1. PICK amount \in {"some", "all"} : rows' = DbPersist(own[c], at[c], amount)
      BY <2>3 DEF CollectorDelivers
    <3>2. pc'[c] # "collect"
      BY <2>3 DEF CollectorDelivers, Goto, IInv, TypeOK
    <3> QED  BY <2>1, <3>1, <3>2, CommitGathers DEF CallGathers
  <2> QED  BY <1>4, <2>2, <2>3
<1>5. CASE Prune(c)
  BY <1>5 DEF Prune, DbPrune, Removes
<1>6. CASE \/ AdmitReuse(c) \/ AdmitReject(c) \/ BeginComponents(c) \/ CodeGate(c)
           \/ LinkScore(c) \/ \E res \in {"failed", "cancelled"} : CollectorFails(c, res)
  BY <1>6 DEF AdmitReuse, AdmitReject, BeginComponents, CodeGate, LinkScore, CollectorFails
<1> QED  BY <1>1, <1>2, <1>3, <1>4, <1>5, <1>6 DEF Step

\* An operation nobody waits for.
LEMMA DrainTable ==
  ASSUME IInv, EvidenceInv, DrainBacklog
  PROVE  TableChange
<1> USE DEF TableChange
<1>1. PICK o \in Ops : o = Head(backlog) /\ o = backlog[1] /\ 1 \in DOMAIN backlog
  BY DEF DrainBacklog, IInv, TypeOK
<1>2. /\ o.op = "admit" => rows' = DbAdmit(o.req)
      /\ o.op = "start" => rows' = DbStart(o.id, o.comp)
      /\ o.op = "cancel" => rows' = DbCancel(o.id)
      /\ o.op = "persist" => rows' = DbPersist(o.id, o.comp, o.amount)
      /\ o.op = "finish" => rows' = DbFinish(o.id, o.comp, o.status)
      /\ o.op = "prune" => rows' = DbPrune(o.class)
      /\ o.op = "link" => rows' = rows
  BY <1>1 DEF DrainBacklog
<1>3. CASE o.op = "admit"
  BY <1>2, <1>3, OpFacts DEF DbAdmit, Admits
<1>4. CASE o.op \in {"start", "cancel"}
  BY <1>2, <1>4, OpFacts, StartMoves, CancelMoves DEF Final
<1>5. CASE o.op = "finish"
  <2>1. /\ o.id \in Ids /\ o.comp \in Components /\ o.status \in Settled
        /\ Open(o.id) => CanSettle(rows[o.id], o.comp) /\ Backs(rows[o.id], o.comp, o.status)
    BY <1>1, <1>5, OpFacts DEF Final, IInv, BacklogInv
  <2> QED  BY <1>2, <1>5, <2>1, FinishMoves
<1>6. CASE o.op = "persist"
  <2>1. /\ o.id \in Ids /\ o.comp \in Components /\ Open(o.id)
        /\ rows[o.id].comp[o.comp] = "running" /\ rows[o.id].evidence[o.comp] # "all"
    BY <1>1, <1>6, OpFacts DEF IInv, BacklogInv, EvidenceInv
  <2>2. rows[o.id].plan[o.comp] = "planned"
    BY <2>1 DEF IInv, TableInv, RowInv, Open
  <2>3. rows' = [rows EXCEPT ![o.id].evidence[o.comp] = o.amount]
    BY <1>2, <1>6, <2>1 DEF DbPersist, Open
  <2>4. QueueGathers
    BY <1>1, <1>6, <2>1, <2>2, <2>3 DEF QueueGathers, Gathers, DrainBacklog
  <2> QED  BY <2>4
<1>7. CASE o.op = "prune"
  BY <1>2, <1>7 DEF DbPrune, Removes
<1>8. CASE o.op = "link"
  BY <1>2, <1>8
<1> QED  BY <1>3, <1>4, <1>5, <1>6, <1>7, <1>8, OpFacts

\* No step changes the table in any other way.
LEMMA NextTable ==
  ASSUME IInv, EvidenceInv, [Next]_vars
  PROVE  TableChange
<1>1. ASSUME NEW c \in Callers, Step(c) PROVE TableChange
  BY <1>1, StepTable
<1>2. CASE DrainBacklog
  BY <1>2, DrainTable
<1>3. ASSUME NEW id \in Ids, RowAges(id) PROVE TableChange
  BY <1>3, AgeMoves DEF TableChange
<1>4. CASE SweepAbandoned
  BY <1>4 DEF SweepAbandoned, TableChange, Removes
<1>5. CASE \/ Crash \/ UNCHANGED vars
           \/ \E c \in Callers :
                \/ \E r \in CanCall : Call(c, r)
                \/ UserCancels(c)
                \/ \E queued \in BOOLEAN :
                     \/ CallFails(c, queued)
                     \/ \E amount \in {"some", "all"} : PersistFails(c, amount, queued)
  BY <1>5 DEF Crash, Call, UserCancels, CallFails, PersistFails, vars, TableChange
<1> QED  BY <1>1, <1>2, <1>3, <1>4, <1>5 DEF Next

-----------------------------------------------------------------------------
(* Evidence accumulates.                                                   *)

\* Rows stay as EvidenceInv wants them.
LEMMA RowsStayUnstarted ==
  ASSUME IInv, EvidenceInv, TableChange, NEW id \in Ids, Present(id)'
  PROVE  Unstarted(rows'[id])
<1>0. rows \in [Ids -> Rows \cup {NoRow}] /\ (Present(id) => Unstarted(rows[id]))
  BY DEF IInv, TypeOK, EvidenceInv
<1>1. CASE rows' = rows \/ Removes
  BY <1>0, <1>1 DEF Removes, Present
<1>2. CASE Admits
  <2>1. PICK q \in Requests : rows' = [rows EXCEPT ![nextId] = NewRow(q)]
    BY <1>2 DEF Admits
  <2>2. Unstarted(NewRow(q))
    BY DEF Unstarted, NewRow
  <2>3. rows'[id] = rows[id] \/ rows'[id] = NewRow(q)
    BY <1>0, <2>1
  <2> QED  BY <1>0, <2>2, <2>3 DEF Present
<1>3. ASSUME NEW i \in Ids, NEW s \in Rows, MovesOn(i, s) PROVE Unstarted(rows'[id])
  BY <1>0, <1>3 DEF MovesOn, Present
<1>4. ASSUME NEW i \in Ids, NEW k \in Components, NEW amount, Gathers(i, k, amount)
      PROVE  Unstarted(rows'[id])
  <2>1. rows[i] \in Rows /\ Present(i)
    BY <1>4, RowFacts DEF Gathers, Open, IInv
  <2>2. id # i => rows'[id] = rows[id]
    BY <1>0, <1>4 DEF Gathers
  <2>3. /\ rows'[i].comp = rows[i].comp
        /\ \A j \in Components : j # k => rows'[i].evidence[j] = rows[i].evidence[j]
    BY <1>0, <1>4, <2>1 DEF Gathers, Rows
  <2>4. rows[i].comp[k] \notin PlannedStatus
    BY <1>4 DEF Gathers, PlannedStatus
  <2> QED  BY <1>0, <2>1, <2>2, <2>3, <2>4 DEF Unstarted, Present
<1>5. ASSUME NEW c \in Callers, CallGathers(c) PROVE Unstarted(rows'[id])
  <2>1. own[c] \in Ids /\ at[c] \in Components
    BY <1>5, CallerFacts DEF CallGathers, IInv, TypeOK
  <2> QED  BY <1>5, <2>1, <1>4 DEF CallGathers
<1>6. CASE QueueGathers
  <2>1. 1 \in DOMAIN backlog /\ backlog[1] \in Ops
    BY <1>6 DEF QueueGathers, IInv, TypeOK
  <2>2. backlog[1].id \in Ids /\ backlog[1].comp \in Components
    BY <1>6, <2>1, OpFacts DEF QueueGathers
  <2> QED  BY <1>6, <2>2, <1>4 DEF QueueGathers
<1> QED  BY <1>1, <1>2, <1>3, <1>5, <1>6 DEF TableChange

\* The evidence of component k of an open row is left alone by a step, unless a
\* call or the queue gathers for that row.
LEMMA EvidenceUntouched ==
  ASSUME IInv, EvidenceInv, TableChange, NEW id \in Ids, Present(id), rows'[id] # NoRow,
         \A c \in Callers : CallGathers(c) => own[c] # id,
         QueueGathers => backlog[1].id # id
  PROVE  rows'[id].evidence = rows[id].evidence
<1>0. rows \in [Ids -> Rows \cup {NoRow}]
  BY DEF IInv, TypeOK
<1>1. CASE rows' = rows \/ Removes
  BY <1>1 DEF Removes, Present
<1>2. CASE Admits
  <2>1. id # nextId
    BY DEF IInv, TableInv, TypeOK, Ids
  <2> QED  BY <1>0, <1>2, <2>1 DEF Admits
<1>3. ASSUME NEW i \in Ids, NEW s \in Rows, MovesOn(i, s)
      PROVE  rows'[id].evidence = rows[id].evidence
  BY <1>0, <1>3 DEF MovesOn
<1>4. ASSUME NEW i, NEW k, NEW amount, Gathers(i, k, amount), i # id
      PROVE  rows'[id].evidence = rows[id].evidence
  BY <1>0, <1>4 DEF Gathers
<1>5. ASSUME NEW c \in Callers, CallGathers(c) PROVE rows'[id].evidence = rows[id].evidence
  BY <1>4, <1>5 DEF CallGathers
<1>6. CASE QueueGathers
  BY <1>4, <1>6 DEF QueueGathers
<1> QED  BY <1>1, <1>2, <1>3, <1>5, <1>6 DEF TableChange

\* A call that collects collected before, or starts a component now.
LEMMA CollectOrigin ==
  ASSUME IInv, [Next]_vars, NEW c \in Callers, pc'[c] = "collect"
  PROVE  \/ pc[c] = "collect" /\ own'[c] = own[c] /\ at'[c] = at[c]
         \/ StartComponent(c)
<1> USE DEF IInv, TypeOK
<1>1. ASSUME NEW d \in Callers, Step(d) PROVE
        \/ pc[c] = "collect" /\ own'[c] = own[c] /\ at'[c] = at[c]
        \/ StartComponent(c)
  <2>1. CASE AdmitNew(d) \/ AdmitReuse(d) \/ AdmitReject(d) \/ CancelBeforeStart(d)
    BY <2>1 DEF AdmitNew, AdmitReuse, AdmitReject, CancelBeforeStart, InTurn, Goto
  <2>2. CASE BeginComponents(d) \/ CodeGate(d) \/ LinkScore(d) \/ Prune(d)
    BY <2>2 DEF BeginComponents, CodeGate, LinkScore, Prune, InTurn, Goto
  <2>3. CASE \/ StartComponent(d) \/ PersistPage(d)
             \/ \E res \in Delivered : CollectorDelivers(d, res)
             \/ \E res \in {"failed", "cancelled"} : CollectorFails(d, res)
    BY <2>3 DEF StartComponent, PersistPage, CollectorDelivers, CollectorFails, InTurn, Goto
  <2>4. CASE FinishComponent(d)
    <3> DEFINE p == After(at[d], req[d].plan, rows'[own[d]].comp)
    <3>1. p \in {"gate", "link", "prune"}
      BY DEF After
    <3>2. /\ pc' = [pc EXCEPT ![d] = p] /\ own' = own
          /\ at' = IF p = "gate" THEN [at EXCEPT ![d] = "code"] ELSE at
      BY <2>4 DEF FinishComponent, Goto
    <3> HIDE DEF p
    <3> QED  BY <3>1, <3>2
  <2> QED  BY <1>1, <2>1, <2>2, <2>3, <2>4 DEF Step
<1>2. CASE \/ Crash \/ UNCHANGED vars \/ DrainBacklog \/ SweepAbandoned
           \/ \E id \in Ids : RowAges(id)
  BY <1>2 DEF Crash, vars, DrainBacklog, SweepAbandoned, RowAges
<1>3. ASSUME NEW d \in Callers,
             \/ \E r \in CanCall : Call(d, r)
             \/ UserCancels(d)
             \/ \E queued \in BOOLEAN :
                  \/ CallFails(d, queued)
                  \/ \E amount \in {"some", "all"} : PersistFails(d, amount, queued)
      PROVE pc[c] = "collect" /\ own'[c] = own[c] /\ at'[c] = at[c]
  BY <1>3 DEF Call, UserCancels, CallFails, PersistFails, Goto
<1> QED  BY <1>1, <1>2, <1>3 DEF Next

\* What is being collected is not committed in full.
LEMMA CollectNotAll ==
  ASSUME IInv, EvidenceInv, [Next]_vars, IInv', NEW c \in Callers, pc'[c] = "collect"
  PROVE  rows'[own'[c]].evidence[at'[c]] # "all"
<1>1. rows'[own'[c]] # NoRow
  BY DEF IInv, WorkInv, Working, Open, Present
<1>2. CASE StartComponent(c)
  <2>1. /\ own[c] \in Ids /\ at[c] \in Components /\ own' = own /\ at' = at
        /\ CanStart(own[c], at[c]) /\ backlog = <<>> /\ pc[c] = "start"
    BY <1>2, CallerFacts DEF StartComponent, InTurn, IInv, TypeOK
  <2>2. rows[own[c]].evidence[at[c]] = "none" /\ rows[own[c]] \in Rows
    BY <2>1, RowFacts DEF CanStart, Open, EvidenceInv, Unstarted, PlannedStatus, IInv
  <2>3. rows'[own[c]].evidence = rows[own[c]].evidence
    BY <1>2, <2>1, <2>2 DEF StartComponent, DbStart, IInv, TypeOK, Rows
  <2> QED  BY <2>1, <2>2, <2>3
<1>3. CASE pc[c] = "collect" /\ own'[c] = own[c] /\ at'[c] = at[c]
  <2>1. /\ own[c] \in Ids /\ at[c] \in Components /\ Open(own[c]) /\ Present(own[c])
        /\ rows[own[c]].evidence[at[c]] # "all"
        /\ \A d \in Callers : own[d] = own[c] => d = c
    BY <1>3, CallerFacts DEF IInv, TypeOK, WorkInv, Working, EvidenceInv, Open
  <2>2. QueueGathers => backlog[1].id # own[c]
    <3> SUFFICES ASSUME QueueGathers PROVE backlog[1].id # own[c]
      OBVIOUS
    <3>1. 1 \in DOMAIN backlog /\ backlog[1].op = "persist"
      BY DEF QueueGathers, IInv, TypeOK
    <3> QED  BY <1>3, <3>1, NothingQueuedFor DEF IInv
  <2>3. CASE CallGathers(c)
    <3>1. Gathers(own[c], at[c], "some")
      BY <1>3, <2>3 DEF CallGathers
    <3>2. rows[own[c]] \in Rows
      BY <2>1, RowFacts DEF IInv
    <3> QED  BY <1>3, <2>1, <3>1, <3>2 DEF Gathers, IInv, TypeOK, Rows
  <2>4. CASE ~CallGathers(c)
    <3>1. \A d \in Callers : CallGathers(d) => own[d] # own[c]
      BY <2>1, <2>4
    <3> QED  BY <1>1, <1>3, <2>1, <2>2, <3>1, NextTable, EvidenceUntouched
  <2> QED  BY <2>3, <2>4
<1> QED  BY <1>2, <1>3, CollectOrigin

\* The queue stays, loses its head, is lost, or takes one operation more; and only
\* a call that was collecting queues a write.
LEMMA QueueOrigin ==
  ASSUME IInv, [Next]_vars
  PROVE  \/ backlog' = backlog
         \/ backlog' = <<>>
         \/ DrainBacklog
         \/ /\ rows' = rows
            /\ \E c \in Callers, o \in Ops :
                 /\ backlog' = Append(backlog, o)
                 /\ o.op = "persist" => pc[c] = "collect" /\ o.id = own[c] /\ o.comp = at[c]
<1> DEFINE Goal ==
       \/ backlog' = backlog
       \/ backlog' = <<>>
       \/ DrainBacklog
       \/ /\ rows' = rows
          /\ \E c \in Callers, o \in Ops :
               /\ backlog' = Append(backlog, o)
               /\ o.op = "persist" => pc[c] = "collect" /\ o.id = own[c] /\ o.comp = at[c]
<1>1. ASSUME NEW c \in Callers, NEW queued \in BOOLEAN, CallFails(c, queued) PROVE Goal
  <2>1. CASE backlog' = backlog
    BY <2>1
  <2>2. CASE backlog' = Append(backlog, LostOp(c))
    <3>1. LostOp(c) \in Ops /\ LostOp(c).op # "persist"
      BY <1>1, LostOpFacts DEF CallFails
    <3> QED  BY <1>1, <2>2, <3>1 DEF CallFails
  <2> QED  BY <1>1, <2>1, <2>2 DEF CallFails, Fault
<1>2. ASSUME NEW c \in Callers, NEW amount \in {"some", "all"}, NEW queued \in BOOLEAN,
             PersistFails(c, amount, queued)
      PROVE  Goal
  <2> DEFINE o == [op |-> "persist", id |-> own[c], comp |-> at[c], amount |-> amount]
  <2>1. pc[c] = "collect" /\ rows' = rows /\ (backlog' = backlog \/ backlog' = Append(backlog, o))
    BY <1>2 DEF PersistFails, Fault
  <2>2. own[c] \in Ids /\ at[c] \in Components
    BY <2>1, CallerFacts DEF IInv, TypeOK
  <2>3. o \in Ops /\ o.id = own[c] /\ o.comp = at[c]
    BY <2>2 DEF Ops
  <2> QED  BY <2>1, <2>3
<1>3. ASSUME NEW c \in Callers, Step(c) PROVE Goal
  BY <1>3 DEF Step, AdmitNew, AdmitReuse, AdmitReject, CancelBeforeStart, BeginComponents,
     StartComponent, PersistPage, CollectorDelivers, CollectorFails, FinishComponent,
     CodeGate, LinkScore, Prune, Quiet
<1>4. CASE \/ Crash \/ UNCHANGED vars \/ DrainBacklog \/ SweepAbandoned
           \/ \E id \in Ids : RowAges(id)
           \/ \E c \in Callers : UserCancels(c) \/ \E r \in CanCall : Call(c, r)
  <2>1. CASE SweepAbandoned \/ \E id \in Ids : RowAges(id)
    BY <2>1 DEF SweepAbandoned, RowAges, Quiet
  <2>2. CASE Crash \/ UNCHANGED vars \/ DrainBacklog
    BY <2>2 DEF Crash, vars
  <2>3. CASE \E c \in Callers : UserCancels(c) \/ \E r \in CanCall : Call(c, r)
    BY <2>3 DEF UserCancels, Call, Quiet
  <2> QED  BY <1>4, <2>1, <2>2, <2>3
<1> QED  BY <1>1, <1>2, <1>3, <1>4 DEF Next

\* A queued write finds its evidence as it was while others move.
LEMMA QueuedNotAll ==
  ASSUME IInv, EvidenceInv, [Next]_vars, IInv',
         NEW n \in DOMAIN backlog, NEW o, o = backlog[n], o.op = "persist",
         rows'[o.id] # NoRow, QueueGathers => n # 1
  PROVE  rows'[o.id].evidence[o.comp] # "all"
<1>1. /\ o.id \in Ids /\ Present(o.id) /\ rows[o.id].evidence[o.comp] # "all"
  BY QueueFacts, OpFacts DEF IInv, BacklogInv, EvidenceInv, Open
<1>2. \A c \in Callers : CallGathers(c) => own[c] # o.id
  BY DEF CallGathers, IInv, TypeOK
<1>3. QueueGathers => backlog[1].id # o.id
  <2> SUFFICES ASSUME QueueGathers, backlog[1].id = o.id PROVE FALSE
    OBVIOUS
  <2>1. 1 \in DOMAIN backlog /\ backlog[1].op = "persist"
    BY DEF QueueGathers, IInv, TypeOK
  <2> QED  BY <2>1 DEF EvidenceInv
<1> QED  BY <1>1, <1>2, <1>3, NextTable, EvidenceUntouched

\* What is queued is not committed in full, and queued once.
LEMMA QueueStays ==
  ASSUME IInv, EvidenceInv, [Next]_vars, IInv',
         NEW n \in DOMAIN backlog', backlog'[n].op = "persist"
  PROVE  /\ rows'[backlog'[n].id].evidence[backlog'[n].comp] # "all"
         /\ \A m \in DOMAIN backlog' :
              backlog'[m].op = "persist" /\ backlog'[m].id = backlog'[n].id => m = n
<1>1. rows'[backlog'[n].id] # NoRow
  BY DEF IInv, BacklogInv, Open, Present
<1>2. CASE backlog' = backlog
  <2>1. ~QueueGathers
    BY <1>2 DEF QueueGathers, IInv, TypeOK
  <2> QED  BY <1>1, <1>2, <2>1, QueuedNotAll DEF EvidenceInv
<1>3. CASE backlog' = <<>>
  BY <1>3
<1>4. CASE DrainBacklog
  <2>1. /\ 1 \in DOMAIN backlog
        /\ \A m \in DOMAIN backlog' :
             m \in Nat /\ m >= 1 /\ m + 1 \in DOMAIN backlog /\ backlog'[m] = backlog[m + 1]
    BY <1>4, TailFacts DEF DrainBacklog, IInv
  <2>2. n + 1 \in DOMAIN backlog /\ n + 1 # 1 /\ backlog'[n] = backlog[n + 1]
    BY <2>1
  <2>3. rows'[backlog'[n].id].evidence[backlog'[n].comp] # "all"
    BY <1>1, <2>2, QueuedNotAll
  <2>4. ASSUME NEW m \in DOMAIN backlog',
               backlog'[m].op = "persist", backlog'[m].id = backlog'[n].id
        PROVE  m = n
    <3>1. m + 1 = n + 1
      BY <2>1, <2>2, <2>4 DEF EvidenceInv
    <3> QED  BY <2>1, <3>1
  <2> QED  BY <2>3, <2>4
<1>5. ASSUME rows' = rows, NEW c \in Callers, NEW o \in Ops, backlog' = Append(backlog, o),
             o.op = "persist" => pc[c] = "collect" /\ o.id = own[c] /\ o.comp = at[c]
      PROVE  /\ rows'[backlog'[n].id].evidence[backlog'[n].comp] # "all"
             /\ \A m \in DOMAIN backlog' :
                  backlog'[m].op = "persist" /\ backlog'[m].id = backlog'[n].id => m = n
  <2> DEFINE L == Len(backlog) + 1
  <2>1. /\ \A m \in DOMAIN backlog : backlog'[m] = backlog[m]
        /\ backlog'[L] = o
        /\ \A m \in DOMAIN backlog' : m \in DOMAIN backlog \/ m = L
    BY <1>5, AppendFacts DEF IInv
  <2> HIDE DEF L
  <2>2. o.op = "persist" =>
          /\ rows[o.id].evidence[o.comp] # "all"
          /\ \A m \in DOMAIN backlog : ~(backlog[m].op = "persist" /\ backlog[m].id = o.id)
    BY <1>5, NothingQueuedFor DEF EvidenceInv, IInv
  <2> QED  BY <1>5, <2>1, <2>2 DEF EvidenceInv
<1> QED  BY <1>2, <1>3, <1>4, <1>5, QueueOrigin

\* EvidenceInv is an invariant.
LEMMA EvidenceInvariance == Spec => []EvidenceInv
<1>1. Init => EvidenceInv
  BY DEF Init, EvidenceInv, Present
<1>2. ASSUME IInv, EvidenceInv, [Next]_vars, IInv' PROVE EvidenceInv'
  <2>1. \A id \in Ids : Present(id)' => Unstarted(rows[id])'
    BY <1>2, NextTable, RowsStayUnstarted DEF Unstarted
  <2>2. \A c \in Callers : pc'[c] = "collect" => rows'[own'[c]].evidence[at'[c]] # "all"
    BY <1>2, CollectNotAll
  <2>3. \A n \in DOMAIN backlog' : backlog'[n].op = "persist" =>
          /\ rows'[backlog'[n].id].evidence[backlog'[n].comp] # "all"
          /\ \A m \in DOMAIN backlog' :
               backlog'[m].op = "persist" /\ backlog'[m].id = backlog'[n].id => m = n
    BY <1>2, QueueStays
  <2> QED  BY <2>1, <2>2, <2>3 DEF EvidenceInv
<1>3. IInv /\ IInv' /\ EvidenceInv /\ [Next]_vars => EvidenceInv'
  BY <1>2
<1> QED  BY <1>1, <1>3, Invariance, PTL DEF Spec

-----------------------------------------------------------------------------
(* The steps of the ledger.                                                *)

\* The entry of a row.
LEMMA EntryAt ==
  ASSUME IInv, NEW i \in Ids, Present(i)
  PROVE  rows[i].key \in Keys /\ Entries(rows)[rows[i].key] = Shown(rows[i])
<1>1. rows[i].key \in Keys
  BY RowFacts DEF IInv, Rows
<1>2. EntryIn(rows, rows[i].key) = Shown(rows[i])
  BY TableUnique, EntryOfRow DEF IInv, Present
<1> QED  BY <1>1, <1>2 DEF Entries

\* Admitting a row admits its key's entry.
LEMMA AdmitsEntry ==
  ASSUME IInv, IInv', Admits
  PROVE  Ledger!Next
<1>1. PICK q \in Requests : CanInsert(q) /\ rows' = [rows EXCEPT ![nextId] = NewRow(q)]
  BY DEF Admits
<1> DEFINE r == NewRow(q)
<1>2. /\ nextId \in Ids /\ q.key \in Keys /\ q.plan \in [Components -> PlannedStatus]
      /\ \A id \in Ids : rows[id] # NoRow => rows[id].key # q.key
      /\ rows[nextId] = NoRow
  BY <1>1 DEF CanInsert, Holder, Present, Requests, AllPlans, IInv, TableInv, Ids
<1>3. /\ rows'[nextId] = r /\ \A id \in Ids \ {nextId} : rows'[id] = rows[id]
      /\ r # NoRow /\ r.key = q.key
  BY <1>1, <1>2, NewRowInv DEF IInv, TypeOK, NewRow
<1>4. Shown(r) = [outcome |-> "open", plan |-> q.plan,
                  evidence |-> [c \in Components |-> "none"]]
  <2>1. /\ r.status = "planned" /\ r.plan = q.plan
        /\ r.evidence = [c \in Components |-> "none"]
    BY DEF NewRow
  <2> HIDE DEF r
  <2> QED  BY <2>1 DEF Shown, Unsettled
<1>5. Unique(rows) /\ Unique(rows')
  BY DEF IInv, TableInv, Unique, Present
<1> HIDE DEF r
<1>6. Entries(rows') = [Entries(rows) EXCEPT ![q.key] = Shown(r)]
  BY <1>2, <1>3, <1>5, EntryRewritten
<1>7. Entries(rows)[q.key] = [outcome |-> "absent"]
  BY <1>2, EntryOfNone DEF Entries
<1>8. Ledger!Admit(q.key, q.plan)
  BY <1>4, <1>6, <1>7 DEF Ledger!Admit, Ledger!Absent
<1> QED  BY <1>2, <1>8 DEF Ledger!Next, PlannedStatus

\* A row that moves on settles its entry, or shows no change.
LEMMA MovesOnEntry ==
  ASSUME IInv, IInv', NEW i \in Ids, NEW s \in Rows, MovesOn(i, s)
  PROVE  Ledger!Next \/ UNCHANGED Entries(rows)
<1> DEFINE r == rows[i]
           k == rows[i].key
<1>1. /\ Present(i) /\ s.key = k /\ s.plan = r.plan /\ s.evidence = r.evidence
      /\ rows'[i] = s /\ (\A j \in Ids \ {i} : rows'[j] = rows[j])
      /\ s # NoRow /\ r # NoRow
  BY RowIsPresent DEF MovesOn, IInv, TypeOK, Present
<1>2. k \in Keys /\ Entries(rows)[k] = Shown(r)
  BY <1>1, EntryAt
<1>3. Unique(rows) /\ Unique(rows')
  BY DEF IInv, TableInv, Unique, Present
<1>4. Entries(rows') = [Entries(rows) EXCEPT ![k] = Shown(s)]
  BY <1>1, <1>2, <1>3, EntryRewritten
<1>5. CASE Shown(s) = Shown(r)
  BY <1>2, <1>4, <1>5 DEF Entries
<1>6. CASE Open(i) /\ s.status \in Terminal
  <2>1. /\ Shown(r) = [outcome |-> "open", plan |-> r.plan, evidence |-> r.evidence]
        /\ Shown(s) = [outcome |-> s.status, plan |-> r.plan, evidence |-> r.evidence]
    BY <1>1, <1>6 DEF Shown, Open, Unsettled, Terminal
  <2>2. Entries(rows)[k].outcome = "open"
    BY <1>2, <2>1
  <2>3. RowInv(s)
    BY <1>1 DEF IInv, TableInv, Present
  <2>4. s.status = "complete" =>
          \A c \in Components : r.plan[c] = "planned" => r.evidence[c] = "all"
    BY <1>1, <2>3 DEF RowInv, CoherentRow
  <2>5. s.status = "partial" => \E c \in Components : r.evidence[c] # "none"
    BY <1>1, <2>3 DEF RowInv, CoherentRow, Delivered
  <2>6. Ledger!Supported(k, s.status)
    BY <1>2, <2>1, <2>4, <2>5 DEF Ledger!Supported
  <2>7. [Entries(rows)[k] EXCEPT !.outcome = s.status] = Shown(s)
    BY <1>2, <2>1
  <2>8. Ledger!Settle(k, s.status)
    BY <1>4, <2>2, <2>6, <2>7 DEF Ledger!Settle
  <2> QED  BY <1>2, <1>6, <2>8 DEF Ledger!Next
<1> QED  BY <1>5, <1>6 DEF MovesOn

\* Committed evidence accumulates in an open entry.
LEMMA GathersEntry ==
  ASSUME IInv, IInv', EvidenceInv,
         NEW i \in Ids, NEW c \in Components, NEW amount \in {"some", "all"},
         Gathers(i, c, amount)
  PROVE  Ledger!Next
<1> DEFINE r == rows[i]
           k == rows[i].key
           ev == [r.evidence EXCEPT ![c] = amount]
           s == [r EXCEPT !.evidence = ev]
<1>1. /\ Present(i) /\ r \in Rows /\ r.status \in Unsettled
      /\ r.plan[c] = "planned" /\ r.evidence[c] # "all"
      /\ r.evidence \in [Components -> {"none", "some", "all"}]
  BY RowFacts DEF Gathers, Open, IInv, Rows
<1>2. /\ rows'[i] = s /\ \A j \in Ids \ {i} : rows'[j] = rows[j]
  BY <1>1 DEF Gathers, IInv, TypeOK
<1>3. /\ s.key = k /\ s.plan = r.plan /\ s.status = r.status /\ s.evidence = ev
      /\ s # NoRow /\ r # NoRow /\ ev \in [Components -> {"none", "some", "all"}]
      /\ ev[c] = amount /\ \A d \in Components \ {c} : ev[d] = r.evidence[d]
  BY <1>1 DEF Rows, NoRow, Unsettled
<1>4. k \in Keys /\ Entries(rows)[k] = Shown(r)
  BY <1>1, EntryAt
<1>5. Unique(rows) /\ Unique(rows')
  BY DEF IInv, TableInv, Unique, Present
<1> HIDE DEF s, ev
<1>6. Entries(rows') = [Entries(rows) EXCEPT ![k] = Shown(s)]
  BY <1>2, <1>3, <1>4, <1>5, EntryRewritten
<1>7. /\ Shown(r) = [outcome |-> "open", plan |-> r.plan, evidence |-> r.evidence]
      /\ Shown(s) = [outcome |-> "open", plan |-> r.plan, evidence |-> ev]
  BY <1>1, <1>3 DEF Shown
<1>8. [Entries(rows)[k] EXCEPT !.evidence = ev] = Shown(s)
  BY <1>4, <1>7
<1>9. \A d \in Components :
        /\ Ledger!AtLeast(ev[d], r.evidence[d])
        /\ ev[d] # "none" => d = c \/ r.evidence[d] # "none"
  BY <1>1, <1>3 DEF Ledger!AtLeast
<1>10. \A d \in Components : r.evidence[d] # "none" => r.plan[d] = "planned"
  BY <1>1 DEF IInv, TableInv, RowInv, EvidenceInv, Unstarted, PlannedStatus
<1>11. /\ Entries(rows)[k].outcome = "open" /\ Entries(rows)[k].plan = r.plan
       /\ Entries(rows)[k].evidence = r.evidence
  BY <1>4, <1>7
<1>12. Entries(rows') = [Entries(rows) EXCEPT ![k].evidence = ev]
  BY <1>6, <1>8
<1> HIDE DEF r, k
<1>13. Ledger!Gather(k, ev)
  BY <1>1, <1>9, <1>10, <1>11, <1>12 DEF Ledger!Gather
<1> QED  BY <1>3, <1>4, <1>13 DEF Ledger!Next, Ledger!Amounts

\* Rows that are removed are entries forgotten.
LEMMA RemovesEntries ==
  ASSUME IInv, IInv', Removes
  PROVE  Ledger!Next
<1> DEFINE S == {k \in Keys : \A id \in Ids : ~Holds(rows', id, k)}
<1>1. Unique(rows) /\ Unique(rows')
  BY DEF IInv, TableInv, Unique, Present
<1>2. ASSUME NEW k \in S PROVE EntryIn(rows', k) = [outcome |-> "absent"]
  BY <1>2, EntryOfNone DEF Holds
<1>3. ASSUME NEW k \in Keys \ S PROVE EntryIn(rows', k) = EntryIn(rows, k)
  <2>1. PICK id \in Ids : Holds(rows', id, k)
    BY <1>3
  <2>2. rows'[id] = rows[id] /\ rows[id] # NoRow /\ rows[id].key = k
    BY <2>1 DEF Removes, Holds
  <2>3. EntryIn(rows, k) = Shown(rows[id])
    BY <1>1, <2>2, EntryOfRow
  <2>4. EntryIn(rows', k) = Shown(rows'[id])
    BY <1>1, <2>2, EntryOfRow
  <2> QED  BY <2>2, <2>3, <2>4
<1> HIDE DEF S
<1>4. Ledger!Forget(S)
  BY <1>2, <1>3 DEF Ledger!Forget, Ledger!Absent, Entries
<1>5. S \in SUBSET Keys
  BY DEF S
<1> QED  BY <1>4, <1>5 DEF Ledger!Next

\* The execution table implements the ledger.
THEOREM LedgerImplemented == Spec => LedgerKept
<1>1. Init => Ledger!Init
  <2> SUFFICES ASSUME Init PROVE Ledger!Init
    OBVIOUS
  <2>1. \A k \in Keys : EntryIn(rows, k) = [outcome |-> "absent"]
    BY EntryOfNone DEF Init
  <2> QED  BY <2>1 DEF Ledger!Init, Ledger!Absent, Entries
<1>2. ASSUME IInv, IInv', EvidenceInv, [Next]_vars
      PROVE  Ledger!Next \/ UNCHANGED Entries(rows)
  <2>1. CASE rows' = rows
    BY <2>1
  <2>2. CASE Admits
    BY <1>2, <2>2, AdmitsEntry
  <2>3. ASSUME NEW i \in Ids, NEW s \in Rows, MovesOn(i, s)
        PROVE  Ledger!Next \/ UNCHANGED Entries(rows)
    BY <1>2, <2>3, MovesOnEntry
  <2>4. ASSUME NEW c \in Callers, CallGathers(c) PROVE Ledger!Next
    <3>1. own[c] \in Ids /\ at[c] \in Components
      BY <1>2, <2>4, CallerFacts DEF CallGathers, IInv, TypeOK
    <3> QED  BY <1>2, <2>4, <3>1, GathersEntry DEF CallGathers
  <2>5. CASE QueueGathers
    <3>1. 1 \in DOMAIN backlog /\ backlog[1] \in Ops
      BY <1>2, <2>5 DEF QueueGathers, IInv, TypeOK
    <3> QED  BY <1>2, <2>5, <3>1, OpFacts, GathersEntry DEF QueueGathers
  <2>6. CASE Removes
    BY <1>2, <2>6, RemovesEntries
  <2> QED  BY <1>2, <2>1, <2>2, <2>3, <2>4, <2>5, <2>6, NextTable DEF TableChange
<1>3. IInv /\ IInv' /\ EvidenceInv /\ [Next]_vars => [Ledger!Next]_(Entries(rows))
  BY <1>2
<1> QED
  BY <1>1, <1>3, Invariance, EvidenceInvariance, PTL DEF Spec, LedgerKept, Ledger!Spec
=============================================================================
