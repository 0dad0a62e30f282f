--------------------------- MODULE ScanExecution ---------------------------
(***************************************************************************)
(* One parent record per user-visible scan: the scan_executions table      *)
(* (db/scan_executions.rs), the orchestrator that drives it                *)
(* (commands/scan/execution.rs), bounded verification                      *)
(* (commands/scan/verification.rs), count retention (db/scan_retention.rs) *)
(* and the abandoned-row sweep (db/retention.rs), over the single FIFO     *)
(* database worker of db/mod.rs.                                           *)
(*                                                                         *)
(* A caller is one invocation of run_scan_execution or of                  *)
(* run_bounded_web_verification.  A caller waits for each of its database  *)
(* operations, so a call and its reply are one step; a call that times out *)
(* fails for the caller while the operation stays queued (`backlog`), and  *)
(* nothing submitted later runs before it.                                 *)
(***************************************************************************)
EXTENDS Integers, Sequences, FiniteSets

CONSTANTS Callers,       \* invocations, each with one request
          Keys,          \* idempotency keys
          Plans,         \* component statuses a validated plan may ask for
          MaxRows,       \* bound: executions ever admitted
          Keep,          \* retention count of the scope, at least 1
          MaxFaults,     \* bound: database calls that fail or time out
          MaxCrashes     \* bound: process deaths

Components == {"web", "code"}
Classes == {"general_scan", "bounded_verification"}
Unsettled == {"planned", "running"}

\* "incomplete" is the code's complete status with a detail: the collector
\* committed evidence for part of the scope only.
Delivered == {"complete", "incomplete"}
Settled == Delivered \cup {"failed", "cancelled"}
PlannedStatus == {"absent", "skipped", "planned"}
ComponentStatus == PlannedStatus \cup Unsettled \cup Settled
Terminal == {"complete", "partial", "failed", "cancelled"}

\* What validate_plan (and the fixed plan of a verification) can produce.
AllPlans == {p \in [Components -> PlannedStatus] : \E k \in Components : p[k] = "planned"}
WebOnly == [k \in Components |-> IF k = "web" THEN "planned" ELSE "absent"]
Requests == {r \in [key : Keys, class : Classes, plan : AllPlans] :
               r.class = "bounded_verification" => r.plan = WebOnly}

ASSUME PlansAssumption == Plans \subseteq AllPlans
ASSUME KeepAssumption == Keep \in Nat /\ Keep >= 1
ASSUME BoundsAssumption == MaxRows \in Nat /\ MaxFaults \in Nat /\ MaxCrashes \in Nat

NoRow == [status |-> "none"]
Ids == 1 .. MaxRows     \* AUTOINCREMENT: an id is never reused
Rows == [key : Keys, class : Classes, plan : AllPlans,
         status : Unsettled \cup Terminal,
         comp : [Components -> ComponentStatus],
         evidence : [Components -> {"none", "some", "all"}],
         aged : BOOLEAN]

VARIABLES rows,      \* scan_executions, by id
          nextId,    \* the table's AUTOINCREMENT counter
          pc,        \* where each caller is
          at,        \* the component a caller is collecting
          req,       \* each caller's request
          own,       \* the execution a caller created; 0 before
          result,    \* what the caller's collector returned
          flagged,   \* callers whose request id is_cancelled reports
          backlog,   \* operations whose caller stopped waiting, oldest first
          faults, crashes

vars == <<rows, nextId, pc, at, req, own, result, flagged, backlog, faults, crashes>>

Phases == {"idle", "admit", "precheck", "start", "collect", "finish", "gate",
           "link", "prune", "done"}
Results == {"none"} \cup Settled
NoRequest == [class |-> "none"]
Ops == [op : {"admit"}, req : Requests]
         \cup [op : {"start", "cancel", "link"}, id : Ids, comp : Components]
         \cup [op : {"persist"}, id : Ids, comp : Components, amount : {"some", "all"}]
         \cup [op : {"finish"}, id : Ids, comp : Components, status : Settled]
         \cup [op : {"prune"}, class : Classes]

TypeOK ==
  /\ rows \in [Ids -> Rows \cup {NoRow}]
  /\ nextId \in 1 .. MaxRows + 1
  /\ pc \in [Callers -> Phases]
  /\ at \in [Callers -> Components]
  /\ req \in [Callers -> Requests \cup {NoRequest}]
  /\ own \in [Callers -> Ids \cup {0}]
  /\ result \in [Callers -> Results]
  /\ flagged \subseteq Callers
  /\ backlog \in Seq(Ops)
  /\ faults \in 0 .. MaxFaults
  /\ crashes \in 0 .. MaxCrashes

Present(id) == rows[id] # NoRow
Open(id) == Present(id) /\ rows[id].status \in Unsettled
Closed(id) == Present(id) /\ rows[id].status \in Terminal
Holder(k) == {id \in Ids : Present(id) /\ rows[id].key = k}

Init ==
  /\ rows = [id \in Ids |-> NoRow]
  /\ nextId = 1
  /\ pc = [c \in Callers |-> "idle"]
  /\ at = [c \in Callers |-> "web"]
  /\ req = [c \in Callers |-> NoRequest]
  /\ own = [c \in Callers |-> 0]
  /\ result = [c \in Callers |-> "none"]
  /\ flagged = {}
  /\ backlog = <<>>
  /\ faults = 0
  /\ crashes = 0

-----------------------------------------------------------------------------
(* The database operations: each one transaction on the worker thread.     *)

NewRow(r) == [key |-> r.key, class |-> r.class, plan |-> r.plan,
              status |-> "planned", comp |-> r.plan,
              evidence |-> [k \in Components |-> "none"], aged |-> FALSE]

\* admit_scan_execution: reuse the key's execution while it is unsettled or
\* settled within the retry window, reject it after, refuse another plan.
SamePlan(id, r) == rows[id].class = r.class /\ rows[id].plan = r.plan
Reusable(id) == Open(id) \/ ~rows[id].aged
CanInsertIgnoringKey(r) == nextId \in Ids   \* mutant: no UNIQUE key
CanInsert(r) == Holder(r.key) = {} /\ nextId \in Ids
DbAdmit(r) == IF CanInsert(r) THEN [rows EXCEPT ![nextId] = NewRow(r)] ELSE rows

CanStart(id, k) == Open(id) /\ rows[id].comp[k] = "planned"
\* Mutant: the execution keeps saying planned.
DbStartComponentOnly(id, k) ==
  IF CanStart(id, k) THEN [rows EXCEPT ![id].comp[k] = "running"] ELSE rows
DbStart(id, k) ==
  IF CanStart(id, k)
    THEN [rows EXCEPT ![id].status = "running", ![id].comp[k] = "running"]
    ELSE rows

\* persist_run_batch and the multi-page parent: committed runs of the execution.
DbPersist(id, k, amount) ==
  IF Present(id) THEN [rows EXCEPT ![id].evidence[k] = amount] ELSE rows

\* Mutant: a detail does not make the outcome partial.
OutcomeIgnoringDetail(comp) ==
  LET Has(S) == \E k \in Components : comp[k] \in S
  IN  IF Has(Delivered)
        THEN IF Has({"failed", "cancelled"}) THEN "partial" ELSE "complete"
        ELSE IF Has({"cancelled"}) /\ ~Has({"failed"}) THEN "cancelled" ELSE "failed"

\* The status an execution settles with once no component is unsettled.
Outcome(comp) ==
  LET Has(S) == \E k \in Components : comp[k] \in S
  IN  CASE Has(Delivered) /\ ~Has({"failed", "cancelled", "incomplete"}) -> "complete"
        [] Has(Delivered) /\ Has({"failed", "cancelled", "incomplete"}) -> "partial"
        [] ~Has(Delivered) /\ Has({"cancelled"}) /\ ~Has({"failed"}) -> "cancelled"
        [] OTHER -> "failed"

StillOpen(comp) == \E k \in Components : comp[k] \in Unsettled

\* finish_scan_execution_component: settle one component of an open execution
\* and, when it was the last, the execution.
DbFinish(id, k, status) ==
  IF Open(id)
    THEN LET comp == [rows[id].comp EXCEPT ![k] = status]
         IN  [rows EXCEPT ![id].comp = comp,
                          ![id].status = IF StillOpen(comp) THEN @ ELSE Outcome(comp)]
    ELSE rows

\* Mutant: the components stay planned.
DbCancelRowOnly(id) ==
  IF Present(id) /\ rows[id].status = "planned"
    THEN [rows EXCEPT ![id].status = "cancelled"]
    ELSE rows

\* cancel_scan_execution_before_start: only a planned execution.
DbCancel(id) ==
  IF Present(id) /\ rows[id].status = "planned"
    THEN [rows EXCEPT ![id].status = "cancelled",
                      ![id].comp = [k \in Components |->
                                      IF @[k] = "planned" THEN "cancelled" ELSE @[k]]]
    ELSE rows

\* prune_scan_executions_for_scope: settled executions beyond the newest Keep
\* of their class; a verification prunes only its own class.
Newer(id) == {j \in Ids : j > id /\ Closed(j) /\ rows[j].class = rows[id].class}
ExpiredOffByOne(class) ==   \* mutant
  {id \in Ids : /\ Closed(id)
                /\ rows[id].class = class \/ class = "general_scan"
                /\ Cardinality(Newer(id)) + 1 >= Keep}
Expired(class) ==
  {id \in Ids : /\ Closed(id)
                /\ rows[id].class = class \/ class = "general_scan"
                /\ Cardinality(Newer(id)) >= Keep}
DbPrune(class) == [id \in Ids |-> IF id \in Expired(class) THEN NoRow ELSE rows[id]]

-----------------------------------------------------------------------------
(* A caller that waits for the worker: nothing older is queued.            *)

Goto(c, phase) == pc' = [pc EXCEPT ![c] = phase]
InAnyOrder(c, phase) == pc[c] = phase   \* mutant: the worker is no queue
InTurn(c, phase) == pc[c] = phase /\ backlog = <<>>
Quiet == UNCHANGED <<flagged, backlog, faults, crashes>>

Call(c, r) ==
  /\ pc[c] = "idle"
  /\ req' = [req EXCEPT ![c] = r]
  /\ Goto(c, "admit")
  /\ UNCHANGED <<rows, nextId, at, own, result>> /\ Quiet

AdmitNew(c) ==
  /\ InTurn(c, "admit")
  /\ CanInsert(req[c])
  /\ rows' = DbAdmit(req[c])
  /\ own' = [own EXCEPT ![c] = nextId]
  /\ nextId' = nextId + 1
  /\ Goto(c, IF req[c].class = "general_scan" THEN "precheck" ELSE "start")
  /\ UNCHANGED <<at, req, result>> /\ Quiet

\* Mutant: the reused execution is collected again.
AdmitReuseCollects(c) ==
  /\ InTurn(c, "admit")
  /\ \E id \in Holder(req[c].key) :
       /\ SamePlan(id, req[c]) /\ Reusable(id)
       /\ own' = [own EXCEPT ![c] = id]
  /\ Goto(c, "start")
  /\ UNCHANGED <<rows, nextId, at, req, result>> /\ Quiet

\* Reuse, IdempotencyConflict and IdempotencyStale all end the call at once:
\* the caller collects nothing.
AdmitReuse(c) ==
  /\ InTurn(c, "admit")
  /\ \E id \in Holder(req[c].key) : SamePlan(id, req[c]) /\ Reusable(id)
  /\ Goto(c, "done")
  /\ UNCHANGED <<rows, nextId, at, req, own, result>> /\ Quiet

AdmitReject(c) ==
  /\ InTurn(c, "admit")
  /\ \E id \in Holder(req[c].key) : ~SamePlan(id, req[c]) \/ ~Reusable(id)
  /\ Goto(c, "done")
  /\ UNCHANGED <<rows, nextId, at, req, own, result>> /\ Quiet

CancelBeforeStart(c) ==
  /\ InTurn(c, "precheck")
  /\ c \in flagged
  /\ rows' = DbCancel(own[c])
  /\ Goto(c, "prune")
  /\ UNCHANGED <<nextId, at, req, own, result>> /\ Quiet

BeginComponents(c) ==
  /\ pc[c] = "precheck"
  /\ c \notin flagged
  /\ IF req[c].plan["web"] = "planned"
       THEN Goto(c, "start") /\ UNCHANGED at
       ELSE Goto(c, "gate") /\ at' = [at EXCEPT ![c] = "code"]
  /\ UNCHANGED <<rows, nextId, req, own, result>> /\ Quiet

StartComponent(c) ==
  /\ InTurn(c, "start")
  /\ CanStart(own[c], at[c])
  /\ rows' = DbStart(own[c], at[c])
  /\ Goto(c, "collect")
  /\ UNCHANGED <<nextId, at, req, own, result>> /\ Quiet

\* A page of a multi-page scan commits on its own, before the scan is over.
PersistPage(c) ==
  /\ InTurn(c, "collect")
  /\ at[c] = "web" /\ req[c].class = "general_scan"
  /\ rows[own[c]].evidence["web"] = "none"
  /\ rows' = DbPersist(own[c], "web", "some")
  /\ UNCHANGED <<nextId, pc, at, req, own, result>> /\ Quiet

\* The collector commits its run and returns; an incomplete page set or a
\* failed browser layer comes back as a detail.
CollectorDelivers(c, res) ==
  /\ InTurn(c, "collect")
  /\ res = "incomplete" => at[c] = "web" /\ req[c].class = "general_scan"
  /\ rows' = DbPersist(own[c], at[c], IF res = "complete" THEN "all" ELSE "some")
  /\ result' = [result EXCEPT ![c] = res]
  /\ Goto(c, "finish")
  /\ UNCHANGED <<nextId, at, req, own>> /\ Quiet

\* The collector returns an error; only one that saw the flag says "cancelled".
CollectorFails(c, res) ==
  /\ pc[c] = "collect"
  /\ res = "failed" \/ (res = "cancelled" /\ c \in flagged)
  /\ result' = [result EXCEPT ![c] = res]
  /\ Goto(c, "finish")
  /\ UNCHANGED <<rows, nextId, at, req, own>> /\ Quiet

\* Mutant: Code is collected only after a delivered Web component.
AfterDelivery(k, plan, comp) ==
  IF k = "web" /\ plan["code"] = "planned" /\ comp["web"] \in Delivered THEN "gate"
  ELSE IF \E j \in Components : comp[j] \in Delivered THEN "link" ELSE "prune"

\* What follows the settling of component k: the other component, or the score
\* link when some component delivered, or retention.
After(k, plan, comp) ==
  IF k = "web" /\ plan["code"] = "planned" THEN "gate"
  ELSE IF \E j \in Components : comp[j] \in Delivered THEN "link" ELSE "prune"

FinishComponent(c) ==
  /\ InTurn(c, "finish")
  /\ Open(own[c])
  /\ rows' = DbFinish(own[c], at[c], result[c])
  /\ LET phase == After(at[c], req[c].plan, rows'[own[c]].comp)
     IN  /\ Goto(c, phase)
         /\ at' = IF phase = "gate" THEN [at EXCEPT ![c] = "code"] ELSE at
  /\ result' = [result EXCEPT ![c] = "none"]
  /\ UNCHANGED <<nextId, req, own>> /\ Quiet

\* The cancellation check between collectors: a cancelled Code component is
\* settled without ever starting.
CodeGate(c) ==
  /\ pc[c] = "gate"
  /\ IF c \in flagged
       THEN Goto(c, "finish") /\ result' = [result EXCEPT ![c] = "cancelled"]
       ELSE Goto(c, "start") /\ UNCHANGED result
  /\ UNCHANGED <<rows, nextId, at, req, own>> /\ Quiet

\* Computing the score may fail, which only skips the link.  The link fails, and
\* the call with it, when another call's retention took the row meanwhile.
LinkScore(c) ==
  /\ InTurn(c, "link")
  /\ Goto(c, "prune") \/ (~Present(own[c]) /\ Goto(c, "done"))
  /\ UNCHANGED <<rows, nextId, at, req, own, result>> /\ Quiet

\* Retention, the history event and the completion event end the call.
Prune(c) ==
  /\ InTurn(c, "prune")
  /\ rows' = DbPrune(req[c].class)
  /\ Goto(c, "done")
  /\ UNCHANGED <<nextId, at, req, own, result>> /\ Quiet

-----------------------------------------------------------------------------
(* Database calls that fail: with a storage error, or with a timeout that  *)
(* leaves the operation in the worker's queue.                             *)

LostOp(c) ==
  CASE pc[c] = "admit" -> [op |-> "admit", req |-> req[c]]
    [] pc[c] = "precheck" -> [op |-> "cancel", id |-> own[c], comp |-> at[c]]
    [] pc[c] = "start" -> [op |-> "start", id |-> own[c], comp |-> at[c]]
    [] pc[c] = "finish" -> [op |-> "finish", id |-> own[c], comp |-> at[c],
                            status |-> result[c]]
    [] pc[c] = "link" -> [op |-> "link", id |-> own[c], comp |-> at[c]]
    [] OTHER -> [op |-> "prune", class |-> req[c].class]

Fault(op, queued) ==
  /\ faults < MaxFaults
  /\ faults' = faults + 1
  /\ backlog' = IF queued THEN Append(backlog, op) ELSE backlog

\* Every failed call but the collector's own write abandons the execution: the
\* error goes to the caller (or, for retention, to the log) and the call ends.
CallFails(c, queued) ==
  /\ pc[c] \in {"admit", "start", "finish", "link", "prune"} \/ (pc[c] = "precheck" /\ c \in flagged)
  /\ Fault(LostOp(c), queued)
  /\ Goto(c, "done")
  /\ UNCHANGED <<rows, nextId, at, req, own, result, flagged, crashes>>

\* Mutant: the collector's own timeout goes unnoticed.
PersistFailsUnnoticed(c, amount, queued) ==
  /\ pc[c] = "collect"
  /\ amount = "some" => at[c] = "web" /\ req[c].class = "general_scan"
  /\ Fault([op |-> "persist", id |-> own[c], comp |-> at[c], amount |-> amount], queued)
  /\ result' = [result EXCEPT ![c] = "complete"]
  /\ Goto(c, "finish")
  /\ UNCHANGED <<rows, nextId, at, req, own, flagged, crashes>>

\* A failed write of a run fails its component only.
PersistFails(c, amount, queued) ==
  /\ pc[c] = "collect"
  /\ amount = "some" => at[c] = "web" /\ req[c].class = "general_scan"
  /\ Fault([op |-> "persist", id |-> own[c], comp |-> at[c], amount |-> amount], queued)
  /\ result' = [result EXCEPT ![c] = "failed"]
  /\ Goto(c, "finish")
  /\ UNCHANGED <<rows, nextId, at, req, own, flagged, crashes>>

\* The worker reaches an operation nobody waits for.
DrainBacklog ==
  /\ backlog # <<>>
  /\ backlog' = Tail(backlog)
  /\ LET o == Head(backlog) IN
       /\ rows' = CASE o.op = "admit" -> DbAdmit(o.req)
                    [] o.op = "start" -> DbStart(o.id, o.comp)
                    [] o.op = "cancel" -> DbCancel(o.id)
                    [] o.op = "persist" -> DbPersist(o.id, o.comp, o.amount)
                    [] o.op = "finish" -> DbFinish(o.id, o.comp, o.status)
                    [] o.op = "prune" -> DbPrune(o.class)
                    [] o.op = "link" -> rows
       /\ nextId' = CASE o.op = "admit" -> IF CanInsert(o.req) THEN nextId + 1 ELSE nextId
                      [] OTHER -> nextId
  /\ UNCHANGED <<pc, at, req, own, result, flagged, faults, crashes>>

-----------------------------------------------------------------------------
(* The environment: the user, time, the sweep and the process.             *)

UserCancels(c) ==
  /\ pc[c] \notin {"idle", "done"}
  /\ flagged' = flagged \cup {c}
  /\ UNCHANGED <<rows, nextId, pc, at, req, own, result, backlog, faults, crashes>>

\* A settled row leaves the 15-minute retry window; an open one whose caller is
\* gone reaches the cutoff of the sweep, days later (no call lasts that long).
Referenced(id) ==
  \/ \E c \in Callers : own[c] = id /\ pc[c] # "done"
  \/ \E n \in DOMAIN backlog : "id" \in DOMAIN backlog[n] /\ backlog[n].id = id

RowAges(id) ==
  /\ Present(id) /\ ~rows[id].aged
  /\ Open(id) => ~Referenced(id)
  /\ rows' = [rows EXCEPT ![id].aged = TRUE]
  /\ UNCHANGED <<nextId, pc, at, req, own, result>> /\ Quiet

\* Mutant: only rows that never started are abandoned.
SweepPlanned ==
  /\ backlog = <<>>
  /\ \E id \in Ids : Open(id) /\ rows[id].aged
  /\ rows' = [id \in Ids |->
                IF Present(id) /\ rows[id].status = "planned" /\ rows[id].aged
                  THEN NoRow ELSE rows[id]]
  /\ UNCHANGED <<nextId, pc, at, req, own, result>> /\ Quiet

\* run_retention_sweep, at startup and daily: open rows past the cutoff.
SweepAbandoned ==
  /\ backlog = <<>>
  /\ \E id \in Ids : Open(id) /\ rows[id].aged
  /\ rows' = [id \in Ids |-> IF Open(id) /\ rows[id].aged THEN NoRow ELSE rows[id]]
  /\ UNCHANGED <<nextId, pc, at, req, own, result>> /\ Quiet

\* The process dies with its calls, its cancellation flags and its queue.
Crash ==
  /\ crashes < MaxCrashes
  /\ crashes' = crashes + 1
  /\ pc' = [c \in Callers |-> IF pc[c] = "idle" THEN "idle" ELSE "done"]
  /\ flagged' = {}
  /\ backlog' = <<>>
  /\ UNCHANGED <<rows, nextId, at, req, own, result, faults>>

-----------------------------------------------------------------------------
Step(c) ==
  \/ AdmitNew(c) \/ AdmitReuse(c) \/ AdmitReject(c)
  \/ CancelBeforeStart(c) \/ BeginComponents(c)
  \/ StartComponent(c)
  \/ PersistPage(c)
  \/ \E res \in Delivered : CollectorDelivers(c, res)
  \/ \E res \in {"failed", "cancelled"} : CollectorFails(c, res)
  \/ FinishComponent(c) \/ CodeGate(c) \/ LinkScore(c) \/ Prune(c)

CanCall == {r \in Requests : r.plan \in Plans}

Next ==
  \/ \E c \in Callers :
       \/ \E r \in CanCall : Call(c, r)
       \/ Step(c)
       \/ UserCancels(c)
       \/ \E queued \in BOOLEAN :
            \/ CallFails(c, queued)
            \/ \E amount \in {"some", "all"} : PersistFails(c, amount, queued)
  \/ DrainBacklog
  \/ \E id \in Ids : RowAges(id)
  \/ SweepAbandoned
  \/ Crash

Spec == Init /\ [][Next]_vars

-----------------------------------------------------------------------------
(* Properties.                                                             *)

\* Every execution's status says what its components say, whichever of finish,
\* pre-start cancellation and late (timed-out) operations got it there: open
\* exactly while a component is unsettled, planned only before any component
\* moved, complete only when everything planned was delivered in full, partial
\* when part of it was, and cancelled only when nothing was and nothing failed.
CoherentRow(r) ==
  LET planned == {k \in Components : r.plan[k] = "planned"}
      Some(S) == \E k \in planned : r.comp[k] \in S
      full == \A k \in planned : r.comp[k] = "complete"
  IN  /\ r.status \in Unsettled <=> Some(Unsettled)
      /\ r.status = "planned" => r.comp = r.plan
      /\ r.status = "complete" => full
      /\ r.status = "partial" => Some(Delivered) /\ ~full
      /\ r.status = "cancelled" => ~Some(Delivered) /\ ~Some({"failed"})
      /\ r.status = "failed" => ~Some(Delivered) /\ Some({"failed"})
StatusCoherent == \A id \in Ids : Present(id) => CoherentRow(rows[id])

\* A component reported complete has its run committed, a component reported
\* complete-with-a-detail has part of it: partial evidence never appears
\* complete, although writes and settlements are separate transactions.
EvidenceBacked ==
  \A id \in Ids : Present(id) =>
    \A k \in Components :
      /\ rows[id].comp[k] = "complete" => rows[id].evidence[k] = "all"
      /\ rows[id].comp[k] = "incomplete" => rows[id].evidence[k] # "none"

\* At most one caller works on a key, retries and re-admissions after retention
\* included, and it works on an open execution of the plan it asked for.
Collecting(c) == pc[c] \in {"start", "collect", "finish", "gate"}
OneCollector ==
  \A c \in Callers : Collecting(c) =>
    /\ Open(own[c]) /\ rows[own[c]].plan = req[c].plan
    /\ \A d \in Callers : Collecting(d) /\ req[d].key = req[c].key => d = c

\* Settled history is immutable: no late write of a run, no second settlement
\* and no timed-out operation changes an execution that is settled; it can only
\* be removed by retention.
SettledFrozen ==
  [][\A id \in Ids : Closed(id) /\ Present(id)' =>
        /\ rows'[id].status = rows[id].status
        /\ rows'[id].comp = rows[id].comp
        /\ rows'[id].evidence = rows[id].evidence]_vars

\* Retention and the sweep forget only what they may, also when a pass that timed
\* out is applied late: a settled row goes only when at least as many newer settled
\* rows of its own class as the scope keeps are there after the step, visible
\* history and verifications counted apart, and visible history goes in the pass
\* of a visible scan only, never in that of a verification.  An open row goes only
\* when it is abandoned.
Outlive(id) ==
  {j \in Ids : /\ j > id /\ Closed(j) /\ Present(j)'
               /\ rows[j].class = rows[id].class}
PassOf(class) ==
  \/ \E c \in Callers : /\ pc[c] = "prune" /\ pc'[c] = "done"
                         /\ req[c].class = class
  \/ /\ backlog # <<>> /\ backlog' = Tail(backlog)
     /\ Head(backlog).op = "prune" /\ Head(backlog).class = class
RetentionSafe ==
  [][\A id \in Ids : Present(id) /\ ~Present(id)' =>
        \/ Open(id) /\ rows[id].aged /\ ~Referenced(id)
        \/ /\ Closed(id)
           /\ Cardinality(Outlive(id)) >= Keep
           /\ rows[id].class = "general_scan" => PassOf("general_scan")]_vars

\* Every admitted execution settles, cancelled or not, unless a fault or a crash
\* gets in the way (the collectors return: every check and page has a timeout).
Settles ==
  \A id \in Ids : Open(id) ~> Closed(id) \/ faults > 0 \/ crashes > 0

\* After one, an execution its caller abandoned does not stay open, and its key
\* does not stay taken, for ever: it settles or the sweep removes it.
NeverStuckOpen ==
  \A id \in Ids : Open(id) ~> ~Open(id)

\* The runtime schedules every call's task, the worker drains its queue, rows
\* grow old and the daily sweep runs.
Fairness ==
  /\ \A c \in Callers : WF_vars(Step(c))
  /\ WF_vars(DrainBacklog)
  /\ \A id \in Ids : WF_vars(RowAges(id))
  /\ WF_vars(SweepAbandoned)
FairSpec == Spec /\ Fairness
=============================================================================
