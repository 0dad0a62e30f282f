--------------------------- MODULE AgentRequests ---------------------------
(***************************************************************************)
(* The agent_requests queue: rows the MCP server inserts                   *)
(* (apps/mcp-server/src/db_agent_requests.ts), the desktop watcher that    *)
(* claims and fulfils them (background/agent_request_watcher.rs over       *)
(* db/agent_requests.rs), and the scans it spawns.                         *)
(*                                                                         *)
(* The watcher is one task whose database calls block it; a scan runs on   *)
(* its own task and settles its row when it ends.  A call that times out   *)
(* fails for its caller and stays in the database worker's queue (`late`), *)
(* ahead of whatever is submitted next.                                    *)
(***************************************************************************)
EXTENDS Integers, Sequences, FiniteSets

CONSTANTS MaxRequests,   \* bound: requests ever inserted
          Kinds,         \* kinds of request that are made
          MaxFaults,     \* bound: database calls that fail or time out
          MaxPanics,     \* bound: panics of the watcher, which its supervisor restarts
          MaxCrashes     \* bound: deaths of the desktop process

ASSUME KindsAssumption == Kinds \subseteq {"start_fix", "run_scan", "other"}
ASSUME BoundsAssumption ==
  {MaxRequests, MaxFaults, MaxPanics, MaxCrashes} \subseteq Nat

Ids == 1 .. MaxRequests
Settled == {"fulfilled", "failed", "expired"}
Statuses == {"absent", "requested", "running"} \cup Settled

VARIABLES status, kind,   \* the rows; ids are inserted in order
          stale,          \* rows not updated for AGENT_REQUEST_EXPIRY_MS
          wpc,            \* where the watcher is
          todo,           \* rows the watcher listed and has not reached
          gate,           \* the watcher believes a scan is running
          claimed,        \* rows this tick claimed and has not fulfilled
          outcome,        \* of the request being fulfilled inline
          tasks,          \* spawned scans
          starts,         \* attempts or scans started, per request
          done,           \* requests whose work was completed
          late,           \* database operations nobody waits for
          faults, panics, crashes

watcher == <<wpc, todo, gate, claimed, outcome>>
work == <<tasks, starts, done>>
bounds == <<faults, panics, crashes>>
vars == <<status, kind, stale, watcher, work, late, bounds>>

Phases == {"down", "reconcile", "failing", "expire", "list", "probe", "claim",
           "fulfil", "settle", "sleep"}
Ops == [op : {"claim", "fulfil", "fail", "create"}, id : Ids]
         \cup [op : {"expire"}]

TypeOK ==
  /\ status \in [Ids -> Statuses]
  /\ kind \in [Ids -> Kinds]
  /\ stale \subseteq Ids
  /\ wpc \in Phases
  /\ todo \subseteq Ids
  /\ gate \in BOOLEAN
  /\ claimed \subseteq Ids
  /\ outcome \in {"fulfil", "fail"}
  /\ tasks \subseteq Ids
  /\ starts \in [Ids -> Nat]
  /\ done \subseteq Ids
  /\ late \in Seq(Ops)
  /\ faults \in 0 .. MaxFaults
  /\ panics \in 0 .. MaxPanics
  /\ crashes \in 0 .. MaxCrashes

Init ==
  /\ status = [r \in Ids |-> "absent"]
  /\ kind \in [Ids -> Kinds]
  /\ stale = {}
  /\ wpc = "down"
  /\ todo = {} /\ gate = FALSE /\ claimed = {} /\ outcome = "fail"
  /\ tasks = {} /\ starts = [r \in Ids |-> 0] /\ done = {}
  /\ late = <<>>
  /\ faults = 0 /\ panics = 0 /\ crashes = 0

-----------------------------------------------------------------------------
(* The statements of db/agent_requests.rs, each guarded on the row's status *)

InStatus(s) == {r \in Ids : status[r] = s}
Live(r) == status[r] \in {"requested", "running"}
Least(S) == CHOOSE r \in S : \A q \in S : r <= q   \* ORDER BY id

DbClaim(r) == IF status[r] = "requested" THEN [status EXCEPT ![r] = "running"] ELSE status
\* Mutant: the settlement does not look at the status it overwrites.
DbSettleUnguarded(r, s) == [status EXCEPT ![r] = s]
DbSettle(r, s) == IF Live(r) THEN [status EXCEPT ![r] = s] ELSE status
DbFulfil(r) == DbSettle(r, "fulfilled")
DbFail(r) == DbSettle(r, "failed")
\* Mutant: only requests nobody claimed expire.
DbExpireRequested ==
  [r \in Ids |-> IF r \in stale /\ status[r] = "requested" THEN "expired" ELSE status[r]]
DbExpire ==
  [r \in Ids |-> IF r \in stale /\ Live(r) THEN "expired" ELSE status[r]]

\* Every statement stamps updated_at on the rows it changes.
Stamp == stale' = {r \in stale : status'[r] = status[r]}

-----------------------------------------------------------------------------
(* The MCP server, time, and the process.                                  *)

Insert(r) ==
  /\ status[r] = "absent"
  /\ \A q \in Ids : q < r => status[q] # "absent"
  /\ status' = [status EXCEPT ![r] = "requested"]
  /\ UNCHANGED <<kind, stale, watcher, work, late, bounds>>

\* A day passes over a row: the desktop was closed, its statements failed, or
\* the machine slept with a scan in flight.
RowAges(r) ==
  /\ Live(r) /\ r \notin stale
  /\ stale' = stale \cup {r}
  /\ UNCHANGED <<status, kind, watcher, work, late, bounds>>

Launch ==
  /\ wpc = "down"
  /\ wpc' = "reconcile"
  /\ UNCHANGED <<status, kind, stale, todo, gate, claimed, outcome, work, late, bounds>>

\* The supervisor rebuilds a watcher that panicked; spawned scans live on.
Panic ==
  /\ panics < MaxPanics /\ wpc # "down"
  /\ panics' = panics + 1
  /\ wpc' = "reconcile" /\ todo' = {} /\ claimed' = {}
  /\ UNCHANGED <<status, kind, stale, gate, outcome, work, late, faults, crashes>>

Crash ==
  /\ crashes < MaxCrashes /\ wpc # "down"
  /\ crashes' = crashes + 1
  /\ wpc' = "down" /\ todo' = {} /\ claimed' = {}
  /\ tasks' = {} /\ late' = <<>>
  /\ UNCHANGED <<status, kind, stale, gate, outcome, starts, done, faults, panics>>

-----------------------------------------------------------------------------
(* The watcher.                                                            *)

InTurn(phase) == wpc = phase /\ late = <<>>
Rest == UNCHANGED <<kind, work, late, bounds>>

\* Mutant: every unsettled request is taken for an orphan.
ReconcileListLive ==
  /\ InTurn("reconcile")
  /\ todo' = {r \in Ids : Live(r)}
  /\ wpc' = "failing"
  /\ UNCHANGED <<status, stale, gate, claimed, outcome>> /\ Rest

\* reconcile_orphaned_requests: list the running rows, then fail each.
ReconcileList ==
  /\ InTurn("reconcile")
  /\ todo' = InStatus("running")
  /\ wpc' = "failing"
  /\ UNCHANGED <<status, stale, gate, claimed, outcome>> /\ Rest

\* Mutant: orphaned requests are put back instead of failed.
ReconcileRequeues ==
  /\ InTurn("failing") /\ todo # {}
  /\ status' = [status EXCEPT ![Least(todo)] = "requested"]
  /\ todo' = todo \ {Least(todo)}
  /\ Stamp
  /\ UNCHANGED <<wpc, gate, claimed, outcome>> /\ Rest

ReconcileFail ==
  /\ InTurn("failing") /\ todo # {}
  /\ status' = DbFail(Least(todo))
  /\ todo' = todo \ {Least(todo)}
  /\ Stamp
  /\ UNCHANGED <<wpc, gate, claimed, outcome>> /\ Rest

ReconcileEnds ==
  /\ wpc = "failing" /\ todo = {}
  /\ wpc' = "expire"
  /\ UNCHANGED <<status, stale, todo, gate, claimed, outcome>> /\ Rest

Expire ==
  /\ InTurn("expire")
  /\ status' = DbExpire /\ Stamp
  /\ wpc' = "list"
  /\ UNCHANGED <<todo, gate, claimed, outcome>> /\ Rest

List ==
  /\ InTurn("list")
  /\ todo' = InStatus("requested")
  /\ wpc' = "probe"
  /\ UNCHANGED <<status, stale, gate, claimed, outcome>> /\ Rest

\* Mutant: every tick starts with the gate open.
ProbeForgetful == gate' = FALSE
ProbeOpen == gate' = \E r \in InStatus("running") : kind[r] = "run_scan"
Probe ==
  /\ InTurn("probe")
  /\ ProbeOpen
  /\ wpc' = "claim"
  /\ UNCHANGED <<status, stale, todo, claimed, outcome>> /\ Rest

Blocked(r) == gate /\ kind[r] = "run_scan"

ClaimSkip ==
  /\ wpc = "claim" /\ todo # {} /\ Blocked(Least(todo))
  /\ todo' = todo \ {Least(todo)}
  /\ UNCHANGED <<status, stale, wpc, gate, claimed, outcome>> /\ Rest

Claim ==
  /\ InTurn("claim") /\ todo # {} /\ ~Blocked(Least(todo))
  /\ LET r == Least(todo)
     IN  /\ status' = DbClaim(r) /\ Stamp
         /\ IF status[r] = "requested"
              THEN claimed' = claimed \cup {r} /\ gate' = (gate \/ kind[r] = "run_scan")
              ELSE UNCHANGED <<claimed, gate>>
         /\ todo' = todo \ {r}
  /\ UNCHANGED <<wpc, outcome>> /\ Rest

ClaimEnds ==
  /\ wpc = "claim" /\ todo = {}
  /\ wpc' = "fulfil"
  /\ UNCHANGED <<status, stale, todo, gate, claimed, outcome>> /\ Rest

\* A scan runs on its own task.
SpawnScan ==
  /\ wpc = "fulfil" /\ claimed # {} /\ kind[Least(claimed)] = "run_scan"
  /\ LET r == Least(claimed)
     IN  /\ tasks' = tasks \cup {r}
         /\ starts' = [starts EXCEPT ![r] = @ + 1]
         /\ claimed' = claimed \ {r}
  /\ UNCHANGED <<status, kind, stale, wpc, todo, gate, outcome, done, late, bounds>>

\* A fix attempt is created inline (or refused), and the row settled after.
CreateAttempt ==
  /\ InTurn("fulfil") /\ claimed # {} /\ kind[Least(claimed)] = "start_fix"
  /\ LET r == Least(claimed)
     IN  starts' = [starts EXCEPT ![r] = @ + 1] /\ done' = done \cup {r}
  /\ outcome' = "fulfil"
  /\ wpc' = "settle"
  /\ UNCHANGED <<status, kind, stale, todo, gate, claimed, tasks, late, bounds>>

\* Mutant: an error of the handler is reported as its success.
RefuseAsFulfilled ==
  /\ wpc = "fulfil" /\ claimed # {} /\ kind[Least(claimed)] \in {"start_fix", "other"}
  /\ outcome' = "fulfil"
  /\ wpc' = "settle"
  /\ UNCHANGED <<status, stale, todo, gate, claimed>> /\ Rest

RefuseRequest ==
  /\ wpc = "fulfil" /\ claimed # {} /\ kind[Least(claimed)] \in {"start_fix", "other"}
  /\ outcome' = "fail"
  /\ wpc' = "settle"
  /\ UNCHANGED <<status, stale, todo, gate, claimed>> /\ Rest

Settle ==
  /\ InTurn("settle")
  /\ status' = IF outcome = "fulfil" THEN DbFulfil(Least(claimed)) ELSE DbFail(Least(claimed))
  /\ Stamp
  /\ claimed' = claimed \ {Least(claimed)}
  /\ wpc' = "fulfil"
  /\ UNCHANGED <<todo, gate, outcome>> /\ Rest

TickEnds ==
  /\ wpc = "fulfil" /\ claimed = {}
  /\ wpc' = "sleep"
  /\ UNCHANGED <<status, stale, todo, gate, claimed, outcome>> /\ Rest

Wake ==
  /\ wpc = "sleep"
  /\ wpc' = "expire"
  /\ UNCHANGED <<status, stale, todo, gate, claimed, outcome>> /\ Rest

-----------------------------------------------------------------------------
(* A spawned scan ends, well or not, and settles its row.                  *)

ScanEnds(r, how) ==
  /\ r \in tasks /\ late = <<>>
  /\ tasks' = tasks \ {r}
  /\ done' = IF how = "fulfil" THEN done \cup {r} ELSE done
  /\ status' = IF how = "fulfil" THEN DbFulfil(r) ELSE DbFail(r)
  /\ Stamp
  /\ UNCHANGED <<kind, watcher, starts, late, bounds>>

-----------------------------------------------------------------------------
(* Database calls that fail, with or without leaving the operation behind. *)

Fault(ops) ==
  /\ faults < MaxFaults
  /\ faults' = faults + 1
  /\ \E queued \in BOOLEAN : late' = IF queued THEN late \o ops ELSE late
  /\ UNCHANGED <<status, kind, stale, panics, crashes>>

ScanSettleFails(r, how) ==
  /\ r \in tasks
  /\ tasks' = tasks \ {r}
  /\ done' = IF how = "fulfil" THEN done \cup {r} ELSE done
  /\ Fault(<<[op |-> how, id |-> r]>>)
  /\ UNCHANGED <<watcher, starts>>

\* The watcher logs the failure and goes on: reconciliation is given up, no row
\* is listed, an unreadable probe keeps the gate shut, a claim or a settlement
\* is skipped, a creation counts as refused.
WatcherCallFails ==
  /\ \/ /\ wpc \in {"reconcile", "failing"}
        /\ wpc = "failing" => todo # {}
        /\ wpc' = "expire" /\ todo' = {}
        /\ Fault(IF wpc = "failing" THEN <<[op |-> "fail", id |-> Least(todo)]>> ELSE <<>>)
        /\ UNCHANGED <<gate, claimed, outcome>>
     \/ /\ wpc = "expire"
        /\ wpc' = "list"
        /\ Fault(<<[op |-> "expire"]>>)
        /\ UNCHANGED <<todo, gate, claimed, outcome>>
     \/ /\ wpc = "list"
        /\ wpc' = "probe" /\ todo' = {}
        /\ Fault(<<>>)
        /\ UNCHANGED <<gate, claimed, outcome>>
     \/ /\ wpc = "probe"
        /\ wpc' = "claim" /\ gate' = TRUE
        /\ Fault(<<>>)
        /\ UNCHANGED <<todo, claimed, outcome>>
     \/ /\ wpc = "claim" /\ todo # {} /\ ~Blocked(Least(todo))
        /\ todo' = todo \ {Least(todo)}
        /\ Fault(<<[op |-> "claim", id |-> Least(todo)]>>)
        /\ UNCHANGED <<wpc, gate, claimed, outcome>>
     \/ /\ wpc = "fulfil" /\ claimed # {} /\ kind[Least(claimed)] = "start_fix"
        /\ outcome' = "fail" /\ wpc' = "settle"
        /\ Fault(<<[op |-> "create", id |-> Least(claimed)]>>)
        /\ UNCHANGED <<todo, gate, claimed>>
     \/ /\ wpc = "settle"
        /\ claimed' = claimed \ {Least(claimed)} /\ wpc' = "fulfil"
        /\ Fault(<<[op |-> outcome, id |-> Least(claimed)]>>)
        /\ UNCHANGED <<todo, gate, outcome>>
  /\ UNCHANGED work

\* The worker reaches an operation nobody waits for.
Drain ==
  /\ late # <<>>
  /\ late' = Tail(late)
  /\ LET o == Head(late) IN
       /\ status' = CASE o.op = "claim" -> DbClaim(o.id)
                      [] o.op = "fulfil" -> DbFulfil(o.id)
                      [] o.op = "fail" -> DbFail(o.id)
                      [] o.op = "expire" -> DbExpire
                      [] o.op = "create" -> status
       /\ IF o.op = "create"
            THEN starts' = [starts EXCEPT ![o.id] = @ + 1] /\ done' = done \cup {o.id}
            ELSE UNCHANGED <<starts, done>>
  /\ Stamp
  /\ UNCHANGED <<kind, watcher, tasks, bounds>>

-----------------------------------------------------------------------------
Watch ==
  \/ ReconcileList \/ ReconcileFail \/ ReconcileEnds
  \/ Expire \/ List \/ Probe \/ ClaimSkip \/ Claim \/ ClaimEnds
  \/ SpawnScan \/ CreateAttempt \/ RefuseRequest \/ Settle \/ TickEnds \/ Wake

Next ==
  \/ Watch \/ Launch \/ Drain
  \/ \E r \in Ids :
       \/ Insert(r) \/ RowAges(r)
       \/ \E how \in {"fulfil", "fail"} : ScanEnds(r, how) \/ ScanSettleFails(r, how)
  \/ WatcherCallFails
  \/ Panic \/ Crash

Spec == Init /\ [][Next]_vars

-----------------------------------------------------------------------------
(* Properties.                                                             *)

\* A request starts its scan or its fix attempt at most once, whatever is
\* claimed late, reconciled, retried by a restarted watcher or lost to a crash,
\* and nothing is ever started for a row that is still up for claiming.
ServedOnce ==
  \A r \in Ids : starts[r] <= 1 /\ (status[r] \in {"absent", "requested"} => starts[r] = 0)

\* "Fulfilled" is only ever answered for work that was completed.
FulfilledIsDone == \A r \in Ids : status[r] = "fulfilled" => r \in done

\* Two scans are in flight at once only if the row of one of them was settled
\* under it (by expiry, or by a restarted watcher).
SerializedWhileQueueHolds ==
  \A r, q \in tasks : status[r] = "running" /\ status[q] = "running" => r = q

\* "A settled request is never rewritten" (agent_request_watcher.rs), whatever
\* settles it twice: a scan that outlives its row, a late statement, an expiry.
SettledFinal ==
  [][\A r \in Ids : status[r] \in Settled => status'[r] = status[r]]_vars

\* Whatever fails, is late, panics or dies between the agent, the table, the watcher
\* and its scans, the queue is RequestBook: no request fails that was not taken
\* up, none is begun twice, none is called fulfilled before it is.
Book == INSTANCE RequestBook
BookKept == Book!Spec

\* Every request is answered in the end: at the latest, it expires.
RequestsSettle == \A r \in Ids : Live(r) ~> status[r] \in Settled

\* The desktop is started again, its watcher and scans make progress, and time
\* passes.
Fairness ==
  /\ WF_vars(Launch) /\ WF_vars(Watch) /\ WF_vars(Drain)
  /\ \A r \in Ids : WF_vars(RowAges(r)) /\ WF_vars(\E how \in {"fulfil", "fail"} : ScanEnds(r, how))
FairSpec == Spec /\ Fairness
=============================================================================
