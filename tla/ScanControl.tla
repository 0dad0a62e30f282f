---------------------------- MODULE ScanControl ----------------------------
(***************************************************************************)
(* The cancellation registry shared by every scan: core/scan_control.rs.   *)
(* Three sets of request ids, each behind a mutex of its own.  Every       *)
(* function takes one lock, releases it, and takes the next, so the unit   *)
(* of interleaving is one locked statement, not one function call.         *)
(*                                                                         *)
(* A request id names one execution: the frontend mints each id once       *)
(* (useScan.ts keeps the counter over reloads) and ids the backend         *)
(* allocates lie above the frontend's range, so an execution is identified *)
(* with its id here.                                                       *)
(***************************************************************************)
EXTENDS FiniteSets

CONSTANTS Ids,          \* request ids, one execution each
          Cancellers    \* threads that may be inside cancel_scan

VARIABLES running,      \* running_request_ids
          cancelled,    \* cancelled_request_ids
          pending,      \* pending_cancel_request_ids
          exec,         \* where each execution is in its guard's life
          cancel,       \* what each canceller is doing
          owed          \* history: ids with a cancel that straddled nothing

vars == <<running, cancelled, pending, exec, cancel, owed>>

ExecPhases == {"unborn", "inserted", "consumed", "missed", "live",
               "dropping", "cleared", "finished"}

Idle == [phase |-> "idle"]
Deciding == [phase : {"deciding"}, id : Ids, sawRunning : BOOLEAN,
             during : ExecPhases]

TypeOK ==
  /\ running \subseteq Ids
  /\ cancelled \subseteq Ids
  /\ pending \subseteq Ids
  /\ exec \in [Ids -> ExecPhases]
  /\ cancel \in [Cancellers -> {Idle} \cup Deciding]
  /\ owed \subseteq Ids

Init ==
  /\ running = {}
  /\ cancelled = {}
  /\ pending = {}
  /\ exec = [i \in Ids |-> "unborn"]
  /\ cancel = [c \in Cancellers |-> Idle]
  /\ owed = {}

Advance(i, from, to) ==
  /\ exec[i] = from
  /\ exec' = [exec EXCEPT ![i] = to]

-----------------------------------------------------------------------------
(* begin_execution: three locked statements.                               *)

BeginInsert(i) ==
  /\ Advance(i, "unborn", "inserted")
  /\ running' = running \cup {i}
  /\ UNCHANGED <<cancelled, pending, cancel, owed>>

\* The condition of the if: one lock of pending, which also consumes the id.
BeginTakePending(i) ==
  /\ Advance(i, "inserted", IF i \in pending THEN "consumed" ELSE "missed")
  /\ pending' = pending \ {i}
  /\ UNCHANGED <<running, cancelled, cancel, owed>>

\* Mutant: the parked intent is consumed and dropped.
BeginDropsPending(i) ==
  /\ Advance(i, "consumed", "live")
  /\ UNCHANGED <<running, cancelled, pending, cancel, owed>>

BeginApplyPending(i) ==
  /\ Advance(i, "consumed", "live")
  /\ cancelled' = cancelled \cup {i}
  /\ UNCHANGED <<running, pending, cancel, owed>>

BeginClearStale(i) ==
  /\ Advance(i, "missed", "live")
  /\ cancelled' = cancelled \ {i}
  /\ UNCHANGED <<running, pending, cancel, owed>>

-----------------------------------------------------------------------------
(* request_cancel: read running, release it, then write one of two sets.   *)

CancelReadRunning(c, i) ==
  /\ cancel[c] = Idle
  /\ cancel' = [cancel EXCEPT ![c] =
                  [phase |-> "deciding", id |-> i,
                   sawRunning |-> i \in running, during |-> exec[i]]]
  /\ UNCHANGED <<running, cancelled, pending, exec, owed>>

\* A cancel is owed an effect when the registration of its execution was
\* either wholly ahead of it or wholly behind it: `during` is the execution's
\* phase when the cancel began.
CancelWrite(c) ==
  /\ cancel[c] # Idle
  /\ LET i == cancel[c].id IN
       /\ IF cancel[c].sawRunning
            THEN /\ cancelled' = cancelled \cup {i}
                 /\ UNCHANGED pending
            ELSE /\ pending' = pending \cup {i}
                 /\ UNCHANGED cancelled
       /\ owed' = IF exec[i] \in {"unborn", "live"} /\ cancel[c].during = exec[i]
                    THEN owed \cup {i} ELSE owed
  /\ cancel' = [cancel EXCEPT ![c] = Idle]
  /\ UNCHANGED <<running, exec>>

-----------------------------------------------------------------------------
(* Drop of the guard: finish_request, three locked statements.             *)

\* Mutant: the registration outlives its guard.
FinishKeepsRunning(i) ==
  /\ Advance(i, "live", "dropping")
  /\ UNCHANGED <<running, cancelled, pending, cancel, owed>>

FinishRemoveRunning(i) ==
  /\ Advance(i, "live", "dropping")
  /\ running' = running \ {i}
  /\ UNCHANGED <<cancelled, pending, cancel, owed>>

FinishRemoveCancelled(i) ==
  /\ Advance(i, "dropping", "cleared")
  /\ cancelled' = cancelled \ {i}
  /\ UNCHANGED <<running, pending, cancel, owed>>

FinishRemovePending(i) ==
  /\ Advance(i, "cleared", "finished")
  /\ pending' = pending \ {i}
  /\ UNCHANGED <<running, cancelled, cancel, owed>>

-----------------------------------------------------------------------------
Next ==
  \/ \E i \in Ids :
       \/ BeginInsert(i)
       \/ BeginTakePending(i)
       \/ BeginApplyPending(i)
       \/ BeginClearStale(i)
       \/ FinishRemoveRunning(i)
       \/ FinishRemoveCancelled(i)
       \/ FinishRemovePending(i)
  \/ \E c \in Cancellers :
       \/ \E i \in Ids : CancelReadRunning(c, i)
       \/ CancelWrite(c)

Spec == Init /\ [][Next]_vars

IsCancelled(i) == i \in cancelled

-----------------------------------------------------------------------------
\* A cancel that returned before its execution began to register, or that ran
\* wholly between registration and drop, is visible to is_cancelled for as long
\* as the execution lives (request_cancel and begin_request together).
CancelHonoured == \A i \in Ids : exec[i] = "live" /\ i \in owed => IsCancelled(i)

Registered == {"inserted", "consumed", "missed", "live"}

\* Why CancelHonoured holds, and the inductive invariant that proves it: the
\* running set mirrors the guards, a canceller that saw no registration really
\* was ahead of it, and an owed cancel is always somewhere begin_request looks.
ControlInv ==
  /\ TypeOK
  /\ running = {i \in Ids : exec[i] \in Registered}
  /\ \A c \in Cancellers : cancel[c] # Idle =>
       (cancel[c].during \in {"unborn", "live"} =>
          cancel[c].sawRunning = (cancel[c].during = "live"))
  /\ \A i \in owed :
       /\ exec[i] \in {"unborn", "inserted"} => i \in pending
       /\ exec[i] # "missed"
       /\ exec[i] = "live" => i \in cancelled
=============================================================================
