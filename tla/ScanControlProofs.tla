------------------------- MODULE ScanControlProofs -------------------------
(***************************************************************************)
(* ScanControl for every set of request ids and of cancelling threads:     *)
(* ControlInv is inductive, and CancelHonoured follows from it.            *)
(***************************************************************************)
EXTENDS ScanControl, TLAPS

\* The empty registry the state starts with satisfies the invariant.
LEMMA InitEstablishes == Init => ControlInv
  BY DEF Init, ControlInv, TypeOK, ExecPhases, Registered, Idle, Deciding

\* A statement of an execution's own guard (registration or drop) keeps the
\* invariant: an owed intent is parked before the insert, consumed after it.
LEMMA GuardStep ==
  ASSUME ControlInv, NEW i \in Ids,
         \/ BeginInsert(i) \/ BeginTakePending(i) \/ BeginApplyPending(i)
         \/ BeginClearStale(i) \/ FinishRemoveRunning(i)
         \/ FinishRemoveCancelled(i) \/ FinishRemovePending(i)
  PROVE  ControlInv'
<1> USE DEF ControlInv, TypeOK, ExecPhases, Registered, Advance
<1>1. CASE BeginInsert(i)           BY <1>1 DEF BeginInsert
<1>2. CASE BeginTakePending(i)      BY <1>2 DEF BeginTakePending
<1>3. CASE BeginApplyPending(i)     BY <1>3 DEF BeginApplyPending
<1>4. CASE BeginClearStale(i)       BY <1>4 DEF BeginClearStale
<1>5. CASE FinishRemoveRunning(i)   BY <1>5 DEF FinishRemoveRunning
<1>6. CASE FinishRemoveCancelled(i) BY <1>6 DEF FinishRemoveCancelled
<1>7. CASE FinishRemovePending(i)   BY <1>7 DEF FinishRemovePending
<1> QED BY <1>1, <1>2, <1>3, <1>4, <1>5, <1>6, <1>7

\* The first statement of request_cancel only records what the thread saw.
LEMMA ReadStep ==
  ASSUME ControlInv, NEW c \in Cancellers, NEW i \in Ids, CancelReadRunning(c, i)
  PROVE  ControlInv'
  BY DEF ControlInv, TypeOK, ExecPhases, Registered, CancelReadRunning, Deciding, Idle

\* The second statement writes the set its thread decided on, whatever the
\* execution did meanwhile; only an intent that straddled nothing is owed.
LEMMA WriteStep ==
  ASSUME ControlInv, NEW c \in Cancellers, CancelWrite(c)
  PROVE  ControlInv'
<1> USE DEF ControlInv, TypeOK, Registered
<1> DEFINE i == cancel[c].id
<1>1. /\ cancel[c] \in Deciding
      /\ i \in Ids
      /\ cancel[c].sawRunning \in BOOLEAN
  BY DEF CancelWrite, Deciding
<1>2. owed' = owed \/ (owed' = owed \cup {i} /\ exec[i] \in {"unborn", "live"}
                                            /\ cancel[c].during = exec[i])
  BY DEF CancelWrite
<1>3. TypeOK'
  BY <1>1, <1>2 DEF CancelWrite, Idle, Deciding
<1>4. \A d \in Cancellers : cancel'[d] # Idle =>
        (cancel'[d].during \in {"unborn", "live"} =>
           cancel'[d].sawRunning = (cancel'[d].during = "live"))
  BY DEF CancelWrite
<1>5. ASSUME NEW j \in owed'
      PROVE  /\ exec'[j] \in {"unborn", "inserted"} => j \in pending'
             /\ exec'[j] # "missed"
             /\ exec'[j] = "live" => j \in cancelled'
  <2>1. CASE j \in owed
    BY <2>1 DEF CancelWrite
  <2>2. CASE j \notin owed
    <3>1. j = i /\ exec[i] \in {"unborn", "live"} /\ cancel[c].during = exec[i]
      BY <1>2, <1>5, <2>2
    <3>2. cancel[c].sawRunning = (exec[i] = "live")
      BY <3>1 DEF CancelWrite
    <3> QED BY <3>1, <3>2 DEF CancelWrite
  <2> QED BY <2>1, <2>2
<1>6. running' = {k \in Ids : exec'[k] \in Registered}
  BY DEF CancelWrite
<1> QED BY <1>3, <1>4, <1>5, <1>6

\* The registry's invariant: the running set is exactly the registered guards
\* and every owed cancel lies where the next statement of the guard looks.
THEOREM ControlInvariant == Spec => []ControlInv
<1>1. ControlInv /\ [Next]_vars => ControlInv'
  <2> SUFFICES ASSUME ControlInv, [Next]_vars PROVE ControlInv' OBVIOUS
  <2>1. CASE UNCHANGED vars
    BY <2>1 DEF vars, ControlInv, TypeOK
  <2>2. CASE Next
    BY <2>2, GuardStep, ReadStep, WriteStep DEF Next
  <2> QED BY <2>1, <2>2
<1> QED BY <1>1, InitEstablishes, PTL DEF Spec

\* A cancel that overlapped neither registration nor drop is never lost, for
\* any number of executions and of threads calling cancel_scan.
THEOREM CancelIsHonoured == Spec => []CancelHonoured
<1>1. ControlInv => CancelHonoured
  BY DEF ControlInv, CancelHonoured, IsCancelled
<1> QED BY <1>1, ControlInvariant, PTL
=============================================================================
