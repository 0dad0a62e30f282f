------------------------ MODULE AgentRequestsProofs ------------------------
(***************************************************************************)
(* What AgentRequests promises, proved for any number of requests, faults, *)
(* panics and deaths of the desktop.                                       *)
(***************************************************************************)
EXTENDS AgentRequests, SequenceTheorems, WellFoundedInduction, TLAPS

Unclaimed == {"absent", "requested"}

\* The claimed request whose work is done or refused, and whose row is not
\* settled yet.
InHand(r) == wpc = "settle" /\ r = Least(claimed)
Creates(i) == late[i].op = "create"

\* Nothing was started for a row that is up for claiming, or that this tick
\* claimed and has not reached.
StartInv ==
  /\ \A r \in Ids : starts[r] \in {0, 1}
  /\ \A r \in Ids : status[r] \in Unclaimed => starts[r] = 0
  /\ \A r \in claimed : status[r] \notin Unclaimed
  /\ \A r \in claimed : ~InHand(r) => starts[r] = 0
  /\ \A r \in tasks : kind[r] = "run_scan" /\ starts[r] = 1

\* A creation nobody waits for is the only one of its request, which was
\* claimed and is not waiting for another.
CreateInv ==
  \A i \in 1 .. Len(late) : Creates(i) =>
    /\ starts[late[i].id] = 0
    /\ status[late[i].id] \notin Unclaimed
    /\ late[i].id \in claimed => InHand(late[i].id)
    /\ \A j \in 1 .. Len(late) : Creates(j) /\ late[j].id = late[i].id => i = j

\* Whoever is about to say "fulfilled" did the work.
DoneInv ==
  /\ FulfilledIsDone
  /\ wpc = "settle" => claimed # {}
  /\ wpc = "settle" /\ outcome = "fulfil" => Least(claimed) \in done
  /\ \A i \in 1 .. Len(late) : late[i].op = "fulfil" => late[i].id \in done

\* A scan that is claimed or runs, as long as its row says so.
Holds(r) == r \in tasks \cup claimed /\ kind[r] = "run_scan" /\ status[r] = "running"
GateInv ==
  /\ \A r, q \in Ids : Holds(r) /\ Holds(q) => r = q
  /\ wpc = "claim" => \A r \in Ids : Holds(r) => gate

IInv == TypeOK /\ StartInv /\ CreateInv /\ DoneInv /\ GateInv

-----------------------------------------------------------------------------

\* The order of the naturals is well founded.
LEMMA NatOrder == IsWellFoundedOn({ss \in Nat \X Nat : ss[1] < ss[2]}, Nat)
BY NatLessThanWellFounded DEF OpToRel

\* The oldest of some rows is one of them.
LEMMA LeastIn ==
  ASSUME NEW S, S \subseteq Ids, S # {}
  PROVE  Least(S) \in S
<1> DEFINE R == {ss \in Nat \X Nat : ss[1] < ss[2]}
<1>1. S \subseteq Nat
  BY DEF Ids
<1>2. PICK r \in S : \A q \in S : ~(<<q, r>> \in R)
  <2>1. IsWellFoundedOn(R, Nat)
    BY NatOrder
  <2> HIDE DEF R
  <2> QED
    BY <1>1, <2>1, WFMin
<1>3. \A a, b \in Nat : a < b => <<a, b>> \in R
  OBVIOUS
<1>4. ASSUME NEW q \in S PROVE r <= q
  <2> HIDE DEF R
  <2>1. q \in Nat /\ r \in Nat
    BY <1>1
  <2>2. ~(q < r)
    BY <2>1, <1>2, <1>3
  <2> QED
    BY <2>1, <2>2
<1> QED
  BY <1>4 DEF Least

\* What the statements leave in a row.
LEMMA Statements ==
  ASSUME TypeOK, NEW r \in Ids
  PROVE  /\ DbClaim(r) \in [Ids -> Statuses]
         /\ DbFulfil(r) \in [Ids -> Statuses]
         /\ DbFail(r) \in [Ids -> Statuses]
         /\ \A q \in Ids : DbClaim(r)[q] =
              IF q = r /\ status[q] = "requested" THEN "running" ELSE status[q]
         /\ \A q \in Ids : DbFulfil(r)[q] =
              IF q = r /\ Live(q) THEN "fulfilled" ELSE status[q]
         /\ \A q \in Ids : DbFail(r)[q] = IF q = r /\ Live(q) THEN "failed" ELSE status[q]
BY DEF TypeOK, DbClaim, DbFulfil, DbFail, DbSettle, Live, Statuses, Settled

\* What expiry leaves in a row.
LEMMA Expiry ==
  ASSUME TypeOK
  PROVE  /\ DbExpire \in [Ids -> Statuses]
         /\ \A q \in Ids : DbExpire[q] = IF q \in stale /\ Live(q) THEN "expired" ELSE status[q]
BY DEF TypeOK, DbExpire, Statuses, Settled

\* Rows that were claimed before are settled, and nothing else changes.
Settling ==
  /\ status' \in [Ids -> Statuses]
  /\ \A q \in Ids : \/ status'[q] = status[q]
                    \/ /\ Live(q) /\ status'[q] \in Settled
                       /\ status'[q] = "fulfilled" => q \in done'

\* The statements that settle leave IInv to what the step does elsewhere.
LEMMA SettlingKeeps ==
  ASSUME IInv, Settling, Stamp,
         UNCHANGED <<kind, starts, late, bounds>>,
         tasks' \subseteq tasks, done \subseteq done', done' \subseteq Ids,
         todo' \subseteq Ids, claimed' \subseteq claimed, UNCHANGED <<gate, outcome>>,
         \/ UNCHANGED <<wpc, claimed>>
         \/ /\ wpc' \in Phases \ {"settle", "claim"} /\ wpc # "settle"
            /\ UNCHANGED claimed
         \/ wpc = "settle" /\ wpc' = "fulfil" /\ claimed' = claimed \ {Least(claimed)}
  PROVE  IInv'
<1>1. TypeOK'
  BY DEF IInv, TypeOK, Settling, Stamp, bounds, Phases
<1>2. \A q \in Ids : status'[q] \in Unclaimed => status[q] \in Unclaimed
  BY DEF Settling, Unclaimed, Settled
<1>3. \A q \in Ids : status[q] \notin Unclaimed => status'[q] \notin Unclaimed
  BY DEF Settling, Unclaimed, Settled
<1>4. \A q \in claimed' : InHand(q)' <=> InHand(q)
  BY DEF InHand, Least
<1>5. StartInv'
  BY <1>1, <1>2, <1>3, <1>4 DEF IInv, StartInv, TypeOK
<1>6. \A j \in 1 .. Len(late) : late[j].op = "create" => late[j].id \in Ids
  BY DEF IInv, TypeOK, Ops
<1>7. CreateInv'
  BY <1>3, <1>4, <1>6 DEF IInv, CreateInv, Creates
<1>8. DoneInv'
  <2>1. FulfilledIsDone'
    BY DEF IInv, DoneInv, FulfilledIsDone, Settling, Settled
  <2>2. wpc' = "settle" => claimed' = claimed /\ wpc = "settle" /\ outcome' = outcome
    BY DEF IInv, TypeOK
  <2> QED
    BY <2>1, <2>2 DEF IInv, DoneInv, Least
<1>9. GateInv'
  <2>1. \A q \in Ids : Holds(q)' => Holds(q)
    BY DEF Holds, Settling, Settled
  <2>2. wpc' = "claim" => wpc = "claim"
    OBVIOUS
  <2> QED
    BY <2>1, <2>2 DEF IInv, GateInv
<1> QED
  BY <1>1, <1>5, <1>7, <1>8, <1>9 DEF IInv

\* A step of the watcher that touches neither rows nor work.
LEMMA WatcherKeeps ==
  ASSUME IInv, UNCHANGED <<status, kind, stale, work, late, bounds>>,
         wpc' \in Phases \ {"settle"}, todo' \subseteq Ids, gate' \in BOOLEAN,
         UNCHANGED outcome, claimed' = claimed, wpc # "settle",
         wpc' = "claim" => \A r \in Ids : Holds(r) => gate'
  PROVE  IInv'
<1>1. TypeOK'
  BY DEF IInv, TypeOK, work, bounds
<1>2. \A r \in Ids : ~InHand(r) /\ ~InHand(r)'
  BY DEF InHand
<1>3. StartInv'
  BY <1>2 DEF IInv, StartInv, TypeOK, work
<1>4. CreateInv'
  BY <1>2 DEF IInv, CreateInv, Creates, work, InHand
<1>5. DoneInv'
  BY DEF IInv, DoneInv, FulfilledIsDone, work
<1>6. GateInv'
  BY DEF IInv, GateInv, Holds, work
<1> QED
  BY <1>1, <1>3, <1>4, <1>5, <1>6 DEF IInv

\* A call that fails leaves its operation behind, or not.
Appended(o) == late' \in {late, late \o <<o>>}

\* What the queue holds then.
LEMMA Queued ==
  ASSUME TypeOK, NEW o \in Ops, Appended(o)
  PROVE  /\ late' \in Seq(Ops)
         /\ \A i \in 1 .. Len(late') : \/ i \in 1 .. Len(late) /\ late'[i] = late[i]
                                       \/ i = Len(late) + 1 /\ late'[i] = o
<1>1. late \in Seq(Ops) /\ <<o>> \in Seq(Ops)
  BY DEF TypeOK
<1> QED
  BY <1>1 DEF Appended

\* A failed call leaves IInv to what the watcher, or the scan, makes of it.
LEMMA FaultKeeps ==
  ASSUME IInv, UNCHANGED <<status, kind, stale, starts, panics, crashes>>,
         faults' \in 0 .. MaxFaults, NEW o \in Ops,
         late' \in Seq(Ops),
         \A i \in 1 .. Len(late') : \/ i \in 1 .. Len(late) /\ late'[i] = late[i]
                                    \/ i = Len(late) + 1 /\ late'[i] = o,
         o.op = "fulfil" => o.id \in done',
         o.op = "create" => /\ starts[o.id] = 0 /\ status[o.id] \notin Unclaimed
                            /\ wpc' = "settle" /\ o.id = Least(claimed')
                            /\ \A i \in 1 .. Len(late) : Creates(i) => late[i].id # o.id,
         tasks' \subseteq tasks, done \subseteq done', done' \subseteq Ids,
         wpc' \in Phases, todo' \subseteq Ids, gate' \in BOOLEAN, outcome' \in {"fulfil", "fail"},
         claimed' \subseteq claimed, \A q \in claimed' : InHand(q) => InHand(q)',
         wpc' = "settle" => claimed' # {} /\ (outcome' = "fulfil" => Least(claimed') \in done'),
         wpc' = "claim" => \A r \in Ids : Holds(r) => gate'
  PROVE  IInv'
<1>1. TypeOK'
  BY DEF IInv, TypeOK
<1>2. StartInv'
  BY DEF IInv, StartInv, TypeOK
<1>3. CreateInv'
  <2> SUFFICES ASSUME NEW i \in 1 .. Len(late'), late'[i].op = "create"
               PROVE  /\ starts'[late'[i].id] = 0
                      /\ status'[late'[i].id] \notin Unclaimed
                      /\ late'[i].id \in claimed' => InHand(late[i].id)'
                      /\ \A j \in 1 .. Len(late') :
                           late'[j].op = "create" /\ late'[j].id = late'[i].id => i = j
    BY DEF CreateInv, Creates
  <2>1. CASE i \in 1 .. Len(late) /\ late'[i] = late[i]
    <3>1. /\ starts[late[i].id] = 0 /\ status[late[i].id] \notin Unclaimed
          /\ late[i].id \in claimed => InHand(late[i].id)
      BY <2>1 DEF IInv, CreateInv, Creates
    <3>2. ASSUME NEW j \in 1 .. Len(late'), late'[j].op = "create", late'[j].id = late'[i].id
          PROVE  i = j
      <4>1. CASE j \in 1 .. Len(late) /\ late'[j] = late[j]
        BY <2>1, <3>2, <4>1 DEF IInv, CreateInv, Creates
      <4>2. CASE j = Len(late) + 1 /\ late'[j] = o
        BY <2>1, <3>2, <4>2 DEF Creates
      <4> QED
        BY <4>1, <4>2
    <3> QED
      BY <2>1, <3>1, <3>2 DEF InHand
  <2>2. CASE i = Len(late) + 1 /\ late'[i] = o
    <3>1. /\ starts[o.id] = 0 /\ status[o.id] \notin Unclaimed /\ InHand(o.id)'
      BY <2>2 DEF InHand
    <3>2. ASSUME NEW j \in 1 .. Len(late'), late'[j].op = "create", late'[j].id = late'[i].id
          PROVE  i = j
      BY <2>2, <3>2 DEF Creates
    <3> QED
      BY <2>2, <3>1, <3>2 DEF InHand
  <2> QED
    BY <2>1, <2>2
<1>4. DoneInv'
  BY DEF IInv, DoneInv, FulfilledIsDone
<1>5. GateInv'
  BY DEF IInv, GateInv, Holds
<1> QED
  BY <1>1, <1>2, <1>3, <1>4, <1>5 DEF IInv

\* A fault keeps the count within its bound.
LEMMA FaultsCounted ==
  ASSUME faults \in 0 .. MaxFaults, faults < MaxFaults, faults' = faults + 1
  PROVE  faults' \in 0 .. MaxFaults
<1>1. MaxFaults \in Nat
  BY BoundsAssumption
<1> QED
  BY <1>1

\* The initial states satisfy IInv.
LEMMA InitIInv == Init => IInv
<1> SUFFICES ASSUME Init PROVE IInv
  OBVIOUS
<1>1. TypeOK
  <2>1. MaxFaults \in Nat /\ MaxPanics \in Nat /\ MaxCrashes \in Nat
    BY BoundsAssumption
  <2>2. late \in Seq(Ops)
    BY DEF Init
  <2>3. status \in [Ids -> Statuses] /\ starts \in [Ids -> Nat] /\ wpc \in Phases
    BY DEF Init, Statuses, Phases
  <2>4. faults \in 0 .. MaxFaults /\ panics \in 0 .. MaxPanics /\ crashes \in 0 .. MaxCrashes
    BY <2>1 DEF Init
  <2> QED
    BY <2>2, <2>3, <2>4 DEF Init, TypeOK
<1>2. StartInv /\ DoneInv /\ GateInv
  BY DEF Init, StartInv, DoneInv, GateInv, FulfilledIsDone, Holds
<1>3. CreateInv
  BY DEF Init, CreateInv
<1> QED
  BY <1>1, <1>2, <1>3 DEF IInv

\* Every step keeps IInv.
LEMMA NextIInv == IInv /\ [Next]_vars => IInv'
<1> SUFFICES ASSUME IInv, [Next]_vars PROVE IInv'
  OBVIOUS
<1>0. TypeOK
  BY DEF IInv
<1>1. CASE ReconcileList
  BY <1>1, <1>0, WatcherKeeps DEF ReconcileList, InTurn, Rest, InStatus, Phases, TypeOK
<1>2. CASE ReconcileFail
  <2>1. Least(todo) \in Ids
    BY <1>0, <1>2, LeastIn DEF ReconcileFail, TypeOK
  <2>2. Settling
    BY <1>0, <1>2, <2>1, Statements DEF ReconcileFail, Settling, Settled
  <2> QED
    BY <1>0, <1>2, <2>2, SettlingKeeps DEF ReconcileFail, Rest, work, TypeOK, InTurn
<1>3. CASE ReconcileEnds
  BY <1>3, <1>0, WatcherKeeps DEF ReconcileEnds, Rest, Phases, TypeOK
<1>4. CASE Expire
  <2>1. Settling
    BY <1>0, <1>4, Expiry DEF Expire, Settling, Settled
  <2> QED
    BY <1>0, <1>4, <2>1, SettlingKeeps DEF Expire, Rest, work, TypeOK, InTurn, Phases
<1>5. CASE List
  BY <1>5, <1>0, WatcherKeeps DEF List, InTurn, Rest, InStatus, Phases, TypeOK
<1>6. CASE Probe
  <2>1. \A r \in Ids : Holds(r) => gate'
    BY <1>6 DEF Probe, ProbeOpen, Holds, InStatus
  <2>2. gate' \in BOOLEAN
    BY <1>6 DEF Probe, ProbeOpen
  <2> QED
    BY <1>6, <1>0, <2>1, <2>2, WatcherKeeps DEF Probe, InTurn, Rest, Phases, TypeOK
<1>7. CASE ClaimSkip
  BY <1>7, <1>0, WatcherKeeps DEF ClaimSkip, Rest, Phases, TypeOK, IInv, GateInv
<1>8. CASE ClaimEnds
  BY <1>8, <1>0, WatcherKeeps DEF ClaimEnds, Rest, Phases, TypeOK
<1>9. CASE TickEnds
  BY <1>9, <1>0, WatcherKeeps DEF TickEnds, Rest, Phases, TypeOK
<1>10. CASE Wake
  BY <1>10, <1>0, WatcherKeeps DEF Wake, Rest, Phases, TypeOK
<1>11. CASE Settle
  <2>1. Least(claimed) \in Ids
    BY <1>0, <1>11, LeastIn DEF Settle, InTurn, TypeOK, IInv, DoneInv
  <2>2. Settling
    BY <1>0, <1>11, <2>1, Statements DEF Settle, Settling, Settled, InTurn, IInv, DoneInv, Rest, work
  <2> QED
    BY <1>0, <1>11, <2>2, SettlingKeeps DEF Settle, Rest, work, TypeOK, InTurn
<1>12. CASE \E r \in Ids, how \in {"fulfil", "fail"} : ScanEnds(r, how)
  <2>1. PICK r \in Ids, how \in {"fulfil", "fail"} : ScanEnds(r, how)
    BY <1>12
  <2>2. Settling
    BY <1>0, <2>1, Statements DEF ScanEnds, Settling, Settled
  <2> QED
    BY <1>0, <2>1, <2>2, SettlingKeeps DEF ScanEnds, watcher, TypeOK
<1>13. CASE Claim
  <2> DEFINE r == Least(todo)
  <2>1. r \in Ids /\ wpc = "claim" /\ late = <<>>
    BY <1>0, <1>13, LeastIn DEF Claim, InTurn, TypeOK
  <2>2. status' = DbClaim(r) /\ Stamp /\ todo' \subseteq Ids
    BY <1>0, <1>13 DEF Claim, TypeOK
  <2>3. \/ /\ status[r] = "requested" /\ claimed' = claimed \cup {r}
           /\ gate' = (gate \/ kind[r] = "run_scan")
        \/ status[r] # "requested" /\ UNCHANGED <<claimed, gate>>
    BY <1>13 DEF Claim
  <2>4. UNCHANGED <<wpc, outcome, kind, work, late, bounds>>
    BY <1>13 DEF Claim, Rest
  <2>5. ~Blocked(r)
    BY <1>13 DEF Claim
  <2> HIDE DEF r
  <2>6. /\ status' \in [Ids -> Statuses]
        /\ \A q \in Ids : status'[q] =
             IF q = r /\ status[q] = "requested" THEN "running" ELSE status[q]
    BY <1>0, <2>1, <2>2, Statements
  <2>7. TypeOK'
    BY <1>0, <2>1, <2>2, <2>3, <2>4, <2>6 DEF TypeOK, work, bounds, Stamp
  <2>8. StartInv'
    BY <1>0, <2>1, <2>3, <2>4, <2>6 DEF IInv, StartInv, InHand, Unclaimed, TypeOK, work
  <2>9. CreateInv'
    BY <2>1, <2>4 DEF CreateInv
  <2>10. DoneInv'
    BY <2>1, <2>4, <2>6 DEF IInv, DoneInv, FulfilledIsDone, work
  <2>11. GateInv'
    BY <1>0, <2>1, <2>3, <2>4, <2>5, <2>6 DEF IInv, GateInv, Holds, work, Blocked, TypeOK
  <2> QED
    BY <2>7, <2>8, <2>9, <2>10, <2>11 DEF IInv
<1>14. CASE SpawnScan
  <2> DEFINE r == Least(claimed)
  <2>1. r \in claimed /\ r \in Ids /\ wpc = "fulfil" /\ kind[r] = "run_scan"
    BY <1>0, <1>14, LeastIn DEF SpawnScan, TypeOK
  <2>2. /\ tasks' = tasks \cup {r} /\ claimed' = claimed \ {r}
        /\ starts' = [starts EXCEPT ![r] = @ + 1]
        /\ UNCHANGED <<status, kind, stale, wpc, todo, gate, outcome, done, late, bounds>>
    BY <1>14 DEF SpawnScan
  <2> HIDE DEF r
  <2>3. starts[r] = 0 /\ status[r] \notin Unclaimed /\ \A q \in Ids : ~InHand(q)
    BY <2>1 DEF IInv, StartInv, InHand
  <2>4. TypeOK'
    BY <1>0, <2>1, <2>2 DEF TypeOK, bounds
  <2>5. StartInv'
    BY <1>0, <2>1, <2>2, <2>3 DEF IInv, StartInv, TypeOK
  <2>6. \A i \in 1 .. Len(late) : late[i].op = "create" => late[i].id \in Ids
    BY <1>0 DEF TypeOK, Ops
  <2>7. CreateInv'
    BY <1>0, <2>1, <2>2, <2>3, <2>6 DEF IInv, CreateInv, Creates, TypeOK
  <2>8. DoneInv'
    BY <2>1, <2>2 DEF IInv, DoneInv, FulfilledIsDone
  <2>9. GateInv'
    BY <2>1, <2>2 DEF IInv, GateInv, Holds
  <2> QED
    BY <2>4, <2>5, <2>7, <2>8, <2>9 DEF IInv
<1>15. CASE CreateAttempt
  <2> DEFINE r == Least(claimed)
  <2>1. r \in claimed /\ r \in Ids /\ wpc = "fulfil" /\ late = <<>> /\ kind[r] = "start_fix"
    BY <1>0, <1>15, LeastIn DEF CreateAttempt, InTurn, TypeOK
  <2>2. /\ starts' = [starts EXCEPT ![r] = @ + 1] /\ done' = done \cup {r}
        /\ outcome' = "fulfil" /\ wpc' = "settle"
        /\ UNCHANGED <<status, kind, stale, todo, gate, claimed, tasks, late, bounds>>
    BY <1>15 DEF CreateAttempt
  <2>3. Least(claimed') = r
    BY <2>2
  <2> HIDE DEF r
  <2>4. starts[r] = 0 /\ status[r] \notin Unclaimed /\ \A q \in Ids : ~InHand(q)
    BY <2>1 DEF IInv, StartInv, InHand
  <2>5. TypeOK'
    BY <1>0, <2>1, <2>2 DEF TypeOK, bounds, Phases
  <2>6. StartInv'
    BY <1>0, <2>1, <2>2, <2>3, <2>4 DEF IInv, StartInv, TypeOK, InHand
  <2>7. CreateInv'
    BY <2>1, <2>2 DEF CreateInv
  <2>8. DoneInv'
    BY <2>1, <2>2, <2>3 DEF IInv, DoneInv, FulfilledIsDone
  <2>9. GateInv'
    BY <2>1, <2>2 DEF IInv, GateInv, Holds
  <2> QED
    BY <2>5, <2>6, <2>7, <2>8, <2>9 DEF IInv
<1>16. CASE RefuseRequest
  <2>1. /\ wpc = "fulfil" /\ claimed # {} /\ outcome' = "fail" /\ wpc' = "settle"
        /\ UNCHANGED <<status, stale, todo, gate, claimed, kind, work, late, bounds>>
    BY <1>16 DEF RefuseRequest, Rest
  <2>2. TypeOK'
    BY <1>0, <2>1 DEF TypeOK, work, bounds, Phases
  <2>3. \A q \in Ids : ~InHand(q)
    BY <2>1 DEF InHand
  <2>4. StartInv'
    BY <1>0, <2>1, <2>3 DEF IInv, StartInv, work, TypeOK
  <2>5. \A i \in 1 .. Len(late) : late[i].op = "create" => late[i].id \in Ids
    BY <1>0 DEF TypeOK, Ops
  <2>6. CreateInv'
    BY <2>1, <2>3, <2>5 DEF IInv, CreateInv, Creates, work
  <2>7. DoneInv'
    BY <2>1 DEF IInv, DoneInv, FulfilledIsDone, work
  <2>8. GateInv'
    BY <2>1 DEF IInv, GateInv, Holds, work
  <2> QED
    BY <2>2, <2>4, <2>6, <2>7, <2>8 DEF IInv
<1>17. CASE Drain
  <2> DEFINE o == Head(late)
  <2>1. /\ late \in Seq(Ops) /\ late # <<>> /\ late' = Tail(late) /\ o \in Ops
    BY <1>0, <1>17 DEF Drain, TypeOK
  <2>2. /\ late' \in Seq(Ops) /\ Len(late) \in Nat /\ Len(late') = Len(late) - 1 /\ o = late[1]
        /\ \A i \in 1 .. Len(late') : i + 1 \in 1 .. Len(late) /\ late'[i] = late[i + 1]
    BY <2>1
  <2>3. /\ Stamp /\ UNCHANGED <<kind, watcher, tasks, bounds>>
    BY <1>17 DEF Drain
  <2>4. /\ status' = CASE o.op = "claim" -> DbClaim(o.id)
                       [] o.op = "fulfil" -> DbFulfil(o.id)
                       [] o.op = "fail" -> DbFail(o.id)
                       [] o.op = "expire" -> DbExpire
                       [] o.op = "create" -> status
        /\ IF o.op = "create"
             THEN starts' = [starts EXCEPT ![o.id] = @ + 1] /\ done' = done \cup {o.id}
             ELSE UNCHANGED <<starts, done>>
    BY <1>17 DEF Drain
  <2>5. o.op = "expire" \/ (o.op \in {"claim", "fulfil", "fail", "create"} /\ o.id \in Ids)
    BY <2>1 DEF Ops
  <2>6. 1 \in 1 .. Len(late)
    BY <2>1, <2>2
  <2> HIDE DEF o
  <2>7. /\ status' \in [Ids -> Statuses]
        /\ \A q \in Ids : \/ status'[q] = status[q]
                          \/ Live(q) /\ status'[q] \in {"failed", "expired"}
                          \/ Live(q) /\ status'[q] = "fulfilled" /\ o.op = "fulfil" /\ o.id = q
                          \/ status[q] = "requested" /\ status'[q] = "running"
    <3>1. CASE o.op = "claim"
      BY <1>0, <2>4, <2>5, <3>1, Statements
    <3>2. CASE o.op = "fulfil"
      BY <1>0, <2>4, <2>5, <3>2, Statements
    <3>3. CASE o.op = "fail"
      BY <1>0, <2>4, <2>5, <3>3, Statements
    <3>4. CASE o.op = "expire"
      BY <1>0, <2>4, <3>4, Expiry
    <3>5. CASE o.op = "create"
      BY <1>0, <2>4, <3>5 DEF TypeOK
    <3> QED
      BY <2>5, <3>1, <3>2, <3>3, <3>4, <3>5
  <2>8. starts' \in [Ids -> Nat] /\ done' \subseteq Ids /\ done \subseteq done'
    BY <1>0, <2>4, <2>5 DEF TypeOK
  <2>9. TypeOK'
    BY <1>0, <2>2, <2>3, <2>7, <2>8 DEF TypeOK, watcher, bounds, Stamp
  <2>10. \A q \in Ids : InHand(q)' <=> InHand(q)
    BY <2>3 DEF InHand, watcher, Least
  <2>11. o.op = "create" =>
           /\ starts[o.id] = 0 /\ status[o.id] \notin Unclaimed
           /\ o.id \in claimed => InHand(o.id)
           /\ \A j \in 1 .. Len(late) : late[j].op = "create" /\ late[j].id = o.id => j = 1
    BY <2>2, <2>6 DEF IInv, CreateInv, Creates
  <2>12. \A q \in Ids : status'[q] \in Unclaimed => status[q] \in Unclaimed /\ status'[q] = status[q]
    BY <2>7 DEF Unclaimed
  <2>13. \A q \in Ids : starts'[q] = IF o.op = "create" /\ q = o.id THEN 1 ELSE starts[q]
    BY <1>0, <2>4, <2>5, <2>11 DEF TypeOK
  <2>14. StartInv'
    <3>1. \A q \in Ids : starts'[q] \in {0, 1} /\ (status'[q] \in Unclaimed => starts'[q] = 0)
      BY <2>11, <2>12, <2>13 DEF IInv, StartInv
    <3>2. \A q \in claimed' : status'[q] \notin Unclaimed /\ (~InHand(q)' => starts'[q] = 0)
      BY <1>0, <2>3, <2>10, <2>11, <2>12, <2>13 DEF IInv, StartInv, TypeOK, watcher
    <3>3. \A q \in tasks' : kind'[q] = "run_scan" /\ starts'[q] = 1
      BY <1>0, <2>3, <2>13 DEF IInv, StartInv, TypeOK
    <3> QED
      BY <3>1, <3>2, <3>3 DEF StartInv
  <2>15. \A i \in 1 .. Len(late) : late[i].op = "create" => late[i].id \in Ids
    BY <1>0 DEF TypeOK, Ops
  <2>16. CreateInv'
    <3> SUFFICES ASSUME NEW i \in 1 .. Len(late'), late'[i].op = "create"
                 PROVE  /\ starts'[late'[i].id] = 0
                        /\ status'[late'[i].id] \notin Unclaimed
                        /\ late'[i].id \in claimed' => InHand(late[i].id)'
                        /\ \A j \in 1 .. Len(late') :
                             late'[j].op = "create" /\ late'[j].id = late'[i].id => i = j
      BY DEF CreateInv, Creates
    <3>1. i + 1 \in 1 .. Len(late) /\ late'[i] = late[i + 1] /\ i + 1 # 1
      BY <2>2
    <3>2. late'[i].id \in Ids /\ ~(o.op = "create" /\ late'[i].id = o.id)
      BY <2>11, <2>15, <3>1
    <3>3. /\ starts[late'[i].id] = 0 /\ status[late'[i].id] \notin Unclaimed
          /\ late'[i].id \in claimed => InHand(late'[i].id)
      BY <3>1 DEF IInv, CreateInv, Creates
    <3>4. ASSUME NEW j \in 1 .. Len(late'), late'[j].op = "create", late'[j].id = late'[i].id
          PROVE  i = j
      <4>1. j + 1 \in 1 .. Len(late) /\ late'[j] = late[j + 1]
        BY <2>2
      <4>2. i + 1 = j + 1
        BY <3>1, <3>4, <4>1 DEF IInv, CreateInv, Creates
      <4> QED
        BY <4>2, <2>2
    <3>5. starts'[late'[i].id] = 0 /\ status'[late'[i].id] \notin Unclaimed
      BY <2>12, <2>13, <3>2, <3>3
    <3>6. late'[i].id \in claimed' => InHand(late[i].id)'
      BY <2>3, <2>10, <3>2, <3>3 DEF watcher, InHand
    <3> QED
      BY <3>4, <3>5, <3>6
  <2>17. DoneInv'
    <3>1. o.op = "fulfil" => o.id \in done
      BY <2>2, <2>6 DEF IInv, DoneInv
    <3>2. FulfilledIsDone'
      BY <2>7, <2>8, <3>1 DEF IInv, DoneInv, FulfilledIsDone
    <3>3. \A i \in 1 .. Len(late') : late'[i].op = "fulfil" => late'[i].id \in done'
      BY <2>2, <2>8 DEF IInv, DoneInv
    <3> QED
      BY <2>3, <2>8, <3>2, <3>3 DEF IInv, DoneInv, watcher, Least
  <2>18. GateInv'
    <3>1. \A q \in Ids : Holds(q)' => Holds(q)
      BY <2>3, <2>7 DEF Holds, IInv, StartInv, watcher, Unclaimed
    <3> QED
      BY <2>3, <3>1 DEF IInv, GateInv, watcher
  <2> QED
    BY <2>9, <2>14, <2>16, <2>17, <2>18 DEF IInv
<1>18. CASE \E r \in Ids, how \in {"fulfil", "fail"} : ScanSettleFails(r, how)
  <2>1. PICK r \in Ids, how \in {"fulfil", "fail"} : ScanSettleFails(r, how)
    BY <1>18
  <2> DEFINE o == [op |-> how, id |-> r]
  <2>2. o \in Ops
    BY DEF Ops
  <2>3. /\ r \in tasks /\ tasks' = tasks \ {r}
        /\ done' = IF how = "fulfil" THEN done \cup {r} ELSE done
        /\ UNCHANGED <<watcher, starts, status, kind, stale, panics, crashes>>
        /\ faults < MaxFaults /\ faults' = faults + 1
    BY <2>1 DEF ScanSettleFails, Fault
  <2>4. Appended(o)
    BY <2>1 DEF ScanSettleFails, Fault, Appended
  <2>5. o.op = how /\ o.id = r
    OBVIOUS
  <2> HIDE DEF o
  <2>6. /\ late' \in Seq(Ops)
        /\ \A i \in 1 .. Len(late') : \/ i \in 1 .. Len(late) /\ late'[i] = late[i]
                                      \/ i = Len(late) + 1 /\ late'[i] = o
    BY <1>0, <2>2, <2>4, Queued
  <2>7. done \subseteq done' /\ done' \subseteq Ids /\ (how = "fulfil" => r \in done')
    BY <1>0, <2>3 DEF TypeOK
  <2>8. faults' \in 0 .. MaxFaults
    BY <1>0, <2>3, FaultsCounted DEF TypeOK
  <2>9. /\ wpc' \in Phases /\ todo' \subseteq Ids /\ gate' \in BOOLEAN
        /\ outcome' \in {"fulfil", "fail"} /\ claimed' = claimed
        /\ \A q \in claimed' : InHand(q) => InHand(q)'
    BY <1>0, <2>3 DEF TypeOK, watcher, InHand, Least
  <2>10. wpc' = "settle" => claimed' # {} /\ (outcome' = "fulfil" => Least(claimed') \in done')
    BY <2>3, <2>7 DEF watcher, IInv, DoneInv, Least
  <2>11. wpc' = "claim" => \A q \in Ids : Holds(q) => gate'
    BY <2>3 DEF watcher, IInv, GateInv
  <2> QED
    BY <2>2, <2>3, <2>5, <2>6, <2>7, <2>8, <2>9, <2>10, <2>11, FaultKeeps
<1>19. CASE WatcherCallFails
  <2>1. /\ UNCHANGED <<status, kind, stale, starts, panics, crashes, tasks, done>>
        /\ faults < MaxFaults /\ faults' = faults + 1
    BY <1>19 DEF WatcherCallFails, Fault, work
  <2>2. faults' \in 0 .. MaxFaults
    BY <1>0, <2>1, FaultsCounted DEF TypeOK
  <2>3. todo # {} => Least(todo) \in Ids
    BY <1>0, LeastIn DEF TypeOK
  <2>4. claimed # {} => Least(claimed) \in claimed /\ Least(claimed) \in Ids
    BY <1>0, LeastIn DEF TypeOK
  <2>5. done' \subseteq Ids /\ tasks' \subseteq tasks
    BY <1>0, <2>1 DEF TypeOK
  <2>6. ASSUME NEW o \in Ops, Appended(o),
               o.op = "fulfil" => o.id \in done',
               o.op = "create" => /\ wpc = "fulfil" /\ wpc' = "settle" /\ o.id \in claimed
                                  /\ o.id = Least(claimed'),
               wpc' \in Phases, todo' \subseteq Ids, gate' \in BOOLEAN,
               outcome' \in {"fulfil", "fail"}, claimed' \subseteq claimed,
               wpc = "settle" => claimed' = claimed \ {Least(claimed)},
               wpc' = "settle" => claimed' # {} /\ outcome' = "fail",
               wpc' = "claim" => \A r \in Ids : Holds(r) => gate'
        PROVE  IInv'
    <3>1. /\ late' \in Seq(Ops)
          /\ \A i \in 1 .. Len(late') : \/ i \in 1 .. Len(late) /\ late'[i] = late[i]
                                        \/ i = Len(late) + 1 /\ late'[i] = o
      BY <1>0, <2>6, Queued
    <3>2. o.op = "create" => /\ starts[o.id] = 0 /\ status[o.id] \notin Unclaimed
                             /\ wpc' = "settle" /\ o.id = Least(claimed')
                             /\ \A i \in 1 .. Len(late) : Creates(i) => late[i].id # o.id
      BY <2>6 DEF IInv, StartInv, CreateInv, InHand
    <3>3. \A q \in claimed' : InHand(q) => InHand(q)'
      BY <2>6 DEF InHand
    <3>4. done \subseteq done'
      BY <2>1
    <3> QED
      BY <2>1, <2>2, <2>5, <2>6, <3>1, <3>2, <3>3, <3>4, FaultKeeps
  <2>7. ASSUME late' = late, wpc \in {"reconcile", "list", "probe"},
               wpc' \in Phases \ {"settle"}, todo' \subseteq Ids, gate' \in BOOLEAN,
               UNCHANGED <<claimed, outcome>>, wpc' = "claim" => gate'
        PROVE  IInv'
    <3>1. [op |-> "expire"] \in Ops /\ [op |-> "expire"].op = "expire"
      BY DEF Ops
    <3>2. outcome' \in {"fulfil", "fail"}
      BY <1>0, <2>7 DEF TypeOK
    <3>3. Appended([op |-> "expire"])
      BY <2>7 DEF Appended
    <3> HIDE DEF Phases
    <3>4. wpc' # "settle" /\ wpc # "settle"
      BY <2>7
    <3> QED
      BY <2>6, <2>7, <3>1, <3>2, <3>3, <3>4
  <2>8. CASE wpc \in {"reconcile", "failing"}
    <3>1. CASE wpc = "reconcile"
      <4>1. /\ wpc' = "expire" /\ todo' = {} /\ UNCHANGED <<gate, claimed, outcome>>
            /\ Fault(<<>>)
        BY <1>19, <3>1 DEF WatcherCallFails
      <4>2. late' = late
        BY <1>0, <4>1 DEF Fault, TypeOK
      <4> QED
        BY <1>0, <2>7, <3>1, <4>1, <4>2 DEF TypeOK, Phases
    <3>2. CASE wpc = "failing"
      <4> DEFINE o == [op |-> "fail", id |-> Least(todo)]
      <4>1. /\ wpc' = "expire" /\ todo' = {} /\ UNCHANGED <<gate, claimed, outcome>>
            /\ Fault(<<o>>) /\ todo # {}
        BY <1>19, <3>2 DEF WatcherCallFails
      <4>2. o \in Ops /\ o.op = "fail"
        BY <2>3, <4>1 DEF Ops
      <4>3. Appended(o)
        BY <4>1 DEF Fault, Appended
      <4> HIDE DEF o
      <4>4. wpc' \in Phases /\ gate' \in BOOLEAN /\ outcome' \in {"fulfil", "fail"}
        BY <1>0, <4>1 DEF TypeOK, Phases
      <4> QED
        BY <2>6, <3>2, <4>1, <4>2, <4>3, <4>4
    <3> QED
      BY <2>8, <3>1, <3>2
  <2>9. CASE wpc = "expire"
    <3> DEFINE o == [op |-> "expire"]
    <3>1. /\ wpc' = "list" /\ UNCHANGED <<todo, gate, claimed, outcome>> /\ Fault(<<o>>)
      BY <1>19, <2>9 DEF WatcherCallFails
    <3>2. o \in Ops /\ o.op = "expire"
      BY DEF Ops
    <3>3. Appended(o)
      BY <3>1 DEF Fault, Appended
    <3> HIDE DEF o
    <3>4. wpc' \in Phases /\ todo' \subseteq Ids /\ gate' \in BOOLEAN /\ outcome' \in {"fulfil", "fail"}
      BY <1>0, <3>1 DEF TypeOK, Phases
    <3> QED
      BY <2>6, <2>9, <3>1, <3>2, <3>3, <3>4
  <2>10. CASE wpc \in {"list", "probe"}
    <3>1. /\ \/ wpc' = "probe" /\ todo' = {} /\ UNCHANGED gate
             \/ wpc' = "claim" /\ UNCHANGED todo /\ gate' = TRUE
          /\ UNCHANGED <<claimed, outcome>> /\ Fault(<<>>)
      BY <1>19, <2>10 DEF WatcherCallFails
    <3>2. late' = late
      BY <1>0, <3>1 DEF Fault, TypeOK
    <3> QED
      BY <1>0, <2>7, <2>10, <3>1, <3>2 DEF TypeOK, Phases
  <2>11. CASE wpc = "claim"
    <3> DEFINE o == [op |-> "claim", id |-> Least(todo)]
    <3>1. /\ todo # {} /\ todo' = todo \ {Least(todo)} /\ UNCHANGED <<wpc, gate, claimed, outcome>>
          /\ Fault(<<o>>)
      BY <1>19, <2>11 DEF WatcherCallFails
    <3>2. o \in Ops /\ o.op = "claim"
      BY <2>3, <3>1 DEF Ops
    <3>3. Appended(o)
      BY <3>1 DEF Fault, Appended
    <3> HIDE DEF o
    <3>4. wpc' \in Phases /\ todo' \subseteq Ids /\ gate' \in BOOLEAN /\ outcome' \in {"fulfil", "fail"}
      BY <1>0, <3>1 DEF TypeOK
    <3>5. \A r \in Ids : Holds(r) => gate'
      BY <2>11, <3>1 DEF IInv, GateInv
    <3> QED
      BY <2>6, <2>11, <3>1, <3>2, <3>3, <3>4, <3>5
  <2>12. CASE wpc = "fulfil"
    <3> DEFINE o == [op |-> "create", id |-> Least(claimed)]
    <3>1. /\ claimed # {} /\ outcome' = "fail" /\ wpc' = "settle"
          /\ UNCHANGED <<todo, gate, claimed>> /\ Fault(<<o>>)
      BY <1>19, <2>12 DEF WatcherCallFails
    <3>2. o \in Ops /\ o.op = "create" /\ o.id \in claimed /\ o.id = Least(claimed')
      BY <2>4, <3>1 DEF Ops
    <3>3. Appended(o)
      BY <3>1 DEF Fault, Appended
    <3> HIDE DEF o
    <3>4. wpc' \in Phases /\ todo' \subseteq Ids /\ gate' \in BOOLEAN /\ outcome' \in {"fulfil", "fail"}
      BY <1>0, <3>1 DEF TypeOK, Phases
    <3> QED
      BY <2>6, <2>12, <3>1, <3>2, <3>3, <3>4
  <2>13. CASE wpc = "settle"
    <3> DEFINE o == [op |-> outcome, id |-> Least(claimed)]
    <3>1. /\ claimed' = claimed \ {Least(claimed)} /\ wpc' = "fulfil"
          /\ UNCHANGED <<todo, gate, outcome>> /\ Fault(<<o>>)
      BY <1>19, <2>13 DEF WatcherCallFails
    <3>2. claimed # {} /\ outcome \in {"fulfil", "fail"}
          /\ (outcome = "fulfil" => Least(claimed) \in done)
      BY <1>0, <2>13 DEF IInv, DoneInv, TypeOK
    <3>3. o \in Ops /\ o.op = outcome /\ o.id = Least(claimed)
      BY <2>4, <3>2 DEF Ops
    <3>4. Appended(o)
      BY <3>1 DEF Fault, Appended
    <3> HIDE DEF o
    <3>5. wpc' \in Phases /\ todo' \subseteq Ids /\ gate' \in BOOLEAN /\ outcome' \in {"fulfil", "fail"}
      BY <1>0, <3>1 DEF TypeOK, Phases
    <3>6. (o.op = "fulfil" => o.id \in done') /\ o.op # "create"
      BY <2>1, <3>2, <3>3
    <3> QED
      BY <2>6, <2>13, <3>1, <3>3, <3>4, <3>5, <3>6
  <2> QED
    BY <1>19, <2>8, <2>9, <2>10, <2>11, <2>12, <2>13 DEF WatcherCallFails
<1>20. CASE \E r \in Ids : Insert(r)
  <2>1. PICK r \in Ids : Insert(r)
    BY <1>20
  <2>2. /\ status[r] = "absent" /\ status' = [status EXCEPT ![r] = "requested"]
        /\ UNCHANGED <<kind, stale, watcher, work, late, bounds>>
    BY <2>1 DEF Insert
  <2>3. TypeOK'
    BY <1>0, <2>2 DEF TypeOK, Statuses, watcher, work, bounds
  <2>4. \A q \in Ids : InHand(q)' <=> InHand(q)
    BY <2>2 DEF InHand, watcher, Least
  <2>5. \A q \in Ids : (status'[q] \in Unclaimed <=> status[q] \in Unclaimed)
                       /\ (status'[q] = "running" => status[q] = "running")
                       /\ (status'[q] = "fulfilled" => status[q] = "fulfilled")
    BY <1>0, <2>2 DEF TypeOK, Unclaimed
  <2>6. StartInv'
    BY <1>0, <2>2, <2>4, <2>5 DEF IInv, StartInv, TypeOK, watcher, work
  <2>7. \A i \in 1 .. Len(late) : late[i].op = "create" => late[i].id \in Ids
    BY <1>0 DEF TypeOK, Ops
  <2>8. CreateInv'
    BY <2>2, <2>4, <2>5, <2>7 DEF IInv, CreateInv, Creates, watcher, work
  <2>9. DoneInv'
    BY <2>2, <2>5 DEF IInv, DoneInv, FulfilledIsDone, watcher, work, Least
  <2>10. GateInv'
    BY <2>2, <2>5 DEF IInv, GateInv, Holds, watcher, work
  <2> QED
    BY <2>3, <2>6, <2>8, <2>9, <2>10 DEF IInv
<1>21. CASE \E r \in Ids : RowAges(r)
  <2>1. PICK r \in Ids : RowAges(r)
    BY <1>21
  <2>2. stale' \subseteq Ids /\ UNCHANGED <<status, kind, watcher, work, late, bounds>>
    BY <1>0, <2>1 DEF RowAges, TypeOK
  <2> QED
    BY <2>2 DEF IInv, TypeOK, StartInv, CreateInv, DoneInv, GateInv, FulfilledIsDone, Holds,
                InHand, Creates, Least, watcher, work, bounds
<1>22. CASE Launch
  <2>1. wpc = "down" /\ wpc' = "reconcile"
        /\ UNCHANGED <<status, kind, stale, todo, gate, claimed, outcome, work, late, bounds>>
    BY <1>22 DEF Launch
  <2> QED
    BY <1>0, <2>1, WatcherKeeps DEF TypeOK, Phases
<1>23. CASE Panic \/ Crash
  <2>1. /\ claimed' = {} /\ todo' = {} /\ wpc' \in {"reconcile", "down"}
        /\ tasks' \subseteq tasks /\ late' \in {late, <<>>}
        /\ UNCHANGED <<status, kind, stale, gate, outcome, starts, done, faults>>
    BY <1>23 DEF Panic, Crash, work
  <2>2. panics' \in 0 .. MaxPanics /\ crashes' \in 0 .. MaxCrashes
    <3>1. MaxPanics \in Nat /\ MaxCrashes \in Nat
      BY BoundsAssumption
    <3> QED
      BY <1>0, <1>23, <3>1 DEF Panic, Crash, TypeOK
  <2>3. late' \in Seq(Ops)
    <3>1. late \in Seq(Ops) /\ <<>> \in Seq(Ops)
      BY <1>0 DEF TypeOK
    <3> QED
      BY <2>1, <3>1
  <2>4. TypeOK'
    BY <1>0, <2>1, <2>2, <2>3 DEF TypeOK, Phases
  <2>5. StartInv'
    BY <1>0, <2>1 DEF IInv, StartInv, TypeOK
  <2>6. CreateInv'
    <3>1. CASE late' = late
      BY <2>1, <3>1 DEF IInv, CreateInv, Creates
    <3>2. CASE late' = <<>>
      BY <3>2 DEF CreateInv
    <3> QED
      BY <2>1, <3>1, <3>2
  <2>7. DoneInv'
    <3>1. \A i \in 1 .. Len(late') : late'[i].op = "fulfil" => late'[i].id \in done'
      BY <2>1 DEF IInv, DoneInv
    <3> QED
      BY <2>1, <3>1 DEF IInv, DoneInv, FulfilledIsDone
  <2>8. GateInv'
    BY <2>1 DEF IInv, GateInv, Holds
  <2> QED
    BY <2>4, <2>5, <2>6, <2>7, <2>8 DEF IInv
<1>24. CASE UNCHANGED vars
  BY <1>24 DEF vars, IInv, TypeOK, StartInv, CreateInv, DoneInv, GateInv, FulfilledIsDone, Holds,
               InHand, Creates, Least, watcher, work, bounds
<1> QED
  BY <1>1, <1>2, <1>3, <1>4, <1>5, <1>6, <1>7, <1>8, <1>9, <1>10, <1>11, <1>12, <1>13,
     <1>14, <1>15, <1>16, <1>17, <1>18, <1>19, <1>20, <1>21, <1>22, <1>23, <1>24
  DEF Next, Watch

-----------------------------------------------------------------------------

\* IInv is an invariant of the queue and its watcher.
THEOREM Invariance == Spec => []IInv
BY InitIInv, NextIInv, PTL DEF Spec

\* The rows, the watcher's locals and the worker's queue keep their types.
THEOREM TypeCorrect == Spec => []TypeOK
<1>1. IInv => TypeOK
  BY DEF IInv
<1> QED
  BY <1>1, Invariance, PTL

\* A scan or a fix attempt is started at most once per request, and never for a
\* row that may still be claimed, whatever is claimed late, repeated or lost.
THEOREM StartedOnce == Spec => []ServedOnce
<1>1. IInv => ServedOnce
  BY DEF IInv, StartInv, ServedOnce, Unclaimed
<1> QED
  BY <1>1, Invariance, PTL

\* No request is answered "fulfilled" whose work was not completed.
THEOREM AnswersAreTrue == Spec => []FulfilledIsDone
<1>1. IInv => FulfilledIsDone
  BY DEF IInv, DoneInv
<1> QED
  BY <1>1, Invariance, PTL

\* Two scans in flight never both have a running row.
THEOREM OneScanPerQueue == Spec => []SerializedWhileQueueHolds
<1>1. IInv => SerializedWhileQueueHolds
  BY DEF IInv, TypeOK, StartInv, GateInv, Holds, SerializedWhileQueueHolds
<1> QED
  BY <1>1, Invariance, PTL

\* A step that changes a row inserts it, claims it or settles it.
LEMMA RowsMove ==
  ASSUME TypeOK, IInv, [Next]_vars
  PROVE  \A r \in Ids : \/ status'[r] = status[r]
                        \/ status[r] = "absent" /\ status'[r] = "requested"
                        \/ status[r] = "requested" /\ status'[r] = "running"
                        \/ Live(r) /\ status'[r] \in Settled
<1>1. CASE ReconcileFail
  <2>1. Least(todo) \in Ids /\ status' = DbFail(Least(todo))
    BY <1>1, LeastIn DEF ReconcileFail, TypeOK
  <2> QED
    BY <2>1, Statements DEF Live, Settled
<1>2. CASE Expire
  BY <1>2, Expiry DEF Expire, Live, Settled
<1>3. CASE Claim
  <2>1. Least(todo) \in Ids /\ status' = DbClaim(Least(todo))
    BY <1>3, LeastIn DEF Claim, TypeOK
  <2> QED
    BY <2>1, Statements DEF Settled
<1>4. CASE Settle
  <2>1. Least(claimed) \in Ids
    BY <1>4, LeastIn DEF Settle, InTurn, TypeOK, IInv, DoneInv
  <2>2. status' \in {DbFulfil(Least(claimed)), DbFail(Least(claimed))}
    BY <1>4 DEF Settle
  <2> QED
    BY <2>1, <2>2, Statements DEF Live, Settled
<1>5. CASE \E r \in Ids, how \in {"fulfil", "fail"} : ScanEnds(r, how)
  <2>1. PICK r \in Ids : status' \in {DbFulfil(r), DbFail(r)}
    BY <1>5 DEF ScanEnds
  <2> QED
    BY <2>1, Statements DEF Live, Settled
<1>6. CASE Drain
  <2> DEFINE o == Head(late)
  <2>1. o \in Ops
    BY <1>6 DEF Drain, TypeOK
  <2>2. status' = CASE o.op = "claim" -> DbClaim(o.id)
                    [] o.op = "fulfil" -> DbFulfil(o.id)
                    [] o.op = "fail" -> DbFail(o.id)
                    [] o.op = "expire" -> DbExpire
                    [] o.op = "create" -> status
    BY <1>6 DEF Drain
  <2>3. o.op = "expire" \/ (o.op \in {"claim", "fulfil", "fail", "create"} /\ o.id \in Ids)
    BY <2>1 DEF Ops
  <2> HIDE DEF o
  <2>4. \/ o.id \in Ids /\ status' \in {DbClaim(o.id), DbFulfil(o.id), DbFail(o.id)}
        \/ status' \in {DbExpire, status}
    BY <2>2, <2>3
  <2> QED
    BY <2>4, Statements, Expiry DEF Live, Settled
<1>7. CASE \E r \in Ids : Insert(r)
  BY <1>7 DEF Insert, TypeOK, Settled
<1>8. ASSUME UNCHANGED status
      PROVE  \A r \in Ids : status'[r] = status[r]
  BY <1>8
<1> QED
  BY <1>1, <1>2, <1>3, <1>4, <1>5, <1>6, <1>7, <1>8
  DEF Next, Watch, ReconcileList, ReconcileEnds, List, Probe, ClaimSkip, ClaimEnds, SpawnScan,
      CreateAttempt, RefuseRequest, TickEnds, Wake, Rest, Launch, RowAges, ScanSettleFails,
      WatcherCallFails, Fault, Panic, Crash, vars

\* A settled request is never rewritten.
THEOREM SettledIsFinal == Spec => SettledFinal
<1>1. TypeOK /\ IInv /\ [Next]_vars
        => [\A r \in Ids : status[r] \in Settled => status'[r] = status[r]]_vars
  BY RowsMove DEF Live, Settled
<1> QED
  BY <1>1, Invariance, TypeCorrect, PTL DEF Spec, SettledFinal

-----------------------------------------------------------------------------
(* The queue is RequestBook.                                               *)

\* Work is completed where it was begun, and whatever is about to be answered,
\* by a reconciliation or by a statement nobody waits for, was claimed.
AnswerInv ==
  /\ \A r \in done : starts[r] = 1
  /\ wpc = "failing" => \A r \in todo : status[r] \notin Unclaimed
  /\ \A i \in 1 .. Len(late) :
       late[i].op \in {"fulfil", "fail"} => status[late[i].id] \notin Unclaimed

\* A request that was claimed stays claimed.
LEMMA ClaimedStays ==
  ASSUME TypeOK, IInv, [Next]_vars
  PROVE  \A r \in Ids : status[r] \notin Unclaimed => status'[r] \notin Unclaimed
BY RowsMove DEF Live, Settled, Unclaimed

\* What was begun stays begun.
LEMMA BegunStays ==
  ASSUME IInv, IInv', [Next]_vars
  PROVE  \A r \in Ids : starts[r] = 1 => starts'[r] = 1
<1> USE DEF IInv
<1>1. \A r \in Ids : starts[r] \in {0, 1} /\ starts'[r] \in {0, 1}
  BY DEF StartInv
<1>2. ASSUME NEW q, starts' = [starts EXCEPT ![q] = @ + 1]
      PROVE  \A r \in Ids : starts[r] = 1 => starts'[r] = 1
  BY <1>1, <1>2 DEF TypeOK
<1>3. CASE SpawnScan
  BY <1>2, <1>3 DEF SpawnScan
<1>4. CASE CreateAttempt
  BY <1>2, <1>4 DEF CreateAttempt
<1>5. CASE Drain
  BY <1>2, <1>5 DEF Drain
<1>6. CASE UNCHANGED starts
  BY <1>6
<1> QED
  BY <1>3, <1>4, <1>5, <1>6
  DEF Next, Watch, ReconcileList, ReconcileFail, ReconcileEnds, Expire, List, Probe, ClaimSkip,
      Claim, ClaimEnds, RefuseRequest, Settle, TickEnds, Wake, Rest, Launch, Insert, RowAges,
      ScanEnds, ScanSettleFails, WatcherCallFails, Panic, Crash, work, vars

\* What a step completes was begun.
LEMMA CompletedWasBegun ==
  ASSUME IInv, IInv', AnswerInv, [Next]_vars
  PROVE  \A r \in done' : starts'[r] = 1
<1> USE DEF IInv
<1>1. \A r \in Ids : starts[r] = 1 => starts'[r] = 1
  BY BegunStays
<1>2. \A r \in done : starts'[r] = 1
  BY <1>1 DEF AnswerInv, TypeOK
<1>3. ASSUME NEW q \in Ids, starts' = [starts EXCEPT ![q] = @ + 1], done' = done \cup {q}
      PROVE  \A r \in done' : starts'[r] = 1
  BY <1>2, <1>3 DEF StartInv, TypeOK
<1>4. ASSUME NEW q \in tasks, done' \in {done, done \cup {q}}
      PROVE  \A r \in done' : starts'[r] = 1
  BY <1>1, <1>2, <1>4 DEF StartInv, TypeOK
<1>5. CASE CreateAttempt
  <2>1. Least(claimed) \in Ids
    BY <1>5, LeastIn DEF CreateAttempt, TypeOK
  <2> QED
    BY <1>3, <1>5, <2>1 DEF CreateAttempt
<1>6. CASE Drain
  <2>1. Head(late) \in Ops
    BY <1>6 DEF Drain, TypeOK
  <2>2. Head(late).op = "create" => Head(late).id \in Ids
    BY <2>1 DEF Ops
  <2> QED
    BY <1>2, <1>3, <1>6, <2>2 DEF Drain
<1>7. CASE \E r \in Ids, how \in {"fulfil", "fail"} : ScanEnds(r, how) \/ ScanSettleFails(r, how)
  BY <1>4, <1>7 DEF ScanEnds, ScanSettleFails
<1>8. CASE UNCHANGED done
  BY <1>2, <1>8
<1> QED
  BY <1>5, <1>6, <1>7, <1>8
  DEF Next, Watch, ReconcileList, ReconcileFail, ReconcileEnds, Expire, List, Probe, ClaimSkip,
      Claim, ClaimEnds, SpawnScan, RefuseRequest, Settle, TickEnds, Wake, Rest, Launch, Insert,
      RowAges, WatcherCallFails, Panic, Crash, work, vars

\* What the watcher has listed to fail was claimed.
LEMMA OrphansWereClaimed ==
  ASSUME IInv, AnswerInv, [Next]_vars, wpc' = "failing"
  PROVE  \A r \in todo' : status'[r] \notin Unclaimed
<1> USE DEF IInv
<1>1. \A r \in Ids : status[r] \notin Unclaimed => status'[r] \notin Unclaimed
  BY ClaimedStays
<1>2. CASE ReconcileList
  BY <1>1, <1>2 DEF ReconcileList, InStatus, Unclaimed
<1>3. CASE wpc = "failing" /\ todo' \subseteq todo
  BY <1>1, <1>3 DEF AnswerInv, TypeOK
<1>4. \/ ReconcileList
      \/ wpc = "failing" /\ todo' \subseteq todo
  BY DEF Next, Watch, ReconcileFail, ReconcileEnds, Expire, List, Probe, ClaimSkip,
      Claim, ClaimEnds, SpawnScan, CreateAttempt, RefuseRequest, Settle, TickEnds, Wake, Rest,
      Launch, Insert, RowAges, ScanEnds, ScanSettleFails, WatcherCallFails, Drain, Panic, Crash,
      watcher, vars
<1> QED
  BY <1>2, <1>3, <1>4

\* The worker's queue stays, is lost, moves on or grows by an operation, which if
\* it answers does so for a request that was claimed.
LateAnswered ==
  \/ late' \in {late, <<>>}
  \/ late # <<>> /\ late' = Tail(late)
  \/ \E o \in Ops : /\ late' = late \o <<o>>
                    /\ o.op \in {"fulfil", "fail"} => status[o.id] \notin Unclaimed

\* What a failed call leaves behind answers a request that was claimed.
LEMMA LateAnswers ==
  ASSUME IInv, AnswerInv, [Next]_vars
  PROVE  LateAnswered
<1> USE DEF IInv
<1>1. ASSUME NEW o \in Ops, Fault(<<o>>),
             o.op \in {"fulfil", "fail"} => status[o.id] \notin Unclaimed
      PROVE  LateAnswered
  BY <1>1 DEF Fault, LateAnswered
<1>2. ASSUME Fault(<<>>) PROVE LateAnswered
  BY <1>2 DEF Fault, TypeOK, LateAnswered
<1>3. CASE \E r \in Ids, how \in {"fulfil", "fail"} : ScanSettleFails(r, how)
  <2>1. PICK r \in Ids, how \in {"fulfil", "fail"} : ScanSettleFails(r, how)
    BY <1>3
  <2>2. [op |-> how, id |-> r] \in Ops /\ status[r] \notin Unclaimed
    BY <2>1 DEF ScanSettleFails, Ops, StartInv
  <2> QED
    BY <1>1, <2>1, <2>2 DEF ScanSettleFails
<1>4. CASE WatcherCallFails
  <2>1. todo # {} => Least(todo) \in todo /\ Least(todo) \in Ids
    BY LeastIn DEF TypeOK
  <2>2. claimed # {} => /\ Least(claimed) \in Ids /\ status[Least(claimed)] \notin Unclaimed
    BY LeastIn DEF TypeOK, StartInv
  <2>3. CASE wpc = "failing"
    <3>1. todo # {} /\ Fault(<<[op |-> "fail", id |-> Least(todo)]>>)
      BY <1>4, <2>3 DEF WatcherCallFails
    <3>2. [op |-> "fail", id |-> Least(todo)] \in Ops
      BY <2>1, <3>1 DEF Ops
    <3>3. status[Least(todo)] \notin Unclaimed
      BY <2>1, <2>3, <3>1 DEF AnswerInv
    <3> QED
      BY <1>1, <3>1, <3>2, <3>3
  <2>4. CASE wpc = "settle"
    <3>1. claimed # {} /\ Fault(<<[op |-> outcome, id |-> Least(claimed)]>>)
      BY <1>4, <2>4 DEF WatcherCallFails, DoneInv
    <3>2. [op |-> outcome, id |-> Least(claimed)] \in Ops
      BY <2>2, <3>1 DEF Ops, TypeOK
    <3> QED
      BY <1>1, <2>2, <3>1, <3>2
  <2>5. CASE wpc \in {"reconcile", "list", "probe"}
    BY <1>2, <1>4, <2>5 DEF WatcherCallFails
  <2>6. CASE wpc = "expire"
    <3>1. Fault(<<[op |-> "expire"]>>)
      BY <1>4, <2>6 DEF WatcherCallFails
    <3>2. [op |-> "expire"] \in Ops
      BY DEF Ops
    <3> QED
      BY <1>1, <3>1, <3>2
  <2>7. CASE wpc = "claim"
    <3>1. todo # {} /\ Fault(<<[op |-> "claim", id |-> Least(todo)]>>)
      BY <1>4, <2>7 DEF WatcherCallFails
    <3>2. [op |-> "claim", id |-> Least(todo)] \in Ops
      BY <2>1, <3>1 DEF Ops
    <3> QED
      BY <1>1, <3>1, <3>2
  <2>8. CASE wpc = "fulfil"
    <3>1. claimed # {} /\ Fault(<<[op |-> "create", id |-> Least(claimed)]>>)
      BY <1>4, <2>8 DEF WatcherCallFails
    <3>2. [op |-> "create", id |-> Least(claimed)] \in Ops
      BY <2>2, <3>1 DEF Ops
    <3> QED
      BY <1>1, <3>1, <3>2
  <2> QED
    BY <1>4, <2>3, <2>4, <2>5, <2>6, <2>7, <2>8 DEF WatcherCallFails
<1>5. CASE Drain
  BY <1>5 DEF Drain, LateAnswered
<1>6. CASE late' \in {late, <<>>}
  BY <1>6 DEF LateAnswered
<1> QED
  BY <1>3, <1>4, <1>5, <1>6
  DEF Next, Watch, ReconcileList, ReconcileFail, ReconcileEnds, Expire, List, Probe, ClaimSkip,
      Claim, ClaimEnds, SpawnScan, CreateAttempt, RefuseRequest, Settle, TickEnds, Wake, Rest,
      Launch, Insert, RowAges, ScanEnds, Panic, Crash, vars

\* Every step keeps AnswerInv.
LEMMA NextAnswerInv ==
  ASSUME IInv, IInv', AnswerInv, [Next]_vars
  PROVE  AnswerInv'
<1>1. \A r \in done' : starts'[r] = 1
  BY CompletedWasBegun
<1>2. wpc' = "failing" => \A r \in todo' : status'[r] \notin Unclaimed
  BY OrphansWereClaimed
<1>3. ASSUME NEW i \in 1 .. Len(late'), late'[i].op \in {"fulfil", "fail"}
      PROVE  status'[late'[i].id] \notin Unclaimed
  <2>1. late \in Seq(Ops) /\ TypeOK
    BY DEF IInv, TypeOK
  <2>2. \A r \in Ids : status[r] \notin Unclaimed => status'[r] \notin Unclaimed
    BY <2>1, ClaimedStays
  <2>3. \A o \in Ops : o.op \in {"fulfil", "fail"} => o.id \in Ids
    BY DEF Ops
  <2>4. \A o \in Ops : o.op \in {"fulfil", "fail"} /\ status[o.id] \notin Unclaimed
                       => status'[o.id] \notin Unclaimed
    BY <2>2, <2>3
  <2>5. ASSUME NEW j \in 1 .. Len(late), late'[i] = late[j]
        PROVE  status'[late'[i].id] \notin Unclaimed
    BY <1>3, <2>1, <2>4, <2>5 DEF AnswerInv
  <2>6. CASE late' = late
    BY <2>5, <2>6
  <2>7. CASE late # <<>> /\ late' = Tail(late)
    <3>1. i + 1 \in 1 .. Len(late) /\ late'[i] = late[i + 1]
      BY <2>1, <2>7
    <3> QED
      BY <2>5, <3>1
  <2>8. CASE \E o \in Ops : /\ late' = late \o <<o>>
                            /\ o.op \in {"fulfil", "fail"} => status[o.id] \notin Unclaimed
    <3>1. PICK o \in Ops : /\ late' = late \o <<o>>
                           /\ o.op \in {"fulfil", "fail"} => status[o.id] \notin Unclaimed
      BY <2>8
    <3>2. CASE i \in 1 .. Len(late) /\ late'[i] = late[i]
      BY <2>5, <3>2
    <3>3. CASE late'[i] = o
      BY <1>3, <2>4, <3>1, <3>3
    <3>4. Appended(o)
      BY <3>1 DEF Appended
    <3> QED
      BY <2>1, <3>2, <3>3, <3>4, Queued
  <2>9. late' # <<>>
    BY <1>3
  <2> QED
    BY <2>6, <2>7, <2>8, <2>9, LateAnswers DEF LateAnswered
<1> QED
  BY <1>1, <1>2, <1>3 DEF AnswerInv

\* A step of the book, or one that changes nothing in it.
BookStep == [Book!Next]_<<status, starts, done>>

\* A statement that answers a request which was claimed fails it, fulfils it if its
\* work was begun, or changes nothing.
LEMMA AnswerBook ==
  ASSUME TypeOK, NEW r \in Ids, status[r] \notin Unclaimed, UNCHANGED starts,
         \/ status' = DbFail(r) /\ UNCHANGED done
         \/ status' = DbFulfil(r) /\ starts[r] = 1 /\ done' = done \cup {r}
  PROVE  BookStep
<1>1. CASE ~Live(r)
  <2>1. status' = status
    BY <1>1 DEF DbFail, DbFulfil, DbSettle
  <2>2. Book!Complete(r) \/ UNCHANGED <<status, starts, done>>
    BY <2>1 DEF Book!Complete
  <2> QED
    BY <2>2 DEF BookStep, Book!Next
<1>2. CASE Live(r)
  <2>1. status[r] = "running"
    BY <1>2 DEF Live, Unclaimed
  <2>2. Book!Fail(r) \/ Book!Fulfil(r)
    BY <1>2, <2>1 DEF DbFail, DbFulfil, DbSettle, Book!Fail, Book!Fulfil, Book!Move
  <2> QED
    BY <2>2 DEF BookStep, Book!Next
<1> QED
  BY <1>1, <1>2

\* A claim takes a request up that is waiting, or changes nothing.
LEMMA ClaimBook ==
  ASSUME NEW r \in Ids, status' = DbClaim(r), UNCHANGED <<starts, done>>
  PROVE  BookStep
<1>1. Book!Take(r) \/ UNCHANGED <<status, starts, done>>
  BY DEF DbClaim, Book!Take, Book!Move
<1> QED
  BY <1>1 DEF BookStep, Book!Next

\* Expiry settles the rows that are stale and unsettled.
LEMMA ExpireBook ==
  ASSUME TypeOK, status' = DbExpire, UNCHANGED <<starts, done>>
  PROVE  BookStep
<1> DEFINE S == {r \in Ids : r \in stale /\ Live(r)}
<1>1. Book!Expire(S)
  BY DEF DbExpire, Live, Book!Expire
<1>2. S \in SUBSET Ids
  OBVIOUS
<1> QED
  BY <1>1, <1>2 DEF BookStep, Book!Next

\* Work is begun once, for a request that was claimed.
LEMMA BeginBook ==
  ASSUME NEW r \in Ids, status[r] \notin Unclaimed, starts[r] = 0, UNCHANGED status,
         starts' = [starts EXCEPT ![r] = @ + 1], done' \in {done, done \cup {r}}
  PROVE  BookStep
<1>1. \E completed \in SUBSET {r} : done' = done \cup completed
  <2>1. CASE done' = done \cup {}
    BY <2>1
  <2>2. CASE done' = done \cup {r}
    BY <2>2
  <2> QED
    BY <2>1, <2>2
<1>2. PICK completed \in SUBSET {r} : done' = done \cup completed
  BY <1>1
<1>3. starts' = [starts EXCEPT ![r] = 1]
  OBVIOUS
<1>4. Book!Begin(r, completed)
  BY <1>2, <1>3 DEF Book!Begin, Unclaimed
<1> QED
  BY <1>2, <1>4 DEF BookStep, Book!Next

\* An operation nobody waits for is a step of the book.
LEMMA DrainBook ==
  ASSUME IInv, AnswerInv, Drain
  PROVE  BookStep
<1> DEFINE o == Head(late)
<1>1. TypeOK /\ late \in Seq(Ops) /\ late # <<>>
  BY DEF IInv, TypeOK, Drain
<1>2. o \in Ops /\ 1 \in 1 .. Len(late) /\ o = late[1]
  BY <1>1
<1>3. /\ status' = CASE o.op = "claim" -> DbClaim(o.id)
                     [] o.op = "fulfil" -> DbFulfil(o.id)
                     [] o.op = "fail" -> DbFail(o.id)
                     [] o.op = "expire" -> DbExpire
                     [] o.op = "create" -> status
      /\ IF o.op = "create"
           THEN starts' = [starts EXCEPT ![o.id] = @ + 1] /\ done' = done \cup {o.id}
           ELSE UNCHANGED <<starts, done>>
  BY DEF Drain
<1>4. /\ o.op \in {"claim", "fulfil", "fail", "create", "expire"}
      /\ o.op # "expire" => o.id \in Ids
  BY <1>2 DEF Ops
<1>5. o.op \in {"fulfil", "fail"} => status[o.id] \notin Unclaimed
  BY <1>2 DEF AnswerInv
<1>6. o.op = "fulfil" => o.id \in done /\ starts[o.id] = 1
  BY <1>2 DEF IInv, DoneInv, AnswerInv
<1>7. o.op = "create" => starts[o.id] = 0 /\ status[o.id] \notin Unclaimed
  BY <1>2 DEF IInv, CreateInv, Creates
<1> HIDE DEF o
<1>8. CASE o.op = "claim"
  <2>1. status' = DbClaim(o.id) /\ UNCHANGED <<starts, done>>
    BY <1>3, <1>8
  <2> QED
    BY <1>4, <1>8, <2>1, ClaimBook
<1>9. CASE o.op = "fulfil"
  <2>1. status' = DbFulfil(o.id) /\ UNCHANGED starts /\ done' = done \cup {o.id}
    BY <1>3, <1>6, <1>9
  <2> QED
    BY <1>1, <1>4, <1>5, <1>6, <1>9, <2>1, AnswerBook
<1>10. CASE o.op = "fail"
  <2>1. status' = DbFail(o.id) /\ UNCHANGED <<starts, done>>
    BY <1>3, <1>10
  <2> QED
    BY <1>1, <1>4, <1>5, <1>10, <2>1, AnswerBook
<1>11. CASE o.op = "expire"
  <2>1. status' = DbExpire /\ UNCHANGED <<starts, done>>
    BY <1>3, <1>11
  <2> QED
    BY <1>1, <2>1, ExpireBook
<1>12. CASE o.op = "create"
  <2>1. /\ UNCHANGED status /\ starts' = [starts EXCEPT ![o.id] = @ + 1]
        /\ done' = done \cup {o.id}
    BY <1>3, <1>12
  <2> QED
    BY <1>4, <1>7, <1>12, <2>1, BeginBook
<1> QED
  BY <1>4, <1>8, <1>9, <1>10, <1>11, <1>12

\* A scan that ends, and settles its row or fails to.
LEMMA ScanBook ==
  ASSUME IInv, NEW r \in Ids, NEW how \in {"fulfil", "fail"},
         ScanEnds(r, how) \/ ScanSettleFails(r, how)
  PROVE  BookStep
<1>1. TypeOK /\ starts[r] = 1 /\ status[r] \notin Unclaimed /\ UNCHANGED starts
  BY DEF IInv, StartInv, ScanEnds, ScanSettleFails
<1>2. CASE ScanEnds(r, how)
  <2>1. \/ status' = DbFail(r) /\ UNCHANGED done
        \/ status' = DbFulfil(r) /\ done' = done \cup {r}
    BY <1>2 DEF ScanEnds
  <2> QED
    BY <1>1, <2>1, AnswerBook
<1>3. CASE ScanSettleFails(r, how)
  <2>1. UNCHANGED status /\ done' \in {done, done \cup {r}}
    BY <1>3 DEF ScanSettleFails, Fault
  <2>2. Book!Complete(r) \/ UNCHANGED <<status, starts, done>>
    BY <1>1, <2>1 DEF Book!Complete
  <2> QED
    BY <2>2 DEF BookStep, Book!Next
<1> QED
  BY <1>2, <1>3

\* Every step is a step of the book, or none of its business.
LEMMA NextBook ==
  ASSUME IInv, AnswerInv, [Next]_vars
  PROVE  BookStep
<1>0. TypeOK
  BY DEF IInv
<1>1. CASE ReconcileFail
  <2>1. Least(todo) \in todo /\ Least(todo) \in Ids
    BY <1>0, <1>1, LeastIn DEF ReconcileFail, TypeOK
  <2>2. status[Least(todo)] \notin Unclaimed
    BY <1>1, <2>1 DEF ReconcileFail, InTurn, AnswerInv
  <2>3. status' = DbFail(Least(todo)) /\ UNCHANGED <<starts, done>>
    BY <1>1 DEF ReconcileFail, Rest, work
  <2> QED
    BY <1>0, <2>1, <2>2, <2>3, AnswerBook
<1>2. CASE Expire
  BY <1>0, <1>2, ExpireBook DEF Expire, Rest, work
<1>3. CASE Claim
  <2>1. Least(todo) \in Ids /\ status' = DbClaim(Least(todo)) /\ UNCHANGED <<starts, done>>
    BY <1>0, <1>3, LeastIn DEF Claim, Rest, work, TypeOK
  <2> QED
    BY <2>1, ClaimBook
<1>4. CASE SpawnScan \/ CreateAttempt
  <2> DEFINE r == Least(claimed)
  <2>1. r \in claimed /\ r \in Ids /\ wpc = "fulfil"
    BY <1>0, <1>4, LeastIn DEF SpawnScan, CreateAttempt, InTurn, TypeOK
  <2>2. /\ UNCHANGED status /\ starts' = [starts EXCEPT ![r] = @ + 1]
        /\ done' \in {done, done \cup {r}}
    BY <1>4 DEF SpawnScan, CreateAttempt
  <2> HIDE DEF r
  <2>3. starts[r] = 0 /\ status[r] \notin Unclaimed
    BY <2>1 DEF IInv, StartInv, InHand
  <2> QED
    BY <2>1, <2>2, <2>3, BeginBook
<1>5. CASE Settle
  <2> DEFINE r == Least(claimed)
  <2>1. r \in claimed /\ r \in Ids /\ wpc = "settle"
    BY <1>0, <1>5, LeastIn DEF Settle, InTurn, TypeOK, IInv, DoneInv
  <2>2. outcome = "fulfil" => r \in done
    BY <2>1 DEF IInv, DoneInv
  <2>3. UNCHANGED <<starts, done>> /\ (\/ status' = DbFail(r)
                                       \/ status' = DbFulfil(r) /\ outcome = "fulfil")
    BY <1>5 DEF Settle, Rest, work
  <2> HIDE DEF r
  <2>4. status[r] \notin Unclaimed
    BY <2>1 DEF IInv, StartInv
  <2>5. r \in done => starts[r] = 1 /\ done' = done \cup {r}
    BY <2>3 DEF AnswerInv
  <2> QED
    BY <1>0, <2>1, <2>2, <2>3, <2>4, <2>5, AnswerBook
<1>6. CASE \E r \in Ids, how \in {"fulfil", "fail"} : ScanEnds(r, how) \/ ScanSettleFails(r, how)
  BY <1>6, ScanBook
<1>7. CASE Drain
  BY <1>7, DrainBook
<1>8. CASE \E r \in Ids : Insert(r)
  <2>1. PICK r \in Ids : Insert(r)
    BY <1>8
  <2>2. Book!Ask(r)
    BY <2>1 DEF Insert, work, Book!Ask, Book!Move
  <2> QED
    BY <2>2 DEF BookStep, Book!Next
<1>9. CASE UNCHANGED <<status, starts, done>>
  BY <1>9 DEF BookStep
<1> QED
  BY <1>1, <1>2, <1>3, <1>4, <1>5, <1>6, <1>7, <1>8, <1>9
  DEF Next, Watch, ReconcileList, ReconcileEnds, List, Probe, ClaimSkip, ClaimEnds,
      RefuseRequest, TickEnds, Wake, Rest, Launch, RowAges, WatcherCallFails, Fault, Panic,
      Crash, work, vars

\* Whatever fails, is late, panics or dies, the queue is RequestBook: a request
\* is taken up once, begun at most once and fulfilled only after its work was
\* done, and no request fails that was not taken up.
THEOREM BookImplemented == Spec => BookKept
<1>1. Init => Book!Init /\ AnswerInv
  BY DEF Init, Book!Init, AnswerInv
<1>2. IInv /\ IInv' /\ AnswerInv /\ [Next]_vars => AnswerInv'
  BY NextAnswerInv
<1>3. IInv /\ AnswerInv /\ [Next]_vars => [Book!Next]_<<status, starts, done>>
  BY NextBook DEF BookStep
<1> QED
  BY <1>1, <1>2, <1>3, Invariance, PTL DEF Spec, BookKept, Book!Spec
=============================================================================
