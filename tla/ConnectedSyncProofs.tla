------------------------ MODULE ConnectedSyncProofs ------------------------
(***************************************************************************)
(* What ConnectedSync promises, proved for any number of groups, syncs in  *)
(* flight, decisions, changes made elsewhere and unlinks.                  *)
(***************************************************************************)
EXTENDS ConnectedSync, TLAPS

\* A mutation that may still reach the service: its row waits, a sync is about
\* to send it, or it is on the wire.
InFlight(m) ==
  \/ outbox[m.group].key = m.key /\ outbox[m.group].based_on = m.based_on
  \/ m \in late
  \/ \E s \in Syncs : m \in sync[s].todo

\* A row owes the last decision recorded.
OutboxInv ==
  \A g \in Groups : outbox[g] # NoRow => outbox[g].key # 0 /\ outbox[g].key = owed[g]

\* What a mutation was based on is what the user had been shown, and the service
\* has moved past it if it ever applied a newer one.
MutationInv ==
  \A m \in Mutations : InFlight(m) =>
    /\ m.key <= count /\ m.based_on = basis[m.key]
    /\ m.based_on <= revision[m.group]
    /\ applied[m.group] > m.key => m.based_on < revision[m.group]
    /\ receipts[m.key] <= revision[m.group]
    /\ \A n \in Mutations : InFlight(n) /\ n.key = m.key => n.group = m.group

\* Revisions known, pulled or answered are the service's, or older.
RevisionInv ==
  /\ \A g \in Groups : known[g] <= revision[g] /\ foreign[g] <= revision[g]
  /\ \A s \in Syncs, g \in Groups : sync[s].pulled[g] <= revision[g]
  /\ \A s \in Syncs : \A a \in sync[s].answer : a.revision <= revision[a.group]

\* A key with a receipt arrived, and the mutation applied last has one.
ReceiptInv ==
  /\ \A k \in Keys : receipts[k] # 0 => k \in arrived /\ k <= count
  /\ \A s \in Syncs : sync[s].pc = "settle" => \A a \in sync[s].answer : a.key \in arrived
  /\ \A g \in Groups : applied[g] # 0 =>
       /\ applied[g] <= count
       /\ receipts[applied[g]] # 0 /\ receipts[applied[g]] <= revision[g]

\* Before the bootstrap the service knows nothing, and nothing is on its way.
PhaseInv ==
  /\ phase = "pending_bootstrap" =>
       /\ bound # "booted" /\ revision = Nothing /\ applied = Nothing
       /\ \A m \in Mutations : ~InFlight(m)
       /\ \A s \in Syncs : sync[s].phase = "pending_bootstrap" /\ sync[s].pc # "mark"
  /\ \A s \in Syncs : sync[s].pc = "recover" => sync[s].phase = "connected"

IInv ==
  /\ TypeOK /\ OutboxInv /\ MutationInv /\ RevisionInv /\ ReceiptInv /\ PhaseInv
  /\ NoDecisionLost /\ GuardedByWhatWasSeen

-----------------------------------------------------------------------------

\* What IInv says of one sync.
Fits(r) ==
  /\ r \in SyncRecords
  /\ \A m \in r.todo : InFlight(m)
  /\ \A g \in Groups : r.pulled[g] <= revision[g]
  /\ \A a \in r.answer : a.revision <= revision[a.group]
                         /\ (r.pc = "settle" => a.key \in arrived)
  /\ phase = "pending_bootstrap" => r.phase = "pending_bootstrap" /\ r.pc # "mark"
  /\ r.pc = "recover" => r.phase = "connected"

\* Every sync fits, by IInv.
LEMMA SyncsFit ==
  ASSUME IInv, NEW s \in Syncs
  PROVE  Fits(sync[s])
<1>1. sync[s] \in SyncRecords
  BY DEF IInv, TypeOK
<1>2. \A m \in sync[s].todo : InFlight(m)
  BY DEF InFlight
<1> QED
  BY <1>1, <1>2 DEF IInv, Fits, RevisionInv, ReceiptInv, PhaseInv

\* A step that leaves the service and the decisions alone, and puts nothing new
\* on the way to the service.
LEMMA QuietStep ==
  ASSUME IInv, UNCHANGED <<decisions, service>>,
         bound' \in {"no", "linked", "booted"}, watermark' \in BOOLEAN,
         known' \in [Groups -> Nat], outbox' \in [Groups -> Rows],
         owed' \in [Groups -> {0} \cup Keys], carried' \in [Groups -> {0} \cup Keys],
         unlinks' \in Nat,
         \A g \in Groups : known'[g] <= revision[g],
         \A g \in Groups : \/ outbox'[g] = NoRow
                           \/ /\ outbox[g] # NoRow /\ outbox'[g].key = outbox[g].key
                              /\ outbox'[g].based_on = outbox[g].based_on
                              /\ owed'[g] = owed[g],
         NoDecisionLost',
         phase = "pending_bootstrap" => bound' # "booted",
         late' \subseteq Mutations, \A m \in late' : InFlight(m),
         sync' \in [Syncs -> SyncRecords], \A t \in Syncs : Fits(sync'[t])
  PROVE  IInv'
<1>1. TypeOK'
  BY DEF IInv, TypeOK, decisions, service, groupState
<1>2. OutboxInv'
  BY DEF IInv, OutboxInv
<1>3. \A m \in Mutations : InFlight(m)' => InFlight(m)
  <2> SUFFICES ASSUME NEW m \in Mutations, InFlight(m)' PROVE InFlight(m)
    OBVIOUS
  <2>1. m.key \in Keys /\ m.group \in Groups /\ m.key # 0
    BY DEF Mutations, Keys
  <2>2. CASE outbox'[m.group].key = m.key /\ outbox'[m.group].based_on = m.based_on
    BY <2>1, <2>2 DEF InFlight, NoRow
  <2>3. CASE m \in late'
    BY <2>3
  <2>4. CASE \E s \in Syncs : m \in sync'[s].todo
    BY <2>4 DEF Fits
  <2> QED
    BY <2>2, <2>3, <2>4 DEF InFlight
<1>4. MutationInv'
  BY <1>3 DEF IInv, MutationInv, decisions, service, groupState
<1>5. RevisionInv'
  BY DEF IInv, RevisionInv, Fits, service, groupState
<1>6. ReceiptInv'
  BY DEF IInv, ReceiptInv, Fits, service, groupState, decisions
<1>7. PhaseInv'
  BY <1>3 DEF IInv, PhaseInv, Fits, service, groupState
<1>8. GuardedByWhatWasSeen'
  BY DEF IInv, GuardedByWhatWasSeen, service, groupState, decisions
<1> QED
  BY <1>1, <1>2, <1>4, <1>5, <1>6, <1>7, <1>8 DEF IInv

\* One sync goes on, and the others stand still.
LEMMA OneSync ==
  ASSUME IInv, NEW s \in Syncs, NEW r, Fits(r), sync' = [sync EXCEPT ![s] = r]
  PROVE  sync' \in [Syncs -> SyncRecords] /\ \A t \in Syncs : Fits(sync'[t])
<1>1. sync' \in [Syncs -> SyncRecords]
  BY DEF IInv, TypeOK, Fits
<1>2. \A t \in Syncs : sync'[t] = IF t = s THEN r ELSE sync[t]
  BY DEF IInv, TypeOK
<1> QED
  BY <1>1, <1>2, SyncsFit

\* The service applies a mutation that was in flight.
LEMMA ApplyStep ==
  ASSUME IInv, NEW m \in Mutations, InFlight(m), Applies(m), Apply(m),
         UNCHANGED <<binding, decisions, phase, changes, foreign, unlinks>>,
         late' \subseteq late, sync' \in [Syncs -> SyncRecords],
         \A t \in Syncs :
           /\ sync'[t].todo \subseteq sync[t].todo /\ sync'[t].pulled = sync[t].pulled
           /\ sync'[t].phase = sync[t].phase
           /\ sync'[t].pc = sync[t].pc \/ sync'[t].pc = "settle"
           /\ \/ sync'[t].answer = sync[t].answer /\ sync'[t].pc = sync[t].pc
              \/ sync'[t].answer =
                   {[group |-> m.group, key |-> m.key, revision |-> revision[m.group] + 1]}
  PROVE  IInv'
<1>1. /\ m.group \in Groups /\ m.key \in Keys /\ m.key # 0 /\ m.based_on \in Nat
      /\ revision \in [Groups -> Nat] /\ receipts \in [Keys -> Nat]
      /\ applied \in [Groups -> {0} \cup Keys] /\ Keys \subseteq Nat /\ count \in Nat
      /\ foreign \in [Groups -> Nat] /\ basis \in [Keys -> Nat]
  BY DEF Mutations, IInv, TypeOK, Keys
<1>2. /\ receipts[m.key] = 0 /\ revision[m.group] = m.based_on
      /\ revision' = [revision EXCEPT ![m.group] = @ + 1]
      /\ receipts' = [receipts EXCEPT ![m.key] = revision[m.group] + 1]
      /\ applied' = [applied EXCEPT ![m.group] = m.key]
      /\ arrived' = arrived \cup {m.key}
  BY DEF Applies, Apply, GuardOf
<1>3. \A n \in Mutations : InFlight(n)' => InFlight(n)
  BY DEF InFlight, binding
<1>4. /\ m.key <= count /\ m.based_on = basis[m.key]
      /\ \A n \in Mutations : InFlight(n) /\ n.key = m.key => n.group = m.group
  BY DEF IInv, MutationInv
<1>5. /\ \A g \in Groups : revision'[g] \in Nat /\ revision[g] <= revision'[g]
      /\ revision'[m.group] = revision[m.group] + 1
  BY <1>1, <1>2
<1>6. TypeOK'
  <2>1. revision' \in [Groups -> Nat] /\ receipts' \in [Keys -> Nat]
        /\ applied' \in [Groups -> {0} \cup Keys] /\ arrived' \subseteq Keys
    <3>1. revision[m.group] + 1 \in Nat
      BY <1>1
    <3>2. revision' \in [Groups -> Nat]
      BY <1>1, <1>2, <3>1
    <3>3. receipts' \in [Keys -> Nat]
      BY <1>1, <1>2, <3>1
    <3>4. applied' \in [Groups -> {0} \cup Keys]
      BY <1>1, <1>2
    <3>5. arrived' \subseteq Keys
      BY <1>1, <1>2 DEF IInv, TypeOK
    <3> QED
      BY <3>2, <3>3, <3>4, <3>5
  <2> QED
    BY <2>1 DEF IInv, TypeOK, binding, decisions
<1>7. OutboxInv' /\ NoDecisionLost'
  BY <1>2 DEF IInv, OutboxInv, NoDecisionLost, binding
<1>8. MutationInv'
  <2> SUFFICES ASSUME NEW n \in Mutations, InFlight(n)
               PROVE  /\ n.key <= count /\ n.based_on = basis[n.key]
                      /\ n.based_on <= revision'[n.group]
                      /\ applied'[n.group] > n.key => n.based_on < revision'[n.group]
                      /\ receipts'[n.key] <= revision'[n.group]
                      /\ \A o \in Mutations : InFlight(o) /\ o.key = n.key => o.group = n.group
    BY <1>3 DEF MutationInv, decisions
  <2>1. /\ n.key <= count /\ n.based_on = basis[n.key]
        /\ n.based_on <= revision[n.group]
        /\ applied[n.group] > n.key => n.based_on < revision[n.group]
        /\ receipts[n.key] <= revision[n.group]
        /\ \A o \in Mutations : InFlight(o) /\ o.key = n.key => o.group = n.group
    BY DEF IInv, MutationInv
  <2>2. n.group \in Groups /\ n.key \in Keys /\ n.based_on \in Nat
    BY DEF Mutations
  <2>3. receipts'[n.key] <= revision'[n.group]
    <3>1. CASE n.key = m.key
      BY <1>1, <1>2, <1>4, <1>5, <3>1
    <3>2. CASE n.key # m.key
      <4>1. receipts'[n.key] = receipts[n.key] /\ receipts[n.key] \in Nat
        BY <1>1, <1>2, <2>2, <3>2
      <4> QED
        BY <1>1, <1>5, <2>1, <2>2, <4>1
    <3> QED
      BY <3>1, <3>2
  <2>4. n.based_on <= revision'[n.group]
    BY <1>1, <1>5, <2>1, <2>2
  <2>5. applied'[n.group] > n.key => n.based_on < revision'[n.group]
    BY <1>1, <1>2, <1>5, <2>1, <2>2
  <2> QED
    BY <2>1, <2>3, <2>4, <2>5
<1>9. RevisionInv'
  <2>1. \A g \in Groups : known'[g] <= revision'[g] /\ foreign'[g] <= revision'[g]
    BY <1>1, <1>5 DEF IInv, RevisionInv, TypeOK, binding
  <2>2. ASSUME NEW t \in Syncs, NEW g \in Groups PROVE sync'[t].pulled[g] <= revision'[g]
    <3>1. sync[t].pulled[g] \in Nat
      BY DEF IInv, TypeOK, SyncRecords
    <3> QED
      BY <1>1, <1>5, <3>1 DEF IInv, RevisionInv
  <2>3. ASSUME NEW t \in Syncs, NEW a \in sync'[t].answer PROVE a.revision <= revision'[a.group]
    <3>1. CASE a \in sync[t].answer
      <4>1. a.group \in Groups /\ a.revision \in Nat
        BY <3>1 DEF IInv, TypeOK, SyncRecords, Answers
      <4> QED
        BY <1>1, <1>5, <3>1, <4>1 DEF IInv, RevisionInv
    <3>2. CASE a = [group |-> m.group, key |-> m.key, revision |-> revision[m.group] + 1]
      BY <1>1, <1>5, <3>2
    <3> QED
      BY <3>1, <3>2
  <2> QED
    BY <2>1, <2>2, <2>3 DEF RevisionInv
<1>10. ReceiptInv'
  <2>1. \A k \in Keys : receipts'[k] # 0 => k \in arrived' /\ k <= count'
    BY <1>1, <1>2, <1>4 DEF IInv, ReceiptInv, decisions
  <2>2. ASSUME NEW t \in Syncs, sync'[t].pc = "settle", NEW a \in sync'[t].answer
        PROVE  a.key \in arrived'
    BY <1>2, <2>2 DEF IInv, ReceiptInv
  <2>3. ASSUME NEW g \in Groups, applied'[g] # 0
        PROVE  /\ applied'[g] <= count'
               /\ receipts'[applied'[g]] # 0 /\ receipts'[applied'[g]] <= revision'[g]
    <3>1. CASE g = m.group
      BY <1>1, <1>2, <1>4, <1>5, <3>1 DEF decisions
    <3>2. CASE g # m.group
      <4>1. applied'[g] = applied[g] /\ applied[g] \in Keys /\ applied[g] # m.key
        BY <1>1, <1>2, <2>3, <3>2 DEF IInv, ReceiptInv
      <4>2. receipts'[applied[g]] = receipts[applied[g]]
        BY <1>1, <1>2, <4>1
      <4> QED
        BY <1>1, <1>2, <2>3, <3>2, <4>1, <4>2 DEF IInv, ReceiptInv, decisions
    <3> QED
      BY <3>1, <3>2
  <2> QED
    BY <2>1, <2>2, <2>3 DEF ReceiptInv
<1>11. PhaseInv'
  <2>1. phase # "pending_bootstrap"
    BY DEF IInv, PhaseInv
  <2> QED
    BY <2>1 DEF IInv, PhaseInv
<1>12. GuardedByWhatWasSeen'
  <2> SUFFICES ASSUME NEW g \in Groups, applied'[g] # 0, foreign[g] > basis[applied'[g]]
               PROVE  foreign[g] > receipts'[applied'[g]]
    BY DEF GuardedByWhatWasSeen, decisions
  <2>1. g # m.group
    <3>1. foreign[m.group] <= basis[m.key]
      BY <1>1, <1>2, <1>4 DEF IInv, RevisionInv
    <3>2. foreign[m.group] \in Nat /\ basis[m.key] \in Nat /\ applied'[m.group] = m.key
      BY <1>1, <1>2
    <3> QED
      BY <3>1, <3>2
  <2>2. applied'[g] = applied[g] /\ applied[g] \in Keys /\ applied[g] # m.key
    BY <1>1, <1>2, <2>1 DEF IInv, ReceiptInv
  <2>3. receipts'[applied[g]] = receipts[applied[g]]
    BY <1>1, <1>2, <2>2
  <2> QED
    BY <2>2, <2>3 DEF IInv, GuardedByWhatWasSeen
<1> QED
  BY <1>6, <1>7, <1>8, <1>9, <1>10, <1>11, <1>12 DEF IInv

\* The initial states satisfy IInv.
LEMMA InitIInv == Init => IInv
<1> SUFFICES ASSUME Init PROVE IInv
  OBVIOUS
<1>1. Nothing \in [Groups -> Nat] /\ Nothing \in [Groups -> {0} \cup Keys]
      /\ NoRow \in Rows /\ \A g \in Groups : Nothing[g] = 0
  BY DEF Nothing, NoRow, Rows
<1>2. Idle \in SyncRecords
  BY <1>1 DEF Idle, SyncRecords, Steps, Phases
<1>3. Idle.pc = "idle" /\ Idle.todo = {} /\ Idle.answer = {} /\ Idle.pulled = Nothing
      /\ Idle.phase = "pending_bootstrap"
  BY DEF Idle
<1>4. TypeOK
  BY <1>1, <1>2 DEF Init, TypeOK, Phases
<1>5. \A m \in Mutations : ~InFlight(m)
  BY <1>3 DEF Init, InFlight, NoRow, Mutations, Keys
<1>6. OutboxInv /\ NoDecisionLost /\ GuardedByWhatWasSeen /\ MutationInv
  BY <1>1, <1>5 DEF Init, OutboxInv, NoDecisionLost, GuardedByWhatWasSeen, MutationInv
<1>7. RevisionInv /\ ReceiptInv
  BY <1>1, <1>3 DEF Init, RevisionInv, ReceiptInv
<1>8. PhaseInv
  BY <1>3, <1>5 DEF Init, PhaseInv
<1> QED
  BY <1>4, <1>6, <1>7, <1>8 DEF IInv

\* The fields of a sync, and of what it sends and is answered.
LEMMA SyncFields ==
  ASSUME IInv, NEW s \in Syncs
  PROVE  /\ sync[s] \in SyncRecords
         /\ sync[s].pulled \in [Groups -> Nat] /\ sync[s].todo \subseteq Mutations
         /\ sync[s].answer \subseteq Answers
BY DEF IInv, TypeOK, SyncRecords

\* The idle sync fits.
LEMMA IdleFits ==
  ASSUME IInv
  PROVE  Fits(Idle)
<1>1. Nothing \in [Groups -> Nat] /\ Nothing \in [Groups -> {0} \cup Keys]
      /\ \A g \in Groups : Nothing[g] = 0
  BY DEF Nothing
<1>2. Idle \in SyncRecords
  BY <1>1 DEF Idle, SyncRecords, Steps, Phases
<1>3. ASSUME NEW g \in Groups PROVE Idle.pulled[g] <= revision[g]
  <2>1. Idle.pulled = Nothing
    BY DEF Idle
  <2>2. revision[g] \in Nat /\ Idle.pulled[g] = 0
    BY <1>1, <2>1 DEF IInv, TypeOK
  <2> QED
    BY <2>2
<1> QED
  BY <1>2, <1>3 DEF Idle, Fits

\* A sync that goes on while everything else stands still, but for a mutation
\* it may leave on the wire.
LEMMA SyncMoves ==
  ASSUME IInv, NEW s \in Syncs, NEW r, Fits(r), sync' = [sync EXCEPT ![s] = r],
         UNCHANGED <<binding, decisions, service, unlinks>>,
         late' \subseteq late \cup sync[s].todo
  PROVE  IInv'
<1>1. sync' \in [Syncs -> SyncRecords] /\ \A t \in Syncs : Fits(sync'[t])
  BY OneSync
<1>2. late' \subseteq Mutations /\ \A m \in late' : InFlight(m)
  BY SyncFields DEF IInv, TypeOK, InFlight
<1>3. /\ bound' \in {"no", "linked", "booted"} /\ watermark' \in BOOLEAN
      /\ known' \in [Groups -> Nat] /\ outbox' \in [Groups -> Rows]
      /\ owed' \in [Groups -> {0} \cup Keys] /\ carried' \in [Groups -> {0} \cup Keys]
      /\ unlinks' \in Nat
  BY DEF IInv, TypeOK, binding
<1>4. NoDecisionLost'
  BY DEF IInv, NoDecisionLost, binding, service, groupState
<1>5. \A g \in Groups : known'[g] <= revision[g]
  BY DEF IInv, RevisionInv, binding
<1>6. phase = "pending_bootstrap" => bound' # "booted"
  BY DEF IInv, PhaseInv, binding
<1>7. \A g \in Groups : \/ outbox'[g] = NoRow
                        \/ /\ outbox[g] # NoRow /\ outbox'[g].key = outbox[g].key
                           /\ outbox'[g].based_on = outbox[g].based_on
                           /\ owed'[g] = owed[g]
  BY DEF binding
<1> QED
  BY <1>1, <1>2, <1>3, <1>4, <1>5, <1>6, <1>7, QuietStep

\* The steps of a sync that neither write the binding nor change the service.
LEMMA LocalSteps ==
  ASSUME IInv, NEW s \in Syncs,
         \/ StartSync(s) \/ GiveUp(s) \/ PullState(s) \/ PullGroups(s) \/ Build(s)
         \/ List(s) \/ PullAgain(s)
  PROVE  IInv'
<1>0. Fits(sync[s]) /\ sync[s] \in SyncRecords /\ sync \in [Syncs -> SyncRecords] /\ TypeOK
  BY SyncsFit, SyncFields DEF IInv, TypeOK
<1>1. CASE StartSync(s)
  <2> DEFINE r == [Idle EXCEPT !.pc = "state", !.include_groups = (bound = "linked")]
  <2>1. Fits(Idle) /\ Idle \in SyncRecords
    BY IdleFits DEF Fits
  <2>2. r \in SyncRecords
    BY <2>1 DEF SyncRecords, Steps
  <2>3. r.pc = "state" /\ r.phase = Idle.phase /\ r.todo = Idle.todo
        /\ r.answer = Idle.answer /\ r.pulled = Idle.pulled
    BY <2>1 DEF SyncRecords
  <2>4. sync' = [sync EXCEPT ![s] = r]
    BY <1>1 DEF StartSync
  <2> HIDE DEF r
  <2>5. Fits(r)
    BY <2>1, <2>2, <2>3 DEF Fits
  <2> QED
    BY <1>1, <2>4, <2>5, SyncMoves DEF StartSync
<1>2. CASE GiveUp(s)
  <2>1. late' \subseteq late \cup sync[s].todo
    BY <1>2 DEF GiveUp
  <2> QED
    BY <1>2, <2>1, IdleFits, SyncMoves DEF GiveUp, End
<1>3. CASE PullState(s)
  <2> DEFINE r == [sync[s] EXCEPT !.pc = "groups", !.phase = phase]
  <2>1. r \in SyncRecords
    BY <1>0 DEF SyncRecords, Steps, TypeOK
  <2>2. r.pc = "groups" /\ r.phase = phase /\ r.todo = sync[s].todo /\ r.answer = sync[s].answer
        /\ r.pulled = sync[s].pulled
    BY <1>0 DEF SyncRecords
  <2>3. sync' = [sync EXCEPT ![s] = r]
    BY <1>0, <1>3 DEF PullState
  <2> HIDE DEF r
  <2>4. Fits(r)
    BY <1>0, <2>1, <2>2 DEF Fits
  <2> QED
    BY <1>3, <2>3, <2>4, SyncMoves DEF PullState
<1>4. CASE PullGroups(s)
  <2> DEFINE r == [sync[s] EXCEPT !.pc = "record", !.pulled = revision]
  <2>1. r \in SyncRecords
    BY <1>0 DEF SyncRecords, Steps, TypeOK
  <2>2. r.pc = "record" /\ r.pulled = revision /\ r.todo = sync[s].todo
        /\ r.answer = sync[s].answer /\ r.phase = sync[s].phase
    BY <1>0 DEF SyncRecords
  <2>3. sync' = [sync EXCEPT ![s] = r]
    BY <1>0, <1>4 DEF PullGroups
  <2>4. \A g \in Groups : revision[g] <= revision[g]
    BY <1>0 DEF TypeOK
  <2> HIDE DEF r
  <2>5. Fits(r)
    BY <1>0, <2>1, <2>2, <2>4 DEF Fits
  <2> QED
    BY <1>4, <2>3, <2>5, SyncMoves DEF PullGroups
<1>5. CASE Build(s)
  <2> DEFINE p == IF sync[s].include_groups THEN decided ELSE Nothing
             r == [sync[s] EXCEPT !.pc = "send", !.payload = p]
  <2>1. p \in [Groups -> {0} \cup Keys]
    BY <1>0 DEF TypeOK, Nothing
  <2> HIDE DEF p
  <2>2. r \in SyncRecords
    BY <1>0, <2>1 DEF SyncRecords, Steps
  <2>3. r.pc = "send" /\ r.phase = sync[s].phase /\ r.todo = sync[s].todo
        /\ r.answer = sync[s].answer /\ r.pulled = sync[s].pulled
    BY <1>0 DEF SyncRecords
  <2>4. sync' = [sync EXCEPT ![s] = r]
    BY <1>0, <1>5 DEF Build, p
  <2> HIDE DEF r
  <2>5. Fits(r)
    BY <1>0, <2>2, <2>3 DEF Fits
  <2> QED
    BY <1>5, <2>4, <2>5, SyncMoves DEF Build
<1>6. CASE List(s)
  <2> DEFINE r == [sync[s] EXCEPT !.pc = "push", !.todo = Pending]
  <2>1. \A m \in Pending : m \in Mutations /\ InFlight(m)
    <3> SUFFICES ASSUME NEW g \in Groups, outbox[g] # NoRow
                 PROVE  LET m == [group |-> g, key |-> outbox[g].key,
                                  based_on |-> outbox[g].based_on]
                        IN  m \in Mutations /\ InFlight(m)
      BY DEF Pending
    <3>1. outbox[g].key \in Keys /\ outbox[g].based_on \in Nat
      BY <1>0 DEF TypeOK, Rows, IInv, OutboxInv
    <3> QED
      BY <3>1 DEF Mutations, InFlight
  <2>2. Pending \subseteq Mutations
    BY <2>1
  <2>3. r \in SyncRecords
    BY <1>0, <2>2 DEF SyncRecords, Steps
  <2>4. r.pc = "push" /\ r.phase = sync[s].phase /\ r.todo = Pending
        /\ r.answer = sync[s].answer /\ r.pulled = sync[s].pulled
    BY <1>0 DEF SyncRecords
  <2>5. sync' = [sync EXCEPT ![s] = r]
    BY <1>0, <1>6 DEF List
  <2> HIDE DEF r
  <2>6. Fits(r)
    BY <1>0, <2>1, <2>3, <2>4 DEF Fits
  <2> QED
    BY <1>6, <2>5, <2>6, SyncMoves DEF List
<1>7. CASE PullAgain(s)
  <2> DEFINE r == [sync[s] EXCEPT !.pc = "state", !.final = TRUE]
  <2>1. r \in SyncRecords
    BY <1>0 DEF SyncRecords, Steps
  <2>2. r.pc = "state" /\ r.phase = sync[s].phase /\ r.todo = sync[s].todo
        /\ r.answer = sync[s].answer /\ r.pulled = sync[s].pulled
    BY <1>0 DEF SyncRecords
  <2>3. sync' = [sync EXCEPT ![s] = r]
    BY <1>0, <1>7 DEF PullAgain
  <2> HIDE DEF r
  <2>4. Fits(r)
    BY <1>0, <2>1, <2>2 DEF Fits
  <2> QED
    BY <1>7, <2>3, <2>4, SyncMoves DEF PullAgain
<1> QED
  BY <1>1, <1>2, <1>3, <1>4, <1>5, <1>6, <1>7

\* The rest of the binding keeps its types.
LEMMA BindingTypes ==
  ASSUME IInv
  PROVE  /\ bound \in {"no", "linked", "booted"} /\ watermark \in BOOLEAN
         /\ known \in [Groups -> Nat] /\ outbox \in [Groups -> Rows]
         /\ owed \in [Groups -> {0} \cup Keys] /\ carried \in [Groups -> {0} \cup Keys]
         /\ unlinks \in Nat /\ late \subseteq Mutations
         /\ sync \in [Syncs -> SyncRecords] /\ revision \in [Groups -> Nat]
         /\ \A g \in Groups : known[g] <= revision[g]
         /\ \A m \in late : InFlight(m)
         /\ NoDecisionLost
         /\ phase = "pending_bootstrap" => bound # "booted"
BY DEF IInv, TypeOK, RevisionInv, PhaseInv, InFlight

\* A revision raised to a known one stays one the service had.
LEMMA Raised ==
  ASSUME IInv, NEW g \in Groups, NEW r \in Nat, r <= revision[g]
  PROVE  Raise(g, r) \in Nat /\ Raise(g, r) <= revision[g] /\ known[g] <= Raise(g, r)
BY BindingTypes DEF Raise

\* Linking and unlinking.
LEMMA LinkKeeps == ASSUME IInv, Link \/ Unlink PROVE IInv'
<1>1. \A t \in Syncs : Fits(sync'[t])
  BY SyncsFit DEF Link, Unlink
<1>2. CASE Link
  <2>1. NoDecisionLost'
    BY <1>2, BindingTypes DEF Link, NoDecisionLost, service, groupState
  <2> QED
    BY <1>1, <1>2, <2>1, BindingTypes, QuietStep DEF Link
<1>3. CASE Unlink
  <2>1. /\ Nothing \in [Groups -> Nat] /\ Nothing \in [Groups -> {0} \cup Keys]
        /\ [g \in Groups |-> NoRow] \in [Groups -> Rows]
        /\ \A g \in Groups : Nothing[g] = 0 /\ [h \in Groups |-> NoRow][g] = NoRow
    BY DEF Nothing, NoRow, Rows
  <2>2. NoDecisionLost'
    BY <1>3, <2>1 DEF Unlink, NoDecisionLost
  <2>3. \A g \in Groups : known'[g] <= revision[g] /\ outbox'[g] = NoRow
    BY <1>3, <2>1, BindingTypes DEF Unlink
  <2>4. unlinks' \in Nat
    BY <1>3, BindingTypes DEF Unlink
  <2> QED
    BY <1>1, <1>3, <2>1, <2>2, <2>3, <2>4, BindingTypes, QuietStep DEF Unlink
<1> QED
  BY <1>2, <1>3

\* The steps of a sync that write the binding.
LEMMA BindingSteps ==
  ASSUME IInv, NEW s \in Syncs,
         \/ Record(s) \/ Recover(s) \/ Mark(s) \/ Receipt(s)
         \/ \E a \in sync[s].answer : Settle(s, a) \/ Conflict(s, a)
  PROVE  IInv'
<1>0. Fits(sync[s]) /\ sync[s] \in SyncRecords /\ sync \in [Syncs -> SyncRecords]
  BY SyncsFit, SyncFields DEF IInv, TypeOK
<1> DEFINE KeepsRows == \A g \in Groups :
                          \/ outbox'[g] = NoRow
                          \/ /\ outbox[g] # NoRow /\ outbox'[g].key = outbox[g].key
                             /\ outbox'[g].based_on = outbox[g].based_on
                             /\ owed'[g] = owed[g]
\* the sync goes on at pc, or ends
<1>1. ASSUME NEW pc \in Steps \ {"settle", "mark", "recover"},
             sync' = [sync EXCEPT ![s].pc = pc]
      PROVE  sync' \in [Syncs -> SyncRecords] /\ \A t \in Syncs : Fits(sync'[t])
  <2> DEFINE r == [sync[s] EXCEPT !.pc = pc]
  <2>1. r \in SyncRecords
    BY <1>0 DEF SyncRecords
  <2>2. r.pc = pc /\ r.phase = sync[s].phase /\ r.todo = sync[s].todo
        /\ r.answer = sync[s].answer /\ r.pulled = sync[s].pulled
    BY <1>0 DEF SyncRecords
  <2>3. sync' = [sync EXCEPT ![s] = r]
    BY <1>0, <1>1
  <2> HIDE DEF r
  <2>4. Fits(r)
    BY <1>0, <2>1, <2>2 DEF Fits
  <2> QED
    BY <2>3, <2>4, OneSync
<1>2. ASSUME End(s)
      PROVE  sync' \in [Syncs -> SyncRecords] /\ \A t \in Syncs : Fits(sync'[t])
  BY <1>2, IdleFits, OneSync DEF End
<1>3. ASSUME sync[s].phase = "connected", sync' = [sync EXCEPT ![s].pc = "recover"]
      PROVE  sync' \in [Syncs -> SyncRecords] /\ \A t \in Syncs : Fits(sync'[t])
  <2> DEFINE r == [sync[s] EXCEPT !.pc = "recover"]
  <2>1. r \in SyncRecords
    BY <1>0 DEF SyncRecords, Steps
  <2>2. r.pc = "recover" /\ r.phase = sync[s].phase /\ r.todo = sync[s].todo
        /\ r.answer = sync[s].answer /\ r.pulled = sync[s].pulled
    BY <1>0 DEF SyncRecords
  <2>3. sync' = [sync EXCEPT ![s] = r]
    BY <1>0, <1>3
  <2> HIDE DEF r
  <2>4. Fits(r)
    BY <1>0, <1>3, <2>1, <2>2 DEF Fits
  <2> QED
    BY <2>3, <2>4, OneSync
<1>4. ASSUME NEW pc \in {"build", "receipt"},
             sync' = [sync EXCEPT ![s].pc = pc, ![s].include_groups = FALSE]
      PROVE  sync' \in [Syncs -> SyncRecords] /\ \A t \in Syncs : Fits(sync'[t])
  <2> DEFINE r == [sync[s] EXCEPT !.pc = pc, !.include_groups = FALSE]
  <2>1. r \in SyncRecords
    BY <1>0 DEF SyncRecords, Steps
  <2>2. r.pc = pc /\ r.phase = sync[s].phase /\ r.todo = sync[s].todo
        /\ r.answer = sync[s].answer /\ r.pulled = sync[s].pulled
    BY <1>0 DEF SyncRecords
  <2>3. sync' = [sync EXCEPT ![s] = r]
    BY <1>0, <1>4
  <2> HIDE DEF r
  <2>4. Fits(r)
    BY <1>0, <2>1, <2>2 DEF Fits
  <2> QED
    BY <2>3, <2>4, OneSync
<1>5. ASSUME Answered(s)
      PROVE  sync' \in [Syncs -> SyncRecords] /\ \A t \in Syncs : Fits(sync'[t])
  <2> DEFINE r == [sync[s] EXCEPT !.pc = "push", !.answer = {}]
  <2>1. r \in SyncRecords
    BY <1>0 DEF SyncRecords, Steps
  <2>2. r.pc = "push" /\ r.phase = sync[s].phase /\ r.todo = sync[s].todo
        /\ r.answer = {} /\ r.pulled = sync[s].pulled
    BY <1>0 DEF SyncRecords
  <2>3. sync' = [sync EXCEPT ![s] = r]
    BY <1>0, <1>5 DEF Answered
  <2> HIDE DEF r
  <2>4. Fits(r)
    BY <1>0, <2>1, <2>2 DEF Fits
  <2> QED
    BY <2>3, <2>4, OneSync
<1>6. ASSUME UNCHANGED <<outbox, owed, service>> PROVE NoDecisionLost' /\ KeepsRows
  BY <1>6, BindingTypes DEF NoDecisionLost, service, groupState
<1>7. CASE Record(s)
  <2>1. ASSUME AfterPull(s)
        PROVE  sync' \in [Syncs -> SyncRecords] /\ \A t \in Syncs : Fits(sync'[t])
    <3>1. \/ End(s) \/ sync' = [sync EXCEPT ![s].pc = "build"]
          \/ sync' = [sync EXCEPT ![s].pc = "recover"] /\ sync[s].phase = "connected"
      BY <2>1 DEF AfterPull, Goto, Recovers
    <3> QED
      BY <1>1, <1>2, <1>3, <3>1 DEF Steps
  <2>2. sync' \in [Syncs -> SyncRecords] /\ \A t \in Syncs : Fits(sync'[t])
    BY <1>2, <1>7, <2>1 DEF Record
  <2>3. /\ known' \in [Groups -> Nat] /\ watermark' \in BOOLEAN
        /\ \A g \in Groups : known'[g] <= revision[g]
    <3>1. \A g \in Groups : Learned(s)[g] = Raise(g, sync[s].pulled[g])
                            /\ Learned(s)[g] \in Nat /\ Learned(s)[g] <= revision[g]
      BY <1>0, Raised, SyncFields DEF Learned, Fits
    <3>2. Learned(s) \in [Groups -> Nat]
      BY <3>1 DEF Learned
    <3> QED
      BY <1>7, <3>1, <3>2, BindingTypes DEF Record
  <2>4. NoDecisionLost' /\ KeepsRows
    BY <1>6, <1>7 DEF Record
  <2> QED
    BY <1>7, <2>2, <2>3, <2>4, BindingTypes, QuietStep DEF Record
<1>8. CASE Recover(s) \/ Mark(s)
  <2>1. PICK pc \in {"build", "receipt"} : MarkBooted(s, pc)
    BY <1>8 DEF Recover, Mark
  <2>2. phase # "pending_bootstrap"
    BY <1>0, <1>8 DEF Recover, Mark, At, Fits
  <2>3. sync' \in [Syncs -> SyncRecords] /\ \A t \in Syncs : Fits(sync'[t])
    BY <1>2, <1>4, <2>1 DEF MarkBooted
  <2>4. NoDecisionLost' /\ KeepsRows
    BY <1>6, <2>1 DEF MarkBooted
  <2> QED
    BY <2>1, <2>2, <2>3, <2>4, BindingTypes, QuietStep DEF MarkBooted
<1>9. CASE Receipt(s)
  <2>1. sync' \in [Syncs -> SyncRecords] /\ \A t \in Syncs : Fits(sync'[t])
    BY <1>1, <1>9 DEF Receipt, Goto, Steps
  <2>2. NoDecisionLost' /\ KeepsRows
    BY <1>6, <1>9 DEF Receipt
  <2> QED
    BY <1>9, <2>1, <2>2, BindingTypes, QuietStep DEF Receipt
<1>10. CASE \E a \in sync[s].answer : Settle(s, a) \/ Conflict(s, a)
  <2>1. PICK a \in sync[s].answer : Settle(s, a) \/ Conflict(s, a)
    BY <1>10
  <2>2. /\ a.group \in Groups /\ a.key \in Keys /\ a.key # 0 /\ a.revision \in Nat
        /\ a.revision <= revision[a.group]
    BY <1>0, SyncFields DEF Fits, Answers, Keys
  <2>3. sync' \in [Syncs -> SyncRecords] /\ \A t \in Syncs : Fits(sync'[t])
    BY <1>5, <2>1 DEF Settle, Conflict
  <2>4. UNCHANGED <<bound, watermark, owed, carried, decisions, late, service, unlinks>>
    BY <2>1 DEF Settle, Conflict
  <2>5. \/ UNCHANGED <<known, outbox>>
        \/ known' = [known EXCEPT ![a.group] = Raise(a.group, a.revision)]
    BY <2>1 DEF Settle, Conflict
  <2>6. Raise(a.group, a.revision) \in Nat /\ Raise(a.group, a.revision) <= revision[a.group]
    BY <2>2, Raised
  <2>7. known' \in [Groups -> Nat] /\ \A g \in Groups : known'[g] <= revision[g]
    BY <2>2, <2>5, <2>6, BindingTypes
  <2>8. outbox' \in [Groups -> Rows] /\ KeepsRows /\ NoDecisionLost'
    <3>1. CASE ~Matches(a)
      <4>1. UNCHANGED outbox
        BY <2>1, <3>1 DEF Settle, Conflict
      <4> QED
        BY <1>6, <2>4, <4>1, BindingTypes
    <3>2. CASE Matches(a) /\ Settle(s, a)
      <4>1. outbox' = [outbox EXCEPT ![a.group] = NoRow] /\ sync[s].pc = "settle"
        BY <3>2 DEF Settle, At
      <4>2. a.key \in arrived /\ outbox[a.group].key = a.key
        BY <1>0, <3>2, <4>1 DEF Fits, Matches
      <4>3. outbox[a.group] # NoRow /\ owed[a.group] = a.key
        BY <2>2, <4>2 DEF IInv, OutboxInv, NoRow
      <4>4. NoRow \in Rows
        BY DEF NoRow, Rows
      <4>5. \A g \in Groups : outbox'[g] = IF g = a.group THEN NoRow ELSE outbox[g]
        BY <2>2, <4>1, BindingTypes
      <4>6. outbox' \in [Groups -> Rows] /\ KeepsRows
        BY <2>4, <4>1, <4>4, <4>5, BindingTypes
      <4>7. NoDecisionLost'
        BY <2>4, <4>2, <4>3, <4>5, BindingTypes DEF NoDecisionLost, service, groupState
      <4> QED
        BY <4>6, <4>7
    <3>3. CASE Matches(a) /\ Conflict(s, a)
      <4> DEFINE row == [outbox[a.group] EXCEPT !.conflict = TRUE]
      <4>1. outbox' = [outbox EXCEPT ![a.group] = row]
        BY <2>2, <3>3, BindingTypes DEF Conflict
      <4>2. outbox[a.group] \in Rows /\ outbox[a.group].key = a.key
        BY <2>2, <3>3, BindingTypes DEF Matches
      <4>3. row \in Rows /\ row.key = outbox[a.group].key /\ row.based_on = outbox[a.group].based_on
        BY <4>2 DEF Rows
      <4>4. outbox[a.group] # NoRow
        BY <2>2, <4>2 DEF NoRow
      <4> HIDE DEF row
      <4>5. \A g \in Groups : outbox'[g] = IF g = a.group THEN row ELSE outbox[g]
        BY <2>2, <4>1, BindingTypes
      <4>6. outbox' \in [Groups -> Rows] /\ KeepsRows
        BY <2>4, <4>1, <4>3, <4>4, <4>5, BindingTypes
      <4>7. NoDecisionLost'
        BY <2>4, <4>3, <4>5, BindingTypes DEF NoDecisionLost, service, groupState
      <4> QED
        BY <4>6, <4>7
    <3> QED
      BY <2>1, <3>1, <3>2, <3>3
  <2> QED
    BY <2>3, <2>4, <2>7, <2>8, BindingTypes, QuietStep
<1> QED
  BY <1>7, <1>8, <1>9, <1>10

\* A sync sends its payload, and the service may take it as the bootstrap.
LEMMA SendKeeps == ASSUME IInv, NEW s \in Syncs, Send(s) PROVE IInv'
<1>0. Fits(sync[s]) /\ sync[s] \in SyncRecords /\ sync \in [Syncs -> SyncRecords] /\ TypeOK
  BY SyncsFit, SyncFields DEF IInv, TypeOK
<1>1. CASE /\ sync[s].include_groups /\ phase = "pending_bootstrap" /\ phase' = "connected"
           /\ revision' = [g \in Groups |-> 1]
           /\ arrived' = arrived \cup ({sync[s].payload[g] : g \in Groups} \ {0})
           /\ Goto(s, "mark")
  <2> DEFINE r == [sync[s] EXCEPT !.pc = "mark"]
  <2>1. r \in SyncRecords
    BY <1>0 DEF SyncRecords, Steps
  <2>2. r.pc = "mark" /\ r.phase = sync[s].phase /\ r.todo = sync[s].todo
        /\ r.answer = sync[s].answer /\ r.pulled = sync[s].pulled
    BY <1>0 DEF SyncRecords
  <2>3. sync' = [sync EXCEPT ![s] = r]
    BY <1>0, <1>1 DEF Goto
  <2> HIDE DEF r
  <2>4. \A t \in Syncs : sync'[t] = IF t = s THEN r ELSE sync[t]
    BY <1>0, <2>3
  <2>5. sync' \in [Syncs -> SyncRecords]
    BY <1>0, <2>1, <2>3
  <2>6. /\ UNCHANGED <<binding, decisions, late, receipts, applied, changes, foreign, unlinks>>
        /\ At(s, "send")
    BY DEF Send
  <2>7. \A t \in Syncs : /\ sync'[t].todo = sync[t].todo /\ sync'[t].pulled = sync[t].pulled
                         /\ sync'[t].answer = sync[t].answer
                         /\ sync'[t].pc \in {"settle", "recover"} => sync'[t].pc = sync[t].pc
                         /\ sync'[t].phase = sync[t].phase
    BY <2>2, <2>4
  <2>8. /\ \A m \in Mutations : ~InFlight(m)
        /\ \A g \in Groups : revision[g] = 0 /\ applied[g] = 0
    BY <1>1 DEF IInv, PhaseInv, Nothing
  <2>9. \A m \in Mutations : ~InFlight(m)'
    BY <2>6, <2>7, <2>8 DEF InFlight, binding
  <2>10. TypeOK'
    <3>1. revision' \in [Groups -> Nat] /\ phase' \in Phases
      BY <1>1 DEF Phases
    <3>2. \A g \in Groups : sync[s].payload[g] \in {0} \cup Keys
      BY <1>0 DEF SyncRecords
    <3>3. arrived' \subseteq Keys
      BY <1>0, <1>1, <3>2 DEF TypeOK
    <3> QED
      BY <1>0, <2>5, <2>6, <3>1, <3>3 DEF TypeOK, binding, decisions
  <2>11. OutboxInv' /\ NoDecisionLost'
    BY <1>1, <2>6 DEF IInv, OutboxInv, NoDecisionLost, binding
  <2>12. MutationInv'
    BY <2>9 DEF MutationInv
  <2>13. RevisionInv'
    <3>1. \A g \in Groups : known[g] \in Nat /\ foreign[g] \in Nat /\ revision'[g] = 1
      BY <1>0, <1>1 DEF TypeOK
    <3>2. \A g \in Groups : known'[g] <= revision'[g] /\ foreign'[g] <= revision'[g]
      BY <2>6, <2>8, <3>1 DEF IInv, RevisionInv, binding
    <3>3. ASSUME NEW t \in Syncs, NEW g \in Groups PROVE sync'[t].pulled[g] <= revision'[g]
      <4>1. sync[t].pulled[g] \in Nat /\ sync[t].pulled[g] <= revision[g]
        BY <1>0 DEF SyncRecords, IInv, RevisionInv
      <4> QED
        BY <2>7, <2>8, <3>1, <4>1
    <3>4. ASSUME NEW t \in Syncs, NEW a \in sync'[t].answer PROVE a.revision <= revision'[a.group]
      <4>1. a \in sync[t].answer /\ a \in Answers
        BY <1>0, <2>7 DEF SyncRecords
      <4>2. a.revision \in Nat /\ a.group \in Groups /\ a.revision <= revision[a.group]
        BY <4>1 DEF Answers, IInv, RevisionInv
      <4> QED
        BY <2>8, <3>1, <4>2
    <3> QED
      BY <3>2, <3>3, <3>4 DEF RevisionInv
  <2>14. ReceiptInv'
    BY <1>1, <2>6, <2>7, <2>8 DEF IInv, ReceiptInv, decisions
  <2>15. PhaseInv'
    BY <1>1, <2>7 DEF IInv, PhaseInv
  <2>16. GuardedByWhatWasSeen'
    BY <2>6, <2>8 DEF GuardedByWhatWasSeen
  <2> QED
    BY <2>10, <2>11, <2>12, <2>13, <2>14, <2>15, <2>16 DEF IInv
<1>2. CASE UNCHANGED <<phase, revision, arrived>> /\ End(s)
  BY <1>2, IdleFits, SyncMoves DEF Send, End, service, groupState
<1>3. CASE UNCHANGED <<phase, revision, arrived>> /\ Goto(s, "receipt")
  <2> DEFINE r == [sync[s] EXCEPT !.pc = "receipt"]
  <2>1. r \in SyncRecords
    BY <1>0 DEF SyncRecords, Steps
  <2>2. r.pc = "receipt" /\ r.phase = sync[s].phase /\ r.todo = sync[s].todo
        /\ r.answer = sync[s].answer /\ r.pulled = sync[s].pulled
    BY <1>0 DEF SyncRecords
  <2>3. sync' = [sync EXCEPT ![s] = r]
    BY <1>0, <1>3 DEF Goto
  <2> HIDE DEF r
  <2>4. Fits(r)
    BY <1>0, <2>1, <2>2 DEF Fits
  <2> QED
    BY <1>3, <2>3, <2>4, SyncMoves DEF Send, service, groupState
<1> QED
  BY <1>1, <1>2, <1>3 DEF Send

\* A mutation is sent and answered.
LEMMA PushKeeps ==
  ASSUME IInv, NEW s \in Syncs, NEW m \in sync[s].todo, Push(s, m)
  PROVE  IInv'
<1>0. /\ Fits(sync[s]) /\ sync[s] \in SyncRecords /\ sync \in [Syncs -> SyncRecords]
      /\ m \in Mutations /\ InFlight(m) /\ TypeOK
  BY SyncsFit, SyncFields DEF IInv, TypeOK, Fits
<1>1. /\ m.group \in Groups /\ m.key \in Keys
      /\ revision[m.group] \in Nat /\ receipts[m.key] \in Nat
      /\ receipts[m.key] <= revision[m.group]
  BY <1>0 DEF Mutations, TypeOK, IInv, MutationInv
<1>2. ASSUME NEW pc \in {"settle", "conflict"}, NEW n \in Nat, Answer(s, m, pc, n)
      PROVE  \E r \in SyncRecords :
               /\ r.pc = pc /\ r.phase = sync[s].phase
               /\ r.todo = sync[s].todo \ {m} /\ r.pulled = sync[s].pulled
               /\ r.answer = {[group |-> m.group, key |-> m.key, revision |-> n]}
               /\ sync' = [sync EXCEPT ![s] = r]
  <2> DEFINE a == [group |-> m.group, key |-> m.key, revision |-> n]
             r == [sync[s] EXCEPT !.pc = pc, !.todo = @ \ {m}, !.answer = {a}]
  <2>1. a \in Answers
    BY <1>1 DEF Answers
  <2>2. sync' = [sync EXCEPT ![s] = r]
    BY <1>0, <1>2 DEF Answer
  <2> HIDE DEF a
  <2>3. r \in SyncRecords
    BY <1>0, <2>1 DEF SyncRecords, Steps
  <2>4. /\ r.pc = pc /\ r.phase = sync[s].phase
        /\ r.todo = sync[s].todo \ {m} /\ r.pulled = sync[s].pulled /\ r.answer = {a}
    BY <1>0 DEF SyncRecords
  <2> HIDE DEF r
  <2> QED
    BY <2>2, <2>3, <2>4 DEF a
<1>3. ASSUME NEW pc \in {"settle", "conflict"}, NEW n \in Nat, Answer(s, m, pc, n),
             n <= revision[m.group], pc = "settle" => m.key \in arrived,
             UNCHANGED groupState
      PROVE  IInv'
  <2>1. PICK r \in SyncRecords :
          /\ r.pc = pc /\ r.phase = sync[s].phase
          /\ r.todo = sync[s].todo \ {m} /\ r.pulled = sync[s].pulled
          /\ r.answer = {[group |-> m.group, key |-> m.key, revision |-> n]}
          /\ sync' = [sync EXCEPT ![s] = r]
    BY <1>2, <1>3
  <2>2. Fits(r)
    BY <1>0, <1>3, <2>1 DEF Fits
  <2> QED
    BY <1>3, <2>1, <2>2, SyncMoves DEF Push, service
<1>4. CASE Applies(m) /\ Apply(m) /\ Answer(s, m, "settle", revision[m.group] + 1)
  <2>1. PICK r \in SyncRecords :
          /\ r.pc = "settle" /\ r.phase = sync[s].phase
          /\ r.todo = sync[s].todo \ {m} /\ r.pulled = sync[s].pulled
          /\ r.answer = {[group |-> m.group, key |-> m.key, revision |-> revision[m.group] + 1]}
          /\ sync' = [sync EXCEPT ![s] = r]
    <3>1. revision[m.group] + 1 \in Nat
      BY <1>1
    <3> QED
      BY <1>2, <1>4, <3>1
  <2>2. \A t \in Syncs : sync'[t] = IF t = s THEN r ELSE sync[t]
    BY <1>0, <2>1
  <2>3. sync' \in [Syncs -> SyncRecords]
    BY <1>0, <2>1
  <2>4. /\ UNCHANGED <<binding, decisions, phase, changes, foreign, unlinks>>
        /\ late' \subseteq late
    BY DEF Push
  <2> QED
    BY <1>0, <1>4, <2>1, <2>2, <2>3, <2>4, ApplyStep
<1>5. CASE receipts[m.key] # 0 /\ Answer(s, m, "settle", receipts[m.key]) /\ UNCHANGED groupState
  BY <1>1, <1>3, <1>5 DEF IInv, ReceiptInv
<1>6. CASE Answer(s, m, "conflict", revision[m.group]) /\ UNCHANGED groupState
  BY <1>1, <1>3, <1>6
<1> QED
  BY <1>4, <1>5, <1>6 DEF Push

\* A request that outlived its sync arrives.
LEMMA ArriveKeeps == ASSUME IInv, NEW m \in late, Arrive(m) PROVE IInv'
<1>1. m \in Mutations /\ InFlight(m) /\ late' \subseteq late
  BY DEF IInv, TypeOK, InFlight, Arrive
<1>2. sync' \in [Syncs -> SyncRecords] /\ \A t \in Syncs : Fits(sync[t]) /\ sync'[t] = sync[t]
  BY SyncsFit DEF IInv, TypeOK, Arrive
<1>3. CASE Applies(m) /\ Apply(m)
  BY <1>1, <1>2, <1>3, ApplyStep DEF Arrive
<1>4. CASE UNCHANGED groupState
  <2>1. UNCHANGED <<decisions, service, bound, watermark, known, outbox, owed, carried, unlinks>>
    BY <1>4 DEF Arrive, service, binding
  <2>2. NoDecisionLost'
    BY <2>1, BindingTypes DEF NoDecisionLost, service, groupState
  <2> QED
    BY <1>1, <1>2, <2>1, <2>2, BindingTypes, QuietStep
<1> QED
  BY <1>3, <1>4 DEF Arrive

\* The user decides: the key is new, and so is the mutation that may be owed.
LEMMA DecideKeeps == ASSUME IInv, NEW g \in Groups, Decide(g) PROVE IInv'
<1> DEFINE key == count + 1
<1>1. /\ key \in Keys /\ count' = key
      /\ decided' = [decided EXCEPT ![g] = key]
      /\ basis' = [basis EXCEPT ![key] = known[g]]
      /\ UNCHANGED <<bound, known, watermark, sync, late, service, unlinks>>
  BY DEF Decide
<1>2. /\ TypeOK /\ count \in Nat /\ key \in Nat /\ key > count /\ key # 0 /\ Keys \subseteq Nat
      /\ known[g] \in Nat /\ known[g] <= revision[g]
  BY <1>1 DEF IInv, TypeOK, Keys, RevisionInv
<1> HIDE DEF key
<1>3. \/ bound = "booted" /\ Owe(g, key) /\ UNCHANGED carried
      \/ carried' = [carried EXCEPT ![g] = key] /\ UNCHANGED <<outbox, owed>>
      \/ UNCHANGED <<outbox, owed, carried>>
  BY DEF Decide, key
<1>4. \A h \in Groups :
        \/ outbox'[h] = outbox[h] /\ owed'[h] = owed[h]
        \/ /\ h = g /\ bound = "booted" /\ owed'[h] = key
           /\ outbox'[h] = [key |-> key, based_on |-> known[g], conflict |-> FALSE]
  BY <1>2, <1>3 DEF Owe, TypeOK
<1>5. TypeOK'
  <2>1. [key |-> key, based_on |-> known[g], conflict |-> FALSE] \in Rows
    BY <1>1, <1>2 DEF Rows
  <2>2. outbox' \in [Groups -> Rows]
    BY <1>2, <1>3, <2>1 DEF Owe, TypeOK
  <2>3. owed' \in [Groups -> {0} \cup Keys] /\ carried' \in [Groups -> {0} \cup Keys]
    BY <1>1, <1>2, <1>3 DEF Owe, TypeOK
  <2>4. decided' \in [Groups -> {0} \cup Keys] /\ basis' \in [Keys -> Nat] /\ count' \in {0} \cup Keys
    BY <1>1, <1>2 DEF TypeOK
  <2> QED
    BY <1>1, <1>2, <2>2, <2>3, <2>4 DEF TypeOK, service, groupState
<1>6. \A k \in Keys : k <= count => basis'[k] = basis[k]
  BY <1>1, <1>2 DEF TypeOK
<1>7. basis'[key] = known[g] /\ receipts[key] = 0
  BY <1>1, <1>2 DEF TypeOK, IInv, ReceiptInv
<1>8. ASSUME NEW m \in Mutations, InFlight(m)'
      PROVE  \/ InFlight(m)
             \/ m.group = g /\ m.key = key /\ m.based_on = known[g] /\ bound = "booted"
  <2>1. m.group \in Groups
    BY DEF Mutations
  <2> QED
    BY <1>1, <1>4, <1>8, <2>1 DEF InFlight
<1>9. \A m \in Mutations : InFlight(m) => m.key \in Nat /\ m.key <= count /\ m.key # key
  <2> SUFFICES ASSUME NEW m \in Mutations, InFlight(m)
               PROVE  m.key \in Nat /\ m.key <= count /\ m.key # key
    OBVIOUS
  <2>1. m.key \in Nat
    BY <1>2 DEF Mutations
  <2>2. m.key <= count
    BY DEF IInv, MutationInv
  <2> QED
    BY <1>2, <2>1, <2>2
<1>10. OutboxInv'
  BY <1>2, <1>4 DEF IInv, OutboxInv
<1>11. NoDecisionLost'
  BY <1>1, <1>4 DEF IInv, NoDecisionLost, service, groupState
<1>12. MutationInv'
  <2> SUFFICES ASSUME NEW m \in Mutations, InFlight(m)'
               PROVE  /\ m.key <= count' /\ m.based_on = basis'[m.key]
                      /\ m.based_on <= revision[m.group]
                      /\ applied[m.group] > m.key => m.based_on < revision[m.group]
                      /\ receipts[m.key] <= revision[m.group]
                      /\ \A n \in Mutations : InFlight(n)' /\ n.key = m.key => n.group = m.group
    BY <1>1 DEF MutationInv, service, groupState
  <2>0. m.key \in Keys /\ m.group \in Groups
    BY DEF Mutations
  <2>1. CASE InFlight(m)
    <3>1. /\ m.key <= count /\ m.based_on = basis[m.key]
          /\ m.based_on <= revision[m.group]
          /\ applied[m.group] > m.key => m.based_on < revision[m.group]
          /\ receipts[m.key] <= revision[m.group]
          /\ \A n \in Mutations : InFlight(n) /\ n.key = m.key => n.group = m.group
      BY <2>1 DEF IInv, MutationInv
    <3>2. m.key <= count'
      BY <1>1, <1>2, <1>9, <2>1, <3>1
    <3>3. m.based_on = basis'[m.key]
      BY <1>6, <2>0, <3>1
    <3>4. \A n \in Mutations : InFlight(n)' /\ n.key = m.key => n.group = m.group
      BY <1>8, <1>9, <2>1, <3>1
    <3> QED
      BY <3>1, <3>2, <3>3, <3>4
  <2>2. CASE ~InFlight(m)
    <3>1. m.group = g /\ m.key = key /\ m.based_on = known[g]
      BY <1>8, <2>2
    <3>2. \A n \in Mutations : InFlight(n)' /\ n.key = m.key => n.group = m.group
      BY <1>8, <1>9, <3>1
    <3>3. ~(applied[g] > key)
      <4>1. applied[g] \in {0} \cup Keys
        BY <1>2 DEF TypeOK
      <4>2. applied[g] = 0 \/ applied[g] <= count
        BY DEF IInv, ReceiptInv
      <4>3. applied[g] \in Nat
        BY <4>1 DEF Keys
      <4> QED
        BY <1>2, <4>2, <4>3
    <3>4. receipts[key] <= revision[g]
      BY <1>2, <1>7 DEF TypeOK
    <3>5. key <= key
      BY <1>2
    <3> QED
      BY <1>1, <1>2, <1>7, <3>1, <3>2, <3>3, <3>4, <3>5
  <2> QED
    BY <2>1, <2>2
<1>13. RevisionInv'
  BY <1>1 DEF IInv, RevisionInv, service, groupState
<1>14. ReceiptInv'
  <2>1. \A k \in Keys : k <= count => k <= count'
    BY <1>1, <1>2
  <2>2. \A h \in Groups : applied[h] # 0 => applied[h] \in Keys
    BY <1>2 DEF TypeOK
  <2> QED
    BY <1>1, <2>1, <2>2 DEF IInv, ReceiptInv, service, groupState
<1>15. PhaseInv'
  BY <1>1, <1>8 DEF IInv, PhaseInv, service, groupState
<1>16. GuardedByWhatWasSeen'
  <2> SUFFICES ASSUME NEW h \in Groups, applied[h] # 0, foreign[h] > basis'[applied[h]]
               PROVE  foreign[h] > receipts[applied[h]]
    BY <1>1 DEF GuardedByWhatWasSeen, service, groupState
  <2>1. applied[h] \in Keys /\ applied[h] <= count
    BY <1>2 DEF IInv, ReceiptInv, TypeOK
  <2> QED
    BY <1>6, <2>1 DEF IInv, GuardedByWhatWasSeen
<1> QED
  BY <1>5, <1>10, <1>11, <1>12, <1>13, <1>14, <1>15, <1>16 DEF IInv

\* Somebody else changes a group at the service.
LEMMA OthersKeep == ASSUME IInv, NEW g \in Groups, OthersChange(g) PROVE IInv'
<1>1. /\ TypeOK /\ phase = "connected"
      /\ changes' = changes + 1
      /\ revision' = [revision EXCEPT ![g] = @ + 1]
      /\ foreign' = [foreign EXCEPT ![g] = revision[g] + 1]
      /\ UNCHANGED <<binding, decisions, sync, late, phase, receipts, applied, arrived, unlinks>>
  BY DEF OthersChange, IInv
<1>2. /\ revision \in [Groups -> Nat] /\ foreign \in [Groups -> Nat] /\ changes \in Nat
      /\ basis \in [Keys -> Nat] /\ receipts \in [Keys -> Nat] /\ Keys \subseteq Nat
      /\ known \in [Groups -> Nat] /\ applied \in [Groups -> {0} \cup Keys]
  BY <1>1 DEF TypeOK, Keys
<1>3. revision[g] + 1 \in Nat /\ changes + 1 \in Nat
  BY <1>2
<1>4. /\ revision' \in [Groups -> Nat] /\ foreign' \in [Groups -> Nat]
      /\ \A h \in Groups : revision[h] <= revision'[h] /\ foreign'[h] <= revision'[h]
  <2>1. revision' \in [Groups -> Nat] /\ foreign' \in [Groups -> Nat]
    BY <1>1, <1>2, <1>3
  <2>2. \A h \in Groups : foreign[h] <= revision[h]
    BY DEF IInv, RevisionInv
  <2> QED
    BY <1>1, <1>2, <2>1, <2>2
<1>5. TypeOK'
  BY <1>1, <1>3, <1>4 DEF TypeOK, binding, decisions
<1>6. \A m \in Mutations : InFlight(m)' <=> InFlight(m)
  BY <1>1 DEF InFlight, binding
<1>7. OutboxInv' /\ NoDecisionLost'
  BY <1>1 DEF IInv, OutboxInv, NoDecisionLost, binding
<1>8. MutationInv'
  <2> SUFFICES ASSUME NEW m \in Mutations, InFlight(m)
               PROVE  /\ m.key <= count /\ m.based_on = basis[m.key]
                      /\ m.based_on <= revision'[m.group]
                      /\ applied[m.group] > m.key => m.based_on < revision'[m.group]
                      /\ receipts[m.key] <= revision'[m.group]
                      /\ \A n \in Mutations : InFlight(n) /\ n.key = m.key => n.group = m.group
    BY <1>1, <1>6 DEF MutationInv, decisions
  <2>1. /\ m.key <= count /\ m.based_on = basis[m.key]
        /\ m.based_on <= revision[m.group]
        /\ applied[m.group] > m.key => m.based_on < revision[m.group]
        /\ receipts[m.key] <= revision[m.group]
        /\ \A n \in Mutations : InFlight(n) /\ n.key = m.key => n.group = m.group
    BY DEF IInv, MutationInv
  <2>2. m.group \in Groups /\ m.key \in Keys /\ m.based_on \in Nat
    BY DEF Mutations
  <2>3. /\ revision[m.group] \in Nat /\ revision'[m.group] \in Nat /\ receipts[m.key] \in Nat
        /\ revision[m.group] <= revision'[m.group]
    BY <1>2, <1>4, <2>2
  <2> QED
    BY <2>1, <2>2, <2>3
<1>9. RevisionInv'
  <2>1. \A h \in Groups : known'[h] <= revision'[h]
    BY <1>1, <1>2, <1>4 DEF IInv, RevisionInv, binding
  <2>2. ASSUME NEW t \in Syncs, NEW h \in Groups PROVE sync'[t].pulled[h] <= revision'[h]
    <3>1. sync[t].pulled[h] \in Nat /\ sync[t].pulled[h] <= revision[h]
      BY <1>1 DEF TypeOK, SyncRecords, IInv, RevisionInv
    <3> QED
      BY <1>1, <1>2, <1>4, <3>1
  <2>3. ASSUME NEW t \in Syncs, NEW a \in sync'[t].answer PROVE a.revision <= revision'[a.group]
    <3>1. a \in sync[t].answer /\ a \in Answers
      BY <1>1 DEF TypeOK, SyncRecords
    <3>2. a.group \in Groups /\ a.revision \in Nat /\ a.revision <= revision[a.group]
      BY <3>1 DEF Answers, IInv, RevisionInv
    <3> QED
      BY <1>2, <1>4, <3>2
  <2> QED
    BY <1>4, <2>1, <2>2, <2>3 DEF RevisionInv
<1>10. ReceiptInv'
  <2>1. ASSUME NEW h \in Groups, applied[h] # 0
        PROVE  applied[h] <= count /\ receipts[applied[h]] # 0 /\ receipts[applied[h]] <= revision'[h]
    <3>1. applied[h] \in Keys /\ applied[h] <= count /\ receipts[applied[h]] # 0
          /\ receipts[applied[h]] <= revision[h]
      BY <1>2, <2>1 DEF IInv, ReceiptInv
    <3>2. receipts[applied[h]] \in Nat /\ revision[h] \in Nat /\ revision'[h] \in Nat
          /\ revision[h] <= revision'[h]
      BY <1>2, <1>4, <3>1
    <3> QED
      BY <3>1, <3>2
  <2> QED
    BY <1>1, <2>1 DEF IInv, ReceiptInv, decisions
<1>11. PhaseInv'
  BY <1>1, <1>6 DEF IInv, PhaseInv
<1>12. GuardedByWhatWasSeen'
  <2> SUFFICES ASSUME NEW h \in Groups, applied[h] # 0, foreign'[h] > basis[applied[h]]
               PROVE  foreign'[h] > receipts[applied[h]]
    BY <1>1 DEF GuardedByWhatWasSeen, decisions
  <2>1. CASE h = g
    <3>1. applied[g] \in Keys /\ receipts[applied[g]] <= revision[g]
      BY <1>2, <2>1 DEF IInv, ReceiptInv
    <3>2. foreign'[g] = revision[g] + 1
      BY <1>1, <1>2
    <3>3. receipts[applied[g]] \in Nat /\ revision[g] \in Nat
      BY <1>2, <3>1
    <3> QED
      BY <2>1, <3>1, <3>2, <3>3
  <2>2. CASE h # g
    <3>1. foreign'[h] = foreign[h]
      BY <1>1, <1>2, <2>2
    <3> QED
      BY <3>1 DEF IInv, GuardedByWhatWasSeen
  <2> QED
    BY <2>1, <2>2
<1> QED
  BY <1>5, <1>7, <1>8, <1>9, <1>10, <1>11, <1>12 DEF IInv

\* A step that changes nothing keeps the invariant.
LEMMA StutterKeeps == ASSUME IInv, UNCHANGED vars PROVE IInv'
<1>1. UNCHANGED <<decisions, service, bound, watermark, known, outbox, owed, carried, unlinks>>
      /\ late' = late /\ sync' = sync
  BY DEF vars, binding
<1>2. NoDecisionLost'
  BY <1>1, BindingTypes DEF NoDecisionLost, service, groupState
<1> QED
  BY <1>1, <1>2, BindingTypes, SyncsFit, QuietStep

\* Every step keeps the invariant.
LEMMA NextIInv == IInv /\ [Next]_vars => IInv'
<1> SUFFICES ASSUME IInv, [Next]_vars PROVE IInv'
  OBVIOUS
<1>1. CASE Link \/ Unlink
  BY <1>1, LinkKeeps
<1>2. CASE \E g \in Groups : Decide(g) \/ OthersChange(g)
  BY <1>2, DecideKeeps, OthersKeep
<1>3. ASSUME NEW s \in Syncs, SyncStep(s) PROVE IInv'
  BY <1>3, LocalSteps, BindingSteps, SendKeeps, PushKeeps DEF SyncStep
<1>4. CASE \E m \in late : Arrive(m)
  BY <1>4, ArriveKeeps
<1>5. CASE UNCHANGED vars
  BY <1>5, StutterKeeps
<1> QED
  BY <1>1, <1>2, <1>3, <1>4, <1>5 DEF Next

\* The inductive invariant holds in every reachable state.
THEOREM Invariance == Spec => []IInv
BY InitIInv, NextIInv, PTL DEF Spec

\* The binding, the syncs and the service keep their types.
THEOREM TypeCorrect == Spec => []TypeOK
<1>1. IInv => TypeOK
  BY DEF IInv
<1> QED
  BY <1>1, Invariance, PTL

\* A decision recorded for delivery is with the service or still in the outbox,
\* however many syncs push, settle, repeat or lose it (settle_group_mutation).
THEOREM NothingLost == Spec => []NoDecisionLost
<1>1. IInv => NoDecisionLost
  BY DEF IInv
<1> QED
  BY <1>1, Invariance, PTL

\* Nobody else's change of a group is overwritten unseen: the revision a
\* mutation carries is the one the user had been shown (mutation_entry).
THEOREM GuardHolds == Spec => []GuardedByWhatWasSeen
<1>1. IInv => GuardedByWhatWasSeen
  BY DEF IInv
<1> QED
  BY <1>1, Invariance, PTL

\* A mutation the service applies is the newest it ever applied to the group.
LEMMA AppliesNewer ==
  ASSUME IInv, NEW m \in Mutations, InFlight(m), Applies(m), Apply(m), NEW g \in Groups
  PROVE  applied'[g] >= applied[g]
<1>1. /\ applied \in [Groups -> {0} \cup Keys] /\ Keys \subseteq Nat /\ revision \in [Groups -> Nat]
      /\ m.group \in Groups /\ m.key \in Nat /\ m.based_on \in Nat
  BY DEF IInv, TypeOK, Keys, Mutations
<1>2. applied[g] \in Nat /\ applied[m.group] \in Nat
  BY <1>1 DEF Keys
<1>3. revision[m.group] = m.based_on
  BY DEF Applies, GuardOf
<1>4. ~(applied[m.group] > m.key)
  BY <1>1, <1>3 DEF IInv, MutationInv
<1>5. applied' = [applied EXCEPT ![m.group] = m.key]
  BY DEF Apply
<1> QED
  BY <1>1, <1>2, <1>4, <1>5

\* An unchanged group keeps the mutation applied last.
LEMMA AppliedStands == ASSUME IInv, UNCHANGED applied, NEW g \in Groups PROVE applied'[g] >= applied[g]
<1>1. applied[g] \in Nat
  BY DEF IInv, TypeOK, Keys
<1> QED
  BY <1>1

\* At the service no decision of this desktop gives way to an older one of its
\* own, whatever is replaced, repeated or late (pending_group_mutations).
THEOREM NewerWins == Spec => NewerStands
<1>1. ASSUME IInv, [Next]_vars, NEW g \in Groups PROVE applied'[g] >= applied[g]
  <2>1. CASE UNCHANGED applied
    BY <1>1, <2>1, AppliedStands
  <2>2. ASSUME NEW m \in Mutations, InFlight(m), Applies(m), Apply(m)
        PROVE  applied'[g] >= applied[g]
    BY <1>1, <2>2, AppliesNewer
  <2>3. ASSUME NEW s \in Syncs, NEW m \in sync[s].todo, Push(s, m)
        PROVE  applied'[g] >= applied[g]
    <3>1. m \in Mutations /\ InFlight(m)
      BY <1>1, SyncsFit, SyncFields DEF Fits
    <3> QED
      BY <2>1, <2>2, <2>3, <3>1 DEF Push, groupState
  <2>4. ASSUME NEW m \in late, Arrive(m) PROVE applied'[g] >= applied[g]
    <3>1. m \in Mutations /\ InFlight(m)
      BY <1>1 DEF InFlight, IInv, TypeOK
    <3> QED
      BY <2>1, <2>2, <2>4, <3>1 DEF Arrive, groupState
  <2>5. ASSUME NEW s \in Syncs, SyncStep(s) PROVE applied'[g] >= applied[g]
    <3>1. CASE \E m \in sync[s].todo : Push(s, m)
      BY <2>3, <3>1
    <3>2. CASE ~(\E m \in sync[s].todo : Push(s, m))
      <4>1. UNCHANGED applied
        BY <2>5, <3>2
           DEF SyncStep, StartSync, GiveUp, PullState, PullGroups, Record, Recover, Mark,
               MarkBooted, Build, Send, Receipt, List, Settle, Conflict, PullAgain,
               service, groupState
      <4> QED
        BY <2>1, <4>1
    <3> QED
      BY <3>1, <3>2
  <2>6. CASE Link \/ Unlink \/ \E h \in Groups : Decide(h) \/ OthersChange(h)
    <3>1. UNCHANGED applied
      BY <2>6 DEF Link, Unlink, Decide, OthersChange, service, groupState
    <3> QED
      BY <2>1, <3>1
  <2>7. CASE UNCHANGED vars
    BY <2>1, <2>7 DEF vars, service, groupState
  <2> QED
    BY <1>1, <2>4, <2>5, <2>6, <2>7 DEF Next
<1>2. IInv /\ [Next]_vars => [\A g \in Groups : applied'[g] >= applied[g]]_vars
  BY <1>1
<1> QED
  BY <1>2, Invariance, PTL DEF Spec, NewerStands

\* While a site stays bound the revision known of a group never falls, in
\* whatever order pulls and answers are recorded (raise_group_revision).
THEOREM KnownGrows == Spec => KnownNeverFalls
<1>1. ASSUME IInv, [Next]_vars, bound' # "no", NEW g \in Groups PROVE known'[g] >= known[g]
  <2>0. known \in [Groups -> Nat] /\ known[g] \in Nat
    BY <1>1 DEF IInv, TypeOK
  <2>1. CASE UNCHANGED known
    BY <2>0, <2>1
  <2>2. ASSUME NEW s \in Syncs, Record(s) PROVE known'[g] >= known[g]
    <3>1. sync[s].pulled[g] \in Nat
      BY <1>1, SyncFields
    <3>2. Learned(s)[g] >= known[g]
      BY <2>0, <3>1 DEF Learned, Raise
    <3> QED
      BY <2>1, <2>2, <3>2 DEF Record
  <2>3. ASSUME NEW s \in Syncs, NEW a \in sync[s].answer, Settle(s, a) \/ Conflict(s, a)
        PROVE  known'[g] >= known[g]
    <3>1. a.group \in Groups /\ a.revision \in Nat
      BY <1>1, SyncFields DEF Answers
    <3>2. known[a.group] \in Nat
      BY <2>0, <3>1
    <3>3. Raise(a.group, a.revision) >= known[a.group]
      BY <3>1, <3>2 DEF Raise
    <3>4. UNCHANGED known \/ known' = [known EXCEPT ![a.group] = Raise(a.group, a.revision)]
      BY <2>3 DEF Settle, Conflict
    <3> QED
      BY <2>0, <2>1, <3>1, <3>3, <3>4
  <2>4. ASSUME NEW s \in Syncs, SyncStep(s) PROVE known'[g] >= known[g]
    <3>1. CASE Record(s) \/ \E a \in sync[s].answer : Settle(s, a) \/ Conflict(s, a)
      BY <2>2, <2>3, <3>1
    <3>2. CASE ~(Record(s) \/ \E a \in sync[s].answer : Settle(s, a) \/ Conflict(s, a))
      <4>1. UNCHANGED known
        BY <2>4, <3>2
           DEF SyncStep, StartSync, GiveUp, PullState, PullGroups, Recover, Mark,
               MarkBooted, Build, Send, Push, Receipt, List, PullAgain, binding
      <4> QED
        BY <2>1, <4>1
    <3> QED
      BY <3>1, <3>2
  <2>5. CASE Link \/ \E h \in Groups : Decide(h) \/ OthersChange(h)
    <3>1. UNCHANGED known
      BY <2>5 DEF Link, Decide, OthersChange, binding
    <3> QED
      BY <2>1, <3>1
  <2>6. CASE \E m \in late : Arrive(m)
    BY <2>1, <2>6 DEF Arrive, binding
  <2>7. CASE UNCHANGED vars
    BY <2>1, <2>7 DEF vars, binding
  <2>8. CASE Unlink
    BY <1>1, <2>8 DEF Unlink
  <2> QED
    BY <1>1, <2>4, <2>5, <2>6, <2>7, <2>8 DEF Next
<1>2. IInv /\ [Next]_vars => [bound' # "no" => \A g \in Groups : known'[g] >= known[g]]_vars
  BY <1>1
<1> QED
  BY <1>2, Invariance, PTL DEF Spec, KnownNeverFalls

-----------------------------------------------------------------------------
(* The outbox, the syncs and the service implement GroupRegister.          *)

registered == <<phase = "connected", revision, count, basis, receipts, applied>>

\* A mutation that is applied is a decision taking effect: its user had been
\* shown the revision it changes, and it is newer than what the group holds.
LEMMA AppliedTakesEffect ==
  ASSUME IInv, NEW m \in Mutations, InFlight(m), Applies(m), Apply(m),
         UNCHANGED <<phase, count, basis>>
  PROVE  m.group \in Groups /\ m.key \in Keys /\ Register!TakeEffect(m.group, m.key)
<1>1. /\ m.group \in Groups /\ m.key \in Keys /\ m.key \in Nat /\ m.key # 0
      /\ applied[m.group] \in {0} \cup Keys /\ applied[m.group] \in Nat
  BY DEF Mutations, Keys, IInv, TypeOK
<1>2. /\ receipts[m.key] = 0 /\ revision[m.group] = m.based_on
      /\ revision' = [revision EXCEPT ![m.group] = @ + 1]
      /\ receipts' = [receipts EXCEPT ![m.key] = revision[m.group] + 1]
      /\ applied' = [applied EXCEPT ![m.group] = m.key]
  BY DEF Applies, Apply, GuardOf
<1>3. /\ m.key <= count /\ m.based_on = basis[m.key] /\ m.based_on \in Nat
      /\ ~(applied[m.group] > m.key)
  BY <1>2 DEF IInv, MutationInv, Mutations
<1>4. applied[m.group] # m.key
  BY <1>1, <1>2 DEF IInv, ReceiptInv
<1>5. applied[m.group] < m.key
  BY <1>1, <1>3, <1>4
<1>6. phase = "connected"
  BY DEF IInv, PhaseInv, TypeOK, Phases
<1> QED
  BY <1>1, <1>2, <1>3, <1>5, <1>6 DEF Register!TakeEffect

\* A request of a sync is answered, with or without being applied.
LEMMA PushRegisters ==
  ASSUME IInv, NEW s \in Syncs, NEW m \in sync[s].todo, Push(s, m)
  PROVE  Register!Next \/ UNCHANGED registered
<1>1. m \in Mutations /\ InFlight(m)
  BY SyncsFit, SyncFields DEF Fits
<1>2. UNCHANGED <<phase, count, basis>>
  BY DEF Push, decisions
<1>3. (Applies(m) /\ Apply(m)) \/ UNCHANGED groupState
  BY DEF Push
<1>4. CASE Applies(m) /\ Apply(m)
  BY <1>1, <1>2, <1>4, AppliedTakesEffect DEF Register!Next
<1>5. CASE UNCHANGED groupState
  BY <1>2, <1>5 DEF groupState, registered
<1> QED
  BY <1>3, <1>4, <1>5

LEMMA ArriveRegisters ==
  ASSUME IInv, NEW m \in late, Arrive(m)
  PROVE  Register!Next \/ UNCHANGED registered
<1>1. m \in Mutations /\ InFlight(m)
  BY DEF InFlight, IInv, TypeOK
<1>2. UNCHANGED <<phase, count, basis>>
  BY DEF Arrive, decisions
<1>3. (Applies(m) /\ Apply(m)) \/ UNCHANGED groupState
  BY DEF Arrive
<1>4. CASE Applies(m) /\ Apply(m)
  BY <1>1, <1>2, <1>4, AppliedTakesEffect DEF Register!Next
<1>5. CASE UNCHANGED groupState
  BY <1>2, <1>5 DEF groupState, registered
<1> QED
  BY <1>3, <1>4, <1>5

\* A bootstrap that is accepted opens the register; a submission leaves it alone.
LEMMA SendRegisters ==
  ASSUME IInv, NEW s \in Syncs, Send(s)
  PROVE  Register!Next \/ UNCHANGED registered
<1>1. UNCHANGED <<count, basis, receipts, applied>>
  BY DEF Send, decisions
<1>2. CASE phase = "pending_bootstrap" /\ phase' = "connected" /\ revision' = [g \in Groups |-> 1]
  BY <1>1, <1>2 DEF Register!Next, Register!Open
<1>3. CASE UNCHANGED <<phase, revision>>
  BY <1>1, <1>3 DEF registered
<1> QED
  BY <1>2, <1>3 DEF Send

\* What the user has been shown is a revision the service has had.
LEMMA DecideRegisters ==
  ASSUME IInv, NEW g \in Groups, Decide(g)
  PROVE  Register!Next
<1>1. /\ known[g] \in Nat /\ revision[g] \in Nat /\ known[g] <= revision[g]
  BY DEF IInv, TypeOK, RevisionInv
<1>2. /\ count + 1 \in Keys /\ count' = count + 1
      /\ basis' = [basis EXCEPT ![count + 1] = known[g]]
      /\ UNCHANGED <<phase, revision, receipts, applied>>
  BY DEF Decide, service, groupState
<1>3. Register!Decide(g, known[g])
  BY <1>1, <1>2 DEF Register!Decide
<1> QED
  BY <1>1, <1>3 DEF Register!Next

LEMMA NextRegisters ==
  ASSUME IInv, [Next]_vars
  PROVE  Register!Next \/ UNCHANGED registered
<1>1. CASE UNCHANGED <<decisions, service>>
  BY <1>1 DEF decisions, service, groupState, registered
<1>2. CASE Link \/ Unlink
  BY <1>1, <1>2 DEF Link, Unlink
<1>3. ASSUME NEW g \in Groups, OthersChange(g) PROVE Register!Next
  BY <1>3 DEF OthersChange, decisions, Register!Next, Register!Change
<1>4. ASSUME NEW s \in Syncs, SyncStep(s) PROVE Register!Next \/ UNCHANGED registered
  <2>1. CASE \E m \in sync[s].todo : Push(s, m)
    BY <1>4, <2>1, PushRegisters
  <2>2. CASE Send(s)
    BY <1>4, <2>2, SendRegisters
  <2>3. CASE ~Send(s) /\ ~(\E m \in sync[s].todo : Push(s, m))
    <3>1. UNCHANGED <<decisions, service>>
      BY <1>4, <2>3
         DEF SyncStep, StartSync, GiveUp, PullState, PullGroups, Record, Recover, Mark,
             MarkBooted, Build, Receipt, List, Settle, Conflict, PullAgain
    <3> QED
      BY <1>1, <3>1
  <2> QED
    BY <2>1, <2>2, <2>3
<1>5. CASE \E m \in late : Arrive(m)
  BY <1>5, ArriveRegisters
<1>6. CASE UNCHANGED vars
  BY <1>1, <1>6 DEF vars
<1> QED
  BY <1>2, <1>3, <1>4, <1>5, <1>6, DecideRegisters DEF Next

\* Whatever is lost, repeated, late or sent by two syncs at once, a decision takes
\* effect at the service in one step, once, and on the revision its user saw.
THEOREM RegisterImplemented == Spec => RegisterKept
<1>1. Init => Register!Init
  BY DEF Init, Register!Init, Nothing
<1>2. IInv /\ [Next]_vars => [Register!Next]_registered
  BY NextRegisters
<1> QED
  BY <1>1, <1>2, Invariance, PTL DEF Spec, RegisterKept, Register!Spec, registered

\* Nothing comes between what the user was shown and what the decision made of
\* it: the revision a decision was answered with is the one after the one shown.
THEOREM DecidedOnWhatWasSeen == Spec => []Register!OnWhatWasSeen
<1>1. Init => Register!OnWhatWasSeen
  BY DEF Init, Register!OnWhatWasSeen
<1>2. IInv /\ Register!OnWhatWasSeen /\ [Next]_vars => Register!OnWhatWasSeen'
  <2> SUFFICES ASSUME IInv, Register!OnWhatWasSeen, [Next]_vars
               PROVE  Register!OnWhatWasSeen'
    OBVIOUS
  <2>1. /\ receipts \in [Keys -> Nat] /\ basis \in [Keys -> Nat] /\ count \in Nat
        /\ Keys \subseteq Nat /\ \A k \in Keys : receipts[k] # 0 => k <= count
    BY DEF IInv, TypeOK, ReceiptInv, Keys
  <2>2. CASE UNCHANGED <<receipts, basis>>
    BY <2>2 DEF Register!OnWhatWasSeen
  <2>3. ASSUME NEW g \in Groups, NEW shown, Register!Decide(g, shown)
        PROVE  Register!OnWhatWasSeen'
    <3>1. receipts[count + 1] = 0
      BY <2>1, <2>3 DEF Register!Decide
    <3> QED
      BY <2>1, <2>3, <3>1 DEF Register!Decide, Register!OnWhatWasSeen
  <2>4. ASSUME NEW g \in Groups, NEW k \in Keys, Register!TakeEffect(g, k)
        PROVE  Register!OnWhatWasSeen'
    BY <2>1, <2>4 DEF Register!TakeEffect, Register!OnWhatWasSeen
  <2> QED
    BY <2>2, <2>3, <2>4, NextRegisters
       DEF Register!Next, Register!Open, Register!Change, registered
<1> QED
  BY <1>1, <1>2, Invariance, PTL DEF Spec

=============================================================================
