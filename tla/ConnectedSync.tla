--------------------------- MODULE ConnectedSync ---------------------------
(***************************************************************************)
(* The connected service, seen from one environment of one desktop: the    *)
(* binding to a hosted site, the user's lifecycle decisions, the outbox    *)
(* that owes them to the service, and the sync command that bootstraps the *)
(* site, pushes the outbox and pulls revisions (db/connected_outbox.rs,    *)
(* db/connected_sites.rs, db/connected_producer.rs, commands/connected.rs).*)
(*                                                                         *)
(* A sync is a chain of awaited calls, not serialized with another sync,   *)
(* with the user's decisions or with unlinking the site.  Any request or   *)
(* answer may be lost; the sync ends there, and so it does in a crash.     *)
(* The service is external: what the desktop sends and what the answers    *)
(* mean to it.                                                             *)
(***************************************************************************)
EXTENDS Naturals

CONSTANTS Groups,        \* canonical checks
          Syncs,         \* sync commands that may be in flight together
          MaxDecisions, MaxForeign, MaxUnlinks  \* bounds of a run

ASSUME BoundsAssumption ==
  MaxDecisions \in Nat /\ MaxForeign \in Nat /\ MaxUnlinks \in Nat

VARIABLES
  bound,      \* the binding: "no", "linked" (bootstrapped_at NULL), "booted"
  known,      \* connected_group_revisions, 0 when there is no row
  watermark,  \* whether connected_site_watermarks has a row
  outbox,     \* connected_mutation_outbox: a row per group, or NoRow
  decided,    \* the decision behind the lifecycle row of every group, 0 for none
  count,      \* decisions taken; the n-th carries idempotency key n
  sync,       \* the sync commands in flight
  late,       \* mutations on the wire that nobody awaits any more
  phase,      \* of the site, at the service
  revision,   \* of every group, at the service
  receipts,   \* the revision every key was answered with, 0 if it was not
  changes,    \* changes made by another installation, a hosted scan or CI
  foreign,    \* the revision of the last of them, per group
  basis,      \* the revision the user had been shown at every decision
  owed,       \* the last decision recorded for delivery, per group
  carried,    \* the last decision left to the bootstrap, per group
  applied,    \* the last mutation the service applied, per group
  arrived,    \* the decisions the service ever took over
  unlinks

binding == <<bound, known, watermark, outbox, owed, carried>>
decisions == <<decided, count, basis>>
groupState == <<revision, receipts, applied, arrived>>
service == <<phase, groupState, changes, foreign>>
vars == <<binding, decisions, sync, late, service, unlinks>>

Keys == 1 .. MaxDecisions
Nothing == [g \in Groups |-> 0]
NoRow == [key |-> 0, based_on |-> 0, conflict |-> FALSE]
Rows == [key : {0} \cup Keys, based_on : Nat, conflict : BOOLEAN]
Mutations == [group : Groups, key : Keys, based_on : Nat]
Answers == [group : Groups, key : Keys, revision : Nat]
Steps == {"idle", "state", "groups", "record", "recover", "build", "send", "mark",
          "receipt", "list", "push", "settle", "conflict"}
Phases == {"pending_bootstrap", "connected"}

Idle == [pc |-> "idle", final |-> FALSE, include_groups |-> FALSE,
         phase |-> "pending_bootstrap", pulled |-> Nothing, payload |-> Nothing,
         todo |-> {}, answer |-> {}]

Init ==
  /\ bound = "no" /\ known = Nothing /\ watermark = FALSE
  /\ outbox = [g \in Groups |-> NoRow] /\ owed = Nothing /\ carried = Nothing
  /\ decided = Nothing /\ count = 0 /\ basis = [k \in Keys |-> 0]
  /\ sync = [s \in Syncs |-> Idle] /\ late = {}
  /\ phase = "pending_bootstrap" /\ revision = Nothing /\ applied = Nothing
  /\ receipts = [k \in Keys |-> 0] /\ arrived = {}
  /\ changes = 0 /\ foreign = Nothing /\ unlinks = 0

-----------------------------------------------------------------------------
(* The user.                                                               *)

\* connect_site, by create_connected_site or by importing a connection.
Link ==
  /\ bound = "no"
  /\ bound' = "linked"
  /\ UNCHANGED <<known, watermark, outbox, owed, carried, decisions, sync, late, service, unlinks>>

\* disconnect_site: the binding takes revisions, outbox and watermark with it.
Unlink ==
  /\ bound # "no" /\ unlinks < MaxUnlinks
  /\ bound' = "no" /\ known' = Nothing /\ watermark' = FALSE
  /\ outbox' = [g \in Groups |-> NoRow] /\ owed' = Nothing /\ carried' = Nothing
  /\ unlinks' = unlinks + 1
  /\ UNCHANGED <<decisions, sync, late, service>>

\* Mutant: a decision that takes the place of an unsent one keeps its key.
OweUnderOldKey(g, key) ==
  /\ outbox' = [outbox EXCEPT ![g] = [key |-> IF @ = NoRow THEN key ELSE @.key,
                                      based_on |-> known[g], conflict |-> FALSE]]
  /\ owed' = [owed EXCEPT ![g] = key]

\* record_group_decision, one transaction: the lifecycle row, and the row that
\* owes the decision to the service.  It takes the place of an unsent one, with
\* a key of its own and the revision the user was shown.
Owe(g, key) ==
  /\ outbox' = [outbox EXCEPT ![g] = [key |-> key, based_on |-> known[g], conflict |-> FALSE]]
  /\ owed' = [owed EXCEPT ![g] = key]

Decide(g) ==
  LET key == count + 1
  IN  /\ key \in Keys
      /\ count' = key
      /\ decided' = [decided EXCEPT ![g] = key]
      /\ basis' = [basis EXCEPT ![key] = known[g]]
      /\ \/ bound = "booted" /\ Owe(g, key) /\ UNCHANGED carried
         \/ /\ bound = "linked"
            /\ carried' = [carried EXCEPT ![g] = key]
            /\ UNCHANGED <<outbox, owed>>
         \/ bound = "no" /\ UNCHANGED <<outbox, owed, carried>>
      /\ UNCHANGED <<bound, known, watermark, sync, late, service, unlinks>>

\* Another installation, a hosted scan or CI changes a group.
OthersChange(g) ==
  /\ phase = "connected" /\ changes < MaxForeign
  /\ changes' = changes + 1
  /\ revision' = [revision EXCEPT ![g] = @ + 1]
  /\ foreign' = [foreign EXCEPT ![g] = revision[g] + 1]
  /\ UNCHANGED <<binding, decisions, sync, late, phase, receipts, applied, arrived, unlinks>>

-----------------------------------------------------------------------------
(* sync_connected_site, call by call.                                      *)

At(s, pc) == sync[s].pc = pc
Goto(s, pc) == sync' = [sync EXCEPT ![s].pc = pc]
End(s) == sync' = [sync EXCEPT ![s] = Idle]
Raise(g, r) == IF r > known[g] THEN r ELSE known[g]

StartSync(s) ==
  /\ At(s, "idle") /\ bound # "no"
  /\ sync' = [sync EXCEPT ![s] =
       [Idle EXCEPT !.pc = "state", !.include_groups = (bound = "linked")]]
  /\ UNCHANGED <<binding, decisions, late, service, unlinks>>

\* Nothing is undone: any await may be the last of the sync (an error, a lost
\* answer, a crash).  A mutation it was sending may still be on the wire.
GiveUp(s) ==
  /\ ~At(s, "idle") /\ End(s)
  /\ \/ UNCHANGED late
     \/ At(s, "push") /\ \E m \in sync[s].todo : late' = late \cup {m}
  /\ UNCHANGED <<binding, decisions, service, unlinks>>

\* pull_remote_state: the state, then every page of groups, then one write.
PullState(s) ==
  /\ At(s, "state")
  /\ sync' = [sync EXCEPT ![s].pc = "groups", ![s].phase = phase]
  /\ UNCHANGED <<binding, decisions, late, service, unlinks>>

PullGroups(s) ==
  /\ At(s, "groups")
  /\ sync' = [sync EXCEPT ![s].pc = "record", ![s].pulled = revision]
  /\ UNCHANGED <<binding, decisions, late, service, unlinks>>

\* How the sync goes on after a pull was recorded.
Recovers(s) == sync[s].phase = "connected" /\ sync[s].include_groups
Disagrees(s) == sync[s].phase = "pending_bootstrap" /\ ~sync[s].include_groups
AfterPull(s) ==
  IF sync[s].final \/ Disagrees(s) THEN End(s)
  ELSE Goto(s, IF Recovers(s) THEN "recover" ELSE "build")

\* Mutant: what was pulled replaces what was known.
Latest(s) == sync[s].pulled
Learned(s) == [g \in Groups |-> Raise(g, sync[s].pulled[g])]

\* Mutant: a pull moves the rows that wait to the revision it brings.
RecordRebasing(s) ==
  /\ At(s, "record")
  /\ bound # "no"
  /\ known' = Learned(s) /\ watermark' = TRUE /\ AfterPull(s)
  /\ outbox' = [g \in Groups |-> IF outbox[g] = NoRow THEN NoRow
                                 ELSE [outbox[g] EXCEPT !.based_on = known'[g]]]
  /\ UNCHANGED <<bound, owed, carried, decisions, late, service, unlinks>>

\* record_connected_pull.  The revisions reference the binding and the watermark
\* does not: without the binding the first listed group fails the transaction.
Record(s) ==
  /\ At(s, "record")
  /\ \/ /\ bound # "no" \/ sync[s].pulled = Nothing
        /\ known' = Learned(s) /\ watermark' = TRUE /\ AfterPull(s)
     \/ /\ bound = "no" /\ sync[s].pulled # Nothing
        /\ UNCHANGED <<known, watermark>> /\ End(s)
  /\ UNCHANGED <<bound, outbox, owed, carried, decisions, late, service, unlinks>>

\* mark_site_bootstrapped: of a site the service had connected already
\* (recover), or after its bootstrap was accepted (mark).
MarkBooted(s, next) ==
  /\ \/ /\ bound # "no" /\ bound' = "booted"
        /\ sync' = [sync EXCEPT ![s].pc = next, ![s].include_groups = FALSE]
     \/ bound = "no" /\ UNCHANGED bound /\ End(s)
  /\ UNCHANGED <<known, watermark, outbox, owed, carried, decisions, late, service, unlinks>>

Recover(s) == At(s, "recover") /\ MarkBooted(s, "build")
Mark(s) == At(s, "mark") /\ MarkBooted(s, "receipt")

\* build_connected_submission: the lifecycle of every group, in a bootstrap only.
Build(s) ==
  /\ At(s, "build")
  /\ sync' = [sync EXCEPT ![s].pc = "send",
       ![s].payload = IF sync[s].include_groups THEN decided ELSE Nothing]
  /\ UNCHANGED <<binding, decisions, late, service, unlinks>>

\* sync_desktop: the service takes a bootstrap once.
Send(s) ==
  /\ At(s, "send")
  /\ \/ /\ sync[s].include_groups /\ phase = "pending_bootstrap"
        /\ phase' = "connected"
        /\ revision' = [g \in Groups |-> 1]
        /\ arrived' = arrived \cup ({sync[s].payload[g] : g \in Groups} \ {0})
        /\ Goto(s, "mark")
     \/ /\ sync[s].include_groups /\ phase = "connected"
        /\ End(s) /\ UNCHANGED <<phase, revision, arrived>>
     \/ /\ ~sync[s].include_groups
        /\ Goto(s, "receipt") /\ UNCHANGED <<phase, revision, arrived>>
  /\ UNCHANGED <<binding, decisions, late, receipts, applied, changes, foreign, unlinks>>

\* record_pulled_event_sequence of the receipt.
Receipt(s) ==
  /\ At(s, "receipt")
  /\ watermark' = TRUE /\ Goto(s, "list")
  /\ UNCHANGED <<bound, known, outbox, owed, carried, decisions, late, service, unlinks>>

\* pending_group_mutations, without those that wait for the user.
Pending == {[group |-> g, key |-> outbox[g].key, based_on |-> outbox[g].based_on] :
              g \in {h \in Groups : outbox[h] # NoRow /\ ~outbox[h].conflict}}

List(s) ==
  /\ At(s, "list")
  /\ sync' = [sync EXCEPT ![s].pc = "push", ![s].todo = Pending]
  /\ UNCHANGED <<binding, decisions, late, service, unlinks>>

\* Mutant: a mutation is guarded by what is known when it is sent.
GuardFresh(m) == known[m.group]
\* mutation_entry: by what was known when it was decided.
GuardOf(m) == m.based_on

\* At the service: a key is answered once, and a mutation applies only to the
\* revision it was based on.
Applies(m) == receipts[m.key] = 0 /\ revision[m.group] = GuardOf(m)
Apply(m) ==
  /\ revision' = [revision EXCEPT ![m.group] = @ + 1]
  /\ receipts' = [receipts EXCEPT ![m.key] = revision[m.group] + 1]
  /\ applied' = [applied EXCEPT ![m.group] = m.key]
  /\ arrived' = arrived \cup {m.key}

\* mutate_group: applied, answered again, or stale.
Answer(s, m, pc, r) ==
  sync' = [sync EXCEPT ![s].pc = pc, ![s].todo = @ \ {m},
             ![s].answer = {[group |-> m.group, key |-> m.key, revision |-> r]}]

Push(s, m) ==
  /\ At(s, "push") /\ m \in sync[s].todo
  /\ \/ Applies(m) /\ Apply(m) /\ Answer(s, m, "settle", revision[m.group] + 1)
     \/ /\ receipts[m.key] # 0 /\ Answer(s, m, "settle", receipts[m.key])
        /\ UNCHANGED groupState
     \/ /\ receipts[m.key] = 0 /\ ~Applies(m)
        /\ Answer(s, m, "conflict", revision[m.group]) /\ UNCHANGED groupState
  /\ UNCHANGED <<binding, decisions, late, phase, changes, foreign, unlinks>>

\* A request that outlived its sync arrives.
Arrive(m) ==
  /\ late' = late \ {m}
  /\ IF Applies(m) THEN Apply(m) ELSE UNCHANGED groupState
  /\ UNCHANGED <<binding, decisions, sync, phase, changes, foreign, unlinks>>

\* Mutant: the answer settles the group's row, whatever decision it holds.
MatchesGroup(a) == outbox[a.group] # NoRow
Matches(a) == outbox[a.group].key = a.key

Answered(s) == sync' = [sync EXCEPT ![s].pc = "push", ![s].answer = {}]

\* settle_group_mutation.
Settle(s, a) ==
  /\ At(s, "settle") /\ a \in sync[s].answer
  /\ IF Matches(a)
     THEN /\ known' = [known EXCEPT ![a.group] = Raise(a.group, a.revision)]
          /\ outbox' = [outbox EXCEPT ![a.group] = NoRow]
     ELSE UNCHANGED <<known, outbox>>
  /\ Answered(s)
  /\ UNCHANGED <<bound, watermark, owed, carried, decisions, late, service, unlinks>>

\* record_mutation_conflict.
Conflict(s, a) ==
  /\ At(s, "conflict") /\ a \in sync[s].answer
  /\ IF Matches(a)
     THEN /\ known' = [known EXCEPT ![a.group] = Raise(a.group, a.revision)]
          /\ outbox' = [outbox EXCEPT ![a.group].conflict = TRUE]
     ELSE UNCHANGED <<known, outbox>>
  /\ Answered(s)
  /\ UNCHANGED <<bound, watermark, owed, carried, decisions, late, service, unlinks>>

PullAgain(s) ==
  /\ At(s, "push") /\ sync[s].todo = {}
  /\ sync' = [sync EXCEPT ![s].pc = "state", ![s].final = TRUE]
  /\ UNCHANGED <<binding, decisions, late, service, unlinks>>

SyncStep(s) ==
  \/ StartSync(s) \/ GiveUp(s) \/ PullState(s) \/ PullGroups(s) \/ Record(s)
  \/ Recover(s) \/ Build(s) \/ Send(s) \/ Mark(s) \/ Receipt(s) \/ List(s)
  \/ \E m \in sync[s].todo : Push(s, m)
  \/ \E a \in sync[s].answer : Settle(s, a) \/ Conflict(s, a)
  \/ PullAgain(s)

Next ==
  \/ Link \/ Unlink
  \/ \E g \in Groups : Decide(g) \/ OthersChange(g)
  \/ \E s \in Syncs : SyncStep(s)
  \/ \E m \in late : Arrive(m)

Spec == Init /\ [][Next]_vars

-----------------------------------------------------------------------------

SyncRecords ==
  [pc : Steps, final : BOOLEAN, include_groups : BOOLEAN, phase : Phases,
   pulled : [Groups -> Nat], payload : [Groups -> {0} \cup Keys],
   todo : SUBSET Mutations, answer : SUBSET Answers]

\* The type invariant of the binding, the syncs and the service.
TypeOK ==
  /\ bound \in {"no", "linked", "booted"} /\ watermark \in BOOLEAN
  /\ known \in [Groups -> Nat] /\ outbox \in [Groups -> Rows]
  /\ owed \in [Groups -> {0} \cup Keys] /\ carried \in [Groups -> {0} \cup Keys]
  /\ decided \in [Groups -> {0} \cup Keys] /\ count \in {0} \cup Keys
  /\ basis \in [Keys -> Nat]
  /\ sync \in [Syncs -> SyncRecords]
  /\ late \subseteq Mutations
  /\ phase \in Phases /\ revision \in [Groups -> Nat] /\ receipts \in [Keys -> Nat]
  /\ applied \in [Groups -> {0} \cup Keys] /\ arrived \subseteq Keys
  /\ changes \in Nat /\ foreign \in [Groups -> Nat] /\ unlinks \in Nat

\* A decision recorded for delivery reaches the service or stays in the outbox,
\* whatever syncs push, settle, repeat or lose it (settle_group_mutation).
NoDecisionLost ==
  \A g \in Groups :
    owed[g] # 0 => outbox[g].key = owed[g] \/ owed[g] \in arrived

\* A mutation is applied only over changes the user had been shown when
\* deciding: nobody else's change of a group is overwritten unseen.
GuardedByWhatWasSeen ==
  \A g \in Groups : applied[g] # 0 /\ foreign[g] > basis[applied[g]]
                    => foreign[g] > receipts[applied[g]]

\* At the service no decision of this desktop gives way to an older one of its
\* own, replaced, repeated or late as it may be.
NewerStands == [][\A g \in Groups : applied'[g] >= applied[g]]_vars

\* While a site stays bound the revision known of a group never falls, in
\* whatever order pulls and answers are recorded (raise_group_revision).
KnownNeverFalls ==
  [][bound' # "no" => \A g \in Groups : known'[g] >= known[g]]_vars

\* Whatever is lost, repeated, late or sent by two syncs at once, a decision takes
\* effect at the service in one step, once, and on the revision its user saw
\* (mutate_group, mutation_entry, settle_group_mutation).
Register == INSTANCE GroupRegister WITH open <- phase = "connected", taken <- count,
                                        seen <- basis, effect <- receipts, last <- applied
RegisterKept == Register!Spec

\* "Connected, but bootstrap has not committed. The bootstrap payload carries
\* this group's state already." (db/connected_outbox.rs:127): a decision left to
\* the bootstrap is with the service once the site accepts mutations.
CarriedDecisionsArrive ==
  bound = "booted" =>
    \A g \in Groups : carried[g] # 0 => carried[g] \in arrived \/ owed[g] > carried[g]

=============================================================================
