# SiteCMD: a verification project

TLA+ models of the stateful core of SiteCMD (the desktop application under
`src/apps/desktop`, with its MCP server under `src/apps/mcp-server`), the TLC
runs that check them and the TLAPS proofs about them. Paths below are relative to
`src/apps/desktop/src-tauri/src/` unless they start with `src/`.

Check one run: `tlc -workers 2 -config MCScanExecution.cfg MCScanExecution.tla`.
Check a module of proofs: `tlapm ScanExecutionProofs.tla`. `PROJECT.json` names every run,
mutant, theorem, finding and hazard, and maps each definition to its source lines.

## 1. The system

SiteCMD scans a web site and the project behind it, keeps the findings as issues,
hands an issue to a coding agent, and verifies the fix. One desktop process owns
one SQLite database; the MCP server is a second process on the same file.

### Components

| Component | State it keeps | Operations | What is hard | What makes it correct |
|---|---|---|---|---|
| Cancellation registry (`core/scan_control.rs`) | three sets of request ids, a mutex each | register, cancel, is_cancelled, drop | locks taken one after another by threads that race | a cancel is never lost, and never leaks into another scan |
| Scan executions (`commands/scan/execution.rs`, `verification.rs`, `db/scan_executions.rs`) | one parent row per user-visible scan, with a status per component (Web, Code) | admit, start, collect, settle, cancel before start, link score | each step a transaction of its own; any may fail or time out and be applied later; retries join | one collector per key; status, components and evidence agree; settled history is frozen |
| Retention (`db/scan_retention.rs`, `db/retention.rs`) | the same rows | count retention after each call, daily sweep of abandoned rows | runs beside calls of the same scope | forgets only settled rows beyond the newest of their class, or abandoned ones |
| Run persistence (`db/scan_runs.rs`, `commands/scan/multi_scan.rs`, `db/scan_run_projection.rs`) | runs, findings, work items | persist a run, projection within its coverage | pages commit before the scan ends | partial evidence never looks complete; a run resolves only what it covered |
| Database worker (`db/mod.rs`) | a FIFO of closures over one connection | execute, run, and their `_mut` forms, each with a timeout | a timed-out operation stays queued and runs later | a late operation does no harm |
| Agent requests (`background/agent_request_watcher.rs`, `db/agent_requests.rs`, `src/apps/mcp-server/src/db_agent_requests.ts`) | a queue of rows two processes write | insert, reconcile, expire, claim, fulfil, settle | polling, spawned scans, panics, restarts, rows that outlive their work | each request is served at most once, answered truthfully, and answered |
| Fix attempts (`db/fix_attempts.rs`, `background/fix_attempt_watcher.rs`, `src/apps/mcp-server/src/db_fix_attempts.ts`) | one row per attempt, with one active row per target | brief, request verification, verify, recheck after deploy, cancel, expire | lists read before awaits; two tables written one after the other | only SiteCMD marks a fix verified, and only after it looked |
| Work items and issue states (`db/work_items.rs`, `db/issue_states.rs`, `db/regressions.rs`) | occurrences, group decisions | observe, resolve, reopen, ignore, verify | decisions and runs in either order | a decision expires when the finding is observed again, and only then |
| Verified-good baselines, score snapshots | latest decision per site, score history | observe, record | written after the run, best-effort | never claim more than the run proved |
| Scan scheduler (`background/scan_scheduler.rs`), integration scheduler (`core/integration_scheduler.rs`) | next run, last poll | run due work, immediate polls | work longer than its period, failures | nothing due is skipped for ever or run twice at once |
| Connected service (`db/connected_*.rs`, `connected_*.rs`) | outbox of decisions, submission sequence, scope revisions, credentials | push, pull, settle, conflict, rotate, recover | unreliable delivery, revisions | nothing acknowledged that was not sent as it is now |
| Licensing (`licensing/`) | one license row | activate, validate, deactivate | offline grace, clock | entitled exactly while the license is |
| Remediation catalog (`catalog/`, `background/catalog_refresh.rs`) | a pack and a high-water mark on disk | fetch, verify, activate | crashes between two files | never rolls back, never loses the last pack |
| Privileged broker (`commands/privileged_command_broker/`), OAuth (`commands/oauth.rs`) | pending tokens and flows | issue, confirm, consume, expire | late and repeated answers | used at most once, for what it was issued for |
| Keyring (`keyring/`) | secrets in the system's keychain | store, migrate, delete | steps that fail one by one | no secret lost between two stores |
| Hidden webview analyzer (`webview/`) | one webview, chunked results | navigate, inject, collect | deferred navigations, late chunks | a result belongs to the page that was asked for |
| Network policy, HTTP and DNS (`network_policy.rs`, `http_client.rs`, `dns_cache.rs`) | caches | classify, fetch | - | functions of their input |
| Engine, checks, code-scan rules, scoring, reports, updates | none | pure functions over a page or a project | - | fixtures and parity tests |
| Events, alerts, notifications, webhooks | rows and best-effort deliveries | record, dismiss, deliver | - | tolerate loss by design |
| CLI (`cli/`), frontend (`src/apps/desktop/src/`), MCP tools, packaging | views over the above | - | the frontend's scan bridge, the CLI's watch loop | - |

### How they interact

The frontend, the tray, the scan scheduler and the agent-request watcher all call
`run_scan_execution_internal`; the fix-attempt watcher and the Verify buttons call
`run_bounded_web_verification`. Each registers in the cancellation registry,
admits a row, and writes through the database worker; the collectors look at the
registry, commit runs, and the projection of a run changes the work items that
issues, scores and fix attempts are read from. Completion is announced as events.
The MCP server reads the database, inserts agent requests, and updates fix
attempts up to `verify_requested`. Background loops run under
`core/supervised_loop.rs`, which rebuilds a loop that panics.

## 2. The modules

| Module | Models | Stands on |
|---|---|---|
| ScanControl | the cancellation registry, lock by lock | - |
| ScanExecution | the execution table and its callers | ScanControl's `is_cancelled`, as a flag |
| ScanExecutionInv, ScanLedger, ScanExecutionLedger | inductive invariant, abstract ledger, refinement mapping | ScanExecution |
| RequestBook | what an agent may rely on about its request | - |
| AgentRequests | the queue between the MCP server and the desktop | a scan as a task that ends; implements RequestBook |
| IssueGroups | what the rest of the system relies on about an issue group | - |
| WorkItems | the issue rows, coverage and projection, the Verify command | implements IssueGroups |
| FixAttempts | attempts and their watcher | IssueGroups' reobservation |
| GroupRegister | what the service promises of a group: a register of revisions | - |
| ConnectedSync | decisions owed to the connected service | the service, external; implements GroupRegister |
| Licensing | license row, keys, credential, owed releases, two locks | provider and catalog service, external |
| Catalog | the signed pack on disk | the catalog service, external |
| MC* | the instances TLC runs | |
| *Proofs | theorems, one module per component | |

### ScanControl: `core/scan_control.rs`

`running`, `cancelled` and `pending` are the three sets; `exec` and `cancel` are
program counters of the executions and of the threads inside `cancel_scan`. Each
locked statement is an action: `begin_request` is `BeginInsert`,
`BeginTakePending` (the lookup consumes), then `BeginApplyPending` or
`BeginClearStale`; `request_cancel` is `CancelReadRunning`, `CancelWrite`;
dropping the guard is three removals. A history variable, `owed`, remembers
which executions have a cancel that straddled nothing. An execution is its request
id, because ids are minted once (`useScan.ts` keeps its counter, the backend
allocates above its range); what a drop would do to a reused id is not reached.

### ScanExecution: the execution table and its callers

`rows` is `scan_executions` by id, with the status of each component and what of
its evidence is committed (none, some, all). A caller is one invocation of
`run_scan_execution_internal` or `run_bounded_web_verification`; `pc`, `at`,
`own`, `result` are its locals, and the phases follow the code:

    admit -> precheck -> start -> collect -> finish -> gate -> start ... -> link -> prune -> done

`DbAdmit`, `DbStart`, `DbPersist`, `DbFinish`, `DbCancel` and `DbPrune` are the
statements of the transactions, guards included. A caller blocks on the worker,
so a call and its reply are one action, taken when nothing older is queued
(`InTurn`). A call that fails leaves the caller where `?` leaves it
(`CallFails`, `PersistFails`); when it failed by timing out, its operation is
appended to `backlog` and `DrainBacklog` applies it later, with whatever the
caller did since. `Crash` ends the process: calls, flags and queue are gone, rows
stay. `RowAges` is time: a settled row leaves the 15-minute retry window, an
abandoned open one passes the sweep's cutoff.

ScanExecutionInv states the inductive invariant. ScanLedger is the abstract
specification: per idempotency key one entry, whose evidence accumulates while it
is open and which settles once, with an outcome its evidence supports.
ScanExecutionLedger holds the refinement mapping: an execution's evidence is what
its row shows, and what its caller holds and has not written yet is not in it.

Abstractions, each named where it bites:
- "incomplete" is the code's `complete` with a detail (pages missing, or a failed
  browser layer): the outcome differs, so the model keeps it apart;
- a page set has none, some or all of its evidence, not a list of pages;
- `component_failure_status` reads the error's text; the model says "cancelled"
  only for a collector that saw the flag;
- retention orders by `started_at, id`; the model by id, as time does;
- no call and no queued operation lasts until the sweep's cutoff of days
  (`Referenced`); a call may well outlast the retry window;
- one scope (project and environment), since retention never crosses scopes;
- a panic of one call is not told apart from a death of the process;
- `release_scan_execution_before_start` is called by tests only.

### RequestBook and AgentRequests: the queue between the MCP server and the desktop

`status`, `kind` and `stale` are the rows of `agent_requests`; `wpc`, `todo`,
`gate`, `claimed` and `outcome` the watcher's locals; `tasks` the scans it
spawned; `starts` and `done` record what was started and completed for a request.
Each statement of `db/agent_requests.rs` is guarded on the row's status as its
SQL is. The watcher's tick is a chain of actions, one per database call, so that
scans, insertions, ageing, a panic or a death fall between any two. `late` is the
worker's queue of timed-out operations. The scan a request starts is ScanExecution's
business; here it is one task that ends well or badly and settles its row.

RequestBook is what the agent that asked may rely on, request by request: it is taken
up once or it expires; what was taken up is begun at most once, fails, or is fulfilled
when its work is done; an answer stands. Work may be begun or end after its request was
answered, and then changes no answer. The mapping is by name (`status`, `starts`,
`done`); the watcher, its lists and gate, the scans in flight, the age of rows and the
worker's queue are not in it, and a statement that finds its row settled is a stutter.

### IssueGroups and WorkItems: findings, coverage, and the life of an issue

IssueGroups is the abstract specification: the groups that are open, a lifecycle
per group, and three things that happen: a batch is committed, the user decides,
a group is observed again (which makes a regression of a verified group, ends a
user's claim or "ignored", and leaves "snoozed" and "blocked" as they are).

WorkItems is how the code keeps that promise. `open` is the rows of `work_items`
with `resolved_at` NULL, one per producer and route. A batch of a page scan, a
multi-page session, a code scan or a poll carries what it found and a coverage
manifest (`Derive`, `Covers`, `ExceptedOn` follow the engine's `coverage.rs`):
`Project` writes what was found, closes what the manifest proves gone, and moves
the lifecycles in the same transaction. `verify` is the Verify command between its
awaits: look the rows up, run each engine once, look again, mark. `verdicts` and
`gone` are history: what the last batch that really looked said of a row, and
which groups some verification has seen absent. WorkItems says what "looked"
means without the manifest (`SpeaksFor`), so that coverage is checked against it.

A batch commits at any time with any outcome: a run that started long ago is not
told apart from one that started now, as the code does not compare them.

### FixAttempts: the rows, the agent and the watcher

`status`, `target`, `idle`, `waited`, `creating` and `fetched` are the rows of
`fix_attempts` and what is known of their age; the user creates and cancels, the
agent fetches the brief and asks for verification. `watcher` is the tick in
flight with its position, its list, whether its Code scan ran, and its verdict:

    expire -> list -> start -> check | refuse -> settle -> sources -> touch -> recheck
                                                        -> write -> mark -> (sleep) expire

Both lists are read once and worked off with awaits in between, so any step of
the user, the agent, another run, the clock or a death falls between any two.
`checked` is history: the asked attempts whose check has run since. Time goes in
units of ten minutes, the interval of the heartbeat, so a day is 144 of them.

### ConnectedSync: what is owed to the connected service

`binding`, `known`, `outbox` and the local decisions are the tables; a sync is the
chain of calls of `commands/connected.rs` with what it read before each: pull the
state and the groups, record them, recover or build the bootstrap payload, send,
mark, take the receipt, list the outbox, push, settle or record the conflict, pull
again. A request may outlive its sync and arrive later (`late`), an answer may be
lost (`GiveUp`), the site may be unlinked and linked again, others change the same
group at the service (`OthersChange`). The service is external: per group a
revision, a guard that refuses a push based on another, and a receipt per key, so
that a repeated push is answered as the first.

GroupRegister is what all of this amounts to for the user who decides: a register on
which a decision takes effect in one step, at most once, after every older one of the
group, and only on the revision that was shown when it was taken. The mapping is by
name (`seen` is `basis`, `effect` is `receipts`, `last` is `applied`); the bindings,
the outbox, the syncs and the wire are not in it. What a bootstrap payload carries
is the register's first revision.

### Licensing: two locks and what must be given back

An operation (activation, replacement, deactivation, the loop's drain and its
tick) is the list of calls it still has to make, each with the identity it makes
it for. `mutation` and `credential` are LICENSE_MUTATION and CREDENTIAL_LOCK; a
call that needs one is an action that takes it. `row`, `key`, `token`, `nonce` and
`owed` are what is stored, `seats` and `creds` what the two services keep. An
answer may be lost with or without its effect, a write may fail or be ambiguous, and
either service may refuse for good (a subscription that is over, a key that is
disabled), after which nothing retries. `abandoned` is history: the releases that
were refused, or that could not be recorded after a lost answer ("this seat is
stranded until support frees it"). The properties allow these and say that nothing
else is stranded.

`Obtain` is `obtain_token`: a nonce that was answered before brings no token again,
so the installation is released and a fresh nonce tried once; whether the pending
nonce stays afterwards follows `nonce_disposition` and the caller, who keeps it until
the token is stored. Minting, its answer and the build's knowledge of the variant
are one step, `persist_generation` two (the key, then the row), with what it does to
undo a failed save in the second; that this undoing fails too is not modelled.

No death of the process is modelled here: what an operation holds in memory when it
dies is gone, and the code keeps no record of it. A keyring record that cannot be
decoded is not modelled either.

### Catalog: the tick, two files and a floor

`pack` is the pack on disk, `floor` the high-water mark, as a reader sees them; a
tick asks for the manifest, downloads, verifies, raises the floor, asks for its
directory to be synced, publishes the pack and asks for that again. `sync_dir` is best
effort: off unix it does nothing, on unix it drops its errors, and `activate` returns
Ok whatever it did. So each sync takes effect or does not (`SyncDir`), `synced` is
what the last effective one left, and a power loss takes each file back to that or
leaves it. `activated`, the highest release whose activation returned, goes down with
a power loss as far as that could take the files back, and not further: a release
that was synced stays activated. The service may answer with an old manifest or other
bytes, and the process may die between any two steps. One writer at a time, as in the
code. Damage to the floor's own file is not modelled: it is read as no floor.

## 3. The runs

| Run | Checks | Instance | States | Shows |
|---|---|---|---|---|
| scan_control | ControlInv, CancelHonoured | two executions, two cancelling threads | 54 thousand | no cancel is lost that straddles neither registration nor drop |
| scan_execution | IInv, StatusCoherent, EvidenceBacked, OneCollector, SettledFrozen, RetentionSafe | an old visible row, two calls, two new keys, one fault, one death, one row of a class kept | 1.7 million | what the proofs rest on, and what follows |
| scan_execution_live | Settles, NeverStuckOpen, LedgerKept | one key, mixed plans | 164 thousand | each execution settles unless a fault comes first, none stays open for ever; the table implements ScanLedger |
| agent_requests | ServedOnce, FulfilledIsDone, SerializedWhileQueueHolds, SettledFinal, BookKept, RequestsSettle | two requests, two faults, a panic, a death | 271 thousand | nothing is served twice or answered falsely, each request is answered; it implements RequestBook |
| work_items | OpenIsLastVerdict, RegressedWasGone, VerifiedWasGone, Resurfaces, GroupsPromise | two pages, five producers of one canonical check and its neighbours | 112 thousand | rows are what the last look said, and implement IssueGroups |
| fix_attempts | OneActivePerTarget, GroupMarkedByAttempt, SettledFinal, StillFailingWasChecked, ExpiresUnattended | two attempts, every kind of issue, two files, no fault | 1.4 million | the watcher against user, agent, runs and clock |
| fix_attempts_live | Settles | one attempt, one fault, one death | 115 thousand | every attempt ends |
| connected_sync | NoDecisionLost, GuardedByWhatWasSeen, NewerStands, KnownNeverFalls, RegisterKept | one group, two syncs, two decisions, one foreign change, one unlink | 2.2 million | no decision lost, none pushed over what its user had not seen; it implements GroupRegister |
| connected_carried (violated) | CarriedDecisionsArrive | one decision | | a decision during bootstrap is in neither payload nor outbox |
| licensing | CredentialHasHandle, SeatHasHandle, Settles | two keys, two commands and the loop, one fault | 445 thousand | whatever is taken at a service can be given back, but for what was refused or could not be recorded, and is |
| licensing_locks (violated) | NeverWedged | the same | | the two locks are taken in both orders |
| catalog | TypeOK, FloorStands, NeverOlder, Heals | four releases, one unusable, four faults, syncs that may do nothing | 12 thousand | the floor stands but for what a power loss takes back unsynced, no older pack returns, damage heals |

Every property of a passing run has a mutant: a definition next to the one it
would replace, changed as a plausible bug would change it, that the run catches.

**Bounds.** ScanControl has no counter. In ScanExecution two callers on one key
are what a retry is, the second key what retention needs to forget the first; one
fault shows each late operation against each continuation; the
old row, as an earlier call leaves it, is what the first new visible scan makes one too
many, what the pass of a verification meets and must leave alone, and what a key is
freed by to be admitted again. One row of a class is kept; that the count is the
code's for any other is the proof's. In AgentRequests two
requests make a queue whose rows overtake each other, two faults let a late claim
meet a late settlement. In WorkItems two pages are what a session needs to cover
one and miss the other; the five producers are two Web checks, a Code rule, a session
check and a poll over two canonical checks, one of them in a family, so that an
engine that speaks for its own rows must not close those of another. In
FixAttempts a second attempt is what replaces the first; a Code rule in two files
tells a file's attempt from a group's; three units are the shortest day in which
the heartbeat matters (with two, an attempt could expire between two ticks that
both came in time; the code's day has 144). ConnectedSync needs two syncs to have
an answer settled by one while the other pushes, two decisions for the newer to
overtake, one foreign change for a conflict; groups do not interact. In Licensing
two keys make a replacement, and with a cap of one seat an unreleased seat is
felt; with two faults CredentialHasHandle does not hold (see 5). A lost answer, a refusal,
a failed write and a lapse are a fault each; a record that cannot be written after a
lost answer is none of its own. In Catalog four releases with
one that this build cannot read give a skip in the middle, and four faults let a
stale manifest, wrong bytes, a death and a power loss all meet. The proofs remove the
bounds for all safety; the one that stays is the single fault of CredentialHasHandle,
which is a limit of the code and not of the search.

The run fix_attempts has neither a failed call nor a death: what these leave behind is
the question of fix_attempts_live, and the proofs allow any number of both.

Deadlock is checked in connected_sync and catalog. The other runs say CHECK_DEADLOCK
FALSE: their instances end because ids, rows, requests, attempts or commands run
out, work_items because the user's choices do, and Licensing may wedge (see 5).

**Fairness.** ScanExecution: each call's task is scheduled and its collector
returns (pages and checks have timeouts), the worker drains its queue, time
passes, the sweep runs (at startup and daily). AgentRequests: the desktop is
started again after a death, watcher and spawned scans make progress, rows grow
old. FixAttempts: the supervised loop ticks and the clock runs. Catalog: the tick
goes on, and faults are finitely many. These are weak. Licensing assumes strong
fairness of each command and of the loop: each waits for a tokio mutex again and
again, and those mutexes are handed over in order of arrival. Nothing is assumed
of users, agents, other runs, failures, panics or deaths.

## 4. The proofs

Each component has an inductive invariant, checked by TLC first, proved in
`Invariance` for every value of the constants, and the properties follow from it.
A proof has a lemma per kind of change, then one per action, then `Invariance`.
The assumptions are the named ASSUMEs of the module it is about, and no others.

**ScanControlProofs.** The core relates a canceller's stale reading to what the
execution has done since: a canceller that saw no registration was ahead of it,
and an intent that is owed is parked before the insert and consumed after it.

**ScanExecutionProofs.** An execution is coherent after a settlement only if the
component being settled is the one its caller collected, and in order: `WorkInv`
says what a call in each phase knows of its row. And a late operation meets a row
its caller no longer watches: `BacklogInv` says that a call with a queued
settlement is over, that a queued settlement is the last its execution gets and
still finds its evidence, and that a queued write finds its component running and
is followed, if at all, by a settlement "failed". `TableInv` gives unique keys
and coherent, backed rows; `CallerInv` says whose row is whose.

`RetentionIsSafe` counts: if a pass removes a row, take the newest row of its class that
it removes; the rows newer than that are the retention count at least, and none of
them goes (`KeptNewer`).

The last part of the module is the refinement, `LedgerImplemented`: ScanExecution
implements ScanLedger. What an entry shows must only grow, which needs `EvidenceInv`: a component never
started has committed nothing, one that is being collected or has a write queued
has not committed everything, and there is one such write at a time. Then each
step of the table admits, gathers, settles or forgets an entry, or stutters.

**AgentRequestsProofs.** `StartedOnce`, `AnswersAreTrue`, `OneScanPerQueue`,
`SettledIsFinal` and the refinement `BookImplemented`. Nothing was started for a row that is up for claiming, or
claimed and not reached; a creation nobody waits for any more is the only one of
its request; whoever is about to say "fulfilled", in this tick or in a statement
still queued, did the work; and one row at a time holds the gate. The refinement adds
`AnswerInv`: work is completed where it was begun, and every row that is about to be
answered, by the list of orphans or by a statement still queued, was claimed, which is
why a late failure never answers a request nobody took up.

**WorkItemsProofs.** Coverage is shown exact: what a batch closes is what it
looked at and did not find, for each kind of batch and for the exceptions its
manifest declares. From there `open = verdicts` is kept by every step, a
regression was really gone, Verify marks only what its last look found gone, and
`GroupsImplemented` shows each step to be one of IssueGroups or a stutter. The
assumptions say that a group's key is its own name if it is a group's at all, that
there is a page, and that the user's choices are decisions.

**FixAttemptsProofs.** No step revives an attempt or takes an attempt's verdict
away; at "mark" the first of the list is verified. `FailingWasLooked` rests on
`CheckedInv`: an attempt being verified was looked at, is about to be, or its
group had no finding to look for, and a finding that appears is one a run has just
looked at, which looks at every asked attempt of its group. `AttendedLives` rests
on `AttendedInv`: how long a verifying attempt can have been idle, by whether the
tick in flight has passed it and whether a tick ended in this unit; two units at
most, so a day must have three.

**ConnectedSyncProofs.** What is in flight was based on what its user saw, and the
service has moved past it if it applied anything newer; the row of the outbox is
owed, or its decision has been answered. Then no decision is lost, none is pushed
over what was not seen, and what is known of a group only grows.
`RegisterImplemented` is the refinement: an answered push, or a request that outlived
its sync, either is a decision taking effect or changes nothing of the register.
`DecidedOnWhatWasSeen` follows from it and the invariant: the revision a decision
made is the one right after the revision its user had been shown.

**CatalogProofs.** The floor is never below its synced copy nor below an activated
release, what a tick has verified is never below an activated release, and the floor
is at the manifest before the pack is published: a crash between the two files leaves
a floor that refuses the older pack. Of the synced copy nothing more is assumed, since
a sync may do nothing; a power loss leaves the floor at that copy at least, which is
where `activated` goes with it.

**LicensingProofs.** An operation is a list of calls, and what it holds in memory is
what its list names, so the invariant is about lists. It has six parts:
- `Base`: each list is one of those the code can have left, in order, with its calls
  naming the identity the operation is about (`OpOK`); no name is ahead of the
  mint's counter; whoever has a lock is at a call that takes it, and what the lock
  protects stands still meanwhile (`HolderOK`).
- `Identity`: an instance belongs to one key, wherever the two are named together.
  Without it the release of one key's instance could be taken for another's.
- `Settled`: what the loop has on its list as given back is gone at the provider, or
  was refused and is abandoned, so that subtracting the list takes no handle of a
  seat away. A provider never mints
  an instance twice; a credential can be obtained again, and there this fails.
- `Moved`: once a replacement has asked for its new seat, the old one is being given
  back: the row may be overwritten.
- `Seated`: a seat has a handle, `SeatHasHandle` in terms of lists.
- `Obtaining`: a credential is asked for only for an identity whose release is
  provided for, checked under the credential lock and good until the answer.

A release that was refused for good or could not be recorded is in `abandoned`, which
only grows, and counts as a handle: the theorems are about stranding in silence.
`SeatsHaveHandles` follows for any number of faults. For credentials the same
induction goes through every step but one, and `StrandedOnlyBySettle` says so: for
any number of faults, only `Settle` can take the last handle of a credential, and
only if a release on its list was delivered and has been undone since
(`OwedAgain`). `CredentialsHaveHandles` assumes one fault at most, and shows with
`OneFault` that this cannot come about: what is owed is owed because of the fault,
and no second one is left to undo a delivered release and owe it again.
`ShortWaits` is about the locks: a holder never waits for the other lock, except in
a check of the generation, which waits for LICENSE_MUTATION, and in the record of an
ambiguous clear, which waits for the credential lock. Both at once is `Wedged`, the
cycle of licensing_locks, and it is the only one: any chain of three waits is it.
The assumptions are that the loop is no command, that "no key" is none of the keys,
that there is a key, and that at least one instance may be minted.

Only model-checked: the liveness properties (Settles, NeverStuckOpen, RequestsSettle,
Heals), which are out of the prover's reach. NeverWedged and CarriedDecisionsArrive
are false, and a run each shows how.

## 5. Findings

Two places where the code does other than its own text says, with the run that
shows each (PROJECT.json quotes the lines):
- connected_carried: `record_group_decision` leaves a decision on a site that is
  bound but not bootstrapped out of the outbox, because the bootstrap payload
  "carries this group's state already"; the payload may have been built before the
  decision, or never sent again.
- licensing_locks: LICENSE_MUTATION is "never held while acquiring" the credential
  lock, but a deactivation whose clear is ambiguous does that
  (`licensing/commands/license_lifecycle_deactivation.rs:145`).
Noted while modelling, without a run of their own:
- `core/scan_control.rs:73`: an intent parked just after it was looked for is
  lost, the race the doc comment says is covered; `:58`: a cancel answered
  "running" can be erased by the registration's clean-up. CancelHonoured excludes
  exactly these two windows.
- `commands/scan/execution.rs:498`: when a settlement fails after a cancellation,
  the execution stays open until the sweep deletes it.
- `db/scan_retention.rs:140`: retention removes a settled key with its row, and a
  later request with that key collects again.
- `background/agent_request_watcher.rs:51`: expiry opens the scan gate while the
  expired request's scan runs; `:115`: a claim applied late leaves a running row
  nobody works on, which the MCP server reports as one that "expired before SiteCMD
  could start it" (`src/apps/mcp-server/src/server.ts:1008`).
- `background/catalog_refresh.rs:355`: the drain of owed releases subtracts what it settled
  "so concurrent appends survive", but a slot is a key and an installation. A
  replacement's first release is lost and owed; the drain delivers it; the tick of
  another activation, which checked the generation just before it was replaced,
  obtains a credential for the old identity; the replacement's sweep asks for it
  back, gets no answer and records it in the same slot; the drain clears the slot.
  The credential lives and nothing will release it. It takes two faults, hence the
  bound of the licensing run; `StrandedOnlyBySettle` says that it is the only way.
- `licensing/commands/license_lifecycle.rs:178`, `:201`, `background/catalog_refresh.rs:257`,
  `:280`: a release that is refused for good or cannot be recorded is given up in the
  log; the seat or the credential may be live. The properties count these apart.
- `catalog/store.rs:101`: where the directory sync does nothing, a power loss may take
  floor and pack back below a release whose activation had returned.

## 6. What could come next

1. The rotation of the connected site's fingerprint key (`commands/connected.rs:497`,
   `db/connected_sites.rs:256`): the keyring's promotion comes before the
   database's, so a death between deleting the pending slot and completing the
   rotation leaves key and version apart, and an abort after a lost receipt of a
   completed rotation deletes the committed key.
2. The scan scheduler and the integration scheduler: what is due around a run that
   fails or outlives its period.
3. The privileged broker and OAuth: single use under late and repeated answers.
4. Keyring migration; the analyzer's late chunks; stepwise migrations and restore.
5. An abstract specification of the fix attempts, with a refinement proof like those of
   ScanLedger, IssueGroups, RequestBook and GroupRegister.

## 7. Not modelled, and why

Stateless, with fixtures and parity tests of their own, and by far most of the
lines: web checks, code-scan rules, scoring, reports and exports, updates and
lockfile parsers, the engine's HTTP, network policy. I/O over external services:
adapters, webhooks, OAuth's provider, the keychain. Best-effort by design: events,
alerts, notifications, verified-good baselines and score snapshots. Views: the
frontend, the CLI, the MCP server's read tools. Packaging and release scripts hold
no run-time state. Because of these the definitions here stand for a small share of
the repository's lines, and for most of its shared mutable state.

Stateful and left out: the two schedulers, broker, OAuth flows, keyring migration,
the analyzer, fingerprint-key rotation and the submission sequence, database
opening, migrations, backup and restore (see 6).

Inside the modelled parts: a Verify whose route is redirected claims the route it
asked for and the one that answered, and WorkItems keeps one; a site that is connected
again is the same site, so a sync of an old site that records into the binding of a
new one is not represented in ConnectedSync; snoozing ends only when a row is read, so it is no
action; the delivery of scopes to the connected service; the deletions by age of
the daily sweep other than open executions; what the user sees of any of it.
