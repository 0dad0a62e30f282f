----------------------------- MODULE WorkItems -----------------------------
(***************************************************************************)
(* The findings of one project environment: the open rows of work_items,   *)
(* the runs and integration polls that open and close them, the lifecycle  *)
(* of their groups and the command that verifies one group.                *)
(*                                                                         *)
(* A run may close a row it did not report only when the coverage it       *)
(* derived from its own outcomes covers the row (engine coverage.rs,       *)
(* db/scan_run_projection.rs).  What a run observed is collected before it *)
(* commits and never compared with what was committed since: a batch is    *)
(* any batch, at any time.                                                 *)
(***************************************************************************)
EXTENDS FiniteSets, Functions

CONSTANTS Routes,     \* the pages of the environment
          Producers,  \* the checks that emit findings
          SourceOf,   \* the engine that runs each: "web", "site", "code" or "poll"
          GroupOf,    \* the canonical check a producer's findings are filed under
          KeyOf,      \* the claim key of a canonical check: its family, or itself
          Skippable,  \* bound: producers that may fail to reach a verdict
          Choices     \* bound: the decisions the user takes, per group

NoRoute == "none"
Sources == {"web", "site", "code", "poll"}
Groups == Range(GroupOf)

ASSUME SourcesAssumption == NoRoute \notin Routes /\ SourceOf \in [Producers -> Sources]
ASSUME GroupsAssumption ==
  DOMAIN GroupOf = Producers /\ DOMAIN KeyOf = Groups /\ Skippable \subseteq Producers
\* A family's prefix is no check's id, and a session has pages.
ASSUME KeysAssumption == \A g \in Groups : KeyOf[g] \in Groups => KeyOf[g] = g
ASSUME RoutesAssumption == Routes # {}

VARIABLES open,       \* rows with resolved_at NULL
          lifecycle,  \* the lifecycle row of every group
          verify,     \* the verify_issue command in flight
          verdicts,   \* rows the last run to speak for them reported
          gone        \* groups some verification has seen absent

vars == <<open, lifecycle, verify, verdicts, gone>>

\* One row per (source, signal_id): a web finding per page, the others have no route.
Place(p) == IF SourceOf[p] = "web" THEN Routes ELSE {NoRoute}
Rows == UNION {[producer : {p}, route : Place(p)] : p \in Producers}
GroupsOf(rows) == {GroupOf[w.producer] : w \in rows}
RowsOf(source) == {w \in Rows : SourceOf[w.producer] = source}
ProducersOf(source) == {p \in Producers : SourceOf[p] = source}

IG == INSTANCE IssueGroups WITH open <- GroupsOf(open)

ASSUME ChoicesAssumption == \A g \in Groups : Choices[g] \subseteq IG!Decisions

Jobs == [source : Sources, route : Routes \cup {NoRoute}, producers : SUBSET Producers]
Idle == [phase |-> "idle"]

TypeOK ==
  /\ open \subseteq Rows
  /\ lifecycle \in [Groups -> IG!Lifecycles]
  /\ verify \in {Idle} \cup
       [phase : {"run", "recheck", "mark"}, group : Groups, todo : SUBSET Jobs, queued : BOOLEAN]
  /\ verdicts \subseteq Rows
  /\ gone \subseteq Groups

Init ==
  /\ open = {}
  /\ lifecycle = [g \in Groups |-> "new"]
  /\ verify = Idle
  /\ verdicts = {}
  /\ gone = {}

-----------------------------------------------------------------------------
(* engine coverage.rs.  `outcomes` maps the producers that ran to a status. *)

Verdicts(p) == {"fail", "pass"} \cup IF p \in Skippable THEN {"skipped"} ELSE {}

OutcomesOf(ran) == {f \in [ran -> {"fail", "pass", "skipped"}] : \A p \in ran : f[p] \in Verdicts(p)}

ClaimKeys(outcomes) == {KeyOf[GroupOf[p]] : p \in DOMAIN outcomes}
Skipped(outcomes) == {GroupOf[p] : p \in {q \in DOMAIN outcomes : outcomes[q] = "skipped"}}

\* Mutant: skipped checks are claimed like the others.
DeriveUnexcepted(kind, ok, routes, at, complete, outcomes) ==
  [kind |-> kind, successful |-> ok, routes |-> routes, checks |-> ClaimKeys(outcomes),
   exceptions |-> IF complete THEN {} ELSE {[route |-> NoRoute, checks |-> ClaimKeys(outcomes)]}]

\* `at` is where the outcomes were observed: the routes of a page, or nowhere
\* for a claim about the route set as a whole.
Derive(kind, ok, routes, at, complete, outcomes) ==
  [kind |-> kind, successful |-> ok, routes |-> routes, checks |-> ClaimKeys(outcomes),
   exceptions |->
     (IF complete THEN {} ELSE {[route |-> NoRoute, checks |-> ClaimKeys(outcomes)]})
       \cup {[route |-> r, checks |-> Skipped(outcomes)] : r \in at}]

Declared(rules) ==
  [kind |-> "project", successful |-> TRUE, routes |-> {}, checks |-> rules, exceptions |-> {}]

Names(g) == {g, KeyOf[g]}
ExceptedOn(m, route, g) ==
  \E e \in m.exceptions : e.route \in {NoRoute, route} /\ e.checks \cap Names(g) # {}

Covers(m, route, g) ==
  /\ m.successful
  /\ m.checks \cap Names(g) # {}
  /\ ~ExceptedOn(m, NoRoute, g)
  /\ \/ m.kind = "project"
     \/ route \in m.routes /\ ~ExceptedOn(m, route, g)
     \/ route = NoRoute /\ \E r \in m.routes : ~ExceptedOn(m, r, g)

-----------------------------------------------------------------------------
(* What runs hand to the projection: the rows they report and, by the        *)
(* coverage they prove, the rows that close if they are open.               *)

Failing(outcomes) == {p \in DOMAIN outcomes : outcomes[p] = "fail"}

\* resolve_covered_absences
Closes(source, found, manifest) ==
  {w \in RowsOf(source) \ found : Covers(manifest, w.route, GroupOf[w.producer])}

\* The groups a run can speak for, said without manifests: the check, or one of
\* the family it belongs to, ran, and neither it nor its family was inconclusive.
Heard(outcomes) ==
  {g \in Groups : /\ \E p \in DOMAIN outcomes : KeyOf[GroupOf[p]] = KeyOf[g]
                 /\ Names(g) \cap Skipped(outcomes) = {}}
SpeaksFor(source, places, heard) ==
  {w \in RowsOf(source) : w.route \in places /\ GroupOf[w.producer] \in heard}

\* A page: findings carry the URL it answered from, coverage also the one asked
\* for.  A failed browser stage keeps the findings and proves nothing.
PageBatch(kind, asked, answered, ok, f) ==
  LET found == [producer : Failing(f), route : {answered}]
      routes == {asked, answered}
  IN  [found |-> found,
       closes |-> Closes("web", found, Derive(kind, ok, routes, routes, TRUE, f)),
       speaks |-> IF ok THEN SpeaksFor("web", routes, Heard(f)) ELSE {}]

\* The parent of a multi-page session: its findings belong to no page.
SessionBatch(pages, complete, ok, f) ==
  LET found == [producer : Failing(f), route : {NoRoute}]
  IN  [found |-> found,
       closes |-> Closes("site", found, Derive("page_set", ok, pages, {NoRoute}, complete, f)),
       speaks |-> IF ok /\ complete THEN SpeaksFor("site", {NoRoute}, Heard(f)) ELSE {}]

\* A Code scan reports findings only and claims every registered rule.
CodeBatch(failing) ==
  LET found == [producer : failing, route : {NoRoute}]
      rules == {GroupOf[p] : p \in ProducersOf("code")}
  IN  [found |-> found,
       closes |-> Closes("code", found, Declared(rules)),
       speaks |-> RowsOf("code")]

WebOutcomes == UNION {OutcomesOf(ran) : ran \in SUBSET ProducersOf("web")}
SiteOutcomes == UNION {OutcomesOf(ran) : ran \in SUBSET ProducersOf("site")}
PageBatches ==
  {PageBatch("page", asked, answered, ok, f) :
     asked \in Routes, answered \in Routes, ok \in BOOLEAN, f \in WebOutcomes}
SessionBatches ==
  {SessionBatch(Routes, complete, ok, f) :
     complete \in BOOLEAN, ok \in BOOLEAN, f \in SiteOutcomes}
CodeBatches == {CodeBatch(failing) : failing \in SUBSET ProducersOf("code")}
Batches == PageBatches \cup SessionBatches \cup CodeBatches

-----------------------------------------------------------------------------
(* The projection.                                                         *)

\* Mutant: the commit does not look at the lifecycle of what it reports.
ApplyForgetful(seen, closed) ==
  /\ open' = (open \cup seen) \ closed
  /\ UNCHANGED lifecycle
Apply(seen, closed) ==
  /\ open' = (open \cup seen) \ closed
  /\ lifecycle' = IG!Reobserved(lifecycle, GroupsOf(seen))

Project(b) ==
  /\ Apply(b.found, b.closes)
  /\ verdicts' = b.found \cup (verdicts \ b.speaks)

CommitRun(b) == Project(b) /\ UNCHANGED <<verify, gone>>

\* Mutant: a poll reports findings without looking at their lifecycle.
PollForgetful(found, observed) ==
  LET seen == [producer : found, route : {NoRoute}]
      looked == [producer : observed, route : {NoRoute}]
  IN  /\ open' = (open \cup seen) \ (looked \ seen)
      /\ verdicts' = (verdicts \ looked) \cup seen
      /\ UNCHANGED <<lifecycle, verify, gone>>
\* An integration's poll (upsert_work_items_diff_with_scan_ref): what it did not
\* return is closed only for the signals the poll was able to observe.
PollCommits(found, observed) ==
  LET seen == [producer : found, route : {NoRoute}]
      looked == [producer : observed, route : {NoRoute}]
  IN  /\ Apply(seen, (open \cap looked) \ seen)
      /\ verdicts' = (verdicts \ looked) \cup seen
      /\ UNCHANGED <<verify, gone>>

-----------------------------------------------------------------------------
(* The user.                                                               *)

DecideGroup(g, l) ==
  /\ lifecycle' = [lifecycle EXCEPT ![g] = l]
  /\ UNCHANGED <<open, verify, verdicts, gone>>

\* verify_issue: look the group up, run the engine of every source that reports
\* it, look again, and only then write the lifecycle row.
RowsIn(g) == {w \in open : GroupOf[w.producer] = g}
JobsFor(g) ==
  {[source |-> SourceOf[w.producer], route |-> w.route,
    producers |-> IF SourceOf[w.producer] = "web"
                    THEN {v.producer : v \in {u \in RowsIn(g) : u.route = w.route}} ELSE {}] :
     w \in RowsIn(g)}

VerifyLookup(g) ==
  /\ verify = Idle /\ RowsIn(g) # {}
  /\ verify' = [phase |-> "run", group |-> g, todo |-> JobsFor(g), queued |-> FALSE]
  /\ UNCHANGED <<open, lifecycle, verdicts, gone>>

\* Sources are taken in name order; a session finding has no engine to run.
Rank == [s \in Sources |-> CASE s = "code" -> 1 [] s = "poll" -> 2 [] s = "site" -> 3 [] OTHER -> 4]
NextJob == CHOOSE job \in verify.todo : \A other \in verify.todo : Rank[job.source] <= Rank[other.source]
JobDone(job) == verify' = [verify EXCEPT !.todo = @ \ {job}]

VerifyWeb(job, f) ==
  /\ job.source = "web"
  /\ DOMAIN f = job.producers
  /\ Project(PageBatch("check_set", job.route, job.route, TRUE, f))
  /\ JobDone(job) /\ UNCHANGED gone

VerifyCode(job, failing) ==
  /\ job.source = "code"
  /\ Project(CodeBatch(failing))
  /\ JobDone(job) /\ UNCHANGED gone

VerifyPoll(job) ==
  /\ job.source = "poll"
  /\ verify' = [verify EXCEPT !.todo = @ \ {job}, !.queued = TRUE]
  /\ UNCHANGED <<open, lifecycle, verdicts, gone>>

VerifyGivesUp ==
  /\ verify # Idle
  /\ verify' = Idle
  /\ UNCHANGED <<open, lifecycle, verdicts, gone>>

\* Mutant: the group is not looked up again once the checks ran.
RecheckBlindly ==
  /\ verify.phase = "run" /\ verify.todo = {}
  /\ verify' = IF verify.queued THEN Idle ELSE [verify EXCEPT !.phase = "mark"]
  /\ UNCHANGED <<open, lifecycle, verdicts, gone>>

VerifyRecheck ==
  /\ verify.phase = "run" /\ verify.todo = {}
  /\ LET absent == RowsIn(verify.group) = {}
     IN  /\ verify' = IF absent /\ ~verify.queued THEN [verify EXCEPT !.phase = "mark"] ELSE Idle
         /\ gone' = IF absent THEN gone \cup {verify.group} ELSE gone
  /\ UNCHANGED <<open, lifecycle, verdicts>>

VerifyMark ==
  /\ verify.phase = "mark"
  /\ lifecycle' = [lifecycle EXCEPT ![verify.group] = "verified"]
  /\ verify' = Idle
  /\ UNCHANGED <<open, verdicts, gone>>

-----------------------------------------------------------------------------
Next ==
  \/ \E b \in Batches : CommitRun(b)
  \/ \E observed \in SUBSET ProducersOf("poll"), found \in SUBSET ProducersOf("poll") :
       PollCommits(found, observed)
  \/ \E g \in Groups : VerifyLookup(g) \/ \E l \in Choices[g] : DecideGroup(g, l)
  \/ /\ verify.phase = "run" /\ verify.todo # {}
     /\ \/ \E f \in OutcomesOf(NextJob.producers) : VerifyWeb(NextJob, f)
        \/ \E failing \in SUBSET ProducersOf("code") : VerifyCode(NextJob, failing)
        \/ VerifyPoll(NextJob)
  \/ VerifyRecheck \/ VerifyMark \/ VerifyGivesUp

Spec == Init /\ [][Next]_vars

-----------------------------------------------------------------------------
(* Properties.                                                             *)

\* A finding is open exactly when the last run able to speak for it reported it:
\* a page never visited, a check that was skipped or not run, a failed browser
\* stage, an incomplete session and a partial poll leave it as it was.
OpenIsLastVerdict == open = verdicts

\* "Only observed absence may make a later recurrence a regression" (vocab.rs):
\* a fix the user only claimed comes back as new.
RegressedWasGone == \A g \in Groups : lifecycle[g] = "regressed" => g \in gone

\* Only a group some verification found no finding of is called verified.
VerifiedWasGone == \A g \in Groups : lifecycle[g] = "verified" => g \in gone

\* A group that fails again is back in the list and in the score, whoever
\* observed it, unless the user snoozed or blocked it.
Resurfaces ==
  [][\A g \in Groups :
       g \in GroupsOf(open') \ GroupsOf(open) =>
         lifecycle'[g] \in {"new", "regressed", "snoozed", "blocked"}]_vars

\* The findings, their coverage and the verification keep the groups' promises.
GroupsPromise == IG!Spec
=============================================================================
