-------------------------- MODULE WorkItemsProofs --------------------------
(***************************************************************************)
(* What WorkItems promises, proved for any pages, producers, families and  *)
(* decisions: that the coverage a run derives closes exactly the rows it   *)
(* can speak for, and that the rows implement IssueGroups.                 *)
(***************************************************************************)
EXTENDS WorkItems, TLAPS

\* A web job of a verification names a page and Web checks.
JobInv ==
  verify # Idle => \A job \in verify.todo : job.source = "web" =>
    job.route \in Routes /\ job.producers \subseteq ProducersOf("web")

\* A group is marked as verified only once it was seen to be gone.
MarkInv == verify.phase = "mark" => verify.group \in gone

IInv ==
  TypeOK /\ JobInv /\ MarkInv /\ OpenIsLastVerdict /\ RegressedWasGone /\ VerifiedWasGone

-----------------------------------------------------------------------------
(* Coverage.                                                               *)

\* A batch reports rows of the environment, and closes what it can speak for and
\* does not report.
Exact(b) == b.found \subseteq Rows /\ b.closes = b.speaks \ b.found

\* A producer's group, and its rows.
LEMMA Filed ==
  ASSUME NEW p \in Producers
  PROVE  GroupOf[p] \in Groups /\ SourceOf[p] \in Sources
BY SourcesAssumption, GroupsAssumption DEF Groups, Range

\* What a row is.
LEMMA RowFields ==
  ASSUME NEW w
  PROVE  w \in Rows <=> \E p \in Producers : \E r \in Place(p) : w = [producer |-> p, route |-> r]
BY DEF Rows

\* A row's producer and route.
LEMMA RowOf ==
  ASSUME NEW w \in Rows
  PROVE  /\ w.producer \in Producers /\ w.route \in Place(w.producer)
         /\ GroupOf[w.producer] \in Groups /\ w = [producer |-> w.producer, route |-> w.route]
BY RowFields, Filed

\* A run claims a check exactly when it, or one of its family, ran.
LEMMA Claimed ==
  ASSUME NEW f, DOMAIN f \subseteq Producers, NEW g \in Groups
  PROVE  ClaimKeys(f) \cap Names(g) # {} <=> \E p \in DOMAIN f : KeyOf[GroupOf[p]] = KeyOf[g]
<1>1. ASSUME NEW p \in DOMAIN f, KeyOf[GroupOf[p]] = g PROVE KeyOf[GroupOf[p]] = KeyOf[g]
  <2>1. GroupOf[p] \in Groups
    BY Filed
  <2> QED
    BY <1>1, <2>1, KeysAssumption
<1> QED
  BY <1>1 DEF ClaimKeys, Names

\* The coverage of a page closes exactly the rows the page can speak for.
LEMMA PageExact ==
  ASSUME NEW kind, kind # "project", NEW asked \in Routes, NEW answered \in Routes,
         NEW ok \in BOOLEAN, NEW f, DOMAIN f \subseteq ProducersOf("web")
  PROVE  Exact(PageBatch(kind, asked, answered, ok, f))
<1> DEFINE found == [producer : Failing(f), route : {answered}]
           routes == {asked, answered}
           m == Derive(kind, ok, routes, routes, TRUE, f)
           speaks == IF ok THEN SpeaksFor("web", routes, Heard(f)) ELSE {}
<1>1. found \subseteq Rows
  <2> SUFFICES ASSUME NEW p \in Failing(f)
               PROVE  [producer |-> p, route |-> answered] \in Rows
    OBVIOUS
  <2>1. p \in Producers /\ SourceOf[p] = "web"
    BY DEF Failing, ProducersOf
  <2> QED
    BY <2>1, RowFields DEF Place
<1>2. ASSUME NEW w \in RowsOf("web")
      PROVE  Covers(m, w.route, GroupOf[w.producer]) <=> w \in speaks
  <2> DEFINE g == GroupOf[w.producer]
  <2>1. w \in Rows /\ w.route \in Routes /\ w.route # NoRoute /\ g \in Groups
    BY RowOf, SourcesAssumption DEF RowsOf, Place
  <2>2. DOMAIN f \subseteq Producers
    BY DEF ProducersOf
  <2>3. /\ m.kind = kind /\ m.successful = ok /\ m.routes = routes /\ m.checks = ClaimKeys(f)
        /\ m.exceptions = {[route |-> r, checks |-> Skipped(f)] : r \in routes}
    BY DEF Derive
  <2> HIDE DEF m
  <2>4. ~ExceptedOn(m, NoRoute, g)
    BY <2>3, SourcesAssumption DEF ExceptedOn
  <2>5. ASSUME w.route \in routes
        PROVE  ExceptedOn(m, w.route, g) <=> Skipped(f) \cap Names(g) # {}
    <3>1. \A e \in m.exceptions : e.checks = Skipped(f)
      BY <2>3
    <3>2. [route |-> w.route, checks |-> Skipped(f)] \in m.exceptions
      BY <2>3, <2>5
    <3> QED
      BY <3>1, <3>2 DEF ExceptedOn
  <2>6. Covers(m, w.route, g) <=> /\ ok /\ ClaimKeys(f) \cap Names(g) # {} /\ w.route \in routes
                                  /\ Names(g) \cap Skipped(f) = {}
    BY <2>1, <2>3, <2>4, <2>5 DEF Covers
  <2>7. w \in speaks <=> /\ ok /\ w.route \in routes
                         /\ \E p \in DOMAIN f : KeyOf[GroupOf[p]] = KeyOf[g]
                         /\ Names(g) \cap Skipped(f) = {}
    BY <2>1 DEF SpeaksFor, Heard
  <2> QED
    BY <2>1, <2>2, <2>6, <2>7, Claimed
<1>3. speaks \subseteq RowsOf("web")
  BY DEF SpeaksFor
<1>4. Closes("web", found, m) = speaks \ found
  BY <1>2, <1>3 DEF Closes
<1> QED
  BY <1>1, <1>4 DEF Exact, PageBatch

\* So does the coverage of a multi-page session, for the rows of no page.
LEMMA SessionExact ==
  ASSUME NEW complete \in BOOLEAN, NEW ok \in BOOLEAN, NEW f, DOMAIN f \subseteq ProducersOf("site")
  PROVE  Exact(SessionBatch(Routes, complete, ok, f))
<1> DEFINE found == [producer : Failing(f), route : {NoRoute}]
           m == Derive("page_set", ok, Routes, {NoRoute}, complete, f)
           speaks == IF ok /\ complete THEN SpeaksFor("site", {NoRoute}, Heard(f)) ELSE {}
<1>1. found \subseteq Rows
  <2> SUFFICES ASSUME NEW p \in Failing(f)
               PROVE  [producer |-> p, route |-> NoRoute] \in Rows
    OBVIOUS
  <2>1. p \in Producers /\ SourceOf[p] = "site"
    BY DEF Failing, ProducersOf
  <2> QED
    BY <2>1, RowFields DEF Place
<1>2. ASSUME NEW w \in RowsOf("site")
      PROVE  Covers(m, w.route, GroupOf[w.producer]) <=> w \in speaks
  <2> DEFINE g == GroupOf[w.producer]
  <2>1. w \in Rows /\ w.route = NoRoute /\ g \in Groups
    BY RowOf DEF RowsOf, Place
  <2>2. DOMAIN f \subseteq Producers
    BY DEF ProducersOf
  <2>3. /\ m.kind = "page_set" /\ m.successful = ok /\ m.routes = Routes /\ m.checks = ClaimKeys(f)
        /\ m.exceptions = (IF complete THEN {} ELSE {[route |-> NoRoute, checks |-> ClaimKeys(f)]})
                            \cup {[route |-> NoRoute, checks |-> Skipped(f)]}
    BY DEF Derive
  <2> HIDE DEF m
  <2>4. \A r \in Routes \cup {NoRoute} :
          ExceptedOn(m, r, g) <=> \/ ~complete /\ ClaimKeys(f) \cap Names(g) # {}
                                  \/ Skipped(f) \cap Names(g) # {}
    <3>1. [route |-> NoRoute, checks |-> Skipped(f)] \in m.exceptions
      BY <2>3
    <3>2. ~complete => [route |-> NoRoute, checks |-> ClaimKeys(f)] \in m.exceptions
      BY <2>3
    <3>3. \A e \in m.exceptions :
            e.route = NoRoute /\ (e.checks = Skipped(f) \/ (~complete /\ e.checks = ClaimKeys(f)))
      <4> DEFINE unfinished == [route |-> NoRoute, checks |-> ClaimKeys(f)]
                 skipped == [route |-> NoRoute, checks |-> Skipped(f)]
      <4>1. /\ unfinished.route = NoRoute /\ unfinished.checks = ClaimKeys(f)
            /\ skipped.route = NoRoute /\ skipped.checks = Skipped(f)
        OBVIOUS
      <4>2. m.exceptions = (IF complete THEN {} ELSE {unfinished}) \cup {skipped}
        BY <2>3
      <4> HIDE DEF unfinished, skipped
      <4>3. ASSUME NEW e \in m.exceptions PROVE e = skipped \/ (~complete /\ e = unfinished)
        BY <4>2
      <4> QED
        BY <4>1, <4>3
    <3> QED
      BY <3>1, <3>2, <3>3 DEF ExceptedOn
  <2>5. NoRoute \notin Routes
    BY SourcesAssumption
  <2>6. Covers(m, NoRoute, g) <=> /\ ok /\ complete /\ ClaimKeys(f) \cap Names(g) # {}
                                  /\ Names(g) \cap Skipped(f) = {}
    BY <2>3, <2>4, <2>5, RoutesAssumption DEF Covers
  <2>7. w \in speaks <=> /\ ok /\ complete
                         /\ \E p \in DOMAIN f : KeyOf[GroupOf[p]] = KeyOf[g]
                         /\ Names(g) \cap Skipped(f) = {}
    BY <2>1 DEF SpeaksFor, Heard
  <2> QED
    BY <2>1, <2>2, <2>6, <2>7, Claimed
<1>3. speaks \subseteq RowsOf("site")
  BY DEF SpeaksFor
<1>4. Closes("site", found, m) = speaks \ found
  BY <1>2, <1>3 DEF Closes
<1> QED
  BY <1>1, <1>4 DEF Exact, SessionBatch

\* A Code scan claims every rule, so it speaks for every row of a Code rule.
LEMMA CodeExact ==
  ASSUME NEW failing \in SUBSET ProducersOf("code")
  PROVE  Exact(CodeBatch(failing))
<1> DEFINE found == [producer : failing, route : {NoRoute}]
           rules == {GroupOf[p] : p \in ProducersOf("code")}
<1>1. found \subseteq Rows
  <2> SUFFICES ASSUME NEW p \in failing PROVE [producer |-> p, route |-> NoRoute] \in Rows
    OBVIOUS
  <2>1. p \in Producers /\ SourceOf[p] = "code"
    BY DEF ProducersOf
  <2> QED
    BY <2>1, RowFields DEF Place
<1>2. ASSUME NEW w \in RowsOf("code")
      PROVE  Covers(Declared(rules), w.route, GroupOf[w.producer])
  <2>1. GroupOf[w.producer] \in rules
    BY RowOf DEF RowsOf, ProducersOf
  <2>2. GroupOf[w.producer] \in Names(GroupOf[w.producer])
    BY DEF Names
  <2> QED
    BY <2>1, <2>2 DEF Covers, Declared, ExceptedOn
<1>3. Closes("code", found, Declared(rules)) = RowsOf("code") \ found
  BY <1>2 DEF Closes
<1> QED
  BY <1>1, <1>3 DEF Exact, CodeBatch

\* Whatever batch is committed, its coverage is exact.
LEMMA BatchExact == ASSUME NEW b \in Batches PROVE Exact(b)
<1>1. CASE b \in PageBatches
  <2>1. PICK asked \in Routes, answered \in Routes, ok \in BOOLEAN, f \in WebOutcomes :
          b = PageBatch("page", asked, answered, ok, f)
    BY <1>1 DEF PageBatches
  <2>2. DOMAIN f \subseteq ProducersOf("web")
    BY DEF WebOutcomes, OutcomesOf
  <2> QED
    BY <2>1, <2>2, PageExact
<1>2. CASE b \in SessionBatches
  <2>1. PICK complete \in BOOLEAN, ok \in BOOLEAN, f \in SiteOutcomes :
          b = SessionBatch(Routes, complete, ok, f)
    BY <1>2 DEF SessionBatches
  <2>2. DOMAIN f \subseteq ProducersOf("site")
    BY DEF SiteOutcomes, OutcomesOf
  <2> QED
    BY <2>1, <2>2, SessionExact
<1>3. CASE b \in CodeBatches
  BY <1>3, CodeExact DEF CodeBatches
<1> QED
  BY <1>1, <1>2, <1>3 DEF Batches

-----------------------------------------------------------------------------
(* The invariant.                                                          *)

\* Groups observed again leave "verified", and go nowhere but where a
\* reconciliation takes them.
LEMMA Reobserving ==
  ASSUME TypeOK, NEW seen
  PROVE  LET lc == IG!Reobserved(lifecycle, seen)
         IN  /\ lc \in [Groups -> IG!Lifecycles]
             /\ \A g \in Groups :
                  /\ lc[g] = "verified" => lifecycle[g] = "verified"
                  /\ lc[g] = "regressed" => lifecycle[g] \in {"verified", "regressed"}
                  /\ g \in seen => lc[g] \in {"new", "regressed", "snoozed", "blocked"}
<1> DEFINE lc == IG!Reobserved(lifecycle, seen)
<1>1. ASSUME NEW g \in Groups
      PROVE  /\ lc[g] \in IG!Lifecycles
             /\ lc[g] = "verified" => lifecycle[g] = "verified"
             /\ lc[g] = "regressed" => lifecycle[g] \in {"verified", "regressed"}
             /\ g \in seen => lc[g] \in {"new", "regressed", "snoozed", "blocked"}
  <2>1. lifecycle[g] \in IG!Lifecycles
    BY DEF TypeOK
  <2>2. lc[g] = IF g \in seen THEN IG!Reobserve(lifecycle[g]) ELSE lifecycle[g]
    BY DEF IG!Reobserved
  <2>3. /\ lifecycle[g] = "verified" => IG!Reobserve(lifecycle[g]) = "regressed"
        /\ lifecycle[g] \in {"claimed", "ignored"} => IG!Reobserve(lifecycle[g]) = "new"
        /\ lifecycle[g] \notin {"verified", "claimed", "ignored"} =>
             IG!Reobserve(lifecycle[g]) = lifecycle[g]
    BY DEF IG!Reobserve
  <2> QED
    BY <2>1, <2>2, <2>3 DEF IG!Lifecycles
<1>2. lc \in [Groups -> IG!Lifecycles]
  BY <1>1 DEF IG!Reobserved
<1> QED
  BY <1>1, <1>2

\* A step that reports rows and closes others: the projection of a run or a poll.
LEMMA ProjectionKeeps ==
  ASSUME IInv, NEW seen \in SUBSET Rows, NEW closed, Apply(seen, closed),
         verdicts' = open', gone' = gone, verify' = verify
         \/ \E job \in verify.todo : verify # Idle /\ verify.phase = "run" /\ JobDone(job)
  PROVE  IInv'
<1>1. TypeOK'
  <2>1. open' \subseteq Rows
    BY DEF Apply, IInv, TypeOK
  <2>2. lifecycle' \in [Groups -> IG!Lifecycles]
    BY Reobserving DEF Apply, IInv
  <2>3. verify' \in {Idle} \cup
          [phase : {"run", "recheck", "mark"}, group : Groups, todo : SUBSET Jobs, queued : BOOLEAN]
    BY DEF IInv, TypeOK, JobDone
  <2> QED
    BY <2>1, <2>2, <2>3 DEF IInv, TypeOK
<1>2. JobInv' /\ MarkInv'
  BY DEF IInv, TypeOK, JobInv, MarkInv, JobDone, Idle
<1>3. RegressedWasGone' /\ VerifiedWasGone'
  BY Reobserving DEF IInv, Apply, RegressedWasGone, VerifiedWasGone
<1> QED
  BY <1>1, <1>2, <1>3 DEF IInv, OpenIsLastVerdict

\* The projection of an exact batch leaves open what the last run to speak for it
\* reported.
LEMMA ExactProjection ==
  ASSUME IInv, NEW b, Exact(b), Project(b)
  PROVE  verdicts' = open' /\ Apply(b.found, b.closes) /\ b.found \in SUBSET Rows
BY DEF IInv, OpenIsLastVerdict, Exact, Project, Apply

\* A step of the user or of a verification that leaves the rows alone.
LEMMA RowsStand ==
  ASSUME IInv, UNCHANGED <<open, verdicts>>,
         lifecycle' \in [Groups -> IG!Lifecycles], gone \subseteq gone', gone' \subseteq Groups,
         \A g \in Groups : lifecycle'[g] \in {"verified", "regressed"} =>
                             lifecycle'[g] = lifecycle[g] \/ g \in gone',
         verify' \in {Idle} \cup
           [phase : {"run", "recheck", "mark"}, group : Groups, todo : SUBSET Jobs, queued : BOOLEAN],
         JobInv', MarkInv'
  PROVE  IInv'
BY DEF IInv, TypeOK, OpenIsLastVerdict, RegressedWasGone, VerifiedWasGone

\* The jobs of a verification.
LEMMA JobsFit ==
  ASSUME IInv, NEW g \in Groups
  PROVE  /\ JobsFor(g) \subseteq Jobs
         /\ \A job \in JobsFor(g) : job.source = "web" =>
              job.route \in Routes /\ job.producers \subseteq ProducersOf("web")
<1> SUFFICES ASSUME NEW w \in RowsIn(g)
             PROVE  LET ps == IF SourceOf[w.producer] = "web"
                              THEN {v.producer : v \in {u \in RowsIn(g) : u.route = w.route}} ELSE {}
                    IN  /\ ps \subseteq Producers /\ SourceOf[w.producer] \in Sources
                        /\ w.route \in Routes \cup {NoRoute}
                        /\ SourceOf[w.producer] = "web" =>
                             w.route \in Routes /\ ps \subseteq ProducersOf("web")
  BY DEF JobsFor, Jobs
<1>1. RowsIn(g) \subseteq Rows
  BY DEF RowsIn, IInv, TypeOK
<1>2. /\ w.producer \in Producers /\ w.route \in Place(w.producer)
      /\ SourceOf[w.producer] \in Sources
  BY <1>1, RowOf, Filed
<1>3. w.route \in Routes \cup {NoRoute} /\ (SourceOf[w.producer] = "web" => w.route \in Routes)
  BY <1>2 DEF Place
<1>4. ASSUME SourceOf[w.producer] = "web", NEW v \in RowsIn(g), v.route = w.route
      PROVE  v.producer \in ProducersOf("web")
  <2>1. v.producer \in Producers /\ v.route \in Place(v.producer)
    BY <1>1, RowOf
  <2>2. v.route # NoRoute
    BY <1>3, <1>4, SourcesAssumption
  <2> QED
    BY <2>1, <2>2 DEF Place, ProducersOf
<1>5. ProducersOf("web") \subseteq Producers
  BY DEF ProducersOf
<1> QED
  BY <1>2, <1>3, <1>4, <1>5

\* The next job of a verification is one of its jobs.
LEMMA NextJobFits ==
  ASSUME IInv, verify.phase = "run", verify.todo # {}
  PROVE  NextJob \in verify.todo /\ verify # Idle
<1>1. verify # Idle /\ verify.todo \subseteq Jobs
  BY DEF IInv, TypeOK, Idle
<1>2. \A s \in Sources : Rank[s] \in 1 .. 4
  BY DEF Rank, Sources
<1> DEFINE Least(job) == job \in verify.todo /\ \A other \in verify.todo :
                                 Rank[job.source] <= Rank[other.source]
<1>3. \E job \in verify.todo : \A other \in verify.todo : Rank[job.source] <= Rank[other.source]
  <2>1. \A job \in verify.todo : Rank[job.source] \in 1 .. 4
    BY <1>1, <1>2 DEF Jobs
  <2>2. CASE \E job \in verify.todo : Rank[job.source] = 1
    BY <2>1, <2>2
  <2>3. CASE (\A job \in verify.todo : Rank[job.source] # 1)
             /\ \E job \in verify.todo : Rank[job.source] = 2
    BY <2>1, <2>3
  <2>4. CASE (\A job \in verify.todo : Rank[job.source] \notin {1, 2})
             /\ \E job \in verify.todo : Rank[job.source] = 3
    BY <2>1, <2>4
  <2>5. CASE \A job \in verify.todo : Rank[job.source] \notin {1, 2, 3}
    BY <2>1, <2>5
  <2> QED
    BY <2>1, <2>2, <2>3, <2>4, <2>5
<1> QED
  BY <1>1, <1>3 DEF NextJob

\* The steps of a verification that run a check.
LEMMA VerifyRuns ==
  ASSUME IInv, verify.phase = "run", verify.todo # {},
         \/ \E f \in OutcomesOf(NextJob.producers) : VerifyWeb(NextJob, f)
         \/ \E failing \in SUBSET ProducersOf("code") : VerifyCode(NextJob, failing)
         \/ VerifyPoll(NextJob)
  PROVE  \/ VerifyPoll(NextJob)
         \/ \E b : /\ Exact(b) /\ Project(b)
                   /\ JobDone(NextJob) /\ UNCHANGED gone
<1>1. NextJob \in verify.todo /\ verify # Idle
  BY NextJobFits
<1>2. ASSUME NEW f \in OutcomesOf(NextJob.producers), VerifyWeb(NextJob, f)
      PROVE  \E b : Exact(b) /\ Project(b) /\ JobDone(NextJob) /\ UNCHANGED gone
  <2>1. NextJob.route \in Routes /\ DOMAIN f \subseteq ProducersOf("web")
    BY <1>1, <1>2 DEF VerifyWeb, IInv, JobInv
  <2>2. Exact(PageBatch("check_set", NextJob.route, NextJob.route, TRUE, f))
    BY <2>1, PageExact
  <2> QED
    BY <1>2, <2>2 DEF VerifyWeb
<1>3. ASSUME NEW failing \in SUBSET ProducersOf("code"), VerifyCode(NextJob, failing)
      PROVE  \E b : Exact(b) /\ Project(b) /\ JobDone(NextJob) /\ UNCHANGED gone
  BY <1>3, CodeExact DEF VerifyCode
<1> QED
  BY <1>2, <1>3

\* What a poll commits.
LEMMA PollProjects ==
  ASSUME IInv, NEW observed \in SUBSET ProducersOf("poll"), NEW found \in SUBSET ProducersOf("poll"),
         PollCommits(found, observed)
  PROVE  \E seen \in SUBSET Rows : \E closed :
           /\ Apply(seen, closed) /\ verdicts' = open' /\ seen \cap closed = {}
           /\ UNCHANGED <<verify, gone>>
<1> DEFINE seen == [producer : found, route : {NoRoute}]
           looked == [producer : observed, route : {NoRoute}]
<1>1. seen \subseteq Rows
  <2> SUFFICES ASSUME NEW p \in found PROVE [producer |-> p, route |-> NoRoute] \in Rows
    OBVIOUS
  <2>1. p \in Producers /\ SourceOf[p] = "poll"
    BY DEF ProducersOf
  <2> QED
    BY <2>1, RowFields DEF Place
<1>2. /\ Apply(seen, (open \cap looked) \ seen)
      /\ verdicts' = (verdicts \ looked) \cup seen /\ UNCHANGED <<verify, gone>>
  BY DEF PollCommits
<1> HIDE DEF seen, looked
<1>3. verdicts' = open'
  BY <1>2 DEF Apply, IInv, OpenIsLastVerdict
<1> QED
  BY <1>1, <1>2, <1>3

\* The user decides about a group.
LEMMA DecideKeeps ==
  ASSUME IInv, NEW g \in Groups, NEW l \in Choices[g], DecideGroup(g, l)
  PROVE  IInv'
<1>1. l \in IG!Lifecycles /\ l \notin {"verified", "regressed"}
  BY ChoicesAssumption DEF IG!Decisions, IG!Lifecycles
<1>2. lifecycle' = [lifecycle EXCEPT ![g] = l] /\ UNCHANGED <<open, verify, verdicts, gone>>
  BY DEF DecideGroup
<1>3. lifecycle \in [Groups -> IG!Lifecycles] /\ gone \subseteq Groups
  BY DEF IInv, TypeOK
<1>4. lifecycle' \in [Groups -> IG!Lifecycles]
  BY <1>1, <1>2, <1>3
<1>5. \A h \in Groups : lifecycle'[h] \in {"verified", "regressed"} => lifecycle'[h] = lifecycle[h]
  BY <1>1, <1>2, <1>3
<1>6. JobInv' /\ MarkInv'
  BY <1>2 DEF IInv, JobInv, MarkInv
<1>7. verify' \in {Idle} \cup
        [phase : {"run", "recheck", "mark"}, group : Groups, todo : SUBSET Jobs, queued : BOOLEAN]
  BY <1>2 DEF IInv, TypeOK
<1> QED
  BY <1>2, <1>3, <1>4, <1>5, <1>6, <1>7, RowsStand

\* The steps of a verification that leave the rows alone.
LEMMA VerifyKeeps ==
  ASSUME IInv,
         \/ \E g \in Groups : VerifyLookup(g)
         \/ verify.phase = "run" /\ verify.todo # {} /\ VerifyPoll(NextJob)
         \/ VerifyRecheck \/ VerifyMark \/ VerifyGivesUp
  PROVE  IInv'
<1> DEFINE Commands ==
      [phase : {"run", "recheck", "mark"}, group : Groups, todo : SUBSET Jobs, queued : BOOLEAN]
<1>0. /\ lifecycle \in [Groups -> IG!Lifecycles] /\ gone \subseteq Groups
      /\ verify \in {Idle} \cup Commands /\ JobInv /\ MarkInv
  BY DEF IInv, TypeOK
<1>1. verify.phase \in {"run", "mark"} => verify \in Commands /\ verify # Idle
  BY <1>0 DEF Idle
<1>2. CASE \E g \in Groups : VerifyLookup(g)
  <2>1. PICK g \in Groups : VerifyLookup(g)
    BY <1>2
  <2> DEFINE v == [phase |-> "run", group |-> g, todo |-> JobsFor(g), queued |-> FALSE]
  <2>2. v \in Commands
    BY JobsFit
  <2>3. v.phase = "run" /\ v.todo = JobsFor(g) /\ verify' = v
    BY <2>1 DEF VerifyLookup
  <2> HIDE DEF v
  <2>4. JobInv' /\ MarkInv'
    BY <2>3, JobsFit DEF JobInv, MarkInv
  <2> QED
    BY <1>0, <2>1, <2>2, <2>3, <2>4, RowsStand DEF VerifyLookup
<1>3. CASE verify.phase = "run" /\ verify.todo # {} /\ VerifyPoll(NextJob)
  <2> DEFINE v == [verify EXCEPT !.todo = @ \ {NextJob}, !.queued = TRUE]
  <2>1. v \in Commands
    BY <1>0, <1>1, <1>3
  <2>2. v.phase = "run" /\ v.todo \subseteq verify.todo /\ verify' = v /\ verify # Idle
    BY <1>0, <1>1, <1>3 DEF VerifyPoll
  <2> HIDE DEF v
  <2>3. JobInv' /\ MarkInv'
    BY <1>0, <2>2 DEF JobInv, MarkInv
  <2> QED
    BY <1>0, <1>3, <2>1, <2>2, <2>3, RowsStand DEF VerifyPoll
<1>4. CASE VerifyRecheck
  <2> DEFINE absent == RowsIn(verify.group) = {}
             v == [verify EXCEPT !.phase = "mark"]
  <2>1. verify \in Commands /\ verify.group \in Groups
    BY <1>1, <1>4 DEF VerifyRecheck
  <2>2. v \in Commands /\ v.phase = "mark" /\ v.group = verify.group /\ v.todo = verify.todo
    BY <2>1
  <2>3. /\ (verify' = v /\ absent) \/ verify' = Idle
        /\ gone' = IF absent THEN gone \cup {verify.group} ELSE gone
        /\ verify.todo = {}
    BY <1>4 DEF VerifyRecheck
  <2> HIDE DEF v, absent
  <2>4. JobInv' /\ MarkInv'
    <3>1. Idle.phase = "idle"
      BY DEF Idle
    <3> QED
      BY <2>2, <2>3, <3>1 DEF JobInv, MarkInv
  <2>5. gone \subseteq gone' /\ gone' \subseteq Groups /\ verify' \in {Idle} \cup Commands
    BY <1>0, <2>1, <2>2, <2>3
  <2> QED
    BY <1>0, <1>4, <2>4, <2>5, RowsStand DEF VerifyRecheck
<1>5. CASE VerifyMark
  <2>1. verify.group \in Groups /\ verify.group \in gone
    BY <1>0, <1>1, <1>5 DEF VerifyMark, MarkInv
  <2>2. lifecycle' = [lifecycle EXCEPT ![verify.group] = "verified"] /\ verify' = Idle
        /\ UNCHANGED <<open, verdicts, gone>>
    BY <1>5 DEF VerifyMark
  <2>3. lifecycle' \in [Groups -> IG!Lifecycles]
    BY <1>0, <2>1, <2>2 DEF IG!Lifecycles
  <2>4. \A h \in Groups : lifecycle'[h] \in {"verified", "regressed"} =>
                            lifecycle'[h] = lifecycle[h] \/ h \in gone
    BY <1>0, <2>1, <2>2
  <2>5. JobInv' /\ MarkInv'
    BY <2>2 DEF JobInv, MarkInv, Idle
  <2> QED
    BY <1>0, <2>2, <2>3, <2>4, <2>5, RowsStand
<1>6. CASE VerifyGivesUp
  <2>1. verify' = Idle /\ UNCHANGED <<open, lifecycle, verdicts, gone>>
    BY <1>6 DEF VerifyGivesUp
  <2>2. JobInv' /\ MarkInv'
    BY <2>1 DEF JobInv, MarkInv, Idle
  <2> QED
    BY <1>0, <2>1, <2>2, RowsStand
<1> QED
  BY <1>2, <1>3, <1>4, <1>5, <1>6

-----------------------------------------------------------------------------

\* What a step does to the rows: a projection that reports none of what it
\* closes, or nothing.
Projects ==
  \E seen \in SUBSET Rows : \E closed :
    /\ Apply(seen, closed) /\ verdicts' = open' /\ seen \cap closed = {} /\ gone' = gone
    /\ \/ verify' = verify
       \/ \E job \in verify.todo : verify # Idle /\ verify.phase = "run" /\ JobDone(job)

\* Every step is a projection, a decision, a step of a verification, or none.
LEMMA StepKinds ==
  ASSUME IInv, [Next]_vars
  PROVE  \/ Projects
         \/ \E g \in Groups : \E l \in Choices[g] : DecideGroup(g, l)
         \/ \E g \in Groups : VerifyLookup(g)
         \/ verify.phase = "run" /\ verify.todo # {} /\ VerifyPoll(NextJob)
         \/ VerifyRecheck \/ VerifyMark \/ VerifyGivesUp
         \/ UNCHANGED vars
<1>1. ASSUME NEW b, Exact(b), Project(b), gone' = gone,
             verify' = verify
             \/ \E job \in verify.todo : verify # Idle /\ verify.phase = "run" /\ JobDone(job)
      PROVE  Projects
  <2>1. verdicts' = open' /\ Apply(b.found, b.closes) /\ b.found \in SUBSET Rows
    BY <1>1, ExactProjection
  <2>2. b.found \cap b.closes = {}
    BY <1>1 DEF Exact
  <2> QED
    BY <1>1, <2>1, <2>2 DEF Projects
<1>2. ASSUME NEW b \in Batches, CommitRun(b) PROVE Projects
  BY <1>1, <1>2, BatchExact DEF CommitRun
<1>3. ASSUME NEW observed \in SUBSET ProducersOf("poll"), NEW found \in SUBSET ProducersOf("poll"),
             PollCommits(found, observed)
      PROVE  Projects
  BY <1>3, PollProjects DEF Projects
<1>4. CASE /\ verify.phase = "run" /\ verify.todo # {}
           /\ \/ \E f \in OutcomesOf(NextJob.producers) : VerifyWeb(NextJob, f)
              \/ \E failing \in SUBSET ProducersOf("code") : VerifyCode(NextJob, failing)
              \/ VerifyPoll(NextJob)
  BY <1>1, <1>4, VerifyRuns, NextJobFits
<1> QED
  BY <1>2, <1>3, <1>4 DEF Next

\* Every step keeps the invariant.
LEMMA NextIInv == IInv /\ [Next]_vars => IInv'
<1> SUFFICES ASSUME IInv, [Next]_vars PROVE IInv'
  OBVIOUS
<1>1. CASE Projects
  BY <1>1, ProjectionKeeps DEF Projects
<1>2. CASE \E g \in Groups : \E l \in Choices[g] : DecideGroup(g, l)
  BY <1>2, DecideKeeps
<1>3. CASE UNCHANGED vars
  BY <1>3 DEF vars, IInv, TypeOK, JobInv, MarkInv, OpenIsLastVerdict, RegressedWasGone, VerifiedWasGone
<1> QED
  BY <1>1, <1>2, <1>3, StepKinds, VerifyKeeps

\* The initial states satisfy it.
LEMMA InitIInv == Init => IInv
<1> SUFFICES ASSUME Init PROVE IInv
  OBVIOUS
<1>1. TypeOK
  BY DEF Init, TypeOK, IG!Lifecycles
<1> QED
  BY <1>1 DEF Init, IInv, JobInv, MarkInv, OpenIsLastVerdict, RegressedWasGone, VerifiedWasGone, Idle

\* The inductive invariant holds in every reachable state.
THEOREM Invariance == Spec => []IInv
BY InitIInv, NextIInv, PTL DEF Spec

\* The rows, the lifecycle and the verification keep their types.
THEOREM TypeCorrect == Spec => []TypeOK
<1>1. IInv => TypeOK
  BY DEF IInv
<1> QED
  BY <1>1, Invariance, PTL

\* A finding is open exactly when the last run able to speak for it reported it,
\* whatever pages, checks, families and failures runs are made of
\* (coverage.rs, resolve_covered_absences).
THEOREM RowsAreVerdicts == Spec => []OpenIsLastVerdict
<1>1. IInv => OpenIsLastVerdict
  BY DEF IInv
<1> QED
  BY <1>1, Invariance, PTL

\* Only an observed absence makes a later recurrence a regression.
THEOREM RegressionsAreReal == Spec => []RegressedWasGone
<1>1. IInv => RegressedWasGone
  BY DEF IInv
<1> QED
  BY <1>1, Invariance, PTL

\* Only a group some verification found nothing of is called verified.
THEOREM VerifiedIsGone == Spec => []VerifiedWasGone
<1>1. IInv => VerifiedWasGone
  BY DEF IInv
<1> QED
  BY <1>1, Invariance, PTL

\* The steps that are no projection leave the rows open that were.
LEMMA OthersLeaveRows ==
  ASSUME \/ \E g \in Groups : \E l \in Choices[g] : DecideGroup(g, l)
         \/ \E g \in Groups : VerifyLookup(g)
         \/ VerifyPoll(NextJob)
         \/ VerifyRecheck \/ VerifyMark \/ VerifyGivesUp
         \/ UNCHANGED vars
  PROVE  UNCHANGED open
BY DEF DecideGroup, VerifyLookup, VerifyPoll, VerifyRecheck, VerifyMark, VerifyGivesUp, vars

\* A group that fails again is back in the list and in the score, unless it was
\* snoozed or blocked (reconcile_reobserved_lifecycle).
THEOREM FailuresResurface == Spec => Resurfaces
<1>1. ASSUME IInv, [Next]_vars, NEW g \in GroupsOf(open') \ GroupsOf(open), g \in Groups
      PROVE  lifecycle'[g] \in {"new", "regressed", "snoozed", "blocked"}
  <2>1. open' # open
    BY <1>1
  <2>2. PICK seen \in SUBSET Rows : \E closed : Apply(seen, closed)
    BY <1>1, <2>1, StepKinds, OthersLeaveRows DEF Projects
  <2>3. g \in GroupsOf(seen)
    BY <1>1, <2>2 DEF Apply, GroupsOf
  <2> QED
    BY <1>1, <2>2, <2>3, Reobserving DEF Apply, IInv
<1>2. IInv /\ [Next]_vars =>
        [\A g \in Groups : g \in GroupsOf(open') \ GroupsOf(open) =>
           lifecycle'[g] \in {"new", "regressed", "snoozed", "blocked"}]_vars
  BY <1>1
<1> QED
  BY <1>2, Invariance, PTL DEF Spec, Resurfaces

-----------------------------------------------------------------------------
(* The refinement.                                                         *)

\* A projection is a commit of the groups it saw and those it saw the last of.
LEMMA ProjectionCommits ==
  ASSUME IInv, NEW seen \in SUBSET Rows, NEW closed, Apply(seen, closed), seen \cap closed = {}
  PROVE  IG!Next
<1> DEFINE saw == GroupsOf(seen)
           lost == Groups \ GroupsOf(open')
<1>1. open \subseteq Rows /\ open' = (open \cup seen) \ closed
  BY DEF IInv, TypeOK, Apply
<1>2. \A rows \in SUBSET Rows : GroupsOf(rows) \subseteq Groups
  BY RowOf DEF GroupsOf
<1>3. saw \subseteq GroupsOf(open')
  BY <1>1 DEF GroupsOf
<1>4. GroupsOf(open') \subseteq GroupsOf(open) \cup saw
  BY <1>1 DEF GroupsOf
<1>5. saw \in SUBSET Groups /\ lost \in SUBSET Groups /\ saw \cap lost = {}
  BY <1>2, <1>3
<1>6. GroupsOf(open') = (GroupsOf(open) \cup saw) \ lost
  BY <1>1, <1>2, <1>3, <1>4
<1>7. lifecycle' = IG!Reobserved(lifecycle, saw)
  BY DEF Apply
<1> HIDE DEF saw, lost
<1>8. IG!Commit(saw, lost)
  BY <1>6, <1>7 DEF IG!Commit
<1> QED
  BY <1>5, <1>8 DEF IG!Next

\* A decision, and the mark of a verification, are decisions about a group.
LEMMA DecisionDecides ==
  ASSUME IInv, UNCHANGED open, NEW g \in Groups, NEW l \in IG!Decisions \cup {"verified"},
         lifecycle' = [lifecycle EXCEPT ![g] = l]
  PROVE  IG!Next
BY DEF IG!Next, IG!Decide

\* The findings, their coverage and the verification implement the issue groups:
\* every step is a commit, a decision or a stutter of theirs.
THEOREM GroupsImplemented == Spec => GroupsPromise
<1>1. Init => IG!Init
  BY DEF Init, IG!Init, GroupsOf
<1>2. ASSUME IInv, [Next]_vars
      PROVE  IG!Next \/ UNCHANGED <<GroupsOf(open), lifecycle>>
  <2>1. CASE Projects
    BY <1>2, <2>1, ProjectionCommits DEF Projects
  <2>2. ASSUME NEW g \in Groups, NEW l \in Choices[g], DecideGroup(g, l) PROVE IG!Next
    <3>1. l \in IG!Decisions
      BY ChoicesAssumption
    <3> QED
      BY <1>2, <2>2, <3>1, DecisionDecides DEF DecideGroup
  <2>3. CASE VerifyMark
    <3>1. verify.group \in Groups
      BY <1>2, <2>3 DEF VerifyMark, IInv, TypeOK, Idle
    <3> QED
      BY <1>2, <2>3, <3>1, DecisionDecides DEF VerifyMark
  <2>4. CASE \/ \E g \in Groups : VerifyLookup(g)
             \/ VerifyPoll(NextJob) \/ VerifyRecheck \/ VerifyGivesUp \/ UNCHANGED vars
    BY <2>4 DEF VerifyLookup, VerifyPoll, VerifyRecheck, VerifyGivesUp, vars
  <2> QED
    BY <1>2, <2>1, <2>2, <2>3, <2>4, StepKinds
<1>3. IInv /\ [Next]_vars => [IG!Next]_<<GroupsOf(open), lifecycle>>
  BY <1>2
<1> QED
  BY <1>1, <1>3, Invariance, PTL DEF Spec, GroupsPromise, IG!Spec
=============================================================================
