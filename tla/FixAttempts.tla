---------------------------- MODULE FixAttempts ----------------------------
(***************************************************************************)
(* Fix attempts: the user hands one issue (or one file of a Code rule) to  *)
(* an agent, the agent asks for verification through the MCP server, and   *)
(* the watcher (background/fix_attempt_watcher.rs) runs the check again    *)
(* and settles the attempt.  Only the watcher may call an attempt verified.*)
(*                                                                         *)
(* Every database call and every check the watcher awaits is a step: the   *)
(* user, the agent, other scans, the clock and a crash come in between.    *)
(***************************************************************************)
EXTENDS Naturals, FiniteSets

CONSTANTS Groups,     \* canonical checks with an issue
          Files,      \* the places a Code rule fails at
          Kinds,      \* the kinds of issue every group may be of, as functions
          Last,       \* bound: attempts ever created
          Day,        \* bound: a day, in units of ten minutes
          MaxFaults, MaxCrashes

ASSUME GroupsAssumption == Groups # {}
ASSUME BoundsAssumption ==
  Last \in Nat /\ Day \in Nat /\ Day > 2 /\ MaxFaults \in Nat /\ MaxCrashes \in Nat
\* The engine that reports the issue and where it runs: a Code scan, a Web check
\* of a local server or of a remote site, an integration's poll of either (an
\* issue of a remote site waits for a deploy whatever its engine).
ASSUME KindsAssumption ==
  Kinds \subseteq [Groups -> {"code", "web", "remote", "poll", "remote_poll"}]

Attempts == 1 .. Last
Whole == "group"  \* the target of an attempt on the whole group
ASSUME FilesAssumption == Whole \notin Files

VARIABLES kind,       \* what every group is, fixed
          open,       \* work_items with resolved_at NULL, as <<group, file>>
          lifecycle,  \* the lifecycle row of every group
          status, target,    \* the rows of fix_attempts
          idle, waited,      \* time since updated_at and since verify_started_at
          creating,   \* attempts whose brief is not stored yet
          fetched,    \* attempts with brief_fetched_at
          watcher,    \* the tick in flight
          checked,    \* asked attempts whose check has run since
          ticked, missed,    \* whether a tick ended this unit; whether a unit saw none
          faults, crashes

rows == <<status, target, idle, waited, creating, fetched>>
clock == <<ticked, missed>>
vars == <<kind, open, lifecycle, rows, watcher, checked, clock, faults, crashes>>

IG == INSTANCE IssueGroups WITH open <- {f[1] : f \in open}

Asked == {"verify_requested", "verifying"}
Active == {"briefed"} \cup Asked
\* `verify_failed` is told apart by its failure_detail.
Settled == {"verified", "still_failing", "could_not_run", "canceled", "expired"}

\* A Code rule fails in files; every other issue in one place.
Places(g) == IF kind[g] = "code" THEN Files ELSE {Whole}
Findings(g) == {g} \X Places(g)
Targets == Groups \X ({Whole} \cup Files)
TargetsOf(g) == {g} \X ({Whole} \cup Places(g))

\* is_fix_attempt_target_active
TargetActive(t) == IF t[2] = Whole THEN \E f \in open : f[1] = t[1] ELSE t \in open

Steps == {"expire", "list", "start", "check", "refuse", "settle", "sources", "touch",
          "recheck", "write", "mark"}

TypeOK ==
  /\ kind \in Kinds
  /\ open \subseteq UNION {Findings(g) : g \in Groups}
  /\ lifecycle \in [Groups -> {"new", "verified", "regressed"}]
  /\ status \in [Attempts -> {"none"} \cup Active \cup Settled]
  /\ target \in [Attempts -> Targets]
  /\ idle \in [Attempts -> 0 .. Day] /\ waited \in [Attempts -> 0 .. Day]
  /\ creating \subseteq Attempts /\ fetched \subseteq Attempts /\ checked \subseteq Attempts
  /\ watcher \in [pc : Steps, todo : SUBSET Attempts, scanned : BOOLEAN,
                  decided : {"verified", "still_failing"}]
  /\ ticked \in BOOLEAN /\ missed \in BOOLEAN
  /\ faults \in 0 .. MaxFaults /\ crashes \in 0 .. MaxCrashes

Waking == [pc |-> "expire", todo |-> {}, scanned |-> FALSE, decided |-> "verified"]
AnyTarget == CHOOSE t \in Targets : TRUE

Init ==
  /\ kind \in Kinds
  /\ open = UNION {Findings(g) : g \in Groups}
  /\ lifecycle = [g \in Groups |-> "new"]
  /\ status = [a \in Attempts |-> "none"]
  /\ target = [a \in Attempts |-> AnyTarget]
  /\ idle = [a \in Attempts |-> 0] /\ waited = [a \in Attempts |-> 0]
  /\ creating = {} /\ fetched = {} /\ checked = {}
  /\ watcher = Waking
  /\ ticked = TRUE /\ missed = FALSE
  /\ faults = 0 /\ crashes = 0

-----------------------------------------------------------------------------
(* Rows of fix_attempts.                                                   *)

\* The rows in `ended` take the status s; what is measured of them stops mattering.
Settle(ended, s) ==
  /\ status' = [a \in Attempts |-> IF a \in ended THEN s ELSE status[a]]
  /\ idle' = [a \in Attempts |-> IF a \in ended THEN 0 ELSE idle[a]]
  /\ waited' = [a \in Attempts |-> IF a \in ended THEN 0 ELSE waited[a]]
  /\ checked' = checked \ ended
  /\ fetched' = fetched \ ended

Measured == <<status, idle, waited, checked, fetched>>
ActiveOnes == {a \in Attempts : status[a] \in Active}
Touched(a) == [idle EXCEPT ![a] = 0]

User == <<kind, open, lifecycle, watcher, clock, faults, crashes>>

\* Mutant: the attempts in flight for the target are left running.
NothingReplaced(t) == {}
Replaced(t) == {b \in ActiveOnes : target[b] = t}

\* create_fix_attempt_with_target, one transaction.  Bound: the issue list offers
\* only targets with an open finding.
Create(a, t) ==
  /\ status[a] = "none" /\ \A b \in Attempts : b < a => status[b] # "none"
  /\ t \in TargetsOf(t[1]) /\ TargetActive(t)
  /\ status' = [b \in Attempts |-> IF b = a THEN "briefed"
                                   ELSE IF b \in Replaced(t) THEN "canceled" ELSE status[b]]
  /\ target' = [target EXCEPT ![a] = t]
  /\ idle' = [b \in Attempts |-> IF b \in Replaced(t) THEN 0 ELSE idle[b]]
  /\ waited' = [b \in Attempts |-> IF b \in Replaced(t) THEN 0 ELSE waited[b]]
  /\ checked' = checked \ Replaced(t) /\ fetched' = fetched \ Replaced(t)
  /\ creating' = creating \cup {a}
  /\ UNCHANGED User

\* update_fix_attempt_brief: whatever the row became meanwhile.
StoreBrief(a) ==
  /\ a \in creating
  /\ creating' = creating \ {a}
  /\ idle' = IF status[a] \in Active THEN Touched(a) ELSE idle
  /\ UNCHANGED <<status, target, waited, fetched, checked, User>>

\* The brief is not stored: cancel, and if that fails too leave the row active.
LoseBrief(a) ==
  /\ a \in creating /\ faults < MaxFaults
  /\ creating' = creating \ {a}
  /\ faults' = faults + 1
  /\ Settle({a} \cap ActiveOnes, "canceled") \/ UNCHANGED Measured
  /\ UNCHANGED <<kind, open, lifecycle, target, watcher, clock, crashes>>

Cancel(a) ==
  /\ status[a] \in Active
  /\ Settle({a}, "canceled")
  /\ UNCHANGED <<target, creating, User>>

\* getFixBrief: the first fetch is stamped (on a settled row it changes nothing here).
FetchBrief(a) ==
  /\ status[a] \in Active /\ a \notin creating \cup fetched
  /\ fetched' = fetched \cup {a}
  /\ idle' = Touched(a)
  /\ UNCHANGED <<status, target, waited, creating, checked, User>>

\* requestVerification; the agent learns the id from the stored brief.
RequestVerification(a) ==
  /\ status[a] \in {"briefed", "verify_requested"} /\ a \notin creating
  /\ status' = [status EXCEPT ![a] = "verify_requested"]
  /\ idle' = Touched(a)
  /\ UNCHANGED <<target, waited, creating, fetched, checked, User>>

-----------------------------------------------------------------------------
(* Runs: the check of the groups gs ran and reported exactly `found`.       *)

AskedOf(gs) == {a \in Attempts : status[a] \in Asked /\ target[a][1] \in gs}
Verdicts(gs) == SUBSET UNION {Findings(g) : g \in gs}
Commit(gs, found) ==
  /\ open' = {f \in open : f[1] \notin gs} \cup found
  /\ lifecycle' = IG!Reobserved(lifecycle, {f[1] : f \in found})
  /\ checked' = checked \cup AskedOf(gs)

\* A scan, a poll or a verify_issue that is not the watcher's.
OtherRun(g, found) ==
  /\ Commit({g}, found)
  /\ UNCHANGED <<kind, rows, watcher, clock, faults, crashes>>

-----------------------------------------------------------------------------
(* The watcher's tick: requested attempts are started one by one, then the  *)
(* verifying ones are settled one by one; both lists are read once.         *)

At(pc) == watcher.pc = pc
Cur == CHOOSE a \in watcher.todo : \A b \in watcher.todo : a <= b
CurGroup == target[Cur][1]
NoSource == CurGroup \notin {f[1] : f \in open}
Goto(pc) == watcher' = [watcher EXCEPT !.pc = pc]
NextAttempt(pc) == watcher' = [watcher EXCEPT !.pc = pc, !.todo = @ \ {Cur}]
NoFault == UNCHANGED <<faults, crashes>>
Fault == faults < MaxFaults /\ faults' = faults + 1 /\ UNCHANGED crashes
Issues == <<kind, open, lifecycle>>

\* expire_stale_fix_attempts; its failure is only logged.
Expire ==
  /\ At("expire")
  /\ \/ Settle({a \in ActiveOnes : idle[a] = Day}, "expired") /\ NoFault
     \/ UNCHANGED Measured /\ Fault
  /\ Goto("list")
  /\ UNCHANGED <<target, creating, Issues, clock>>

\* Mutant: what one tick scanned is remembered by the next.
ListKeepingScans ==
  /\ At("list")
  /\ \/ watcher' = [watcher EXCEPT !.pc = "start", !.todo = {a \in Attempts : status[a] = "verify_requested"}] /\ NoFault
     \/ watcher' = [watcher EXCEPT !.pc = "start"] /\ Fault
  /\ UNCHANGED <<rows, checked, Issues, clock>>
\* A list that cannot be read is empty.
ListRequested ==
  /\ At("list")
  /\ \/ watcher' = [watcher EXCEPT !.pc = "start", !.scanned = FALSE,
                                   !.todo = {a \in Attempts : status[a] = "verify_requested"}] /\ NoFault
     \/ watcher' = [watcher EXCEPT !.pc = "start", !.scanned = FALSE] /\ Fault
  /\ UNCHANGED <<rows, checked, Issues, clock>>

\* set_fix_attempt_status is guarded by "still active"; a refused or failed call
\* skips the attempt, a failed one may have been applied.
SetVerifying ==
  /\ status' = [status EXCEPT ![Cur] = "verifying"]
  /\ idle' = Touched(Cur)
Start ==
  /\ At("start") /\ watcher.todo # {}
  /\ \/ status[Cur] \in Active /\ SetVerifying /\ Goto("check") /\ NoFault
     \/ status[Cur] \in Active /\ SetVerifying /\ NextAttempt("start") /\ Fault
     \/ UNCHANGED <<status, idle>> /\ NextAttempt("start")
          /\ IF status[Cur] \in Active THEN Fault ELSE NoFault
  /\ UNCHANGED <<target, waited, creating, fetched, checked, Issues, clock>>

\* verify_issue_sources_for_check: nothing runs for a group with no open finding;
\* one Code scan serves every Code attempt of the tick; a poll is only queued.
NothingRuns ==
  \/ NoSource
  \/ kind[CurGroup] = "code" /\ watcher.scanned
  \/ kind[CurGroup] \in {"poll", "remote_poll"}
Rerun == IF kind[CurGroup] = "code" THEN {g \in Groups : kind[g] = "code"} ELSE {CurGroup}

Check ==
  /\ At("check")
  /\ IF NothingRuns
       THEN NextAttempt("start") /\ UNCHANGED <<open, lifecycle, checked>>
       ELSE /\ \E found \in Verdicts(Rerun) : Commit(Rerun, found)
            /\ watcher' = [watcher EXCEPT !.pc = "start", !.todo = @ \ {Cur},
                                          !.scanned = @ \/ kind[CurGroup] = "code"]
  /\ UNCHANGED <<kind, rows, clock, faults, crashes>>

\* The engine could not run: no engine for the source, an unreachable site, ...
CheckFails ==
  /\ At("check") /\ ~NoSource
  /\ Goto("refuse")
  /\ UNCHANGED <<rows, checked, Issues, clock, faults, crashes>>

Refuse ==
  /\ At("refuse")
  /\ \/ Settle({Cur} \cap ActiveOnes, "could_not_run") /\ NoFault
     \/ UNCHANGED Measured /\ Fault
  /\ NextAttempt("start")
  /\ UNCHANGED <<target, creating, Issues, clock>>

ListVerifying ==
  /\ At("start") /\ watcher.todo = {}
  /\ \/ watcher' = [watcher EXCEPT !.pc = "settle",
                                   !.todo = {a \in Attempts : status[a] = "verifying"}] /\ NoFault
     \/ Goto("settle") /\ Fault
  /\ UNCHANGED <<rows, checked, Issues, clock>>

\* evaluate_attempt reads the target, then the sources of the whole group.
ReadTarget ==
  /\ At("settle") /\ watcher.todo # {}
  /\ \/ /\ watcher' = [watcher EXCEPT !.pc = IF TargetActive(target[Cur]) THEN "sources" ELSE "write",
                                      !.decided = "verified"]
        /\ NoFault
     \/ NextAttempt("settle") /\ Fault
  /\ UNCHANGED <<rows, checked, Issues, clock>>

Waits == kind[CurGroup] \in {"remote", "remote_poll"}
GraceOver == kind[CurGroup] = "poll" => waited[Cur] > 0 \/ NoSource

\* Mutant: a remote attempt waits for its deploy for ever.
FailsPatiently == ~Waits /\ GraceOver
\* decide_outcome for a target that was open: no source at all counts as sources
\* that settle immediately.
Fails == IF Waits THEN waited[Cur] = Day ELSE GraceOver

ReadSources ==
  /\ At("sources")
  /\ \/ /\ Fails
        /\ watcher' = [watcher EXCEPT !.pc = "write", !.decided = "still_failing"] /\ NoFault
     \/ ~Fails /\ Waits /\ idle[Cur] > 0 /\ Goto("touch") /\ NoFault
     \/ ~Fails /\ ~(Waits /\ idle[Cur] > 0) /\ NextAttempt("settle") /\ NoFault
     \/ NextAttempt("settle") /\ Fault
  /\ UNCHANGED <<rows, checked, Issues, clock>>

\* Mutant: the attempt is not touched while it waits for a deploy.
NoTouch ==
  /\ At("touch") /\ Goto("recheck") /\ NoFault
  /\ UNCHANGED <<rows, checked, Issues, clock>>
\* touch_fix_attempt: the heartbeat of the wait; its failure is only logged.
Touch ==
  /\ At("touch")
  /\ \/ idle' = Touched(Cur) /\ NoFault
     \/ UNCHANGED idle /\ Fault
  /\ Goto("recheck")
  /\ UNCHANGED <<status, target, waited, creating, fetched, checked, Issues, clock>>

\* A recheck that fails is tried again at the next interval.
Recheck ==
  /\ At("recheck")
  /\ \/ /\ ~NoSource /\ kind[CurGroup] = "remote"
        /\ \E found \in Verdicts({CurGroup}) : Commit({CurGroup}, found)
     \/ UNCHANGED <<open, lifecycle, checked>>
  /\ NextAttempt("settle")
  /\ UNCHANGED <<kind, rows, clock, faults, crashes>>

\* Mutant: the issue is marked even if the attempt could not be settled.
WriteRegardless ==
  /\ At("write")
  /\ Settle({Cur} \cap ActiveOnes, watcher.decided)
  /\ IF watcher.decided = "verified" THEN Goto("mark") ELSE NextAttempt("settle")
  /\ NoFault
  /\ UNCHANGED <<target, creating, Issues, clock>>
\* Mutant: the verdict is written whatever became of the attempt.
WriteUnguarded ==
  /\ At("write")
  /\ Settle({Cur}, watcher.decided)
  /\ IF watcher.decided = "verified" THEN Goto("mark") ELSE NextAttempt("settle")
  /\ NoFault
  /\ UNCHANGED <<target, creating, Issues, clock>>
Write ==
  /\ At("write")
  /\ \/ /\ status[Cur] \in Active /\ Settle({Cur}, watcher.decided) /\ NoFault
        /\ IF watcher.decided = "verified" THEN Goto("mark") ELSE NextAttempt("settle")
     \/ /\ status[Cur] \in Active /\ Settle({Cur}, watcher.decided) /\ Fault
        /\ NextAttempt("settle")
     \/ /\ UNCHANGED Measured /\ NextAttempt("settle")
        /\ IF status[Cur] \in Active THEN Fault ELSE NoFault
  /\ UNCHANGED <<target, creating, Issues, clock>>

\* set_issue_group_state: the whole group, whatever the attempt's target was.
Mark ==
  /\ At("mark")
  /\ \/ lifecycle' = [lifecycle EXCEPT ![CurGroup] = "verified"] /\ NoFault
     \/ UNCHANGED lifecycle /\ Fault
  /\ NextAttempt("settle")
  /\ UNCHANGED <<rows, checked, kind, open, clock>>

Sleep ==
  /\ At("settle") /\ watcher.todo = {}
  /\ Goto("expire")
  /\ ticked' = TRUE
  /\ UNCHANGED <<rows, checked, Issues, missed, faults, crashes>>
Tick ==
  \/ Expire \/ ListRequested \/ Start \/ Check \/ CheckFails \/ Refuse \/ ListVerifying
  \/ ReadTarget \/ ReadSources \/ Touch \/ Recheck \/ Write \/ Mark \/ Sleep

-----------------------------------------------------------------------------
\* The app quits or dies; the watcher starts over with the next one.
Crash ==
  /\ crashes < MaxCrashes
  /\ crashes' = crashes + 1
  /\ watcher' = Waking
  /\ creating' = {}
  /\ UNCHANGED <<kind, open, lifecycle, status, target, idle, waited, fetched, checked, clock, faults>>

\* Ten minutes pass.
Older(n) == IF n < Day THEN n + 1 ELSE n
TimePasses ==
  /\ ActiveOnes # {}
  /\ idle' = [a \in Attempts |-> IF status[a] \in Active THEN Older(idle[a]) ELSE idle[a]]
  /\ waited' = [a \in Attempts |-> IF status[a] = "verifying" THEN Older(waited[a]) ELSE waited[a]]
  /\ ticked' = FALSE
  /\ missed' = (missed \/ ~ticked)
  /\ UNCHANGED <<status, target, creating, fetched, checked, Issues, watcher, faults, crashes>>

UserOrAgent ==
  \E a \in Attempts :
    \/ \E t \in Targets : Create(a, t)
    \/ StoreBrief(a) \/ LoseBrief(a) \/ Cancel(a) \/ FetchBrief(a) \/ RequestVerification(a)

Next ==
  \/ UserOrAgent
  \/ \E g \in Groups : \E found \in Verdicts({g}) : OtherRun(g, found)
  \/ Tick \/ Crash \/ TimePasses

Spec == Init /\ [][Next]_vars
\* The watcher's loop is supervised and the clock does not stop; nothing is
\* assumed of the user, the agent or other scans.
FairSpec == Spec /\ WF_vars(Tick) /\ WF_vars(TimePasses)

-----------------------------------------------------------------------------
(* Properties.                                                             *)

\* One attempt at a time works on a target, so that two agents never fix the same
\* issue and their verdicts never mix.
OneActivePerTarget ==
  \A a, b \in ActiveOnes : target[a] = target[b] => a = b

\* A verdict, a cancellation and an expiry are final: what the watcher read
\* before them is not written over them.
SettledFinal ==
  [][\A a \in Attempts : status[a] \in Settled => status'[a] = status[a]]_vars

\* The watcher calls a group verified only for an attempt that was settled as
\* verified first: not for one that was canceled or replaced while it was judged.
GroupMarkedByAttempt ==
  \A g \in Groups :
    lifecycle[g] = "verified" =>
      \E a \in Attempts : status[a] = "verified" /\ target[a][1] = g

\* Unless a call failed, the app died or the issue belongs to a poll, "still
\* failing" is said of an attempt only after its check ran on the agent's request.
StillFailingWasChecked ==
  [][\A a \in Attempts :
       /\ status'[a] = "still_failing" /\ status[a] # "still_failing"
       /\ faults' = 0 /\ crashes' = 0 /\ kind[target[a][1]] \notin {"poll", "remote_poll"}
       => a \in checked]_vars

\* An attempt that is being verified expires only if ticks stopped for a while
\* or a call failed: the deploy wait keeps itself ahead of the sweeper.
ExpiresUnattended ==
  [][\A a \in Attempts :
       /\ status[a] = "verifying" /\ status'[a] = "expired"
       => missed \/ faults > 0 \/ crashes > 0]_vars

\* Every attempt comes to an end, also one whose agent never answers, whose brief
\* was lost or whose deploy never happens.
Settles ==
  \A a \in Attempts : status[a] \in Active ~> status[a] \in Settled
=============================================================================
