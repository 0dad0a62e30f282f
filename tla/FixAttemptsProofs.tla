------------------------- MODULE FixAttemptsProofs -------------------------
(***************************************************************************)
(* What FixAttempts promises, proved for any issues, files, number of      *)
(* attempts, failed calls and deaths.                                      *)
(***************************************************************************)
EXTENDS FixAttempts, WellFoundedInduction, TLAPS

\* The attempt the watcher is at, of those on its list.
First(S) == CHOOSE a \in S : \A b \in S : a <= b

\* The steps of a tick that are about one attempt.
AboutOne == {"check", "refuse", "sources", "touch", "recheck", "write", "mark"}

RowsFit ==
  /\ status \in [Attempts -> {"none"} \cup Active \cup Settled]
  /\ idle \in [Attempts -> 0 .. Day] /\ waited \in [Attempts -> 0 .. Day]
  /\ creating \subseteq Attempts /\ fetched \subseteq Attempts /\ checked \subseteq Attempts

IssuesFit ==
  /\ kind \in Kinds
  /\ open \subseteq UNION {Findings(g) : g \in Groups}
  /\ lifecycle \in [Groups -> {"new", "verified", "regressed"}]

TimesFit ==
  /\ ticked \in BOOLEAN /\ missed \in BOOLEAN
  /\ faults \in 0 .. MaxFaults /\ crashes \in 0 .. MaxCrashes

\* A list that a step is about is not empty, and a group is marked only for an
\* attempt that is verified.
WatcherFit ==
  /\ watcher \in [pc : Steps, todo : SUBSET Attempts, scanned : BOOLEAN,
                  decided : {"verified", "still_failing"}]
  /\ watcher.pc \in AboutOne => watcher.todo # {}
  /\ watcher.pc = "mark" => status[First(watcher.todo)] = "verified"

IInv ==
  /\ RowsFit /\ target \in [Attempts -> Targets] /\ IssuesFit /\ TimesFit /\ WatcherFit
  /\ OneActivePerTarget /\ GroupMarkedByAttempt

-----------------------------------------------------------------------------
(* Pieces of steps.                                                        *)

\* The order of the naturals is well founded.
LEMMA NatOrder == IsWellFoundedOn({ss \in Nat \X Nat : ss[1] < ss[2]}, Nat)
BY NatLessThanWellFounded DEF OpToRel

\* The first of some attempts is one of them.
LEMMA FirstIn ==
  ASSUME NEW S, S \subseteq Attempts, S # {}
  PROVE  First(S) \in S
<1> DEFINE R == {ss \in Nat \X Nat : ss[1] < ss[2]}
<1>1. S \subseteq Nat
  BY DEF Attempts
<1>2. PICK r \in S : \A q \in S : ~(<<q, r>> \in R)
  <2>1. IsWellFoundedOn(R, Nat)
    BY NatOrder
  <2> HIDE DEF R
  <2> QED
    BY <1>1, <2>1, WFMin
<1>3. \A a, b \in Nat : a < b => <<a, b>> \in R
  OBVIOUS
<1>4. ASSUME NEW q \in S PROVE r <= q
  <2> HIDE DEF R
  <2>1. q \in Nat /\ r \in Nat
    BY <1>1
  <2>2. ~(q < r)
    BY <2>1, <1>2, <1>3
  <2> QED
    BY <2>1, <2>2
<1> QED
  BY <1>2, <1>4 DEF First

\* The attempt a step is about, and its group.
LEMMA CurFits ==
  ASSUME IInv, watcher.todo # {}
  PROVE  Cur = First(watcher.todo) /\ Cur \in watcher.todo /\ Cur \in Attempts /\ CurGroup \in Groups
<1>1. Cur = First(watcher.todo)
  BY DEF Cur, First
<1>2. Cur \in watcher.todo /\ Cur \in Attempts
  BY <1>1, FirstIn DEF IInv, WatcherFit
<1>3. target[Cur] \in Targets
  BY <1>2 DEF IInv
<1> QED
  BY <1>1, <1>2, <1>3 DEF CurGroup, Targets

\* What a step may do to the rows: no attempt starts, none is revived and what
\* is settled stays as it was settled.
Calm ==
  \A a \in Attempts : /\ status'[a] \in Active => status[a] \in Active
                      /\ status[a] \in Settled => status'[a] = status[a]

Final == \A a \in Attempts : status[a] \in Settled => status'[a] = status[a]

\* A group is marked only for an attempt that is verified.
MarksRightly ==
  \A g \in Groups : lifecycle'[g] = "verified" =>
    \/ lifecycle[g] = "verified"
    \/ \E a \in Attempts : status[a] = "verified" /\ target[a][1] = g

\* A calm step that marks rightly keeps the invariant.
LEMMA CalmKeeps ==
  ASSUME IInv, RowsFit', target' = target, IssuesFit', TimesFit', Calm, MarksRightly,
         watcher' \in [pc : Steps, todo : SUBSET Attempts, scanned : BOOLEAN,
                       decided : {"verified", "still_failing"}],
         watcher'.pc \in AboutOne => watcher'.todo # {},
         watcher'.pc = "mark" => status'[First(watcher'.todo)] = "verified"
  PROVE  IInv' /\ Final
<1>1. OneActivePerTarget'
  BY DEF IInv, OneActivePerTarget, ActiveOnes, Calm
<1>2. GroupMarkedByAttempt'
  <2> SUFFICES ASSUME NEW g \in Groups, lifecycle'[g] = "verified"
               PROVE  \E a \in Attempts : status'[a] = "verified" /\ target'[a][1] = g
    BY DEF GroupMarkedByAttempt
  <2>1. PICK a \in Attempts : status[a] = "verified" /\ target[a][1] = g
    BY DEF IInv, GroupMarkedByAttempt, MarksRightly
  <2>2. status'[a] = "verified"
    BY <2>1 DEF Calm, Settled
  <2> QED
    BY <2>1, <2>2
<1> QED
  BY <1>1, <1>2 DEF IInv, WatcherFit, Calm, Final

\* So does one that leaves the watcher alone.
LEMMA OthersKeep ==
  ASSUME IInv, RowsFit', target' = target, IssuesFit', TimesFit', Calm, MarksRightly,
         watcher' = watcher
  PROVE  IInv' /\ Final
<1>1. ASSUME watcher.pc = "mark" PROVE status'[First(watcher.todo)] = "verified"
  <2>1. watcher.todo # {} /\ status[First(watcher.todo)] = "verified" /\ watcher.todo \subseteq Attempts
    BY <1>1 DEF IInv, WatcherFit, AboutOne
  <2>2. First(watcher.todo) \in Attempts
    BY <2>1, FirstIn
  <2> QED
    BY <2>1, <2>2 DEF Calm, Settled
<1> QED
  BY <1>1, CalmKeeps DEF IInv, WatcherFit

\* Rows that were active are settled.
LEMMA SettleFits ==
  ASSUME IInv, NEW ended \in SUBSET ActiveOnes, NEW s \in Settled, Settle(ended, s),
         creating' \subseteq Attempts
  PROVE  RowsFit' /\ Calm
<1>1. 0 \in 0 .. Day
  BY BoundsAssumption
<1>2. RowsFit'
  BY <1>1 DEF Settle, RowsFit, IInv
<1>3. \A a \in ended : status[a] \in Active
  BY DEF ActiveOnes
<1>4. \A a \in Attempts : status'[a] = IF a \in ended THEN s ELSE status[a]
  BY DEF Settle
<1>5. Calm
  BY <1>3, <1>4 DEF Calm, Active, Asked, Settled
<1> QED
  BY <1>2, <1>5

\* Rows that stand still.
LEMMA RowsStand ==
  ASSUME IInv, UNCHANGED Measured, creating' \subseteq Attempts
  PROVE  RowsFit' /\ Calm
BY DEF IInv, RowsFit, Measured, Calm

\* A row that is active and stays so, whatever its idle time.
LEMMA RowMoves ==
  ASSUME IInv, NEW a \in Attempts, status[a] \in Active, NEW s \in Active,
         status' = [status EXCEPT ![a] = s], idle' = idle \/ idle' = Touched(a),
         UNCHANGED <<waited, creating, checked>>, fetched' \subseteq Attempts
  PROVE  RowsFit' /\ Calm
<1>1. 0 \in 0 .. Day
  BY BoundsAssumption
<1>2. RowsFit'
  BY <1>1 DEF IInv, RowsFit, Touched
<1>3. Calm
  BY DEF IInv, RowsFit, Calm, Active, Asked, Settled
<1> QED
  BY <1>2, <1>3

\* A call that failed, or did not.
LEMMA FaultFits ==
  ASSUME IInv, Fault \/ NoFault \/ (faults < MaxFaults /\ faults' = faults + 1 /\ UNCHANGED crashes),
         UNCHANGED clock
  PROVE  TimesFit'
BY BoundsAssumption DEF IInv, TimesFit, Fault, NoFault, clock

\* What a run reports and closes.
LEMMA CommitFits ==
  ASSUME IInv, NEW gs \in SUBSET Groups, NEW found \in Verdicts(gs), Commit(gs, found),
         kind' = kind, UNCHANGED rows
  PROVE  IssuesFit' /\ MarksRightly /\ RowsFit' /\ Calm
<1>1. found \subseteq UNION {Findings(g) : g \in Groups}
  BY DEF Verdicts
<1>2. open' \subseteq UNION {Findings(g) : g \in Groups}
  BY <1>1 DEF Commit, IInv, IssuesFit
<1>3. UNION {Findings(g) : g \in Groups}' = UNION {Findings(g) : g \in Groups}
  BY DEF Findings, Places
<1>4. ASSUME NEW g \in Groups
      PROVE  /\ lifecycle'[g] \in {"new", "verified", "regressed"}
             /\ lifecycle'[g] = "verified" => lifecycle[g] = "verified"
  <2>1. lifecycle[g] \in {"new", "verified", "regressed"}
    BY DEF IInv, IssuesFit
  <2>2. lifecycle'[g] = lifecycle[g] \/ lifecycle'[g] = IG!Reobserve(lifecycle[g])
    BY DEF Commit, IG!Reobserved
  <2>3. /\ lifecycle[g] = "verified" => IG!Reobserve(lifecycle[g]) = "regressed"
        /\ lifecycle[g] \in {"new", "regressed"} => IG!Reobserve(lifecycle[g]) = lifecycle[g]
    BY DEF IG!Reobserve
  <2> QED
    BY <2>1, <2>2, <2>3
<1>5. lifecycle' \in [Groups -> {"new", "verified", "regressed"}]
  BY <1>4 DEF Commit, IG!Reobserved
<1>6. RowsFit' /\ Calm
  BY DEF IInv, RowsFit, Commit, AskedOf, rows, Calm
<1> QED
  BY <1>2, <1>3, <1>4, <1>5, <1>6 DEF IInv, IssuesFit, MarksRightly

\* Issues that stand still.
LEMMA IssuesStand ==
  ASSUME IInv, UNCHANGED Issues
  PROVE  IssuesFit' /\ MarksRightly
<1>1. UNION {Findings(g) : g \in Groups}' = UNION {Findings(g) : g \in Groups}
  BY DEF Findings, Places, Issues
<1> QED
  BY <1>1 DEF IInv, IssuesFit, Issues, MarksRightly

\* The watcher goes on with the same attempt, or with the next.
LEMMA WatcherMoves ==
  ASSUME IInv, NEW pc \in Steps, Goto(pc) \/ NextAttempt(pc)
  PROVE  /\ watcher' \in [pc : Steps, todo : SUBSET Attempts, scanned : BOOLEAN,
                          decided : {"verified", "still_failing"}]
         /\ watcher'.pc = pc
         /\ Goto(pc) => watcher'.todo = watcher.todo
BY DEF IInv, WatcherFit, Goto, NextAttempt

\* No fault, no clock.
LEMMA TimesStand == ASSUME IInv, UNCHANGED <<clock, faults, crashes>> PROVE TimesFit'
BY DEF IInv, TimesFit, clock

-----------------------------------------------------------------------------
(* The user and the agent.                                                 *)

\* A new attempt takes the place of those in flight for its target.
LEMMA CreateKeeps ==
  ASSUME IInv, NEW a \in Attempts, NEW t \in Targets, Create(a, t)
  PROVE  IInv' /\ Final
<1>1. /\ status[a] = "none"
      /\ status' = [b \in Attempts |-> IF b = a THEN "briefed"
                                       ELSE IF b \in Replaced(t) THEN "canceled" ELSE status[b]]
      /\ target' = [target EXCEPT ![a] = t]
      /\ idle' = [b \in Attempts |-> IF b \in Replaced(t) THEN 0 ELSE idle[b]]
      /\ waited' = [b \in Attempts |-> IF b \in Replaced(t) THEN 0 ELSE waited[b]]
      /\ checked' = checked \ Replaced(t) /\ fetched' = fetched \ Replaced(t)
      /\ creating' = creating \cup {a}
      /\ UNCHANGED <<kind, open, lifecycle, watcher, clock, faults, crashes>>
  BY DEF Create, User
<1>2. \A b \in Attempts : b \in Replaced(t) <=> status[b] \in Active /\ target[b] = t
  BY DEF Replaced, ActiveOnes
<1>3. RowsFit'
  <2>1. 0 \in 0 .. Day
    BY BoundsAssumption
  <2>2. status' \in [Attempts -> {"none"} \cup Active \cup Settled]
    BY <1>1 DEF IInv, RowsFit, Active, Settled
  <2> QED
    BY <1>1, <2>1, <2>2 DEF IInv, RowsFit
<1>4. target' \in [Attempts -> Targets]
  BY <1>1 DEF IInv
<1>5. IssuesFit' /\ TimesFit'
  BY <1>1, IssuesStand, TimesStand DEF Issues
<1>6. \A b \in Attempts : status[b] \in Settled => status'[b] = status[b] /\ target'[b] = target[b]
  BY <1>1, <1>2 DEF Active, Asked, Settled, IInv
<1>7. WatcherFit'
  <2>1. ASSUME watcher.pc = "mark" PROVE status'[First(watcher.todo)] = "verified"
    <3>1. /\ watcher.todo # {} /\ status[First(watcher.todo)] = "verified"
          /\ watcher.todo \subseteq Attempts
      BY <2>1 DEF IInv, WatcherFit, AboutOne
    <3>2. First(watcher.todo) \in Attempts
      BY <3>1, FirstIn
    <3> QED
      BY <1>6, <3>1, <3>2 DEF Settled
  <2> QED
    BY <1>1, <2>1 DEF IInv, WatcherFit
<1>8. OneActivePerTarget'
  <2> SUFFICES ASSUME NEW b \in Attempts, NEW c \in Attempts,
                      status'[b] \in Active, status'[c] \in Active, target'[b] = target'[c]
               PROVE  b = c
    BY DEF OneActivePerTarget, ActiveOnes
  <2>1. ASSUME NEW d \in Attempts, d # a, status'[d] \in Active
        PROVE  status[d] \in Active /\ target'[d] = target[d] /\ target[d] # t
    BY <1>1, <1>2, <2>1 DEF Active, Asked, IInv
  <2>2. target'[a] = t
    BY <1>1 DEF IInv
  <2>3. CASE b # a /\ c # a
    BY <2>1, <2>3 DEF IInv, OneActivePerTarget, ActiveOnes
  <2> QED
    BY <2>1, <2>2, <2>3
<1>9. GroupMarkedByAttempt'
  <2> SUFFICES ASSUME NEW g \in Groups, lifecycle[g] = "verified"
               PROVE  \E b \in Attempts : status'[b] = "verified" /\ target'[b][1] = g
    BY <1>1 DEF GroupMarkedByAttempt
  <2>1. PICK b \in Attempts : status[b] = "verified" /\ target[b][1] = g
    BY DEF IInv, GroupMarkedByAttempt
  <2> QED
    BY <1>6, <2>1 DEF Settled
<1> QED
  BY <1>3, <1>4, <1>5, <1>6, <1>7, <1>8, <1>9 DEF IInv, Final

\* The other steps of the user and the agent.
LEMMA UserKeeps ==
  ASSUME IInv, NEW a \in Attempts,
         \/ StoreBrief(a) \/ LoseBrief(a) \/ Cancel(a) \/ FetchBrief(a) \/ RequestVerification(a)
  PROVE  IInv' /\ Final
<1>0. creating \subseteq Attempts /\ fetched \subseteq Attempts /\ status \in [Attempts -> {"none"} \cup Active \cup Settled]
  BY DEF IInv, RowsFit
<1>1. CASE StoreBrief(a)
  <2>1. RowsFit' /\ Calm
    <3>1. idle' \in [Attempts -> 0 .. Day]
      BY <1>1, BoundsAssumption DEF StoreBrief, IInv, RowsFit, Touched
    <3> QED
      BY <1>0, <1>1, <3>1 DEF StoreBrief, IInv, RowsFit, Calm
  <2>2. /\ UNCHANGED <<Issues, clock, faults, crashes>> /\ target' = target /\ watcher' = watcher
    BY <1>1 DEF StoreBrief, User, Issues
  <2> QED
    BY <2>1, <2>2, IssuesStand, TimesStand, OthersKeep
<1>2. CASE LoseBrief(a)
  <2>1. RowsFit' /\ Calm
    <3>1. creating' \subseteq Attempts
      BY <1>0, <1>2 DEF LoseBrief
    <3>2. CASE Settle({a} \cap ActiveOnes, "canceled")
      BY <3>1, <3>2, SettleFits DEF Settled
    <3>3. CASE UNCHANGED Measured
      BY <3>1, <3>3, RowsStand
    <3> QED
      BY <1>2, <3>2, <3>3 DEF LoseBrief
  <2>2. /\ UNCHANGED <<Issues, clock>> /\ target' = target /\ watcher' = watcher
        /\ faults < MaxFaults /\ faults' = faults + 1 /\ UNCHANGED crashes
    BY <1>2 DEF LoseBrief, Issues
  <2> QED
    BY <2>1, <2>2, IssuesStand, FaultFits, OthersKeep
<1>3. CASE Cancel(a)
  <2>1. {a} \in SUBSET ActiveOnes
    BY <1>3 DEF Cancel, ActiveOnes
  <2>2. RowsFit' /\ Calm
    BY <1>0, <1>3, <2>1, SettleFits DEF Cancel, Settled
  <2>3. /\ UNCHANGED <<Issues, clock, faults, crashes>> /\ target' = target /\ watcher' = watcher
    BY <1>3 DEF Cancel, User, Issues
  <2> QED
    BY <2>2, <2>3, IssuesStand, TimesStand, OthersKeep
<1>4. CASE FetchBrief(a)
  <2>1. RowsFit' /\ Calm
    <3>1. status' = [status EXCEPT ![a] = status[a]]
      BY <1>0, <1>4 DEF FetchBrief
    <3>2. fetched' \subseteq Attempts
      BY <1>0, <1>4 DEF FetchBrief
    <3> QED
      BY <1>4, <3>1, <3>2, RowMoves DEF FetchBrief
  <2>2. /\ UNCHANGED <<Issues, clock, faults, crashes>> /\ target' = target /\ watcher' = watcher
    BY <1>4 DEF FetchBrief, User, Issues
  <2> QED
    BY <2>1, <2>2, IssuesStand, TimesStand, OthersKeep
<1>5. CASE RequestVerification(a)
  <2>1. RowsFit' /\ Calm
    <3>1. status[a] \in Active /\ "verify_requested" \in Active
      BY <1>5 DEF RequestVerification, Active, Asked
    <3> QED
      BY <1>0, <1>5, <3>1, RowMoves DEF RequestVerification
  <2>2. /\ UNCHANGED <<Issues, clock, faults, crashes>> /\ target' = target /\ watcher' = watcher
    BY <1>5 DEF RequestVerification, User, Issues
  <2> QED
    BY <2>1, <2>2, IssuesStand, TimesStand, OthersKeep
<1> QED
  BY <1>1, <1>2, <1>3, <1>4, <1>5

\* Another run, a death of the app, and the clock.
LEMMA WorldKeeps ==
  ASSUME IInv,
         \/ \E g \in Groups : \E found \in Verdicts({g}) : OtherRun(g, found)
         \/ Crash \/ TimePasses
  PROVE  IInv' /\ Final
<1>1. CASE \E g \in Groups : \E found \in Verdicts({g}) : OtherRun(g, found)
  <2>1. PICK g \in Groups : \E found \in Verdicts({g}) : OtherRun(g, found)
    BY <1>1
  <2>3. PICK found \in Verdicts({g}) : OtherRun(g, found)
    BY <2>1
  <2>2. /\ Commit({g}, found) /\ UNCHANGED <<kind, rows, watcher, clock, faults, crashes>>
    BY <2>3 DEF OtherRun
  <2> QED
    BY <2>2, CommitFits, TimesStand, OthersKeep DEF rows
<1>2. CASE Crash
  <2>1. RowsFit' /\ Calm
    BY <1>2 DEF Crash, IInv, RowsFit, Calm
  <2>2. UNCHANGED Issues /\ target' = target /\ watcher' = Waking
    BY <1>2 DEF Crash, Issues
  <2>3. TimesFit'
    BY <1>2, BoundsAssumption DEF Crash, IInv, TimesFit, clock
  <2>4. watcher' \in [pc : Steps, todo : SUBSET Attempts, scanned : BOOLEAN,
                      decided : {"verified", "still_failing"}] /\ watcher'.pc = "expire"
    BY <2>2 DEF Waking, Steps
  <2> QED
    BY <2>1, <2>2, <2>3, <2>4, IssuesStand, CalmKeeps DEF AboutOne
<1>3. CASE TimePasses
  <2>1. \A n \in 0 .. Day : Older(n) \in 0 .. Day
    BY BoundsAssumption DEF Older
  <2>2. RowsFit' /\ Calm
    <3>1. idle' \in [Attempts -> 0 .. Day] /\ waited' \in [Attempts -> 0 .. Day]
      BY <1>3, <2>1 DEF TimePasses, IInv, RowsFit
    <3> QED
      BY <1>3, <3>1 DEF TimePasses, IInv, RowsFit, Calm
  <2>3. UNCHANGED Issues /\ target' = target /\ watcher' = watcher
    BY <1>3 DEF TimePasses
  <2>4. TimesFit'
    <3>1. ticked \in BOOLEAN /\ missed \in BOOLEAN
      BY DEF IInv, TimesFit
    <3>2. ticked' \in BOOLEAN /\ missed' \in BOOLEAN
      BY <1>3, <3>1 DEF TimePasses
    <3> QED
      BY <1>3, <3>2 DEF TimePasses, IInv, TimesFit
  <2> QED
    BY <2>2, <2>3, <2>4, IssuesStand, OthersKeep
<1> QED
  BY <1>1, <1>2, <1>3

-----------------------------------------------------------------------------
(* The watcher.                                                            *)

\* A step of a tick that leaves the issues alone and does not come to a mark.
LEMMA TickMoves ==
  ASSUME IInv, RowsFit', Calm, UNCHANGED <<target, Issues, clock>>, NoFault \/ Fault,
         watcher' \in [pc : Steps, todo : SUBSET Attempts, scanned : BOOLEAN,
                       decided : {"verified", "still_failing"}],
         watcher'.pc # "mark", watcher'.pc \in AboutOne => watcher'.todo # {}
  PROVE  IInv' /\ Final
BY IssuesStand, FaultFits, CalmKeeps

\* The steps of a tick that only write rows, or nothing.
LEMMA TickRowsKeep ==
  ASSUME IInv,
         \/ Expire \/ ListRequested \/ Start \/ CheckFails \/ Refuse \/ ListVerifying
         \/ ReadTarget \/ ReadSources \/ Touch
  PROVE  IInv' /\ Final
<1>0. /\ creating \subseteq Attempts /\ fetched \subseteq Attempts
      /\ status \in [Attempts -> {"none"} \cup Active \cup Settled]
      /\ watcher \in [pc : Steps, todo : SUBSET Attempts, scanned : BOOLEAN,
                      decided : {"verified", "still_failing"}]
      /\ watcher.pc \in AboutOne => watcher.todo # {}
  BY DEF IInv, RowsFit, WatcherFit
<1>1. CASE Expire
  <2>1. RowsFit' /\ Calm
    <3>1. {a \in ActiveOnes : idle[a] = Day} \in SUBSET ActiveOnes /\ creating' \subseteq Attempts
      BY <1>0, <1>1 DEF Expire
    <3> QED
      BY <1>1, <3>1, SettleFits, RowsStand DEF Expire, Settled
  <2>2. watcher' \in [pc : Steps, todo : SUBSET Attempts, scanned : BOOLEAN,
                      decided : {"verified", "still_failing"}] /\ watcher'.pc = "list"
    BY <1>1, WatcherMoves DEF Expire, Steps
  <2> QED
    BY <1>1, <2>1, <2>2, TickMoves DEF Expire, AboutOne
<1>2. CASE ListRequested
  <2>1. RowsFit' /\ Calm
    BY <1>0, <1>2, RowsStand DEF ListRequested, rows, Measured
  <2>2. watcher' \in [pc : Steps, todo : SUBSET Attempts, scanned : BOOLEAN,
                      decided : {"verified", "still_failing"}] /\ watcher'.pc = "start"
    BY <1>0, <1>2 DEF ListRequested, Steps
  <2> QED
    BY <1>2, <2>1, <2>2, TickMoves DEF ListRequested, AboutOne, rows
<1>3. CASE Start
  <2>1. Cur \in Attempts /\ watcher.todo # {}
    BY <1>3, CurFits DEF Start
  <2>2. RowsFit' /\ Calm
    <3>1. CASE status[Cur] \in Active /\ SetVerifying
      BY <1>0, <1>3, <2>1, <3>1, RowMoves DEF Start, SetVerifying, Active, Asked
    <3>2. CASE UNCHANGED <<status, idle>>
      BY <1>0, <1>3, <3>2, RowsStand DEF Start, Measured
    <3> QED
      BY <1>3, <3>1, <3>2 DEF Start
  <2>3. Goto("check") \/ NextAttempt("start")
    BY <1>3 DEF Start
  <2>4. watcher' \in [pc : Steps, todo : SUBSET Attempts, scanned : BOOLEAN,
                      decided : {"verified", "still_failing"}]
        /\ watcher'.pc \in {"check", "start"} /\ (watcher'.pc = "check" => watcher'.todo = watcher.todo)
    BY <2>3, WatcherMoves DEF Steps
  <2>5. NoFault \/ Fault
    BY <1>3 DEF Start
  <2>6. UNCHANGED <<target, Issues, clock>>
    BY <1>3 DEF Start
  <2> QED
    BY <2>1, <2>2, <2>4, <2>5, <2>6, TickMoves DEF AboutOne
<1>4. CASE CheckFails
  <2>1. RowsFit' /\ Calm
    BY <1>0, <1>4, RowsStand DEF CheckFails, rows, Measured
  <2>2. watcher' \in [pc : Steps, todo : SUBSET Attempts, scanned : BOOLEAN,
                      decided : {"verified", "still_failing"}]
        /\ watcher'.pc = "refuse" /\ watcher'.todo = watcher.todo
    BY <1>4, WatcherMoves DEF CheckFails, Steps
  <2>3. watcher.todo # {}
    BY <1>0, <1>4 DEF CheckFails, At, AboutOne
  <2> QED
    BY <1>4, <2>1, <2>2, <2>3, TickMoves DEF CheckFails, rows, NoFault
<1>5. CASE Refuse
  <2>1. RowsFit' /\ Calm
    <3>1. {Cur} \cap ActiveOnes \in SUBSET ActiveOnes /\ creating' \subseteq Attempts
      BY <1>0, <1>5 DEF Refuse
    <3> QED
      BY <1>5, <3>1, SettleFits, RowsStand DEF Refuse, Settled
  <2>2. watcher' \in [pc : Steps, todo : SUBSET Attempts, scanned : BOOLEAN,
                      decided : {"verified", "still_failing"}] /\ watcher'.pc = "start"
    BY <1>5, WatcherMoves DEF Refuse, Steps
  <2> QED
    BY <1>5, <2>1, <2>2, TickMoves DEF Refuse, AboutOne
<1>6. CASE ListVerifying
  <2>1. RowsFit' /\ Calm
    BY <1>0, <1>6, RowsStand DEF ListVerifying, rows, Measured
  <2>2. watcher' \in [pc : Steps, todo : SUBSET Attempts, scanned : BOOLEAN,
                      decided : {"verified", "still_failing"}] /\ watcher'.pc = "settle"
    BY <1>0, <1>6 DEF ListVerifying, Steps, Goto
  <2> QED
    BY <1>6, <2>1, <2>2, TickMoves DEF ListVerifying, AboutOne, rows
<1>7. CASE ReadTarget
  <2>1. RowsFit' /\ Calm
    BY <1>0, <1>7, RowsStand DEF ReadTarget, rows, Measured
  <2>2. watcher' \in [pc : Steps, todo : SUBSET Attempts, scanned : BOOLEAN,
                      decided : {"verified", "still_failing"}]
        /\ watcher'.pc \in {"sources", "write", "settle"}
        /\ (watcher'.pc # "settle" => watcher'.todo = watcher.todo)
    BY <1>0, <1>7, WatcherMoves DEF ReadTarget, Steps
  <2>3. watcher.todo # {} /\ (NoFault \/ Fault) /\ UNCHANGED <<target, Issues, clock>>
    BY <1>7 DEF ReadTarget, rows
  <2> QED
    BY <2>1, <2>2, <2>3, TickMoves DEF AboutOne
<1>8. CASE ReadSources
  <2>1. RowsFit' /\ Calm
    BY <1>0, <1>8, RowsStand DEF ReadSources, rows, Measured
  <2>2. watcher.todo # {}
    BY <1>0, <1>8 DEF ReadSources, At, AboutOne
  <2>3. watcher' \in [pc : Steps, todo : SUBSET Attempts, scanned : BOOLEAN,
                      decided : {"verified", "still_failing"}]
        /\ watcher'.pc \in {"write", "touch", "settle"}
        /\ (watcher'.pc # "settle" => watcher'.todo = watcher.todo)
    <3>1. CASE watcher' = [watcher EXCEPT !.pc = "write", !.decided = "still_failing"]
      BY <1>0, <3>1 DEF Steps
    <3>2. CASE Goto("touch") \/ NextAttempt("settle")
      BY <3>2, WatcherMoves DEF Steps
    <3> QED
      BY <1>8, <3>1, <3>2 DEF ReadSources
  <2>4. (NoFault \/ Fault) /\ UNCHANGED <<target, Issues, clock>>
    BY <1>8 DEF ReadSources, rows
  <2> QED
    BY <2>1, <2>2, <2>3, <2>4, TickMoves DEF AboutOne
<1>9. CASE Touch
  <2>1. watcher.todo # {} /\ Cur \in Attempts
    BY <1>0, <1>9, CurFits DEF Touch, At, AboutOne
  <2>2. RowsFit' /\ Calm
    <3>1. idle' \in [Attempts -> 0 .. Day]
      BY <1>9, BoundsAssumption DEF Touch, IInv, RowsFit, Touched
    <3> QED
      BY <1>0, <1>9, <3>1 DEF Touch, IInv, RowsFit, Calm
  <2>3. watcher' \in [pc : Steps, todo : SUBSET Attempts, scanned : BOOLEAN,
                      decided : {"verified", "still_failing"}]
        /\ watcher'.pc = "recheck" /\ watcher'.todo = watcher.todo
    BY <1>9, WatcherMoves DEF Touch, Steps
  <2> QED
    BY <1>9, <2>1, <2>2, <2>3, TickMoves DEF Touch
<1> QED
  BY <1>1, <1>2, <1>3, <1>4, <1>5, <1>6, <1>7, <1>8, <1>9

\* The steps of a tick that run a check.
LEMMA TickRunsKeep == ASSUME IInv, Check \/ Recheck PROVE IInv' /\ Final
<1>0. /\ watcher \in [pc : Steps, todo : SUBSET Attempts, scanned : BOOLEAN,
                      decided : {"verified", "still_failing"}]
      /\ creating \subseteq Attempts
      /\ watcher.todo # {} /\ CurGroup \in Groups
  BY CurFits DEF IInv, WatcherFit, RowsFit, Check, Recheck, At, AboutOne
<1>1. /\ UNCHANGED <<kind, rows, clock, faults, crashes>>
      /\ \/ \E gs \in SUBSET Groups : \E found \in Verdicts(gs) : Commit(gs, found)
         \/ UNCHANGED <<open, lifecycle, checked>>
  <2>1. Rerun \in SUBSET Groups /\ {CurGroup} \in SUBSET Groups
    BY <1>0 DEF Rerun
  <2> QED
    BY <2>1 DEF Check, Recheck
<1>2. RowsFit' /\ Calm /\ IssuesFit' /\ MarksRightly
  <2>1. CASE \E gs \in SUBSET Groups : \E found \in Verdicts(gs) : Commit(gs, found)
    BY <1>1, <2>1, CommitFits
  <2>2. CASE UNCHANGED <<open, lifecycle, checked>>
    BY <1>0, <1>1, <2>2, IssuesStand, RowsStand DEF Issues, rows, Measured
  <2> QED
    BY <1>1, <2>1, <2>2
<1>3. /\ watcher' \in [pc : Steps, todo : SUBSET Attempts, scanned : BOOLEAN,
                       decided : {"verified", "still_failing"}]
      /\ watcher'.pc \in {"start", "settle"}
  <2>1. CASE NextAttempt("start") \/ NextAttempt("settle")
    BY <2>1, WatcherMoves DEF Steps
  <2>2. CASE watcher' = [watcher EXCEPT !.pc = "start", !.todo = @ \ {Cur},
                                        !.scanned = @ \/ kind[CurGroup] = "code"]
    <3> DEFINE scanned == watcher.scanned \/ kind[CurGroup] = "code"
    <3>1. scanned \in BOOLEAN
      BY <1>0
    <3>2. watcher' = [watcher EXCEPT !.pc = "start", !.todo = @ \ {Cur}, !.scanned = scanned]
      BY <1>0, <2>2
    <3> HIDE DEF scanned
    <3> QED
      BY <1>0, <3>1, <3>2 DEF Steps
  <2> QED
    BY <2>1, <2>2 DEF Check, Recheck
<1> QED
  BY <1>1, <1>2, <1>3, TimesStand, CalmKeeps DEF AboutOne, rows

\* The verdict, and the mark of the group after it.
LEMMA VerdictKeeps == ASSUME IInv, Write \/ Mark \/ Sleep PROVE IInv' /\ Final
<1>0. /\ watcher \in [pc : Steps, todo : SUBSET Attempts, scanned : BOOLEAN,
                      decided : {"verified", "still_failing"}]
      /\ creating \subseteq Attempts
  BY DEF IInv, WatcherFit, RowsFit
<1>1. CASE Write
  <2>1. /\ watcher.todo # {} /\ Cur = First(watcher.todo) /\ Cur \in Attempts
    BY <1>1, CurFits DEF Write, At, IInv, WatcherFit, AboutOne
  <2>2. watcher.decided \in Settled
    BY <1>0 DEF Settled
  <2>3. RowsFit' /\ Calm
    <3>1. CASE status[Cur] \in Active /\ Settle({Cur}, watcher.decided)
      <4>1. {Cur} \in SUBSET ActiveOnes
        BY <2>1, <3>1 DEF ActiveOnes
      <4> QED
        BY <1>0, <1>1, <2>2, <3>1, <4>1, SettleFits DEF Write
    <3>2. CASE UNCHANGED Measured
      BY <1>0, <1>1, <3>2, RowsStand DEF Write
    <3> QED
      BY <1>1, <3>1, <3>2 DEF Write
  <2>4. (NoFault \/ Fault) /\ UNCHANGED <<target, Issues, clock>>
    BY <1>1 DEF Write
  <2>5. CASE NextAttempt("settle")
    <3>1. watcher' \in [pc : Steps, todo : SUBSET Attempts, scanned : BOOLEAN,
                        decided : {"verified", "still_failing"}] /\ watcher'.pc = "settle"
      BY <2>5, WatcherMoves DEF Steps
    <3> QED
      BY <2>3, <2>4, <3>1, TickMoves DEF AboutOne
  <2>6. CASE Goto("mark") /\ Settle({Cur}, watcher.decided) /\ watcher.decided = "verified"
    <3>1. /\ watcher' \in [pc : Steps, todo : SUBSET Attempts, scanned : BOOLEAN,
                           decided : {"verified", "still_failing"}]
          /\ watcher'.todo = watcher.todo
      BY <2>6, WatcherMoves DEF Steps
    <3>2. status'[First(watcher'.todo)] = "verified"
      BY <2>1, <2>6, <3>1 DEF Settle
    <3> QED
      BY <2>1, <2>3, <2>4, <3>1, <3>2, IssuesStand, FaultFits, CalmKeeps
  <2> QED
    BY <1>1, <2>5, <2>6 DEF Write
<1>2. CASE Mark
  <2>1. /\ watcher.todo # {} /\ status[Cur] = "verified" /\ Cur \in Attempts /\ CurGroup \in Groups
    BY <1>2, CurFits DEF Mark, At, IInv, WatcherFit, AboutOne
  <2>2. RowsFit' /\ Calm
    BY <1>0, <1>2, RowsStand DEF Mark, rows, Measured
  <2>3. /\ lifecycle' = [lifecycle EXCEPT ![CurGroup] = "verified"] \/ UNCHANGED lifecycle
        /\ UNCHANGED <<kind, open, target, clock>> /\ (NoFault \/ Fault)
    BY <1>2 DEF Mark, rows
  <2>4. MarksRightly
    BY <2>1, <2>3 DEF MarksRightly, IInv, IssuesFit, CurGroup
  <2>5. IssuesFit'
    <3>1. UNION {Findings(g) : g \in Groups}' = UNION {Findings(g) : g \in Groups}
      BY <2>3 DEF Findings, Places
    <3>2. lifecycle' \in [Groups -> {"new", "verified", "regressed"}]
      BY <2>3 DEF IInv, IssuesFit
    <3> QED
      BY <2>3, <3>1, <3>2 DEF IInv, IssuesFit
  <2>6. watcher' \in [pc : Steps, todo : SUBSET Attempts, scanned : BOOLEAN,
                      decided : {"verified", "still_failing"}] /\ watcher'.pc = "settle"
    BY <1>2, WatcherMoves DEF Mark, Steps
  <2> QED
    BY <2>2, <2>3, <2>4, <2>5, <2>6, FaultFits, CalmKeeps DEF AboutOne
<1>3. CASE Sleep
  <2>1. RowsFit' /\ Calm
    BY <1>0, <1>3, RowsStand DEF Sleep, rows, Measured
  <2>2. /\ UNCHANGED <<target, Issues, missed, faults, crashes>> /\ ticked' = TRUE
    BY <1>3 DEF Sleep, rows
  <2>3. TimesFit'
    BY <2>2 DEF IInv, TimesFit
  <2>4. watcher' \in [pc : Steps, todo : SUBSET Attempts, scanned : BOOLEAN,
                      decided : {"verified", "still_failing"}] /\ watcher'.pc = "expire"
    BY <1>3, WatcherMoves DEF Sleep, Steps
  <2> QED
    BY <2>1, <2>2, <2>3, <2>4, IssuesStand, CalmKeeps DEF AboutOne
<1> QED
  BY <1>1, <1>2, <1>3

-----------------------------------------------------------------------------

\* Every step keeps the invariant.
LEMMA NextIInv == IInv /\ [Next]_vars => IInv' /\ Final
<1> SUFFICES ASSUME IInv, [Next]_vars PROVE IInv' /\ Final
  OBVIOUS
<1>1. CASE UserOrAgent
  BY <1>1, CreateKeeps, UserKeeps DEF UserOrAgent
<1>2. CASE Tick
  BY <1>2, TickRowsKeep, TickRunsKeep, VerdictKeeps DEF Tick
<1>3. CASE UNCHANGED vars
  <2>1. UNCHANGED <<rows, checked, Issues, watcher, clock, faults, crashes>>
    BY <1>3 DEF vars, Issues
  <2>2. RowsFit' /\ Calm /\ target' = target
    BY <2>1, RowsStand DEF rows, Measured, IInv, RowsFit
  <2> QED
    BY <2>1, <2>2, IssuesStand, TimesStand, OthersKeep
<1> QED
  BY <1>1, <1>2, <1>3, WorldKeeps DEF Next

\* The initial states satisfy it.
LEMMA InitIInv == Init => IInv
<1> SUFFICES ASSUME Init PROVE IInv
  OBVIOUS
<1>1. RowsFit
  BY BoundsAssumption DEF Init, RowsFit
<1>2. target \in [Attempts -> Targets]
  <2>1. Targets # {}
    <3>1. PICK g \in Groups : TRUE
      BY GroupsAssumption
    <3>2. <<g, Whole>> \in Targets
      BY <3>1 DEF Targets
    <3> QED
      BY <3>2
  <2>2. AnyTarget \in Targets
    BY <2>1 DEF AnyTarget
  <2> QED
    BY <2>2 DEF Init
<1>3. IssuesFit
  <2>1. lifecycle \in [Groups -> {"new", "verified", "regressed"}]
    BY DEF Init
  <2> QED
    BY <2>1 DEF Init, IssuesFit
<1>7. TimesFit
  <2>1. 0 \in 0 .. MaxFaults /\ 0 \in 0 .. MaxCrashes
    BY BoundsAssumption
  <2>2. ticked \in BOOLEAN /\ missed \in BOOLEAN /\ faults = 0 /\ crashes = 0
    BY DEF Init
  <2> QED
    BY <2>1, <2>2 DEF TimesFit
<1>4. WatcherFit
  BY DEF Init, Waking, Steps, WatcherFit, AboutOne
<1>5. OneActivePerTarget
  BY DEF Init, OneActivePerTarget, ActiveOnes, Active, Asked
<1>6. GroupMarkedByAttempt
  BY DEF Init, GroupMarkedByAttempt
<1> QED
  BY <1>1, <1>2, <1>3, <1>4, <1>5, <1>6, <1>7 DEF IInv

\* The inductive invariant holds throughout.
THEOREM Invariance == Spec => []IInv
<1>1. IInv /\ [Next]_vars => IInv'
  BY NextIInv
<1> QED
  BY <1>1, InitIInv, PTL DEF Spec

\* The rows, the issues, the watcher and the clock keep their types.
THEOREM TypeCorrect == Spec => []TypeOK
<1>1. IInv => TypeOK
  BY DEF IInv, TypeOK, RowsFit, IssuesFit, TimesFit, WatcherFit
<1> QED
  BY <1>1, Invariance, PTL

\* At most one attempt at a time works on a target: creating one cancels the
\* other in the same transaction, and no later step makes an ended one active.
THEOREM OneAttemptPerTarget == Spec => []OneActivePerTarget
<1>1. IInv => OneActivePerTarget
  BY DEF IInv
<1> QED
  BY <1>1, Invariance, PTL

\* A group is called verified only for an attempt that was settled as verified.
THEOREM MarkedByAttempt == Spec => []GroupMarkedByAttempt
<1>1. IInv => GroupMarkedByAttempt
  BY DEF IInv
<1> QED
  BY <1>1, Invariance, PTL

\* A verdict, a cancellation and an expiry are never overwritten.
THEOREM SettledStands == Spec => SettledFinal
<1>1. IInv /\ [Next]_vars =>
        [\A a \in Attempts : status[a] \in Settled => status'[a] = status[a]]_vars
  BY NextIInv DEF Final
<1> QED
  BY <1>1, Invariance, PTL DEF Spec, SettledFinal
-----------------------------------------------------------------------------
(* "Still failing" is said only after a look.                              *)

\* No call failed and the app did not die.
Quiet == faults = 0 /\ crashes = 0
\* The attempts whose check is not a poll, which is only queued.
Runs(a) == kind[target[a][1]] \notin {"poll", "remote_poll"}
HasFinding(g) == \E f \in open : f[1] = g
Starting == {"start", "check", "refuse"}
Judging == {"settle", "sources", "touch", "recheck", "write", "mark"}

\* Who is on the list the tick works through.
ListedInv ==
  /\ watcher.pc \in Starting => \A a \in watcher.todo : status[a] \in Asked \cup Settled
  /\ watcher.pc \in Judging => \A a \in watcher.todo : status[a] \in {"verifying"} \cup Settled
\* The Code scan of a tick served every Code attempt on its list.
ScannedInv ==
  watcher.pc \in Starting /\ watcher.scanned =>
    \A a \in watcher.todo : status[a] \in Asked /\ kind[target[a][1]] = "code" => a \in checked
\* An attempt is verified whose check ran, whose check is about to run, or whose
\* group had no finding to run a check for.
LookedInv ==
  \A a \in Attempts :
    status[a] = "verifying" /\ Runs(a) /\ HasFinding(target[a][1]) =>
      a \in checked \/ (watcher.pc \in {"check", "refuse"} /\ a = First(watcher.todo))
\* What is judged as failing was looked at.
JudgedInv ==
  \/ watcher.pc \in {"sources", "touch", "recheck"}
  \/ watcher.pc = "write" /\ watcher.decided = "still_failing"
  => (status[First(watcher.todo)] = "verifying" /\ Runs(First(watcher.todo)) => First(watcher.todo) \in checked)

CheckedInv == Quiet => ListedInv /\ ScannedInv /\ LookedInv /\ JudgedInv

\* What a step may do to the rows and the findings: nothing comes under
\* verification, nothing asked for is taken back, a look is remembered, and a
\* finding that appears is one a run has just looked at.
Steady ==
  /\ kind' = kind
  /\ Quiet' => Quiet
  /\ \A a \in Attempts :
       /\ status'[a] = "verifying" => status[a] = "verifying"
       /\ status[a] \in Settled => status'[a] \in Settled
       /\ status[a] \in Asked => status'[a] \in Asked \cup Settled
       /\ status[a] = "verifying" => status'[a] \in {"verifying"} \cup Settled
       /\ status[a] # "none" => target'[a] = target[a]
       /\ status'[a] \in Asked /\ a \in checked => a \in checked'
       /\ \A g \in Groups : status'[a] \in Asked /\ target[a][1] = g /\ HasFinding(g)' /\ ~HasFinding(g)
            => a \in checked'

\* The group of an attempt is a group.
LEMMA GroupFits == ASSUME IInv, NEW a \in Attempts PROVE target[a][1] \in Groups
<1>1. target[a] \in Targets
  BY DEF IInv
<1> QED
  BY <1>1 DEF Targets

\* A verified attempt stays looked at, unless the step gives up the check that
\* was about to run.
LEMMA LookedStays ==
  ASSUME IInv, LookedInv, Steady,
         \A a \in Attempts :
           /\ watcher.pc \in {"check", "refuse"} /\ a = First(watcher.todo)
           /\ status[a] = "verifying" /\ status'[a] = "verifying" /\ Runs(a) /\ HasFinding(target[a][1])
           => a \in checked' \/ (watcher'.pc \in {"check", "refuse"} /\ a = First(watcher'.todo))
  PROVE  LookedInv'
<1> SUFFICES ASSUME NEW a \in Attempts, status'[a] = "verifying", Runs(a)', HasFinding(target[a][1])'
             PROVE  a \in checked' \/ (watcher'.pc \in {"check", "refuse"} /\ a = First(watcher'.todo))
  BY DEF LookedInv, First
<1>1. status[a] = "verifying" /\ target'[a] = target[a] /\ Runs(a) /\ target[a][1] \in Groups
  BY GroupFits DEF Steady, Runs
<1>2. HasFinding(target[a][1])' <=> \E f \in open' : f[1] = target[a][1]
  BY <1>1 DEF HasFinding
<1>3. CASE HasFinding(target[a][1])
  BY <1>1, <1>3 DEF LookedInv, Steady, Asked
<1>4. CASE ~HasFinding(target[a][1])
  <2> DEFINE g == target[a][1]
  <2>1. (\E f \in open' : f[1] = g) /\ ~(\E f \in open : f[1] = g)
    BY <1>2, <1>4 DEF HasFinding
  <2> QED
    BY <1>1, <2>1 DEF Steady, Asked, HasFinding
<1> QED
  BY <1>3, <1>4

\* A list that only loses attempts stays a list of the same kind.
LEMMA ListedStays ==
  ASSUME IInv, ListedInv, Steady, watcher'.todo \subseteq watcher.todo,
         watcher'.pc \in Starting => watcher.pc \in Starting,
         watcher'.pc \in Judging => watcher.pc \in Judging
  PROVE  ListedInv'
BY DEF IInv, WatcherFit, ListedInv, Steady, Asked

\* What the scan of the tick served it has served.
LEMMA ScannedStays ==
  ASSUME IInv, ListedInv, ScannedInv, Steady, watcher'.todo \subseteq watcher.todo,
         watcher'.pc \in Starting => watcher.pc \in Starting,
         watcher'.scanned => watcher.scanned
  PROVE  ScannedInv'
<1> SUFFICES ASSUME watcher'.pc \in Starting, watcher'.scanned, NEW a \in watcher'.todo,
                    status'[a] \in Asked, kind'[target'[a][1]] = "code"
             PROVE  a \in checked'
  BY DEF ScannedInv
<1>1. a \in watcher.todo /\ a \in Attempts
  BY DEF IInv, WatcherFit
<1>2. status[a] \in Asked
  BY <1>1 DEF ListedInv, Steady, Asked, Settled
<1>3. target'[a] = target[a] /\ kind' = kind
  BY <1>1, <1>2 DEF Steady, Asked
<1> QED
  BY <1>1, <1>2, <1>3 DEF ScannedInv, Steady

\* What is judged as failing stays looked at.
LEMMA JudgedStays ==
  ASSUME IInv, JudgedInv, Steady, watcher.todo # {}, watcher'.todo = watcher.todo,
         \/ watcher.pc \in {"sources", "touch", "recheck"}
         \/ watcher.pc = "write" /\ watcher.decided = "still_failing"
  PROVE  JudgedInv'
<1> DEFINE a == First(watcher.todo)
<1>1. a \in Attempts
  BY FirstIn DEF IInv, WatcherFit
<1>2. status[a] = "verifying" /\ Runs(a) => a \in checked
  BY DEF JudgedInv
<1>3. First(watcher'.todo) = a
  OBVIOUS
<1> SUFFICES ASSUME status'[a] = "verifying", Runs(a)' PROVE a \in checked'
  BY <1>3 DEF JudgedInv, Runs
<1>4. status[a] = "verifying" /\ target'[a] = target[a] /\ kind' = kind
  BY <1>1 DEF Steady
<1>5. Runs(a)
  BY <1>4 DEF Runs
<1> QED
  BY <1>1, <1>2, <1>4, <1>5 DEF Steady, Asked

\* Rows, issues and kinds that stand still are steady.
LEMMA StandSteady ==
  ASSUME IInv, UNCHANGED <<status, target, checked, kind, open>>, Quiet' => Quiet
  PROVE  Steady
BY DEF Steady, IInv, RowsFit, HasFinding, Asked, Settled, Active

\* So are rows that are settled, and nothing else.
LEMMA SettleSteady ==
  ASSUME IInv, NEW ended \in SUBSET ActiveOnes, NEW s \in Settled, Settle(ended, s),
         UNCHANGED <<target, kind, open>>, Quiet' => Quiet
  PROVE  Steady
<1>1. \A a \in Attempts : status'[a] = IF a \in ended THEN s ELSE status[a]
  BY DEF Settle
<1>2. \A a \in ended : status[a] \in Active
  BY DEF ActiveOnes
<1>3. checked' = checked \ ended
  BY DEF Settle
<1>4. Asked \cap Settled = {} /\ "verifying" \in Asked /\ Active \cap Settled = {}
  BY DEF Active, Asked, Settled
<1> QED
  BY <1>1, <1>2, <1>3, <1>4 DEF Steady, HasFinding

\* A run looks at every attempt that is asked for in the groups it reports on.
LEMMA CommitSteady ==
  ASSUME IInv, NEW gs \in SUBSET Groups, NEW found \in Verdicts(gs), Commit(gs, found),
         UNCHANGED <<kind, rows>>, Quiet' => Quiet
  PROVE  Steady /\ (\A a \in Attempts : status[a] \in Asked /\ target[a][1] \in gs => a \in checked')
<1>1. UNCHANGED <<status, target, kind>>
  BY DEF rows
<1>2. \A a \in Attempts : status[a] \in Asked /\ target[a][1] \in gs => a \in checked'
  BY DEF Commit, AskedOf
<1>3. \A f \in found : f[1] \in gs
  BY DEF Verdicts, Findings
<1>4. \A g \in Groups : HasFinding(g)' /\ ~HasFinding(g) => g \in gs
  BY <1>3 DEF Commit, HasFinding
<1>5. checked \subseteq checked'
  BY DEF Commit
<1> QED
  BY <1>1, <1>2, <1>4, <1>5 DEF Steady, IInv, RowsFit, Asked, Settled, Active

\* A steady step that leaves the watcher alone.
LEMMA AloneChecked ==
  ASSUME IInv, CheckedInv, Steady, watcher' = watcher
  PROVE  CheckedInv'
<1> SUFFICES ASSUME Quiet' PROVE ListedInv' /\ ScannedInv' /\ LookedInv' /\ JudgedInv'
  BY DEF CheckedInv
<1>1. ListedInv /\ ScannedInv /\ LookedInv /\ JudgedInv
  BY DEF CheckedInv, Steady
<1>2. CASE \/ watcher.pc \in {"sources", "touch", "recheck"}
           \/ watcher.pc = "write" /\ watcher.decided = "still_failing"
  <2>1. watcher.todo # {}
    BY <1>2 DEF IInv, WatcherFit, AboutOne
  <2>2. JudgedInv'
    BY <1>1, <1>2, <2>1, JudgedStays
  <2> QED
    BY <1>1, <2>2, ListedStays, ScannedStays, LookedStays
<1>3. CASE ~(\/ watcher.pc \in {"sources", "touch", "recheck"}
             \/ watcher.pc = "write" /\ watcher.decided = "still_failing")
  <2>1. JudgedInv'
    BY <1>3 DEF JudgedInv
  <2> QED
    BY <1>1, <2>1, ListedStays, ScannedStays, LookedStays
<1> QED
  BY <1>2, <1>3

\* A steady step of the tick that goes on with the same attempt, or the next, in
\* the same pass, without giving up a check and without judging.
LEMMA OnChecked ==
  ASSUME IInv, CheckedInv, Steady, Quiet', watcher'.todo \subseteq watcher.todo,
         watcher'.scanned => watcher.scanned,
         watcher'.pc \in Starting => watcher.pc \in Starting,
         watcher'.pc \in Judging => watcher.pc \in Judging,
         ~(\/ watcher'.pc \in {"sources", "touch", "recheck"}
           \/ watcher'.pc = "write" /\ watcher'.decided = "still_failing"),
         \A a \in Attempts :
           /\ watcher.pc \in {"check", "refuse"} /\ a = First(watcher.todo)
           /\ status[a] = "verifying" /\ status'[a] = "verifying" /\ Runs(a) /\ HasFinding(target[a][1])
           => a \in checked' \/ (watcher'.pc \in {"check", "refuse"} /\ a = First(watcher'.todo))
  PROVE  CheckedInv'
<1>1. ListedInv /\ ScannedInv /\ LookedInv
  BY DEF CheckedInv, Steady
<1>2. JudgedInv'
  BY DEF JudgedInv
<1> QED
  BY <1>1, <1>2, ListedStays, ScannedStays, LookedStays DEF CheckedInv
\* The user, the agent, other runs, a death and the clock.
LEMMA WorldChecked ==
  ASSUME IInv, CheckedInv,
         \/ UserOrAgent \/ Crash \/ TimePasses \/ UNCHANGED vars
         \/ \E g \in Groups : \E found \in Verdicts({g}) : OtherRun(g, found)
  PROVE  CheckedInv'
<1>0. status \in [Attempts -> {"none"} \cup Active \cup Settled] /\ target \in [Attempts -> Targets]
  BY DEF IInv, RowsFit
<1>1. ASSUME NEW a \in Attempts, NEW t \in Targets, Create(a, t) PROVE CheckedInv'
  <2>1. /\ status[a] = "none"
        /\ status' = [b \in Attempts |-> IF b = a THEN "briefed"
                                         ELSE IF b \in Replaced(t) THEN "canceled" ELSE status[b]]
        /\ target' = [target EXCEPT ![a] = t]
        /\ checked' = checked \ Replaced(t)
        /\ UNCHANGED <<kind, open, watcher, faults, crashes>>
    BY <1>1 DEF Create, User
  <2>2. \A b \in Replaced(t) : status[b] \in Active
    BY DEF Replaced, ActiveOnes
  <2>3. Steady
    BY <1>0, <2>1, <2>2 DEF Steady, Quiet, HasFinding, Active, Asked, Settled
  <2> QED
    BY <2>1, <2>3, AloneChecked
<1>2. ASSUME NEW a \in Attempts, StoreBrief(a) \/ FetchBrief(a) PROVE CheckedInv'
  <2>1. UNCHANGED <<status, target, checked, kind, open, watcher, faults, crashes>>
    BY <1>2 DEF StoreBrief, FetchBrief, User
  <2> QED
    BY <2>1, StandSteady, AloneChecked DEF Quiet
<1>3. ASSUME NEW a \in Attempts, LoseBrief(a) PROVE CheckedInv'
  <2>1. ~Quiet'
    BY <1>3 DEF LoseBrief, Quiet, IInv, TimesFit
  <2> QED
    BY <2>1 DEF CheckedInv
<1>4. ASSUME NEW a \in Attempts, Cancel(a) PROVE CheckedInv'
  <2>1. {a} \in SUBSET ActiveOnes /\ "canceled" \in Settled
    BY <1>4 DEF Cancel, ActiveOnes, Settled
  <2>2. Settle({a}, "canceled") /\ UNCHANGED <<target, kind, open, watcher, faults, crashes>>
    BY <1>4 DEF Cancel, User
  <2> QED
    BY <2>1, <2>2, SettleSteady, AloneChecked DEF Quiet
<1>5. ASSUME NEW a \in Attempts, RequestVerification(a) PROVE CheckedInv'
  <2>1. /\ status[a] \in {"briefed", "verify_requested"}
        /\ status' = [status EXCEPT ![a] = "verify_requested"]
        /\ UNCHANGED <<target, checked, kind, open, watcher, faults, crashes>>
    BY <1>5 DEF RequestVerification, User
  <2>2. Steady
    BY <1>0, <2>1 DEF Steady, Quiet, HasFinding, Active, Asked, Settled
  <2> QED
    BY <2>1, <2>2, AloneChecked
<1>6. CASE Crash
  <2>1. ~Quiet'
    BY <1>6 DEF Crash, Quiet, IInv, TimesFit
  <2> QED
    BY <2>1 DEF CheckedInv
<1>7. CASE TimePasses \/ UNCHANGED vars
  <2>1. UNCHANGED <<status, target, checked, kind, open, watcher, faults, crashes>>
    BY <1>7 DEF TimePasses, Issues, vars, rows
  <2> QED
    BY <2>1, StandSteady, AloneChecked DEF Quiet
<1>8. ASSUME NEW g \in Groups, NEW found \in Verdicts({g}), OtherRun(g, found) PROVE CheckedInv'
  <2>1. Commit({g}, found) /\ UNCHANGED <<kind, rows, watcher, faults, crashes>>
    BY <1>8 DEF OtherRun
  <2> QED
    BY <2>1, CommitSteady, AloneChecked DEF Quiet
<1> QED
  BY <1>1, <1>2, <1>3, <1>4, <1>5, <1>6, <1>7, <1>8 DEF UserOrAgent

\* A call that failed is not quiet; one that did not keeps the quiet.
LEMMA FaultsCount ==
  ASSUME IInv
  PROVE  (Fault => ~Quiet') /\ (NoFault => Quiet' = Quiet)
BY DEF IInv, TimesFit, Fault, NoFault, Quiet

\* The steps of a tick up to the list of what is to be judged.
LEMMA StartChecked ==
  ASSUME IInv, CheckedInv, Quiet',
         Expire \/ ListRequested \/ Start \/ CheckFails \/ Refuse \/ ListVerifying
  PROVE  CheckedInv'
<1>0. /\ watcher \in [pc : Steps, todo : SUBSET Attempts, scanned : BOOLEAN,
                      decided : {"verified", "still_failing"}]
      /\ status \in [Attempts -> {"none"} \cup Active \cup Settled]
      /\ watcher.pc \in AboutOne => watcher.todo # {}
  BY DEF IInv, RowsFit, WatcherFit
<1>1. CASE Expire
  <2>1. NoFault /\ Quiet
    BY <1>1, FaultsCount DEF Expire
  <2>2. Settle({a \in ActiveOnes : idle[a] = Day}, "expired")
    BY <1>1, FaultsCount DEF Expire
  <2>3. UNCHANGED <<target, kind, open>> /\ watcher' = [watcher EXCEPT !.pc = "list"] /\ watcher.pc = "expire"
    BY <1>1 DEF Expire, Goto, Issues, At
  <2>4. Steady
    BY <2>1, <2>2, <2>3, SettleSteady DEF Settled
  <2> QED
    BY <1>0, <2>3, <2>4, OnChecked DEF Starting, Judging
<1>2. CASE ListRequested
  <2>1. /\ NoFault /\ watcher.pc = "list"
        /\ watcher' = [watcher EXCEPT !.pc = "start", !.scanned = FALSE,
                                      !.todo = {a \in Attempts : status[a] = "verify_requested"}]
    BY <1>2, FaultsCount DEF ListRequested, At
  <2>2. UNCHANGED <<status, target, checked, kind, open>>
    BY <1>2 DEF ListRequested, rows, Issues
  <2>3. Steady /\ Quiet
    BY <2>1, <2>2, StandSteady, FaultsCount
  <2>4. /\ watcher'.pc = "start" /\ ~watcher'.scanned
        /\ watcher'.todo = {a \in Attempts : status[a] = "verify_requested"}
    BY <1>0, <2>1
  <2>5. ListedInv' /\ ScannedInv' /\ JudgedInv'
    BY <2>2, <2>4 DEF ListedInv, ScannedInv, JudgedInv, Starting, Judging, Asked
  <2>6. LookedInv'
    BY <2>1, <2>3, LookedStays DEF CheckedInv
  <2> QED
    BY <2>5, <2>6 DEF CheckedInv
<1>3. CASE Start
  <2>1. watcher.pc = "start" /\ watcher.todo # {} /\ NoFault /\ UNCHANGED <<target, checked, kind, open>>
    BY <1>3, FaultsCount DEF Start, At, Issues
  <2>2. Cur = First(watcher.todo) /\ Cur \in watcher.todo /\ Cur \in Attempts
    BY <2>1, CurFits
  <2>3. Quiet /\ ListedInv /\ ScannedInv /\ LookedInv
    BY <2>1, FaultsCount DEF CheckedInv
  <2>4. CASE status[Cur] \in Active /\ SetVerifying /\ Goto("check")
    <3>1. status' = [status EXCEPT ![Cur] = "verifying"] /\ watcher' = [watcher EXCEPT !.pc = "check"]
      BY <2>4 DEF SetVerifying, Goto
    <3>2. status[Cur] \in Asked
      BY <2>1, <2>2, <2>3, <2>4 DEF ListedInv, Starting, Active, Asked, Settled
    <3>3. ListedInv'
      BY <1>0, <2>1, <2>2, <2>3, <3>1 DEF ListedInv, Starting, Judging, Asked
    <3>4. ScannedInv'
      BY <1>0, <2>1, <2>2, <2>3, <3>1, <3>2 DEF ScannedInv, Starting, Asked
    <3>5. LookedInv'
      BY <1>0, <2>1, <2>2, <2>3, <3>1 DEF LookedInv, Runs, HasFinding
    <3>6. JudgedInv'
      BY <1>0, <3>1 DEF JudgedInv
    <3> QED
      BY <3>3, <3>4, <3>5, <3>6 DEF CheckedInv
  <2>5. CASE UNCHANGED status /\ NextAttempt("start")
    <3>1. Steady
      BY <2>1, <2>3, <2>5, StandSteady
    <3> QED
      BY <1>0, <2>1, <2>5, <3>1, OnChecked DEF NextAttempt, Starting, Judging
  <2> QED
    BY <1>3, <2>1, <2>4, <2>5, FaultsCount DEF Start
<1>4. CASE CheckFails
  <2>1. /\ UNCHANGED <<status, target, checked, kind, open, faults, crashes>>
        /\ watcher.pc = "check" /\ watcher' = [watcher EXCEPT !.pc = "refuse"]
    BY <1>4 DEF CheckFails, rows, Issues, At, Goto
  <2>2. Steady
    BY <2>1, StandSteady DEF Quiet
  <2> QED
    BY <1>0, <2>1, <2>2, OnChecked DEF Starting, Judging
<1>5. CASE Refuse
  <2>1. /\ NoFault /\ watcher.pc = "refuse" /\ watcher.todo # {}
        /\ Settle({Cur} \cap ActiveOnes, "could_not_run") /\ NextAttempt("start")
        /\ UNCHANGED <<target, kind, open>>
    BY <1>0, <1>5, FaultsCount DEF Refuse, At, Issues, AboutOne
  <2>2. Cur = First(watcher.todo) /\ Cur \in Attempts
    BY <2>1, CurFits
  <2>3. Steady
    BY <2>1, SettleSteady, FaultsCount DEF Settled
  <2>4. status'[Cur] # "verifying"
    BY <1>0, <2>1, <2>2 DEF Settle, ActiveOnes, Active, Asked
  <2> QED
    BY <1>0, <2>1, <2>2, <2>3, <2>4, OnChecked DEF NextAttempt, Starting, Judging
<1>6. CASE ListVerifying
  <2>1. /\ NoFault /\ watcher.pc = "start"
        /\ watcher' = [watcher EXCEPT !.pc = "settle", !.todo = {a \in Attempts : status[a] = "verifying"}]
    BY <1>6, FaultsCount DEF ListVerifying, At
  <2>2. UNCHANGED <<status, target, checked, kind, open>>
    BY <1>6 DEF ListVerifying, rows, Issues
  <2>3. Steady /\ Quiet
    BY <2>1, <2>2, StandSteady, FaultsCount
  <2>4. watcher'.pc = "settle" /\ watcher'.todo = {a \in Attempts : status[a] = "verifying"}
    BY <1>0, <2>1
  <2>5. ListedInv' /\ ScannedInv' /\ JudgedInv'
    BY <2>2, <2>4 DEF ListedInv, ScannedInv, JudgedInv, Starting, Judging, Asked
  <2>6. LookedInv'
    BY <2>1, <2>3, LookedStays DEF CheckedInv
  <2> QED
    BY <2>5, <2>6 DEF CheckedInv
<1> QED
  BY <1>1, <1>2, <1>3, <1>4, <1>5, <1>6
\* The steps of a tick that run a check.
LEMMA RunChecked ==
  ASSUME IInv, CheckedInv, Quiet', Check \/ Recheck
  PROVE  CheckedInv'
<1>0. /\ watcher \in [pc : Steps, todo : SUBSET Attempts, scanned : BOOLEAN,
                      decided : {"verified", "still_failing"}]
      /\ watcher.todo # {} /\ Cur = First(watcher.todo) /\ Cur \in watcher.todo
      /\ Cur \in Attempts /\ CurGroup \in Groups
  BY CurFits DEF IInv, WatcherFit, Check, Recheck, At, AboutOne
<1>1. Quiet /\ ListedInv /\ ScannedInv /\ LookedInv
  BY DEF Check, Recheck, Quiet, CheckedInv
<1>2. CASE Check /\ NothingRuns
  <2>1. /\ watcher.pc = "check" /\ watcher' = [watcher EXCEPT !.pc = "start", !.todo = @ \ {Cur}]
        /\ UNCHANGED <<status, target, checked, kind, open>>
    BY <1>2 DEF Check, At, NextAttempt, rows
  <2>2. Steady
    BY <1>1, <2>1, StandSteady
  <2>3. ASSUME status[Cur] = "verifying", Runs(Cur), HasFinding(target[Cur][1]) PROVE Cur \in checked
    <3>1. kind[CurGroup] = "code" /\ watcher.scanned
      BY <1>2, <2>3 DEF NothingRuns, NoSource, Runs, CurGroup, HasFinding
    <3> QED
      BY <1>0, <1>1, <2>1, <2>3, <3>1 DEF ScannedInv, Starting, Asked, CurGroup
  <2> QED
    BY <1>0, <2>1, <2>2, <2>3, OnChecked DEF Starting, Judging
<1>3. CASE Check /\ ~NothingRuns
  <2>1. PICK found \in Verdicts(Rerun) : Commit(Rerun, found)
    BY <1>3 DEF Check
  <2>2. Rerun \in SUBSET Groups /\ CurGroup \in Rerun
        /\ (kind[CurGroup] = "code" => \A g \in Groups : kind[g] = "code" => g \in Rerun)
    BY <1>0 DEF Rerun
  <2>3. /\ watcher.pc = "check" /\ UNCHANGED <<kind, rows>>
        /\ watcher' = [watcher EXCEPT !.pc = "start", !.todo = @ \ {Cur},
                                      !.scanned = @ \/ kind[CurGroup] = "code"]
    BY <1>3 DEF Check, At
  <2>4. Steady /\ (\A a \in Attempts : status[a] \in Asked /\ target[a][1] \in Rerun => a \in checked')
    BY <1>1, <2>1, <2>2, <2>3, CommitSteady
  <2>5. /\ watcher'.pc = "start" /\ watcher'.todo \subseteq watcher.todo
        /\ watcher'.scanned => watcher.scanned \/ kind[CurGroup] = "code"
    BY <1>0, <2>3
  <2>6. LookedInv'
    BY <1>0, <1>1, <2>2, <2>4, LookedStays DEF CurGroup, Asked
  <2>7. ListedInv'
    BY <1>1, <2>3, <2>4, <2>5, ListedStays DEF Starting, Judging
  <2>8. ScannedInv'
    <3>1. CASE watcher.scanned
      BY <1>1, <2>3, <2>4, <2>5, <3>1, ScannedStays DEF Starting
    <3>2. CASE kind[CurGroup] = "code"
      <4>1. \A a \in watcher'.todo : a \in Attempts /\ target[a][1] \in Groups
        BY <1>0, <2>5, GroupFits
      <4> QED
        BY <2>2, <2>3, <2>4, <3>2, <4>1 DEF ScannedInv, rows
    <3>3. CASE ~watcher'.scanned
      BY <3>3 DEF ScannedInv
    <3> QED
      BY <2>5, <3>1, <3>2, <3>3
  <2>9. JudgedInv'
    BY <2>5 DEF JudgedInv
  <2> QED
    BY <2>6, <2>7, <2>8, <2>9 DEF CheckedInv
<1>4. CASE Recheck
  <2>1. watcher.pc = "recheck" /\ watcher' = [watcher EXCEPT !.pc = "settle", !.todo = @ \ {Cur}]
    BY <1>4 DEF Recheck, At, NextAttempt
  <2>2. UNCHANGED <<kind, rows>>
    BY <1>4 DEF Recheck
  <2>3. Steady
    <3>1. CASE \E found \in Verdicts({CurGroup}) : Commit({CurGroup}, found)
      BY <1>0, <1>1, <2>2, <3>1, CommitSteady
    <3>2. CASE UNCHANGED <<open, lifecycle, checked>>
      BY <1>1, <2>2, <3>2, StandSteady DEF rows
    <3> QED
      BY <1>4, <3>1, <3>2 DEF Recheck
  <2> QED
    BY <1>0, <2>1, <2>3, OnChecked DEF Starting, Judging
<1> QED
  BY <1>2, <1>3, <1>4

\* The steps of a tick that judge.
LEMMA JudgeChecked ==
  ASSUME IInv, CheckedInv, Quiet',
         ReadTarget \/ ReadSources \/ Touch \/ Write \/ Mark \/ Sleep
  PROVE  CheckedInv'
<1>0. /\ watcher \in [pc : Steps, todo : SUBSET Attempts, scanned : BOOLEAN,
                      decided : {"verified", "still_failing"}]
      /\ watcher.pc \in AboutOne => watcher.todo # {}
  BY DEF IInv, WatcherFit
<1>1. CASE ReadTarget
  <2>1. /\ NoFault /\ watcher.pc = "settle" /\ watcher.todo # {}
        /\ watcher' = [watcher EXCEPT !.pc = IF TargetActive(target[Cur]) THEN "sources" ELSE "write",
                                      !.decided = "verified"]
        /\ UNCHANGED <<status, target, checked, kind, open>>
    BY <1>1, FaultsCount DEF ReadTarget, At, rows, Issues
  <2>2. Quiet /\ ListedInv /\ ScannedInv /\ LookedInv /\ Steady
    BY <2>1, FaultsCount, StandSteady DEF CheckedInv
  <2>3. Cur = First(watcher.todo) /\ Cur \in Attempts
    BY <2>1, CurFits
  <2>4. CASE TargetActive(target[Cur])
    <3>1. HasFinding(target[Cur][1])
      BY <2>4 DEF TargetActive, HasFinding
    <3>2. watcher'.pc = "sources" /\ watcher'.todo = watcher.todo
      BY <1>0, <2>1, <2>4
    <3>3. status[Cur] = "verifying" /\ Runs(Cur) => Cur \in checked
      BY <2>1, <2>2, <2>3, <3>1 DEF LookedInv
    <3>4. JudgedInv'
      BY <2>1, <2>3, <3>2, <3>3 DEF JudgedInv, Runs
    <3>5. ListedInv' /\ ScannedInv' /\ LookedInv'
      BY <2>1, <2>2, <3>2, ListedStays, LookedStays DEF Starting, Judging, ScannedInv
    <3> QED
      BY <3>4, <3>5 DEF CheckedInv
  <2>5. CASE ~TargetActive(target[Cur])
    <3>1. watcher'.pc = "write" /\ watcher'.decided = "verified" /\ watcher'.todo = watcher.todo
          /\ watcher'.scanned = watcher.scanned
      BY <1>0, <2>1, <2>5
    <3> QED
      BY <2>1, <2>2, <3>1, OnChecked DEF Starting, Judging
  <2> QED
    BY <2>4, <2>5
<1>2. CASE ReadSources
  <2>1. watcher.pc = "sources" /\ watcher.todo # {} /\ NoFault
    BY <1>0, <1>2, FaultsCount DEF ReadSources, At, AboutOne
  <2>2. UNCHANGED <<status, target, checked, kind, open>>
    BY <1>2 DEF ReadSources, rows, Issues
  <2>3. Quiet /\ ListedInv /\ ScannedInv /\ LookedInv /\ JudgedInv /\ Steady
    BY <2>1, <2>2, FaultsCount, StandSteady DEF CheckedInv
  <2>4. \/ watcher' = [watcher EXCEPT !.pc = "write", !.decided = "still_failing"]
        \/ watcher' = [watcher EXCEPT !.pc = "touch"]
        \/ watcher' = [watcher EXCEPT !.pc = "settle", !.todo = @ \ {Cur}]
    BY <1>2 DEF ReadSources, Goto, NextAttempt
  <2>5. CASE watcher'.todo = watcher.todo /\ watcher'.pc \in {"write", "touch"}
    <3>1. JudgedInv'
      BY <2>1, <2>3, <2>5, JudgedStays
    <3>2. ListedInv' /\ ScannedInv' /\ LookedInv'
      BY <2>1, <2>3, <2>5, ListedStays, LookedStays DEF Starting, Judging, ScannedInv
    <3> QED
      BY <3>1, <3>2 DEF CheckedInv
  <2>6. CASE watcher' = [watcher EXCEPT !.pc = "settle", !.todo = @ \ {Cur}]
    BY <1>0, <2>1, <2>3, <2>6, OnChecked DEF Starting, Judging
  <2> QED
    BY <1>0, <2>4, <2>5, <2>6
<1>3. CASE Touch
  <2>1. /\ watcher.pc = "touch" /\ watcher.todo # {} /\ NoFault
        /\ watcher' = [watcher EXCEPT !.pc = "recheck"]
    BY <1>0, <1>3, FaultsCount DEF Touch, At, AboutOne, Goto
  <2>2. UNCHANGED <<status, target, checked, kind, open>>
    BY <1>3 DEF Touch, Issues
  <2>3. Quiet /\ ListedInv /\ ScannedInv /\ LookedInv /\ JudgedInv /\ Steady
    BY <2>1, <2>2, FaultsCount, StandSteady DEF CheckedInv
  <2>4. watcher'.todo = watcher.todo /\ watcher'.pc = "recheck"
    BY <1>0, <2>1
  <2>5. JudgedInv'
    BY <2>1, <2>3, <2>4, JudgedStays
  <2>6. ListedInv' /\ ScannedInv' /\ LookedInv'
    BY <2>1, <2>3, <2>4, ListedStays, LookedStays DEF Starting, Judging, ScannedInv
  <2> QED
    BY <2>5, <2>6 DEF CheckedInv
<1>4. CASE Write
  <2>1. watcher.pc = "write" /\ watcher.todo # {} /\ NoFault /\ UNCHANGED <<target, kind, open>>
    BY <1>0, <1>4, FaultsCount DEF Write, At, Issues, AboutOne
  <2>2. Cur \in Attempts
    BY <2>1, CurFits
  <2>3. Steady
    <3>1. CASE status[Cur] \in Active /\ Settle({Cur}, watcher.decided)
      <4>1. {Cur} \in SUBSET ActiveOnes /\ watcher.decided \in Settled
        BY <1>0, <2>2, <3>1 DEF ActiveOnes, Settled
      <4> QED
        BY <2>1, <3>1, <4>1, SettleSteady, FaultsCount
    <3>2. CASE UNCHANGED Measured
      BY <2>1, <3>2, StandSteady, FaultsCount DEF Measured
    <3> QED
      BY <1>4, <3>1, <3>2 DEF Write
  <2>4. \/ watcher' = [watcher EXCEPT !.pc = "mark"]
        \/ watcher' = [watcher EXCEPT !.pc = "settle", !.todo = @ \ {Cur}]
    BY <1>4 DEF Write, Goto, NextAttempt
  <2> QED
    BY <1>0, <2>1, <2>3, <2>4, OnChecked DEF Starting, Judging
<1>5. CASE Mark
  <2>1. /\ watcher.pc = "mark" /\ NoFault
        /\ watcher' = [watcher EXCEPT !.pc = "settle", !.todo = @ \ {Cur}]
    BY <1>5, FaultsCount DEF Mark, At, NextAttempt
  <2>2. UNCHANGED <<status, target, checked, kind, open>>
    BY <1>5 DEF Mark, rows
  <2>3. Steady
    BY <2>1, <2>2, FaultsCount, StandSteady
  <2> QED
    BY <1>0, <2>1, <2>3, OnChecked DEF Starting, Judging
<1>6. CASE Sleep
  <2>1. watcher.pc = "settle" /\ watcher' = [watcher EXCEPT !.pc = "expire"]
    BY <1>6 DEF Sleep, At, Goto
  <2>2. UNCHANGED <<status, target, checked, kind, open, faults, crashes>>
    BY <1>6 DEF Sleep, rows, Issues
  <2>3. Steady
    BY <2>2, StandSteady DEF Quiet
  <2> QED
    BY <1>0, <2>1, <2>3, OnChecked DEF Starting, Judging
<1> QED
  BY <1>1, <1>2, <1>3, <1>4, <1>5, <1>6

\* Every step keeps it.
LEMMA NextChecked == IInv /\ CheckedInv /\ [Next]_vars => CheckedInv'
<1>1. ASSUME IInv, CheckedInv, Tick, Quiet' PROVE CheckedInv'
  BY <1>1, StartChecked, RunChecked, JudgeChecked DEF Tick
<1>2. ASSUME IInv, CheckedInv, Tick, ~Quiet' PROVE CheckedInv'
  BY <1>2 DEF CheckedInv
<1> QED
  BY <1>1, <1>2, WorldChecked DEF Next

\* Only the watcher says that an attempt is still failing, and it says so of the
\* attempt it judged.
LEMMA FailingIsJudged ==
  ASSUME IInv, [Next]_vars, NEW a \in Attempts,
         status'[a] = "still_failing", status[a] # "still_failing"
  PROVE  /\ watcher.pc = "write" /\ watcher.decided = "still_failing"
         /\ watcher.todo # {} /\ a = First(watcher.todo) /\ status[a] \in Active
<1>0. status \in [Attempts -> {"none"} \cup Active \cup Settled]
  BY DEF IInv, RowsFit
<1>1. ~UserOrAgent
  <2>1. ASSUME NEW b \in Attempts, NEW t \in Targets, Create(b, t) PROVE FALSE
    BY <1>0, <2>1 DEF Create
  <2>2. ASSUME NEW b \in Attempts,
               StoreBrief(b) \/ LoseBrief(b) \/ Cancel(b) \/ FetchBrief(b) \/ RequestVerification(b)
        PROVE  FALSE
    BY <1>0, <2>2 DEF StoreBrief, LoseBrief, Cancel, FetchBrief, RequestVerification, Settle, Measured
  <2> QED
    BY <2>1, <2>2 DEF UserOrAgent
<1>2. ~(Crash \/ TimePasses \/ UNCHANGED vars)
  BY DEF Crash, TimePasses, vars, rows
<1>3. ~\E g \in Groups : \E found \in Verdicts({g}) : OtherRun(g, found)
  BY DEF OtherRun, rows
<1>4. Tick
  BY <1>1, <1>2, <1>3 DEF Next
<1>5. ~(Expire \/ ListRequested \/ Start \/ Check \/ CheckFails \/ Refuse)
  <2>1. ~(Expire \/ Refuse)
    BY <1>0 DEF Expire, Refuse, Settle, Measured
  <2>2. ~Start
    BY <1>0 DEF Start, SetVerifying
  <2> QED
    BY <2>1, <2>2 DEF ListRequested, Check, CheckFails, rows
<1>6. ~(ListVerifying \/ ReadTarget \/ ReadSources \/ Touch \/ Recheck \/ Mark \/ Sleep)
  BY DEF ListVerifying, ReadTarget, ReadSources, Touch, Recheck, Mark, Sleep, rows
<1>7. Write
  BY <1>4, <1>5, <1>6 DEF Tick
<1>8. watcher.pc = "write" /\ watcher.todo # {} /\ Cur = First(watcher.todo)
  BY <1>7, CurFits DEF Write, At, IInv, WatcherFit, AboutOne
<1>9. status[Cur] \in Active /\ Settle({Cur}, watcher.decided)
  BY <1>7 DEF Write, Measured
<1> QED
  BY <1>8, <1>9 DEF Settle

\* Faults and deaths are only counted up.
LEMMA FaultsStay == ASSUME IInv, [Next]_vars, Quiet' PROVE Quiet
<1>1. CASE UserOrAgent
  BY <1>1 DEF UserOrAgent, Create, StoreBrief, LoseBrief, Cancel, FetchBrief, RequestVerification,
              User, Quiet, IInv, TimesFit
<1>2. CASE Tick
  BY <1>2, FaultsCount DEF Tick, Expire, ListRequested, Start, Check, CheckFails, Refuse, ListVerifying,
     ReadTarget, ReadSources, Touch, Recheck, Write, Mark, Sleep, Quiet
<1>3. CASE Crash
  BY <1>3 DEF Crash, Quiet, IInv, TimesFit
<1>4. CASE TimePasses \/ UNCHANGED vars
  BY <1>4 DEF TimePasses, vars, Quiet
<1> QED
  BY <1>1, <1>2, <1>3, <1>4 DEF Next, OtherRun, Quiet

\* The watcher says "still failing" only of an attempt it looked at, unless a
\* call failed, the app died or the check belongs to a poll.
THEOREM FailingWasLooked == Spec => StillFailingWasChecked
<1>1. Init => CheckedInv
  BY DEF Init, Waking, CheckedInv, ListedInv, ScannedInv, LookedInv, JudgedInv, Starting, Judging
<1>2. IInv /\ CheckedInv /\ [Next]_vars =>
        [\A a \in Attempts :
           /\ status'[a] = "still_failing" /\ status[a] # "still_failing"
           /\ faults' = 0 /\ crashes' = 0 /\ kind[target[a][1]] \notin {"poll", "remote_poll"}
           => a \in checked]_vars
  <2> SUFFICES ASSUME IInv, CheckedInv, [Next]_vars, NEW a \in Attempts,
                      status'[a] = "still_failing", status[a] # "still_failing",
                      faults' = 0, crashes' = 0, Runs(a)
               PROVE  a \in checked
    BY DEF Runs
  <2>1. /\ watcher.pc = "write" /\ watcher.decided = "still_failing"
        /\ watcher.todo # {} /\ a = First(watcher.todo) /\ status[a] \in Active
    BY FailingIsJudged
  <2>2. Quiet
    BY FaultsStay DEF Quiet
  <2>3. ListedInv /\ JudgedInv
    BY <2>2 DEF CheckedInv
  <2>4. a \in watcher.todo
    BY <2>1, FirstIn DEF IInv, WatcherFit
  <2>5. status[a] = "verifying"
    BY <2>1, <2>3, <2>4 DEF ListedInv, Judging, Active, Asked, Settled
  <2> QED
    BY <2>1, <2>3, <2>5 DEF JudgedInv
<1> QED
  BY <1>1, <1>2, Invariance, NextChecked, PTL DEF Spec, StillFailingWasChecked
-----------------------------------------------------------------------------
(* What is being verified expires only if nobody looks after it.            *)

\* The tick in flight has looked at the attempt, or has nothing more to say of it.
Seen(a) ==
  watcher.pc \in Judging /\ (a \notin watcher.todo \/ (watcher.pc = "recheck" /\ a = First(watcher.todo)))
\* How long nobody can have touched it, if no unit of time went by without a tick.
Longest(a) == IF Seen(a) THEN IF ticked THEN 0 ELSE 1 ELSE IF ticked THEN 1 ELSE 2

\* Time is measured from the start of the verification.
WaitedInv ==
  \A a \in Attempts :
    /\ status[a] \in {"none", "briefed", "verify_requested"} => waited[a] = 0
    /\ status[a] = "verifying" => idle[a] <= waited[a]

\* Every tick touches, or settles, what waits.
AttendedInv ==
  Quiet /\ ~missed => \A a \in Attempts : status[a] = "verifying" => idle[a] <= Longest(a)

\* A row at a step that is not the clock: nothing ages, and what comes under
\* verification is touched.
Fresh == {"none", "briefed", "verify_requested"}
RowKept(a) ==
  /\ waited'[a] = waited[a] /\ idle'[a] \in {idle[a], 0}
  /\ status'[a] \in Fresh => status[a] \in Fresh
  /\ status'[a] = "verifying" => status[a] = "verifying" \/ idle'[a] = 0
RowsKept == \A a \in Attempts : RowKept(a) \/ status'[a] \in Settled

\* Rows that stand still, are settled, or are touched.
LEMMA StandKept ==
  ASSUME IInv, UNCHANGED <<status, idle, waited>> PROVE RowsKept
BY DEF RowsKept, RowKept

LEMMA SettleKept ==
  ASSUME IInv, NEW ended \in SUBSET ActiveOnes, NEW s \in Settled, Settle(ended, s)
  PROVE  RowsKept
<1>1. \A a \in Attempts : /\ status'[a] = IF a \in ended THEN s ELSE status[a]
                          /\ idle'[a] = IF a \in ended THEN 0 ELSE idle[a]
                          /\ waited'[a] = IF a \in ended THEN 0 ELSE waited[a]
  BY DEF Settle
<1> QED
  BY <1>1 DEF RowsKept, RowKept

LEMMA TouchKept ==
  ASSUME IInv, NEW a \in Attempts, idle' = Touched(a), waited' = waited,
         \/ status' = status
         \/ status' = [status EXCEPT ![a] = "verifying"]
         \/ status[a] \in Fresh /\ status' = [status EXCEPT ![a] = "verify_requested"]
  PROVE  RowsKept
<1>1. /\ status \in [Attempts -> {"none"} \cup Active \cup Settled]
      /\ idle \in [Attempts -> 0 .. Day]
  BY DEF IInv, RowsFit
<1> QED
  BY <1>1 DEF RowsKept, RowKept, Touched, Fresh

\* Every step but the clock keeps the rows.
LEMMA StepKept == ASSUME IInv, [Next]_vars, ~TimePasses PROVE RowsKept
<1>0. /\ status \in [Attempts -> {"none"} \cup Active \cup Settled]
      /\ idle \in [Attempts -> 0 .. Day] /\ waited \in [Attempts -> 0 .. Day]
      /\ watcher.decided \in Settled /\ (watcher.pc \in AboutOne => watcher.todo # {})
  BY DEF IInv, RowsFit, WatcherFit, Settled
<1>1. ASSUME NEW a \in Attempts, NEW t \in Targets, Create(a, t) PROVE RowsKept
  <2>1. /\ status[a] = "none"
        /\ status' = [b \in Attempts |-> IF b = a THEN "briefed"
                                         ELSE IF b \in Replaced(t) THEN "canceled" ELSE status[b]]
        /\ idle' = [b \in Attempts |-> IF b \in Replaced(t) THEN 0 ELSE idle[b]]
        /\ waited' = [b \in Attempts |-> IF b \in Replaced(t) THEN 0 ELSE waited[b]]
    BY <1>1 DEF Create
  <2>2. a \notin Replaced(t)
    BY <2>1 DEF Replaced, ActiveOnes, Active, Asked
  <2> QED
    BY <2>1, <2>2 DEF RowsKept, RowKept, Fresh, Settled
<1>2. ASSUME NEW a \in Attempts,
             StoreBrief(a) \/ LoseBrief(a) \/ Cancel(a) \/ FetchBrief(a) \/ RequestVerification(a)
      PROVE  RowsKept
  <2>1. CASE StoreBrief(a) \/ FetchBrief(a)
    BY <2>1, StandKept, TouchKept DEF StoreBrief, FetchBrief
  <2>2. CASE LoseBrief(a)
    <3>1. {a} \cap ActiveOnes \in SUBSET ActiveOnes /\ "canceled" \in Settled
      BY DEF Settled
    <3> QED
      BY <2>2, <3>1, SettleKept, StandKept DEF LoseBrief, Measured
  <2>3. CASE Cancel(a)
    <3>1. {a} \in SUBSET ActiveOnes /\ "canceled" \in Settled
      BY <2>3 DEF Cancel, ActiveOnes, Settled
    <3> QED
      BY <2>3, <3>1, SettleKept DEF Cancel
  <2>4. CASE RequestVerification(a)
    BY <2>4, TouchKept DEF RequestVerification, Fresh
  <2> QED
    BY <1>2, <2>1, <2>2, <2>3, <2>4
<1>3. ASSUME Expire \/ Refuse PROVE RowsKept
  <2>1. /\ {a \in ActiveOnes : idle[a] = Day} \in SUBSET ActiveOnes
        /\ {Cur} \cap ActiveOnes \in SUBSET ActiveOnes
        /\ "expired" \in Settled /\ "could_not_run" \in Settled
    BY DEF Settled
  <2> QED
    BY <1>3, <2>1, SettleKept, StandKept DEF Expire, Refuse, Measured
<1>4. ASSUME Start \/ Touch PROVE RowsKept
  <2>1. Cur \in Attempts
    BY <1>0, <1>4, CurFits DEF Start, Touch, At, AboutOne
  <2> QED
    BY <1>4, <2>1, TouchKept, StandKept DEF Start, Touch, SetVerifying
<1>5. ASSUME Write PROVE RowsKept
  <2>1. Cur \in Attempts
    BY <1>0, <1>5, CurFits DEF Write, At, AboutOne
  <2>2. CASE status[Cur] \in Active /\ Settle({Cur}, watcher.decided)
    <3>1. {Cur} \in SUBSET ActiveOnes
      BY <2>1, <2>2 DEF ActiveOnes
    <3> QED
      BY <1>0, <2>2, <3>1, SettleKept
  <2> QED
    BY <1>5, <2>2, StandKept DEF Write, Measured
<1>6. ASSUME \/ ListRequested \/ Check \/ CheckFails \/ ListVerifying \/ ReadTarget \/ ReadSources
             \/ Recheck \/ Mark \/ Sleep \/ Crash \/ UNCHANGED vars
             \/ \E g \in Groups : \E found \in Verdicts({g}) : OtherRun(g, found)
      PROVE  RowsKept
  <2>1. UNCHANGED <<status, idle, waited>>
    BY <1>6 DEF ListRequested, Check, CheckFails, ListVerifying, ReadTarget, ReadSources,
                Recheck, Mark, Sleep, Crash, OtherRun, rows, vars
  <2> QED
    BY <2>1, StandKept
<1> QED
  BY <1>1, <1>2, <1>3, <1>4, <1>5, <1>6 DEF Next, UserOrAgent, Tick

\* Rows that are kept keep their measure.
LEMMA KeptWaited == ASSUME IInv, WaitedInv, RowsKept PROVE WaitedInv'
<1> SUFFICES ASSUME NEW a \in Attempts
             PROVE  /\ status'[a] \in Fresh => waited'[a] = 0
                    /\ status'[a] = "verifying" => idle'[a] <= waited'[a]
  BY DEF WaitedInv, Fresh
<1>1. idle[a] \in Nat /\ waited[a] \in Nat
  BY BoundsAssumption DEF IInv, RowsFit
<1>2. Fresh \cap Settled = {} /\ "verifying" \notin Settled
  BY DEF Fresh, Settled
<1> QED
  BY <1>1, <1>2 DEF RowsKept, RowKept, WaitedInv, Fresh

\* And are attended as before, unless the tick passes one by without a touch.
LEMMA KeptAttended ==
  ASSUME IInv, AttendedInv, RowsKept, Quiet' => Quiet, UNCHANGED clock,
         Quiet' => \A a \in Attempts :
           status[a] = "verifying" /\ status'[a] = "verifying" /\ Seen(a)' => Seen(a) \/ idle'[a] = 0
  PROVE  AttendedInv'
<1> SUFFICES ASSUME Quiet', ~missed', NEW a \in Attempts, status'[a] = "verifying"
             PROVE  idle'[a] <= Longest(a)'
  BY DEF AttendedInv
<1>1. RowKept(a) /\ "verifying" \notin Settled
  BY DEF RowsKept, Settled
<1>2. idle[a] \in Nat /\ ticked' = ticked /\ missed' = missed
  BY BoundsAssumption DEF IInv, RowsFit, clock
<1>3. CASE idle'[a] = 0
  BY <1>3 DEF Longest
<1>4. CASE idle'[a] # 0
  <2>1. status[a] = "verifying" /\ idle'[a] = idle[a] /\ idle[a] <= Longest(a)
    BY <1>1, <1>2, <1>4 DEF RowKept, AttendedInv
  <2>2. Seen(a)' => Seen(a)
    BY <1>4, <2>1
  <2> QED
    BY <1>2, <2>1, <2>2 DEF Longest
<1> QED
  BY <1>3, <1>4
\* What a tick does while it works through its lists.
LEMMA TickAttended ==
  ASSUME IInv, CheckedInv, WaitedInv, AttendedInv, Tick, RowsKept, ~Sleep, Quiet' => Quiet
  PROVE  AttendedInv'
<1>0. /\ watcher \in [pc : Steps, todo : SUBSET Attempts, scanned : BOOLEAN,
                      decided : {"verified", "still_failing"}]
      /\ watcher.pc \in AboutOne => watcher.todo # {} /\ Cur = First(watcher.todo) /\ Cur \in Attempts
      /\ idle \in [Attempts -> 0 .. Day] /\ waited \in [Attempts -> 0 .. Day]
      /\ status \in [Attempts -> {"none"} \cup Active \cup Settled]
  BY CurFits DEF IInv, WatcherFit, RowsFit, AboutOne
<1>1. UNCHANGED clock
  BY DEF Tick, Expire, ListRequested, Start, Check, CheckFails, Refuse, ListVerifying,
         ReadTarget, ReadSources, Touch, Recheck, Write, Mark
<1>2. ASSUME Quiet', NEW a \in Attempts, status[a] = "verifying", status'[a] = "verifying", Seen(a)'
      PROVE  Seen(a) \/ idle'[a] = 0
  <2>0. /\ watcher'.pc \in Judging
        /\ a \notin watcher'.todo \/ (watcher'.pc = "recheck" /\ a = First(watcher'.todo))
    BY <1>2 DEF Seen
  <2>1. ~(Expire \/ ListRequested \/ Start \/ Check \/ CheckFails \/ Refuse)
    BY <1>0, <2>0 DEF Expire, ListRequested, Start, Check, CheckFails, Refuse, Goto, NextAttempt, Judging
  <2>2. ~ListVerifying
    <3>1. ASSUME ListVerifying PROVE FALSE
      <4>1. watcher' = [watcher EXCEPT !.pc = "settle", !.todo = {b \in Attempts : status[b] = "verifying"}]
        BY <1>2, <3>1, FaultsCount DEF ListVerifying
      <4>2. watcher'.pc = "settle" /\ a \in watcher'.todo
        BY <1>0, <1>2, <4>1
      <4> QED
        BY <2>0, <4>2
    <3> QED
      BY <3>1
  <2>3. CASE ReadTarget
    BY <1>0, <1>2, <2>0, <2>3, FaultsCount DEF ReadTarget, At, Seen, Judging
  <2>4. CASE ReadSources
    <3>1. watcher.pc = "sources" /\ NoFault /\ UNCHANGED <<status, idle>>
      BY <1>2, <2>4, FaultsCount DEF ReadSources, At, rows
    <3>2. CASE a # Cur
      BY <1>0, <2>0, <2>4, <3>1, <3>2 DEF ReadSources, Seen, Judging, Goto, NextAttempt
    <3>3. CASE a = Cur
      <4>1. NextAttempt("settle") /\ ~Fails /\ ~(Waits /\ idle[Cur] > 0)
        <5>1. Cur \in watcher.todo
          BY <3>1, CurFits, <1>0 DEF AboutOne
        <5>2. NextAttempt("settle") \/ (watcher'.todo = watcher.todo /\ watcher'.pc # "recheck")
          BY <1>0, <2>4 DEF ReadSources, Goto
        <5> QED
          BY <1>0, <1>2, <2>0, <2>4, <3>1, <3>3, <5>1, <5>2, FaultsCount DEF ReadSources, Goto, NextAttempt
      <4>2. CASE Waits
        BY <1>0, <1>2, <3>1, <3>3, <4>1, <4>2
      <4>3. CASE ~Waits
        BY <1>0, <1>2, <3>1, <3>3, <4>1, <4>3 DEF Fails, GraceOver, WaitedInv
      <4> QED
        BY <4>2, <4>3
    <3> QED
      BY <3>2, <3>3
  <2>5. CASE Touch
    <3>1. /\ watcher.pc = "touch" /\ idle' = Touched(Cur) /\ watcher'.todo = watcher.todo
          /\ watcher'.pc = "recheck"
      BY <1>0, <1>2, <2>5, FaultsCount DEF Touch, At, Goto
    <3>2. CASE a = Cur
      BY <1>0, <1>2, <3>1, <3>2 DEF Touched
    <3>3. CASE a # Cur
      BY <1>0, <1>2, <2>0, <3>1, <3>3 DEF Seen, Judging, AboutOne
    <3> QED
      BY <3>2, <3>3
  <2>6. CASE Recheck
    <3>1. watcher.pc = "recheck" /\ watcher' = [watcher EXCEPT !.pc = "settle", !.todo = @ \ {Cur}]
      BY <2>6 DEF Recheck, At, NextAttempt
    <3>2. watcher'.todo = watcher.todo \ {Cur} /\ watcher'.pc = "settle" /\ Cur = First(watcher.todo)
      BY <1>0, <3>1 DEF AboutOne
    <3> QED
      BY <2>0, <3>1, <3>2 DEF Seen, Judging
  <2>7. CASE Write
    <3>1. watcher.pc = "write" /\ watcher.decided \in Settled
      BY <1>0, <2>7 DEF Write, At, Settled
    <3>2. a # Cur
      BY <1>0, <1>2, <2>7, <3>1, FaultsCount DEF Write, Settle, Active, Asked, Settled, AboutOne
    <3>3. \/ watcher' = [watcher EXCEPT !.pc = "mark"]
          \/ watcher' = [watcher EXCEPT !.pc = "settle", !.todo = @ \ {Cur}]
      BY <2>7 DEF Write, Goto, NextAttempt
    <3> QED
      BY <1>0, <2>0, <3>1, <3>2, <3>3 DEF Seen, Judging, AboutOne
  <2>8. CASE Mark
    <3>1. watcher.pc = "mark" /\ status[Cur] = "verified"
      BY <1>0, <2>8 DEF Mark, At, IInv, WatcherFit, AboutOne
    <3> QED
      BY <1>0, <1>2, <2>0, <2>8, <3>1 DEF Mark, NextAttempt, Seen, Judging
  <2> QED
    BY <2>1, <2>2, <2>3, <2>4, <2>5, <2>6, <2>7, <2>8 DEF Tick
<1> QED
  BY <1>1, <1>2, KeptAttended

\* The end of a tick, and the end of a unit of time.
LEMMA ClockAttended ==
  ASSUME IInv, WaitedInv, AttendedInv, Sleep \/ TimePasses
  PROVE  WaitedInv' /\ AttendedInv'
<1>0. /\ idle \in [Attempts -> 0 .. Day] /\ waited \in [Attempts -> 0 .. Day] /\ Day \in Nat
      /\ watcher \in [pc : Steps, todo : SUBSET Attempts, scanned : BOOLEAN,
                      decided : {"verified", "still_failing"}]
  BY BoundsAssumption DEF IInv, RowsFit, WatcherFit
<1>1. CASE Sleep
  <2>1. /\ watcher.pc = "settle" /\ watcher.todo = {} /\ watcher'.pc = "expire" /\ ticked' = TRUE
        /\ UNCHANGED <<status, idle, waited, missed, faults, crashes>>
    BY <1>0, <1>1 DEF Sleep, At, Goto, rows
  <2>2. \A a \in Attempts : Seen(a) /\ ~Seen(a)'
    BY <2>1 DEF Seen, Judging
  <2>3. AttendedInv'
    <3> SUFFICES ASSUME Quiet', ~missed', NEW a \in Attempts, status'[a] = "verifying"
                 PROVE  idle'[a] <= Longest(a)'
      BY DEF AttendedInv
    <3>1. idle[a] \in Nat /\ idle'[a] = idle[a] /\ idle[a] <= Longest(a)
      BY <1>0, <2>1 DEF AttendedInv, Quiet
    <3> QED
      BY <2>1, <2>2, <3>1 DEF Longest
  <2> QED
    BY <2>1, <2>3 DEF WaitedInv
<1>2. CASE TimePasses
  <2>1. /\ idle' = [a \in Attempts |-> IF status[a] \in Active THEN Older(idle[a]) ELSE idle[a]]
        /\ waited' = [a \in Attempts |-> IF status[a] = "verifying" THEN Older(waited[a]) ELSE waited[a]]
        /\ ticked' = FALSE /\ missed' = (missed \/ ~ticked)
        /\ UNCHANGED <<status, watcher, faults, crashes>>
    BY <1>2 DEF TimePasses
  <2>2. "verifying" \in Active /\ "verifying" \notin Fresh
    BY DEF Active, Asked, Fresh
  <2>3. ASSUME NEW m \in 0 .. Day, NEW n \in 0 .. Day
        PROVE  (m <= n => Older(m) <= Older(n)) /\ Older(m) <= m + 1
    BY <1>0 DEF Older
  <2>4. WaitedInv'
    <3> SUFFICES ASSUME NEW a \in Attempts
                 PROVE  /\ status'[a] \in Fresh => waited'[a] = 0
                        /\ status'[a] = "verifying" => idle'[a] <= waited'[a]
      BY DEF WaitedInv, Fresh
    <3>1. idle[a] \in 0 .. Day /\ waited[a] \in 0 .. Day
      BY <1>0
    <3> QED
      BY <2>1, <2>2, <2>3, <3>1 DEF WaitedInv, Fresh
  <2>5. AttendedInv'
    <3> SUFFICES ASSUME Quiet', ~missed', NEW a \in Attempts, status'[a] = "verifying"
                 PROVE  idle'[a] <= Longest(a)'
      BY DEF AttendedInv
    <3>1. idle[a] \in 0 .. Day /\ idle'[a] = Older(idle[a]) /\ ticked
      BY <1>0, <2>1, <2>2
    <3>2. idle[a] <= Longest(a)
      BY <2>1 DEF AttendedInv, Quiet
    <3>3. Seen(a)' <=> Seen(a)
      BY <2>1 DEF Seen
    <3>4. Older(idle[a]) <= idle[a] + 1 /\ Older(idle[a]) \in Nat
      BY <1>0, <2>3, <3>1 DEF Older
    <3> QED
      BY <2>1, <3>1, <3>2, <3>3, <3>4 DEF Longest
  <2> QED
    BY <2>4, <2>5
<1> QED
  BY <1>1, <1>2

\* Every step keeps both.
LEMMA NextAttended ==
  IInv /\ CheckedInv /\ WaitedInv /\ AttendedInv /\ [Next]_vars => WaitedInv' /\ AttendedInv'
<1> SUFFICES ASSUME IInv, CheckedInv, WaitedInv, AttendedInv, [Next]_vars, ~TimePasses, ~Sleep
             PROVE  WaitedInv' /\ AttendedInv'
  BY ClockAttended
<1>1. RowsKept /\ WaitedInv'
  BY StepKept, KeptWaited
<1>2. Quiet' => Quiet
  BY FaultsStay
<1>3. CASE Tick
  BY <1>1, <1>2, <1>3, TickAttended
<1>4. CASE Crash
  <2>1. ~Quiet'
    BY <1>4 DEF Crash, Quiet, IInv, TimesFit
  <2> QED
    BY <1>1, <2>1 DEF AttendedInv
<1>5. CASE \/ UserOrAgent \/ UNCHANGED vars
           \/ \E g \in Groups : \E found \in Verdicts({g}) : OtherRun(g, found)
  <2>1. watcher' = watcher /\ UNCHANGED clock
    BY <1>5 DEF UserOrAgent, Create, StoreBrief, LoseBrief, Cancel, FetchBrief, RequestVerification,
                User, OtherRun, vars
  <2>2. \A a \in Attempts : Seen(a)' => Seen(a)
    BY <2>1 DEF Seen
  <2> QED
    BY <1>1, <1>2, <2>1, <2>2, KeptAttended
<1> QED
  BY <1>3, <1>4, <1>5 DEF Next

\* Only age ends an attempt as expired.
LEMMA ExpiredByAge ==
  ASSUME IInv, [Next]_vars, NEW a \in Attempts, status[a] = "verifying", status'[a] = "expired"
  PROVE  idle[a] = Day
<1>0. /\ status \in [Attempts -> {"none"} \cup Active \cup Settled]
      /\ watcher.decided \in {"verified", "still_failing"}
  BY DEF IInv, RowsFit, WatcherFit
<1>1. ~UserOrAgent
  <2>1. ASSUME NEW b \in Attempts, NEW t \in Targets, Create(b, t) PROVE FALSE
    BY <1>0, <2>1 DEF Create
  <2>2. ASSUME NEW b \in Attempts,
               StoreBrief(b) \/ LoseBrief(b) \/ Cancel(b) \/ FetchBrief(b) \/ RequestVerification(b)
        PROVE  FALSE
    BY <1>0, <2>2 DEF StoreBrief, LoseBrief, Cancel, FetchBrief, RequestVerification, Settle, Measured
  <2> QED
    BY <2>1, <2>2 DEF UserOrAgent
<1>2. ~(Refuse \/ Start \/ Write)
  BY <1>0 DEF Refuse, Start, SetVerifying, Write, Settle, Measured
<1>3. ~(\/ ListRequested \/ Check \/ CheckFails \/ ListVerifying \/ ReadTarget \/ ReadSources
        \/ Touch \/ Recheck \/ Mark \/ Sleep \/ Crash \/ TimePasses \/ UNCHANGED vars
        \/ \E g \in Groups : \E found \in Verdicts({g}) : OtherRun(g, found))
  BY DEF ListRequested, Check, CheckFails, ListVerifying, ReadTarget, ReadSources, Touch, Recheck,
         Mark, Sleep, Crash, TimePasses, OtherRun, rows, vars
<1>4. Expire
  BY <1>1, <1>2, <1>3 DEF Next, Tick
<1> QED
  BY <1>0, <1>4 DEF Expire, Settle, Measured

\* An attempt that is being verified expires only if a unit of time went by
\* without a tick, a call failed or the app died: the deploy wait touches the
\* attempt at every tick, and what does not wait is settled.
THEOREM AttendedLives == Spec => ExpiresUnattended
<1>1. Init => CheckedInv /\ WaitedInv /\ AttendedInv
  BY DEF Init, Waking, CheckedInv, ListedInv, ScannedInv, LookedInv, JudgedInv, Starting, Judging,
         WaitedInv, AttendedInv
<1>2. IInv /\ AttendedInv /\ [Next]_vars =>
        [\A a \in Attempts :
           /\ status[a] = "verifying" /\ status'[a] = "expired"
           => missed \/ faults > 0 \/ crashes > 0]_vars
  <2> SUFFICES ASSUME IInv, AttendedInv, [Next]_vars, NEW a \in Attempts,
                      status[a] = "verifying", status'[a] = "expired", ~missed, ~(faults > 0), ~(crashes > 0)
               PROVE  FALSE
    OBVIOUS
  <2>1. Quiet
    BY BoundsAssumption DEF IInv, TimesFit, Quiet
  <2>2. idle[a] = Day
    BY ExpiredByAge
  <2>3. idle[a] <= Longest(a)
    BY <2>1 DEF AttendedInv
  <2> QED
    BY <2>2, <2>3, BoundsAssumption DEF Longest
<1> QED
  BY <1>1, <1>2, Invariance, NextChecked, NextAttended, PTL DEF Spec, ExpiresUnattended
=============================================================================
