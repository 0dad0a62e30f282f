----------------------------- MODULE Licensing -----------------------------
(***************************************************************************)
(* One machine's license: the row and the key that name the installed      *)
(* generation, the provider's seat and the catalog service's credential    *)
(* that belong to it, and the handles under which either is given back.    *)
(* Activation, replacement and deactivation                                *)
(* (licensing/commands/license_lifecycle*.rs) run against each other and   *)
(* against the refresh loop (background/catalog_refresh.rs), which drains  *)
(* the releases still owed and obtains a credential when none is stored.   *)
(*                                                                         *)
(* An operation is the list of the calls it still has to make, each with   *)
(* the identity it makes it for, so that what it holds in memory is what   *)
(* is on its list.  Two locks order the calls: LICENSE_MUTATION around the *)
(* row and the key, CREDENTIAL_LOCK around the token and its nonce.        *)
(*                                                                         *)
(* Both services are outside the repository: the provider mints a new      *)
(* instance at every activation and gives it up once; the catalog service  *)
(* hands out a credential once per nonce, says no more than that it did    *)
(* when the nonce comes again, and releases all of an installation at      *)
(* once.  Answers may be lost, whether or not the request was carried out; *)
(* either service may refuse for good; a write to the keyring may fail.    *)
(***************************************************************************)
EXTENDS Naturals, Sequences, FiniteSets

CONSTANTS Keys,         \* license keys
          Commands,     \* commands that may run at the same time
          Loop,         \* the refresh loop
          NoKey, NoOne, \* no key stored; a free lock
          SeatCap,      \* instances the provider allows a key
          MaxStarts,    \* bound on commands started
          MaxMints,     \* bound on instances minted
          MaxFaults     \* bound on lost answers, refusals, failed writes, lapses

ASSUME ActorsAssumption == Loop \notin Commands /\ NoOne \notin Commands \cup {Loop}
ASSUME KeysAssumption == Keys # {} /\ NoKey \notin Keys
ASSUME BoundsAssumption == MaxMints \in Nat \ {0} /\ MaxFaults \in Nat

VARIABLES row,          \* installed instance, 0 when there is no row
          entitled,     \* the row's status still entitles
          key,          \* the license key in the keychain
          token,        \* the stored catalog token: the credential it proves
          nonce,        \* the pending activation nonce and its identity
          owed,         \* pending releases: key, instance, side
          mutation,     \* LICENSE_MUTATION
          credential,   \* CREDENTIAL_LOCK
          op,           \* what every command, and the loop, is doing
          seats,        \* provider: its instances
          creds,        \* catalog service: its credentials
          learned,      \* history: instances whose minting was answered
          abandoned,    \* history: releases refused for good, or lost unrecorded
          starts, minted, faults

local == <<row, entitled, key>>
secrets == <<token, nonce, owed>>
locks == <<mutation, credential>>
service == <<seats, creds>>
bounds == <<learned, abandoned, starts, minted, faults>>
vars == <<local, secrets, locks, op, service, bounds>>

Actors == Commands \cup {Loop}
Instances == 1..MaxMints
Credentials == [key : Keys, id : Instances, nonce : Nat \ {0}]
NoCred == [key |-> NoKey, id |-> 0, nonce |-> 0]
Sides == {"catalog", "provider"}
Owed(k, i, side) == [key |-> k, id |-> i, side |-> side]
Steps == {"row", "key", "confirm", "mint", "persist", "save", "clear", "unkey",
          "release", "forget", "seat", "record", "untoken", "ensure", "check",
          "obtain", "drain", "tick", "token", "use", "reject"}
Call(step, k, i) == [step |-> step, key |-> k, id |-> i]
Calls == [step : Steps, key : Keys \cup {NoKey}, id : {0} \cup Instances]
Releases == [key : Keys, id : Instances, side : Sides]

Resting == [kind |-> "none", todo |-> <<>>, key |-> NoKey, id |-> 0, oldKey |-> NoKey,
            oldId |-> 0, wasEntitled |-> FALSE, retried |-> FALSE, lost |-> FALSE,
            list |-> {}, done |-> {}, shown |-> {}]

Ops == [kind : {"none", "activate", "deactivate", "loop"}, todo : Seq(Calls),
        key : Keys \cup {NoKey}, id : {0} \cup Instances,
        oldKey : Keys \cup {NoKey}, oldId : {0} \cup Instances,
        wasEntitled : BOOLEAN, retried : BOOLEAN, lost : BOOLEAN,
        list : SUBSET Releases, done : SUBSET Releases, shown : SUBSET Credentials]

TypeOK ==
  /\ row \in {0} \cup Instances
  /\ entitled \in BOOLEAN
  /\ key \in Keys \cup {NoKey}
  /\ token \in Credentials \cup {NoCred}
  /\ nonce \in Credentials \cup {NoCred}
  /\ owed \subseteq Releases
  /\ mutation \in Actors \cup {NoOne}
  /\ credential \in Actors \cup {NoOne}
  /\ op \in [Actors -> Ops]
  /\ seats \subseteq Keys \X Instances
  /\ creds \subseteq Credentials
  /\ learned \subseteq Instances
  /\ abandoned \subseteq Releases
  /\ minted \in {0} \cup Instances
  /\ faults \in 0..MaxFaults

InstalledKey == CHOOSE k \in Keys : TRUE

\* Unlicensed, or one license installed and its credential stored.
Init ==
  /\ \/ /\ row = 0 /\ entitled = FALSE /\ key = NoKey /\ token = NoCred
        /\ seats = {} /\ creds = {} /\ learned = {} /\ minted = 0
     \/ /\ row = 1 /\ entitled = TRUE /\ key = InstalledKey
        /\ token = [key |-> key, id |-> 1, nonce |-> 1]
        /\ seats = {<<key, 1>>} /\ creds = {token} /\ learned = {1} /\ minted = 1
  /\ nonce = NoCred
  /\ owed = {}
  /\ mutation = NoOne /\ credential = NoOne
  /\ op = [a \in Actors |-> Resting]
  /\ abandoned = {} /\ starts = 0 /\ faults = 0

-----------------------------------------------------------------------------
Doing(a, step) == op[a].todo # <<>> /\ Head(op[a].todo).step = step
Now(a) == Head(op[a].todo)
Rest(a) == Tail(op[a].todo)
Then(a, calls) == op' = [op EXCEPT ![a].todo = calls]
Finish(a) == op' = [op EXCEPT ![a] = Resting]

Fault == faults < MaxFaults /\ faults' = faults + 1
NoFault == UNCHANGED faults

Unchanged(a) == row = op[a].oldId /\ key = op[a].oldKey

-----------------------------------------------------------------------------
(* activate_license_with_ports.                                            *)

StartActivation(a, k) ==
  /\ op[a] = Resting
  /\ starts < MaxStarts
  /\ starts' = starts + 1
  /\ op' = [op EXCEPT ![a] = [Resting EXCEPT !.kind = "activate", !.key = k,
                                !.todo = <<Call("row", k, 0), Call("key", k, 0)>>]]
  /\ UNCHANGED <<local, secrets, locks, service, learned, abandoned, minted, faults>>

StartDeactivation(a) ==
  /\ op[a] = Resting
  /\ starts < MaxStarts
  /\ starts' = starts + 1
  /\ op' = [op EXCEPT ![a] = [Resting EXCEPT !.kind = "deactivate",
                                !.todo = <<Call("row", NoKey, 0), Call("key", NoKey, 0)>>]]
  /\ UNCHANGED <<local, secrets, locks, service, learned, abandoned, minted, faults>>

\* The row is read first, the key after it, with no lock around the two.
ReadRow(a) ==
  /\ Doing(a, "row")
  /\ IF op[a].kind = "deactivate" /\ row = 0
       THEN Finish(a)
       ELSE op' = [op EXCEPT ![a].todo = Rest(a), ![a].oldId = row,
                             ![a].wasEntitled = row # 0 /\ entitled]
  /\ UNCHANGED <<local, secrets, locks, service, bounds>>

Same(a) == op[a].oldKey = op[a].key
Teardown(a) == op[a].oldId # 0 /\ op[a].oldKey # NoKey

\* activation_plan; a deactivation waits for its dialog instead.
ReadKey(a) ==
  /\ Doing(a, "key")
  /\ LET old == op[a].oldId
         k == op[a].key
         installed == old # 0 /\ key # NoKey
         calls ==
           IF op[a].kind = "deactivate" THEN <<Call("clear", key, old)>>
           ELSE IF installed /\ key = k /\ op[a].wasEntitled
             THEN <<Call("ensure", k, old)>>
           ELSE IF installed /\ op[a].wasEntitled
             THEN <<Call("confirm", k, 0), Call("mint", k, 0)>>
           ELSE <<Call("mint", k, 0)>>
     IN op' = [op EXCEPT ![a].oldKey = key, ![a].todo = calls]
  /\ UNCHANGED <<local, secrets, locks, service, bounds>>

\* The dialog: declined, or confirmed and the license read again.
Confirm(a) ==
  /\ Doing(a, "confirm")
  /\ \/ Unchanged(a) /\ Then(a, Rest(a))
     \/ Finish(a)
  /\ UNCHANGED <<local, secrets, locks, service, bounds>>

SeatCall(a, k, i) == IF op[a].retried THEN <<>> ELSE <<Call("seat", k, i)>>

\* The calls between a minted instance and its row: a replaced license is
\* released under its own key, an orphaned row under the key just activated.
Predecessor(a) ==
  LET k == IF Teardown(a) THEN op[a].oldKey ELSE op[a].key
      i == op[a].oldId
  IN IF i = 0 THEN <<>>
     ELSE <<Call("release", k, i), Call("forget", k, i)>> \o SeatCall(a, k, i)

MintAnswered(a) ==
  /\ Doing(a, "mint")
  /\ minted < MaxMints
  /\ Cardinality({s \in seats : s[1] = op[a].key}) < SeatCap
  /\ LET k == op[a].key
         i == minted + 1
     IN /\ minted' = i
        /\ seats' = seats \cup {<<k, i>>}
        /\ learned' = learned \cup {i}
        /\ \/ /\ op' = [op EXCEPT ![a].id = i, ![a].todo =
                          Predecessor(a)
                          \o (IF Teardown(a) THEN <<>> ELSE <<Call("untoken", k, i)>>)
                          \o <<Call("persist", k, i)>>]
              /\ NoFault
           \* A variant this build does not know.
           \/ Fault /\ Then(a, <<Call("seat", k, i)>>)
  /\ UNCHANGED <<local, secrets, locks, creds, abandoned, starts>>

MintLost(a) ==
  /\ Doing(a, "mint")
  /\ minted < MaxMints
  /\ minted' = minted + 1
  /\ seats' \in {seats, seats \cup {<<op[a].key, minted + 1>>}}
  /\ Fault
  /\ Finish(a)
  /\ UNCHANGED <<local, secrets, locks, creds, learned, abandoned, starts>>

\* own_seat_retry_applies: this machine's own instance makes room once.
MintRefused(a) ==
  /\ Doing(a, "mint")
  /\ Cardinality({s \in seats : s[1] = op[a].key}) >= SeatCap
  /\ IF op[a].oldId # 0 /\ (Teardown(a) => Same(a)) /\ ~op[a].retried
       THEN op' = [op EXCEPT ![a].retried = TRUE, ![a].todo =
                     <<Call("seat", op[a].key, op[a].oldId)>> \o op[a].todo]
       ELSE Finish(a)
  /\ UNCHANGED <<local, secrets, locks, service, bounds>>

\* A stray token that cannot be deleted ends the activation.
DeleteToken(a) ==
  /\ Doing(a, "untoken")
  /\ \/ token' = NoCred /\ Then(a, Rest(a)) /\ NoFault
     \/ Fault /\ Then(a, <<Call("seat", Now(a).key, Now(a).id)>>) /\ UNCHANGED token
  /\ UNCHANGED <<local, nonce, owed, locks, service, learned, abandoned, starts, minted>>

\* Mutant: the generation is not compared again under the lock.
PersistUnchecked(a) ==
  /\ Doing(a, "persist")
  /\ mutation = NoOne
  /\ mutation' = a
  /\ key' = Now(a).key
  /\ op' = [op EXCEPT ![a].todo[1].step = "save"]
  /\ UNCHANGED <<row, entitled, secrets, credential, service, bounds>>

\* persist_generation: the generation must be the one that was read.
Persist(a) ==
  /\ Doing(a, "persist")
  /\ mutation = NoOne
  /\ IF Unchanged(a)
       THEN /\ mutation' = a
            /\ key' = Now(a).key
            /\ op' = [op EXCEPT ![a].todo[1].step = "save"]
       ELSE /\ Then(a, <<Call("seat", Now(a).key, Now(a).id)>>)
            /\ UNCHANGED <<mutation, key>>
  /\ UNCHANGED <<row, entitled, secrets, credential, service, bounds>>

\* Mutant: a tick may have raced the replacement; nothing sweeps after it.
NoSweep(a) == <<>>

\* The sweep of a credential a tick obtained for the license being replaced.
Sweep(a) ==
  IF Teardown(a) THEN <<Call("release", op[a].oldKey, op[a].oldId),
                        Call("forget", op[a].oldKey, op[a].oldId)>>
                 ELSE <<>>

Save(a) ==
  /\ Doing(a, "save")
  /\ mutation' = NoOne
  /\ LET k == Now(a).key
         i == Now(a).id
     IN \/ /\ row' = i
           /\ entitled' = TRUE
           /\ Then(a, Sweep(a) \o <<Call("ensure", k, i)>>)
           /\ NoFault
           /\ UNCHANGED key
        \* The save failed or was taken back: so is the key.
        \/ /\ Fault
           /\ key' = op[a].oldKey
           /\ Then(a, <<Call("seat", k, i)>>)
           /\ UNCHANGED <<row, entitled>>
  /\ UNCHANGED <<secrets, credential, service, learned, abandoned, starts, minted>>

-----------------------------------------------------------------------------
(* deactivate_license.                                                     *)

\* Under LICENSE_MUTATION.  A clear whose answer timed out still runs, ahead of
\* every later read; its releases are recorded with the lock held.
ClearRow(a) ==
  /\ Doing(a, "clear")
  /\ mutation = NoOne
  /\ LET k == Now(a).key
         i == Now(a).id
         release == IF k = NoKey THEN <<>>
                    ELSE <<Call("release", k, i), Call("forget", k, i), Call("seat", k, i)>>
     IN \/ /\ Unchanged(a)
           /\ row' = 0
           /\ entitled' = FALSE
           /\ \/ /\ mutation' = a
                 /\ Then(a, <<Call("unkey", k, i)>> \o release)
                 /\ NoFault
              \/ /\ Fault
                 /\ IF k = NoKey
                      THEN Finish(a) /\ UNCHANGED mutation
                      ELSE /\ mutation' = a
                           /\ Then(a, <<Call("record", k, i)>>)
        \* Declined, changed meanwhile, or not cleared: nothing was unlinked.
        \/ /\ Finish(a)
           /\ NoFault
           /\ UNCHANGED <<row, entitled, mutation>>
  /\ UNCHANGED <<key, secrets, credential, service, learned, abandoned, starts, minted>>

\* A key that cannot be deleted stays behind; the releases go on.
DeleteKey(a) ==
  /\ Doing(a, "unkey")
  /\ \/ key' = NoKey /\ NoFault
     \/ Fault /\ UNCHANGED key
  /\ mutation' = NoOne
  /\ Then(a, Rest(a))
  /\ UNCHANGED <<row, entitled, secrets, credential, service, learned, abandoned, starts, minted>>

-----------------------------------------------------------------------------
(* Giving back.                                                            *)

Of(k, i) == {c \in creds : c.key = k /\ c.id = i}

Abandon(releases) == abandoned' = abandoned \cup releases

\* release_credential, first half: the lock, and the service's answer.  A known
\* refusal proves nothing about the credential and leaves nothing to retry.
Release(a) ==
  /\ Doing(a, "release")
  /\ credential = NoOne
  /\ credential' = a
  /\ LET k == Now(a).key
         i == Now(a).id
     IN \/ /\ creds' = creds \ Of(k, i)
           /\ op' = [op EXCEPT ![a].todo = Rest(a), ![a].lost = FALSE]
           /\ NoFault /\ Abandon({})
        \/ /\ Fault /\ Abandon({Owed(k, i, "catalog")})
           /\ op' = [op EXCEPT ![a].todo = Rest(a), ![a].lost = FALSE]
           /\ UNCHANGED creds
        \/ /\ Fault /\ Abandon({})
           /\ creds' \in {creds, creds \ Of(k, i)}
           /\ op' = [op EXCEPT ![a].todo = Rest(a), ![a].lost = TRUE]
  /\ UNCHANGED <<local, secrets, mutation, seats, learned, starts, minted>>

\* What could not be delivered is owed, or lost when that cannot be written
\* either: no fault is counted, since one went before it.
Note(releases) ==
  \/ owed' = owed \cup releases /\ Abandon({})
  \/ Abandon(releases) /\ UNCHANGED owed

\* The second half: the release is noted if it was lost, and the token goes
\* whatever the answer was and whosever it is, or cannot be deleted.
Forget(a) ==
  /\ Doing(a, "forget")
  /\ credential' = NoOne
  /\ Note(IF op[a].lost THEN {Owed(Now(a).key, Now(a).id, "catalog")} ELSE {})
  /\ \/ token' = NoCred /\ NoFault
     \/ Fault /\ UNCHANGED token
  /\ op' = [op EXCEPT ![a].todo = Rest(a), ![a].lost = FALSE]
  /\ UNCHANGED <<local, nonce, mutation, service, learned, starts, minted>>

\* release_orphaned_instance, and the provider's half of a deactivation.
\* Success and proven absence come to the same; a terminal refusal is not
\* retried; any other failure is recorded.
ReleaseSeat(a) ==
  /\ Doing(a, "seat")
  /\ LET k == Now(a).key
         i == Now(a).id
     IN \/ /\ seats' = seats \ {<<k, i>>}
           /\ Then(a, Rest(a))
           /\ NoFault /\ Abandon({})
        \/ /\ Fault /\ Abandon({Owed(k, i, "provider")})
           /\ Then(a, Rest(a))
           /\ UNCHANGED seats
        \/ /\ Fault /\ Abandon({})
           /\ seats' \in {seats, seats \ {<<k, i>>}}
           /\ Then(a, <<Call("record", k, i)>> \o Rest(a))
  /\ UNCHANGED <<local, secrets, locks, creds, learned, starts, minted>>

\* record_pending_provider_release; after an ambiguous clear it is the last
\* thing done under LICENSE_MUTATION.
Record(a) ==
  /\ Doing(a, "record")
  /\ credential = NoOne
  /\ Note({Owed(Now(a).key, Now(a).id, side) :
             side \in IF mutation = a THEN Sides ELSE {"provider"}})
  /\ mutation' = IF mutation = a THEN NoOne ELSE mutation
  /\ Then(a, Rest(a))
  /\ UNCHANGED <<local, token, nonce, credential, service, learned, starts, minted, faults>>

Ended(a) ==
  /\ op[a].todo = <<>>
  /\ op[a] # Resting
  /\ a # Loop
  /\ Finish(a)
  /\ UNCHANGED <<local, secrets, locks, service, bounds>>

-----------------------------------------------------------------------------
(* ensure_credential and obtain_token.                                     *)

EnsureLock(a) ==
  /\ Doing(a, "ensure")
  /\ credential = NoOne
  /\ IF token # NoCred
       THEN Then(a, Rest(a)) /\ UNCHANGED credential
       ELSE /\ op' = [op EXCEPT ![a].todo[1].step = "check"]
            /\ credential' = a
  /\ UNCHANGED <<local, secrets, mutation, service, bounds>>

\* The key and the row are read together, under LICENSE_MUTATION, which is
\* given up before the service is asked.
CheckGeneration(a) ==
  /\ Doing(a, "check")
  /\ mutation = NoOne
  /\ IF key = Now(a).key /\ row = Now(a).id
       THEN /\ op' = [op EXCEPT ![a].todo[1].step = "obtain"]
            /\ UNCHANGED credential
       ELSE /\ Then(a, Rest(a))
            /\ credential' = NoOne
  /\ UNCHANGED <<local, secrets, mutation, service, bounds>>

\* A random nonce is one that nothing remembers.
Remembered == {c.nonce : c \in creds \cup op[Loop].shown \cup {nonce, token}}
FreshNonce == CHOOSE n \in 1..(Cardinality(Remembered) + 1) : n \notin Remembered

\* resolve_nonce: a pending nonce is used again for the same identity only.
Resolved(k, i) == IF nonce.key = k /\ nonce.id = i THEN nonce.nonce ELSE FreshNonce

Issue(c, given) ==
  /\ creds' = given \cup {c}
  /\ token' = c
  /\ nonce' = NoCred
  /\ NoFault

\* No answer that settles it, or a token that could not be stored: the nonce
\* stays.
Unanswered(c, given) ==
  /\ Fault
  /\ creds' \in {given, given \cup {c}}
  /\ nonce' = c
  /\ UNCHANGED token

\* A known refusal or the credential cap; also a nonce that could not be saved,
\* so that nothing was asked.
Refused(given) ==
  /\ Fault
  /\ creds' = given
  /\ nonce' = NoCred
  /\ UNCHANGED token

Activate(c, given) == Issue(c, given) \/ Unanswered(c, given) \/ Refused(given)

\* obtain_token.  A pending nonce may have been answered before, and brings no
\* token then: the installation is released, which may fail, and a fresh nonce
\* tried once.
Obtain(a) ==
  /\ Doing(a, "obtain")
  /\ LET k == Now(a).key
         i == Now(a).id
         first == [key |-> k, id |-> i, nonce |-> Resolved(k, i)]
         again == [first EXCEPT !.nonce = FreshNonce]
         released == creds \ Of(k, i)
     IN \/ first \notin creds /\ Activate(first, creds)
        \/ /\ nonce = first
           /\ \/ Activate(again, released)
              \/ Refused(creds)
              \/ /\ Fault
                 /\ creds' \in {creds, released}
                 /\ nonce' = first
                 /\ UNCHANGED token
  /\ credential' = NoOne
  /\ Then(a, Rest(a))
  /\ UNCHANGED <<local, owed, mutation, seats, learned, abandoned, starts, minted>>

-----------------------------------------------------------------------------
(* The refresh loop: retry_pending_release, then a tick.                   *)

\* Mutant: an unlicensed machine drains nothing, as it refreshes nothing.
DrainLicensed ==
  /\ op[Loop] = Resting
  /\ credential = NoOne
  /\ op' = [op EXCEPT ![Loop].kind = "loop", ![Loop].list = owed,
               ![Loop].todo =
                 <<Call(IF owed = {} \/ row = 0 THEN "tick" ELSE "drain", NoKey, 0)>>]
  /\ UNCHANGED <<local, secrets, locks, service, bounds>>

DrainRead ==
  /\ op[Loop] = Resting
  /\ credential = NoOne
  /\ op' = [op EXCEPT ![Loop].kind = "loop", ![Loop].list = owed,
               ![Loop].todo = <<Call(IF owed = {} THEN "tick" ELSE "drain", NoKey, 0)>>]
  /\ UNCHANGED <<local, secrets, locks, service, bounds>>

\* One side of one entry, without a lock.  A refusal settles it like a success.
DrainOne ==
  /\ Doing(Loop, "drain")
  /\ \E r \in op[Loop].list :
       LET kept == [seats |-> seats, creds |-> creds]
           gone == IF r.side = "catalog"
                     THEN [kept EXCEPT !.creds = creds \ Of(r.key, r.id)]
                     ELSE [kept EXCEPT !.seats = seats \ {<<r.key, r.id>>}]
       IN \E answer \in {"done", "refused", "lost"}, after \in {kept, gone} :
            /\ answer = "done" => after = gone
            /\ answer = "refused" => after = kept
            /\ IF answer = "done" THEN NoFault ELSE Fault
            /\ Abandon(IF answer = "refused" THEN {r} ELSE {})
            /\ seats' = after.seats
            /\ creds' = after.creds
            /\ op' = [op EXCEPT ![Loop].list = @ \ {r},
                                ![Loop].done = IF answer = "lost" THEN @ ELSE @ \cup {r}]
  /\ UNCHANGED <<local, secrets, locks, learned, starts, minted>>

\* Only what was settled is taken off the list as it is now, if it can be written.
Settle ==
  /\ Doing(Loop, "drain")
  /\ op[Loop].list = {}
  /\ credential = NoOne
  /\ \/ owed' = owed \ op[Loop].done /\ NoFault
     \/ Fault /\ UNCHANGED owed
  /\ op' = [op EXCEPT ![Loop].done = {}, ![Loop].todo = <<Call("tick", NoKey, 0)>>]
  /\ UNCHANGED <<local, token, nonce, locks, service, learned, abandoned, starts, minted>>

TickLoad ==
  /\ Doing(Loop, "tick")
  /\ IF row # 0 /\ entitled
       THEN Then(Loop, <<Call("token", NoKey, row)>>)
       ELSE Finish(Loop)
  /\ UNCHANGED <<local, secrets, locks, service, bounds>>

\* current_or_new_token: a stored token, else one obtained for the license that
\* was loaded, else none.
TickToken ==
  /\ Doing(Loop, "token")
  /\ LET i == Now(Loop).id IN
       IF token # NoCred
         THEN op' = [op EXCEPT ![Loop].shown = {token},
                       ![Loop].todo = <<Call("use", NoKey, i)>>]
       ELSE IF key # NoKey /\ ~op[Loop].retried
         THEN op' = [op EXCEPT ![Loop].retried = TRUE,
                       ![Loop].todo = <<Call("ensure", key, i), Call("token", NoKey, i)>>]
       ELSE Finish(Loop)
  /\ UNCHANGED <<local, secrets, locks, service, bounds>>

\* The manifest request: a token whose credential is gone is rejected.
TickUse ==
  /\ Doing(Loop, "use")
  /\ IF op[Loop].shown \subseteq creds
       THEN Finish(Loop)
       ELSE op' = [op EXCEPT ![Loop].todo[1].step = "reject"]
  /\ UNCHANGED <<local, secrets, locks, service, bounds>>

\* clear_rejected_token: only the token that was presented.
TickReject ==
  /\ Doing(Loop, "reject")
  /\ credential = NoOne
  /\ token' = IF token \in op[Loop].shown THEN NoCred ELSE token
  /\ Finish(Loop)
  /\ UNCHANGED <<local, nonce, owed, locks, service, bounds>>

\* A validation finds the subscription over.
Lapse ==
  /\ Fault
  /\ mutation = NoOne
  /\ row # 0 /\ entitled
  /\ entitled' = FALSE
  /\ UNCHANGED <<row, key, secrets, locks, op, service, learned, abandoned, starts, minted>>

-----------------------------------------------------------------------------
CommandStep(a) ==
  \/ ReadRow(a)
  \/ ReadKey(a)
  \/ Confirm(a)
  \/ MintAnswered(a)
  \/ MintRefused(a)
  \/ DeleteToken(a)
  \/ Persist(a)
  \/ Save(a)
  \/ ClearRow(a)
  \/ DeleteKey(a)
  \/ Release(a)
  \/ Forget(a)
  \/ ReleaseSeat(a)
  \/ Record(a)
  \/ Ended(a)

EnsureStep(a) ==
  \/ EnsureLock(a)
  \/ CheckGeneration(a)
  \/ Obtain(a)

LoopStep ==
  \/ DrainRead
  \/ DrainOne
  \/ Settle
  \/ TickLoad
  \/ TickToken
  \/ TickUse
  \/ TickReject

Next ==
  \/ \E a \in Commands :
       \/ \E k \in Keys : StartActivation(a, k)
       \/ StartDeactivation(a)
       \/ CommandStep(a)
       \/ MintLost(a)
  \/ \E a \in Actors : EnsureStep(a)
  \/ LoopStep
  \/ Lapse

Spec == Init /\ [][Next]_vars

\* Commands run to their end and the loop for ever.  Both locks are handed over
\* in the order they were asked for, so whoever waits gets its turn.
FairSpec ==
  /\ Spec
  /\ \A a \in Commands : SF_vars(CommandStep(a) \/ EnsureStep(a))
  /\ SF_vars(LoopStep \/ EnsureStep(Loop))

-----------------------------------------------------------------------------
InHand(k, i, steps) ==
  \E a \in Actors : \E n \in DOMAIN op[a].todo :
    LET call == op[a].todo[n] IN
      call.step \in steps /\ call.key = k /\ call.id = i

HasHandle(c) ==
  \/ row = c.id
  \/ Owed(c.key, c.id, "catalog") \in owed \cup abandoned
  \/ InHand(c.key, c.id, {"release"})
  \/ \E a \in Actors : /\ op[a].todo # <<>>
                       /\ Now(a).key = c.key /\ Now(a).id = c.id
                       /\ \/ Doing(a, "forget") /\ op[a].lost
                          \/ Doing(a, "record") /\ mutation = a

\* No credential is stranded in silence: one that is active at the catalog
\* service is named by the installed row, by a release still owed, by a release
\* some operation is about to make, or its release was given up knowingly,
\* refused for good or impossible to record (CatalogRelease).
CredentialHasHandle == \A c \in creds : HasHandle(c)

\* Nor is a seat, if the provider's answer ever reached us.
SeatHasHandle ==
  \A s \in seats : s[2] \in learned =>
    \/ row = s[2]
    \/ Owed(s[1], s[2], "provider") \in owed \cup abandoned
    \/ InHand(s[1], s[2], {"seat", "record", "persist", "save"})

\* The holder of each lock waits for the other one.
Wedged ==
  \E a, b \in Actors :
    /\ credential = a /\ Doing(a, "check")
    /\ mutation = b /\ Doing(b, "record")

\* license_lifecycle.rs:26: "The credential lock may acquire this lock for
\* bounded reads, but this lock is never held while acquiring that one."
NeverWedged == ~Wedged

\* Once faults are over and unless the locks are wedged, everything owed is given
\* back, and an installed license that still entitles holds a credential the
\* service knows: its own, or, where a token could not be deleted, one that was
\* given up on ("a later activation will trip over it").
Settles ==
  <>[](\/ Wedged
       \/ /\ owed = {}
          /\ row # 0 /\ entitled =>
               /\ token \in creds
               /\ token.id = row \/ Owed(token.key, token.id, "catalog") \in abandoned)
=============================================================================
