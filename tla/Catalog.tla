------------------------------ MODULE Catalog ------------------------------
(***************************************************************************)
(* The signed remediation catalog on this machine: the refresh tick of     *)
(* background/catalog_refresh_tick.rs from the manifest to the activated   *)
(* pack, verification (catalog/verify.rs) and the two files of             *)
(* catalog/store.rs, the active pack and the rollback floor beside it.     *)
(* There is one writer, the refresh loop.  A tick may die between any two  *)
(* of its steps.  A file that was renamed into place is safe from a power  *)
(* loss only once its directory was synced, and sync_dir is best effort:   *)
(* it does nothing off unix and drops every error on unix, and activate    *)
(* returns Ok all the same.  So a power loss may take either file back to  *)
(* what the last sync that took effect left.  A pack may also be lost or   *)
(* damaged where it lies.                                                  *)
(*                                                                         *)
(* A release is its sequence number, 0 standing for "none"; a pack is the  *)
(* release it was signed for.  The service is outside the repository: it   *)
(* publishes releases in order and, while faults last, may answer with an  *)
(* older manifest, the wrong pack, or nothing.                             *)
(***************************************************************************)
EXTENDS Naturals, FiniteSets

CONSTANTS MaxRelease,   \* how many releases the service publishes
          TooNew,       \* releases that ask for a newer engine than this one
          MaxFaults     \* bound on faults: service, damage, death, power loss

ASSUME CatalogAssumption ==
  MaxRelease \in Nat \ {0} /\ TooNew \subseteq 1..MaxRelease /\ MaxFaults \in Nat

VARIABLES pack,         \* active.json: a release, 0 missing, Damaged
          floor,        \* release-sequence: a release, 0 never written
          synced,       \* the two files as the last effective sync left them
          latest,       \* the service: its latest release
          tick,         \* where the tick is, and what it read
          activated,    \* history: the highest release whose activation
                        \* returned, less what a power loss may take back
          faults

vars == <<pack, floor, synced, latest, tick, activated, faults>>

Damaged == MaxRelease + 1
Releases == 1..MaxRelease
Higher(a, b) == IF a >= b THEN a ELSE b
Lower(a, b) == IF a <= b THEN a ELSE b

Idle == [phase |-> "idle", sequence |-> 0, repair |-> FALSE, manifest |-> 0]
TickPhases == {"idle", "asked", "download", "verified", "raised", "floored",
               "published"}

TypeOK ==
  /\ pack \in 0..Damaged
  /\ floor \in 0..MaxRelease
  /\ synced \in [pack : 0..Damaged, floor : 0..MaxRelease]
  /\ latest \in Releases
  /\ tick \in [phase : TickPhases, sequence : 0..MaxRelease, repair : BOOLEAN,
               manifest : 0..MaxRelease]
  /\ activated \in 0..MaxRelease
  /\ faults \in 0..MaxFaults

Init ==
  /\ pack = 0
  /\ floor = 0
  /\ synced = [pack |-> 0, floor |-> 0]
  /\ latest = 1
  /\ tick = Idle
  /\ activated = 0
  /\ faults = 0

-----------------------------------------------------------------------------
(* store.rs: what the two files say together.                              *)

Readable == pack \in Releases

\* Mutant: the floor is only what the readable pack says.
SequenceOfPack == IF Readable THEN pack ELSE 0

ActiveSequence == IF Readable THEN Higher(floor, pack) ELSE floor

NeedsRepair ==
  \/ Readable /\ pack < floor
  \/ pack = 0 /\ floor # 0
  \/ pack = Damaged

\* needs_download
NeedsDownload(manifest, sequence, repair) ==
  \/ sequence = 0
  \/ manifest > sequence
  \/ repair /\ manifest = sequence

\* Mutant: an equal sequence is a replay even when it repairs the pack.
RefusesEqual(offered) == ActiveSequence # 0 /\ offered <= ActiveSequence

\* rollback_refused, on the state of the files at verification.
RollbackRefused(offered) ==
  /\ ActiveSequence # 0
  /\ \/ offered < ActiveSequence
     \/ offered = ActiveSequence /\ ~NeedsRepair

-----------------------------------------------------------------------------
(* The tick.                                                               *)

Fault ==
  /\ faults < MaxFaults
  /\ faults' = faults + 1

Give == tick' = Idle

TickReads ==
  /\ tick.phase = "idle"
  /\ tick' = [Idle EXCEPT !.phase = "asked", !.sequence = ActiveSequence,
                          !.repair = NeedsRepair]
  /\ UNCHANGED <<pack, floor, synced, latest, activated, faults>>

\* The manifest request: a current one, or the answer that nothing changed,
\* which is only asked for when the installed pack needs no repair.
Manifest(offered) ==
  /\ tick.phase = "asked"
  /\ IF ~tick.repair /\ Readable /\ pack = offered
       THEN Give
       ELSE IF NeedsDownload(offered, tick.sequence, tick.repair)
              THEN tick' = [tick EXCEPT !.phase = "download", !.manifest = offered]
              ELSE Give
  /\ UNCHANGED <<pack, floor, synced, latest, activated>>

TickAsks == Manifest(latest) /\ UNCHANGED faults

TickAsksStale == Fault /\ \E offered \in 1..latest : Manifest(offered)

\* fetch_pack and verify_pack: bytes the manifest does not name fail the hash.
Fetch(delivered) ==
  /\ tick.phase = "download"
  /\ IF /\ delivered = tick.manifest
        /\ delivered \notin TooNew
        /\ ~RollbackRefused(delivered)
       THEN tick' = [tick EXCEPT !.phase = "verified"]
       ELSE Give
  /\ UNCHANGED <<pack, floor, synced, latest, activated>>

TickFetches == Fetch(tick.manifest) /\ UNCHANGED faults

TickFetchesWrong == Fault /\ \E delivered \in 1..latest : Fetch(delivered)

Step(from, to) ==
  /\ tick.phase = from
  /\ tick' = [tick EXCEPT !.phase = to]

\* Mutant: the floor is left to the pack that carries it.
KeepFloor ==
  /\ Step("verified", "floored")
  /\ UNCHANGED <<pack, floor, synced, latest, activated, faults>>

\* Mutant: the floor asks for one release more than the pack.
RaisePast ==
  /\ Step("verified", IF floor > tick.manifest THEN "floored" ELSE "raised")
  /\ floor' = Higher(floor, tick.manifest + 1)
  /\ UNCHANGED <<pack, synced, latest, activated, faults>>

\* record_high_water: a floor that stands already is left as it is.
RaiseFloor ==
  /\ Step("verified", IF floor >= tick.manifest THEN "floored" ELSE "raised")
  /\ floor' = Higher(floor, tick.manifest)
  /\ UNCHANGED <<pack, synced, latest, activated, faults>>

\* sync_dir: nobody learns whether the two names reached the disk.
SyncDir == synced' \in {synced, [pack |-> pack, floor |-> floor]}

SyncFloor ==
  /\ Step("raised", "floored")
  /\ SyncDir
  /\ UNCHANGED <<pack, floor, latest, activated, faults>>

\* The pack's rename.
PublishPack ==
  /\ Step("floored", "published")
  /\ pack' = tick.manifest
  /\ UNCHANGED <<floor, synced, latest, activated, faults>>

\* The end of activate, which returns Ok whatever the sync did.
SyncDirectory ==
  /\ tick.phase = "published"
  /\ SyncDir
  /\ activated' = Higher(activated, tick.manifest)
  /\ Give
  /\ UNCHANGED <<pack, floor, latest, faults>>

-----------------------------------------------------------------------------
(* The service and the machine.                                            *)

ServicePublishes ==
  /\ latest < MaxRelease
  /\ latest' = latest + 1
  /\ UNCHANGED <<pack, floor, synced, tick, activated, faults>>

\* A request that fails, a full disk, or the process dying: the tick ends.
TickDies ==
  /\ Fault
  /\ tick.phase # "idle"
  /\ Give
  /\ UNCHANGED <<pack, floor, synced, latest, activated>>

\* A rename that was not synced is on disk or it is not: a release that only
\* unsynced renames stand for may be taken back, and no more than that.
PowerLoss ==
  /\ Fault
  /\ pack' \in {pack, synced.pack}
  /\ floor' \in {floor, synced.floor}
  /\ synced' = [pack |-> pack', floor |-> floor']
  /\ activated' = Lower(activated, synced.floor)
  /\ Give
  /\ UNCHANGED latest

DamagePack ==
  /\ Fault
  /\ pack # 0
  /\ pack' \in {0, Damaged}
  /\ synced' = [synced EXCEPT !.pack = pack']
  /\ UNCHANGED <<floor, latest, tick, activated>>

-----------------------------------------------------------------------------
TickStep ==
  \/ TickReads
  \/ TickAsks
  \/ TickFetches
  \/ RaiseFloor
  \/ SyncFloor
  \/ PublishPack
  \/ SyncDirectory

Next ==
  \/ TickStep
  \/ TickAsksStale
  \/ TickFetchesWrong
  \/ ServicePublishes
  \/ TickDies
  \/ PowerLoss
  \/ DamagePack

Spec == Init /\ [][Next]_vars

\* The loop ticks for ever, and a request it sends is answered in the end.
FairSpec == Spec /\ WF_vars(TickStep)

-----------------------------------------------------------------------------
\* The floor outlives the pack: whatever becomes of the pack, of the service's
\* answers and of the process between two steps, the sequence a release is judged
\* against never falls below a release whose activation returned.  Only a power
\* loss may take it back, and only past what no sync had made durable (store.rs,
\* active_release_sequence, the order of activate).
FloorStands == activated <= ActiveSequence

\* A tick never publishes a pack older than one that was activated before, also
\* not in place of one that was damaged, and not for a stale manifest, a wrong
\* pack or a tick that died.  A release that a power loss could take back does
\* not count as activated after that loss.
NeverOlder ==
  [][pack' # pack /\ faults' = faults => pack' >= activated]_vars

\* Once faults are over, the machine ends with the latest release readable,
\* however its files were left, unless that release asks for a newer engine:
\* the repair of an equal sequence is what makes this true.
Heals == <>[](latest \notin TooNew => pack = latest)
=============================================================================
