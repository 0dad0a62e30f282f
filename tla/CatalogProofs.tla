--------------------------- MODULE CatalogProofs ---------------------------
(***************************************************************************)
(* Proofs about Catalog for every number of releases and of faults.  The   *)
(* invariant says where the floor is while a tick is on its way: it is     *)
(* never below its synced copy nor below a release whose activation        *)
(* returned, a verified manifest is not below such a release, and the      *)
(* floor is at the manifest before the pack is published.  The synced copy *)
(* may be anywhere below: the sync is best effort.                         *)
(***************************************************************************)
EXTENDS Catalog, TLAPS

Verified == {"verified", "raised", "floored", "published"}
Floored == {"raised", "floored", "published"}

IInv ==
  /\ TypeOK
  /\ synced.floor <= floor
  /\ activated <= floor
  /\ tick.phase \in Verified => activated <= tick.manifest
  /\ tick.phase \in Floored => tick.manifest <= floor

\* The higher of two readings is one of them.
LEMMA HigherType ==
  ASSUME NEW a \in Nat, NEW b \in Nat
  PROVE  /\ Higher(a, b) \in {a, b}
         /\ a <= Higher(a, b)
         /\ b <= Higher(a, b)
BY DEF Higher

\* The lower of two readings is one of them.
LEMMA LowerType ==
  ASSUME NEW a \in Nat, NEW b \in Nat
  PROVE  /\ Lower(a, b) \in {a, b}
         /\ Lower(a, b) <= a
         /\ Lower(a, b) <= b
BY DEF Lower

\* A directory sync leaves the synced floor where it was or puts it at the floor.
LEMMA SyncDirType ==
  ASSUME IInv, SyncDir
  PROVE  /\ synced' \in [pack : 0..Damaged, floor : 0..MaxRelease]
         /\ synced'.floor \in {synced.floor, floor}
BY DEF IInv, TypeOK, SyncDir

\* Every action that leaves the files and the history alone keeps IInv when the
\* tick it leaves behind does.
LEMMA TickOnly ==
  ASSUME CatalogAssumption, IInv,
         UNCHANGED <<pack, floor, synced, activated>>,
         latest' \in Releases, faults' \in 0..MaxFaults,
         tick' \in [phase : TickPhases, sequence : 0..MaxRelease,
                    repair : BOOLEAN, manifest : 0..MaxRelease],
         tick'.phase \in Verified => activated <= tick'.manifest,
         tick'.phase \in Floored => tick'.manifest <= floor
  PROVE  IInv'
BY DEF IInv, TypeOK

\* The tick at rest satisfies what IInv says of a tick, whatever the disk holds.
LEMMA IdleTick ==
  ASSUME CatalogAssumption
  PROVE  /\ Idle \in [phase : TickPhases, sequence : 0..MaxRelease,
                      repair : BOOLEAN, manifest : 0..MaxRelease]
         /\ Idle.phase \notin Verified
         /\ Idle.phase \notin Floored
BY DEF Idle, TickPhases, Verified, Floored, CatalogAssumption

\* A fault keeps the count within its bound.
LEMMA FaultBound ==
  ASSUME CatalogAssumption, faults \in 0..MaxFaults, Fault
  PROVE  faults' \in 0..MaxFaults
BY DEF Fault, CatalogAssumption

\* active_release_sequence answers a release, never one below the floor.
LEMMA ActiveType ==
  ASSUME CatalogAssumption, TypeOK
  PROVE  /\ ActiveSequence \in 0..MaxRelease
         /\ floor <= ActiveSequence
BY DEF ActiveSequence, Higher, Readable, Releases, TypeOK, CatalogAssumption, Damaged

\* IInv holds of a machine that has neither pack nor floor.
THEOREM InitIInv == CatalogAssumption /\ Init => IInv
BY DEF CatalogAssumption, Init, IInv, TypeOK, Idle, TickPhases, Releases, Verified,
       Floored, Damaged

\* A manifest that passes the rollback check is no older than what was active.
LEMMA ManifestStep ==
  ASSUME CatalogAssumption, IInv, NEW offered \in 1..MaxRelease,
         Manifest(offered), faults' \in 0..MaxFaults
  PROVE  IInv'
<1>1. CASE tick' = Idle
  BY <1>1, IdleTick, TickOnly DEF Manifest, IInv, TypeOK
<1>2. CASE tick' = [tick EXCEPT !.phase = "download", !.manifest = offered]
  <2>1. tick' \in [phase : TickPhases, sequence : 0..MaxRelease,
                   repair : BOOLEAN, manifest : 0..MaxRelease]
    <3>1. offered \in 0..MaxRelease
      BY DEF CatalogAssumption
    <3>2. tick' = [phase |-> "download", sequence |-> tick.sequence,
                   repair |-> tick.repair, manifest |-> offered]
      BY <1>2 DEF IInv, TypeOK
    <3> QED
      BY <3>1, <3>2 DEF IInv, TypeOK, TickPhases
  <2>2. tick'.phase = "download"
    BY <1>2 DEF IInv, TypeOK
  <2> QED
    BY <2>1, <2>2, TickOnly DEF Manifest, IInv, TypeOK, Verified, Floored
<1> QED
  BY <1>1, <1>2 DEF Manifest, Give

\* verify_pack lets only the pack the manifest names through.
LEMMA FetchStep ==
  ASSUME CatalogAssumption, IInv, NEW delivered \in 0..MaxRelease,
         Fetch(delivered), faults' \in 0..MaxFaults
  PROVE  IInv'
<1>1. CASE tick' = Idle
  BY <1>1, IdleTick, TickOnly DEF Fetch, IInv, TypeOK
<1>2. CASE /\ delivered = tick.manifest
           /\ ~RollbackRefused(delivered)
           /\ tick' = [tick EXCEPT !.phase = "verified"]
  <2>1. activated <= ActiveSequence
    BY ActiveType DEF IInv, TypeOK, CatalogAssumption
  <2>2. activated <= tick.manifest
    BY <1>2, <2>1, ActiveType DEF RollbackRefused, IInv, TypeOK, CatalogAssumption
  <2>3. /\ tick' \in [phase : TickPhases, sequence : 0..MaxRelease,
                      repair : BOOLEAN, manifest : 0..MaxRelease]
        /\ tick'.phase = "verified"
        /\ tick'.manifest = tick.manifest
    BY <1>2 DEF IInv, TypeOK, TickPhases
  <2> QED
    BY <2>2, <2>3, TickOnly DEF Fetch, IInv, TypeOK, Floored
<1> QED
  BY <1>1, <1>2 DEF Fetch, Give

\* Every step of the tick, of the service and of the disk keeps IInv.
THEOREM NextIInv == CatalogAssumption /\ IInv /\ [Next]_vars => IInv'
<1> SUFFICES ASSUME CatalogAssumption, IInv, [Next]_vars PROVE IInv'
  OBVIOUS
<1>1. CASE TickReads
  <2>1. ActiveSequence \in 0..MaxRelease /\ NeedsRepair \in BOOLEAN
    BY ActiveType DEF NeedsRepair, IInv
  <2>2. /\ tick' \in [phase : TickPhases, sequence : 0..MaxRelease,
                      repair : BOOLEAN, manifest : 0..MaxRelease]
        /\ tick'.phase = "asked"
    <3>1. tick' = [phase |-> "asked", sequence |-> ActiveSequence,
                   repair |-> NeedsRepair, manifest |-> 0]
      BY <1>1 DEF TickReads, Idle
    <3> QED
      BY <2>1, <3>1 DEF TickPhases, CatalogAssumption
  <2> QED
    BY <1>1, <2>2, TickOnly DEF TickReads, IInv, TypeOK, Verified, Floored
<1>2. CASE TickAsks
  BY <1>2, ManifestStep DEF TickAsks, IInv, TypeOK, Releases
<1>3. CASE TickAsksStale
  <2>1. PICK offered \in 1..latest : Manifest(offered)
    BY <1>3 DEF TickAsksStale
  <2>2. offered \in 1..MaxRelease
    BY DEF IInv, TypeOK, Releases, CatalogAssumption
  <2> QED
    BY <1>3, <2>1, <2>2, ManifestStep, FaultBound DEF TickAsksStale, IInv, TypeOK
<1>4. CASE TickFetches
  BY <1>4, FetchStep DEF TickFetches, IInv, TypeOK
<1>5. CASE TickFetchesWrong
  <2>1. PICK delivered \in 1..latest : Fetch(delivered)
    BY <1>5 DEF TickFetchesWrong
  <2>2. delivered \in 0..MaxRelease
    BY DEF IInv, TypeOK, Releases, CatalogAssumption
  <2> QED
    BY <1>5, <2>1, <2>2, FetchStep, FaultBound DEF TickFetchesWrong, IInv, TypeOK
<1>6. CASE RaiseFloor
  <2>1. /\ tick' \in [phase : TickPhases, sequence : 0..MaxRelease,
                      repair : BOOLEAN, manifest : 0..MaxRelease]
        /\ tick'.manifest = tick.manifest
        /\ tick.phase \in Verified
    BY <1>6 DEF RaiseFloor, Step, IInv, TypeOK, TickPhases, Verified
  <2>2. /\ floor' \in 0..MaxRelease
        /\ floor <= floor'
        /\ tick.manifest <= floor'
    BY <1>6, HigherType DEF RaiseFloor, IInv, TypeOK, CatalogAssumption
  <2> QED
    BY <1>6, <2>1, <2>2 DEF RaiseFloor, IInv, TypeOK, CatalogAssumption
<1>7. CASE SyncFloor
  <2>1. /\ tick' \in [phase : TickPhases, sequence : 0..MaxRelease,
                      repair : BOOLEAN, manifest : 0..MaxRelease]
        /\ tick'.manifest = tick.manifest
        /\ tick.phase \in Verified /\ tick.phase \in Floored
    BY <1>7 DEF SyncFloor, Step, IInv, TypeOK, TickPhases, Verified, Floored
  <2>2. /\ synced' \in [pack : 0..Damaged, floor : 0..MaxRelease]
        /\ synced'.floor \in {synced.floor, floor}
    BY <1>7, SyncDirType DEF SyncFloor
  <2> QED
    BY <1>7, <2>1, <2>2 DEF SyncFloor, IInv, TypeOK, CatalogAssumption
<1>8. CASE PublishPack
  <2>1. /\ tick' \in [phase : TickPhases, sequence : 0..MaxRelease,
                      repair : BOOLEAN, manifest : 0..MaxRelease]
        /\ tick'.manifest = tick.manifest
        /\ tick.phase \in Verified /\ tick.phase \in Floored
    BY <1>8 DEF PublishPack, Step, IInv, TypeOK, TickPhases, Verified, Floored
  <2>2. pack' \in 0..Damaged
    BY <1>8 DEF PublishPack, IInv, TypeOK, Damaged, CatalogAssumption
  <2> QED
    BY <1>8, <2>1, <2>2 DEF PublishPack, IInv, TypeOK
<1>9. CASE SyncDirectory
  <2>1. /\ synced' \in [pack : 0..Damaged, floor : 0..MaxRelease]
        /\ synced'.floor \in {synced.floor, floor}
    BY <1>9, SyncDirType DEF SyncDirectory
  <2>2. tick.manifest <= floor
    BY <1>9 DEF SyncDirectory, IInv, Floored
  <2>3. /\ activated' \in 0..MaxRelease
        /\ activated' <= floor
    BY <1>9, <2>2, HigherType DEF SyncDirectory, IInv, TypeOK, CatalogAssumption
  <2> QED
    BY <1>9, <2>1, <2>3, IdleTick DEF SyncDirectory, Give, IInv, TypeOK, CatalogAssumption
<1>10. CASE ServicePublishes
  BY <1>10 DEF ServicePublishes, IInv, TypeOK, Releases, CatalogAssumption
<1>11. CASE TickDies
  BY <1>11, IdleTick, FaultBound DEF TickDies, Give, IInv, TypeOK
<1>12. CASE PowerLoss
  <2>1. /\ pack' \in 0..Damaged
        /\ floor' \in 0..MaxRelease
        /\ synced.floor <= floor'
    BY <1>12 DEF PowerLoss, IInv, TypeOK, CatalogAssumption
  <2>2. /\ synced' \in [pack : 0..Damaged, floor : 0..MaxRelease]
        /\ synced'.floor = floor'
    BY <1>12, <2>1 DEF PowerLoss
  <2>3. /\ activated' \in 0..MaxRelease
        /\ activated' <= floor'
    BY <1>12, <2>1, LowerType DEF PowerLoss, IInv, TypeOK, CatalogAssumption
  <2> QED
    BY <1>12, <2>1, <2>2, <2>3, IdleTick, FaultBound
       DEF PowerLoss, Give, IInv, TypeOK, CatalogAssumption
<1>13. CASE DamagePack
  <2>1. /\ pack' \in 0..Damaged
        /\ synced' \in [pack : 0..Damaged, floor : 0..MaxRelease]
        /\ synced'.floor = synced.floor
    BY <1>13 DEF DamagePack, IInv, TypeOK, Damaged, CatalogAssumption
  <2> QED
    BY <1>13, <2>1, FaultBound DEF DamagePack, IInv, TypeOK
<1>14. CASE UNCHANGED vars
  BY <1>14 DEF vars, IInv, TypeOK
<1> QED
  BY <1>1, <1>2, <1>3, <1>4, <1>5, <1>6, <1>7, <1>8, <1>9, <1>10, <1>11, <1>12,
     <1>13, <1>14 DEF Next, TickStep

\* IInv is an invariant of Catalog.
THEOREM Invariance == Spec => []IInv
<1>1. Init => IInv
  BY InitIInv, CatalogAssumption
<1>2. IInv /\ [Next]_vars => IInv'
  BY NextIInv, CatalogAssumption
<1> QED
  BY <1>1, <1>2, PTL DEF Spec

\* The files, the tick and the history keep their types.
THEOREM TypeCorrect == Spec => []TypeOK
<1>1. IInv => TypeOK
  BY DEF IInv
<1> QED
  BY <1>1, Invariance, PTL

\* However often a pack is lost or damaged and a tick dies, the sequence a release
\* is judged against stays at or above every release whose activation returned;
\* a power loss takes it no lower than the floor the last effective sync left.
THEOREM FloorHolds == Spec => []FloorStands
<1>1. IInv => FloorStands
  BY ActiveType, CatalogAssumption DEF IInv, FloorStands, TypeOK, CatalogAssumption
<1> QED
  BY <1>1, Invariance, PTL

\* No tick publishes a pack older than one that was activated before, except for
\* a release that a power loss since could take back unsynced.
THEOREM NoTickGoesBack == Spec => NeverOlder
<1>1. IInv /\ [Next]_vars =>
        [pack' # pack /\ faults' = faults => pack' >= activated]_vars
  <2> SUFFICES ASSUME IInv, Next, pack' # pack, faults' = faults
               PROVE  pack' >= activated
    BY DEF vars
  <2>1. faults \in Nat
    BY CatalogAssumption DEF IInv, TypeOK
  <2>2. ~Fault
    BY <2>1 DEF Fault
  <2>3. PublishPack
    BY <2>2 DEF Next, TickStep, TickReads, TickAsks, TickAsksStale, Manifest,
       TickFetches, TickFetchesWrong, Fetch, RaiseFloor, SyncFloor, SyncDirectory,
       ServicePublishes, TickDies, PowerLoss, DamagePack
  <2> QED
    BY <2>3, CatalogAssumption DEF PublishPack, Step, IInv, TypeOK, Verified
<1> QED
  BY <1>1, Invariance, PTL DEF Spec, NeverOlder
=============================================================================
