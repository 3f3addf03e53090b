--------------------------- MODULE BootstrapProofs ---------------------------
(***************************************************************************)
(* What holds of Bootstrap for every number of runs, versions and files.   *)
(***************************************************************************)
EXTENDS Bootstrap, TLAPS

\* A run's step that only moves it from one place to another.
LEMMA GotoType ==
  ASSUME TypeOK, NEW r \in Run, NEW from, NEW to \in PC, Goto(r, from, to)
  PROVE  pc' \in [Run -> PC]
  BY DEF TypeOK, Goto

\* Every variable keeps its type.
THEOREM HostTyping == Spec => []TypeOK
<1>1. Init => TypeOK
  <2> SUFFICES ASSUME Init PROVE TypeOK
    OBVIOUS
  <2>1. manifest \in Version \cup {None}
    BY BootstrapAssumption DEF Init
  <2>2. disk \in [File -> Nat]
    BY <2>1, BootstrapAssumption DEF Init, Absent
  <2>3. built \in [BuildInput -> Nat] \cup {None}
    BY <2>2, BootstrapAssumption DEF Init, Inputs
  <2>4. QED
    BY <2>1, <2>2, <2>3 DEF Init, TypeOK, PC
<1>2. TypeOK /\ [Next]_vars => TypeOK'
  <2> SUFFICES ASSUME TypeOK, [Next]_vars
               PROVE  TypeOK'
    OBVIOUS
  <2> USE BootstrapAssumption
  <2> USE DEF TypeOK, hostVars, runVars
  <2>1. ASSUME NEW r \in Run, Step(r) PROVE TypeOK'
    <3>1. CASE Arrive(r)
      BY <3>1, GotoType DEF Arrive, PC, Served
    <3>2. CASE Ask(r) \/ LookAtLock(r) \/ BreakLock(r) \/ WaitForLock(r)
                 \/ GiveUp(r) \/ AlreadyThere(r)
      <4>1. pc' \in [Run -> PC]
        BY <3>2, GotoType DEF Ask, LookAtLock, BreakLock, WaitForLock, GiveUp,
                              AlreadyThere, PC, Decided, Updating
      <4>2. QED
        BY <3>2, <4>1 DEF Ask, LookAtLock, BreakLock, WaitForLock, GiveUp,
                          AlreadyThere
    <3>3. CASE CreateLock(r)
      BY <3>3, GotoType DEF CreateLock, PC, Updating, Blame
    <3>4. CASE Begin(r)
      <4>1. pc' \in [Run -> PC]
        BY <3>4, GotoType DEF Begin, PC, Updating
      <4>2. /\ todo' \in [Run -> SUBSET File]
            /\ rebuild' \in [Run -> BOOLEAN]
        BY <3>4 DEF Begin, Deleted, Changed, Rebuilds
      <4>3. QED
        BY <3>4, <4>1, <4>2 DEF Begin, Blame
    <3>5. ASSUME NEW f \in File, WriteFile(r, f) PROVE TypeOK'
      BY <3>5 DEF WriteFile
    <3>6. CASE Build(r)
      BY <3>6, GotoType DEF Build, PC, Updating, Inputs
    <3>7. CASE UpdateFails(r)
      BY <3>7, GotoType DEF UpdateFails, PC, Updating, Blame
    <3>8. CASE Publish(r)
      BY <3>8, GotoType DEF Publish, PC, Updating
    <3>9. CASE Unlock(r)
      BY <3>9, GotoType DEF Unlock, PC, Served, Decided
    <3>10. CASE HoldBusy(r)
      BY <3>10, GotoType DEF HoldBusy, PC, Served
    <3>11. QED
      BY <2>1, <3>1, <3>2, <3>3, <3>4, <3>5, <3>6, <3>7, <3>8, <3>9, <3>10
         DEF Step
  <2>2. ASSUME NEW r \in Run, Finish(r) PROVE TypeOK'
    BY <2>2, GotoType DEF Finish, PC, Decided
  <2>3. ASSUME NEW r \in Run, Die(r) PROVE TypeOK'
    BY <2>3 DEF Die, PC, Decided, Blame
  <2>4. ASSUME NEW r \in Run, MarkerAges(r) PROVE TypeOK'
    BY <2>4 DEF MarkerAges
  <2>5. CASE LockAges
    BY <2>5 DEF LockAges
  <2>6. CASE Done \/ UNCHANGED vars
    BY <2>6 DEF Done, vars
  <2>7. QED
    BY <2>1, <2>2, <2>3, <2>4, <2>5, <2>6 DEF Next
<1>3. QED
  BY <1>1, <1>2, PTL DEF Spec

----------------------------------------------------------------------------
(* Mutual exclusion, where no lock is ever taken for abandoned.            *)

LockInv ==
  /\ lock # "stale"
  /\ \A r \in Run : pc[r] # "breaking"
  /\ \A r \in Run : pc[r] \in Updating => lock = "held"
  /\ OneUpdater

\* With locks that are never taken for abandoned, two runs never update the
\* directory at once; what breaks this is only the removal of an old lock.
THEOREM UpdatesExclude == Ageing = "never" /\ Spec => []OneUpdater
<1> SUFFICES ASSUME Ageing = "never" PROVE Spec => []OneUpdater
  OBVIOUS
<1>1. Init => LockInv
  BY DEF Init, LockInv, OneUpdater, Updating
<1>2. TypeOK /\ LockInv /\ [Next]_vars => LockInv'
  <2> SUFFICES ASSUME TypeOK, LockInv, [Next]_vars
               PROVE  LockInv'
    OBVIOUS
  <2> USE DEF TypeOK, LockInv, OneUpdater, Updating, hostVars, runVars
  <2>1. ASSUME NEW r \in Run, Step(r) PROVE LockInv'
    <3>1. CASE Arrive(r) \/ Ask(r) \/ LookAtLock(r) \/ BreakLock(r)
                 \/ WaitForLock(r) \/ GiveUp(r) \/ AlreadyThere(r)
      BY <3>1 DEF Arrive, Ask, LookAtLock, BreakLock, WaitForLock, GiveUp,
                  AlreadyThere, Goto
    <3>2. CASE CreateLock(r)
      BY <3>2 DEF CreateLock, Goto
    <3>3. CASE Begin(r) \/ Build(r) \/ UpdateFails(r) \/ Publish(r)
                 \/ HoldBusy(r)
      BY <3>3 DEF Begin, Build, UpdateFails, Publish, HoldBusy, Goto
    <3>4. ASSUME NEW f \in File, WriteFile(r, f) PROVE LockInv'
      BY <3>4 DEF WriteFile
    <3>5. CASE Unlock(r)
      BY <3>5 DEF Unlock, Goto
    <3>6. QED
      BY <2>1, <3>1, <3>2, <3>3, <3>4, <3>5 DEF Step
  <2>2. ASSUME NEW r \in Run, Finish(r) \/ Die(r) \/ MarkerAges(r)
        PROVE  LockInv'
    BY <2>2 DEF Finish, Die, MarkerAges, Goto
  <2>3. CASE LockAges \/ Done \/ UNCHANGED vars
    BY <2>3 DEF LockAges, Done, vars
  <2>4. QED
    BY <2>1, <2>2, <2>3 DEF Next
<1>3. LockInv => OneUpdater
  BY DEF LockInv
<1>4. QED
  BY <1>1, <1>2, <1>3, HostTyping, PTL DEF Spec

----------------------------------------------------------------------------
(* The manifest.                                                           *)

Clean == blame \cap {"outdated", "crowded"} = {}

\* While r writes: what it need not write any more is there, and what it
\* will not rebuild was built from the inputs of its version.
Writes(r) ==
  /\ manifest = None
  /\ \A f \in File \ todo[r] :
       Tree[Wants[r]][f] # Absent => disk[f] = Tree[Wants[r]][f]
  /\ ~ rebuild[r] => built = None \/ Has(built, Wants[r])

\* While r has built and not published.
Built(r) ==
  /\ manifest = None
  /\ Has(disk, Wants[r])
  /\ built # None /\ Has(built, Wants[r])

Held == manifest # None =>
          Has(disk, manifest) /\ built # None /\ Has(built, manifest)

UpdateInv ==
  /\ Held
  /\ \A r \in Run : pc[r] = "writing" => Writes(r)
  /\ \A r \in Run : pc[r] = "built" => Built(r)
  /\ \A r \in Run : pc[r] = "unlocking" => manifest = Wants[r]

\* ManifestIsTrue strengthened: who may be updating, that there is no build
\* without a directory, and what each point of an update has established.
TruthInv ==
  /\ "crowded" \notin blame => OneUpdater
  /\ ~ exists => built = None
  /\ Clean => UpdateInv
  /\ Clean /\ "overtook" \notin blame =>
       \A r \in Run : pc[r] \in Served => manifest = Wants[r]

\* Steps that touch neither the directory nor the manifest, and move no run
\* into a part of an update of which UpdateInv says something.
LEMMA AsideStep ==
  ASSUME TypeOK, TruthInv, NEW r \in Run, NEW to,
         pc' = [pc EXCEPT ![r] = to],
         to \notin {"writing", "built", "unlocking"} \cup Served,
         to \in Updating => pc[r] \in Updating \/ "crowded" \in blame',
         UNCHANGED <<disk, exists, built, manifest, todo, rebuild>>,
         blame \subseteq blame'
  PROVE  TruthInv'
<1> USE DEF TypeOK, TruthInv
<1>1. "crowded" \notin blame' => OneUpdater'
  BY DEF OneUpdater
<1>2. Clean' => Clean
  BY DEF Clean
<1>3. Clean' => UpdateInv'
  BY <1>2 DEF UpdateInv, Held, Writes, Built, Has
<1>4. QED
  BY <1>1, <1>2, <1>3

\* An update that was offered against the manifest now there writes all that
\* the directory lacks, and rebuilds unless the build inputs are the same.
LEMMA BeginWrites ==
  ASSUME TypeOK, TruthInv, NEW r \in Run, Begin(r), Clean'
  PROVE  Writes(r)'
<1> USE BootstrapAssumption DEF TypeOK, TruthInv
<1>1. Clean /\ base[r] = manifest
  BY DEF Begin, Clean
<1>2. /\ manifest' = None /\ UNCHANGED <<disk, exists, built>>
      /\ todo'[r] = Deleted(base[r], Wants[r]) \cup Changed(base[r], Wants[r])
      /\ rebuild'[r] = Rebuilds(r)
  BY DEF Begin
<1>3. Held
  BY <1>1 DEF UpdateInv
<1>4. ASSUME NEW f \in File \ todo'[r], Tree[Wants[r]][f] # Absent
      PROVE  disk[f] = Tree[Wants[r]][f]
  <2>1. Listed(manifest, f) = Tree[Wants[r]][f]
    BY <1>1, <1>2, <1>4 DEF Changed
  <2>2. manifest # None /\ Tree[manifest][f] = Tree[Wants[r]][f]
    BY <1>4, <2>1 DEF Listed
  <2>3. QED
    BY <1>3, <1>4, <2>2 DEF Held, Has
<1>5. ASSUME ~ rebuild'[r], built # None
      PROVE  Has(built, Wants[r])
  <2>1. exists
    BY <1>5
  <2>2. /\ manifest # None
        /\ BuildInput \cap Changed(manifest, Wants[r]) = {}
    BY <1>2, <1>5, <2>1 DEF Rebuilds
  <2>3. built \in [BuildInput -> Nat] /\ Has(built, manifest)
    BY <1>3, <1>5, <2>2 DEF Held
  <2>4. ASSUME NEW f \in BuildInput, Tree[Wants[r]][f] # Absent
        PROVE  built[f] = Tree[Wants[r]][f]
    <3>1. Tree[manifest][f] = Tree[Wants[r]][f]
      BY <2>2, <2>4 DEF Changed, Listed
    <3>2. QED
      BY <2>3, <2>4, <3>1 DEF Has
  <2>5. QED
    BY <2>3, <2>4 DEF Has
<1>6. QED
  BY <1>2, <1>4, <1>5 DEF Writes, Has

LEMMA UpdateStep ==
  ASSUME TypeOK, TypeOK', TruthInv, NEW r \in Run,
         Begin(r) \/ (\E f \in File : WriteFile(r, f)) \/ Build(r) \/ Publish(r)
  PROVE  TruthInv'
<1> USE BootstrapAssumption DEF TypeOK, TruthInv
<1>1. /\ pc[r] \in Updating /\ pc'[r] \in Updating
      /\ \A q \in Run \ {r} : pc'[q] = pc[q]
      /\ blame \subseteq blame' /\ ("crowded" \in blame' => "crowded" \in blame)
      /\ "outdated" \notin blame' => "outdated" \notin blame
  BY DEF Begin, WriteFile, Build, Publish, Goto, Updating
<1>2. "crowded" \notin blame' => OneUpdater'
  BY <1>1 DEF OneUpdater
<1>3. Clean' => Clean
  BY <1>1 DEF Clean
<1>4. Clean => \A q \in Run \ {r} : pc'[q] \notin Updating
  BY <1>1 DEF OneUpdater, Clean
<1>5. ~ exists' => built' = None
  BY DEF Begin, WriteFile, Build, Publish
<1>6. CASE Begin(r)
  <2>1. Clean' => UpdateInv'
    <3> SUFFICES ASSUME Clean' PROVE UpdateInv'
      OBVIOUS
    <3>1. Writes(r)' /\ manifest' = None /\ pc'[r] = "writing"
      BY <1>6, BeginWrites DEF Begin, Goto
    <3>2. QED
      BY <1>3, <1>4, <3>1 DEF UpdateInv, Held, Updating
  <2>2. "overtook" \notin blame' => \A q \in Run : pc'[q] \notin Served
    BY <1>1, <1>6 DEF Begin, Served, Updating
  <2>3. QED
    BY <1>2, <1>5, <2>1, <2>2
<1>7. ASSUME NEW f \in File, WriteFile(r, f) PROVE TruthInv'
  <2> USE <1>7 DEF WriteFile
  <2>1. Clean => Writes(r)
    BY DEF UpdateInv
  <2>2. Clean => Writes(r)'
    BY <2>1 DEF Writes, Has
  <2>3. Clean => UpdateInv'
    BY <1>4, <2>1, <2>2 DEF UpdateInv, Held, Updating, Writes
  <2>4. QED
    BY <1>2, <1>3, <1>5, <2>3
<1>8. CASE Build(r)
  <2>1. Clean => Writes(r)
    BY <1>8 DEF UpdateInv, Build, Goto
  <2>2. Clean => Has(disk, Wants[r])
    BY <1>8, <2>1 DEF Build, Writes, Has
  <2>3. Clean => built' # None /\ Has(built', Wants[r])
    <3>1. CASE rebuild[r] \/ built = None
      <4>1. built' = Inputs(disk) /\ built' # None
        <5>1. Inputs(disk) \in [BuildInput -> Nat]
          BY DEF Inputs
        <5>2. QED
          BY <1>8, <3>1, <5>1 DEF Build
      <4>2. QED
        BY <2>2, <4>1 DEF Inputs, Has
    <3>2. CASE ~ (rebuild[r] \/ built = None)
      BY <1>8, <2>1, <3>2 DEF Build, Writes
    <3>3. QED
      BY <3>1, <3>2
  <2>4. Clean => Built(r)'
    BY <1>8, <2>1, <2>2, <2>3 DEF Build, Built, Writes, Has
  <2>5. Clean => UpdateInv'
    BY <1>4, <1>8, <2>4 DEF UpdateInv, Held, Updating, Built, Build, Goto
  <2>6. \A q \in Run : pc'[q] \in Served => pc[q] \in Served
    BY <1>1 DEF Served, Updating
  <2>7. QED
    BY <1>2, <1>3, <1>5, <1>8, <2>5, <2>6 DEF Build
<1>9. CASE Publish(r)
  <2>1. Clean => Built(r)
    BY <1>9 DEF UpdateInv, Publish, Goto
  <2>2. Clean => Held' /\ manifest' = Wants[r]
    BY <1>9, <2>1 DEF Publish, Built, Held, Has
  <2>3. Clean => UpdateInv'
    BY <1>4, <1>9, <2>2 DEF UpdateInv, Updating, Publish, Goto
  <2>4. Clean /\ "overtook" \notin blame => \A q \in Run : pc'[q] \notin Served
    BY <1>1, <2>1 DEF Built, Served, Updating
  <2>5. QED
    BY <1>2, <1>3, <1>5, <1>9, <2>3, <2>4 DEF Publish
<1>10. QED
  BY <1>6, <1>7, <1>8, <1>9

LEMMA TruthInductive == Spec => []TruthInv
<1> USE BootstrapAssumption
<1>1. Init => TruthInv
  <2> SUFFICES ASSUME Init PROVE TruthInv
    OBVIOUS
  <2>1. Held
    <3> SUFFICES ASSUME manifest # None PROVE Held
      BY DEF Held
    <3>1. disk = Tree[manifest] /\ built = Inputs(disk) /\ manifest \in Version
      BY DEF Init
    <3>2. built # None
      <4>1. Inputs(disk) \in [BuildInput -> Nat]
        BY <3>1 DEF Inputs
      <4>2. QED
        BY <3>1, <4>1
    <3>3. QED
      BY <3>1, <3>2 DEF Held, Has, Inputs
  <2>2. QED
    BY <2>1 DEF Init, TruthInv, OneUpdater, Updating, UpdateInv, Served
<1>2. TypeOK /\ TypeOK' /\ TruthInv /\ [Next]_vars => TruthInv'
  <2> SUFFICES ASSUME TypeOK, TypeOK', TruthInv, [Next]_vars
               PROVE  TruthInv'
    OBVIOUS
  <2> USE DEF hostVars, runVars
  <2>1. ASSUME NEW r \in Run, Step(r) PROVE TruthInv'
    <3>1. CASE Arrive(r)
      <4>1. CASE manifest = Wants[r]
        BY <3>1, <4>1
           DEF Arrive, Goto, TruthInv, TypeOK, OneUpdater, Updating, Clean,
               UpdateInv, Held, Writes, Built, Has, Served
      <4>2. CASE manifest # Wants[r]
        BY <3>1, <4>2, AsideStep DEF Arrive, Goto, Updating, Served
      <4>3. QED
        BY <4>1, <4>2
    <3>2. CASE Ask(r) \/ LookAtLock(r) \/ BreakLock(r) \/ WaitForLock(r)
                 \/ GiveUp(r)
      BY <3>2, AsideStep DEF Ask, LookAtLock, BreakLock, WaitForLock, GiveUp,
                             Goto, Updating, Served
    <3>3. CASE CreateLock(r)
      <4>1. "crowded" \notin blame' => \A q \in Run : pc[q] \notin Updating
        BY <3>3 DEF CreateLock
      <4>2. "crowded" \notin blame' => OneUpdater'
        BY <3>3, <4>1 DEF CreateLock, Goto, TypeOK, OneUpdater
      <4>3. QED
        BY <3>3, <4>2
           DEF CreateLock, Goto, TruthInv, TypeOK, Clean, UpdateInv, Held,
               Writes, Built, Has, Served
    <3>4. CASE AlreadyThere(r)
      <4>1. "crowded" \notin blame' => OneUpdater'
        BY <3>4 DEF AlreadyThere, Goto, TypeOK, OneUpdater, Updating, TruthInv
      <4>2. QED
        BY <3>4, <4>1
           DEF AlreadyThere, Goto, TruthInv, TypeOK, Clean, UpdateInv, Held,
               Writes, Built, Has, Served
    <3>5. CASE UpdateFails(r)
      BY <3>5, AsideStep DEF UpdateFails, Goto, Updating, Served
    <3>6. CASE Unlock(r) \/ HoldBusy(r)
      <4>1. "crowded" \notin blame' => OneUpdater'
        BY <3>6 DEF Unlock, HoldBusy, Goto, TypeOK, OneUpdater, Updating,
                    TruthInv
      <4>2. Clean => (pc'[r] \in Served => manifest = Wants[r] \/ pc[r] \in Served)
        BY <3>6 DEF Unlock, HoldBusy, Goto, TypeOK, TruthInv, UpdateInv, Served
      <4>3. QED
        BY <3>6, <4>1, <4>2
           DEF Unlock, HoldBusy, Goto, TruthInv, TypeOK, Clean, UpdateInv,
               Held, Writes, Built, Has, Served
    <3>8. QED
      BY <2>1, <3>1, <3>2, <3>3, <3>4, <3>5, <3>6, UpdateStep DEF Step
  <2>2. ASSUME NEW r \in Run, Finish(r) \/ Die(r) PROVE TruthInv'
    BY <2>2, AsideStep DEF Finish, Die, Goto, Updating, Served
  <2>3. ASSUME UNCHANGED <<disk, exists, built, manifest, runVars, blame>>
        PROVE  TruthInv'
    BY <2>3 DEF TruthInv, OneUpdater, Clean, UpdateInv, Held, Writes, Built, Has
  <2>4. QED
    BY <2>1, <2>2, <2>3 DEF Next, MarkerAges, LockAges, Done, vars
<1>3. QED
  BY <1>1, <1>2, HostTyping, PTL DEF Spec

\* However runs interleave, die, fail and break locks, the manifest is there
\* only when the directory and the build are what it says, unless an update
\* was offered against an older manifest or made beside another.
THEOREM ManifestsAreTrue == Spec => []ManifestIsTrue
<1>1. TruthInv => ManifestIsTrue
  BY DEF TruthInv, ManifestIsTrue, Clean, UpdateInv, Held
<1>2. QED
  BY <1>1, TruthInductive, PTL

\* A run that was told to go ahead has its version under it, unless an update
\* also began after it was told.
THEOREM RunsHaveTheirVersion == Spec => []RunsItsVersion
<1>1. TruthInv => RunsItsVersion
  <2> SUFFICES ASSUME TruthInv, NEW r \in Run, pc[r] \in Served,
                      blame \cap {"outdated", "crowded", "overtook"} = {}
               PROVE  Has(disk, Wants[r])
    BY DEF RunsItsVersion
  <2>1. manifest = Wants[r] /\ Held
    BY DEF TruthInv, Clean, UpdateInv
  <2>2. QED
    BY <2>1, BootstrapAssumption DEF Held
<1>2. QED
  BY <1>1, TruthInductive, PTL

----------------------------------------------------------------------------
(* The directory, where no update was abandoned.                           *)

Writing(r) == pc[r] \in {"writing", "built"}

\* ManifestIsExact strengthened: a directory with no manifest is being
\* updated, or is empty.
Exact ==
  /\ manifest # None => \A f \in File : disk[f] = Tree[manifest][f]
  /\ \A r \in Run : Writing(r) =>
       \A f \in File : (pc[r] = "writing" => f \notin todo[r]) =>
                         disk[f] = Tree[Wants[r]][f]
  /\ manifest = None /\ (\A r \in Run : ~ Writing(r)) =>
       \A f \in File : disk[f] = Absent

ExactInv == Clean /\ "abandoned" \notin blame => Exact

LEMMA ExactInductive == Spec => []ExactInv
<1> USE BootstrapAssumption DEF TypeOK
<1>1. Init => ExactInv
  <2> SUFFICES ASSUME Init PROVE Exact
    BY DEF ExactInv
  <2>1. manifest # None => disk = Tree[manifest] /\ manifest \in Version
    BY DEF Init
  <2>2. manifest = None => \A f \in File : disk[f] = Absent
    BY DEF Init
  <2>3. \A r \in Run : ~ Writing(r)
    BY DEF Init, Writing
  <2>4. QED
    BY <2>1, <2>2, <2>3 DEF Exact
<1>2. TypeOK /\ TruthInv /\ ExactInv /\ [Next]_vars => ExactInv'
  <2> SUFFICES ASSUME TypeOK, TruthInv, ExactInv, [Next]_vars,
                      Clean', "abandoned" \notin blame'
               PROVE  Exact'
    BY DEF ExactInv
  <2> USE DEF hostVars, runVars
  <2>1. blame \subseteq blame'
    BY DEF Next, Step, Arrive, Ask, LookAtLock, BreakLock, CreateLock,
           WaitForLock, GiveUp, AlreadyThere, Begin, WriteFile, Build,
           UpdateFails, Publish, Unlock, HoldBusy, Finish, Die, MarkerAges,
           LockAges, Done, vars
  <2>2. Clean /\ Exact
    BY <2>1 DEF ExactInv, Clean
  <2>3. OneUpdater /\ UpdateInv
    BY <2>2 DEF TruthInv, Clean
  <2>4. ASSUME UNCHANGED <<disk, manifest, todo>>,
               \A r \in Run : Writing(r)' <=> Writing(r),
               \A r \in Run : pc'[r] = "writing" <=> pc[r] = "writing"
        PROVE  Exact'
    BY <2>2, <2>4 DEF Exact, Writing
  <2>5. ASSUME NEW r \in Run, Step(r) PROVE Exact'
    <3>1. CASE Arrive(r) \/ Ask(r) \/ LookAtLock(r) \/ BreakLock(r)
                 \/ CreateLock(r) \/ WaitForLock(r) \/ GiveUp(r)
                 \/ AlreadyThere(r) \/ Unlock(r) \/ HoldBusy(r)
      BY <2>4, <3>1
         DEF Arrive, Ask, LookAtLock, BreakLock, CreateLock, WaitForLock,
             GiveUp, AlreadyThere, Unlock, HoldBusy, Goto, Writing
    <3>2. CASE Begin(r)
      <4>1. base[r] = manifest
        BY <3>2 DEF Begin, Clean
      <4>2. /\ manifest' = None /\ disk' = disk /\ pc'[r] = "writing"
            /\ todo'[r] = Deleted(manifest, Wants[r])
                            \cup Changed(manifest, Wants[r])
            /\ \A q \in Run \ {r} : pc'[q] = pc[q]
        BY <3>2, <4>1 DEF Begin, Goto
      <4>3. \A q \in Run : ~ Writing(q)
        BY <2>3, <3>2 DEF OneUpdater, Begin, Goto, Writing, Updating
      <4>4. \A f \in File : disk[f] = Listed(manifest, f)
        BY <2>2, <4>3 DEF Exact, Listed
      <4>5. \A f \in File \ todo'[r] : disk[f] = Tree[Wants[r]][f]
        BY <4>2, <4>4 DEF Deleted, Changed
      <4>6. \A q \in Run \ {r} : ~ Writing(q)'
        BY <4>2, <4>3 DEF Writing
      <4>7. QED
        BY <4>2, <4>5, <4>6 DEF Exact, Writing
    <3>3. ASSUME NEW f \in File, WriteFile(r, f) PROVE Exact'
      <4>1. Writing(r) /\ manifest = None
        BY <2>3, <3>3 DEF WriteFile, Writing, UpdateInv, Writes
      <4>2. \A q \in Run \ {r} : ~ Writing(q)
        BY <2>3, <4>1 DEF OneUpdater, Writing, Updating
      <4>3. QED
        BY <2>2, <3>3, <4>1, <4>2 DEF WriteFile, Exact, Writing
    <3>4. CASE Build(r)
      BY <2>2, <3>4 DEF Build, Goto, Exact, Writing
    <3>5. CASE UpdateFails(r)
      BY <3>5 DEF UpdateFails
    <3>6. CASE Publish(r)
      <4>1. \A f \in File : disk[f] = Tree[Wants[r]][f]
        BY <2>2, <3>6 DEF Publish, Goto, Exact, Writing
      <4>2. \A q \in Run : ~ Writing(q)'
        BY <2>3, <3>6 DEF Publish, Goto, OneUpdater, Writing, Updating
      <4>3. QED
        BY <3>6, <4>1, <4>2 DEF Publish, Exact
    <3>7. QED
      BY <2>5, <3>1, <3>2, <3>3, <3>4, <3>5, <3>6 DEF Step
  <2>6. ASSUME NEW r \in Run, Die(r) PROVE Exact'
    <3>1. pc[r] \notin Updating
      BY <2>6 DEF Die
    <3>2. QED
      BY <2>4, <2>6, <3>1 DEF Die, Writing, Updating
  <2>7. ASSUME NEW r \in Run, Finish(r) PROVE Exact'
    BY <2>4, <2>7 DEF Finish, Goto, Writing
  <2>8. CASE UNCHANGED <<disk, manifest, runVars>>
    BY <2>4, <2>8 DEF Writing
  <2>9. QED
    BY <2>5, <2>6, <2>7, <2>8 DEF Next, MarkerAges, LockAges, Done, vars
<1>3. QED
  BY <1>1, <1>2, HostTyping, TruthInductive, PTL DEF Spec

\* Where no update was abandoned either, the directory is exactly the version
\* its manifest names: nothing of an earlier version is left in it.
THEOREM ManifestsAreExact == Spec => []ManifestIsExact
<1>1. TypeOK /\ ExactInv => ManifestIsExact
  <2> SUFFICES ASSUME TypeOK, ExactInv, manifest # None,
                      blame \cap {"outdated", "crowded", "abandoned"} = {}
               PROVE  disk = Tree[manifest]
    BY DEF ManifestIsExact
  <2>1. Exact
    BY DEF ExactInv, Clean
  <2>2. disk \in [File -> Nat] /\ Tree[manifest] \in [File -> Nat]
    BY BootstrapAssumption DEF TypeOK
  <2>3. QED
    BY <2>1, <2>2 DEF Exact
<1>2. QED
  BY <1>1, HostTyping, ExactInductive, PTL

=============================================================================
