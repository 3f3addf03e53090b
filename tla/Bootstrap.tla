------------------------------ MODULE Bootstrap ------------------------------
(***************************************************************************)
(* bootstrap.py: runs of different versions of one project come to a host, *)
(* which keeps one directory for the project and brings it, file by file,  *)
(* to the version a run needs.                                             *)
(*                                                                         *)
(* A run is one connection: one process of bootstrap.main on the host, with*)
(* the main process's `offer` at the other end.  The processes share only  *)
(* files: the directory, its manifest, a lock file and the busy markers.   *)
(* Between any two of a run's looks at a file the others take steps.       *)
(*                                                                         *)
(* A manifest names a version and holds every file of it with its hash, so *)
(* it is the version; contents are their hashes, numbers, 0 for no file.   *)
(* A busy marker that is not refreshed counts for nothing, so its removal  *)
(* is not a step.  The interpreter a manifest names is never deleted.      *)
(* BOUND: a file is deleted or written in one step, in any order.          *)
(***************************************************************************)
EXTENDS Naturals

CONSTANTS
  Run,         \* the runs that come to the host
  Version,     \* the versions of the project, by their hash
  File,        \* every file any version has
  Tree,        \* Tree[v][f]: the content of f in v, Absent if it has none
  BuildInput,  \* the files whose change means a rebuild
  Wants,       \* Wants[r]: the version r needs
  Before,      \* what the host may hold at first: versions, or None
  Mortal,      \* the runs whose process may die, here or at the other end
  Ageing,      \* when a lock may be taken for abandoned, see LockAges
  None

Absent == 0

ASSUME BootstrapAssumption ==
  /\ Tree \in [Version -> [File -> Nat]]
  /\ BuildInput \subseteq File
  /\ Wants \in [Run -> Version]
  /\ Before \subseteq Version \cup {None}
  /\ Mortal \subseteq Run
  /\ Ageing \in {"never", "abandoned", "any"}
  /\ None \notin Version \cup [BuildInput -> Nat]

VARIABLES
  disk,      \* disk[f]: the content of f in the directory
  exists,    \* whether there is a directory
  built,     \* the build inputs the environment was last built from
  manifest,  \* the version the manifest names, None if there is none
  lock,      \* the lock file: "free", "held", or "stale" for an old one
  markers,   \* the runs with a busy marker that is refreshed
  pc,        \* where each run is
  base,      \* base[r]: the manifest r saw when it arrived
  todo,      \* todo[r]: the files r has still to delete or write
  rebuild,   \* rebuild[r]: whether r's update rebuilds the project
  blame      \* HISTORY: what has happened that an update is not proof against

hostVars == <<disk, exists, built, manifest, lock, markers>>
runVars  == <<pc, base, todo, rebuild>>
vars     == <<hostVars, runVars, blame>>

Updating == {"deciding", "writing", "built", "unlocking", "failing"}
Served   == {"granted", "running"}
Decided  == {"running", "refused", "ended", "dead"}
PC == Updating \cup Served \cup Decided \cup
        {"arriving", "asking", "locking", "breaking", "creating"}
Blame == {"outdated", "crowded", "overtook", "abandoned"}

TypeOK ==
  /\ disk \in [File -> Nat]
  /\ exists \in BOOLEAN
  /\ built \in [BuildInput -> Nat] \cup {None}
  /\ manifest \in Version \cup {None}
  /\ lock \in {"free", "held", "stale"}
  /\ markers \subseteq Run
  /\ pc \in [Run -> PC]
  /\ base \in [Run -> Version \cup {None}]
  /\ todo \in [Run -> SUBSET File]
  /\ rebuild \in [Run -> BOOLEAN]
  /\ blame \subseteq Blame

\* MUTANT: the build is remembered by every file.
InputsOfAll(content) == content

\* The contents a build depends on.
Inputs(content) == [f \in BuildInput |-> content[f]]

Init ==
  /\ manifest \in Before
  /\ exists = (manifest # None)
  /\ disk = IF exists THEN Tree[manifest] ELSE [f \in File |-> Absent]
  /\ built = IF exists THEN Inputs(disk) ELSE None
  /\ lock = "free"
  /\ markers = {}
  /\ pc = [r \in Run |-> "arriving"]
  /\ base = [r \in Run |-> None]
  /\ todo = [r \in Run |-> {}]
  /\ rebuild = [r \in Run |-> FALSE]
  /\ blame = {}

----------------------------------------------------------------------------
(* What is to be done.                                                     *)

\* The files manifest m lists.
Listed(m, f) == IF m = None THEN Absent ELSE Tree[m][f]

\* MUTANT: nothing is ever deleted.
DeletedNone(m, v) == {}

\* offer: the files to delete and to send, against the host's manifest.
Deleted(m, v) == {f \in File : Listed(m, f) # Absent /\ Tree[v][f] = Absent}
Changed(m, v) ==
  {f \in File : Tree[v][f] # Absent /\ Listed(m, f) # Tree[v][f]}

\* MUTANT: no manifest is taken for a first install.
RebuildsIfKnown(r) ==
  /\ exists /\ manifest # None
  /\ BuildInput \cap (Changed(manifest, Wants[r])
                         \cup Deleted(base[r], Wants[r])) # {}

\* _prepare: what the manifest held is compared, and the files deleted are
\* the main process's list.  The first install builds everything.
Rebuilds(r) ==
  /\ exists
  /\ \/ manifest = None
     \/ BuildInput \cap (Changed(manifest, Wants[r])
                           \cup Deleted(base[r], Wants[r])) # {}

Goto(r, from, to) ==
  /\ pc[r] = from
  /\ pc' = [pc EXCEPT ![r] = to]

----------------------------------------------------------------------------
(* main: the version is compared, then the busy markers are looked at.     *)

Arrive(r) ==
  /\ Goto(r, "arriving", IF manifest = Wants[r] THEN "granted" ELSE "asking")
  /\ base' = [base EXCEPT ![r] = manifest]
  /\ UNCHANGED <<hostVars, todo, rebuild, blame>>

Ask(r) ==
  /\ Goto(r, "asking", IF markers # {} THEN "refused" ELSE "locking")
  /\ UNCHANGED <<hostVars, base, todo, rebuild, blame>>

----------------------------------------------------------------------------
(* _take_lock: the age of the lock, its removal and its creation are three *)
(* looks at the file.                                                      *)

LookAtLock(r) ==
  /\ Goto(r, "locking", IF lock = "stale" THEN "breaking" ELSE "creating")
  /\ UNCHANGED <<hostVars, base, todo, rebuild, blame>>

BreakLock(r) ==
  /\ Goto(r, "breaking", "creating")
  /\ lock' = "free"
  /\ UNCHANGED <<disk, exists, built, manifest, markers, base, todo, rebuild,
                 blame>>

CreateLock(r) ==
  /\ Goto(r, "creating", "deciding")
  /\ lock = "free"
  /\ lock' = "held"
  /\ blame' = blame \cup
       (IF \E q \in Run : pc[q] \in Updating THEN {"crowded"} ELSE {})
  /\ UNCHANGED <<disk, exists, built, manifest, markers, base, todo, rebuild>>

WaitForLock(r) ==
  /\ Goto(r, "creating", "locking")
  /\ lock # "free"
  /\ UNCHANGED <<hostVars, base, todo, rebuild, blame>>

\* MUTANT: the wait has no deadline.
GiveUpNever(r) == FALSE /\ UNCHANGED vars

GiveUp(r) ==
  /\ Goto(r, "creating", "refused")
  /\ lock # "free"
  /\ UNCHANGED <<hostVars, base, todo, rebuild, blame>>

----------------------------------------------------------------------------
(* _prepare, under the lock.                                               *)

\* MUTANT: the old manifest stays until the new one is written.
BeginKeepsManifest(r) ==
  /\ manifest # Wants[r]
  /\ Goto(r, "deciding", "writing")
  /\ todo' = [todo EXCEPT ![r] = Deleted(base[r], Wants[r])
                                   \cup Changed(base[r], Wants[r])]
  /\ rebuild' = [rebuild EXCEPT ![r] = Rebuilds(r)]
  /\ blame' = blame
       \cup (IF base[r] # manifest THEN {"outdated"} ELSE {})
       \cup (IF \E q \in Run : pc[q] \in Served THEN {"overtook"} ELSE {})
  /\ UNCHANGED <<disk, exists, built, manifest, lock, markers, base>>

\* Another run's update produced this version meanwhile.
AlreadyThere(r) ==
  /\ manifest = Wants[r]
  /\ Goto(r, "deciding", "unlocking")
  /\ UNCHANGED <<hostVars, base, todo, rebuild, blame>>

\* The manifest goes, and what to do is what was offered: the difference
\* from the manifest the run saw when it arrived.
Begin(r) ==
  /\ manifest # Wants[r]
  /\ Goto(r, "deciding", "writing")
  /\ manifest' = None
  /\ todo' = [todo EXCEPT ![r] = Deleted(base[r], Wants[r])
                                   \cup Changed(base[r], Wants[r])]
  /\ rebuild' = [rebuild EXCEPT ![r] = Rebuilds(r)]
  /\ blame' = blame
       \cup (IF base[r] # manifest THEN {"outdated"} ELSE {})
       \cup (IF \E q \in Run : pc[q] \in Served THEN {"overtook"} ELSE {})
  /\ UNCHANGED <<disk, exists, built, lock, markers, base>>

\* _delete and _extract.
WriteFile(r, f) ==
  /\ pc[r] = "writing" /\ f \in todo[r]
  /\ disk' = [disk EXCEPT ![f] = Tree[Wants[r]][f]]
  /\ exists' = TRUE
  /\ todo' = [todo EXCEPT ![r] = @ \ {f}]
  /\ UNCHANGED <<built, manifest, lock, markers, pc, base, rebuild, blame>>

\* _build_environment: the lock tool builds what there is no build of, and
\* rebuilds when told to.
Build(r) ==
  /\ todo[r] = {}
  /\ Goto(r, "writing", "built")
  /\ exists' = TRUE
  /\ built' = IF rebuild[r] \/ built = None THEN Inputs(disk) ELSE built
  /\ UNCHANGED <<disk, manifest, lock, markers, base, todo, rebuild, blame>>

\* A full disk, a tool that is missing or fails: the tree stays as it is.
UpdateFails(r) ==
  /\ Goto(r, "writing", "failing")
  /\ blame' = blame \cup {"abandoned"}
  /\ UNCHANGED <<hostVars, base, todo, rebuild>>

Publish(r) ==
  /\ Goto(r, "built", "unlocking")
  /\ manifest' = Wants[r]
  /\ UNCHANGED <<disk, exists, built, lock, markers, base, todo, rebuild,
                 blame>>

\* The lock file is removed, whoever made the one that is there.
Unlock(r) ==
  /\ \/ Goto(r, "unlocking", "granted")
     \/ Goto(r, "failing", "refused")
  /\ lock' = "free"
  /\ UNCHANGED <<disk, exists, built, manifest, markers, base, todo, rebuild,
                 blame>>

----------------------------------------------------------------------------
(* main: the run is told, marks the directory busy, and runs.              *)

HoldBusy(r) ==
  /\ Goto(r, "granted", "running")
  /\ markers' = markers \cup {r}
  /\ UNCHANGED <<disk, exists, built, manifest, lock, base, todo, rebuild,
                 blame>>

Finish(r) ==
  /\ Goto(r, "running", "ended")
  /\ markers' = markers \ {r}
  /\ UNCHANGED <<disk, exists, built, manifest, lock, base, todo, rebuild,
                 blame>>

\* The process goes, its files stay; a main process that goes before it has
\* sent its difference ends the bootstrap in the same way.
Die(r) ==
  /\ r \in Mortal
  /\ pc[r] \notin {"refused", "ended", "dead"}
  /\ pc' = [pc EXCEPT ![r] = "dead"]
  /\ blame' = IF pc[r] \in Updating THEN blame \cup {"abandoned"} ELSE blame
  /\ UNCHANGED <<hostVars, base, todo, rebuild>>

\* A minute without a refresh.
MarkerAges(r) ==
  /\ pc[r] = "dead" /\ r \in markers
  /\ markers' = markers \ {r}
  /\ UNCHANGED <<disk, exists, built, manifest, lock, runVars, blame>>

\* An hour since the lock was made: because its run died, or, with Ageing =
\* "any", because its build took that long.
LockAges ==
  /\ lock = "held"
  /\ \/ Ageing = "any"
     \/ Ageing = "abandoned" /\ \A r \in Run : pc[r] \notin Updating
  /\ lock' = "stale"
  /\ UNCHANGED <<disk, exists, built, manifest, markers, runVars, blame>>

Done ==
  /\ \A r \in Run : pc[r] \in {"refused", "ended", "dead"}
  /\ UNCHANGED vars

\* What a run does of itself until the host has decided about it.
Step(r) ==
  \/ Arrive(r) \/ Ask(r)
  \/ LookAtLock(r) \/ BreakLock(r)
  \/ CreateLock(r) \/ WaitForLock(r) \/ GiveUp(r)
  \/ AlreadyThere(r) \/ Begin(r)
  \/ \E f \in File : WriteFile(r, f)
  \/ Build(r) \/ UpdateFails(r) \/ Publish(r) \/ Unlock(r)
  \/ HoldBusy(r)

Next ==
  \/ \E r \in Run : Step(r) \/ Finish(r) \/ Die(r) \/ MarkerAges(r)
  \/ LockAges
  \/ Done

Spec == Init /\ [][Next]_vars

\* A run's process runs, the files and the build take finite time, and a
\* wait for the lock reaches its deadline.
FairSpec ==
  Spec /\ \A r \in Run : WF_vars(Step(r)) /\ SF_vars(GiveUp(r))

----------------------------------------------------------------------------
(* What holds of it.                                                       *)

\* Every file of v has its content in c.
Has(c, v) == \A f \in DOMAIN c : Tree[v][f] # Absent => c[f] = Tree[v][f]

\* The manifest is only there when all it says is: the directory has every
\* file of the version it names, and the environment was built from that
\* version's build inputs.  A death or a failure at any point of an update,
\* and any number of updates after it, keep it so; only an update offered
\* against an older manifest, or made beside another, does not.
ManifestIsTrue ==
  manifest # None /\ blame \cap {"outdated", "crowded"} = {} =>
    Has(disk, manifest) /\ built # None /\ Has(built, manifest)

\* Where no update was abandoned either, the directory is the version: no
\* file of an earlier one is left in it to be imported.
ManifestIsExact ==
  manifest # None /\ blame \cap {"outdated", "crowded", "abandoned"} = {} =>
    disk = Tree[manifest]

\* A run that has been told to go ahead has all of its version under it for
\* as long as it runs, unless an update began after the run was told, by one
\* that had looked for markers before.
RunsItsVersion ==
  blame \cap {"outdated", "crowded", "overtook"} = {} =>
    \A r \in Run : pc[r] \in Served => Has(disk, Wants[r])

\* Every run comes to an answer: it runs, it is refused, or it dies.
EveryRunDecided == \A r \in Run : <>(pc[r] \in Decided)

----------------------------------------------------------------------------
(* What the documentation says of it, and TLC refutes; the first two by    *)
(* hand (README).                                                          *)

\* bootstrap.py:542-544: an update "Holds the project's lock throughout. A
\* main process that finds the lock held by another waits".
OneUpdater ==
  \A q, r \in Run : pc[q] \in Updating /\ pc[r] \in Updating => q = r

\* remote-execution.md:134-137: while a run's marker is there, a run wanting
\* a different version is refused "rather than updating the directory under
\* a running batch".
NoUpdateUnderARun ==
  [][\A r \in Run :
       (pc[r] = "running" /\ pc'[r] = "running") => UNCHANGED disk]_vars

\* remote-execution.md:128-129: the manifest "names the project hash it holds
\* and every file's hash".  No run; README, Refuted by hand.
ManifestHolds == manifest # None => Has(disk, manifest)

=============================================================================
