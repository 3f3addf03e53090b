# valuekit, modelled

valuekit memoises pure Python functions in a store of values, and runs a
function over many inputs in parallel, on this machine and on remote hosts it
reaches through ssh and keeps in step with the project's source. This directory
holds TLA+ modules that model parts of it, TLC configurations that check them
on small instances, and proofs, checked by TLAPS, of what holds for every size.
Paths below are relative to `src/valuekit/` unless they start with `src/`.

## 1. Inventory

| component | source | state it keeps | operations | modelled by |
|---|---|---|---|---|
| Scheduler | `parallel.py` | the queue of inputs, running tasks, tasks per host, requeued inputs, results | `run_all`, `_Hosts` | `Batch`, `BatchPromise`; what it notes, `RunLog`; what it reports, `Monitor` |
| Modes | `modes.py` | none | `capacities` | `Modes` |
| Host connection | `hosts.py` | host state, connection, channels; a handle's buffer, result, exit | `sync`, `_launch`, `_read`, `start`, `close`, `feed` | `Hosts`, `Batch` (handle abstracted), `Channel` (the handle) |
| Host process | `hostprocess.py` | a worker per channel | `serve`, `_kill` | `Channel` |
| Worker, protocol | `worker.py`, `remotestore.py`, `protocol.py` | the objects each side has sent, an outstanding request | handshake, requests, result | `Channel` |
| Bootstrap | `bootstrap.py` | on the host: the tree, manifest, lock, busy markers, environments | `offer`, `main` | `Bootstrap` |
| Memoised call | `pure.py`, `recording.py`, `map.py` | a stack of frames, recorded dependencies, records | the wrapper, `_match`, `_take` | `Facts`, `Memo`; logs and notes, `RunLog` |
| Store | `store.py` | objects and call records in files | `put_value`, `get_value`, `put_record`, `clear` | `Store` |
| Run log | `runlog.py` | a directory per run, a cache of what was read | `_begin`, `emit`, `refer`, `refresh` | `RunLog` |
| Event log, monitor | `events.py`, `monitor.py` | event files, counters | `record`, `apply`, `poll` | `Monitor` |
| Local file | `localfile.py` | the mode line | `load_local`, `write_mode` | no: a parser; its result is a choice in `Batch` and `Monitor` |
| Function hash | `functionhash.py` | what a walk has seen, the hasher, the spans | `reachable_set`, `_Walker` | `FunctionHash`; elsewhere a function's hash is the function |
| Debug hook | `debughook.py` | breakpoints | `breakpoints_force` | `FunctionHash`; a choice in `Batch`, `Memo` and `RunLog` |
| Values, codec | `values.py`, `codec.py`, `plaindata.py` | none | conversions | no: formats |
| Project, build | `project.py`, `build.py` | none | walks, packaging | no: input and output |

**How they interact.** `run_all` runs on the caller's thread. It makes one
`Host` for this machine and one for each line of the local file; each remote
host is synced on its own thread (ssh, bootstrap, a check of the function), and
a reader thread per connection passes messages to the scheduler through one
queue. A worker's requests (values, records, `@pure_local` calls) come back over
the same channel and are served on the scheduler's thread or a pool. Memoised
calls, here and in workers, read and write the store; what a call depended on is
collected on a stack of frames. Everything reports to the event log, which the
monitor reads from another process.

**What is hard.** Threads share a host's state with no lock: the scheduler acts
on states the sync and reader threads change under it. Connections drop at any
point, and the tasks on them must each be put back once. A failure or an
interrupt in the middle of a turn must leave nothing running. Several runs
update one host's source tree. The store may be deleted at any moment. A
recorded dependency must be all that a result depended on. Two sides of a
connection each keep a set of what the other has, and must never be wrong. What
was logged by a call that is served must be found through records that may go.

**What makes each part correct.**

- Scheduler: no input lost or run twice at once; at most one more start, after
  a loss; no host over its workers; a returned batch is complete, a raised one
  names the one failure; the batch ends; nothing outlives it.
- Host connection: a ready host is connected and read; no task on a host not
  yet synced.
- Channel: a reply answers the request it was for; no object crosses twice and
  none is referred to before it crossed; a kill always reaches its worker.
- Bootstrap: a run never executes on a tree other than the one it offered; the
  manifest never claims a file the tree does not have.
- Memo: a served result is the one a call would compute; a call's dependencies
  contain those of the calls it made.
- Store: a record is served only with its whole value; `clear` only costs time.
- Run log: a log reads as if its script had run from scratch.
- Monitor: what it shows is what the run does, and does next.
- Function hash: two definitions that may return different results have different
  hashes; one definition has one hash; a breakpoint in anything reached is met.

## 2. Plan

1. `Modes`, `Hosts`, `Batch`, `BatchPromise`, with proofs: done (3).
2. `Bootstrap`: several runs of different versions, the manifest, the lock and
   its staleness, busy markers, crashes, with proofs: done (4).
3. `Facts`, `Memo`: calls, frames and records, with proofs: done (5).
4. `Channel`: handle, host process and worker on one connection: done (6).
5. `Store`: processes, clears and crashes over files, with proofs: done (7).
6. `RunLog` and `Monitor`: what incremental readers know of what was written:
   done (8, 9).
7. `FunctionHash`: the walk over an edited program: done (10).

Left: proofs for `RunLog`, which expands records by recursion over their nesting, so
that its invariants are inductions over data; `Memo` over `Store`, with a clear
between any two steps of a match; two sync threads for one host (a second
connection over the first).

Proofs follow each module: its type invariant, then the safety invariant that
carries the component's promise, then the step simulation of its abstract
specification. Those of `Batch`, `Bootstrap`, `Memo`, `Channel`, `Store`, `Monitor` and
`FunctionHash` are done.

What a document or a comment says and the code does not do is either a run that
is expected to fail, where it concerns the module's main promise, or in section
11, with the state of affairs that shows it.

## 3. The batch

### State and actions

| TLA+ | code |
|---|---|
| `state`, `sync`, `link`, `reader` | `Host.state`; the point `Host.sync` has reached; `Host._connection`; the thread in `Host._read` |
| `pc` | where `run_all` is: `begin`/`served` serving the cache, `hosts` making them, `poll`, `caps`, `start`, `deliver`, `collect` one turn, `closing` the finally, `debugged` the sequential run |
| `mode`, `caps` | the mode in force, what `capacities` returned this turn |
| `pending`, `at`, `busy`, `requeued` | the deque, the running tasks by input, the two dictionaries of `run_all` |
| `posted`, `heard` | what is in the completions queue for an input's handle, what the handle has been fed |
| `outcome`, `verdict` | `results` and the failure raised |
| `starts` | history: how often an input was started |

`Hosts` has the sync thread (`SyncBegins` ... `SyncReady`), the connection
(`Drop`) and the reader (`ReaderEnds`, `ReaderSwept`). `Batch` has the scheduler,
one action per step between which another thread can act: the reading of the
mode (`Poll`), of the states (`TakeCaps`), each start (`StartTask`), draining the
queue (`Deliver`), settling one finished task (`CollectValue`, `CollectLost`,
`CollectFailed`, `Expire`), the direct run (`RunHere`) and the finally (`Close`).
`BatchPromise` is what a caller is promised, with no hosts in it.

### What is abstracted

- A value, a message and a failure's text are not represented. A handle hears
  the first thing that decides it: `value`, `failed` (an exception, an exit, a
  protocol error) or `lost` (the channel closed with no exit report).
- Remote hosts are filled in any order, and finished tasks are settled in any
  order; the code's orders are among these. This machine is filled last.
- A connection drops after what it delivered has been read; a message read
  after the drop is the same as one read before it.
- What the cache holds is a choice. What a batch notes in an enclosing call is
  left to `RunLog`, what it writes for the monitor to `Monitor`.
- `AwaitSync` drains a queue that holds nothing for a live handle.

**Bounds.** `N` inputs (3 and 2 in the runs); one remote host, as the state of
another is as independent of the first's as this machine's is; two workers on
one host, so that one turn starts several tasks on it and fills the other; one drop per connection, as a host connects once; one
sync thread per host (the code can start a second while the first has not run;
not modelled). An exception while `_Hosts` is being constructed is in `Monitor`
only. Three inputs are enough for a loss of two tasks together with one in the
queue.

**Fairness** (`FairSpec`). The scheduler, sync and reader threads run: threads
are scheduled by the operating system and none waits on another for ever (the
check of a sync has its own limit, `_CHECK_TIMEOUT`; ssh and the bootstrap are
taken to fail or to finish). `Expire` has strong fairness, since it is possible
only in the part of each turn where a task is looked at: time passes, and an
expired task is met at the next look. Nothing makes a connection drop.
`AnsweringSpec` adds that a worker whose connection lives answers.

### What the runs show

| run | instance | result |
|---|---|---|
| `batch` | 3 inputs, any of which may be cached and one cannot be sent; this machine and one remote host, either connection may drop; all modes, a timeout, workers that may never answer | every safety invariant holds, `Batch` implements `BatchPromise`, and the batch ends |
| `batch_hang` | 2 inputs, drops, no timeout, workers that answer | refuted: an input on a lost host is not run again |

The last states what the README of the repository says and is violated by what
the code does (PROJECT.json quotes it): the reader's last sweep against a start
(`hosts.py:537`, `parallel.py:398`). `batch_hang` is stated of the
behaviours in which every ready host has its reader: a host that its sync makes
ready after its connection closed (`hosts.py:605`) is another way to the same
end, and is excluded from it.

### What is proved

`BatchProofs` proves, for any finite number of inputs, any set of hosts and any
capacities, from `BatchAssumption`, `LocalIsNotRemote` and `LossyAreHosts`:

- `Typing`: the type invariant.
- `InputsKept`, `StartsBounded`, `VerdictsRight`: `NoInputLost`,
  `StartedAgainOnlyAfterLoss` and `VerdictIsRight`, from one inductive invariant,
  `IInv`. `NoInputLost` is not inductive alone: that a settled input stays
  settled needs to know how far the batch is (`BeforeLoop`, `EndState`), and the
  bound on starts needs that what is queued has a start left (`StartsLeft`). Its
  steps are grouped by what they do to the inputs (a quiet step, a settlement, an
  ending, a start, a requeue, a listing), one lemma for each.
- `PromiseIsKept`: `Batch` implements `BatchPromise`, each group of steps mapping
  to one abstract action or a stutter.
- `BusyBounded`: `BusyWithinWorkers`, from `CountInv`, which ties the counter to
  the cardinality of the set of tasks and the capacities to the workers.
- `TasksAreOnSyncedHosts`: `TasksOnSyncedHosts`, from `SyncInv`, which says that a
  host that ever had capacity has ended its sync, and that being synced is never
  undone.
- `TasksEndWithBatch`: `NoTaskOutlivesBatch`, in two parts. The steps that end a batch
  come before there are tasks, or close every host (`EndsClosed`). The threads that
  go on after it may still connect a host, but none that has a task: `SyncInv` says
  that its sync is over (`StaysClosed`).

Model-checked only: the liveness properties (temporal reasoning under fairness
and `ENABLED` is out of the prover's reach).

## 4. The bootstrap

### State and actions

| TLA+ | code |
|---|---|
| `disk`, `exists` | the project's directory: the content of each file, and whether it is there |
| `built` | the build inputs the environment in it was last built from |
| `manifest` | the manifest beside it, by the version it names |
| `lock`, `markers` | the lock file, and the busy markers that are being refreshed |
| `pc` | where each run is in `main` and `_prepare` |
| `base` | the manifest its main process computed the difference from |
| `todo`, `rebuild` | the files still to delete or write; whether the project is rebuilt |
| `blame` | history, below |

A run is one connection: `bootstrap.main` on the host with `offer` at the other
end. `Arrive` and `Ask` are its first two looks at the host; `LookAtLock`,
`BreakLock`, `CreateLock`, `WaitForLock` and `GiveUp` are `_take_lock`, one action
for each look at the lock file; `AlreadyThere`, `Begin`, `WriteFile`, `Build`,
`UpdateFails`, `Publish` and `Unlock` are `_prepare`; `HoldBusy` and `Finish` are
the rest of `main`. `Die` is a process that goes, `MarkerAges` and `LockAges` are
time passing over what it left.

`blame` records what an update is not proof against, so that the invariants can
say what holds without it: `outdated`, an update whose difference was computed
from another manifest than the one it found under the lock; `crowded`, an update
begun beside another; `overtook`, an update begun after a run was told to go
ahead; and, for `ManifestIsExact` alone, `abandoned`, an update that failed or
died. Section 11 shows that the first three do happen; the invariants say that
nothing else goes wrong, whatever dies or fails.

### What is abstracted

- Contents are their hashes, and a version is its manifest. A file is written or
  deleted in one step, and deletions and writes come in any order; the code's
  order, deletions first, is among these.
- The build either succeeds, and the environment then reflects the build inputs
  as they are, or changes nothing. A failed build leaves no manifest, so the next
  update rebuilds in either case.
- A connection that ends before the difference is sent is a death of the run.
- The interpreter a manifest names exists, and nobody else touches the directory.
- The main process's tree does not change between its listing and its packing.
- Deaths of a run's process leave its lock and marker; a marker that is not
  refreshed counts for nothing and its removal has no effect.

**Bounds.** Three runs, two of which want one version (so that a wait can end in
`AlreadyThere`) and one another; three files: a source, a build input, and a
source one version drops. `Before` is an older version or nothing. One run is
mortal: two deaths add no new kind of leftover, since a lock is one file.
`Ageing` is when a lock may be taken for abandoned: in the run, once no run
updates. `any` would include a build that takes more than an hour; the theorems
below are for every `Ageing`, but for `UpdatesExclude`.

**Fairness** (`FairSpec`). A run's process runs, the files and the build take
finite time, and a run that waits gives up at its deadline. `GiveUp` has strong
fairness since it is only possible in the part of each turn of the wait where
the lock was found; ten minutes pass, and the next such turn ends the wait.
`Finish`, `Die` and the ageing have none.

### What the run shows

| run | instance | result |
|---|---|---|
| `bootstrap` | 3 runs, 3 files, one may die, a lock ages once it is abandoned | every invariant holds, and every run comes to an answer |

### What is proved

`BootstrapProofs` proves, for any sets of runs, versions and files, from
`BootstrapAssumption`:

- `HostTyping`: the type invariant.
- `UpdatesExclude`: `OneUpdater`, where `Ageing = "never"`. `LockInv` adds that a
  run that updates holds the lock and that none is about to break it.
- `ManifestsAreTrue`, `RunsHaveTheirVersion`: from `TruthInv`, which says what each
  point of an update has established: a run that writes has no manifest beside
  it, has every file it need not write any more, and has a build that is right
  or will be replaced (`Writes`); after its build it has everything (`Built`). That
  no rebuild is skipped wrongly (`BeginWrites`) needs that there is no build
  where there is no directory, and that the old manifest was itself true.
- `ManifestsAreExact`: from `ExactInv`, that files outside `todo` are those of the
  version being written, or of the manifest if there is one.

Model-checked only: `EveryRunDecided`.

## 5. The memoised call

### State and actions

`Facts` is `recording.py` and the matching half of `pure.py`, as operators: a value
is a tree, a read of it yields facts, `Put` and `Finalize` are the recorder's, and
`HoldsOf` is `_match_map`. `Memo` is the calls.

| TLA+ | code |
|---|---|
| `records` | the call records in the store, by function, dependencies and result |
| `stack[a]` | the chain of `_Frame`s of an actor (a thread or a process), with the recorder of each |
| `blind` | history: the records of calls that learned what their facts do not say |

A memoised function is a program: at each location (`Does`) a read, a call, a
return or a raise, and where to go on each reply (`Then`). `Means` says what a run
from a location comes to; `Purity` is the equation it satisfies, which is the
contract of `@pure`. `Read` is a read through a `RecordingMap`; `Hit`, `Miss` and
`RunForced` are the three ways the wrapper goes at a call, `NoArgument` the one where
its argument cannot be read; `Return`, `Raise` and `Unwind` end calls; `Lose` is
the store losing a file.

`knows`, in a frame, is history: everything the call has learned, recorded or not.
It exceeds the facts in two places. A sub-map that is taken (`m["a"]`) and not
looked into is not recorded. And an inner call that is a hit on a record holding
the whole of its map has compared that map's digest without the outer recorder
seeing it; the outer record then has nothing of that map (`memo_stale`).
`RecordsAreSound` says that these are the only ways a wrong result is served.

### What is abstracted

- A value's digest is the value. A read along a path is one step, and reads that
  fail for want of a key or of a map give one reply.
- What an inner call observes reaches the calls around it when it ends. The
  recorders are not read before, and no frame goes away under an inner one.
- One argument. Another only adds its own dependency to the record, checked apart.
- A record whose value is gone is a call that runs (`Miss`), at any time: the
  store may lose any value.
- Records that fail are matched by their shortest paths first; those failing at
  one length are all taken as read (`Tried`).
- A forced call may return anything.
- Derived maps: deriving reads the whole map and yields a plain one, so it is a
  `whole` read here. Notes and logs of calls are left to `RunLog`, `@pure_local`
  calls from a worker to `Channel`.

**Bounds.** Two actors, an outer and an inner function, four keys, seven values
with one level of nesting; the outermost calls are made on five. The inner
function reads one key and then all of its map, so that both kinds of record
exist and both ways of being blind are taken. Soundness quantifies over all the
values, not only those that calls were made on.

### What the runs show

| run | instance | result |
|---|---|---|
| `memo` | two actors, losses, raises, interrupts, a debugger | every invariant holds |
| `memo_stale` | one actor, no debugger | refuted: every record is sound |

### What is proved

`MemoProofs` proves all four properties of `memo` for any keys,
values, functions, programs and actors, from `FactsAssumption` (a value leads
through maps to what it leads to), `PartsAssumption` (what is in a value is a
value) and `Purity`:

- `ReadReplies`: what a read observes and learns decides its reply. It rests on
  lemmas about walks: where a path ends in nothing, the
  first key that is missing was asked for and is recorded (`NothingIsSame`); a
  leaf on the way is recorded with its value (`LeafIsSame`).
- `MemoTyping`, `RecordsSound`, `CallsKeepCourse`, `RecordsAreTrue`: the invariants,
  from `IInv`. `RecordsAreSound` is not inductive: a record is made of what a frame
  has learned, so a frame must be `Good`: on every value of which that holds, and
  not only on its argument, the rest of its program comes to what the function
  comes to (`Steady`). That a reply keeps it so, where the reply is an inner call's
  result, needs the two frames to be `Linked`: the inner one's argument is where
  the outer one says, and the outer one knows what leads there. A discarded
  frame is excepted, and discarding an inner one discards the outer ones.

`HitStacked` and `LeaveStacked` are the heart of it. Both are `AnsweredStacked`: a
call answered by a record and one answered by its end differ only in whose facts
(`AtHolds` carries them out to the frame around) say what the reply depends on.

## 6. The channel

### State and actions

| TLA+ | code |
|---|---|
| `main`, `verdict`, `outcome` | where the batch is, the exception that serving a message raised, what each task's end was taken to be |
| `sched`, `pool` | the frames the scheduler's thread, or a pool thread, is in the middle of writing |
| `handle[c]` | `_Handle`: the objects it has, those the worker is known to have (`seen`), its result, exit and pending `@pure_local` call |
| `conn`, `down`, `inbox` | the connection, its frames to the host, and what the reader has queued |
| `hostp`, `stdin`, `stdout` | `hostprocess.serve`'s table of workers, and their pipes |
| `worker[c]` | `worker.serve` and its `RemoteStore`: where it is, the objects it has, its request |
| `store`, `records` | objects and records in the main process's store |

A value is the graph of its objects, so that `Packed` and `Resolves`, which are
`pack` and `unpack`, say exactly what crosses and what can be rebuilt. The handle's
actions are the messages it is fed (`FeedObject`, `FeedResult`, `FeedGet`, `FeedCall`,
`FeedRecord`, `FeedExit`), the pool's call (`RunCall`, `RunCallFails`), and what the
scheduler does with it (`Start`, `Collect`, `Expire`, `Finish`). The host process has
one action for each kind of frame its loop takes (`HostOpens`, `HostWrites`,
`HostCloses`, `HostKills`, `HostEnds`) and its forwarders (`Forward`, `ForwardExit`). A
worker reads its handshake, objects and task, then asks, records, calls, returns
or raises in any order, and may crash, hang or print anywhere in its function
(`PrintsOut`): its standard output is the protocol's.

**Abstractions.** A message arrives whole. `GET_RECORDS` is an exchange like
`GET_VALUE` that carries no objects; the check worker, events and logged values
are left out. The scheduler serves one message of one handle at a time; what it
does between is in `Batch`. `Clear` is one step here; `Store` has its files.

**Bounds.** One channel: channels share only the connection and the host
process's loop, and a second gives the properties nothing but more
interleavings. A pipe of one message, so that a write that must wait does; one
request of each task, at any point; one clear. Four objects in a graph that
shares: the input, a value in the store made of it, a leaf only the worker makes,
and a result made of the last two. Workers that use the store directory
themselves and workers that do not.

**Fairness** (`FairSpec`). Each thread and process runs: the scheduler's loop and
its writes, the pool, the reader, the host process, the forwarders, and a worker
outside the function it runs. Within it, it may hang or never return; nothing
makes a connection drop or a deadline pass.

| run | instance | result |
|---|---|---|
| `channel` | as above, prints of both kinds, calls a breakpoint forces or not; 2.4 million states, 40 to 105 seconds | every invariant holds |
| `channel_ends` | no clear, no direct workers, prints of the first kind; 0.4 million states, under 3 minutes | every request is answered or its worker ends; a worker killed, or left when the batch ends, ends |

What a function prints is taken for the header of a message too long to be one
(`huge`), or for the start of a message whose rest is yet to come (`more`);
`OutcomeIsTrue` excepts a task whose function printed, and section 11 says what
happens to it.

`CrossesOnce` and `NamedIsRebuilt` pull against each other: leaving out too little
breaks the first, too much the second; the handle and the worker decide it from
sets that two threads fill. `OutcomeIsTrue` is about three reports (result,
exit, loss of the connection) that reach the scheduler in any order.

`RecordsAreWhole` and `NothingEscapes` except a store that was cleared, and, by the
history variable `forced`, a `@pure_local` call that a breakpoint forced: its value
goes to the worker and not into the store (section 11).

### What is proved

`ChannelProofs` proves, for any number of channels over one connection, any
acyclic graph of objects, any pipes and any bounds, from `KidsAreBelow` and
`Given`:

- `ChannelTyping`: the type invariant, of every message in every queue and pipe. It
  rests on lemmas about the graph, proved by the well-founded order of the objects:
  what `Under` collects is closed but for where it stops, `Packed` is a sequence of
  objects, and what `Resolves` finds is in the graph.
- `OutcomeHolds`: `OutcomeIsTrue`, from `Truth(c)` of every channel. A result in
  flight is what the worker said (`Word`); one it said is in its pipe, in the inbox
  or with the handle, unless the connection or the worker ended first (`OnItsWay`);
  its exit is queued behind all that it wrote (`EndsLast`), which needs that a
  channel is opened only once (`OpensOnce`), or a frame still on its way would open
  it again.
- `RecordsHold`, `NothingEscapesHolds`: `RecordsAreWhole` and `NothingEscapes`, from
  `AllWhole`. The worker leaves out of a message what it sent or received, so what
  it has must be in the store, or ahead of that message on its way up: `HeardWhole`
  says it of everything between the worker's writes and the handle, joined into one
  stream (`ToMain`), and `SentIsStored` that what goes down was in the store
  first. Both are kept while a stream moves from queue to queue because joining is
  associative, and its head is fed because what it names is made only of what
  precedes it (`Carries`). `Fresh` says that what was not started holds nothing. The
  messages of a worker that printed are not read any more (`Parses`), and need
  nothing.

`ChannelTalkProofs` proves the rest, from the same assumptions:

- `ExchangeHolds`: `OneExchange`; `RebuiltHolds`: `NamedIsRebuilt`; `CrossesHolds`:
  `CrossesOnce`. They have one invariant, `Sound(c)` of every channel, for none of
  them is inductive, nor are the three together. An object is sent once because of
  what its sender believes of the other side (`handle.seen`, `worker.objects`), and
  the belief is brought up to date by messages that still cross. The invariant
  therefore says what is known:
  - `Up` and `Down`, what the streams look like: no object twice, one request at
    most and after the objects it needs, a task or a reply last.
  - `Exchanges`: a request, the `@pure_local` call it becomes and its reply exclude
    each other and are there only while the worker asks; none is before the task
    has been read, which is why a reply never meets the handshake.
  - `Crosses`: what the worker has is closed under children and what comes to it
    keeps it so (`Carries`); what the handle has seen, the worker has or is to have;
    what the worker has, the handle has seen or is to see before it next answers
    (`Known`). The latter two do not hold always. A write that failed or a
    worker's end leaves the handle believing what never arrives, and each clause
    says on what condition it is relied on, a worker that still reads, or a
    request that is still to be served.
  - `Wired`, which thread writes when: a pool's thread writes a reply when the
    scheduler's has nothing left to write to the same worker, so that the two
    never interleave; a worker's `OPEN` is ahead of its messages; the host process
    knows every worker that runs. `Truth` and `Fresh` are those above.

  What reaches a worker is what is in its pipe, on the connection and in the hands
  of two threads, joined in that order (`ToWorkerIs`); `OnDownCat` says that picking
  one task's messages from the frames commutes with joining them. Most actions
  only move a message along, or lose some (`Narrows`, `Lessens`, `MovesOn`,
  `HeedsLess`), and one lemma keeps `Talks` for all of these; the others put a message
  at the end of a stream, or act on one that arrived.

Model-checked only: the liveness properties, `EveryAskEnds` and `KilledEnds`.

## 7. The store

| TLA+ | code |
|---|---|
| `files`, `dirs` | the objects and records that have a file, the directories there are |
| `docs[p]` | the call records a process has parsed, by name |
| `op[p]` | what it does: a lookup, the writing of values (a stack, a composite before its children are written), or a clear |

Each file operation is a step: `Lookup` lists a function's records and drops what
was parsed and is not listed, `Read` reads one that was not parsed (and may be gone
since), `Served` is the match among what `get_records` then returns, `Get` reads an
object of the value, `Find`, `Encode`, `Mkdir`, `MakeTemp` and `Replace` write one object,
`ClearObject` and `ClearRecords` remove one directory with the file in it: `rmtree`
deletes the file first, and what a process meets between the two is a directory
without its file, as before a write. The records' directory has several files: a clear
that dies among them is not modelled. `Crash` ends a process between
any two. Names are hashes, so a file is either what its name says or absent.
Left out: the format file, damaged files, what Windows does to a replace.

`torn` is history: a clear went on while a call was writing, or a clear was cut
short. `WholeUnlessTorn` says that outside those nothing on disk refers to what
is not there, after finished clears too; `ComputedIsKept` and
`RaisesOnlyWhenTorn` that everything else is harmless to a call, a finished clear
between its two files included.

| run | instance | result |
|---|---|---|
| `store` | 2 processes, 4 objects shared by 2 results, one clear, one crash; 2.5 million states | every property holds |

Two processes, because a third adds no new kind of neighbour: what a process sees
is only the directory. One clear and one crash are enough for a cut clear, and
for a crash that leaves a hole for the other to find.

### What is proved

`StoreProofs` proves the properties of the run, for any processes, results and graph of
objects, any number of clears and crashes, from `ObjectsAreGraded` (hashes admit
no cycles: an object is of a higher grade than its children) and
`BoundsAssumption`: `StoreTyping`, `StoreIsWhole`, `WritesSucceed` and `ComputedStays`. `IInv` is `Typed` and `Calm`. That no file refers to what is
missing is not inductive: a composite is written when its children are, so the
stack of what a process has yet to write must be in order. `Calm` says it where
no clear has torn anything: what an object on the stack needs is there, or still
to be looked at, or just above it (`Stacked`), and the record a call has come to
write is there or at the bottom of its stack (`Bottom`).

## 8. The run log

| TLA+ | code |
|---|---|
| `header`, `latest`, `exists` | the run directories, those with a header, and the file that names the newest |
| `lines[p]`, `file[p]` | a run's log: values (`Entry`) and references to records (`Refer`); whether its file is still there |
| `stack[p]`, `task[p]` | the frames of the process and of its worker, each with the records noted in it |
| `records` | the call records: a record is its call and the records its frame noted, as its hash is |
| `reader` | `Logs`: the run, the offset, the values so far, the lines whose records were gone |

A script is a sequence of items (`Log`, `Do`, `Batch`, `Fail`), and so is a call. `Hit`,
`Miss`, `Force`, `Return` and `Raise` are the wrapper's ways; `LookUpInput`,
`StartTask`, `RunHere`, `TaskEnds`, `LoseTask` and `BatchReturns` a batch's;
`WriteHeader`, `NamesLatest`, `ListOld`, `RemoveOld` the steps of `_begin`; `Open` and
`Refresh` the reader's. `Expand` follows a record down to the values logged under it.

`marred` and `spoiled` are history: what the properties except, each a state of
affairs that section 11 describes.

| run | instance | result |
|---|---|---|
| `runlog` | 2 processes, a script of nested calls, a batch and a call that raises, one fault anywhere; 0.7 million states, 26 seconds | a log that was read is what running from scratch logs |

One fault of any kind (a death, a lost task, records deleted, a clear, a forced
call) is checked; two, with a script without the raising call, were checked once,
in five minutes, with the same result. The processes are symmetric. They end, so
deadlock is not checked. Left out: labels and queries, several scripts in one
store, the threads of one process.

## 9. The monitor

| TLA+ | code |
|---|---|
| `at`, `todo`, `where`, `again`, `state`, `caps` | `run_all` as far as what it writes; `state` is of the remote hosts and of this machine's |
| `config` | what the batch's `_Hosts` goes by: the local file as it then is, or `max_workers` in place of its workers |
| `Known` | the constant: what that file said when the monitor started |
| `settled[b]` | history: what the outcomes of a batch were |
| `written`, `unread`, `dropped` | the event file: its length, what the monitor has yet to read, and that the cap was passed |
| `shown` | `_State`: how many inputs run on each host, which hosts have counts (`rows`), the batches, the hosts |

`Write` is the writer with its cap, `Applied` is `_State.apply`, `Poll` is one line of
`_Tail.poll`, `ShownCaps` is what `_render` forecasts. `Batch` and this module describe
the same loop; this one leaves out what decides a result and adds what is
reported, two batches, and a mode that changes under the run (`SetMode`). Either
side has its own source for this machine's capacity: `TakeCaps` takes `config.workers`
if the local host is ready and else none, `ShownCaps` the workers in `Known`, whatever
was heard of that host. `HostsMade` chooses `config` anew in each batch and lets the
local host be ready or fail; it may drop later, and its inputs are then requeued as
any host's.

**Fairness** (`FairSpec`): the monitor polls. Nothing is asked of the run.

| run | instance | result |
|---|---|---|
| `watch` | 2 batches, of two inputs and of one, one remote host of one worker and this machine, a local file with the host and one worker or with no host and two, 12 lines, one change of mode; 2.1 million states, about 200 seconds | the counts and the forecast are true, an end is shown |

`CountsAreTrue` excepts batches that ended over running inputs. `ForecastIsTrue` is
of the first batch and of turns in which every sync has begun; what it says of remote
hosts it says whatever the file held and whatever became of this machine's host. What
it says of this machine holds if that host is ready, the monitor read what the run
goes by, and nothing has run in the main process. Section 11 says what happens
without each of these. Twelve lines are fewer than two batches may write, so the cap is passed. Left out: the
events of calls, several processes and the scope of the newest, how many inputs of
each host are done, pruning, layout.

### What is proved

`MonitorProofs` proves, for any finite sets of hosts and inputs, any number of batches
and any length of the file, from `MonitorAssumption` and `HostsHaveWorkers`:

- `MonitorTyping`: the type invariant. That a line's batch is one that was begun is
  part of it, or a score would be looked up that is not there.
- `CountsHold`: `CountsAreTrue`. It is of a monitor that is up to date, and says
  nothing of one that is behind. The inductive invariant is `CatchesUp`: applying
  the lines not yet read, one after the other (`Leads`), leads to what is `True` of
  the run. A line written adds a step at the end of that chain, a poll takes one
  from its start. `Course` is what the run keeps to: that no input is anywhere
  between batches, and that a score is empty until its batch begins.
- `ForecastHolds`: `ForecastIsTrue`, an action property, from the same two and from
  `Sited`: of remote hosts, only those of `config` are given tasks. `True` adds to the
  counts that in the first batch the monitor has heard of each remote host what was
  reported, and has rows of none but those of `config`. A host that was
  reported is in the state it was reported in, or has failed since; one in `config`
  that was not has its sync before it or under way. Where the monitor's file is the
  run's, the hosts it waits for are then those the run waits for.

`EndIsShown` is model-checked only: it is a liveness property.

## 10. The function hash

| TLA+ | code |
|---|---|
| `source`, `loaded` | the program as its files are, and as this process imported it: each code object's body, literals, parameters (`signature`) and names, what names are bound to, what functions capture, the methods of classes, the text of modules, the version of what is installed |
| `walk` | `_Walker`: what is left to add, depth first (`todo`), `seen`, `spans`, and what the hasher was fed (`frames`) |
| `breaks` | the breakpoints of the debugger |
| `answer`, `records` | what the call did, and the records in the store by hash |

`AddGlobal`, `AddFunction`, `AddCode`, `AddUserModule` and `AddUserClass` are the walker's
methods, `AddCaptures` a turn of `add_function`'s loops, `MeetCodeAgain` and `PassOver` their early returns, `NoSubmodule` a name that leads to no
submodule; `Edit`, `Start`, `FirstCall`
and `Exit` the life of a process; `RunForced`, `Hit` and `Miss` the wrapper. Two hashes
are equal when their frames are. What a function returns is abstracted to its
definition: everything reachable by name from its code, which is how
`src/README.md:62` defines what the hash is of. Two programs have the same one
(`SameDefinition`) when what they reach on the same way (`Together`) is, each time,
the same but for what it refers to (`Own`).

`unsaid` and `blind` are history. `unsaid` is what a frame stands for and does not
tell, and where: parameters, method names, which of several objects of a package,
which code was met again, what was passed over and under which name. `blind` is why something the walk came to was not looked at, or was
not what the process had loaded: what a second closure of one code object
captured, the submodules of a package met again, a base class, a module edited
since it was imported. `HitIsCurrentIfTold` says that nothing else is missed,
whatever the order of the walk; `SameDefinitionHits` that nothing irrelevant is fed;
`BreakpointIsHit` that the spans cover what was reached. Leaving out any one of
those reasons refutes the first, so each really happens; section 11 names them.

**Abstractions.** How `_classify` sorts modules is given. All functions have one
module's globals. Packages have one version between them. While a process runs
only the text of modules is edited, as it reads nothing else again. Left out:
native extensions and their markers on a worker, functions as arguments, a
function that captures itself, debuggers whose tables cannot be read.

**Bounds.** Two processes and two edits: an edit between the processes, and one
that undoes it, hides it, or comes during the second's walk. The program has each
shape twice where meeting it again matters: two closures of one code object, one of
which may capture the other, a name that may be bound to nothing, a
class with a class that inherits it, a package reached with and without the name
of its submodule, two values of each kind. A mutable value is fed by the name of its type alone
(`TypeOf`), so of the three there are two are of one type and one of another. The package has a submodule with a
submodule of its own: with two levels only, a walk that comes again to a package
is never stopped between a submodule it has seen and one it has not, and a `blind`
that looked one level down passed for right.

| run | instance | result |
|---|---|---|
| `hash` | as above, every kind of edit; 3.0 million states, about 220 seconds | every invariant holds |
| `hash_stale` | one edit of a function's parameters | refuted: a hit is what the current definition returns |

### What is proved

`FunctionHashProofs`, in the terms that `FunctionHashWalks` defines, proves
`NoBreakpointIsPassed`, that is `BreakpointIsHit`, for any program, edits and number of processes, from `HashAssumption`: the kinds of things
are disjoint and finitely many, and a function has one code object, code its nested
code, a class its bases, a package its submodules.

The property is of everything reached from the function, by however long a way,
and the walk knows only what it has seen. The invariant is `WalkIsClosed`: as long as
nothing was left unlooked at, what was looked at is `Closed`, which is that whatever
a thing that was looked at refers to was looked at too, or waits in `todo`. A module
counts as looked at for the names of the code that refers to it (`M`), since another
code's names may lead to other submodules. Each method of the walker is shown to
keep this (`...Closes`), from what it does to the walk (`...Does`). When nothing waits,
the things looked at are closed under `Refers` and hold the root, and so all of
`Reached` (`ReachedStays`, step by step, with `Upward`); all
that was looked at has a span, and a call is served only if no span holds a
breakpoint. The frames, and what edits do to them, play no part.

The other two theorems are about two walks, of two programs, in two processes.

`HitsAreCurrent` proves `HitIsCurrentIfTold`: where nothing in frames and notes tells
the walk of the record from this one, both programs are one definition. A record
keeps the frames only, so the invariant (`Coursed`) is that for each record, and for
the walk of the process, there is a `Course`: all the states of a walk of that
program, from `NewWalk` on. Two finished courses with the same frames and notes
(`Twins`) are then followed side by side. Step numbers do not correspond: a name bound
to nothing and a submodule already seen say nothing in one walk and may not be there
in the other. What does correspond is the place in the text, so the two are compared
where they have fed and noted equally much (`Abreast`): there they have seen the
same things, and what they have to do matches task by task (`Alikes`) but for
submodules, whose frames bear a longer label than what stands behind them. `Kept` is
what the steps so far have made sure of: whatever both code objects, functions or
classes that were met at one place refer to at one place is the same, is a pair of
functions that were met together, or is a pair of tasks that still waits. Each kind
of pair is shown to go on to the next place abreast with `Kept`, and the two arrive
at their ends (`Arrives`). There nothing waits; what is reached on the same way is
then among what both looked at (`WalkIsClosed` again), each pair of things the same
but for what they refer to (`OwnSame`), which is `SameDefinition`. Code that is met
again is where this needs the notes and `blind`: its captured values are not fed
again, and are those of the first time only if `OtherCaptured` says so.

`SameDefinitionsHit` proves `SameDefinitionHits`, the converse. Its one difficulty is
that `Together` is a bounded iteration, and it must be shown closed. Of a pair that is
new in the last round there is a way that long to it from the root, new at each step;
where all that is reached together is the same, what is referred to depends only on
the code, class or module, or the pair of functions, that stands there (`KeyTells`), so
no key comes twice on the way (`KeysDiffer`), of which there are fewer than `Longest`
(`KeysAre`). So nothing is new in the last round, and `Together` is closed. Walks of two
programs that are one definition then go in step through it: as many tasks, each pair
of them the same call of things in `Together`, the same things seen and the same
frames fed (`InStep`, `TurnsTogether`), until both end at once.

Neither is about the values of frames beyond what two frames tell apart, and neither
bounds the program, the edits, the processes or the length of a walk.

## 11. Refuted by hand

These say what a document or a comment of the repository says, or what one would
expect, and the code does otherwise. The properties named are in the modules;
TLC refutes each when it is put in the configuration given.

- `Batch!NoConnectionAfterEnd` (`MCBatch`, one input, one remote host). A sync thread
  connects after `run_all` has closed its hosts: `_launch` (`hosts.py:484`) does not ask,
  and `_closed`, set by `_Hosts.close` (`parallel.py:290`), is read nowhere. The finally
  says (`parallel.py:459`) that no worker outlives the batch; the host process does.
- `Bootstrap!OneUpdater` (`MCBootstrap`). Two
  runs find one lock stale, one removes it and makes its own, and the other
  removes that (`bootstrap.py:385`); and a lock is released by name, whoever made it
  (`bootstrap.py:406`). `UpdatesExclude` proves it where no lock ages.
- `Bootstrap!ManifestHolds` (`MCBootstrap`, two runs, no death, no ageing). What to send and
  delete is computed against the manifest read on arrival (`bootstrap.py:591`, `605`,
  `224`); `_prepare` reads it again under the lock only to see whether its own version
  is there, and applies the old difference whatever was installed meanwhile. The
  manifest it then writes (`bootstrap.py:575`) names files the tree does not have,
  against `src/doc/remote-execution.md:128`.
- `Bootstrap!NoUpdateUnderARun` (`MCBootstrap`, two runs, no death, no ageing). Busy
  markers are looked at before the lock is waited for (`bootstrap.py:593`), and a run
  marks itself after releasing it (`bootstrap.py:623`), against
  `src/doc/remote-execution.md:134`.
- `Channel!ClearIsSafe` (`MCChannel`). A clear between a worker's objects and its
  result: `unpack` falls back to the store, and the `CacheMiss` leaves `feed`, which
  catches `ProtocolError` only (`hosts.py:173`), and `run_all`. `src/README.md:304` says that
  deleting a store is always safe.
- `Channel!NothingEscapes` and `RecordsAreWhole` without the condition `~forced`
  (`MCChannel`, no clears). A worker makes a `@pure_local` call while a breakpoint
  stands in what it reaches, in the main process: the call is forced and its value
  not written (`pure.py:451`); `_run_call` sends it and enters it in `seen`, not in the
  handle's objects (`hosts.py:292`). The worker never sends back what it received,
  as "the main process has all of them" (`remotestore.py:17`). When its task returns
  the value, `unpack` finds it nowhere and the `CacheMiss` leaves `run_all`; when a
  record names it, the record has no value.
- `Channel!PrintingIsHarmless` (`MCChannel`, no clears). A worker writes its messages to
  `sys.stdout.buffer` (`worker.py:304`) and leaves `sys.stdout` to the function it runs.
  What that prints, once flushed, is bytes between messages: nine or more are a
  header that claims more than `MAX_MESSAGE`, and the task fails with a
  `ProtocolError` (`hosts.py:182`) though its function returns. `src/README.md:157` says
  that printing is permitted. Running the code shows it too: a batch over a
  function with `print(..., flush=True)` raises `BatchError`, "message claims
  8007513861377454703 bytes; refusing"; without the flush the text comes after the
  result, and is passed over.
- `Channel!EveryAskEnds` (`MCChannelEnds`, `Prints` "more"). Fewer bytes than a header, an
  empty line say: the handle waits for the rest of a message, the worker for a
  reply to the request in it, and only a timeout ends the task.
- `Channel!KilledEnds` with `Stuck = Chan`. A worker that waits for ever in its import
  does not read; the host process waits in its write to it (`hostprocess.py:167`),
  and the kill is behind that write.
- `Channel!EveryAskEnds` with `Uncarried` the value of the `@pure_local` call. Sending
  it raises outside the try (`hosts.py:292`): nobody answers the worker.
- `Store!ClearFailsNoCall` (`MCStore`). A directory made is gone before the file in it
  is (`store.py:143`, `149`), and the write of a memoised call raises.
- `FunctionHash!HitIsCurrent` (`MCFunctionHashStale`, with `Editable` set to the kind named),
  against `src/README.md:62` and `:98`. Each was reproduced with the code.
  - `signature` (`hash_stale`): `def g(a)` becomes `def g(*a)`, or two keyword parameters
    change names.
  - `captures`: a second closure of one code object is only a `cycle` frame
    (`functionhash.py:358`), whatever it captured; `src/README.md:81` says that default and
    closure values are part of the definition.
  - `bound`: a name goes from one object of a package or the standard library to
    another, `math.floor` to `math.ceil`, as a global or a default argument
    (`functionhash.py:424`); or between functions that the walk has already met.
  - `methods`: the names of two methods are swapped (`functionhash.py:489`).
  - `body`: a method of a base class is not followed; `src/README.md:79` names the
    methods of user classes.
  - `text`: a module's file is read at the first call (`functionhash.py:456`), and may
    differ from what was imported; and a package met again under a name that leads
    to another of its submodules is passed over (`functionhash.py:450`).
  - `bound` and `names` again: a class or a module that is met again is passed over in
    silence (`functionhash.py:450`, `485`), under whichever name.
- What a mutable value is does not enter the hash, whether rebound or edited, says
  `src/README.md:92`. Its type's name does (`functionhash.py:307`, `314`): a name rebound
  from a list to an array costs a hit. In the model the type of such a value is
  part of the definition (`Own`), and the value is not.
- `RunLog!ServedRunIsComplete` (`MCRunLog`, `Body <- RaisingBody`). A call catches what
  another raises: what that logged is in no record (`pure.py:487`), so a run in which
  the first is served lacks it, against `src/README.md:492`.

The rest are exceptions in the properties themselves; leaving one out refutes
them.

- `LogIsExact`: an input that runs in the main process is noted by its own call and
  by the batch (`parallel.py:410`, `415`), and a call around it has its values twice
  when it is served. A task that lost its host leaves its lines, and its next run
  writes them again.
- `LogIsWhole`: a record deleted between a task's end and `_BatchRecorder.outcome` is
  not noted, and the call around has a record without it. A deleted nested record
  is not repaired by running the script again, since the call around is still
  served, with a reference to what is gone; the reader says that it is
  (`src/README.md:510` says to run again).
- `LatestIsReadable`: `clear_cache()` in a script removes the header of its own run,
  whose later lines cannot be opened; of two runs that begin together, the later may
  remove what `latest` names (`runlog.py:118-135`).
- `CountsAreTrue`: a batch that ends over running inputs writes nothing of them, and
  they are shown as running from then on (`monitor.py:152`); hosts that cannot be made
  (`parallel.py:383`) leave a batch that is shown as live for ever.
- `ForecastIsTrue`: what a batch reported of its hosts is kept for the next, whose
  hosts have yet to connect (`monitor.py:158`). Between the start of a sync's thread and
  its first step, no host counts as syncing (`parallel.py:247`), and this machine may
  take a task that the monitor says it will not. Of this machine three more:
  - the monitor reads its workers and the hosts' names once, when it starts
    (`monitor.py:523`, `540`); the run reads them for each batch, and `max_workers` goes
    before them (`parallel.py:202`), of which no event tells;
  - a local host that failed has no capacity (`parallel.py:271`); that is reported
    (`parallel.py:258`), and the monitor leaves "local" out of what it looks at
    (`monitor.py:255`);
  - an input that ran in the main process is counted under "main", which from
    then on is a host among the others (`monitor.py:253`) of which nothing is ever
    heard, and which therefore counts as syncing while the batch is live
    (`monitor.py:261`): under `remote` the monitor shows this machine idle where the run
    uses it.

Read and not modelled: the monitor's offset counts characters where `seek` takes
bytes, which agree as long as lines are ASCII and end in one byte
(`monitor.py:214`); `store.py:150` takes a file that is there for the one to be
written, which `latest` is not; a function that captures itself in a
closure ends the walk in a `RecursionError`, since captured values are walked before
the code is marked as seen (`functionhash.py:364`), though the comment there says
that cycles are handled, and class attributes that are not functions are in no hash; `localfile.py:158` rewrites the first `mode =` line of
any table, and reads and writes the file with no lock.

## 12. Not modelled

The parts marked "no" in the inventory: the local file (a parser and the rewriting
of a line), values, codec and plain data (byte formats with no state) and the
project's walks and packaging (input and output). Of the modelled parts, what each section names as left out, and: a
second sync thread for one host; an exception while a batch's hosts are made,
except for what the monitor shows of it; the wire format of the bootstrap;
several arguments of a memoised call. `capacities` raises on an unknown mode, which
the local file's parser never yields.
