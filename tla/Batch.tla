-------------------------------- MODULE Batch --------------------------------
(***************************************************************************)
(* parallel.run_all: the scheduler of one batch, over the hosts of Hosts.  *)
(*                                                                         *)
(* The scheduler is one thread.  Each turn of its loop re-reads the mode   *)
(* and spawns syncs (Poll), reads every host's state once (TakeCaps),      *)
(* starts tasks against that reading (StartTask), takes what the readers   *)
(* have posted (Deliver) and settles the tasks that have finished          *)
(* (Collect...).  Sync threads, reader threads, workers and connections    *)
(* take their steps between any two of these.                              *)
(*                                                                         *)
(* A task is known by its input: an input has one live handle at most.     *)
(* What a handle hears is abstracted to the first thing that decides it, a *)
(* result, a failure (an exception, an exit, a protocol error), or the     *)
(* loss of the connection; feed ignores what follows a result.  Remote     *)
(* hosts are filled in any order, this machine last, and finished tasks    *)
(* are settled in any order: the code's orders are among these.            *)
(***************************************************************************)
EXTENDS Hosts, Integers, Sequences, FiniteSets

CONSTANTS
  N,           \* how many inputs the batch has
  Workers,     \* Workers[h]: how many tasks host h may hold
  FileModes,   \* the modes the local file may name while the batch runs
  Cacheable,   \* the inputs the cache may hold before the batch
  Unsendable,  \* the inputs the protocol cannot carry
  HasTimeout,  \* whether run_all was given a timeout
  None

Input == 1 .. N

ASSUME BatchAssumption ==
  /\ N \in Nat
  /\ Workers \in [Host -> Nat]
  /\ FileModes \subseteq MODES /\ "all" \in MODES
  /\ Cacheable \subseteq Input
  /\ Unsendable \subseteq Input
  /\ HasTimeout \in BOOLEAN
  /\ None \notin Host

VARIABLES
  pc,        \* where the scheduler is
  mode,      \* the mode last read
  caps,      \* this turn's capacities
  pending,   \* the inputs to run, in the order they will be popped
  at,        \* at[i]: the host input i's task is on, or None
  busy,      \* busy[h]: the tasks the scheduler counts at h
  requeued,  \* the inputs run again once after losing their host
  posted,    \* posted[i]: what the readers put on the queue for i's handle
  heard,     \* heard[i]: what i's handle has been fed
  outcome,   \* outcome[i]: what the batch settled for i
  verdict,   \* how run_all ended
  starts     \* HISTORY: how often i was started

taskVars == <<pending, at, busy, requeued, posted, heard>>
endVars  == <<outcome, verdict>>
vars == <<pc, mode, caps, taskVars, endVars, starts, hostVars>>

PC == {"begin", "served", "hosts", "poll", "caps", "start", "deliver",
       "collect", "closing", "ended", "debugged"}
InLoop  == {"poll", "caps", "start", "deliver", "collect"}
News    == {"nothing", "value", "failed", "lost"}
Outcome == {"none", "value", "failed"}
Verdict == {"none", "returned", "raised", "interrupted"}

TypeOK ==
  /\ HostsTypeOK
  /\ pc \in PC
  /\ mode \in MODES
  /\ caps \in [Host -> Nat]
  /\ pending \in Seq(Input)
  /\ at \in [Input -> Host \cup {None}]
  /\ busy \in [Host -> Int]
  /\ requeued \subseteq Input
  /\ posted \in [Input -> News]
  /\ heard \in [Input -> News]
  /\ outcome \in [Input -> Outcome]
  /\ verdict \in Verdict
  /\ starts \in [Input -> Nat]

Init ==
  /\ HostsInit
  /\ pc = "begin"
  /\ mode = "all"
  /\ caps = [h \in Host |-> 0]
  /\ pending = <<>>
  /\ at = [i \in Input |-> None]
  /\ busy = [h \in Host |-> 0]
  /\ requeued = {}
  /\ posted = [i \in Input |-> "nothing"]
  /\ heard = [i \in Input |-> "nothing"]
  /\ outcome = [i \in Input |-> "none"]
  /\ verdict = "none"
  /\ starts = [i \in Input |-> 0]

----------------------------------------------------------------------------
(* Before the loop.                                                        *)

running == {i \in Input : at[i] # None}

Goto(from, to) == pc = from /\ pc' = to

\* The members of S, once each, in input order.
Listings(S) ==
  {s \in [1 .. Cardinality(S) -> S] :
     /\ \A j, k \in 1 .. Cardinality(S) : j < k => s[j] < s[k]
     /\ \A i \in S : \E j \in 1 .. Cardinality(S) : s[j] = i}

Settle(i, what) == outcome' = [outcome EXCEPT ![i] = what]

\* The inputs whose results are in the cache are settled before anything
\* else.
ServeCached(S) ==
  /\ Goto("begin", "served")
  /\ outcome' = [i \in Input |-> IF i \in S THEN "value" ELSE "none"]
  /\ pending' \in Listings(Input \ S)
  /\ UNCHANGED <<mode, caps, at, busy, requeued, posted, heard, verdict,
                 starts, hostVars>>

ReturnCached ==
  /\ Goto("served", "ended")
  /\ pending = <<>>
  /\ verdict' = "returned"
  /\ UNCHANGED <<mode, caps, taskVars, outcome, starts, hostVars>>

\* _Hosts: the file's mode is read, and this machine's host synced in place.
MakeHosts ==
  /\ Goto("served", "hosts")
  /\ pending # <<>>
  /\ mode' \in FileModes
  /\ sync' = [sync EXCEPT ![Local] = "spawned"]
  /\ UNCHANGED <<caps, taskVars, endVars, starts, state, link, reader>>

HostsMade ==
  /\ Goto("hosts", "poll")
  /\ sync[Local] = "done"
  /\ UNCHANGED <<mode, caps, taskVars, endVars, starts, hostVars>>

\* A live breakpoint in what fn reaches: every input in this process, in
\* order, no cache and no host.
RunSequentially ==
  /\ Goto("begin", "debugged")
  /\ pending' \in Listings(Input)
  /\ UNCHANGED <<mode, caps, at, busy, requeued, posted, heard, endVars,
                 starts, hostVars>>

PopHead ==
  /\ pending # <<>>
  /\ pending' = Tail(pending)
  /\ starts' = [starts EXCEPT ![Head(pending)] = @ + 1]

SequentialCall(what) ==
  /\ pc = "debugged"
  /\ PopHead
  /\ Settle(Head(pending), what)
  /\ IF what = "value"
       THEN UNCHANGED <<pc, verdict>>
       ELSE pc' = "ended" /\ verdict' = "raised"
  /\ UNCHANGED <<mode, caps, at, busy, requeued, posted, heard, hostVars>>

SequentialEnd ==
  /\ Goto("debugged", "ended")
  /\ pending = <<>>
  /\ verdict' = "returned"
  /\ UNCHANGED <<mode, caps, taskVars, outcome, starts, hostVars>>

----------------------------------------------------------------------------
(* A turn of the loop.                                                     *)

\* _start_pending, up to the capacities: an unreadable file leaves the mode
\* as it was.
Poll(m) ==
  /\ Goto("poll", "caps")
  /\ pending # <<>> \/ running # {}
  /\ mode' = m
  /\ IF m # "local" THEN SpawnSyncs ELSE UNCHANGED sync
  /\ UNCHANGED <<caps, taskVars, endVars, starts, state, link, reader>>

\* MUTANT: the loop ends with the queue, not with the last task.
LoopEndsEarly ==
  /\ Goto("poll", "closing")
  /\ pending = <<>>
  /\ verdict' = "returned"
  /\ UNCHANGED <<mode, caps, taskVars, outcome, starts, hostVars>>

LoopEnds ==
  /\ Goto("poll", "closing")
  /\ pending = <<>> /\ running = {}
  /\ verdict' = "returned"
  /\ UNCHANGED <<mode, caps, taskVars, outcome, starts, hostVars>>

ReadyWorkers(h) == IF state[h] = "ready" THEN Workers[h] ELSE 0

TakeCaps ==
  /\ Goto("caps", "start")
  /\ caps' = capacities(mode, ReadyWorkers(Local),
                        [r \in Remote |-> ReadyWorkers(r)], Syncing)
  /\ UNCHANGED <<mode, taskVars, endVars, starts, hostVars>>

\* MUTANT: one task too many.
HasRoomForOneMore(h) == busy[h] <= caps[h] /\ caps[h] > 0

HasRoom(h) == busy[h] < caps[h]

\* host.start: the channel is registered and the task sent, against the
\* capacities of this turn; a connection that has gone since is not noticed
\* (_send swallows the error).  A value the protocol cannot carry fails the
\* handle at once.
StartTask(h) ==
  /\ pc = "start"
  /\ HasRoom(h)
  /\ h = Local => \A r \in Remote : ~ HasRoom(r)
  /\ PopHead
  /\ LET i == Head(pending) IN
       /\ at' = [at EXCEPT ![i] = h]
       /\ heard' = [heard EXCEPT
            ![i] = IF i \in Unsendable THEN "failed" ELSE "nothing"]
       /\ posted' = [posted EXCEPT ![i] = "nothing"]
  /\ busy' = [busy EXCEPT ![h] = @ + 1]
  /\ UNCHANGED <<pc, mode, caps, requeued, endVars, hostVars>>

StartingDone ==
  /\ pending = <<>> \/ \A h \in Host : ~ HasRoom(h)
  /\ caps' = [h \in Host |-> 0]

AwaitTasks ==
  /\ Goto("start", "deliver")
  /\ StartingDone
  /\ running # {}
  /\ UNCHANGED <<mode, taskVars, endVars, starts, hostVars>>

\* Nothing runs and a host is still syncing: wait for it.  The queue can
\* hold nothing for a live handle.
AwaitSync ==
  /\ Goto("start", "poll")
  /\ StartingDone
  /\ running = {} /\ Syncing
  /\ UNCHANGED <<mode, taskVars, endVars, starts, hostVars>>

\* _run_here: no host may run anything, so this process does.
RunHere(what) ==
  /\ pc = "start"
  /\ StartingDone
  /\ running = {} /\ ~ Syncing
  /\ PopHead
  /\ Settle(Head(pending), what)
  /\ IF what = "value"
       THEN /\ pc' = "poll"
            /\ UNCHANGED verdict
       ELSE /\ pc' = "closing"
            /\ verdict' = "raised"
  /\ UNCHANGED <<mode, at, busy, requeued, posted, heard, hostVars>>

\* deliver: drain the queue into the handles.
Deliver ==
  /\ Goto("deliver", "collect")
  /\ heard' = [i \in Input |->
                 IF at[i] # None /\ heard[i] = "nothing" THEN posted[i]
                                                        ELSE heard[i]]
  /\ UNCHANGED <<mode, caps, pending, at, busy, requeued, posted, endVars,
                 starts, hostVars>>

\* A finished task leaves: removed, no longer counted, its channel dropped.
Retire(i) ==
  /\ pc = "collect"
  /\ at[i] # None
  /\ at' = [at EXCEPT ![i] = None]
  /\ busy' = [busy EXCEPT ![at[i]] = @ - 1]
  /\ heard' = [heard EXCEPT ![i] = "nothing"]
  /\ posted' = [posted EXCEPT ![i] = "nothing"]
  /\ UNCHANGED <<mode, caps, starts, hostVars>>

CollectValue(i) ==
  /\ heard[i] = "value"
  /\ Retire(i)
  /\ Settle(i, "value")
  /\ UNCHANGED <<pc, pending, requeued, verdict>>

\* MUTANT: the input is remembered as requeued and not put back.
CollectLostForgets(i) ==
  /\ heard[i] = "lost" /\ i \notin requeued
  /\ Retire(i)
  /\ requeued' = requeued \cup {i}
  /\ UNCHANGED <<pc, pending, endVars>>

\* MUTANT: the input is run again each time it loses its host.
CollectLostAgain(i) ==
  /\ heard[i] = "lost"
  /\ Retire(i)
  /\ requeued' = requeued \cup {i}
  /\ pending' = <<i>> \o pending
  /\ UNCHANGED <<pc, endVars>>

\* The host went away under the input: run it again, the first time.
CollectLost(i) ==
  /\ heard[i] = "lost" /\ i \notin requeued
  /\ Retire(i)
  /\ requeued' = requeued \cup {i}
  /\ pending' = <<i>> \o pending
  /\ UNCHANGED <<pc, endVars>>

NoResult(i) ==
  /\ Retire(i)
  /\ Settle(i, "failed")
  /\ pc' = "closing"
  /\ verdict' = "raised"
  /\ UNCHANGED <<pending, requeued>>

CollectFailed(i) ==
  /\ heard[i] = "failed" \/ (heard[i] = "lost" /\ i \in requeued)
  /\ NoResult(i)

\* The deadline has passed and the handle had nothing: killed.
Expire(i) ==
  /\ HasTimeout
  /\ heard[i] = "nothing"
  /\ NoResult(i)

EndTurn ==
  /\ Goto("collect", "poll")
  /\ \A i \in running : heard[i] = "nothing"
  /\ UNCHANGED <<mode, caps, taskVars, endVars, starts, hostVars>>

\* The finally: running tasks are killed and every connection closed.
Close ==
  /\ Goto("closing", "ended")
  /\ CloseAll
  /\ UNCHANGED <<mode, caps, taskVars, endVars, starts>>

\* KeyboardInterrupt, anywhere in the loop.
Interrupt ==
  /\ pc \in InLoop
  /\ pc' = "closing"
  /\ verdict' = "interrupted"
  /\ UNCHANGED <<mode, caps, taskVars, outcome, starts, hostVars>>

----------------------------------------------------------------------------
(* The other threads, the hosts and the workers.                           *)

schedulerVars == <<pc, mode, caps, pending, at, busy, requeued, heard,
                   endVars, starts>>

\* Once the scheduler has returned no sync thread is waited for, but it
\* goes on.
HostStep(h) ==
  /\ SyncStep(h) \/ Drop(h) \/ ReaderEnds(h)
  /\ UNCHANGED <<schedulerVars, posted>>

\* The reader passes on what decides a worker's task; a worker whose task
\* was refused at the sender is being killed.
Report(i) ==
  /\ at[i] # None
  /\ reader[at[i]] = "reading" /\ link[at[i]] = "up"
  /\ posted[i] = "nothing" /\ heard[i] = "nothing"
  /\ \E what \in {"value", "failed"} :
       posted' = [posted EXCEPT ![i] = what]
  /\ UNCHANGED <<schedulerVars, hostVars>>

\* The reader's last act: every channel open now hears that it is closed.
Sweep(h) ==
  /\ ReaderSwept(h)
  /\ posted' = [i \in Input |->
                  IF at[i] = h /\ posted[i] = "nothing" THEN "lost"
                                                       ELSE posted[i]]
  /\ UNCHANGED schedulerVars

Done ==
  /\ pc = "ended"
  /\ UNCHANGED vars

Before ==
  \/ \E S \in SUBSET Cacheable : ServeCached(S)
  \/ ReturnCached \/ MakeHosts \/ HostsMade
  \/ RunSequentially \/ SequentialEnd
  \/ \E what \in {"value", "failed"} : SequentialCall(what)

Turn ==
  \/ \E m \in FileModes : Poll(m)
  \/ LoopEnds \/ TakeCaps
  \/ \E h \in Host : StartTask(h)
  \/ AwaitTasks \/ AwaitSync
  \/ \E what \in {"value", "failed"} : RunHere(what)
  \/ Deliver
  \/ \E i \in Input : CollectValue(i) \/ CollectLost(i) \/ CollectFailed(i)
  \/ EndTurn
  \/ Close

Scheduler == Before \/ Turn

Next ==
  \/ Scheduler
  \/ \E i \in Input : Expire(i) \/ Report(i)
  \/ Interrupt
  \/ \E h \in Host : HostStep(h) \/ Sweep(h)
  \/ Done

Spec == Init /\ [][Next]_vars

\* The scheduler's thread, the readers and the sync threads run; a sync
\* ends (its check has a limit of its own); a worker whose connection lives
\* answers if Answers; a running task reaches its deadline.
Fairness ==
  /\ WF_vars(Scheduler)
  /\ \A h \in Host :
       /\ WF_vars(SyncStep(h) /\ UNCHANGED <<schedulerVars, posted>>)
       /\ WF_vars(ReaderEnds(h) /\ UNCHANGED <<schedulerVars, posted>>)
       /\ WF_vars(Sweep(h))
  /\ \A i \in Input : SF_vars(Expire(i))

FairSpec == Spec /\ Fairness

\* As FairSpec, with workers that always answer.
AnsweringSpec == FairSpec /\ \A i \in Input : WF_vars(Report(i))

----------------------------------------------------------------------------
(* What run_all keeps true.                                                *)

Queue == {pending[j] : j \in DOMAIN pending}

QueueDistinct ==
  \A j, k \in DOMAIN pending : pending[j] = pending[k] => j = k

\* From the moment the inputs are listed until the batch ends, every input
\* is in exactly one place: once in the queue, or running, or settled.  No
\* requeue, failure or direct run loses one or runs one beside itself.
NoInputLost ==
  /\ QueueDistinct
  /\ \A i \in Input :
       /\ i \in Queue => at[i] = None /\ outcome[i] = "none"
       /\ at[i] # None => outcome[i] = "none"
       /\ pc # "begin" =>
            i \in Queue \/ at[i] # None \/ outcome[i] # "none"

\* The scheduler's count of a host's tasks is the number of tasks there, and
\* no host ever holds more than its workers, whatever happens to it between
\* the reading of the capacities and the start of a task.
BusyWithinWorkers ==
  \A h \in Host :
    /\ busy[h] = Cardinality({i \in Input : at[i] = h})
    /\ busy[h] <= Workers[h]

\* An input is started again only after it lost its host, and then once:
\* run_all's "again elsewhere, once".
StartedAgainOnlyAfterLoss ==
  \A i \in Input : starts[i] <= IF i \in requeued THEN 2 ELSE 1

\* A returned batch has every result; a raised one has exactly one input
\* with no result, the first that was settled so, and nothing after it.
VerdictIsRight ==
  /\ verdict = "returned" => \A i \in Input : outcome[i] = "value"
  /\ verdict = "raised" <=> \E i \in Input : outcome[i] = "failed"
  /\ \A i, j \in Input :
       outcome[i] = "failed" /\ outcome[j] = "failed" => i = j

\* No input waits on a host's decision: a task is only ever on a host whose
\* sync has ended and whose connection was made, whatever the sync and
\* reader threads did between the capacities and the start.
TasksOnSyncedHosts ==
  \A i \in Input : at[i] # None =>
    sync[at[i]] = "done" /\ state[at[i]] \in {"ready", "failed"}
                         /\ link[at[i]] # "none"

\* "No worker process outlives the batch": the connection of every task
\* still running when the batch ends has been closed.
NoTaskOutlivesBatch ==
  pc = "ended" => \A i \in Input : at[i] # None => link[at[i]] # "up"

\* The batch ends: with a return, the first failure or an interrupt.
BatchEnds == <>(pc = "ended")

PromisedStatus ==
  [i \in Input |->
     IF outcome[i] = "value" THEN "done"
     ELSE IF outcome[i] = "failed" THEN "failed"
     ELSE IF at[i] # None THEN "running" ELSE "waiting"]

PromisedPhase == IF verdict = "none" THEN "open" ELSE verdict

\* run_all implements what it promises (BatchPromise).
Promise == INSTANCE BatchPromise WITH
  status <- PromisedStatus,
  lost   <- requeued,
  phase  <- PromisedPhase

PromiseKept == Promise!Spec

----------------------------------------------------------------------------
(* What the documentation says of it, and TLC refutes.                     *)

\* hosts.py:459-461: a host goes to "failed" when its connection closes, so
\* one that is "ready" has a reader on it.
ReadyHostIsRead ==
  \A h \in Host : state[h] = "ready" => reader[h] = "reading"

\* README.md:625-627: when a host's connection drops, the inputs that were
\* running there run again elsewhere, once.  Said of the behaviours in which
\* a ready host always has its reader, so that what it shows is the start of
\* a task between the reader's end and the next reading of the states.
LostInputsRunAgain ==
  []ReadyHostIsRead =>
    \A i \in Input, h \in Host :
      (at[i] = h /\ reader[h] = "gone") ~> (at[i] # h \/ pc = "ended")

\* parallel.py:459: no worker process outlives the batch; with its last
\* connection closed a host has none.  No run; README, Refuted by hand.
NoConnectionAfterEnd ==
  pc = "ended" => \A h \in Host : link[h] # "up"

=============================================================================
