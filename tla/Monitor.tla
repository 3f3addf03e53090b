------------------------------- MODULE Monitor -------------------------------
(***************************************************************************)
(* events.py and monitor.py: a run writes what its batches do to a file,   *)
(* line by line, up to a cap, and a monitor reads the lines and folds them *)
(* into counts, and into what the mode means for the next task.            *)
(*                                                                         *)
(* The run is parallel.py's, as far as what it writes: Batch has the rest. *)
(* A batch follows another; hosts are made anew for each, as the local     *)
(* file then is.  The monitor has read that file once, when it started.    *)
(*                                                                         *)
(* BOUNDS: Batches batches of the inputs in Inputs, MaxLines lines,        *)
(* MaxBehind of which the monitor has yet to read, and MaxModes changes of *)
(* the mode.  What a line says of calls, or of a process, is left out, and *)
(* how many inputs of each host are done.                                  *)
(***************************************************************************)
EXTENDS Modes, Integers, FiniteSets, Sequences, SequencesExt

CONSTANTS
  Input, Main, Nowhere,
  Inputs,    \* Inputs[b]: those of a batch
  Batches, MaxLines, MaxBehind, MaxModes,
  Capacity,  \* Capacity[r]: a remote host's workers, when it is ready
  Configs,   \* what the local file may say: this machine's workers, the hosts
  Known      \* what it said when the monitor started

ASSUME HostsHaveWorkers ==
  /\ Capacity \in [Remote -> Nat] /\ Configs \subseteq [workers : Nat, hosts : SUBSET Remote] /\ Known \in Configs
  /\ Main \notin Host /\ Nowhere \notin Host \cup {Main}

ASSUME MonitorAssumption ==
  /\ IsFiniteSet(Input) /\ Inputs \in [1..Batches -> SUBSET Input]
  /\ Batches \in Nat /\ MaxLines \in Nat /\ MaxBehind \in Nat /\ MaxModes \in Nat

VARIABLES
  mode,      \* the mode line of the local file
  batch,     \* the batch of the run: 0 before the first
  at,        \* where in a turn of run_all the run is
  todo,      \* the inputs neither running nor settled
  where,     \* where[i]: the host an input runs on
  again,     \* the inputs that lost their host
  settled,   \* settled[b]: how many inputs of batch b have an outcome, ok or failed
  config,    \* what the batch goes by: the file's, or max_workers for its workers
  state,     \* state[h]: a host's, "none" where there is no such host
  reported,  \* reported[h]: its state when last written
  caps,      \* the capacities the turn has read, until it waits
  written,   \* how many lines the event file has
  unread,    \* those the monitor has not read
  dropped,   \* whether records went beyond the file's cap
  shown,     \* the monitor's state
  polled,    \* the mode the turn has read, until it has the capacities
  modes,     \* how often the mode has changed
  abandoned  \* history: a batch has ended with inputs running

run == <<batch, at, todo, where, again, settled, config, state, reported, caps, polled, abandoned>>
log == <<written, unread, dropped>>
vars == <<run, log, mode, shown, modes>>

Idle == [h \in Host \cup {Main} |-> 0]

NoCaps == [h \in Host |-> 0]

NoHosts == [h \in Host |-> "none"]

NoConfig == [workers |-> 0, hosts |-> {}]

Init ==
  /\ mode \in MODES
  /\ batch = 0 /\ at = "between" /\ todo = {} /\ where = [i \in Input |-> Nowhere] /\ again = {}
  /\ settled = [b \in 1..Batches |-> [done |-> 0, failed |-> 0, ended |-> FALSE]]
  /\ config = NoConfig /\ state = NoHosts /\ reported = NoHosts
  /\ caps = NoCaps /\ polled = "none"
  /\ written = 0 /\ unread = <<>> /\ dropped = FALSE
  /\ shown = [counts |-> Idle, rows |-> {}, batches |-> <<>>, hosts |-> [h \in Host |-> "unheard"]]
  /\ modes = 0 /\ abandoned = FALSE

-----------------------------------------------------------------------------
(* The event file: _Writer.write                                           *)

\* MUTANT: past the cap nothing is counted.
WriteSilently(e) ==
  IF written < MaxLines
    THEN Len(unread) < MaxBehind /\ written' = written + 1 /\ unread' = Append(unread, e) /\ UNCHANGED dropped
    ELSE UNCHANGED log

Write(e) ==
  IF written < MaxLines
    THEN Len(unread) < MaxBehind /\ written' = written + 1 /\ unread' = Append(unread, e) /\ UNCHANGED dropped
    ELSE dropped' = TRUE /\ UNCHANGED <<written, unread>>

Quiet == UNCHANGED log

BatchEvent(b)        == [ev |-> "batch", id |-> b]
StartEvent(h)        == [ev |-> "start", host |-> h]
RequeueEvent(h)      == [ev |-> "requeue", host |-> h]
OutcomeEvent(b, h, ok) == [ev |-> "outcome", id |-> b, host |-> h, ok |-> ok]
EndEvent(b)          == [ev |-> "end", id |-> b]
HostEvent(h, ok)     == [ev |-> "host", host |-> h, ok |-> ok]

-----------------------------------------------------------------------------
(* The run                                                                 *)

Running(h) == {i \in Input : where[i] = h}
AnyRunning == \E i \in Input : where[i] # Nowhere

Settle(ok) ==
  settled' = [settled EXCEPT ![batch].done = @ + 1,
                             ![batch].failed = IF ok THEN @ ELSE @ + 1]

BatchBegins ==
  /\ at = "between" /\ batch < Batches
  /\ batch' = batch + 1 /\ at' = "lookup" /\ todo' = Inputs[batch + 1]
  /\ Write(BatchEvent(batch + 1))
  /\ UNCHANGED <<where, again, settled, config, state, reported, caps, polled, abandoned, mode, modes>>

\* An input in the cache has an outcome and no start.
Cached(i) ==
  /\ at = "lookup" /\ i \in todo
  /\ todo' = todo \ {i}
  /\ Settle(TRUE)
  /\ Write(OutcomeEvent(batch, Local, TRUE))
  /\ UNCHANGED <<batch, at, where, again, config, state, reported, caps, polled, abandoned, mode, modes>>

\* Every input was: the batch ends, and no host is made.
NothingPending ==
  /\ at = "lookup" /\ todo = {}
  /\ at' = "between"
  /\ settled' = [settled EXCEPT ![batch].ended = TRUE]
  /\ Write(EndEvent(batch))
  /\ UNCHANGED <<batch, todo, where, again, config, state, reported, caps, polled, abandoned, mode, modes>>

\* The hosts are made, those of the local file, which is read now, and this
\* machine's, which is synced at once, or fails to be.
HostsMade ==
  /\ at = "lookup" /\ todo # {}
  /\ at' = "turn"
  /\ config' \in Configs
  /\ \E here \in {"ready", "failed"} :
       state' = [h \in Host |-> IF h = Local THEN here
                                 ELSE IF h \in config'.hosts THEN "new" ELSE "none"]
  /\ UNCHANGED <<batch, todo, where, again, settled, reported, caps, polled, abandoned, log, mode, modes>>

\* The hosts cannot be made (the local file or the project cannot be read):
\* the exception leaves run_all before its finally, and no end is written.
HostsRaise ==
  /\ at = "lookup" /\ todo # {}
  /\ at' = "between" /\ todo' = {}
  /\ UNCHANGED <<batch, where, again, settled, config, state, reported, caps, polled, abandoned, log, mode, modes>>

\* The turn begins: the mode is read, and hosts not yet tried are.
PollMode ==
  /\ at = "turn" /\ (todo # {} \/ AnyRunning)
  /\ at' = "report" /\ polled' = mode
  /\ state' = IF mode = "local" THEN state
              ELSE [h \in Host |-> IF state[h] = "new" THEN "started" ELSE state[h]]
  /\ UNCHANGED <<batch, todo, where, again, settled, config, reported, caps, abandoned, log, mode, modes>>

\* That this machine's host is ready is not news.
News == {h \in Host : state[h] \in (IF h = Local THEN {"failed"} ELSE {"ready", "failed"})
                        /\ reported[h] # state[h]}

Report ==
  /\ at = "report"
  /\ IF News = {}
       THEN at' = "caps" /\ Quiet /\ UNCHANGED reported
       ELSE \E h \in News :
              /\ reported' = [reported EXCEPT ![h] = state[h]]
              /\ Write(HostEvent(h, state[h] = "ready"))
              /\ UNCHANGED at
  /\ UNCHANGED <<batch, todo, where, again, settled, config, state, caps, polled, abandoned, mode, modes>>

TakeCaps ==
  /\ at = "caps"
  /\ caps' = capacities(polled, IF state[Local] = "ready" THEN config.workers ELSE 0,
                        [r \in Remote |-> IF state[r] = "ready" THEN Capacity[r] ELSE 0],
                        \E r \in Remote : state[r] = "syncing")
  /\ at' = "start" /\ polled' = "none"
  /\ UNCHANGED <<batch, todo, where, again, settled, config, state, reported, abandoned, log, mode, modes>>

HasRoom(h) == Cardinality(Running(h)) < caps[h]

Start(i, h) ==
  /\ at = "start" /\ i \in todo /\ HasRoom(h)
  /\ todo' = todo \ {i} /\ where' = [where EXCEPT ![i] = h]
  /\ Write(StartEvent(h))
  /\ UNCHANGED <<batch, at, again, settled, config, state, reported, caps, polled, abandoned, mode, modes>>

StartsEnd == todo = {} \/ \A h \in Host : ~HasRoom(h)

\* No host may run anything, nor will one yet: an input runs here.
RunHere(i) ==
  /\ at = "start" /\ StartsEnd /\ i \in todo /\ ~AnyRunning
  /\ \A r \in Remote : state[r] # "syncing"
  /\ todo' = todo \ {i} /\ where' = [where EXCEPT ![i] = Main]
  /\ at' = "here"
  /\ caps' = NoCaps
  /\ Write(StartEvent(Main))
  /\ UNCHANGED <<batch, again, settled, config, state, reported, polled, abandoned, mode, modes>>

\* The turn waits for the hosts to deliver.
Wait ==
  /\ at = "start" /\ StartsEnd
  /\ AnyRunning \/ \E r \in Remote : state[r] = "syncing"
  /\ at' = "wait" /\ caps' = NoCaps
  /\ UNCHANGED <<batch, todo, where, again, settled, config, state, reported, polled, abandoned, log, mode, modes>>

\* An input has finished, or failed, or timed out, or lost a second host: a
\* failure ends the batch, whatever else is running.
Settles(i, ok) ==
  /\ where[i] # Nowhere
  /\ at = IF where[i] = Main THEN "here" ELSE "wait"
  /\ where' = [where EXCEPT ![i] = Nowhere]
  /\ Settle(ok)
  /\ Write(OutcomeEvent(batch, where[i], ok))
  /\ at' = IF ~ok THEN "ending" ELSE IF at = "here" THEN "turn" ELSE "wait"
  /\ UNCHANGED <<batch, todo, again, config, state, reported, caps, polled, abandoned, mode, modes>>

\* Its host has dropped: it is queued again, once.
Requeues(i) ==
  /\ at = "wait" /\ where[i] \in Host /\ state[where[i]] = "failed"
  /\ i \notin again
  /\ again' = again \cup {i} /\ todo' = todo \cup {i}
  /\ where' = [where EXCEPT ![i] = Nowhere]
  /\ Write(RequeueEvent(where[i]))
  /\ UNCHANGED <<batch, at, settled, config, state, reported, caps, polled, abandoned, mode, modes>>

NextTurn ==
  /\ at = "wait"
  /\ at' = "turn"
  /\ UNCHANGED <<batch, todo, where, again, settled, config, state, reported, caps, polled, abandoned, log, mode, modes>>

LoopEnds ==
  /\ at = "turn" /\ todo = {} /\ ~AnyRunning
  /\ at' = "ending"
  /\ UNCHANGED <<batch, todo, where, again, settled, config, state, reported, caps, polled, abandoned, log, mode, modes>>

\* The finally: what runs is killed, without an outcome, and the hosts are
\* closed.
BatchEnds ==
  /\ at = "ending"
  /\ at' = "between"
  /\ where' = [i \in Input |-> Nowhere]
  /\ todo' = {} /\ again' = {}
  /\ config' = NoConfig /\ state' = NoHosts /\ reported' = NoHosts
  /\ abandoned' = (abandoned \/ AnyRunning)
  /\ settled' = [settled EXCEPT ![batch].ended = TRUE]
  /\ Write(EndEvent(batch))
  /\ UNCHANGED <<batch, caps, polled, mode, modes>>

\* A sync begins or ends, or a connection drops; on threads of their own.
HostChanges(h) ==
  /\ at # "between"
  /\ \/ state[h] = "started" /\ state' = [state EXCEPT ![h] = "syncing"]
     \/ state[h] = "syncing" /\ \E s \in {"ready", "failed"} : state' = [state EXCEPT ![h] = s]
     \/ state[h] = "ready" /\ state' = [state EXCEPT ![h] = "failed"]
  /\ UNCHANGED <<batch, at, todo, where, again, settled, config, reported, caps, polled, abandoned, log, mode, modes>>

RunStep ==
  \/ BatchBegins \/ NothingPending \/ HostsMade \/ HostsRaise
  \/ PollMode \/ Report \/ TakeCaps \/ Wait \/ NextTurn \/ LoopEnds \/ BatchEnds
  \/ \E i \in Input :
       \/ Cached(i) \/ RunHere(i) \/ Requeues(i)
       \/ \E h \in Host : Start(i, h)
       \/ \E ok \in BOOLEAN : Settles(i, ok)
  \/ \E h \in Host : HostChanges(h)

-----------------------------------------------------------------------------
(* The monitor                                                             *)

\* Somebody sets the mode: a monitor's key, or an editor.
SetMode ==
  /\ modes < MaxModes
  /\ modes' = modes + 1
  /\ mode' \in MODES \ {mode}
  /\ UNCHANGED <<run, log>>

Down(n) == IF n = 0 THEN 0 ELSE n - 1

Scored(b, ok) == [b EXCEPT !.done = @ + 1, !.failed = IF ok THEN @ ELSE @ + 1]

\* An outcome takes a running input from its host.
Counted(s, e) ==
  [s EXCEPT !.counts[e.host] = Down(@),
            !.rows = @ \cup {e.host},
            !.batches[e.id] = Scored(@, e.ok)]

Started(s, e) == [s EXCEPT !.counts[e.host] = @ + 1, !.rows = @ \cup {e.host}]

\* MUTANT: an input that is queued again is still counted where it was.
RequeuedStays(s, e) == s

\* The host went away under an input, which will start again elsewhere.
Requeued(s, e) == [s EXCEPT !.counts[e.host] = Down(@), !.rows = @ \cup {e.host}]

\* _State.apply.
Applied(s, e) ==
  CASE e.ev = "batch" ->
         [s EXCEPT !.batches = Append(@, [done |-> 0, failed |-> 0, ended |-> FALSE])]
    [] e.ev = "start"   -> Started(s, e)
    [] e.ev = "requeue" -> Requeued(s, e)
    [] e.ev = "outcome" -> Counted(s, e)
    [] e.ev = "end"     -> [s EXCEPT !.batches[e.id].ended = TRUE]
    [] e.ev = "host"    -> [s EXCEPT !.hosts[e.host] = IF e.ok THEN "ready" ELSE "failed"]

\* _Tail.poll: the whole lines after the offset, one after the other; a line
\* still being written is left for the next time, so a poll may end with any.
Poll ==
  /\ unread # <<>>
  /\ shown' = Applied(shown, Head(unread))
  /\ unread' = Tail(unread)
  /\ UNCHANGED <<run, written, dropped, mode, modes>>

Next ==
  \/ (RunStep \/ SetMode) /\ UNCHANGED shown
  \/ Poll

Spec == Init /\ [][Next]_vars

\* The monitor's loop polls for ever, and a line being written gets written.
\* Nothing is asked of the run.
FairSpec == Spec /\ WF_vars(Poll)

-----------------------------------------------------------------------------
(* What _render makes of it                                                *)

BatchLive == \E b \in DOMAIN shown.batches : ~shown.batches[b].ended

\* MUTANT: a host that has not been heard of is not waited for.
ShownSyncingNever == FALSE

\* A host is looked for when it is in the file the monitor read, or an input
\* has run there: so the main process is too, of which nothing is ever heard.
\* What is heard of this machine's host is not used.
ShownSyncing ==
  BatchLive /\ \E h \in (Known.hosts \cup shown.rows) \ {Local} :
                 h = Main \/ shown.hosts[h] = "unheard"

ShownCaps ==
  capacities(mode, Known.workers,
             [r \in Remote |-> IF shown.hosts[r] = "ready" THEN Capacity[r] ELSE 0],
             ShownSyncing)

-----------------------------------------------------------------------------
(* Properties                                                              *)

UpToDate == unread = <<>> /\ ~dropped

Place == Host \cup {Main}
Score == [done : Nat, failed : Nat, ended : BOOLEAN]
Shown == [counts  : [Place -> Nat],  \* how many inputs run there
          rows    : SUBSET Place,    \* those that have counts
          batches : Seq(Score),
          hosts   : [Host -> {"unheard", "ready", "failed"}]]
Event == [ev : {"batch", "end"}, id : 1..Batches]
           \cup [ev : {"start", "requeue"}, host : Place]
           \cup [ev : {"outcome"}, id : 1..Batches, host : Place, ok : BOOLEAN]
           \cup [ev : {"host"}, host : Host, ok : BOOLEAN]

\* The type of every variable, and that a batch is under way unless none is.
\* No run; proved (MonitorProofs).
TypeOK ==
  /\ mode \in MODES /\ polled \in MODES \cup {"none"} /\ modes \in 0..MaxModes
  /\ batch \in 0..Batches
  /\ at \in {"between", "lookup", "turn", "report", "caps", "start", "here", "wait", "ending"}
  /\ at # "between" => batch > 0
  /\ todo \subseteq Input /\ again \subseteq Input
  /\ where \in [Input -> Place \cup {Nowhere}]
  /\ settled \in [1..Batches -> Score]
  /\ config \in Configs \cup {NoConfig}
  /\ state \in [Host -> {"none", "new", "started", "syncing", "ready", "failed"}]
  /\ reported \in [Host -> {"none", "ready", "failed"}]
  /\ caps \in [Host -> Nat]
  /\ written \in 0..MaxLines /\ unread \in Seq(Event) /\ dropped \in BOOLEAN
  /\ shown \in Shown
  /\ abandoned \in BOOLEAN

\* A monitor that has read every line shows what the run is doing: each
\* batch's outcomes and end, and on each host the inputs that run there;
\* through cached inputs, requeues, failures and runs in the main process.
\* Until a batch is ended over running inputs: their starts are never taken
\* back.
CountsAreTrue ==
  UpToDate =>
    /\ shown.batches = SubSeq(settled, 1, batch)
    /\ ~abandoned => \A h \in Host \cup {Main} :
         shown.counts[h] = Cardinality(Running(h))

\* What the monitor says of the next task is what happens to it: a turn of
\* the run takes of each remote host the capacity that is shown by a monitor
\* that has read all the turn has written under the same mode, if no host's
\* state has changed since it was written, and no sync has yet to begin.  It
\* takes of this machine what is shown, under any mode, if besides its host
\* is ready, the monitor read of the local file what the run goes by, and no
\* input has run in the main process (which is then shown as a host that
\* syncs).  In the first batch: what it reported of the hosts is never
\* withdrawn, and says nothing of the next's.
ForecastIsTrue ==
  [][TakeCaps /\ UpToDate /\ mode = polled /\ batch = 1 /\ News = {}
     /\ (\A r \in Remote : state[r] # "started") =>
       /\ \A r \in Remote : caps'[r] = ShownCaps[r]
       /\ state[Local] = "ready" /\ Known = config /\ Main \notin shown.rows
            => caps'[Local] = ShownCaps[Local]]_vars

\* Every batch whose end was reached is shown to have ended, unless the file
\* was full: also one that failed or was cut short, and whatever the next
\* batch goes on to write.
EndIsShown ==
  \A b \in 1..Batches :
    (settled[b].ended /\ ~dropped) ~>
      (b \in DOMAIN shown.batches /\ shown.batches[b].ended) \/ dropped

=============================================================================
