-------------------------------- MODULE Hosts --------------------------------
(***************************************************************************)
(* hosts.py: one connection to each host, the thread that syncs it and the *)
(* thread that reads it.  A host's sync runs once, on its own thread for a *)
(* remote host and on the scheduler's for this machine; its steps          *)
(* interleave with the reader's, which starts when the connection is made. *)
(*                                                                         *)
(* BOUND: one sync thread per host.  The code starts a thread for every    *)
(* host it still sees as "new", and a thread that has been started but has *)
(* not run leaves the host "new", so a second one is possible; its second  *)
(* connection is not modelled.                                             *)
(***************************************************************************)
EXTENDS Modes

CONSTANT Lossy  \* the hosts whose connection may drop

ASSUME LossyAreHosts == Lossy \subseteq Host

VARIABLES
  state,   \* state[h]: Host.state, what the scheduler sees
  sync,    \* sync[h]: where the host's sync thread is
  link,    \* link[h]: the connection, "none" until it is made
  reader   \* reader[h]: the reader thread

hostVars == <<state, sync, link, reader>>

State == {"new", "syncing", "ready", "failed"}
\* "spawned" has been started and has not run; "opening" is connected and
\* about to open the check channel; "passed" is about to set the state.
InSync == {"spawned", "launching", "opening", "checking", "passed"}
Sync   == InSync \cup {"none", "done"}
Link   == {"none", "up", "down"}
Reader == {"none", "reading", "sweeping", "gone"}

HostsTypeOK ==
  /\ state  \in [Host -> State]
  /\ sync   \in [Host -> Sync]
  /\ link   \in [Host -> Link]
  /\ reader \in [Host -> Reader]

HostsInit ==
  /\ state  = [h \in Host |-> "new"]
  /\ sync   = [h \in Host |-> "none"]
  /\ link   = [h \in Host |-> "none"]
  /\ reader = [h \in Host |-> "none"]

At(h, from, to) ==
  /\ sync[h] = from
  /\ sync' = [sync EXCEPT ![h] = to]

\* Host.sync begins: only now is the host "syncing".  Its returns for a
\* host that is already ready or failed need a second thread.
SyncBegins(h) ==
  /\ At(h, "spawned", "launching")
  /\ state' = [state EXCEPT ![h] = "syncing"]
  /\ UNCHANGED <<link, reader>>

\* MUTANT: a host takes tasks as soon as it is connected.
LaunchReady(h) ==
  /\ At(h, "launching", IF h = Local THEN "passed" ELSE "opening")
  /\ link' = [link EXCEPT ![h] = "up"]
  /\ reader' = [reader EXCEPT ![h] = "reading"]
  /\ state' = [state EXCEPT ![h] = "ready"]

\* _launch connects, reads the first message and starts the reader.  This
\* machine is not checked.
Launch(h) ==
  /\ At(h, "launching", IF h = Local THEN "passed" ELSE "opening")
  /\ link' = [link EXCEPT ![h] = "up"]
  /\ reader' = [reader EXCEPT ![h] = "reading"]
  /\ UNCHANGED state

\* No connection, a refused project, no first message, another Python.
LaunchFails(h) ==
  /\ At(h, "launching", "done")
  /\ state' = [state EXCEPT ![h] = "failed"]
  /\ UNCHANGED <<link, reader>>

OpenCheck(h) ==
  /\ At(h, "opening", "checking")
  /\ UNCHANGED <<state, link, reader>>

\* The check worker's acceptance reaches the sync thread, before a drop.
CheckPasses(h) ==
  /\ At(h, "checking", "passed")
  /\ link[h] = "up"
  /\ UNCHANGED <<state, link, reader>>

\* MUTANT: a check that fails leaves the host syncing.
CheckFailsSilently(h) ==
  /\ At(h, "checking", "done")
  /\ UNCHANGED <<state, link, reader>>

\* The worker refuses, the channel is closed, or nothing came in time.
CheckFails(h) ==
  /\ At(h, "checking", "done")
  /\ state' = [state EXCEPT ![h] = "failed"]
  /\ UNCHANGED <<link, reader>>

\* The last assignment of sync, whatever the reader has done since.
SyncReady(h) ==
  /\ At(h, "passed", "done")
  /\ state' = [state EXCEPT ![h] = "ready"]
  /\ UNCHANGED <<link, reader>>

SyncStep(h) ==
  \/ SyncBegins(h) \/ Launch(h) \/ LaunchFails(h)
  \/ OpenCheck(h) \/ CheckPasses(h) \/ CheckFails(h) \/ SyncReady(h)

Drop(h) ==
  /\ h \in Lossy
  /\ link[h] = "up"
  /\ link' = [link EXCEPT ![h] = "down"]
  /\ UNCHANGED <<state, sync, reader>>

\* The reader reads to the end of the stream: the host has failed.  What
\* it does next, waking every open channel, is a step of its own (Sweep,
\* in Batch, where the channels are).
ReaderEnds(h) ==
  /\ reader[h] = "reading"
  /\ link[h] = "down"
  /\ reader' = [reader EXCEPT ![h] = "sweeping"]
  /\ state' = [state EXCEPT ![h] = "failed"]
  /\ UNCHANGED <<sync, link>>

ReaderSwept(h) ==
  /\ reader[h] = "sweeping"
  /\ reader' = [reader EXCEPT ![h] = "gone"]
  /\ UNCHANGED <<state, sync, link>>

\* start_syncs: a thread for every remote host not yet tried.
SpawnSyncs ==
  sync' = [h \in Host |->
             IF h # Local /\ state[h] = "new" /\ sync[h] = "none"
               THEN "spawned" ELSE sync[h]]

\* MUTANT: a host that was never tried counts as syncing.
SyncingOrNew == \E r \in Remote : state[r] \in {"new", "syncing"}

\* syncing(): whether any remote host may yet take work.
Syncing == \E r \in Remote : state[r] = "syncing"

\* MUTANT: this machine's own host is not closed.
CloseRemotes ==
  /\ link' = [h \in Host |-> IF link[h] = "up" /\ h # Local THEN "down"
                                                         ELSE link[h]]
  /\ UNCHANGED <<state, sync, reader>>

\* _Hosts.close: the connections made so far.
CloseAll ==
  /\ link' = [h \in Host |-> IF link[h] = "up" THEN "down" ELSE link[h]]
  /\ UNCHANGED <<state, sync, reader>>

=============================================================================
