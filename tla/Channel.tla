------------------------------- MODULE Channel -------------------------------
(***************************************************************************)
(* A task's conversation: the handle in the main process (hosts.py), the   *)
(* host process that carries every worker's stream as a channel of one     *)
(* connection (hostprocess.py), and the worker (worker.py, remotestore.py, *)
(* protocol.py).  Values are the objects of a graph, named by their        *)
(* hashes; each side sends what the other has neither sent nor received.   *)
(*                                                                         *)
(* BOUNDS: MaxAsks requests of one task; MaxClears clears of the store;    *)
(* Pipe messages fit a pipe; a function prints once.  A message arrives    *)
(* whole: a prefix of one is kept in a buffer until the rest comes.  What  *)
(* a worker writes to is always read in the end (the forwarder, the reader *)
(* and its unbounded queue), so that direction has no bound.               *)
(***************************************************************************)
EXTENDS Integers, Sequences, FiniteSets, SequencesExt

CONSTANTS
  Chan,       \* the tasks, each a channel with a worker of its own
  Obj,        \* the objects: a set of positive integers
  Kids,       \* Kids[o]: the children a composite is encoded with, all below it
  Input,      \* Input[c]: the task's input
  Looked,     \* values of records the worker may read back from the store
  Made,       \* values the worker may make: recorded, sent or returned
  Param,      \* the argument of its @pure_local call
  Told,       \* the value of that call
  Pipe, MaxAsks, MaxClears,
  Directs,    \* whether workers use the store directory themselves: the choices
  Stuck,      \* workers whose import may wait for ever
  Forced,     \* whether a breakpoint forces the @pure_local call: the choices
  Uncarried,  \* values the protocol cannot carry
  Prints      \* what a function may print, by what the handle takes it for:
              \* "huge", the header of a message too long to be one, or
              \* "more", that of one whose rest is yet to come

ASSUME KidsAreBelow ==
  /\ Obj \subseteq Nat \ {0}
  /\ \A o \in Obj : Kids[o] \subseteq {k \in Obj : k < o}

ASSUME Given ==
  /\ IsFiniteSet(Chan) /\ Input \in [Chan -> Obj]
  /\ Looked \subseteq Obj /\ Made \subseteq Obj /\ Param \in Obj /\ Told \in Obj
  /\ Directs \subseteq BOOLEAN /\ Forced \subseteq BOOLEAN

VARIABLES
  main,     \* the batch: "on", "closing" (in the finally), "closed"
  verdict,  \* "none" or the exception the serving of a message raised
  sched,    \* frames the scheduler's thread has yet to write
  pool,     \* pool[c]: frames a pool thread has yet to write
  handle,   \* handle[c]: _Handle
  inbox,    \* inbox[c]: what the reader has queued for the handle
  outcome,  \* outcome[c]: what the scheduler took the task's end to be
  conn,     \* the connection: "up", "lost", then "gone" once the reader ended
  down,     \* the frames between the main process and the host process
  hostp,    \* the host process: whether it runs, and its table of workers
  stdin,    \* stdin[c]: the pipe to the worker
  stdout,   \* stdout[c]: what it has written and the forwarder has not read
  worker,   \* worker[c]
  direct,   \* whether HELLO gave the workers the store directory
  store,    \* the objects in the main process's store
  records,  \* the values call records in it are of
  clears,
  forced    \* history: a breakpoint forced a @pure_local call

mainVars == <<main, verdict, sched, pool, handle, outcome>>
wires    == <<conn, down, inbox>>
hostVars == <<hostp, stdin, stdout, worker>>
disk     == <<store, records, clears, forced>>
vars     == <<mainVars, wires, hostVars, disk, direct>>

-----------------------------------------------------------------------------
(* Values as objects *)

\* The objects a walk from v comes to that goes no further than those in stop.
Under(v, stop) ==
  LET U[o \in Obj] == IF o \in stop THEN {} ELSE {o} \cup UNION {U[k] : k \in Kids[o]}
  IN  U[v]

Closure(v) == Under(v, {})

\* The members of a set of numbers, the lowest first.
InOrder(S) ==
  [i \in 1..Cardinality(S) |-> CHOOSE o \in S : Cardinality({p \in S : p < o}) = i - 1]

\* pack: children before their parent, nothing under what the peer has.
Packed(v, have) == InOrder(Under(v, have))

\* unpack: an object not among those sent is the fallback's, whole.
Resolves(v, objects, fallback) ==
  \A o \in {v} \cup UNION {Kids[p] : p \in Under(v, Obj \ objects)} :
    o \in objects \/ Closure(o) \subseteq fallback

None == -1   \* no value yet
Nil  == 0    \* no value: a failure, a miss

Message(tag, v)   == [tag |-> tag, v |-> v, to |-> "none"]
Answer(v, asked)  == [tag |-> "REPLY", v |-> v, to |-> asked]
Objects(s)        == [i \in DOMAIN s |-> Message("OBJECT", s[i])]
Frame(tag, c, m)  == [tag |-> tag, c |-> c, m |-> m]
Data(c, s)        == [i \in DOMAIN s |-> Frame("DATA", c, s[i])]
Control(tag, c)   == Frame(tag, c, Message("none", Nil))

-----------------------------------------------------------------------------
Init ==
  /\ main = "on" /\ verdict = "none" /\ sched = <<>>
  /\ pool = [c \in Chan |-> <<>>]
  /\ handle = [c \in Chan |-> [st |-> "none", objects |-> {}, seen |-> {},
                               result |-> None, exit |-> "none", call |-> FALSE,
                               deaf |-> FALSE]]
  /\ inbox = [c \in Chan |-> <<>>]
  /\ outcome = [c \in Chan |-> "none"]
  /\ conn = "up" /\ down = <<>>
  /\ hostp = [up |-> TRUE, workers |-> {}]
  /\ stdin = [c \in Chan |-> <<>>]
  /\ stdout = [c \in Chan |-> <<>>]
  /\ worker = [c \in Chan |-> [pc |-> "none", objects |-> {}, ask |-> "none",
                               asks |-> 0, todo |-> <<>>, eof |-> FALSE, said |-> None,
                               printed |-> FALSE]]
  /\ direct \in Directs
  /\ \E old \in SUBSET Looked : store = UNION {Closure(v) : v \in old}
  /\ records = {} /\ clears = 0 /\ forced = FALSE

-----------------------------------------------------------------------------
(* The main process: a scheduler's thread that is not writing *)

Free == main = "on" /\ sched = <<>>

\* The exception leaves run_all: every running task is killed.
Opened == {c \in Chan : handle[c].st = "open"}
Kills  == LET cs == SetToSeq(Opened) IN [i \in DOMAIN cs |-> Control("KILL", cs[i])]

\* MUTANT: what is sent to a worker is not put in the store.
KeptNot(objects) == store

\* store_object: an object goes in as it was sent.
Kept(objects) == store \cup objects

\* MUTANT: a value is sent as if the worker had nothing.
ToSendAll(c, v) == Packed(v, {})

\* MUTANT: what this side has, the worker is thought to have.
ToSendUnstored(c, v) == Packed(v, handle[c].seen \cup store)

ToSend(c, v) == Packed(v, handle[c].seen)

\* Host.start: the worker never sends back what it received, so the input's
\* objects are kept for the handle and in the store.
Start(c) ==
  /\ Free /\ handle[c].st = "none"
  /\ LET sent == ToSend(c, Input[c])
     IN  /\ sched' = <<Control("OPEN", c)>> \o Data(c,
                       <<Message("HELLO", Nil)>> \o Objects(sent) \o <<Message("TASK", Input[c])>>)
         /\ handle' = [handle EXCEPT ![c].st = "open", ![c].objects = Range(sent),
                                     ![c].seen = Range(sent)]
         /\ store' = Kept(Range(sent))
  /\ UNCHANGED <<main, verdict, pool, outcome, wires, hostVars, records, clears, forced, direct>>

\* Host.start with an input the protocol cannot carry: pack raises before
\* any of it is sent.
StartRefused(c) ==
  /\ Free /\ handle[c].st = "none"
  /\ sched' = <<Control("OPEN", c), Frame("DATA", c, Message("HELLO", Nil)), Control("KILL", c)>>
  /\ handle' = [handle EXCEPT ![c].st = "open", ![c].result = Nil]
  /\ UNCHANGED <<main, verdict, pool, outcome, wires, hostVars, disk, direct>>

\* feed: the next item queued for the handle, a chunk unless it says how
\* the worker or the connection ended.
Fed(c, tag) ==
  /\ Free
  /\ inbox[c] # <<>>
  /\ Head(inbox[c]).tag = tag
  /\ inbox' = [inbox EXCEPT ![c] = Tail(@)]

FeedExit(c) ==
  /\ \E tag \in {"EXIT", "CLOSED"} :
       /\ Fed(c, tag)
       /\ handle' = [handle EXCEPT ![c].exit = IF @ = "none" THEN tag ELSE @]
  /\ UNCHANGED <<main, verdict, sched, pool, outcome, conn, down, hostVars, disk, direct>>

Parses(c) == handle[c].result = None /\ ~handle[c].deaf

\* A chunk after the result is not parsed.  One after output that was taken
\* for the start of a message is taken for the rest of it, which is none.
FeedLate(c) ==
  /\ ~Parses(c)
  /\ \E tag \in {"OBJECT", "RESULT", "RECORD", "GET_VALUE", "CALL", "PRINT"} : Fed(c, tag)
  /\ \/ UNCHANGED handle
     \/ handle[c].result = None /\ handle' = [handle EXCEPT ![c].result = Nil]
  /\ UNCHANGED <<main, verdict, sched, pool, outcome, conn, down, hostVars, disk, direct>>

\* A worker's messages go over its standard output, and so does what its
\* function prints: it fails the task, or swallows what follows.
FeedPrint(c) ==
  /\ Parses(c)
  /\ Fed(c, "PRINT")
  /\ handle' = IF Head(inbox[c]).to = "huge" THEN [handle EXCEPT ![c].result = Nil]
                                             ELSE [handle EXCEPT ![c].deaf = TRUE]
  /\ UNCHANGED <<main, verdict, sched, pool, outcome, conn, down, hostVars, disk, direct>>

FeedObject(c) ==
  /\ Parses(c)
  /\ Fed(c, "OBJECT")
  /\ LET o == Head(inbox[c]).v
     IN  /\ handle' = [handle EXCEPT ![c].objects = @ \cup {o}, ![c].seen = @ \cup {o}]
         /\ store' = Kept({o})
  /\ UNCHANGED <<main, verdict, sched, pool, outcome, conn, down, hostVars, records, clears, forced, direct>>

\* A CacheMiss of the fallback is no ProtocolError: feed lets it through,
\* out of run_all, whose finally kills what runs.
Escapes ==
  /\ verdict' = "CacheMiss"
  /\ main' = "closing"
  /\ sched' = Kills
  /\ UNCHANGED <<pool, handle>>

FeedResult(c) ==
  /\ Parses(c)
  /\ Fed(c, "RESULT")
  /\ LET v == Head(inbox[c]).v
     IN  IF v = Nil \/ Resolves(v, handle[c].objects, store)
           THEN /\ handle' = [handle EXCEPT ![c].result = v]
                /\ UNCHANGED <<main, verdict, sched, pool>>
           ELSE Escapes
  /\ UNCHANGED <<outcome, conn, down, hostVars, disk, direct>>

FeedRecord(c) ==
  /\ Parses(c)
  /\ Fed(c, "RECORD")
  /\ records' = records \cup {Head(inbox[c]).v}
  /\ UNCHANGED <<mainVars, conn, down, hostVars, store, clears, forced, direct>>

\* MUTANT: a miss is answered, and then answered again as a value.
RepliesToGetTwice(c, v) ==
  (IF Closure(v) \subseteq store THEN <<>> ELSE <<Answer(Nil, "GET_VALUE")>>)
    \o Objects(ToSend(c, v)) \o <<Answer(v, "GET_VALUE")>>

\* The value's objects and a reply, or the reason there are none.
RepliesToGet(c, v) ==
  IF Closure(v) \subseteq store
    THEN Objects(ToSend(c, v)) \o <<Answer(v, "GET_VALUE")>>
    ELSE <<Answer(Nil, "GET_VALUE")>>

\* What is sent here is not kept by the handle: the store has it.
FeedGet(c) ==
  /\ Parses(c)
  /\ Fed(c, "GET_VALUE")
  /\ LET replies == RepliesToGet(c, Head(inbox[c]).v)
     IN  /\ sched' = Data(c, replies)
         /\ handle' = [handle EXCEPT ![c].seen =
                         @ \cup {m.v : m \in {r \in Range(replies) : r.tag = "OBJECT"}}]
  /\ UNCHANGED <<main, verdict, pool, outcome, conn, down, hostVars, disk, direct>>

\* The arguments are unpacked on the scheduler's thread, the call goes to
\* a thread of the pool.
FeedCall(c) ==
  /\ Parses(c)
  /\ Fed(c, "CALL")
  /\ IF Resolves(Head(inbox[c]).v, handle[c].objects, store)
       THEN /\ handle' = [handle EXCEPT ![c].call = TRUE]
            /\ UNCHANGED <<main, verdict, sched, pool>>
       ELSE Escapes
  /\ UNCHANGED <<outcome, conn, down, hostVars, disk, direct>>

Feed(c) ==
  \/ FeedExit(c) \/ FeedLate(c) \/ FeedObject(c) \/ FeedResult(c)
  \/ FeedRecord(c) \/ FeedGet(c) \/ FeedCall(c) \/ FeedPrint(c)

-----------------------------------------------------------------------------
(* _run_call, on a pool thread *)

\* The call's value is in the store when its memo put it there, not when a
\* breakpoint forced it.  A value the protocol cannot carry raises after
\* the try: the thread's exception goes nowhere.
RunCall(c) ==
  /\ handle[c].call
  /\ IF Told \in Uncarried
       THEN /\ handle' = [handle EXCEPT ![c].call = FALSE]
            /\ UNCHANGED pool
       ELSE LET sent == ToSend(c, Told)
            IN  /\ pool' = [pool EXCEPT ![c] = Data(c, Objects(sent) \o <<Answer(Told, "CALL")>>)]
                /\ handle' = [handle EXCEPT ![c].call = FALSE, ![c].seen = @ \cup Range(sent)]
  /\ \E force \in Forced :
       /\ store' = IF force THEN store ELSE Kept(Closure(Told))
       /\ forced' = (forced \/ force)
  /\ UNCHANGED <<main, verdict, sched, outcome, wires, hostVars, records, clears, direct>>

\* MUTANT: the function's own exception is not caught on the pool's thread.
RunCallDies(c) ==
  /\ handle[c].call
  /\ handle' = [handle EXCEPT ![c].call = FALSE]
  /\ UNCHANGED <<main, verdict, sched, pool, outcome, wires, hostVars, disk, direct>>

RunCallFails(c) ==
  /\ handle[c].call
  /\ pool' = [pool EXCEPT ![c] = Data(c, <<Answer(Nil, "CALL")>>)]
  /\ handle' = [handle EXCEPT ![c].call = FALSE]
  /\ UNCHANGED <<main, verdict, sched, outcome, wires, hostVars, disk, direct>>

Calls(c) == RunCall(c) \/ RunCallFails(c)

-----------------------------------------------------------------------------
(* The scheduler's view of a handle, and the connection *)

\* MUTANT: the exit report is looked at before the result.
FinishedByExit(c) ==
  IF handle[c].exit = "EXIT" THEN "exit"
  ELSE IF handle[c].result = Nil THEN "failed"
  ELSE IF handle[c].result # None THEN "value"
  ELSE IF handle[c].exit = "CLOSED" THEN "closed" ELSE "none"

\* finished
Finished(c) ==
  IF handle[c].result = Nil THEN "failed"
  ELSE IF handle[c].result # None THEN "value"
  ELSE IF handle[c].exit = "EXIT" THEN "exit"
  ELSE IF handle[c].exit = "CLOSED" THEN "closed" ELSE "none"

\* release; a kill before it when the deadline has passed.
Collect(c) ==
  /\ Free /\ handle[c].st = "open"
  /\ Finished(c) # "none"
  /\ outcome' = [outcome EXCEPT ![c] = Finished(c)]
  /\ sched' = <<Control("CLOSE", c)>>
  /\ handle' = [handle EXCEPT ![c].st = "dropped"]
  /\ UNCHANGED <<main, verdict, pool, wires, hostVars, disk, direct>>

Expire(c) ==
  /\ Free /\ handle[c].st = "open"
  /\ Finished(c) = "none"
  /\ outcome' = [outcome EXCEPT ![c] = "timeout"]
  /\ sched' = <<Control("KILL", c), Control("CLOSE", c)>>
  /\ handle' = [handle EXCEPT ![c].st = "dropped"]
  /\ UNCHANGED <<main, verdict, pool, wires, hostVars, disk, direct>>

\* run_all's finally, after the last task, a failure or an interrupt.
Finish ==
  /\ Free
  /\ main' = "closing"
  /\ sched' = Kills
  /\ UNCHANGED <<verdict, pool, handle, outcome, wires, hostVars, disk, direct>>

\* Host.close, and the reader finds the stream ended.
CloseHost ==
  /\ main = "closing" /\ sched = <<>>
  /\ main' = "closed"
  /\ conn' = IF conn = "up" THEN "lost" ELSE conn
  /\ UNCHANGED <<verdict, sched, pool, handle, outcome, down, inbox, hostVars, disk, direct>>

\* The connection drops: some of what was written has been delivered.
Drop ==
  /\ main = "on" /\ conn = "up"
  /\ conn' = "lost"
  /\ \E n \in 0..Len(down) : down' = SubSeq(down, 1, n)
  /\ UNCHANGED <<mainVars, inbox, hostVars, disk, direct>>

ReaderEnds ==
  /\ conn = "lost"
  /\ conn' = "gone"
  /\ inbox' = [c \in Chan |-> IF handle[c].st = "open"
                               THEN Append(inbox[c], Message("CLOSED", Nil)) ELSE inbox[c]]
  /\ UNCHANGED <<mainVars, down, hostVars, disk, direct>>

\* _send: under the lock, a frame at a time, while the pipe has room; to a
\* closed connection it goes nowhere.
Room == conn # "up" \/ Len(down) < Pipe

Sent(frame) == down' = IF conn = "up" THEN Append(down, frame) ELSE down

SchedWrites ==
  /\ sched # <<>> /\ Room
  /\ Sent(Head(sched))
  /\ sched' = Tail(sched)
  /\ UNCHANGED <<main, verdict, pool, handle, outcome, conn, inbox, hostVars, disk, direct>>

PoolWrites(c) ==
  /\ pool[c] # <<>> /\ Room
  /\ Sent(Head(pool[c]))
  /\ pool' = [pool EXCEPT ![c] = Tail(@)]
  /\ UNCHANGED <<main, verdict, sched, handle, outcome, conn, inbox, hostVars, disk, direct>>

-----------------------------------------------------------------------------
(* The host process: one loop over what the main process sends, and for    *)
(* each worker a thread that forwards what it writes.                      *)

Running(c) == worker[c].pc \notin {"none", "ended", "reaped"}

Ended(c) == [worker EXCEPT ![c].pc = "ended", ![c].todo = <<>>]

Takes(tag) ==
  /\ hostp.up
  /\ down # <<>> /\ Head(down).tag = tag
  /\ down' = Tail(down)
  /\ UNCHANGED <<mainVars, conn, inbox, disk, direct>>

HostOpens ==
  /\ Takes("OPEN")
  /\ LET c == Head(down).c
     IN  /\ hostp' = [hostp EXCEPT !.workers = @ \cup {c}]
         /\ worker' = [worker EXCEPT ![c].pc = "starting"]
  /\ UNCHANGED <<stdin, stdout>>

\* A write to a worker that has exited is passed over; a write to a full
\* pipe waits, and the loop with it.
HostWrites ==
  /\ Takes("DATA")
  /\ LET c == Head(down).c
     IN  IF c \in hostp.workers /\ Running(c)
           THEN /\ Len(stdin[c]) < Pipe
                /\ stdin' = [stdin EXCEPT ![c] = Append(@, Head(down).m)]
           ELSE UNCHANGED stdin
  /\ UNCHANGED <<hostp, stdout, worker>>

HostCloses ==
  /\ Takes("CLOSE")
  /\ LET c == Head(down).c
     IN  IF c \in hostp.workers
           THEN worker' = [worker EXCEPT ![c].eof = TRUE]
           ELSE UNCHANGED worker
  /\ UNCHANGED <<hostp, stdin, stdout>>

HostKills ==
  /\ Takes("KILL")
  /\ LET c == Head(down).c
     IN  /\ hostp' = [hostp EXCEPT !.workers = @ \ {c}]
         /\ worker' = IF c \in hostp.workers /\ Running(c) THEN Ended(c) ELSE worker
  /\ UNCHANGED <<stdin, stdout>>

\* MUTANT: the connection closes and the workers are left to run.
HostLeaves ==
  /\ hostp.up /\ conn # "up" /\ down = <<>>
  /\ hostp' = [hostp EXCEPT !.up = FALSE]
  /\ UNCHANGED <<mainVars, wires, stdin, stdout, worker, disk, direct>>

\* The stream ended: every worker in the table is killed, then waited for.
HostEnds ==
  /\ hostp.up /\ conn # "up" /\ down = <<>>
  /\ hostp' = [hostp EXCEPT !.up = FALSE]
  /\ worker' = [c \in Chan |-> IF c \in hostp.workers /\ Running(c)
                                THEN Ended(c)[c] ELSE worker[c]]
  /\ UNCHANGED <<mainVars, wires, stdin, stdout, disk, direct>>

HostLoop == HostOpens \/ HostWrites \/ HostCloses \/ HostKills \/ HostEnds

\* What reaches the reader is queued for the handle of an open channel.
Queued(c, m) ==
  inbox' = IF conn = "up" /\ handle[c].st = "open"
             THEN [inbox EXCEPT ![c] = Append(@, m)] ELSE inbox

Forward(c) ==
  /\ stdout[c] # <<>>
  /\ Queued(c, Head(stdout[c]))
  /\ stdout' = [stdout EXCEPT ![c] = Tail(@)]
  /\ UNCHANGED <<mainVars, conn, down, hostp, stdin, worker, disk, direct>>

\* The end of its output is read after all of it; then it is waited for.
ForwardExit(c) ==
  /\ stdout[c] = <<>> /\ worker[c].pc = "ended"
  /\ Queued(c, Message("EXIT", Nil))
  /\ worker' = [worker EXCEPT ![c].pc = "reaped"]
  /\ UNCHANGED <<mainVars, conn, down, hostp, stdin, stdout, disk, direct>>

-----------------------------------------------------------------------------
(* The worker *)

Steps(c, from) ==
  /\ worker[c].pc = from
  /\ UNCHANGED <<mainVars, wires, hostp, clears, forced, direct>>

Reads(c, tag) ==
  /\ stdin[c] # <<>> /\ Head(stdin[c]).tag = tag
  /\ stdin' = [stdin EXCEPT ![c] = Tail(@)]
  /\ UNCHANGED <<stdout, store, records>>

\* A step that reads nothing and writes nothing itself.
Inside(c) == UNCHANGED <<stdin, stdout, store, records>>

TakesHello(c) ==
  /\ Steps(c, "starting")
  /\ Reads(c, "HELLO")
  /\ worker' = [worker EXCEPT ![c].pc = "importing"]

Accepts(c) ==
  /\ Steps(c, "importing")
  /\ worker' = [worker EXCEPT ![c].pc = "reading"]
  /\ Inside(c)

\* _send_error: the last thing a worker writes.
Fails(c) == [worker EXCEPT ![c].pc = "done",
                           ![c].todo = Append(@, Message("RESULT", Nil))]

Refuses(c) == Steps(c, "importing") /\ worker' = Fails(c) /\ Inside(c)

\* receive
Received(c, o) == [worker EXCEPT ![c].objects = @ \cup {o}]

TakesObject(c) ==
  /\ worker[c].pc \in {"reading", "asking"}
  /\ Steps(c, worker[c].pc)
  /\ Reads(c, "OBJECT")
  /\ worker' = Received(c, Head(stdin[c]).v)

\* Every value named to the worker is one it can rebuild.
Fallback == IF direct THEN store ELSE {}

TakesTask(c) ==
  /\ Steps(c, "reading")
  /\ Reads(c, "TASK")
  /\ worker' = IF Resolves(Head(stdin[c]).v, worker[c].objects, Fallback)
                 THEN [worker EXCEPT ![c].pc = "running"] ELSE Fails(c)

\* put_value: the objects the main process lacks are written out; a direct
\* worker writes them to the store itself.
ToPut(c, v) == IF direct THEN <<>> ELSE Packed(v, worker[c].objects)

Put(c, v, more, pc) ==
  LET w == worker[c]
  IN  worker' = [worker EXCEPT ![c] = [w EXCEPT !.todo = Objects(ToPut(c, v)) \o more,
                                                !.objects = w.objects \cup Range(ToPut(c, v)),
                                                !.pc = pc,
                                                !.ask = IF pc = "asking" THEN "CALL" ELSE w.ask,
                                                !.asks = w.asks + 1]]

Idle(c) == Steps(c, "running") /\ worker[c].todo = <<>> /\ worker[c].asks < MaxAsks

\* RemoteStore.get_value: what the worker has is not asked for.
AsksValue(c, v) ==
  /\ Idle(c)
  /\ ~direct /\ v \notin worker[c].objects
  /\ LET w == worker[c]
     IN  worker' = [worker EXCEPT ![c] = [w EXCEPT !.pc = "asking", !.ask = "GET_VALUE",
                                                   !.asks = w.asks + 1,
                                                   !.todo = <<Message("GET_VALUE", v)>>]]
  /\ Inside(c)

\* local_call
AsksCall(c) ==
  /\ Idle(c)
  /\ Put(c, Param, <<Message("CALL", Param)>>, "asking")
  /\ store' = IF direct THEN Kept(Closure(Param)) ELSE store
  /\ UNCHANGED <<stdin, stdout, records>>

\* A memoised call inside the task: its value, then its record.
Records(c, v) ==
  /\ Idle(c)
  /\ Put(c, v, IF direct THEN <<>> ELSE <<Message("RECORD", v)>>, "running")
  /\ IF direct THEN store' = Kept(Closure(v)) /\ records' = records \cup {v}
               ELSE UNCHANGED <<store, records>>
  /\ UNCHANGED <<stdin, stdout>>

\* The function returns: the result's objects, then its name.
Returns(c, v) ==
  /\ Steps(c, "running") /\ worker[c].todo = <<>>
  /\ Put(c, v, <<Message("RESULT", v)>>, "done")
  /\ store' = IF direct THEN Kept(Closure(v)) ELSE store
  /\ UNCHANGED <<stdin, stdout, records>>

Raises(c) ==
  /\ Steps(c, "running") /\ worker[c].todo = <<>>
  /\ worker' = Fails(c)
  /\ Inside(c)

\* _reply: a miss or a failure is the caller's to deal with.
TakesReply(c) ==
  /\ Steps(c, "asking")
  /\ worker[c].todo = <<>>
  /\ Reads(c, "REPLY")
  /\ worker' = [worker EXCEPT ![c].pc = "running", ![c].ask = "none"]

\* The end of the stream: nothing to run, or no answer to come.
FindsEnd(c) ==
  /\ worker[c].pc \in {"starting", "reading", "asking"}
  /\ Steps(c, worker[c].pc)
  /\ stdin[c] = <<>> /\ worker[c].eof
  /\ worker' = Ended(c)
  /\ Inside(c)

Writes(c) ==
  /\ worker[c].todo # <<>>
  /\ Steps(c, worker[c].pc)
  /\ LET m == Head(worker[c].todo)
     IN  /\ stdout' = [stdout EXCEPT ![c] = Append(@, m)]
         /\ worker' = [worker EXCEPT ![c].todo = Tail(@),
                                     ![c].said = IF m.tag = "RESULT" THEN m.v ELSE @]
  /\ UNCHANGED <<stdin, store, records>>

\* The function prints, once: what it has printed is flushed, by itself or
\* as its buffer is full.
PrintsOut(c) ==
  /\ Steps(c, "running") /\ worker[c].todo = <<>> /\ ~worker[c].printed
  /\ \E what \in Prints :
       stdout' = [stdout EXCEPT ![c] = Append(@, [Message("PRINT", Nil) EXCEPT !.to = what])]
  /\ worker' = [worker EXCEPT ![c].printed = TRUE]
  /\ UNCHANGED <<stdin, store, records>>

Exits(c) ==
  /\ Steps(c, "done") /\ worker[c].todo = <<>>
  /\ worker' = Ended(c)
  /\ Inside(c)

\* It dies between any two messages it writes, or never returns.
Crashes(c) ==
  /\ Running(c)
  /\ Steps(c, worker[c].pc)
  /\ worker' = Ended(c)
  /\ Inside(c)

Hangs(c) ==
  /\ worker[c].pc \in (IF c \in Stuck THEN {"importing", "running"} ELSE {"running"})
  /\ worker[c].todo = <<>>
  /\ Steps(c, worker[c].pc)
  /\ worker' = [worker EXCEPT ![c].pc = "hung"]
  /\ Inside(c)

Worker(c) ==
  \/ TakesHello(c) \/ Accepts(c) \/ Refuses(c) \/ TakesObject(c) \/ TakesTask(c)
  \/ \E v \in Looked : AsksValue(c, v)
  \/ AsksCall(c)
  \/ \E v \in Made : Records(c, v) \/ Returns(c, v)
  \/ Raises(c) \/ TakesReply(c) \/ FindsEnd(c) \/ Writes(c) \/ Exits(c)

-----------------------------------------------------------------------------
\* LocalStore.clear by someone else while the batch runs, as one step.
Clear ==
  /\ main = "on" /\ clears < MaxClears
  /\ store' = {} /\ records' = {} /\ clears' = clears + 1
  /\ UNCHANGED <<mainVars, wires, hostVars, forced, direct>>

Next ==
  \/ \E c \in Chan :
       \/ Start(c) \/ StartRefused(c) \/ Feed(c) \/ Calls(c) \/ Collect(c) \/ Expire(c)
       \/ PoolWrites(c) \/ Forward(c) \/ ForwardExit(c)
       \/ Worker(c) \/ PrintsOut(c) \/ Crashes(c) \/ Hangs(c)
  \/ Finish \/ CloseHost \/ Drop \/ ReaderEnds \/ SchedWrites \/ HostLoop \/ Clear

Spec == Init /\ [][Next]_vars

\* Each thread and process runs; a worker's own code may return, or not.
Fair ==
  /\ WF_vars(SchedWrites \/ CloseHost) /\ WF_vars(HostLoop) /\ WF_vars(ReaderEnds)
  /\ \A c \in Chan :
       /\ WF_vars(Feed(c) \/ Collect(c))
       /\ WF_vars(Calls(c) \/ PoolWrites(c))
       /\ WF_vars(Forward(c) \/ ForwardExit(c))
       /\ WF_vars(Worker(c))

FairSpec == Spec /\ Fair

-----------------------------------------------------------------------------
(* Properties *)

\* On their way to the worker of c, first to arrive first; a pool thread
\* and the scheduler's never write to one channel at once but to end it.
OnDown(frames, c) ==
  LET mine == InOrder({i \in DOMAIN frames : frames[i].tag = "DATA" /\ frames[i].c = c})
  IN  [k \in DOMAIN mine |-> frames[mine[k]].m]

ToWorker(c) ==
  stdin[c] \o OnDown(IF conn = "up" THEN down \o sched \o pool[c] ELSE down, c)

ToMain(c) == inbox[c] \o stdout[c] \o worker[c].todo

Count(messages, tags, v) ==
  Cardinality({i \in DOMAIN messages : messages[i].tag \in tags
                                       /\ (v = None \/ messages[i].v = v)})

Upward   == [tag : {"OBJECT", "RECORD", "GET_VALUE", "CALL"}, v : Obj, to : {"none"}]
              \cup [tag : {"RESULT"}, v : Obj \cup {Nil}, to : {"none"}]
              \cup [tag : {"EXIT", "CLOSED", "PRINT"}, v : {Nil}, to : {"none"} \cup Prints]
Downward == [tag : {"OBJECT", "TASK"}, v : Obj, to : {"none"}]
              \cup [tag : {"REPLY"}, v : Obj \cup {Nil}, to : {"GET_VALUE", "CALL"}]
              \cup [tag : {"none", "HELLO"}, v : {Nil}, to : {"none"}]
Frames   == [tag : {"OPEN", "DATA", "CLOSE", "KILL"}, c : Chan, m : Downward]

Handles == [st : {"none", "open", "dropped"}, objects : SUBSET Obj, seen : SUBSET Obj,
            result : Obj \cup {None, Nil}, exit : {"none", "EXIT", "CLOSED"}, call : BOOLEAN,
            deaf : BOOLEAN]
Workers == [pc : {"none", "starting", "importing", "reading", "running", "asking", "hung",
                  "done", "ended", "reaped"},
            objects : SUBSET Obj, ask : {"none", "GET_VALUE", "CALL"}, asks : Nat,
            todo : Seq(Upward), eof : BOOLEAN, said : Obj \cup {None, Nil}, printed : BOOLEAN]

\* The type of every variable: what each thread, pipe and process holds.
TypeOK ==
  /\ main \in {"on", "closing", "closed"} /\ verdict \in {"none", "CacheMiss"}
  /\ sched \in Seq(Frames) /\ down \in Seq(Frames) /\ pool \in [Chan -> Seq(Frames)]
  /\ handle \in [Chan -> Handles] /\ worker \in [Chan -> Workers]
  /\ inbox \in [Chan -> Seq(Upward)] /\ stdout \in [Chan -> Seq(Upward)]
  /\ stdin \in [Chan -> Seq(Downward)]
  /\ outcome \in [Chan -> {"none", "failed", "value", "exit", "closed", "timeout"}]
  /\ conn \in {"up", "lost", "gone"}
  /\ hostp \in [up : BOOLEAN, workers : SUBSET Chan]
  /\ store \subseteq Obj /\ records \subseteq Obj
  /\ direct \in BOOLEAN /\ clears \in Nat /\ forced \in BOOLEAN

\* "Nothing crosses twice" (_Handle, RemoteStore): an object on its way is
\* on its way once, and to a side that has neither sent nor received it,
\* whatever requests, replies and @pure_local calls came between.
CrossesOnce ==
  \A c \in Chan, o \in Obj :
    LET there == Count(ToWorker(c), {"OBJECT"}, o)
        back  == Count(ToMain(c), {"OBJECT"}, o)
    IN  /\ there + back \leq 1
        /\ there = 1 => o \notin worker[c].objects
        /\ back = 1 /\ handle[c].result = None => o \notin handle[c].seen

\* Every value named to a worker, its task's input or the value a reply
\* promises, is one it can rebuild from what has arrived when the name
\* does (unpack in serve, get_value and local_call).
NamedIsRebuilt ==
  \A c \in Chan : LET s == ToWorker(c) IN
    \A i \in DOMAIN s :
      s[i].tag \in {"TASK", "REPLY"} /\ s[i].v # Nil /\ worker[c].pc \notin {"ended", "reaped"}
        => Closure(s[i].v) \subseteq worker[c].objects
                 \cup {s[j].v : j \in {k \in 1..(i - 1) : s[k].tag = "OBJECT"}}

\* "One request, then its reply" (remotestore.py): of a worker's request,
\* its pool thread and its reply there is at most one in existence, only
\* while the worker waits, and a reply is to what it asked.
OneExchange ==
  \A c \in Chan :
    LET asked   == Count(ToMain(c), {"GET_VALUE", "CALL"}, None)
        called  == IF handle[c].call THEN 1 ELSE 0
        replies == Count(ToWorker(c), {"REPLY"}, None)
    IN  worker[c].pc \notin {"ended", "reaped"} =>
          /\ asked + called + replies \leq (IF worker[c].pc = "asking" THEN 1 ELSE 0)
          /\ \A m \in Range(ToWorker(c)) : m.tag = "REPLY" => m.to = worker[c].ask

\* What the scheduler takes the end of a task to be is what the worker
\* said: its value, its failure, and an exit only if it said neither; but
\* for a function that printed.
OutcomeIsTrue ==
  \A c \in Chan :
    /\ outcome[c] = "value"  => worker[c].said = handle[c].result /\ worker[c].said # Nil
    /\ outcome[c] = "failed" => worker[c].said \in {Nil, None} \/ worker[c].printed
    /\ outcome[c] = "exit"   => worker[c].said = None \/ worker[c].printed

\* README.md:157: "Side effects in a `@pure` function (printing, ...) are
\* permitted": a task whose function printed and returned has not failed.
\* No run; README, Refuted by hand.
PrintingIsHarmless ==
  \A c \in Chan : outcome[c] = "failed" => worker[c].said \in {Nil, None}

\* A call record is stored after everything its value is made of, though
\* the worker never sends back the objects it was sent: unless the store
\* was cleared, or a breakpoint forced a call that the worker has the value
\* of, a record's value is there whole.
RecordsAreWhole ==
  clears = 0 /\ ~forced => \A v \in records : Closure(v) \subseteq store

\* Serving a worker's messages raises nothing out of the batch: what a
\* worker names, the handle or the store has, unless the store was cleared
\* or a breakpoint forced a call.
NothingEscapes == clears = 0 /\ ~forced => verdict = "none"

\* What the documentation says of clearing the store under a run ("always
\* safe", "no semantic effect"): the batch goes on.  No run; README, Refuted
\* by hand.
ClearIsSafe == verdict = "none"

Killed(c) == outcome[c] = "timeout" \/ main = "closed"

\* A worker that asks is answered, or ends.
EveryAskEnds == \A c \in Chan : (worker[c].pc = "asking") ~> (worker[c].pc # "asking")

\* A worker killed at its deadline ends, whatever its function does; and
\* once the batch has closed its host, no worker of it is left.
KilledEnds ==
  \A c \in Chan : (outcome[c] = "timeout" \/ main = "closed")
                    ~> worker[c].pc \in {"none", "ended", "reaped"}

=============================================================================
