-------------------------------- MODULE RunLog --------------------------------
(***************************************************************************)
(* runlog.py: processes that run one script, the log each writes, and a    *)
(* reader of the newest.  The log must read as if the script had run from  *)
(* scratch, whatever was served from the store, which pure.py and          *)
(* parallel.py see to: a call that executes writes a line for each value   *)
(* it logs, one that is served writes a reference to its call record.      *)
(*                                                                         *)
(* The script and the calls are programs: sequences of items.  A record is *)
(* a value made of the records noted in it, as its name, a hash, is.       *)
(*                                                                         *)
(* BOUNDS: one reader, one worker for each process; MaxFaults clears,      *)
(* deletions of records, tasks lost, processes that die and calls forced   *)
(* by a breakpoint; values go only of the calls in Fleeting.  One process  *)
(* runs its script at a time: the others begin, clean and wait meanwhile,  *)
(* and records go at any time.  A batch is not made by a call of a batch,  *)
(* and its calls do not raise.                                             *)
(***************************************************************************)
EXTENDS Integers, Sequences, SequencesExt, Bags

CONSTANTS
  Proc,       \* the processes, each of which runs the script once
  None,
  Calls,      \* the memoised calls
  Script,     \* the script itself, which is no memoised call
  Body,       \* Body[c]: what c does
  Fleeting,   \* the calls whose values may be gone from the store
  MaxFaults

Log(v)    == [op |-> "log", v |-> v]
Do(c)     == [op |-> "call", c |-> c]
Outcome(c) == [op |-> "outcome", c |-> c]
Await(c)  == [op |-> "await", c |-> c]
Batch(cs) == [op |-> "batch", cs |-> cs, todo |-> <<>>]
Fail      == [op |-> "raise"]

VARIABLES
  records,    \* the call records in the store
  header, latest, exists,  \* the runs with a header, the newest, those with a directory
  lines,      \* lines[p]: the lines in the file of run p
  file,       \* file[p]: "no", "open", or "gone": open, and deleted
  at,         \* at[p]: what a process is doing
  old,        \* old[p]: the runs its cleaning has listed
  stack,      \* stack[p]: the main process's frames, the innermost last
  task,       \* task[p]: its worker's
  reader,     \* what a reader has read, of which run, up to which line
  faults,     \* the faults so far
  marred,     \* history: what has happened that the records do not show
  spoiled     \* history: the runs cleared, raced or with a lost task

dirs  == <<header, latest, exists, file>>
vars  == <<records, header, latest, exists, lines, file, at, old, stack, task,
           reader, faults, marred, spoiled>>

Frame(c, todo) == [call |-> c, left |-> todo, calls |-> <<>>, discard |-> FALSE]

NoReader == [of |-> None, offset |-> 0, items |-> EmptyBag, stale |-> 0]

Init ==
  /\ records = {}
  /\ header = {} /\ latest = None /\ exists = {}
  /\ lines = [p \in Proc |-> <<>>]
  /\ file = [p \in Proc |-> "no"]
  /\ at = [p \in Proc |-> "off"]
  /\ old = [p \in Proc |-> {}]
  /\ stack = [p \in Proc |-> <<>>]
  /\ task = [p \in Proc |-> <<>>]
  /\ reader = NoReader
  /\ faults = 0
  /\ marred = {} /\ spoiled = [p \in Proc |-> {}]

-----------------------------------------------------------------------------
(* Beginning a run: _begin                                                 *)

Beginning(p) == at[p] \in {"latest", "list", "clean"}

\* History: two runs whose beginnings overlap.
Race(p) ==
  spoiled' = [q \in Proc |-> IF \E r \in Proc \ {p} : Beginning(r) /\ q \in {p, r}
                               THEN spoiled[q] \cup {"raced"} ELSE spoiled[q]]

WriteHeader(p) ==
  /\ at[p] = "off"
  /\ at' = [at EXCEPT ![p] = "latest"]
  /\ header' = header \cup {p} /\ exists' = exists \cup {p}
  /\ Race(p)
  /\ UNCHANGED <<records, latest, lines, file, old, stack, task, reader, faults, marred>>

NamesLatest(p) ==
  /\ at[p] = "latest"
  /\ at' = [at EXCEPT ![p] = "list"]
  /\ latest' = p
  /\ UNCHANGED <<records, header, exists, lines, file, old, stack, task, reader, faults, marred, spoiled>>

\* MUTANT: and its own.
ListAll(p) ==
  /\ at[p] = "list"
  /\ at' = [at EXCEPT ![p] = "clean"]
  /\ old' = [old EXCEPT ![p] = exists]
  /\ UNCHANGED <<records, dirs, lines, stack, task, reader, faults, marred, spoiled>>

\* The runs there are, but its own.
ListOld(p) ==
  /\ at[p] = "list"
  /\ at' = [at EXCEPT ![p] = "clean"]
  /\ old' = [old EXCEPT ![p] = exists \ {p}]
  /\ UNCHANGED <<records, dirs, lines, stack, task, reader, faults, marred, spoiled>>

\* The directories of the runs in R go.
RemoveRuns(R) ==
  /\ header' = header \ R /\ exists' = exists \ R
  /\ file' = [q \in Proc |-> IF q \in R /\ file[q] = "open" THEN "gone" ELSE file[q]]

RemoveOld(p) ==
  /\ at[p] = "clean"
  /\ \E q \in old[p] :
       /\ RemoveRuns({q})
       /\ old' = [old EXCEPT ![p] = @ \ {q}]
  /\ UNCHANGED <<records, latest, lines, at, stack, task, reader, faults, marred, spoiled>>

Starts(p) ==
  /\ at[p] = "clean" /\ old[p] = {}
  /\ \A q \in Proc : at[q] # "run"
  /\ at' = [at EXCEPT ![p] = "run"]
  /\ stack' = [stack EXCEPT ![p] = <<Frame(Script, Body[Script])>>]
  /\ UNCHANGED <<records, dirs, lines, old, task, reader, faults, marred, spoiled>>

-----------------------------------------------------------------------------
(* Writing lines: _Run.write                                               *)

Entry(v) == [v |-> v]
Refer(r) == [record |-> r]

\* The file is opened by the first line, in a directory made again if need be.
Write(p, line) ==
  /\ lines' = [lines EXCEPT ![p] = IF file[p] = "gone" THEN @ ELSE Append(@, line)]
  /\ file' = [file EXCEPT ![p] = IF @ = "no" THEN "open" ELSE @]
  /\ exists' = IF file[p] = "no" THEN exists \cup {p} ELSE exists
  /\ UNCHANGED <<header, latest>>

NoLine == UNCHANGED <<lines, dirs>>

-----------------------------------------------------------------------------
(* Calls.  s is the stack of an actor, p the process whose log it writes,  *)
(* and who: its main process or its worker, whose lines come in order.     *)

IsCall(s, op) == s # <<>> /\ Last(s).left # <<>> /\ Head(Last(s).left).op = op

Item(s) == Head(Last(s).left)

GoesOn(s) == Append(Front(s), [Last(s) EXCEPT !.left = Tail(@)])

\* _note_call, in the frame a call is made from.
Noted(s, r) ==
  IF s = <<>> \/ Last(s).call = Script \/ Last(s).discard THEN s
  ELSE Append(Front(s), [Last(s) EXCEPT !.calls = Append(@, r)])

Of(c) == {r \in records : r.call = c}

\* The stacks of p: t stands for what the actor's becomes.
Main(p, t)   == stack' = [stack EXCEPT ![p] = t] /\ UNCHANGED task
Worker(p, t) == task' = [task EXCEPT ![p] = t] /\ UNCHANGED stack

Becomes(p, who, t) == IF who = "main" THEN Main(p, t) ELSE Worker(p, t)

StoreKept == UNCHANGED records
Rest == UNCHANGED <<at, old, reader, faults, spoiled>>

Logs(p, who, s) ==
  /\ IsCall(s, "log")
  /\ Write(p, Entry(Item(s).v))
  /\ Becomes(p, who, GoesOn(s))
  /\ StoreKept /\ UNCHANGED marred /\ Rest

\* The lookup finds a record, and its value.
Hit(p, who, s) ==
  /\ IsCall(s, "call")
  /\ \E r \in Of(Item(s).c) :
       /\ Write(p, Refer(r))
       /\ Becomes(p, who, Noted(GoesOn(s), r))
  /\ StoreKept /\ UNCHANGED marred /\ Rest

\* No record holds, or the value of the one that does is gone: the call runs.
Misses(c) == Of(c) = {} \/ c \in Fleeting

Miss(p, who, s) ==
  /\ IsCall(s, "call") /\ Misses(Item(s).c)
  /\ Becomes(p, who, Append(GoesOn(s), Frame(Item(s).c, Body[Item(s).c])))
  /\ NoLine /\ StoreKept /\ UNCHANGED marred /\ Rest

\* A breakpoint: neither this call nor those around it will be recorded.
Force(p) ==
  /\ IsCall(stack[p], "call") /\ faults < MaxFaults
  /\ LET c == Item(stack[p]).c
         t == Append(GoesOn(stack[p]), Frame(c, Body[c]))
     IN  Main(p, [n \in DOMAIN t |-> [t[n] EXCEPT !.discard = TRUE]])
  /\ faults' = faults + 1
  /\ NoLine /\ StoreKept /\ UNCHANGED <<marred, at, old, reader, spoiled>>

\* What a frame leaves: what it logged is what its call always logs.
RecordOf(fr) == [call |-> fr.call, calls |-> fr.calls]

Return(p, who, s) ==
  /\ s # <<>> /\ Last(s).call # Script /\ Last(s).left = <<>>
  /\ IF Last(s).discard
       THEN Becomes(p, who, Front(s)) /\ StoreKept
       ELSE /\ records' = records \cup {RecordOf(Last(s))}
            /\ Becomes(p, who, Noted(Front(s), RecordOf(Last(s))))
  /\ NoLine /\ UNCHANGED marred /\ Rest

\* The caller catches what a call raises.  Nothing is noted: what the call
\* logged, and what it called, is in no record of the calls around it.
Raise(p, who, s) ==
  /\ IsCall(s, "raise")
  /\ Becomes(p, who, Front(s))
  /\ marred' = IF Last(Front(s)).call = Script THEN marred ELSE marred \cup {"caught"}
  /\ NoLine /\ StoreKept /\ Rest

CallStep(p, who, s) ==
  \/ Logs(p, who, s) \/ Hit(p, who, s) \/ Miss(p, who, s)
  \/ Return(p, who, s) \/ Raise(p, who, s)

-----------------------------------------------------------------------------
(* Batches: run_all, from a frame of the main process                      *)

InBatch(s) == IsCall(s, "batch")

WithItem(s, items) == Append(Front(s), [Last(s) EXCEPT !.left = items \o Tail(@)])

\* _cached: the inputs are looked up first, one after the other.
LookUpInput(p) ==
  LET s == stack[p]
      b == Item(s)
      next == [b EXCEPT !.cs = Tail(@)]
  IN  /\ InBatch(s) /\ b.cs # <<>>
      /\ \/ /\ Misses(Head(b.cs))
            /\ Main(p, WithItem(s, <<[next EXCEPT !.todo = Append(@, Head(b.cs))]>>))
            /\ NoLine
         \/ \E r \in Of(Head(b.cs)) :
              /\ Write(p, Refer(r))
              /\ Main(p, Noted(WithItem(s, <<next>>), r))
      /\ StoreKept /\ UNCHANGED marred /\ Rest

Pending(p) == InBatch(stack[p]) /\ Item(stack[p]).cs = <<>> /\ Item(stack[p]).todo # <<>>

Without(b) == [b EXCEPT !.todo = Tail(@)]

\* A worker is given the next input.
StartTask(p) ==
  LET b == Item(stack[p]) IN
    /\ Pending(p)
    /\ stack' = [stack EXCEPT ![p] = WithItem(@, <<Await(Head(b.todo)), Without(b)>>)]
    /\ task' = [task EXCEPT ![p] = <<Frame(Script, <<Do(Head(b.todo))>>)>>]
    /\ NoLine /\ StoreKept /\ UNCHANGED marred /\ Rest

\* _run_here: the call notes itself, and then the recorder does.
RunHere(p) ==
  LET b == Item(stack[p]) IN
    /\ Pending(p)
    /\ Main(p, WithItem(stack[p], <<Do(Head(b.todo)), Outcome(Head(b.todo)), Without(b)>>))
    /\ marred' = IF Last(stack[p]).call = Script THEN marred ELSE marred \cup {"direct"}
    /\ NoLine /\ StoreKept /\ Rest

\* MUTANT: the worker's own note is kept too.
NotesTwice(p, s, c) ==
  IF Of(c) = {} THEN stack' = [stack EXCEPT ![p] = s] /\ marred' = marred \cup {"unnoted"}
  ELSE /\ \E r \in Of(c) : stack' = [stack EXCEPT ![p] = Noted(Noted(s, r), r)]
       /\ UNCHANGED marred

\* _BatchRecorder.outcome: the record that now holds is noted, if one does.
NotesOutcome(p, s, c) ==
  IF Of(c) = {}
    THEN /\ stack' = [stack EXCEPT ![p] = s]
         /\ marred' = marred \cup {"unnoted"}
    ELSE /\ \E r \in Of(c) : stack' = [stack EXCEPT ![p] = Noted(s, r)]
         /\ UNCHANGED marred

TaskEnds(p) ==
  /\ IsCall(stack[p], "await") /\ task[p] # <<>> /\ Len(task[p]) = 1 /\ Last(task[p]).left = <<>>
  /\ task' = [task EXCEPT ![p] = <<>>]
  /\ NotesOutcome(p, GoesOn(stack[p]), Item(stack[p]).c)
  /\ NoLine /\ StoreKept /\ Rest

DirectEnds(p) ==
  /\ IsCall(stack[p], "outcome")
  /\ NotesOutcome(p, GoesOn(stack[p]), Item(stack[p]).c)
  /\ NoLine /\ StoreKept /\ UNCHANGED task /\ Rest

\* The host drops under the task; it is queued again, and the lines it sent
\* are in the log.
LoseTask(p) ==
  /\ IsCall(stack[p], "await") /\ faults < MaxFaults
  /\ LET c == Item(stack[p]).c
         s == GoesOn(stack[p])
         b == Item(s)
     IN  stack' = [stack EXCEPT ![p] = WithItem(s, <<[b EXCEPT !.todo = <<c>> \o @]>>)]
  /\ task' = [task EXCEPT ![p] = <<>>]
  /\ faults' = faults + 1
  /\ spoiled' = [spoiled EXCEPT ![p] = @ \cup {"lost"}]
  /\ NoLine /\ StoreKept
  /\ UNCHANGED <<at, old, reader, marred>>

\* A batch with nothing left.
BatchReturns(p) ==
  /\ InBatch(stack[p]) /\ Item(stack[p]).cs = <<>> /\ Item(stack[p]).todo = <<>>
  /\ Main(p, GoesOn(stack[p]))
  /\ NoLine /\ StoreKept /\ UNCHANGED marred /\ Rest

-----------------------------------------------------------------------------
(* Ends, deaths, and deletions                                             *)

Finishes(p) ==
  /\ at[p] = "run" /\ Len(stack[p]) = 1 /\ Last(stack[p]).left = <<>>
  /\ at' = [at EXCEPT ![p] = "done"]
  /\ stack' = [stack EXCEPT ![p] = <<>>]
  /\ UNCHANGED <<records, dirs, lines, old, task, reader, faults, marred, spoiled>>

\* MUTANT: the worker of a process that dies goes on.
DiesAlone(p) ==
  /\ at[p] \notin {"off", "done", "dead"} /\ faults < MaxFaults
  /\ at' = [at EXCEPT ![p] = "dead"]
  /\ stack' = [stack EXCEPT ![p] = <<>>]
  /\ faults' = faults + 1
  /\ UNCHANGED <<records, dirs, lines, old, task, reader, marred, spoiled>>

\* Its worker goes with it: nobody writes its lines any more.
Dies(p) ==
  /\ at[p] \notin {"off", "done", "dead"} /\ faults < MaxFaults
  /\ at' = [at EXCEPT ![p] = "dead"]
  /\ stack' = [stack EXCEPT ![p] = <<>>] /\ task' = [task EXCEPT ![p] = <<>>]
  /\ faults' = faults + 1
  /\ UNCHANGED <<records, dirs, lines, old, reader, marred, spoiled>>

\* Somebody deletes the records of one function.
DeleteRecords ==
  /\ faults < MaxFaults
  /\ \E c \in {r.call : r \in records} : records' = records \ Of(c)
  /\ faults' = faults + 1
  /\ UNCHANGED <<dirs, lines, at, old, stack, task, reader, marred, spoiled>>

\* clear_cache, here or in another process: the logs go with the rest.
Clear ==
  /\ faults < MaxFaults
  /\ records' = {} /\ latest' = None
  /\ RemoveRuns(exists)
  /\ faults' = faults + 1
  /\ spoiled' = [p \in Proc |-> IF at[p] = "off" THEN spoiled[p] ELSE spoiled[p] \cup {"cleared"}]
  /\ UNCHANGED <<lines, at, old, stack, task, reader, marred>>

-----------------------------------------------------------------------------
(* Reading                                                                 *)

Total(f(_), s) == FoldSeq(LAMBDA x, acc : f(x) (+) acc, EmptyBag, s)

\* What a program logs, up to where it raises.
LoggedHere(items) ==
  LET Of1(i) == IF i.op = "log" THEN SetToBag({i.v}) ELSE EmptyBag
  IN  Total(Of1, items)

\* _expand: the records nested in r, and what r itself holds.
RECURSIVE Expand(_)
Expand(r) ==
  IF r \in records THEN Total(Expand, r.calls) (+) LoggedHere(Body[r.call]) ELSE EmptyBag

RECURSIVE Missing(_)
Missing(r) == r \notin records \/ \E n \in DOMAIN r.calls : Missing(r.calls[n])

Holds(line) == IF "v" \in DOMAIN line THEN SetToBag({line.v}) ELSE Expand(line.record)

Gone(line) == "record" \in DOMAIN line /\ Missing(line.record)

\* logs(): the newest run, if it has a header.
Open ==
  /\ reader = NoReader
  /\ latest # None /\ latest \in header
  /\ reader' = [reader EXCEPT !.of = latest]
  /\ UNCHANGED <<records, dirs, lines, at, old, stack, task, faults, marred, spoiled>>

\* MUTANT: a line still being written is left out, and its place read past.
AfterAll(n, all) == all

\* Reading goes on after the whole lines read.
After(n, all) == n

\* The last line may be still being written.
Refresh ==
  LET p == reader.of
      all == Len(lines[p])
  IN
    /\ p # None /\ p \in exists
    /\ \E n \in {all, all - 1} :
         /\ n > reader.offset
         /\ LET new == SubSeq(lines[p], reader.offset + 1, n)
            IN  reader' = [reader EXCEPT
                  !.offset = After(n, all),
                  !.items = @ (+) Total(Holds, new),
                  !.stale = @ + Len(SelectSeq(new, Gone))]
    /\ UNCHANGED <<records, dirs, lines, at, old, stack, task, faults, marred, spoiled>>

-----------------------------------------------------------------------------

MainStep(p) ==
  \/ CallStep(p, "main", stack[p])
  \/ Force(p) \/ LookUpInput(p) \/ StartTask(p) \/ RunHere(p) \/ TaskEnds(p) \/ DirectEnds(p)
  \/ LoseTask(p) \/ BatchReturns(p) \/ Finishes(p)

Next ==
  \/ \E p \in Proc :
       \/ WriteHeader(p) \/ NamesLatest(p) \/ ListOld(p) \/ RemoveOld(p) \/ Starts(p)
       \/ MainStep(p) \/ CallStep(p, "worker", task[p]) \/ Dies(p)
  \/ DeleteRecords \/ Clear \/ Open \/ Refresh

Spec == Init /\ [][Next]_vars

-----------------------------------------------------------------------------
(* Properties                                                              *)

\* The type of every variable, and what goes with what a process is doing.
TypeOK ==
  /\ header \subseteq exists /\ exists \subseteq Proc /\ latest \in Proc \cup {None}
  /\ \A r \in records : r.call \in Calls /\ \A n \in DOMAIN r.calls : r.calls[n].call \in Calls
  /\ \A p \in Proc :
       /\ at[p] \in {"off", "latest", "list", "clean", "run", "done", "dead"}
       /\ file[p] \in {"no", "open", "gone"} /\ old[p] \subseteq Proc
       /\ (stack[p] # <<>>) <=> (at[p] = "run")
       /\ task[p] # <<>> => IsCall(stack[p], "await")
  /\ reader.of \in Proc \cup {None} /\ IsABag(reader.items)
  /\ reader.of # None => reader.offset \in 0..Len(lines[reader.of])

\* What running c from scratch logs, calls and batches included.
RECURSIVE FromScratch(_)
FromScratch(c) ==
  LET OfItem(i) == CASE i.op = "log"   -> SetToBag({i.v})
                     [] i.op = "call"  -> FromScratch(i.c)
                     [] i.op = "batch" -> Total(FromScratch, i.cs)
                     [] OTHER          -> EmptyBag
  IN  Total(OfItem, Body[c])

\* All of the log of a run that has finished has been read.
HasRead(p) ==
  /\ reader.of = p /\ at[p] = "done"
  /\ p \in exists /\ reader.offset = Len(lines[p])

\* A finished run's log holds every value that running the script from
\* scratch logs, served calls' included, or says that records are gone;
\* whatever the interleaving of runs, readers, deletions, losses, breakpoints
\* and deaths.  But for calls that caught what another raised, and for a
\* batch whose record was deleted before it was noted.
LogIsWhole ==
  \A p \in Proc :
    HasRead(p) /\ marred \cap {"caught", "unnoted"} = {} =>
      FromScratch(Script) \sqsubseteq reader.items \/ reader.stale > 0

\* And it holds nothing else, nothing twice, but for a task that lost its
\* host, whose lines stay, and an input that ran in the main process, in a
\* call that was then recorded.
LogIsExact ==
  \A p \in Proc :
    HasRead(p) /\ marred = {} /\ "lost" \notin spoiled[p] =>
      /\ reader.items \sqsubseteq FromScratch(Script)
      /\ reader.stale = 0 => reader.items = FromScratch(Script)

\* The newest run can be opened from the moment it is named, wherever a
\* process that begins one dies, unless another began meanwhile, or the logs
\* were cleared under it.
LatestIsReadable ==
  latest # None /\ spoiled[latest] \cap {"raced", "cleared"} = {} => latest \in header

\* README.md:492-493: a log is "the complete set of logged values the last
\* run of that script produced, as if the code had run from scratch".
\* Refuted of RaisingBody, by hand (README).
ServedRunIsComplete ==
  \A p \in Proc :
    HasRead(p) /\ reader.stale = 0 => FromScratch(Script) \sqsubseteq reader.items

=============================================================================
