-------------------------------- MODULE Store --------------------------------
(***************************************************************************)
(* store.py: processes that share a store directory, each making memoised  *)
(* calls (a lookup, and on a miss the value and the record written), while *)
(* one may clear it.  A value is a graph of objects, each a file in a      *)
(* directory of its own; a record, named by minus its value's root, is a   *)
(* file in its function's directory.                                       *)
(*                                                                         *)
(* BOUNDS: MaxClears clears, MaxCrashes crashes.  One function, with one   *)
(* call for each value in Result.  A file is what its name says, or is not *)
(* there: a file the outside has damaged is not modelled.  POSIX: a        *)
(* replace of a file in use succeeds.  A clear deletes a directory, and    *)
(* what is in it, in one step.                                             *)
(***************************************************************************)
EXTENDS Integers, Sequences

CONSTANTS
  Proc,
  Obj,        \* the objects: a set of positive integers
  Kids,       \* Kids[o]: the objects a composite is encoded with, all below it
  Result,     \* the values of the calls
  MaxClears, MaxCrashes

ASSUME ObjectsAreGraded ==
  /\ Obj \subseteq Nat \ {0} /\ Result \subseteq Obj
  /\ \A o \in Obj : Kids[o] \subseteq {k \in Obj : k < o}

ASSUME BoundsAssumption == MaxClears \in Nat /\ MaxCrashes \in Nat

VARIABLES
  files,    \* the files that are there
  dirs,     \* the directories they are in
  docs,     \* docs[p]: the records of the function a process holds parsed
  op,       \* op[p]: what a process is doing
  clears, crashes,
  raised,   \* history: a write of a value or record has raised
  torn      \* history: a clear went on while a call was writing, or was cut short

vars == <<files, dirs, docs, op, clears, crashes, raised, torn>>

Record(v) == -v
RecordDir == 0
Dir(x) == IF x < 0 THEN RecordDir ELSE x

Idle == [at |-> "idle", v |-> 0, stack |-> <<>>, left |-> {}, temp |-> FALSE]

Init ==
  /\ files = {} /\ dirs = {}
  /\ docs = [p \in Proc |-> {}]
  /\ op = [p \in Proc |-> Idle]
  /\ clears = 0 /\ crashes = 0 /\ raised = FALSE /\ torn = FALSE

-----------------------------------------------------------------------------
(* A lookup: get_records, and get_value of what the call's record names *)

\* The directory is listed on every call.
Listed == {v \in Result : Record(v) \in files}

\* MUTANT: a composite is written before what it is made of.
PutShallow(x) == [x |-> x, step |-> "find", left |-> {}]

\* A file to put, and the objects to put before it.
Put(x) == [x |-> x, step |-> "find", left |-> IF x < 0 THEN {} ELSE Kids[x]]

\* MUTANT: the record is written before the value.
WritingRecordFirst(v) == [Idle EXCEPT !.at = "put", !.v = v, !.stack = <<Put(Record(v)), Put(v)>>]

\* The value, then the record.
Writing(v) == [Idle EXCEPT !.at = "put", !.v = v, !.stack = <<Put(v), Put(Record(v))>>]

\* MUTANT: a record is held under its name, not its call.
KnownByName(p, x) == [docs EXCEPT ![p] = IF x < 0 THEN @ \cup {x} ELSE @]

Known(p, x) == [docs EXCEPT ![p] = IF x < 0 THEN @ \cup {-x} ELSE @]

\* With the records it is served, a call's own or not.
Served(v, records) ==
  IF v \in records THEN [Idle EXCEPT !.at = "get", !.v = v, !.left = {v}] ELSE Writing(v)

\* unread: the listed ones that are not parsed.
Reading(v, records, unread) ==
  IF unread = {} THEN Served(v, records)
                 ELSE [Idle EXCEPT !.at = "read", !.v = v, !.left = unread]

\* What was parsed before is not read again, and dropped if it is not listed.
Lookup(p, v) ==
  /\ op[p].at = "idle"
  /\ docs' = [docs EXCEPT ![p] = @ \cap Listed]
  /\ op' = [op EXCEPT ![p] = Reading(v, docs[p] \cap Listed, Listed \ docs[p])]
  /\ UNCHANGED <<files, dirs, clears, crashes, raised>>

\* One that has gone since it was listed is not served.
Read(p) ==
  /\ op[p].at = "read"
  /\ \E v \in op[p].left :
       LET records == IF Record(v) \in files THEN docs[p] \cup {v} ELSE docs[p]
       IN  /\ docs' = [docs EXCEPT ![p] = records]
           /\ op' = [op EXCEPT ![p] = Reading(op[p].v, records, op[p].left \ {v})]
  /\ UNCHANGED <<files, dirs, clears, crashes, raised>>

\* get_value, an object at a time: one that is gone makes the whole value a
\* miss, and the call is computed.
Get(p) ==
  /\ op[p].at = "get"
  /\ \E o \in op[p].left :
       LET more == (op[p].left \ {o}) \cup Kids[o]
       IN  op' = [op EXCEPT ![p] = IF o \notin files THEN Writing(op[p].v)
                                   ELSE IF more = {} THEN Idle
                                   ELSE [op[p] EXCEPT !.left = more]]
  /\ UNCHANGED <<files, dirs, docs, clears, crashes, raised>>

-----------------------------------------------------------------------------
(* Writes: put_value, put_record and _atomic_write as a stack of files     *)
(* being put, the innermost first, each file operation a step              *)

Doing(p, step) ==
  /\ op[p].at = "put"
  /\ op[p].stack # <<>>
  /\ Head(op[p].stack).step = step

Top(p)      == Head(op[p].stack)
Popped(p)   == [op EXCEPT ![p].stack = Tail(@), ![p].temp = FALSE]
Now(p, top) == [op EXCEPT ![p].stack = <<top>> \o Tail(@)]

\* What is there is not written again, nor looked into.
Find(p) ==
  /\ Doing(p, "find")
  /\ IF Top(p).x \in files
       THEN /\ op' = Popped(p)
            /\ docs' = Known(p, Top(p).x)
       ELSE /\ op' = Now(p, [Top(p) EXCEPT !.step = "encode"])
            /\ UNCHANGED docs
  /\ UNCHANGED <<files, dirs, clears, crashes, raised>>

\* Encoding a composite puts what it is made of, one after the other.
Encode(p) ==
  /\ Doing(p, "encode")
  /\ \E k \in Top(p).left :
       op' = [op EXCEPT ![p].stack =
                <<Put(k), [Top(p) EXCEPT !.left = @ \ {k}]>> \o Tail(@)]
  /\ UNCHANGED <<files, dirs, docs, clears, crashes, raised>>

\* MUTANT: a record is written to a directory taken to be there.
MkdirOfObject(p) ==
  /\ Doing(p, "encode") /\ Top(p).left = {}
  /\ dirs' = IF Top(p).x > 0 THEN dirs \cup {Top(p).x} ELSE dirs
  /\ op' = Now(p, [Top(p) EXCEPT !.step = "temp"])
  /\ UNCHANGED <<files, docs, clears, crashes, raised>>

Mkdir(p) ==
  /\ Doing(p, "encode") /\ Top(p).left = {}
  /\ dirs' = dirs \cup {Dir(Top(p).x)}
  /\ op' = Now(p, [Top(p) EXCEPT !.step = "temp"])
  /\ UNCHANGED <<files, docs, clears, crashes, raised>>

\* The directory is gone again, or the temporary file is: FileNotFoundError,
\* out of the memoised call.
Raise(p) ==
  /\ raised' = TRUE
  /\ op' = [op EXCEPT ![p] = Idle]

MakeTemp(p) ==
  /\ Doing(p, "temp")
  /\ IF Dir(Top(p).x) \in dirs
       THEN /\ op' = [op EXCEPT ![p].stack = <<[Top(p) EXCEPT !.step = "replace"]>> \o Tail(@),
                                ![p].temp = TRUE]
            /\ UNCHANGED raised
       ELSE Raise(p)
  /\ UNCHANGED <<files, dirs, docs, clears, crashes>>

Replace(p) ==
  /\ Doing(p, "replace")
  /\ IF op[p].temp
       THEN /\ files' = files \cup {Top(p).x}
            /\ docs' = Known(p, Top(p).x)
            /\ op' = Popped(p)
            /\ UNCHANGED raised
       ELSE Raise(p) /\ UNCHANGED <<files, docs>>
  /\ UNCHANGED <<dirs, clears, crashes>>

Return(p) ==
  /\ op[p].at = "put" /\ op[p].stack = <<>>
  /\ op' = [op EXCEPT ![p] = Idle]
  /\ UNCHANGED <<files, dirs, docs, clears, crashes, raised>>

-----------------------------------------------------------------------------
(* clear, and crashes *)

\* rmtree lists the objects' directories, then deletes them one by one;
\* the records' after them.
ClearBegins(p) ==
  /\ op[p].at = "idle" /\ clears < MaxClears
  /\ clears' = clears + 1
  /\ op' = [op EXCEPT ![p] = [Idle EXCEPT !.at = "clear", !.left = dirs \ {RecordDir}]]
  /\ UNCHANGED <<files, dirs, docs, crashes, raised>>

\* A process about to replace a file in directory d has a temporary there.
TempIn(q, d) == op[q].temp /\ Dir(Top(q).x) = d

Delete(p, d, next) ==
  /\ files' = {x \in files : Dir(x) # d}
  /\ dirs' = dirs \ {d}
  /\ op' = [q \in Proc |-> IF q = p THEN next
                           ELSE IF TempIn(q, d) THEN [op[q] EXCEPT !.temp = FALSE] ELSE op[q]]

ClearObject(p) ==
  /\ op[p].at = "clear"
  /\ \E d \in op[p].left : Delete(p, d, [op[p] EXCEPT !.left = @ \ {d}])
  /\ UNCHANGED <<docs, clears, crashes, raised>>

ClearRecords(p) ==
  /\ op[p].at = "clear" /\ op[p].left = {}
  /\ Delete(p, RecordDir, Idle)
  /\ docs' = [docs EXCEPT ![p] = {}]
  /\ UNCHANGED <<clears, crashes, raised>>

\* A process dies between two file operations and another takes its place;
\* a temporary file it leaves is read by nobody.
Crash(p) ==
  /\ op[p].at # "idle" /\ crashes < MaxCrashes
  /\ crashes' = crashes + 1
  /\ op' = [op EXCEPT ![p] = Idle]
  /\ docs' = [docs EXCEPT ![p] = {}]
  /\ UNCHANGED <<files, dirs, clears, raised>>

Overlap == \E p, q \in Proc : op[p].at = "put" /\ op[q].at = "clear"

CutShort == crashes' # crashes /\ \E p \in Proc : op[p].at = "clear" /\ op'[p].at = "idle"

Step(p) ==
  \/ \E v \in Result : Lookup(p, v)
  \/ Read(p) \/ Get(p) \/ Find(p) \/ Encode(p) \/ Mkdir(p) \/ MakeTemp(p) \/ Replace(p) \/ Return(p)
  \/ ClearBegins(p) \/ ClearObject(p) \/ ClearRecords(p) \/ Crash(p)

Next == (\E p \in Proc : Step(p)) /\ torn' = (torn \/ Overlap' \/ CutShort)

Spec == Init /\ [][Next]_vars

-----------------------------------------------------------------------------
(* Properties *)

Named == Obj \cup {Record(v) : v \in Result}

\* The type of every variable.
TypeOK ==
  /\ files \subseteq Named
  /\ dirs \subseteq Obj \cup {RecordDir}
  /\ docs \in [Proc -> SUBSET Result]
  /\ \A p \in Proc :
       /\ op[p].at \in {"idle", "read", "get", "put", "clear"}
       /\ op[p].v \in Result \cup {0}
       /\ op[p].stack \in Seq([x : Named, step : {"find", "encode", "temp", "replace"},
                                left : SUBSET Obj])
       /\ op[p].left \subseteq Obj
       /\ op[p].temp \in BOOLEAN
  /\ clears \in 0..MaxClears /\ crashes \in 0..MaxCrashes
  /\ raised \in BOOLEAN /\ torn \in BOOLEAN

\* All that a value is made of is there.
Whole(v) ==
  \E S \in SUBSET (files \cap Obj) : v \in S /\ \A o \in S : Kids[o] \subseteq S

Referenced ==
  /\ \A o \in files \cap Obj : Kids[o] \subseteq files
  /\ \A v \in Result : Record(v) \in files => v \in files

\* Nothing on disk refers to what is not there: a composite's children and
\* a record's value come before it, whichever processes wrote them and
\* wherever one died.  A clear makes holes while it goes on, and leaves none
\* unless it met a write or was cut short.
WholeUnlessTorn ==
  ~torn /\ (\A p \in Proc : op[p].at # "clear") => Referenced

\* A call that was computed leaves its record and its value, whole, for the
\* next call: also after clears and crashes, unless a clear went on while
\* some call was writing, or was cut short.  (A composite found in place is not looked
\* into: the hole such a clear leaves is never filled.)
ComputedIsKept ==
  [][\A p \in Proc : Return(p) /\ ~torn =>
       Record(op[p].v) \in files /\ Whole(op[p].v)]_vars

\* A write fails only under a clear.
RaisesOnlyWhenTorn == raised => torn

\* What the documentation says of a clear by another process ("both are
\* always safe", "nothing to coordinate"): it fails no call.  No run; README,
\* Refuted by hand.
ClearFailsNoCall == ~raised

=============================================================================
