----------------------------- MODULE StoreProofs -----------------------------
(***************************************************************************)
(* What holds of Store for any processes, objects, clears and crashes.     *)
(*                                                                         *)
(* That nothing on disk refers to what is not there is not inductive: that *)
(* a file is put after its parts is a fact about the stacks of files being *)
(* put.  Stacked says it: of what a file on a stack refers to, each part   *)
(* is on disk, or still listed to be put, or the file just above.  Calm    *)
(* adds what a clear may find, and what it leaves, while none is torn.     *)
(***************************************************************************)
EXTENDS Store, TLAPS

Entry == [x : Named, step : {"find", "encode", "temp", "replace"}, left : SUBSET Obj]

Ops == [at : {"idle", "read", "get", "put", "clear"}, v : Result \cup {0}, stack : Seq(Entry),
        left : SUBSET Obj, temp : BOOLEAN]

Typed ==
  /\ files \subseteq Named
  /\ dirs \subseteq Obj \cup {RecordDir}
  /\ docs \in [Proc -> SUBSET Result]
  /\ op \in [Proc -> Ops]
  /\ clears \in 0..MaxClears /\ crashes \in 0..MaxCrashes
  /\ raised \in BOOLEAN /\ torn \in BOOLEAN
  /\ \A p \in Proc : op[p].at \in {"read", "get", "put"} => op[p].v \in Result

-----------------------------------------------------------------------------
(* Names: an object's is positive, a record's negative *)

LEMMA Names ==
  /\ \A o \in Obj : o \in Named /\ o \in Int /\ o > 0 /\ Kids[o] \subseteq Obj
  /\ \A v \in Result : v \in Obj /\ Record(v) \in Named /\ Record(v) \in Int
                         /\ Record(v) < 0 /\ -Record(v) = v
  /\ \A x \in Named : /\ x \in Int
                      /\ x < 0 => -x \in Result /\ x = Record(-x)
                      /\ ~(x < 0) => x \in Obj
  BY ObjectsAreGraded DEF Named, Record

LEMMA PutIsEntry ==
  ASSUME NEW x \in Named
  PROVE  Put(x) \in Entry /\ Put(x).x = x /\ Put(x).step = "find"
         /\ Put(x).left = (IF x < 0 THEN {} ELSE Kids[x])
  BY Names DEF Put, Entry

LEMMA WritingTyped ==
  ASSUME NEW v \in Result
  PROVE  /\ Writing(v) \in Ops
         /\ Writing(v).at = "put" /\ Writing(v).v = v
         /\ Writing(v).stack = <<Put(v), Put(Record(v))>>
  <1>1. v \in Named /\ Record(v) \in Named
    BY Names
  <1>2. <<Put(v), Put(Record(v))>> \in Seq(Entry)
    BY <1>1, PutIsEntry
  <1> QED
    BY <1>2 DEF Writing, Idle, Ops

LEMMA IdleTyped == Idle \in Ops /\ Idle.at = "idle"
  <1>1. <<>> \in Seq(Entry)
    OBVIOUS
  <1> QED
    BY <1>1 DEF Idle, Ops

\* What a lookup goes on with: records to read, the value, or a writing.
LEMMA ReadingTyped ==
  ASSUME NEW v \in Result, NEW S, NEW T \in SUBSET Obj
  PROVE  /\ Reading(v, S, T) \in Ops /\ Reading(v, S, T).v = v
         /\ Reading(v, S, T).at \in {"read", "get", "put"}
         /\ Reading(v, S, T).at = "put" => Reading(v, S, T) = Writing(v)
  <1> DEFINE got  == [Idle EXCEPT !.at = "get", !.v = v, !.left = {v}]
             read == [Idle EXCEPT !.at = "read", !.v = v, !.left = T]
  <1>1. v \in Obj
    BY Names
  <1>2. got \in Ops /\ got.v = v /\ got.at = "get"
    BY <1>1, IdleTyped DEF Ops
  <1>3. read \in Ops /\ read.v = v /\ read.at = "read"
    BY <1>1, IdleTyped DEF Ops
  <1>4. Writing(v) \in Ops /\ Writing(v).v = v /\ Writing(v).at = "put"
    BY WritingTyped
  <1>5. Reading(v, S, T) \in {got, read, Writing(v)}
    BY DEF Reading, Served
  <1> HIDE DEF got, read
  <1> QED
    BY <1>2, <1>3, <1>4, <1>5

\* The file a writing process is at.
LEMMA TopTyped ==
  ASSUME Typed, NEW p \in Proc, NEW s, Doing(p, s)
  PROVE  /\ op[p] \in Ops /\ op[p].at = "put" /\ op[p].v \in Result
         /\ op[p].stack \in Seq(Entry) /\ op[p].stack # <<>>
         /\ Top(p) \in Entry /\ Top(p) = op[p].stack[1] /\ Top(p).step = s
         /\ Top(p).x \in Named /\ Top(p).left \subseteq Obj
         /\ Tail(op[p].stack) \in Seq(Entry)
  <1>1. op[p] \in Ops /\ op[p].at = "put" /\ op[p].v \in Result
    BY DEF Typed, Doing
  <1>2. op[p].stack \in Seq(Entry) /\ op[p].stack # <<>>
    BY <1>1 DEF Ops, Doing
  <1>3. Top(p) \in Entry /\ Top(p) = op[p].stack[1] /\ Tail(op[p].stack) \in Seq(Entry)
    BY <1>2 DEF Top
  <1> QED
    BY <1>1, <1>2, <1>3 DEF Entry, Doing, Top

-----------------------------------------------------------------------------
(* Type correctness *)

\* A step that gives one process a new operation of the right type, and
\* leaves the bounded counters alone, keeps the type.
LEMMA OneProcessTyped ==
  ASSUME Typed, NEW p \in Proc, NEW o \in Ops, op' = [op EXCEPT ![p] = o],
         o.at \in {"read", "get", "put"} => o.v \in Result,
         files' \subseteq Named, dirs' \subseteq Obj \cup {RecordDir},
         docs' \in [Proc -> SUBSET Result],
         clears' \in 0..MaxClears, crashes' \in 0..MaxCrashes,
         raised' \in BOOLEAN, torn' \in BOOLEAN
  PROVE  Typed'
  <1>1. op' \in [Proc -> Ops]
    BY DEF Typed
  <1>2. ASSUME NEW q \in Proc, op'[q].at \in {"read", "get", "put"}
        PROVE  op'[q].v \in Result
    <2>1. CASE q = p
      BY <2>1, <1>2 DEF Typed
    <2>2. CASE q # p
      <3>1. op'[q] = op[q]
        BY <2>2 DEF Typed
      <3> QED
        BY <3>1, <1>2 DEF Typed
    <2> QED
      BY <2>1, <2>2
  <1> QED
    BY <1>1, <1>2 DEF Typed

\* What a writing process goes on with: another stack.
LEMMA StackTyped ==
  ASSUME Typed, NEW p \in Proc, op[p].at = "put", NEW t \in Seq(Entry), NEW b \in BOOLEAN
  PROVE  LET o == [op[p] EXCEPT !.stack = t, !.temp = b]
         IN  /\ o \in Ops /\ o.at = "put" /\ o.v = op[p].v /\ o.v \in Result
             /\ o.stack = t /\ o.temp = b
  <1>1. op[p] \in Ops /\ op[p].v \in Result
    BY DEF Typed
  <1> QED
    BY <1>1 DEF Ops

\* A step that only gives a writing process another stack.
LEMMA StackStepTyped ==
  ASSUME Typed, NEW p \in Proc, op[p].at = "put", NEW t \in Seq(Entry), NEW b \in BOOLEAN,
         op' = [op EXCEPT ![p] = [op[p] EXCEPT !.stack = t, !.temp = b]],
         files' \subseteq Named, dirs' \subseteq Obj \cup {RecordDir},
         docs' \in [Proc -> SUBSET Result],
         UNCHANGED <<clears, crashes, raised>>, torn' \in BOOLEAN
  PROVE  Typed'
  <1> DEFINE o == [op[p] EXCEPT !.stack = t, !.temp = b]
  <1>1. o \in Ops /\ o.v \in Result
    BY StackTyped
  <1>2. op' = [op EXCEPT ![p] = o]
    OBVIOUS
  <1>3. clears' \in 0..MaxClears /\ crashes' \in 0..MaxCrashes /\ raised' \in BOOLEAN
    BY DEF Typed
  <1> HIDE DEF o
  <1> QED
    BY <1>1, <1>2, <1>3, OneProcessTyped

LEMMA KnownTyped ==
  ASSUME Typed, NEW p \in Proc, NEW x \in Named
  PROVE  Known(p, x) \in [Proc -> SUBSET Result]
  BY Names DEF Known, Typed

\* The operations Popped and Now give.
LEMMA PoppedIs ==
  ASSUME Typed, NEW p \in Proc, NEW s, Doing(p, s)
  PROVE  /\ Popped(p) = [op EXCEPT ![p] =
                           [op[p] EXCEPT !.stack = Tail(op[p].stack), !.temp = FALSE]]
         /\ Tail(op[p].stack) \in Seq(Entry)
  BY TopTyped DEF Popped, Typed

LEMMA NowIs ==
  ASSUME Typed, NEW p \in Proc, NEW s, Doing(p, s), NEW e \in Entry
  PROVE  /\ Now(p, e) = [op EXCEPT ![p] =
                 [op[p] EXCEPT !.stack = <<e>> \o Tail(op[p].stack), !.temp = op[p].temp]]
         /\ <<e>> \o Tail(op[p].stack) \in Seq(Entry)
         /\ op[p].temp \in BOOLEAN
  <1>1. op[p] \in Ops /\ Tail(op[p].stack) \in Seq(Entry)
    BY TopTyped
  <1>2. <<e>> \in Seq(Entry)
    OBVIOUS
  <1>3. <<e>> \o Tail(op[p].stack) \in Seq(Entry)
    BY <1>1, <1>2
  <1>4. op[p].temp \in BOOLEAN
    BY <1>1 DEF Ops
  <1>5. [op[p] EXCEPT !.stack = <<e>> \o Tail(op[p].stack), !.temp = op[p].temp]
          = [op[p] EXCEPT !.stack = <<e>> \o Tail(op[p].stack)]
    BY <1>1 DEF Ops
  <1> QED
    BY <1>3, <1>4, <1>5 DEF Now, Typed

LEMMA PopTyped ==
  ASSUME Typed, NEW p \in Proc, NEW s, Doing(p, s),
         op' = Popped(p), docs' = Known(p, Top(p).x), files' \subseteq Named,
         UNCHANGED <<dirs, clears, crashes, raised>>, torn' \in BOOLEAN
  PROVE  Typed'
  <1>1. op[p].at = "put" /\ Top(p).x \in Named
    BY TopTyped
  <1>2. /\ op' = [op EXCEPT ![p] = [op[p] EXCEPT !.stack = Tail(op[p].stack), !.temp = FALSE]]
        /\ Tail(op[p].stack) \in Seq(Entry)
    BY PoppedIs
  <1>3. docs' \in [Proc -> SUBSET Result]
    BY <1>1, KnownTyped
  <1>4. dirs' \subseteq Obj \cup {RecordDir}
    BY DEF Typed
  <1> QED
    BY <1>1, <1>2, <1>3, <1>4, StackStepTyped

LEMMA NowTyped ==
  ASSUME Typed, NEW p \in Proc, NEW s, Doing(p, s), NEW e \in Entry,
         op' = Now(p, e), dirs' \subseteq Obj \cup {RecordDir},
         UNCHANGED <<files, docs, clears, crashes, raised>>, torn' \in BOOLEAN
  PROVE  Typed'
  <1>1. op[p].at = "put"
    BY TopTyped
  <1> DEFINE t == <<e>> \o Tail(op[p].stack)
  <1>2. /\ op' = [op EXCEPT ![p] = [op[p] EXCEPT !.stack = t, !.temp = op[p].temp]]
        /\ t \in Seq(Entry) /\ op[p].temp \in BOOLEAN
    BY NowIs
  <1>3. files' \subseteq Named /\ docs' \in [Proc -> SUBSET Result]
    BY DEF Typed
  <1> HIDE DEF t
  <1> QED
    BY <1>1, <1>2, <1>3, StackStepTyped

\* A file put anew is one a stack may hold.
LEMMA StepTyped ==
  ASSUME Typed, NEW p \in Proc, NEW s, Doing(p, s),
         NEW t \in {"find", "encode", "temp", "replace"}
  PROVE  LET e == [Top(p) EXCEPT !.step = t]
         IN  e \in Entry /\ e.x = Top(p).x /\ e.left = Top(p).left /\ e.step = t
  BY TopTyped DEF Entry

LEMMA Pushed ==
  ASSUME Typed, NEW p \in Proc, Doing(p, "encode"), NEW k \in Top(p).left
  PROVE  LET e == [Top(p) EXCEPT !.left = @ \ {k}]
         IN  /\ e \in Entry /\ e.x = Top(p).x /\ e.step = "encode"
             /\ e.left = Top(p).left \ {k}
             /\ k \in Obj /\ Put(k) \in Entry
             /\ <<Put(k), e>> \o Tail(op[p].stack) \in Seq(Entry)
  <1> DEFINE e == [Top(p) EXCEPT !.left = @ \ {k}]
  <1>1. Top(p) \in Entry /\ Top(p).left \subseteq Obj /\ Tail(op[p].stack) \in Seq(Entry)
        /\ Top(p).step = "encode"
    BY TopTyped
  <1>2. e \in Entry /\ e.x = Top(p).x /\ e.step = "encode" /\ e.left = Top(p).left \ {k}
    BY <1>1 DEF Entry
  <1>3. k \in Obj /\ Put(k) \in Entry
    BY <1>1, Names, PutIsEntry
  <1>4. <<Put(k), e>> \in Seq(Entry)
    BY <1>2, <1>3
  <1>5. <<Put(k), e>> \o Tail(op[p].stack) \in Seq(Entry)
    BY <1>1, <1>4
  <1> QED
    BY <1>2, <1>3, <1>5

\* What a clear deletes leaves types as they are, the other processes' at
\* what they were at.
LEMMA DeleteTyped ==
  ASSUME Typed, NEW p \in Proc, NEW d, NEW o \in Ops, Delete(p, d, o),
         o.at \notin {"read", "get", "put"},
         docs' \in [Proc -> SUBSET Result],
         UNCHANGED <<clears, crashes, raised>>, torn' \in BOOLEAN
  PROVE  Typed'
  <1>1. ASSUME NEW q \in Proc
        PROVE  op'[q] \in Ops /\ (q # p => op'[q].at = op[q].at /\ op'[q].v = op[q].v)
               /\ (q = p => op'[q] = o)
    BY DEF Delete, Typed, Ops
  <1>2. op' = [q \in Proc |-> op'[q]]
    BY DEF Delete
  <1>3. op' \in [Proc -> Ops]
    BY <1>1, <1>2
  <1>4. files' \subseteq Named /\ dirs' \subseteq Obj \cup {RecordDir}
    BY DEF Delete, Typed
  <1> QED
    BY <1>1, <1>3, <1>4 DEF Typed

LEMMA TypedInit == Init => Typed
  <1> SUFFICES ASSUME Init PROVE Typed
    OBVIOUS
  <1>1. op \in [Proc -> Ops] /\ \A p \in Proc : op[p].at = "idle"
    BY IdleTyped DEF Init
  <1>2. clears \in 0..MaxClears /\ crashes \in 0..MaxCrashes
    BY BoundsAssumption DEF Init
  <1> QED
    BY <1>1, <1>2 DEF Init, Typed

\* torn is a truth value after every step, whatever it becomes.
LEMMA TypedStep ==
  ASSUME Typed, Next
  PROVE  Typed'
  <1> PICK p \in Proc : Step(p)
    BY DEF Next
  <1>t. torn' \in BOOLEAN
    BY DEF Next
  <1>o. op[p] \in Ops
    BY DEF Typed
  <1>f. /\ files \subseteq Named /\ dirs \subseteq Obj \cup {RecordDir}
        /\ docs \in [Proc -> SUBSET Result]
    BY DEF Typed
  <1>1. ASSUME NEW v \in Result, Lookup(p, v)
        PROVE  Typed'
    <2> DEFINE o == Reading(v, docs[p] \cap Listed, Listed \ docs[p])
    <2>1. o \in Ops /\ o.v = v
      BY Names, ReadingTyped DEF Listed
    <2>2. op' = [op EXCEPT ![p] = o]
      BY <1>1 DEF Lookup
    <2>3. docs' \in [Proc -> SUBSET Result]
      BY <1>1 DEF Lookup, Listed, Typed
    <2>4. UNCHANGED <<files, dirs, clears, crashes, raised>>
      BY <1>1 DEF Lookup
    <2> HIDE DEF o
    <2> QED
      BY <2>1, <2>2, <2>3, <2>4, <1>t, OneProcessTyped DEF Typed
  <1>13. CASE Read(p)
    <2>1. PICK v \in op[p].left :
            LET S == IF Record(v) \in files THEN docs[p] \cup {v} ELSE docs[p]
            IN  /\ docs' = [docs EXCEPT ![p] = S]
                /\ op' = [op EXCEPT ![p] = Reading(op[p].v, S, op[p].left \ {v})]
      BY <1>13 DEF Read
    <2> DEFINE S == IF Record(v) \in files THEN docs[p] \cup {v} ELSE docs[p]
               o == Reading(op[p].v, S, op[p].left \ {v})
    <2>2. op[p].v \in Result /\ op[p].left \subseteq Obj
      BY <1>13 DEF Read, Typed, Ops
    <2>3. o \in Ops /\ o.v = op[p].v
      BY <2>2, ReadingTyped
    <2>4. Record(v) \in files => v \in Result
      BY <2>2, Names DEF Typed, Record
    <2>5. docs' \in [Proc -> SUBSET Result]
      BY <2>1, <2>4 DEF Typed
    <2>6. op' = [op EXCEPT ![p] = o]
      BY <2>1
    <2>7. UNCHANGED <<files, dirs, clears, crashes, raised>>
      BY <1>13 DEF Read
    <2> HIDE DEF o
    <2> QED
      BY <2>2, <2>3, <2>5, <2>6, <2>7, <1>t, OneProcessTyped DEF Typed
  <1>2. CASE Get(p)
    <2>1. PICK k \in op[p].left :
            op' = [op EXCEPT ![p] =
                     IF k \notin files THEN Writing(op[p].v)
                     ELSE IF (op[p].left \ {k}) \cup Kids[k] = {} THEN Idle
                     ELSE [op[p] EXCEPT !.left = (op[p].left \ {k}) \cup Kids[k]]]
      BY <1>2 DEF Get
    <2> DEFINE o == IF k \notin files THEN Writing(op[p].v)
                    ELSE IF (op[p].left \ {k}) \cup Kids[k] = {} THEN Idle
                    ELSE [op[p] EXCEPT !.left = (op[p].left \ {k}) \cup Kids[k]]
    <2>2. op[p].v \in Result /\ op[p].at = "get"
      BY <1>2 DEF Get, Typed
    <2>3. Kids[k] \subseteq Obj
      BY <1>o, Names DEF Ops
    <2>4. o \in Ops /\ (o.at \in {"read", "get", "put"} => o.v \in Result)
      BY <1>o, <2>2, <2>3, WritingTyped, IdleTyped DEF Ops
    <2>5. op' = [op EXCEPT ![p] = o]
      BY <2>1
    <2>6. UNCHANGED <<files, dirs, docs, clears, crashes, raised>>
      BY <1>2 DEF Get
    <2> HIDE DEF o
    <2> QED
      BY <2>4, <2>5, <2>6, <1>t, OneProcessTyped DEF Typed
  <1>3. CASE Find(p)
    <2>0. Doing(p, "find") /\ UNCHANGED <<files, dirs, clears, crashes, raised>>
      BY <1>3 DEF Find
    <2>1. Top(p).x \in Named
      BY <2>0, TopTyped
    <2>2. CASE Top(p).x \in files
      <3>1. op' = Popped(p) /\ docs' = Known(p, Top(p).x)
        BY <1>3, <2>2 DEF Find
      <3> QED
        BY <2>0, <3>1, <1>f, <1>t, PopTyped
    <2>3. CASE Top(p).x \notin files
      <3>1. op' = Now(p, [Top(p) EXCEPT !.step = "encode"]) /\ UNCHANGED docs
        BY <1>3, <2>3 DEF Find
      <3>2. [Top(p) EXCEPT !.step = "encode"] \in Entry
        BY <2>0, StepTyped
      <3> QED
        BY <2>0, <3>1, <3>2, <1>f, <1>t, NowTyped
    <2> QED
      BY <2>2, <2>3
  <1>4. CASE Encode(p)
    <2>0. Doing(p, "encode") /\ UNCHANGED <<files, dirs, docs, clears, crashes, raised>>
      BY <1>4 DEF Encode
    <2>1. PICK k \in Top(p).left :
            op' = [op EXCEPT ![p].stack =
                     <<Put(k), [Top(p) EXCEPT !.left = @ \ {k}]>> \o Tail(@)]
      BY <1>4 DEF Encode
    <2> DEFINE t == <<Put(k), [Top(p) EXCEPT !.left = @ \ {k}]>> \o Tail(op[p].stack)
               o == [op[p] EXCEPT !.stack = t]
    <2>2. t \in Seq(Entry)
      BY <2>0, Pushed
    <2>3. op' = [op EXCEPT ![p] = o]
      BY <2>1 DEF Typed
    <2> HIDE DEF t
    <2>4. o \in Ops /\ o.v = op[p].v /\ op[p].v \in Result
      <3>1. op[p] \in Ops /\ op[p].v \in Result
        BY <2>0, TopTyped
      <3> QED
        BY <2>2, <3>1 DEF Ops
    <2> HIDE DEF o
    <2> QED
      BY <2>0, <2>3, <2>4, <1>t, OneProcessTyped DEF Typed
  <1>5. CASE Mkdir(p)
    <2>0. /\ Doing(p, "encode") /\ UNCHANGED <<files, docs, clears, crashes, raised>>
          /\ dirs' = dirs \cup {Dir(Top(p).x)}
          /\ op' = Now(p, [Top(p) EXCEPT !.step = "temp"])
      BY <1>5 DEF Mkdir
    <2>1. [Top(p) EXCEPT !.step = "temp"] \in Entry
      BY <2>0, StepTyped
    <2>2. dirs' \subseteq Obj \cup {RecordDir}
      BY <2>0, TopTyped, Names DEF Dir, Typed
    <2> QED
      BY <2>0, <2>1, <2>2, <1>t, NowTyped
  <1>6. CASE MakeTemp(p)
    <2>0. Doing(p, "temp") /\ UNCHANGED <<files, dirs, docs, clears, crashes>>
      BY <1>6 DEF MakeTemp
    <2>1. CASE Raise(p)
      BY <2>0, <2>1, <1>t, IdleTyped, OneProcessTyped DEF Raise, Typed
    <2>2. CASE ~Raise(p)
      <3> DEFINE e == [Top(p) EXCEPT !.step = "replace"]
                 t == <<e>> \o Tail(op[p].stack)
      <3>1. op' = [op EXCEPT ![p].stack = <<e>> \o Tail(@), ![p].temp = TRUE]
            /\ UNCHANGED raised
        BY <1>6, <2>2 DEF MakeTemp
      <3>2. e \in Entry
        BY <2>0, StepTyped
      <3>3. t \in Seq(Entry)
        BY <2>0, <3>2, NowIs
      <3>4. op' = [op EXCEPT ![p] = [op[p] EXCEPT !.stack = t, !.temp = TRUE]]
        BY <3>1 DEF Typed
      <3>5. op[p].at = "put"
        BY <2>0, TopTyped
      <3> HIDE DEF t
      <3> QED
        BY <2>0, <3>1, <3>3, <3>4, <3>5, <1>f, <1>t, StackStepTyped
    <2> QED
      BY <2>1, <2>2
  <1>7. CASE Replace(p)
    <2>0. Doing(p, "replace") /\ UNCHANGED <<dirs, clears, crashes>>
      BY <1>7 DEF Replace
    <2>1. CASE op[p].temp
      <3>1. /\ files' = files \cup {Top(p).x} /\ docs' = Known(p, Top(p).x)
            /\ op' = Popped(p) /\ UNCHANGED raised
        BY <1>7, <2>1 DEF Replace
      <3>2. Top(p).x \in Named
        BY <2>0, TopTyped
      <3>3. files' \subseteq Named
        BY <3>1, <3>2, <1>f
      <3> QED
        BY <2>0, <3>1, <3>3, <1>t, PopTyped
    <2>2. CASE ~op[p].temp
      BY <1>7, <2>0, <2>2, <1>t, IdleTyped, OneProcessTyped DEF Replace, Raise, Typed
    <2> QED
      BY <2>1, <2>2
  <1>8. CASE Return(p)
    BY <1>8, <1>t, IdleTyped, OneProcessTyped DEF Return, Typed
  <1>9. CASE ClearBegins(p)
    <2> DEFINE o == [Idle EXCEPT !.at = "clear", !.left = dirs \ {RecordDir}]
    <2>1. o \in Ops /\ o.at = "clear"
      BY IdleTyped DEF Typed, Ops, Idle
    <2>2. clears' \in 0..MaxClears
      BY <1>9, BoundsAssumption DEF ClearBegins, Typed
    <2>3. op' = [op EXCEPT ![p] = o] /\ UNCHANGED <<files, dirs, docs, crashes, raised>>
      BY <1>9 DEF ClearBegins
    <2> HIDE DEF o
    <2> QED
      BY <2>1, <2>2, <2>3, <1>t, OneProcessTyped DEF Typed
  <1>10. CASE ClearObject(p)
    <2>1. PICK d \in op[p].left : Delete(p, d, [op[p] EXCEPT !.left = @ \ {d}])
      BY <1>10 DEF ClearObject
    <2> DEFINE o == [op[p] EXCEPT !.left = @ \ {d}]
    <2>2. o \in Ops /\ o.at = "clear" /\ Delete(p, d, o)
      BY <2>1, <1>o, <1>10 DEF Ops, ClearObject
    <2>3. UNCHANGED <<docs, clears, crashes, raised>>
      BY <1>10 DEF ClearObject
    <2> HIDE DEF o
    <2> QED
      BY <2>1, <2>2, <2>3, <1>f, <1>t, DeleteTyped
  <1>11. CASE ClearRecords(p)
    BY <1>11, <1>t, IdleTyped, DeleteTyped DEF ClearRecords, Typed
  <1>12. CASE Crash(p)
    <2>1. crashes' \in 0..MaxCrashes
      BY <1>12, BoundsAssumption DEF Crash, Typed
    <2> QED
      BY <1>12, <2>1, <1>t, IdleTyped, OneProcessTyped DEF Crash, Typed
  <1> QED
    BY <1>1, <1>2, <1>3, <1>4, <1>5, <1>6, <1>7, <1>8, <1>9, <1>10, <1>11, <1>12, <1>13 DEF Step

LEMMA TypedHolds == Spec => []Typed
  <1>1. Typed /\ UNCHANGED vars => Typed'
    BY DEF Typed, vars
  <1>2. Typed /\ [Next]_vars => Typed'
    BY <1>1, TypedStep
  <1> QED
    BY TypedInit, <1>2, PTL DEF Spec

\* Every variable keeps its type: in particular what is on disk is named as
\* the store names files, and the stack of a write holds only such names.
THEOREM StoreTyping == Spec => []TypeOK
  <1>1. Typed => TypeOK
    BY DEF Typed, TypeOK, Ops, Entry
  <1> QED
    BY TypedHolds, <1>1, PTL

-----------------------------------------------------------------------------
(* Stacks: every file under its parts *)

\* What a file refers to.
Needs(x) == IF x < 0 THEN {-x} ELSE Kids[x]

NoHole(F) == \A x \in F : Needs(x) \subseteq F

\* Only the file on top is past its encoding, with no part left to put; a
\* part of any other is on disk, or to be put, or the file above.
Stacked(s, F) ==
  \A i \in 1..Len(s) :
    /\ s[i].step \in {"temp", "replace"} => i = 1 /\ s[i].left = {}
    /\ \A k \in Needs(s[i].x) : k \in F \/ k \in s[i].left \/ (i > 1 /\ s[i-1].x = k)

\* What is at the bottom of the stack of a write is the record, or it is on disk.
Bottom(s, r, F) == r \in F \/ (s # <<>> /\ s[Len(s)].x = r)

LEMMA StackedGrows ==
  ASSUME NEW s, NEW F, NEW G, F \subseteq G
  PROVE  /\ Stacked(s, F) => Stacked(s, G)
         /\ \A r : Bottom(s, r, F) => Bottom(s, r, G)
  BY DEF Stacked, Bottom

LEMMA FreshStacked ==
  ASSUME NEW v \in Result, NEW F
  PROVE  /\ Stacked(<<Put(v), Put(Record(v))>>, F)
         /\ Bottom(<<Put(v), Put(Record(v))>>, Record(v), F)
         /\ <<Put(v), Put(Record(v))>> # <<>>
         /\ Head(<<Put(v), Put(Record(v))>>).step = "find"
  <1> DEFINE a == Put(v)
             b == Put(Record(v))
             s == <<a, b>>
  <1>1. /\ a.x = v /\ a.step = "find" /\ a.left = Kids[v] /\ Needs(v) = Kids[v]
        /\ b.x = Record(v) /\ b.step = "find" /\ Needs(Record(v)) = {v}
    BY Names, PutIsEntry DEF Needs
  <1> HIDE DEF a, b
  <1>2. Len(s) = 2 /\ s[1] = a /\ s[2] = b /\ s # <<>> /\ Head(s) = a
    OBVIOUS
  <1>3. Stacked(s, F)
    <2> SUFFICES ASSUME NEW i \in 1..2
                 PROVE  /\ s[i].step = "find"
                        /\ \A k \in Needs(s[i].x) : k \in s[i].left \/ (i > 1 /\ s[i-1].x = k)
      BY <1>2 DEF Stacked
    <2>1. CASE i = 1
      BY <1>1, <1>2, <2>1
    <2>2. CASE i = 2
      BY <1>1, <1>2, <2>2
    <2> QED
      BY <2>1, <2>2
  <1>4. Bottom(s, Record(v), F)
    BY <1>1, <1>2 DEF Bottom
  <1> QED
    BY <1>1, <1>2, <1>3, <1>4 DEF a, b

\* The file on top has been put.
LEMMA PopStacked ==
  ASSUME NEW s \in Seq(Entry), s # <<>>, NEW F, NEW G, F \subseteq G, s[1].x \in G,
         Stacked(s, F)
  PROVE  /\ Stacked(Tail(s), G)
         /\ \A r : Bottom(s, r, F) => Bottom(Tail(s), r, G)
         /\ Tail(s) # <<>> => Head(Tail(s)).step \notin {"temp", "replace"}
  <1> DEFINE t == Tail(s)
  <1>1. t \in Seq(Entry) /\ Len(t) = Len(s) - 1 /\ Len(s) \in Nat /\ Len(s) > 0
    OBVIOUS
  <1>2. \A i \in 1..Len(t) : t[i] = s[i + 1] /\ i + 1 \in 1..Len(s)
    BY <1>1
  <1> HIDE DEF t
  <1>3. Stacked(t, G)
    <2> SUFFICES ASSUME NEW i \in 1..Len(t)
                 PROVE  /\ t[i].step \notin {"temp", "replace"}
                        /\ \A k \in Needs(t[i].x) :
                             k \in G \/ k \in t[i].left \/ (i > 1 /\ t[i-1].x = k)
      BY DEF Stacked
    <2>1. t[i] = s[i + 1] /\ i + 1 \in 1..Len(s) /\ i + 1 # 1 /\ i + 1 > 1 /\ (i + 1) - 1 = i
      BY <1>1, <1>2
    <2>2. t[i].step \notin {"temp", "replace"}
      BY <2>1 DEF Stacked
    <2>3. \A k \in Needs(t[i].x) : k \in F \/ k \in t[i].left \/ s[i].x = k
      BY <2>1 DEF Stacked
    <2>4. CASE i = 1
      BY <2>2, <2>3, <2>4
    <2>5. CASE i # 1
      <3>1. i - 1 \in 1..Len(t) /\ i > 1 /\ t[i - 1] = s[i]
        BY <1>1, <1>2, <2>5
      <3> QED
        BY <2>2, <2>3, <3>1
    <2> QED
      BY <2>4, <2>5
  <1>4. ASSUME NEW r, Bottom(s, r, F)
        PROVE  Bottom(t, r, G)
    <2>1. CASE Len(s) = 1
      BY <1>4, <2>1 DEF Bottom
    <2>2. CASE Len(s) # 1
      <3>1. Len(t) \in 1..Len(t) /\ Len(t) + 1 = Len(s) /\ t # <<>>
        BY <1>1, <2>2
      <3>2. t[Len(t)] = s[Len(s)]
        BY <1>2, <3>1
      <3> QED
        BY <1>4, <3>1, <3>2 DEF Bottom
    <2> QED
      BY <2>1, <2>2
  <1>5. t # <<>> => Head(t).step \notin {"temp", "replace"}
    <2> SUFFICES ASSUME t # <<>>
                 PROVE  Head(t).step \notin {"temp", "replace"}
      OBVIOUS
    <2>1. 1 \in 1..Len(t) /\ Head(t) = t[1]
      BY <1>1
    <2>2. t[1] = s[2] /\ 2 \in 1..Len(s)
      BY <1>2, <2>1
    <2> QED
      BY <2>1, <2>2 DEF Stacked
  <1> QED
    BY <1>3, <1>4, <1>5 DEF t

\* The file on top goes on a step.
LEMMA NowStacked ==
  ASSUME NEW s \in Seq(Entry), s # <<>>, NEW F, Stacked(s, F),
         NEW e \in Entry, e.x = s[1].x, e.left = s[1].left,
         e.step \in {"temp", "replace"} => e.left = {}
  PROVE  /\ Stacked(<<e>> \o Tail(s), F)
         /\ \A r : Bottom(s, r, F) => Bottom(<<e>> \o Tail(s), r, F)
         /\ <<e>> \o Tail(s) # <<>> /\ Head(<<e>> \o Tail(s)) = e
  <1> DEFINE t == <<e>> \o Tail(s)
  <1>0. Tail(s) \in Seq(Entry) /\ Len(s) \in Nat /\ Len(s) > 0
    OBVIOUS
  <1>1. t \in Seq(Entry) /\ Len(t) = Len(s) /\ t[1] = e /\ t # <<>> /\ Head(t) = e
    BY <1>0
  <1>2. \A i \in 2..Len(s) : t[i] = s[i]
    BY <1>0
  <1> HIDE DEF t
  <1>3. \A i \in 1..Len(s) : t[i].x = s[i].x /\ t[i].left = s[i].left /\ (i # 1 => t[i] = s[i])
    BY <1>0, <1>1, <1>2
  <1>4. Stacked(t, F)
    <2> SUFFICES ASSUME NEW i \in 1..Len(s)
                 PROVE  /\ t[i].step \in {"temp", "replace"} => i = 1 /\ t[i].left = {}
                        /\ \A k \in Needs(t[i].x) :
                             k \in F \/ k \in t[i].left \/ (i > 1 /\ t[i-1].x = k)
      BY <1>1 DEF Stacked
    <2>1. t[i].step \in {"temp", "replace"} => i = 1 /\ t[i].left = {}
      BY <1>1, <1>3 DEF Stacked
    <2>2. i > 1 => i - 1 \in 1..Len(s)
      BY <1>0
    <2> QED
      BY <1>3, <2>1, <2>2 DEF Stacked
  <1>5. \A r : Bottom(s, r, F) => Bottom(t, r, F)
    BY <1>0, <1>1, <1>3 DEF Bottom
  <1> QED
    BY <1>1, <1>4, <1>5 DEF t

\* The file on top puts a part of it first.
LEMMA PushStacked ==
  ASSUME NEW s \in Seq(Entry), s # <<>>, NEW F, Stacked(s, F),
         NEW k \in Obj, NEW e \in Entry, e.x = s[1].x, e.left = s[1].left \ {k},
         e.step = "encode"
  PROVE  /\ Stacked(<<Put(k), e>> \o Tail(s), F)
         /\ \A r : Bottom(s, r, F) => Bottom(<<Put(k), e>> \o Tail(s), r, F)
         /\ <<Put(k), e>> \o Tail(s) # <<>>
         /\ Head(<<Put(k), e>> \o Tail(s)).step = "find"
  <1> DEFINE a == Put(k)
             t == <<a, e>> \o Tail(s)
  <1>0. /\ Tail(s) \in Seq(Entry) /\ Len(Tail(s)) = Len(s) - 1 /\ Len(s) \in Nat /\ Len(s) > 0
        /\ \A i \in 1..(Len(s) - 1) : Tail(s)[i] = s[i + 1]
    OBVIOUS
  <1>a. a \in Entry /\ a.x = k /\ a.step = "find" /\ a.left = Kids[k] /\ Needs(k) = Kids[k]
    BY Names, PutIsEntry DEF Needs
  <1> HIDE DEF a
  <1>1. t \in Seq(Entry) /\ Len(t) = Len(s) + 1 /\ t[1] = a /\ t[2] = e /\ t # <<>> /\ Head(t) = a
    BY <1>0, <1>a
  <1>2. \A i \in 3..(Len(s) + 1) : t[i] = s[i - 1]
    BY <1>0
  <1> HIDE DEF t
  <1>3. \A i \in 2..(Len(s) + 1) : t[i].x = s[i - 1].x
    BY <1>0, <1>1, <1>2
  <1>4. Stacked(t, F)
    <2> SUFFICES ASSUME NEW i \in 1..(Len(s) + 1)
                 PROVE  /\ t[i].step \notin {"temp", "replace"}
                        /\ \A j \in Needs(t[i].x) :
                             j \in F \/ j \in t[i].left \/ (i > 1 /\ t[i-1].x = j)
      BY <1>1 DEF Stacked
    <2>1. CASE i = 1
      BY <1>1, <1>a, <2>1
    <2>2. CASE i = 2
      <3>1. \A j \in Needs(e.x) : j \in F \/ j \in s[1].left
        BY <1>0 DEF Stacked
      <3>2. i > 1 /\ t[i] = e /\ t[i - 1] = a
        BY <1>1, <2>2
      <3> QED
        BY <1>a, <3>1, <3>2
    <2>3. CASE i # 1 /\ i # 2
      <3>1. i \in 3..(Len(s) + 1) /\ i - 1 \in 2..(Len(s) + 1) /\ i - 1 \in 1..Len(s)
            /\ i > 1 /\ i - 1 > 1 /\ i - 1 # 1
        BY <1>0, <2>3
      <3>2. t[i] = s[i - 1] /\ t[i - 1].x = s[(i - 1) - 1].x
        BY <1>2, <1>3, <3>1
      <3> QED
        BY <3>1, <3>2 DEF Stacked
    <2> QED
      BY <2>1, <2>2, <2>3
  <1>5. \A r : Bottom(s, r, F) => Bottom(t, r, F)
    <2>1. Len(t) \in 2..(Len(s) + 1) /\ Len(t) - 1 = Len(s)
      BY <1>0, <1>1
    <2> QED
      BY <1>1, <1>3, <2>1 DEF Bottom
  <1> QED
    BY <1>1, <1>a, <1>4, <1>5 DEF t, a

-----------------------------------------------------------------------------
(* Calm: what holds while no clear was torn *)

\* What a process that writes may rely on.
Sound(o, F, D) ==
  o.at = "put" =>
    /\ Stacked(o.stack, F)
    /\ Bottom(o.stack, Record(o.v), F)
    /\ o.stack # <<>> /\ Head(o.stack).step \in {"temp", "replace"}
         => Dir(Head(o.stack).x) \in D
    /\ o.stack # <<>> /\ Head(o.stack).step = "replace" => o.temp = TRUE

Clearing(p) == op[p].at = "clear"

\* No write has raised, none goes on beside a clear; a file is in its
\* directory, and a clear has that still to delete; what processes write is
\* sound; and unless one clears, nothing refers to what is not there.
Calm ==
  ~torn =>
    /\ raised = FALSE
    /\ \A p, q \in Proc : op[p].at = "put" => ~Clearing(q)
    /\ \A x \in files : Dir(x) \in dirs
    /\ \A p \in Proc : Clearing(p) => \A x \in files : Dir(x) \in op[p].left \cup {RecordDir}
    /\ \A p \in Proc : Sound(op[p], files, dirs)
    /\ (\A p \in Proc : ~Clearing(p)) => NoHole(files)

IInv == Typed /\ Calm

LEMMA SoundGrows ==
  ASSUME NEW o, NEW F, NEW G, F \subseteq G, NEW D, NEW E, D \subseteq E, Sound(o, F, D)
  PROVE  Sound(o, G, E)
  BY StackedGrows DEF Sound

LEMMA SoundUnlessPut ==
  ASSUME NEW o, NEW F, NEW D, o.at # "put"
  PROVE  Sound(o, F, D)
  BY DEF Sound

LEMMA WritingSound ==
  ASSUME NEW v \in Result, NEW F, NEW D
  PROVE  Sound(Writing(v), F, D)
  BY WritingTyped, FreshStacked DEF Sound

\* A step of one process that clears neither before nor after, and that
\* only a writing process adds files by.
LEMMA CalmStep ==
  ASSUME Typed, Calm, Next, ~torn', NEW p \in Proc, NEW o, op' = [op EXCEPT ![p] = o],
         ~Clearing(p), o.at # "clear",
         files \subseteq files', dirs \subseteq dirs',
         files' = files \/ op[p].at = "put",
         raised' = FALSE,
         Sound(o, files', dirs'),
         \A x \in files' : Dir(x) \in dirs',
         NoHole(files) => NoHole(files')
  PROVE  Calm'
  <1>1. ~torn /\ ~Overlap'
    BY DEF Next
  <1>2. op'[p] = o /\ \A q \in Proc : q # p => op'[q] = op[q]
    BY DEF Typed
  <1>3. \A q, r \in Proc : op'[q].at = "put" => op'[r].at # "clear"
    BY <1>1 DEF Overlap
  <1>4. \A q \in Proc : (op'[q].at = "clear") <=> Clearing(q)
    BY <1>2 DEF Clearing
  <1>5. ASSUME NEW q \in Proc, op'[q].at = "clear"
        PROVE  \A x \in files' : Dir(x) \in op'[q].left \cup {RecordDir}
    <2>1. Clearing(q) /\ q # p /\ op'[q] = op[q]
      BY <1>2, <1>4, <1>5
    <2>2. op[p].at # "put"
      BY <1>1, <2>1 DEF Calm
    <2> QED
      BY <1>1, <2>1, <2>2 DEF Calm
  <1>6. ASSUME NEW q \in Proc
        PROVE  Sound(op'[q], files', dirs')
    <2>1. CASE q = p
      BY <1>2, <2>1
    <2>2. CASE q # p
      BY <1>1, <1>2, <2>2, SoundGrows DEF Calm
    <2> QED
      BY <2>1, <2>2
  <1>7. (\A q \in Proc : op'[q].at # "clear") => NoHole(files')
    BY <1>1, <1>4 DEF Calm
  <1> QED
    BY <1>3, <1>5, <1>6, <1>7 DEF Calm, Clearing

\* The same, for a step that writes no file: a process that looks up, reads,
\* returns or goes on with another stack.
LEMMA CalmQuiet ==
  ASSUME Typed, Calm, Next, ~torn', NEW p \in Proc, NEW o, op' = [op EXCEPT ![p] = o],
         ~Clearing(p), o.at # "clear", UNCHANGED <<files, dirs, raised>>,
         Sound(o, files, dirs)
  PROVE  Calm'
  <1>1. ~torn
    BY DEF Next
  <1>2. raised' = FALSE /\ \A x \in files' : Dir(x) \in dirs'
    BY <1>1 DEF Calm
  <1> QED
    BY <1>2, CalmStep

\* A process at a step of a write, when no clear is torn.
LEMMA TopSound ==
  ASSUME Typed, Calm, ~torn, NEW p \in Proc, NEW s, Doing(p, s)
  PROVE  /\ Sound(op[p], files, dirs) /\ op[p].at = "put" /\ ~Clearing(p)
         /\ Stacked(op[p].stack, files)
         /\ Bottom(op[p].stack, Record(op[p].v), files)
         /\ s \in {"temp", "replace"} => Dir(Top(p).x) \in dirs
         /\ s = "replace" => op[p].temp = TRUE /\ Needs(Top(p).x) \subseteq files
  <1>1. Sound(op[p], files, dirs) /\ op[p].at = "put" /\ op[p].stack # <<>>
        /\ Top(p) = op[p].stack[1] /\ Top(p).step = s /\ op[p].stack \in Seq(Entry)
    BY TopTyped DEF Calm
  <1>2. Stacked(op[p].stack, files) /\ Bottom(op[p].stack, Record(op[p].v), files)
    BY <1>1 DEF Sound
  <1>3. s \in {"temp", "replace"} => Dir(Top(p).x) \in dirs
    BY <1>1 DEF Sound, Top
  <1>4. s = "replace" => op[p].temp = TRUE
    BY <1>1 DEF Sound, Top
  <1>5. 1 \in 1..Len(op[p].stack)
    BY <1>1
  <1>6. s = "replace" => Needs(Top(p).x) \subseteq files
    BY <1>1, <1>2, <1>5 DEF Stacked
  <1> QED
    BY <1>1, <1>2, <1>3, <1>4, <1>6 DEF Clearing

\* The file on top put or found: the process goes on with what is below it.
LEMMA PopSound ==
  ASSUME Typed, Calm, ~torn, NEW p \in Proc, NEW s, Doing(p, s),
         NEW G, files \subseteq G, Top(p).x \in G
  PROVE  LET o == [op[p] EXCEPT !.stack = Tail(op[p].stack), !.temp = FALSE]
         IN  o.at = "put" /\ Sound(o, G, dirs)
  <1> DEFINE o == [op[p] EXCEPT !.stack = Tail(op[p].stack), !.temp = FALSE]
  <1>1. op[p].stack \in Seq(Entry) /\ op[p].stack # <<>> /\ op[p].stack[1].x \in G
        /\ op[p].at = "put" /\ Tail(op[p].stack) \in Seq(Entry)
    BY TopTyped
  <1>2. Stacked(op[p].stack, files) /\ Bottom(op[p].stack, Record(op[p].v), files)
    BY TopSound
  <1>r. op[p] \in Ops
    BY TopTyped
  <1>3. o.at = "put" /\ o.v = op[p].v /\ o.stack = Tail(op[p].stack)
    BY <1>1, <1>r DEF Ops
  <1> HIDE DEF o
  <1>4. /\ Stacked(o.stack, G) /\ Bottom(o.stack, Record(o.v), G)
        /\ o.stack # <<>> => Head(o.stack).step \notin {"temp", "replace"}
    BY <1>1, <1>2, <1>3, PopStacked
  <1>5. Sound(o, G, dirs)
    BY <1>4 DEF Sound
  <1> QED
    BY <1>3, <1>5 DEF o

\* The file on top a step further.
LEMMA NowSound ==
  ASSUME Typed, Calm, ~torn, NEW p \in Proc, NEW s, Doing(p, s), NEW D, NEW b \in BOOLEAN,
         NEW e \in Entry, e.x = Top(p).x, e.left = Top(p).left,
         e.step \in {"temp", "replace"} => e.left = {} /\ Dir(e.x) \in D,
         e.step = "replace" => b = TRUE
  PROVE  LET o == [op[p] EXCEPT !.stack = <<e>> \o Tail(op[p].stack), !.temp = b]
         IN  o.at = "put" /\ Sound(o, files, D)
  <1> DEFINE t == <<e>> \o Tail(op[p].stack)
             o == [op[p] EXCEPT !.stack = t, !.temp = b]
  <1>1. op[p].stack \in Seq(Entry) /\ op[p].stack # <<>> /\ Top(p) = op[p].stack[1]
        /\ op[p].at = "put"
    BY TopTyped
  <1>2. Stacked(op[p].stack, files) /\ Bottom(op[p].stack, Record(op[p].v), files)
    BY TopSound
  <1>3. t \in Seq(Entry)
    BY NowIs
  <1>4. Stacked(t, files) /\ Bottom(t, Record(op[p].v), files) /\ t # <<>> /\ Head(t) = e
    BY <1>1, <1>2, NowStacked
  <1> HIDE DEF t
  <1>r. op[p] \in Ops
    BY TopTyped
  <1>5. o.at = "put" /\ o.v = op[p].v /\ o.stack = t /\ o.temp = b
    BY <1>1, <1>r DEF Ops
  <1> HIDE DEF o
  <1>6. Sound(o, files, D)
    BY <1>4, <1>5 DEF Sound
  <1> QED
    BY <1>5, <1>6 DEF o, t

LEMMA CalmInit == Init => Calm
  BY IdleTyped, SoundUnlessPut DEF Init, Calm, Clearing, NoHole

LEMMA CalmReading ==
  ASSUME Typed, Calm, Next, ~torn', NEW p \in Proc, NEW v \in Result, NEW S, NEW T \in SUBSET Obj,
         op' = [op EXCEPT ![p] = Reading(v, S, T)], ~Clearing(p),
         UNCHANGED <<files, dirs, raised>>
  PROVE  Calm'
  <1> DEFINE o == Reading(v, S, T)
  <1>1. o.at # "clear"
    BY ReadingTyped
  <1>2. Sound(o, files, dirs)
    BY ReadingTyped, SoundUnlessPut, WritingSound
  <1>3. op' = [op EXCEPT ![p] = o]
    OBVIOUS
  <1> HIDE DEF o
  <1> QED
    BY <1>1, <1>2, <1>3, CalmQuiet

LEMMA CalmLookup ==
  ASSUME Typed, Calm, Next, ~torn', NEW p \in Proc, NEW v \in Result, Lookup(p, v)
  PROVE  Calm'
  <1>1. op' = [op EXCEPT ![p] = Reading(v, docs[p] \cap Listed, Listed \ docs[p])]
        /\ UNCHANGED <<files, dirs, raised>> /\ ~Clearing(p)
    BY DEF Lookup, Clearing
  <1>2. Listed \ docs[p] \in SUBSET Obj
    BY Names DEF Listed
  <1> QED
    BY <1>1, <1>2, CalmReading

LEMMA CalmRead ==
  ASSUME Typed, Calm, Next, ~torn', NEW p \in Proc, Read(p)
  PROVE  Calm'
  <1>1. PICK v \in op[p].left :
          op' = [op EXCEPT ![p] = Reading(op[p].v, IF Record(v) \in files THEN docs[p] \cup {v} ELSE docs[p],
                                          op[p].left \ {v})]
    BY DEF Read
  <1>2. op[p].v \in Result /\ op[p].left \ {v} \in SUBSET Obj
    BY DEF Read, Typed, Ops
  <1>3. UNCHANGED <<files, dirs, raised>> /\ ~Clearing(p)
    BY DEF Read, Clearing
  <1> QED
    BY <1>1, <1>2, <1>3, CalmReading

LEMMA CalmGet ==
  ASSUME Typed, Calm, Next, ~torn', NEW p \in Proc, Get(p)
  PROVE  Calm'
  <1>1. PICK k \in op[p].left :
          op' = [op EXCEPT ![p] =
                   IF k \notin files THEN Writing(op[p].v)
                   ELSE IF (op[p].left \ {k}) \cup Kids[k] = {} THEN Idle
                   ELSE [op[p] EXCEPT !.left = (op[p].left \ {k}) \cup Kids[k]]]
    BY DEF Get
  <1> DEFINE more == [op[p] EXCEPT !.left = (op[p].left \ {k}) \cup Kids[k]]
             o == IF k \notin files THEN Writing(op[p].v)
                  ELSE IF (op[p].left \ {k}) \cup Kids[k] = {} THEN Idle ELSE more
  <1>2. op[p] \in Ops /\ op[p].at = "get" /\ op[p].v \in Result
    BY DEF Get, Typed
  <1>3. more.at = "get"
    BY <1>2 DEF Ops
  <1> HIDE DEF more
  <1>4. /\ Sound(more, files, dirs) /\ Sound(Idle, files, dirs) /\ Idle.at = "idle"
        /\ Sound(Writing(op[p].v), files, dirs) /\ Writing(op[p].v).at = "put"
    BY <1>2, <1>3, IdleTyped, SoundUnlessPut, WritingSound, WritingTyped
  <1>5. Sound(o, files, dirs) /\ o.at # "clear"
    BY <1>3, <1>4
  <1>6. op' = [op EXCEPT ![p] = o]
    BY <1>1 DEF more
  <1>7. UNCHANGED <<files, dirs, raised>> /\ ~Clearing(p)
    BY DEF Get, Clearing
  <1> HIDE DEF o
  <1> QED
    BY <1>5, <1>6, <1>7, CalmQuiet

LEMMA CalmFind ==
  ASSUME Typed, Calm, Next, ~torn', NEW p \in Proc, Find(p)
  PROVE  Calm'
  <1>1. ~torn /\ Doing(p, "find") /\ UNCHANGED <<files, dirs, raised>>
    BY DEF Next, Find
  <1>2. ~Clearing(p) /\ op[p].temp \in BOOLEAN
    BY <1>1, TopSound, TopTyped DEF Ops
  <1>3. CASE Top(p).x \in files
    <2> DEFINE o == [op[p] EXCEPT !.stack = Tail(op[p].stack), !.temp = FALSE]
    <2>1. op' = [op EXCEPT ![p] = o]
      BY <1>1, <1>3, PoppedIs DEF Find
    <2>2. o.at = "put" /\ Sound(o, files, dirs)
      BY <1>1, <1>3, PopSound
    <2> HIDE DEF o
    <2> QED
      BY <1>1, <1>2, <2>1, <2>2, CalmQuiet
  <1>4. CASE Top(p).x \notin files
    <2> DEFINE e == [Top(p) EXCEPT !.step = "encode"]
               o == [op[p] EXCEPT !.stack = <<e>> \o Tail(op[p].stack), !.temp = op[p].temp]
    <2>1. e \in Entry /\ e.x = Top(p).x /\ e.left = Top(p).left /\ e.step = "encode"
      BY <1>1, StepTyped
    <2>2. op' = Now(p, e)
      BY <1>4 DEF Find
    <2> HIDE DEF e
    <2>3. op' = [op EXCEPT ![p] = o]
      BY <1>1, <2>1, <2>2, NowIs
    <2>4. o.at = "put" /\ Sound(o, files, dirs)
      BY <1>1, <1>2, <2>1, NowSound
    <2> HIDE DEF o
    <2> QED
      BY <1>1, <1>2, <2>3, <2>4, CalmQuiet
  <1> QED
    BY <1>3, <1>4

LEMMA CalmEncode ==
  ASSUME Typed, Calm, Next, ~torn', NEW p \in Proc, Encode(p)
  PROVE  Calm'
  <1>1. ~torn /\ Doing(p, "encode") /\ UNCHANGED <<files, dirs, raised>>
    BY DEF Next, Encode
  <1>2. PICK k \in Top(p).left :
          op' = [op EXCEPT ![p].stack =
                   <<Put(k), [Top(p) EXCEPT !.left = @ \ {k}]>> \o Tail(@)]
    BY DEF Encode
  <1> DEFINE e == [Top(p) EXCEPT !.left = @ \ {k}]
             t == <<Put(k), e>> \o Tail(op[p].stack)
             o == [op[p] EXCEPT !.stack = t]
  <1>3. op' = [op EXCEPT ![p] = o]
    BY <1>2 DEF Typed
  <1>4. /\ e \in Entry /\ e.x = Top(p).x /\ e.step = "encode"
        /\ e.left = Top(p).left \ {k} /\ k \in Obj
    BY <1>1, Pushed
  <1>5. op[p] \in Ops /\ op[p].at = "put" /\ op[p].stack \in Seq(Entry)
        /\ op[p].stack # <<>> /\ Top(p) = op[p].stack[1]
    BY <1>1, TopTyped
  <1>6. /\ Stacked(op[p].stack, files) /\ Bottom(op[p].stack, Record(op[p].v), files)
        /\ ~Clearing(p)
    BY <1>1, TopSound
  <1> HIDE DEF e
  <1>7. /\ Stacked(t, files) /\ Bottom(t, Record(op[p].v), files)
        /\ t # <<>> /\ Head(t).step = "find"
    BY <1>4, <1>5, <1>6, PushStacked
  <1> HIDE DEF t
  <1>8. o.at = "put" /\ o.v = op[p].v /\ o.stack = t
    BY <1>5 DEF Ops
  <1> HIDE DEF o
  <1>9. Sound(o, files, dirs)
    BY <1>7, <1>8 DEF Sound
  <1> QED
    BY <1>1, <1>3, <1>6, <1>8, <1>9, CalmQuiet

LEMMA CalmMkdir ==
  ASSUME Typed, Calm, Next, ~torn', NEW p \in Proc, Mkdir(p)
  PROVE  Calm'
  <1> DEFINE e == [Top(p) EXCEPT !.step = "temp"]
             o == [op[p] EXCEPT !.stack = <<e>> \o Tail(op[p].stack), !.temp = op[p].temp]
  <1>1. /\ ~torn /\ Doing(p, "encode") /\ Top(p).left = {} /\ UNCHANGED <<files, raised>>
        /\ dirs' = dirs \cup {Dir(Top(p).x)} /\ op' = Now(p, e)
    BY DEF Next, Mkdir
  <1>2. e \in Entry /\ e.x = Top(p).x /\ e.left = Top(p).left /\ e.step = "temp"
    BY <1>1, StepTyped
  <1>3. ~Clearing(p) /\ op[p].temp \in BOOLEAN
    BY <1>1, TopSound, TopTyped DEF Ops
  <1> HIDE DEF e
  <1>4. op' = [op EXCEPT ![p] = o]
    BY <1>1, <1>2, NowIs
  <1>5. o.at = "put" /\ Sound(o, files, dirs')
    BY <1>1, <1>2, <1>3, NowSound
  <1> HIDE DEF o
  <1>6. raised' = FALSE /\ \A x \in files' : Dir(x) \in dirs'
    BY <1>1 DEF Calm
  <1> QED
    BY <1>1, <1>3, <1>4, <1>5, <1>6, CalmStep

LEMMA CalmMakeTemp ==
  ASSUME Typed, Calm, Next, ~torn', NEW p \in Proc, MakeTemp(p)
  PROVE  Calm'
  <1> DEFINE e == [Top(p) EXCEPT !.step = "replace"]
             o == [op[p] EXCEPT !.stack = <<e>> \o Tail(op[p].stack), !.temp = TRUE]
  <1>1. ~torn /\ Doing(p, "temp") /\ UNCHANGED <<files, dirs>>
    BY DEF Next, MakeTemp
  <1>2. Dir(Top(p).x) \in dirs /\ ~Clearing(p)
    BY <1>1, TopSound
  <1>3. e \in Entry /\ e.x = Top(p).x /\ e.left = Top(p).left /\ e.step = "replace"
    BY <1>1, StepTyped
  <1>4. op' = [op EXCEPT ![p].stack = <<e>> \o Tail(@), ![p].temp = TRUE] /\ UNCHANGED raised
    BY <1>2 DEF MakeTemp
  <1> HIDE DEF e
  <1>5. op' = [op EXCEPT ![p] = o]
    BY <1>4 DEF Typed
  <1>6. Top(p).left = {}
    <2>1. /\ op[p].stack \in Seq(Entry) /\ op[p].stack # <<>>
          /\ Top(p) = op[p].stack[1] /\ Top(p).step = "temp"
      BY <1>1, TopTyped
    <2>2. Stacked(op[p].stack, files)
      BY <1>1, TopSound
    <2>3. 1 \in 1..Len(op[p].stack)
      BY <2>1
    <2> QED
      BY <2>1, <2>2, <2>3 DEF Stacked
  <1>7. o.at = "put" /\ Sound(o, files, dirs)
    BY <1>1, <1>2, <1>3, <1>6, NowSound
  <1> HIDE DEF o
  <1> QED
    BY <1>1, <1>2, <1>4, <1>5, <1>7, CalmQuiet

LEMMA CalmReplace ==
  ASSUME Typed, Calm, Next, ~torn', NEW p \in Proc, Replace(p)
  PROVE  Calm'
  <1> DEFINE o == [op[p] EXCEPT !.stack = Tail(op[p].stack), !.temp = FALSE]
  <1>1. ~torn /\ Doing(p, "replace") /\ UNCHANGED dirs
    BY DEF Next, Replace
  <1>2. /\ op[p].temp = TRUE /\ Needs(Top(p).x) \subseteq files
        /\ Dir(Top(p).x) \in dirs /\ ~Clearing(p) /\ op[p].at = "put"
    BY <1>1, TopSound
  <1>3. files' = files \cup {Top(p).x} /\ op' = Popped(p) /\ UNCHANGED raised
    BY <1>2 DEF Replace
  <1>4. op' = [op EXCEPT ![p] = o]
    BY <1>1, <1>3, PoppedIs
  <1>a. files \subseteq files' /\ Top(p).x \in files'
    BY <1>3
  <1>b. o.at = "put" /\ Sound(o, files', dirs)
    BY <1>1, <1>a, PopSound
  <1>5. o.at = "put" /\ Sound(o, files', dirs')
    BY <1>1, <1>b
  <1> HIDE DEF o
  <1>6. NoHole(files) => NoHole(files')
    BY <1>2, <1>3 DEF NoHole
  <1>7. raised' = FALSE /\ \A x \in files' : Dir(x) \in dirs'
    BY <1>1, <1>2, <1>3 DEF Calm
  <1>8. files \subseteq files' /\ dirs \subseteq dirs'
    BY <1>1, <1>3
  <1> QED
    BY <1>2, <1>4, <1>5, <1>6, <1>7, <1>8, CalmStep

LEMMA CalmReturn ==
  ASSUME Typed, Calm, Next, ~torn', NEW p \in Proc, Return(p)
  PROVE  Calm'
  <1>1. Sound(Idle, files, dirs) /\ Idle.at # "clear"
    BY IdleTyped, SoundUnlessPut
  <1>2. op' = [op EXCEPT ![p] = Idle] /\ ~Clearing(p) /\ UNCHANGED <<files, dirs, raised>>
    BY DEF Return, Clearing
  <1> QED
    BY <1>1, <1>2, CalmQuiet

LEMMA CalmCrash ==
  ASSUME Typed, Calm, Next, ~torn', NEW p \in Proc, Crash(p)
  PROVE  Calm'
  <1>1. Sound(Idle, files, dirs) /\ Idle.at = "idle"
    BY IdleTyped, SoundUnlessPut
  <1>2. op' = [op EXCEPT ![p] = Idle] /\ UNCHANGED <<files, dirs, raised>>
    BY DEF Crash
  <1>3. ~Clearing(p)
    <2>1. op'[p].at = "idle" /\ crashes' # crashes
      BY <1>1, <1>2 DEF Crash, Typed
    <2>2. ~CutShort
      BY DEF Next
    <2> QED
      BY <2>1, <2>2 DEF CutShort, Clearing
  <1> QED
    BY <1>1, <1>2, <1>3, CalmQuiet

\* A clear finds every file in its directory, so that its list misses none.
LEMMA CalmClearBegins ==
  ASSUME Typed, Calm, Next, ~torn', NEW p \in Proc, ClearBegins(p)
  PROVE  Calm'
  <1> DEFINE o == [Idle EXCEPT !.at = "clear", !.left = dirs \ {RecordDir}]
  <1>1. ~torn /\ ~Overlap' /\ UNCHANGED <<files, dirs, raised>> /\ op' = [op EXCEPT ![p] = o]
    BY DEF Next, ClearBegins
  <1>2. o.at = "clear" /\ o.left = dirs \ {RecordDir}
    BY DEF Idle
  <1> HIDE DEF o
  <1>3. op'[p] = o /\ \A q \in Proc : q # p => op'[q] = op[q]
    BY <1>1 DEF Typed
  <1>4. \A q, r \in Proc : op'[q].at = "put" => op'[r].at # "clear"
    BY <1>1 DEF Overlap
  <1>5. ASSUME NEW q \in Proc, op'[q].at = "clear"
        PROVE  \A x \in files' : Dir(x) \in op'[q].left \cup {RecordDir}
    BY <1>1, <1>2, <1>3, <1>5 DEF Calm, Clearing
  <1>6. ASSUME NEW q \in Proc
        PROVE  Sound(op'[q], files', dirs')
    BY <1>1, <1>2, <1>3, SoundUnlessPut DEF Calm
  <1>7. \E q \in Proc : op'[q].at = "clear"
    BY <1>2, <1>3
  <1>8. raised' = FALSE /\ \A x \in files' : Dir(x) \in dirs'
    BY <1>1 DEF Calm
  <1> QED
    BY <1>4, <1>5, <1>6, <1>7, <1>8 DEF Calm, Clearing

\* No process writes while one deletes; the last deletion leaves nothing.
LEMMA CalmDelete ==
  ASSUME Typed, Calm, Next, ~torn', NEW p \in Proc, Clearing(p), NEW d, NEW o,
         Delete(p, d, o), UNCHANGED raised,
         \/ o.at = "clear" /\ o.left = op[p].left \ {d}
         \/ o.at = "idle" /\ op[p].left = {} /\ d = RecordDir
  PROVE  Calm'
  <1>1. ~torn
    BY DEF Next
  <1>2. \A q \in Proc : op[q].at # "put"
    BY <1>1 DEF Calm
  <1>3. \A q \in Proc : /\ q = p => op'[q] = o
                        /\ q # p => op'[q].at = op[q].at /\ op'[q].left = op[q].left
    BY DEF Delete, Typed, Ops
  <1>4. files' = {x \in files : Dir(x) # d} /\ dirs' = dirs \ {d}
    BY DEF Delete
  <1>5. \A q \in Proc : op'[q].at # "put"
    BY <1>2, <1>3
  <1>6. \A q \in Proc : Sound(op'[q], files', dirs')
    BY <1>5, SoundUnlessPut
  <1>7. raised' = FALSE /\ \A x \in files' : Dir(x) \in dirs'
    BY <1>1, <1>4 DEF Calm
  <1>8. ASSUME NEW q \in Proc, op'[q].at = "clear", NEW x \in files'
        PROVE  Dir(x) \in op'[q].left \cup {RecordDir}
    <2>1. CASE q = p
      BY <1>1, <1>3, <1>4, <1>8, <2>1 DEF Calm
    <2>2. CASE q # p
      BY <1>1, <1>3, <1>4, <1>8, <2>2 DEF Calm, Clearing
    <2> QED
      BY <2>1, <2>2
  <1>9. (\A q \in Proc : op'[q].at # "clear") => NoHole(files')
    <2> SUFFICES ASSUME o.at = "idle", op[p].left = {}, d = RecordDir
                 PROVE  files' = {}
      BY <1>3 DEF NoHole
    <2> QED
      BY <1>1, <1>4 DEF Calm
  <1> QED
    BY <1>5, <1>6, <1>7, <1>8, <1>9 DEF Calm, Clearing

LEMMA CalmKept ==
  ASSUME Typed, Calm, Next
  PROVE  Calm'
  <1> SUFFICES ASSUME ~torn' PROVE Calm'
    BY DEF Calm
  <1> PICK p \in Proc : Step(p)
    BY DEF Next
  <1>1. CASE \E v \in Result : Lookup(p, v)
    BY <1>1, CalmLookup
  <1>2. CASE ClearObject(p)
    <2>1. PICK d \in op[p].left : Delete(p, d, [op[p] EXCEPT !.left = @ \ {d}])
      BY <1>2 DEF ClearObject
    <2> DEFINE o == [op[p] EXCEPT !.left = @ \ {d}]
    <2>2. o.at = "clear" /\ o.left = op[p].left \ {d} /\ Delete(p, d, o)
      BY <1>2, <2>1 DEF ClearObject, Typed, Ops
    <2>3. Clearing(p) /\ UNCHANGED raised
      BY <1>2 DEF ClearObject, Clearing
    <2> HIDE DEF o
    <2> QED
      BY <2>2, <2>3, CalmDelete
  <1>3. CASE ClearRecords(p)
    <2>1. Clearing(p) /\ op[p].left = {} /\ Delete(p, RecordDir, Idle) /\ UNCHANGED raised
      BY <1>3 DEF ClearRecords, Clearing
    <2> QED
      BY <2>1, IdleTyped, CalmDelete
  <1> QED
    BY <1>1, <1>2, <1>3, CalmRead, CalmGet, CalmFind, CalmEncode, CalmMkdir, CalmMakeTemp,
       CalmReplace, CalmReturn, CalmClearBegins, CalmCrash DEF Step

LEMMA IInvHolds == Spec => []IInv
  <1>1. Init => IInv
    BY TypedInit, CalmInit DEF IInv
  <1>2. IInv /\ Next => IInv'
    BY TypedStep, CalmKept DEF IInv
  <1>3. IInv /\ UNCHANGED vars => IInv'
    BY DEF IInv, Typed, Calm, Clearing, Sound, vars
  <1> QED
    BY <1>1, <1>2, <1>3, PTL DEF Spec

-----------------------------------------------------------------------------
(* Theorems *)

LEMMA NoHoleIs ==
  ASSUME Typed, NoHole(files)
  PROVE  Referenced
  BY Names DEF NoHole, Needs, Referenced

\* Nothing on disk refers to what is not there, whichever processes write and
\* wherever one of them dies; a clear that meets no write and is not cut
\* short leaves it so.
THEOREM StoreIsWhole == Spec => []WholeUnlessTorn
  <1>1. IInv => WholeUnlessTorn
    BY NoHoleIs DEF IInv, Calm, Clearing, WholeUnlessTorn
  <1> QED
    BY IInvHolds, <1>1, PTL

\* A write raises only under a clear, or after one that was cut short.
THEOREM WritesSucceed == Spec => []RaisesOnlyWhenTorn
  <1>1. IInv => RaisesOnlyWhenTorn
    BY DEF IInv, Calm, RaisesOnlyWhenTorn, Typed
  <1> QED
    BY IInvHolds, <1>1, PTL

\* A call that returns has left its record and all its value is made of.
THEOREM ComputedStays == Spec => ComputedIsKept
  <1>1. ASSUME IInv, NEW p \in Proc, Return(p), ~torn
        PROVE  Record(op[p].v) \in files /\ Whole(op[p].v)
    <2>1. op[p].at = "put" /\ op[p].stack = <<>> /\ op[p].v \in Result
      BY <1>1 DEF Return, IInv, Typed
    <2>2. Record(op[p].v) \in files
      BY <1>1, <2>1 DEF IInv, Calm, Sound, Bottom
    <2>3. NoHole(files)
      BY <1>1, <2>1 DEF IInv, Calm, Clearing
    <2> DEFINE S == files \cap Obj
    <2>4. op[p].v \in S
      BY <1>1, <2>1, <2>2, <2>3, NoHoleIs, Names DEF IInv, Referenced
    <2>5. \A o \in S : Kids[o] \subseteq S
      BY <1>1, <2>3, NoHoleIs, Names DEF IInv, Referenced
    <2>6. Whole(op[p].v)
      BY <2>4, <2>5 DEF Whole
    <2> QED
      BY <2>2, <2>6
  <1>2. IInv /\ [Next]_vars => [\A p \in Proc : Return(p) /\ ~torn =>
                                   Record(op[p].v) \in files /\ Whole(op[p].v)]_vars
    BY <1>1
  <1> QED
    BY IInvHolds, <1>2, PTL DEF Spec, ComputedIsKept

=============================================================================
