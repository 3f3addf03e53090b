---------------------------- MODULE BatchProofs ----------------------------
(***************************************************************************)
(* What holds of Batch for every number of inputs, every set of hosts and  *)
(* every capacity.                                                         *)
(***************************************************************************)
EXTENDS Batch, FiniteSetTheorems, SequenceTheorems, TLAPS

USE DEF Input

\* The queue an action pops or refills is a queue of inputs.
LEMMA ListingsAreQueues ==
  ASSUME NEW S \in SUBSET Input, NEW s \in Listings(S)
  PROVE  s \in Seq(Input)
<1>1. IsFiniteSet(Input)
  BY FS_Interval, BatchAssumption
<1>2. IsFiniteSet(S)
  BY <1>1, FS_Subset
<1>3. Cardinality(S) \in Nat
  BY <1>2, FS_CardinalityType
<1>4. s \in [1 .. Cardinality(S) -> Input]
  BY DEF Listings
<1>5. QED
  BY <1>3, <1>4, SeqDef

LEMMA PoppedQueue ==
  ASSUME pending \in Seq(Input), pending # <<>>
  PROVE  /\ Head(pending) \in Input
         /\ Tail(pending) \in Seq(Input)
  BY HeadTailProperties

\* Capacities are natural numbers.
LEMMA CapsAreNat ==
  ASSUME TypeOK
  PROVE  capacities(mode, ReadyWorkers(Local),
                    [r \in Remote |-> ReadyWorkers(r)], Syncing)
           \in [Host -> Nat]
  BY BatchAssumption DEF capacities, ReadyWorkers, Host

LEMMA HostStepType ==
  ASSUME HostsTypeOK, NEW h \in Host,
         SyncStep(h) \/ Drop(h) \/ ReaderEnds(h) \/ ReaderSwept(h)
  PROVE  HostsTypeOK'
  BY DEF HostsTypeOK, SyncStep, SyncBegins, Launch, LaunchFails, OpenCheck,
         CheckPasses, CheckFails, SyncReady, Drop, ReaderEnds, ReaderSwept,
         At, State, Sync, InSync, Link, Reader

LEMMA HostsUntouched ==
  ASSUME HostsTypeOK, UNCHANGED hostVars
  PROVE  HostsTypeOK'
  BY DEF HostsTypeOK, hostVars

LEMMA RetireType ==
  ASSUME TypeOK, NEW i \in Input, Retire(i)
  PROVE  /\ at' \in [Input -> Host \cup {None}]
         /\ busy' \in [Host -> Int]
         /\ heard' \in [Input -> News]
         /\ posted' \in [Input -> News]
         /\ UNCHANGED <<mode, caps, starts>>
         /\ HostsTypeOK'
<1>1. at[i] \in Host
  BY DEF Retire, TypeOK
<1>2. busy[at[i]] - 1 \in Int
  BY <1>1 DEF TypeOK
<1>3. busy' \in [Host -> Int]
  BY <1>1, <1>2 DEF Retire, TypeOK
<1>4. at' \in [Input -> Host \cup {None}]
  BY DEF Retire, TypeOK
<1>5. heard' \in [Input -> News] /\ posted' \in [Input -> News]
  BY DEF Retire, TypeOK, News
<1>6. QED
  BY <1>3, <1>4, <1>5, HostsUntouched DEF Retire, TypeOK

LEMMA PopType ==
  ASSUME TypeOK, PopHead
  PROVE  /\ Head(pending) \in Input
         /\ pending' \in Seq(Input)
         /\ starts' \in [Input -> Nat]
<1>1. Head(pending) \in Input /\ pending' \in Seq(Input)
  BY PoppedQueue DEF PopHead, TypeOK
<1>2. starts' \in [Input -> Nat]
  BY <1>1 DEF PopHead, TypeOK
<1>3. QED
  BY <1>1, <1>2

LEMMA CapsCleared ==
  ASSUME StartingDone
  PROVE  caps' \in [Host -> Nat]
  BY DEF StartingDone

LEMMA InitType ==
  ASSUME Init
  PROVE  TypeOK
  BY BatchAssumption, LocalIsNotRemote, EmptySeq
     DEF Init, HostsInit, TypeOK, HostsTypeOK, State, Sync, InSync, Link,
         Reader, PC, MODES, News, Outcome, Verdict

\* Every variable keeps its type, the scheduler's, the threads' and the queue's.
THEOREM Typing == Spec => []TypeOK
<1>1. Init => TypeOK
  BY InitType
<1>2. TypeOK /\ [Next]_vars => TypeOK'
  <2> SUFFICES ASSUME TypeOK, [Next]_vars
               PROVE  TypeOK'
    OBVIOUS
  <2> USE HostsUntouched DEF Goto, taskVars, endVars, PC, TypeOK
  <2>1. ASSUME Before PROVE TypeOK'
    <3>1. ASSUME NEW S \in SUBSET Cacheable, ServeCached(S) PROVE TypeOK'
      BY <3>1, ListingsAreQueues DEF ServeCached, Outcome
    <3>2. CASE ReturnCached
      BY <3>2 DEF ReturnCached, Verdict
    <3>3. CASE MakeHosts
      BY <3>3, BatchAssumption DEF MakeHosts, HostsTypeOK, Sync, InSync
    <3>4. CASE HostsMade
      BY <3>4 DEF HostsMade
    <3>5. CASE RunSequentially
      BY <3>5, ListingsAreQueues DEF RunSequentially
    <3>6. ASSUME NEW what \in {"value", "failed"}, SequentialCall(what)
          PROVE  TypeOK'
      BY <3>6, PopType DEF SequentialCall, Settle, Outcome, Verdict
    <3>7. CASE SequentialEnd
      BY <3>7 DEF SequentialEnd, Verdict
    <3>8. QED
      BY <2>1, <3>1, <3>2, <3>3, <3>4, <3>5, <3>6, <3>7 DEF Before
  <2>2. ASSUME Turn PROVE TypeOK'
    <3>1. ASSUME NEW m \in FileModes, Poll(m) PROVE TypeOK'
      BY <3>1, BatchAssumption DEF Poll, SpawnSyncs, HostsTypeOK, Sync, InSync
    <3>2. CASE LoopEnds
      BY <3>2 DEF LoopEnds, Verdict
    <3>3. CASE TakeCaps
      BY <3>3, CapsAreNat DEF TakeCaps
    <3>4. ASSUME NEW h \in Host, StartTask(h) PROVE TypeOK'
      BY <3>4, PopType DEF StartTask, News
    <3>5. CASE AwaitTasks \/ AwaitSync
      <4>1. CASE AwaitTasks
        BY <4>1, CapsCleared DEF AwaitTasks
      <4>2. CASE AwaitSync
        BY <4>2, CapsCleared DEF AwaitSync
      <4>3. QED
        BY <3>5, <4>1, <4>2
    <3>6. ASSUME NEW what \in {"value", "failed"}, RunHere(what)
          PROVE  TypeOK'
      <4>1. PopHead /\ caps' \in [Host -> Nat] /\ HostsTypeOK'
        BY <3>6, CapsCleared DEF RunHere
      <4>2. outcome' \in [Input -> Outcome]
        BY <3>6, <4>1, PopType DEF RunHere, Settle, Outcome
      <4>3. QED
        BY <3>6, <4>1, <4>2, PopType DEF RunHere, Verdict
    <3>7. CASE Deliver
      BY <3>7 DEF Deliver
    <3>8. ASSUME NEW i \in Input, CollectValue(i) PROVE TypeOK'
      BY <3>8, RetireType DEF CollectValue, Settle, Outcome
    <3>9. ASSUME NEW i \in Input, CollectLost(i) PROVE TypeOK'
      <4>1. <<i>> \o pending \in Seq(Input)
        BY ConcatProperties
      <4>2. QED
        BY <3>9, <4>1, RetireType DEF CollectLost
    <3>10. ASSUME NEW i \in Input, CollectFailed(i) PROVE TypeOK'
      BY <3>10, RetireType
         DEF CollectFailed, NoResult, Settle, Outcome, Verdict
    <3>11. CASE EndTurn
      BY <3>11 DEF EndTurn
    <3>12. CASE Close
      BY <3>12 DEF Close, CloseAll, HostsTypeOK, Link
    <3>13. QED
      BY <2>2, <3>1, <3>2, <3>3, <3>4, <3>5, <3>6, <3>7, <3>8, <3>9, <3>10,
         <3>11, <3>12 DEF Turn
  <2>3. ASSUME NEW i \in Input, Expire(i) \/ Report(i) PROVE TypeOK'
    <3>1. CASE Expire(i)
      BY <3>1, RetireType DEF Expire, NoResult, Settle, Outcome, Verdict
    <3>2. CASE Report(i)
      BY <3>2 DEF Report, schedulerVars, News
    <3>3. QED
      BY <2>3, <3>1, <3>2
  <2>4. CASE Interrupt
    BY <2>4 DEF Interrupt, Verdict
  <2>5. ASSUME NEW h \in Host, HostStep(h) PROVE TypeOK'
    BY <2>5, HostStepType DEF HostStep, TypeOK, schedulerVars, endVars
  <2>6. ASSUME NEW h \in Host, Sweep(h) PROVE TypeOK'
    BY <2>6, HostStepType DEF Sweep, TypeOK, schedulerVars, endVars, News
  <2>7. CASE Done \/ UNCHANGED vars
    BY <2>7 DEF Done, vars
  <2>8. QED
    BY <2>1, <2>2, <2>3, <2>4, <2>5, <2>6, <2>7 DEF Next, Scheduler
<1>3. QED
  BY <1>1, <1>2, PTL DEF Spec

----------------------------------------------------------------------------
(* What popping, refilling and listing do to the queue.                    *)

LEMMA PopQueue ==
  ASSUME TypeOK, QueueDistinct, PopHead
  PROVE  /\ QueueDistinct'
         /\ Head(pending) \in Input
         /\ Head(pending) \in Queue
         /\ Queue' = Queue \ {Head(pending)}
<1> DEFINE q == pending
<1>1. q \in Seq(Input) /\ q # <<>> /\ q' = Tail(q)
  BY DEF TypeOK, PopHead
<1>2. /\ Head(q) \in Input
      /\ Tail(q) \in Seq(Input)
      /\ Len(Tail(q)) = Len(q) - 1
      /\ \A i \in 1 .. Len(Tail(q)) : Tail(q)[i] = q[i + 1]
  BY <1>1, HeadTailProperties
<1>3. /\ DOMAIN q = 1 .. Len(q) /\ Len(q) \in Nat
      /\ DOMAIN Tail(q) = 1 .. Len(q) - 1
  BY <1>1, <1>2, LenProperties
<1>4. Len(q) > 0 /\ Head(q) = q[1]
  BY <1>1, <1>3, EmptySeq
<1>5. \A i \in 1 .. Len(q) - 1 : (q')[i] = q[i + 1] /\ i + 1 \in 1 .. Len(q)
  BY <1>1, <1>2, <1>3
<1>6. QueueDistinct'
  BY <1>1, <1>3, <1>5 DEF QueueDistinct
<1>7. Head(q) \in Queue
  BY <1>3, <1>4 DEF Queue
<1>8. Queue' = Queue \ {Head(q)}
  <2>1. ASSUME NEW x \in Queue' PROVE x \in Queue \ {Head(q)}
    <3>1. PICK j \in 1 .. Len(q) - 1 : x = (q')[j]
      BY <2>1, <1>1, <1>3 DEF Queue
    <3>2. x = q[j + 1] /\ j + 1 \in DOMAIN q
      BY <3>1, <1>5, <1>3
    <3>3. x # q[1]
      BY <3>1, <3>2, <1>3, <1>4 DEF QueueDistinct
    <3>4. QED
      BY <3>2, <3>3, <1>4 DEF Queue
  <2>2. ASSUME NEW x \in Queue \ {Head(q)} PROVE x \in Queue'
    <3>1. PICK j \in 1 .. Len(q) : x = q[j]
      BY <2>2, <1>3 DEF Queue
    <3>2. j - 1 \in 1 .. Len(q) - 1 /\ j - 1 + 1 = j
      BY <2>2, <3>1, <1>3, <1>4
    <3>3. x = (q')[j - 1]
      BY <3>1, <3>2, <1>5
    <3>4. QED
      BY <3>2, <3>3, <1>1, <1>3 DEF Queue
  <2>3. QED
    BY <2>1, <2>2
<1>9. QED
  BY <1>2, <1>6, <1>7, <1>8

LEMMA PushQueue ==
  ASSUME TypeOK, QueueDistinct, NEW i \in Input, i \notin Queue,
         pending' = <<i>> \o pending
  PROVE  QueueDistinct' /\ Queue' = Queue \cup {i}
<1> DEFINE q == pending
<1>1. q \in Seq(Input) /\ <<i>> \in Seq(Input) /\ Len(<<i>>) = 1
  BY DEF TypeOK
<1>2. /\ q' \in Seq(Input)
      /\ Len(q') = 1 + Len(q)
      /\ \A j \in 1 .. 1 + Len(q) : (q')[j] = IF j <= 1 THEN i ELSE q[j - 1]
  BY <1>1, ConcatProperties
<1>3. /\ DOMAIN q = 1 .. Len(q) /\ Len(q) \in Nat
      /\ DOMAIN q' = 1 .. 1 + Len(q)
  BY <1>1, <1>2, LenProperties
<1>4. \A j \in DOMAIN q : q[j] # i
  BY DEF Queue
<1>5. (q')[1] = i /\ 1 \in DOMAIN q'
  BY <1>2, <1>3
<1>6. \A j \in DOMAIN q : j + 1 \in DOMAIN q' /\ (q')[j + 1] = q[j]
  BY <1>2, <1>3
<1>7. \A j \in DOMAIN q' : j = 1 \/ (j - 1 \in DOMAIN q /\ (q')[j] = q[j - 1])
  BY <1>2, <1>3
<1>8. QueueDistinct'
  <2>1. ASSUME NEW j \in DOMAIN q', NEW k \in DOMAIN q', (q')[j] = (q')[k]
        PROVE  j = k
    BY <2>1, <1>3, <1>4, <1>5, <1>7 DEF QueueDistinct
  <2>2. QED
    BY <2>1 DEF QueueDistinct
<1>9. Queue' = Queue \cup {i}
  <2>1. \A x \in Queue' : x \in Queue \cup {i}
    BY <1>5, <1>7 DEF Queue
  <2>2. \A x \in Queue \cup {i} : x \in Queue'
    <3>1. i \in Queue'
      BY <1>5 DEF Queue
    <3>2. ASSUME NEW j \in DOMAIN q PROVE q[j] \in Queue'
      BY <1>6 DEF Queue
    <3>3. QED
      BY <3>1, <3>2 DEF Queue
  <2>3. QED
    BY <2>1, <2>2
<1>10. QED
  BY <1>8, <1>9

LEMMA ListQueue ==
  ASSUME NEW S \in SUBSET Input, pending' \in Listings(S)
  PROVE  QueueDistinct' /\ Queue' = S
<1> DEFINE n == Cardinality(S)
<1>1. /\ pending' \in [1 .. n -> S]
      /\ \A j, k \in 1 .. n : j < k => (pending')[j] < (pending')[k]
      /\ \A i \in S : \E j \in 1 .. n : (pending')[j] = i
  BY DEF Listings
<1>2. n \in Nat
  <2>1. IsFiniteSet(Input)
    BY FS_Interval, BatchAssumption
  <2>2. IsFiniteSet(S)
    BY <2>1, FS_Subset
  <2>3. QED
    BY <2>2, FS_CardinalityType
<1>3. QueueDistinct'
  <2>1. ASSUME NEW j \in 1 .. n, NEW k \in 1 .. n, j # k
        PROVE  (pending')[j] # (pending')[k]
    <3>1. (pending')[j] \in Int /\ (pending')[k] \in Int
      <4>1. (pending')[j] \in S /\ (pending')[k] \in S
        BY <1>1
      <4>2. N \in Nat /\ Input \subseteq Int
        BY BatchAssumption
      <4>3. QED
        BY <4>1, <4>2
    <3>2. j < k \/ k < j
      BY <2>1, <1>2
    <3>3. QED
      BY <3>1, <3>2, <1>1
  <2>2. QED
    BY <2>1, <1>1 DEF QueueDistinct
<1>4. Queue' = S
  <2>1. \A x \in Queue' : x \in S
    BY <1>1 DEF Queue
  <2>2. \A x \in S : x \in Queue'
    BY <1>1 DEF Queue
  <2>3. QED
    BY <2>1, <2>2
<1>5. QED
  BY <1>3, <1>4

----------------------------------------------------------------------------
(* The inductive invariant.  NoInputLost is not inductive alone: which     *)
(* inputs may be settled depends on how far run_all has come (EndState,    *)
(* BeforeLoop), and the bound on starts on what the queue holds.           *)

InOnePlace ==
  \A i \in Input :
    /\ i \in Queue => at[i] = None /\ outcome[i] = "none"
    /\ at[i] # None => outcome[i] = "none"
    /\ pc # "begin" => i \in Queue \/ at[i] # None \/ outcome[i] # "none"

\* Before the loop, or with no loop at all; and after it.
Early == pc \in {"begin", "served", "hosts", "debugged"}
Over  == pc \in {"closing", "ended"}

BeforeLoop ==
  /\ Early => \A i \in Input : at[i] = None
  /\ pc = "begin" =>
       \A i \in Input : outcome[i] = "none" /\ starts[i] = 0

EndState == verdict = "none" <=> ~ Over

\* What is queued has been started one time fewer than it may be.
StartsLeft ==
  \A i \in Input :
    /\ starts[i] <= IF i \in requeued THEN 2 ELSE 1
    /\ i \in Queue => starts[i] <= IF i \in requeued THEN 1 ELSE 0

IInv ==
  /\ TypeOK
  /\ QueueDistinct
  /\ InOnePlace
  /\ BeforeLoop
  /\ EndState
  /\ StartsLeft
  /\ VerdictIsRight

coreVars == <<pending, at, requeued, outcome, verdict, starts>>

\* A step that moves no input and ends nothing keeps the invariant.
LEMMA QuietStep ==
  ASSUME IInv, TypeOK', UNCHANGED coreVars,
         \/ UNCHANGED pc
         \/ /\ pc # "begin" /\ pc' # "begin"
            /\ Early' => Early
            /\ Over' <=> Over
  PROVE  IInv'
<1>1. QueueDistinct' /\ Queue' = Queue
  BY DEF IInv, QueueDistinct, Queue, coreVars
<1>2. InOnePlace'
  BY <1>1 DEF IInv, InOnePlace, coreVars
<1>3. BeforeLoop'
  BY DEF IInv, BeforeLoop, Early, coreVars
<1>4. EndState'
  BY DEF IInv, EndState, Over, coreVars
<1>5. StartsLeft'
  BY <1>1 DEF IInv, StartsLeft, coreVars
<1>6. VerdictIsRight'
  BY DEF IInv, VerdictIsRight, coreVars
<1>7. QED
  BY <1>1, <1>2, <1>3, <1>4, <1>5, <1>6 DEF IInv

\* A step that settles input i, from the head of the queue (k, then, is i
\* popped and started) or from its task, and ends the batch if i failed.
LEMMA SettleStep ==
  ASSUME IInv, TypeOK', NEW i \in Input, NEW what \in {"value", "failed"},
         Settle(i, what),
         pc \notin {"begin", "closing", "ended"}, pc' # "begin",
         Early' => Early,
         at[i] # None \/ i \in Queue,
         QueueDistinct', Queue' = Queue \ {i},
         at' = [at EXCEPT ![i] = None],
         starts' = IF i \in Queue THEN [starts EXCEPT ![i] = @ + 1] ELSE starts,
         UNCHANGED requeued,
         what = "value" => ~ Over' /\ UNCHANGED verdict,
         what = "failed" => Over' /\ verdict' = "raised"
  PROVE  IInv'
<1>1. /\ verdict = "none"
      /\ outcome[i] = "none"
      /\ outcome \in [Input -> Outcome] /\ at \in [Input -> Host \cup {None}]
      /\ starts \in [Input -> Nat]
  BY DEF IInv, EndState, Over, InOnePlace, TypeOK
<1>2. /\ outcome'[i] = what /\ at'[i] = None
      /\ \A j \in Input \ {i} : outcome'[j] = outcome[j] /\ at'[j] = at[j]
                                /\ starts'[j] = starts[j]
  BY <1>1 DEF Settle
<1>3. InOnePlace'
  <2> SUFFICES ASSUME NEW j \in Input
               PROVE  /\ j \in Queue' => at'[j] = None /\ outcome'[j] = "none"
                      /\ at'[j] # None => outcome'[j] = "none"
                      /\ j \in Queue' \/ at'[j] # None \/ outcome'[j] # "none"
    BY DEF InOnePlace
  <2>1. CASE j = i
    BY <2>1, <1>2
  <2>2. CASE j # i
    BY <2>2, <1>2 DEF IInv, InOnePlace
  <2>3. QED
    BY <2>1, <2>2
<1>4. BeforeLoop'
  <2>1. ASSUME Early', NEW j \in Input PROVE at'[j] = None
    <3>1. CASE j = i
      BY <3>1, <1>2
    <3>2. CASE j # i
      BY <3>2, <2>1, <1>2 DEF IInv, BeforeLoop
    <3>3. QED
      BY <3>1, <3>2
  <2>2. QED
    BY <2>1 DEF BeforeLoop, Early
<1>5. EndState'
  BY <1>1 DEF EndState
<1>6. StartsLeft'
  <2> SUFFICES ASSUME NEW j \in Input
               PROVE  /\ starts'[j] <= IF j \in requeued THEN 2 ELSE 1
                      /\ j \in Queue' =>
                           starts'[j] <= IF j \in requeued THEN 1 ELSE 0
    BY DEF StartsLeft
  <2>1. CASE j = i
    BY <2>1, <1>1 DEF IInv, StartsLeft
  <2>2. CASE j # i
    BY <2>2, <1>2 DEF IInv, StartsLeft
  <2>3. QED
    BY <2>1, <2>2
<1>7. VerdictIsRight'
  <2>1. \A j \in Input : outcome[j] # "failed"
    BY <1>1 DEF IInv, VerdictIsRight
  <2>2. CASE what = "value"
    BY <2>1, <2>2, <1>1, <1>2 DEF VerdictIsRight
  <2>3. CASE what = "failed"
    BY <2>1, <2>3, <1>1, <1>2 DEF VerdictIsRight
  <2>4. QED
    BY <2>2, <2>3
<1>8. QED
  BY <1>3, <1>4, <1>5, <1>6, <1>7 DEF IInv

\* A step that ends the loop, or the run before it, with nothing left to do
\* or by an interrupt.
LEMMA EndingStep ==
  ASSUME IInv, TypeOK', ~ Over, Over', pc # "begin",
         UNCHANGED <<pending, at, requeued, outcome, starts>>,
         \/ verdict' = "interrupted"
         \/ verdict' = "returned" /\ pending = <<>> /\ running = {}
  PROVE  IInv'
<1>1. QueueDistinct' /\ Queue' = Queue
  BY DEF IInv, QueueDistinct, Queue
<1>2. InOnePlace' /\ StartsLeft'
  BY <1>1 DEF IInv, InOnePlace, StartsLeft, Over
<1>3. BeforeLoop' /\ EndState'
  BY DEF BeforeLoop, Early, Over, EndState
<1>4. \A i \in Input : outcome[i] # "failed"
  BY DEF IInv, VerdictIsRight, EndState
<1>5. ASSUME verdict' = "returned", NEW i \in Input
      PROVE  outcome'[i] = "value"
  <2>1. Queue = {} /\ at[i] = None
    BY <1>5 DEF Queue, running
  <2>2. outcome[i] # "none" /\ outcome[i] \in Outcome
    BY <2>1 DEF IInv, InOnePlace, TypeOK
  <2>3. QED
    BY <2>2, <1>4 DEF Outcome
<1>6. VerdictIsRight'
  BY <1>4, <1>5 DEF VerdictIsRight
<1>7. QED
  BY <1>1, <1>2, <1>3, <1>6 DEF IInv

LEMMA StartStep ==
  ASSUME IInv, TypeOK', NEW h \in Host, StartTask(h)
  PROVE  IInv'
<1> DEFINE i == Head(pending)
<1>1. /\ QueueDistinct' /\ i \in Input /\ i \in Queue
      /\ Queue' = Queue \ {i}
  BY PopQueue DEF IInv, StartTask
<1>2. /\ outcome[i] = "none"
      /\ at' = [at EXCEPT ![i] = h] /\ h # None
      /\ starts' = [starts EXCEPT ![i] = @ + 1]
      /\ UNCHANGED <<pc, requeued, outcome, verdict>> /\ pc = "start"
      /\ at \in [Input -> Host \cup {None}] /\ starts \in [Input -> Nat]
  BY <1>1, BatchAssumption
     DEF IInv, InOnePlace, TypeOK, StartTask, PopHead, endVars
<1>3. InOnePlace'
  <2> SUFFICES ASSUME NEW j \in Input
               PROVE  /\ j \in Queue' => at'[j] = None /\ outcome[j] = "none"
                      /\ at'[j] # None => outcome[j] = "none"
                      /\ j \in Queue' \/ at'[j] # None \/ outcome[j] # "none"
    BY <1>2 DEF InOnePlace
  <2>1. CASE j = i
    BY <2>1, <1>1, <1>2
  <2>2. CASE j # i
    BY <2>2, <1>1, <1>2 DEF IInv, InOnePlace
  <2>3. QED
    BY <2>1, <2>2
<1>4. BeforeLoop' /\ EndState'
  BY <1>2 DEF IInv, BeforeLoop, Early, EndState, Over
<1>5. StartsLeft'
  <2> SUFFICES ASSUME NEW j \in Input
               PROVE  /\ starts'[j] <= IF j \in requeued THEN 2 ELSE 1
                      /\ j \in Queue' =>
                           starts'[j] <= IF j \in requeued THEN 1 ELSE 0
    BY <1>2 DEF StartsLeft
  <2>1. CASE j = i
    BY <2>1, <1>1, <1>2 DEF IInv, StartsLeft
  <2>2. CASE j # i
    BY <2>2, <1>1, <1>2 DEF IInv, StartsLeft
  <2>3. QED
    BY <2>1, <2>2
<1>6. VerdictIsRight'
  BY <1>2 DEF IInv, VerdictIsRight
<1>7. QED
  BY <1>1, <1>3, <1>4, <1>5, <1>6 DEF IInv

LEMMA RequeueStep ==
  ASSUME IInv, TypeOK', NEW i \in Input, CollectLost(i)
  PROVE  IInv'
<1>1. /\ pc = "collect" /\ at[i] # None /\ i \notin requeued
      /\ at' = [at EXCEPT ![i] = None] /\ requeued' = requeued \cup {i}
      /\ UNCHANGED <<pc, outcome, verdict, starts>>
      /\ at \in [Input -> Host \cup {None}] /\ starts \in [Input -> Nat]
  BY DEF IInv, TypeOK, CollectLost, Retire, endVars
<1>2. i \notin Queue /\ outcome[i] = "none"
  BY <1>1 DEF IInv, InOnePlace
<1>3. QueueDistinct' /\ Queue' = Queue \cup {i}
  BY <1>2, PushQueue DEF IInv, CollectLost
<1>4. InOnePlace'
  <2> SUFFICES ASSUME NEW j \in Input
               PROVE  /\ j \in Queue' => at'[j] = None /\ outcome[j] = "none"
                      /\ at'[j] # None => outcome[j] = "none"
                      /\ j \in Queue' \/ at'[j] # None \/ outcome[j] # "none"
    BY <1>1 DEF InOnePlace
  <2>1. CASE j = i
    BY <2>1, <1>1, <1>2, <1>3
  <2>2. CASE j # i
    BY <2>2, <1>1, <1>3 DEF IInv, InOnePlace
  <2>3. QED
    BY <2>1, <2>2
<1>5. BeforeLoop' /\ EndState'
  BY <1>1 DEF IInv, BeforeLoop, Early, EndState, Over
<1>6. StartsLeft'
  <2> SUFFICES ASSUME NEW j \in Input
               PROVE  /\ starts[j] <= IF j \in requeued' THEN 2 ELSE 1
                      /\ j \in Queue' =>
                           starts[j] <= IF j \in requeued' THEN 1 ELSE 0
    BY <1>1 DEF StartsLeft
  <2>1. CASE j = i
    BY <2>1, <1>1 DEF IInv, StartsLeft
  <2>2. CASE j # i
    BY <2>2, <1>1, <1>3 DEF IInv, StartsLeft
  <2>3. QED
    BY <2>1, <2>2
<1>7. VerdictIsRight'
  BY <1>1 DEF IInv, VerdictIsRight
<1>8. QED
  BY <1>3, <1>4, <1>5, <1>6, <1>7 DEF IInv

\* The first step lists the inputs the cache did not settle.
LEMMA ListStep ==
  ASSUME IInv, TypeOK', pc = "begin", pc' \in {"served", "debugged"},
         NEW S \in SUBSET Input, pending' \in Listings(Input \ S),
         outcome' = [i \in Input |-> IF i \in S THEN "value" ELSE "none"],
         UNCHANGED <<at, requeued, verdict, starts>>
  PROVE  IInv'
<1>1. QueueDistinct' /\ Queue' = Input \ S
  BY ListQueue
<1>2. \A i \in Input : at[i] = None /\ starts[i] = 0
  BY DEF IInv, BeforeLoop, Early
<1>3. InOnePlace' /\ BeforeLoop' /\ StartsLeft'
  BY <1>1, <1>2 DEF InOnePlace, BeforeLoop, Early, StartsLeft
<1>4. EndState' /\ VerdictIsRight'
  BY DEF IInv, EndState, Over, VerdictIsRight
<1>5. QED
  BY <1>1, <1>3, <1>4 DEF IInv

LEMMA Inductive == Spec => []IInv
<1>1. Init => IInv
  <2> SUFFICES ASSUME Init PROVE IInv
    OBVIOUS
  <2>1. TypeOK
    BY InitType
  <2>2. QueueDistinct /\ Queue = {}
    BY DEF Init, QueueDistinct, Queue
  <2>3. InOnePlace /\ BeforeLoop /\ EndState /\ StartsLeft /\ VerdictIsRight
    BY <2>2 DEF Init, InOnePlace, BeforeLoop, Early, EndState, Over,
                StartsLeft, VerdictIsRight
  <2>4. QED
    BY <2>1, <2>2, <2>3 DEF IInv
<1>2. TypeOK' /\ IInv /\ [Next]_vars => IInv'
  <2> SUFFICES ASSUME TypeOK', IInv, [Next]_vars
               PROVE  IInv'
    OBVIOUS
  <2> USE DEF Goto
  <2>1. ASSUME Before PROVE IInv'
    <3>1. ASSUME NEW S \in SUBSET Cacheable, ServeCached(S) PROVE IInv'
      BY <3>1, ListStep, BatchAssumption DEF ServeCached
    <3>2. CASE ReturnCached
      <4>1. running = {}
        BY <3>2 DEF ReturnCached, IInv, BeforeLoop, Early, running
      <4>2. QED
        BY <3>2, <4>1, EndingStep DEF ReturnCached, Over, taskVars
    <3>3. CASE MakeHosts
      BY <3>3, QuietStep
         DEF MakeHosts, coreVars, taskVars, endVars, Early, Over
    <3>4. CASE HostsMade
      BY <3>4, QuietStep
         DEF HostsMade, coreVars, taskVars, endVars, Early, Over
    <3>5. CASE RunSequentially
      <4>1. /\ pending' \in Listings(Input \ {})
            /\ outcome' = [i \in Input |-> IF i \in {} THEN "value" ELSE "none"]
        BY <3>5 DEF RunSequentially, endVars, IInv, BeforeLoop, TypeOK
      <4>2. /\ {} \in SUBSET Input /\ pc = "begin" /\ pc' = "debugged"
            /\ UNCHANGED <<at, requeued, verdict, starts>>
        BY <3>5 DEF RunSequentially, endVars
      <4>3. QED
        BY <4>1, <4>2, ListStep
    <3>6. ASSUME NEW what \in {"value", "failed"}, SequentialCall(what)
          PROVE  IInv'
      <4> DEFINE i == Head(pending)
      <4>1. PopHead /\ pc = "debugged" /\ Settle(i, what)
            /\ UNCHANGED <<at, requeued>>
        BY <3>6 DEF SequentialCall
      <4>2. QueueDistinct' /\ i \in Input /\ i \in Queue /\ Queue' = Queue \ {i}
        BY <4>1, PopQueue DEF IInv
      <4>3. starts' = [starts EXCEPT ![i] = @ + 1]
        BY <4>1 DEF PopHead
      <4>4. at' = [at EXCEPT ![i] = None]
        BY <4>1, <4>2 DEF IInv, InOnePlace, TypeOK
      <4>5. /\ what = "value" => pc' = "debugged" /\ UNCHANGED verdict
            /\ what = "failed" => pc' = "ended" /\ verdict' = "raised"
        BY <3>6, <4>1 DEF SequentialCall
      <4>6. QED
        BY <4>1, <4>2, <4>3, <4>4, <4>5, SettleStep DEF Early, Over
    <3>7. CASE SequentialEnd
      <4>1. running = {}
        BY <3>7 DEF SequentialEnd, IInv, BeforeLoop, Early, running
      <4>2. QED
        BY <3>7, <4>1, EndingStep DEF SequentialEnd, Over, taskVars
    <3>8. QED
      BY <2>1, <3>1, <3>2, <3>3, <3>4, <3>5, <3>6, <3>7 DEF Before
  <2>2. ASSUME NEW i \in Input, CollectFailed(i) \/ Expire(i) PROVE IInv'
    <3>1. NoResult(i)
      BY <2>2 DEF CollectFailed, Expire
    <3>2. /\ pc = "collect" /\ pc' = "closing" /\ at[i] # None
          /\ Settle(i, "failed") /\ verdict' = "raised"
          /\ at' = [at EXCEPT ![i] = None]
          /\ UNCHANGED <<pending, requeued, starts>>
      BY <3>1 DEF NoResult, Retire
    <3>3. i \notin Queue
      BY <3>2 DEF IInv, InOnePlace
    <3>4. QueueDistinct' /\ Queue' = Queue \ {i}
      BY <3>2, <3>3 DEF IInv, QueueDistinct, Queue
    <3>5. QED
      BY <3>2, <3>3, <3>4, SettleStep DEF Early, Over
  <2>3. ASSUME Turn PROVE IInv'
    <3>1. ASSUME NEW m \in FileModes, Poll(m) PROVE IInv'
      BY <3>1, QuietStep DEF Poll, coreVars, taskVars, endVars, Early, Over
    <3>2. CASE LoopEnds
      BY <3>2, EndingStep DEF LoopEnds, Over, taskVars
    <3>3. CASE TakeCaps
      BY <3>3, QuietStep DEF TakeCaps, coreVars, taskVars, endVars, Early, Over
    <3>4. ASSUME NEW h \in Host, StartTask(h) PROVE IInv'
      BY <3>4, StartStep
    <3>5. CASE AwaitTasks
      BY <3>5, QuietStep
         DEF AwaitTasks, coreVars, taskVars, endVars, Early, Over
    <3>6. CASE AwaitSync
      BY <3>6, QuietStep
         DEF AwaitSync, coreVars, taskVars, endVars, Early, Over
    <3>7. ASSUME NEW what \in {"value", "failed"}, RunHere(what) PROVE IInv'
      <4> DEFINE i == Head(pending)
      <4>1. PopHead /\ pc = "start" /\ Settle(i, what)
            /\ UNCHANGED <<at, requeued>>
        BY <3>7 DEF RunHere
      <4>2. QueueDistinct' /\ i \in Input /\ i \in Queue /\ Queue' = Queue \ {i}
        BY <4>1, PopQueue DEF IInv
      <4>3. starts' = [starts EXCEPT ![i] = @ + 1]
        BY <4>1 DEF PopHead
      <4>4. at' = [at EXCEPT ![i] = None]
        BY <4>1, <4>2 DEF IInv, InOnePlace, TypeOK
      <4>5. /\ what = "value" => pc' = "poll" /\ UNCHANGED verdict
            /\ what = "failed" => pc' = "closing" /\ verdict' = "raised"
        BY <3>7 DEF RunHere
      <4>6. QED
        BY <4>1, <4>2, <4>3, <4>4, <4>5, SettleStep DEF Early, Over
    <3>8. CASE Deliver
      BY <3>8, QuietStep DEF Deliver, coreVars, taskVars, endVars, Early, Over
    <3>9. ASSUME NEW i \in Input, CollectValue(i) PROVE IInv'
      <4>1. /\ pc = "collect" /\ at[i] # None /\ Settle(i, "value")
            /\ at' = [at EXCEPT ![i] = None]
            /\ UNCHANGED <<pc, pending, requeued, verdict, starts>>
        BY <3>9 DEF CollectValue, Retire
      <4>2. i \notin Queue
        BY <4>1 DEF IInv, InOnePlace
      <4>3. QueueDistinct' /\ Queue' = Queue \ {i}
        BY <4>1, <4>2 DEF IInv, QueueDistinct, Queue
      <4>4. QED
        BY <4>1, <4>2, <4>3, SettleStep DEF Early, Over
    <3>10. ASSUME NEW i \in Input, CollectLost(i) PROVE IInv'
      BY <3>10, RequeueStep
    <3>11. CASE EndTurn
      BY <3>11, QuietStep DEF EndTurn, coreVars, taskVars, endVars, Early, Over
    <3>12. CASE Close
      BY <3>12, QuietStep DEF Close, coreVars, taskVars, endVars, Early, Over
    <3>13. QED
      BY <2>2, <2>3, <3>1, <3>2, <3>3, <3>4, <3>5, <3>6, <3>7, <3>8, <3>9,
         <3>10, <3>11, <3>12 DEF Turn
  <2>4. CASE Interrupt
    BY <2>4, EndingStep DEF Interrupt, InLoop, Over, taskVars
  <2>5. ASSUME UNCHANGED <<coreVars, pc>> PROVE IInv'
    BY <2>5, QuietStep
  <2>6. ASSUME NEW i \in Input, Report(i) PROVE IInv'
    BY <2>6, <2>5 DEF Report, schedulerVars, endVars, coreVars
  <2>7. ASSUME NEW h \in Host, HostStep(h) \/ Sweep(h) PROVE IInv'
    BY <2>7, <2>5 DEF HostStep, Sweep, schedulerVars, endVars, coreVars
  <2>8. CASE Done \/ UNCHANGED vars
    BY <2>8, <2>5 DEF Done, vars, taskVars, endVars, coreVars
  <2>9. QED
    BY <2>1, <2>2, <2>3, <2>4, <2>6, <2>7, <2>8 DEF Next, Scheduler
<1>3. QED
  BY <1>1, <1>2, Typing, PTL DEF Spec

----------------------------------------------------------------------------
(* The theorems.                                                           *)

\* run_all loses no input and runs none in two places: whatever hosts drop,
\* fail or come late, each input is queued once, running or settled.
THEOREM InputsKept == Spec => []NoInputLost
<1>1. IInv => NoInputLost
  BY DEF IInv, InOnePlace, NoInputLost
<1>2. QED
  BY <1>1, Inductive, PTL

\* No input is started more than once, or twice if it lost its host.
THEOREM StartsBounded == Spec => []StartedAgainOnlyAfterLoss
<1>1. IInv => StartedAgainOnlyAfterLoss
  BY DEF IInv, StartsLeft, StartedAgainOnlyAfterLoss
<1>2. QED
  BY <1>1, Inductive, PTL

\* A returned batch has every result, and a raised one exactly one failure.
THEOREM VerdictsRight == Spec => []VerdictIsRight
<1>1. IInv => VerdictIsRight
  BY DEF IInv
<1>2. QED
  BY <1>1, Inductive, PTL

----------------------------------------------------------------------------
(* run_all keeps its promise: every step is a step of BatchPromise, or     *)
(* changes nothing BatchPromise sees.                                      *)

\* Settling an input, from the queue or from its task.
LEMMA SettleKeepsPromise ==
  ASSUME IInv, IInv', NEW i \in Input, NEW what \in {"value", "failed"},
         Settle(i, what), at' = [at EXCEPT ![i] = None],
         outcome[i] = "none", verdict = "none",
         UNCHANGED requeued,
         what = "value" => UNCHANGED verdict,
         what = "failed" => verdict' = "raised"
  PROVE  Promise!Next
<1> DEFINE to == IF what = "value" THEN "done" ELSE "failed"
<1>1. /\ outcome \in [Input -> Outcome] /\ at \in [Input -> Host \cup {None}]
      /\ PromisedPhase = "open"
  BY DEF IInv, TypeOK, PromisedPhase
<1>2. PromisedStatus[i] \in {"waiting", "running"}
  BY DEF PromisedStatus
<1>3. PromisedStatus' = [PromisedStatus EXCEPT ![i] = to]
  BY <1>1 DEF PromisedStatus, Settle
<1>4. CASE what = "value"
  <2>1. Promise!Finish(i)
    BY <1>1, <1>2, <1>3, <1>4
       DEF Promise!Finish, Promise!Becomes, PromisedPhase
  <2>2. QED
    BY <2>1 DEF Promise!Next
<1>5. CASE what = "failed"
  <2>1. Promise!Fail(i)
    BY <1>1, <1>2, <1>3, <1>5
       DEF Promise!Fail, Promise!Becomes, PromisedPhase
  <2>2. QED
    BY <2>1 DEF Promise!Next
<1>6. QED
  BY <1>4, <1>5

LEMMA ReturnKeepsPromise ==
  ASSUME IInv, IInv', verdict = "none", verdict' = "returned",
         UNCHANGED <<at, requeued, outcome>>
  PROVE  Promise!Next
<1>1. \A i \in Input : outcome[i] = "value"
  BY DEF IInv, VerdictIsRight
<1>2. \A i \in Input : PromisedStatus[i] = "done"
  BY <1>1 DEF PromisedStatus
<1>3. PromisedPhase = "open" /\ PromisedPhase' = "returned"
  BY DEF PromisedPhase
<1>4. UNCHANGED PromisedStatus
  BY DEF PromisedStatus
<1>5. Promise!Return
  BY <1>2, <1>3, <1>4 DEF Promise!Return
<1>6. QED
  BY <1>5 DEF Promise!Next

LEMMA ListKeepsPromise ==
  ASSUME IInv, pc = "begin", NEW S \in SUBSET Input,
         outcome' = [i \in Input |-> IF i \in S THEN "value" ELSE "none"],
         UNCHANGED <<at, requeued, verdict>>
  PROVE  Promise!Next
<1>1. /\ \A i \in Input : at[i] = None /\ outcome[i] = "none"
      /\ verdict = "none"
  BY DEF IInv, BeforeLoop, Early, EndState, Over
<1>2. /\ \A i \in Input : PromisedStatus[i] = "waiting"
      /\ PromisedStatus' = [i \in Input |-> IF i \in S THEN "done" ELSE "waiting"]
  BY <1>1 DEF PromisedStatus
<1>3. PromisedPhase = "open" /\ UNCHANGED PromisedPhase
  BY <1>1 DEF PromisedPhase
<1>4. Promise!Serve(S)
  BY <1>2, <1>3 DEF Promise!Serve
<1>5. QED
  BY <1>4 DEF Promise!Next

LEMMA StartKeepsPromise ==
  ASSUME IInv, NEW h \in Host, StartTask(h)
  PROVE  Promise!Next
<1> DEFINE i == Head(pending)
<1>1. i \in Input /\ i \in Queue
  BY PopQueue DEF IInv, StartTask
<1>2. /\ outcome[i] = "none" /\ at[i] = None /\ h # None
      /\ at' = [at EXCEPT ![i] = h] /\ at \in [Input -> Host \cup {None}]
      /\ UNCHANGED <<requeued, outcome, verdict>> /\ verdict = "none"
  BY <1>1, BatchAssumption
     DEF IInv, InOnePlace, TypeOK, StartTask, endVars, EndState, Over
<1>3. /\ PromisedStatus[i] = "waiting"
      /\ PromisedStatus' = [PromisedStatus EXCEPT ![i] = "running"]
  BY <1>1, <1>2 DEF PromisedStatus
<1>4. PromisedPhase = "open" /\ UNCHANGED PromisedPhase
  BY <1>2 DEF PromisedPhase
<1>5. Promise!Start(i)
  BY <1>2, <1>3, <1>4 DEF Promise!Start, Promise!Becomes
<1>6. QED
  BY <1>1, <1>5 DEF Promise!Next

LEMMA RequeueKeepsPromise ==
  ASSUME IInv, NEW i \in Input, CollectLost(i)
  PROVE  Promise!Next
<1>1. /\ at[i] # None /\ i \notin requeued
      /\ at' = [at EXCEPT ![i] = None] /\ requeued' = requeued \cup {i}
      /\ UNCHANGED <<outcome, verdict>>
      /\ at \in [Input -> Host \cup {None}]
  BY DEF IInv, TypeOK, CollectLost, Retire, endVars
<1>2. outcome[i] = "none" /\ verdict = "none"
  BY <1>1 DEF IInv, InOnePlace, EndState, Over, CollectLost, Retire
<1>3. /\ PromisedStatus[i] = "running"
      /\ PromisedStatus' = [PromisedStatus EXCEPT ![i] = "waiting"]
  BY <1>1, <1>2 DEF PromisedStatus
<1>4. PromisedPhase = "open" /\ UNCHANGED PromisedPhase
  BY <1>1, <1>2 DEF PromisedPhase
<1>5. Promise!Lose(i)
  BY <1>1, <1>3, <1>4 DEF Promise!Lose, Promise!Becomes
<1>6. QED
  BY <1>5 DEF Promise!Next

\* Every behaviour of the scheduler is one that BatchPromise allows.
THEOREM PromiseIsKept == Spec => PromiseKept
<1>1. Init => Promise!Init
  BY DEF Init, Promise!Init, PromisedStatus, PromisedPhase
<1>2. IInv /\ IInv' /\ [Next]_vars => [Promise!Next]_(Promise!promiseVars)
  <2> SUFFICES ASSUME IInv, IInv', [Next]_vars
               PROVE  Promise!Next \/ UNCHANGED Promise!promiseVars
    OBVIOUS
  <2> USE DEF Goto
  <2>1. ASSUME UNCHANGED <<at, requeued, outcome, verdict>>
        PROVE  UNCHANGED Promise!promiseVars
    BY <2>1 DEF Promise!promiseVars, PromisedStatus, PromisedPhase
  <2>2. ASSUME NEW what \in {"value", "failed"},
               SequentialCall(what) \/ RunHere(what)
        PROVE  Promise!Next
    <3> DEFINE i == Head(pending)
    <3>1. /\ PopHead /\ Settle(i, what) /\ UNCHANGED <<at, requeued>>
          /\ pc \in {"debugged", "start"}
          /\ what = "value" => UNCHANGED verdict
          /\ what = "failed" => verdict' = "raised"
      BY <2>2 DEF SequentialCall, RunHere
    <3>2. i \in Input /\ i \in Queue
      BY <3>1, PopQueue DEF IInv
    <3>3. outcome[i] = "none" /\ verdict = "none"
      BY <3>1, <3>2 DEF IInv, InOnePlace, EndState, Over
    <3>4. at' = [at EXCEPT ![i] = None]
      BY <3>1, <3>2 DEF IInv, InOnePlace, TypeOK
    <3>5. QED
      BY <3>1, <3>2, <3>3, <3>4, SettleKeepsPromise
  <2>3. ASSUME NEW i \in Input, NEW what \in {"value", "failed"},
               Retire(i), Settle(i, what), UNCHANGED requeued,
               what = "value" => UNCHANGED verdict,
               what = "failed" => verdict' = "raised"
        PROVE  Promise!Next
    <3>1. outcome[i] = "none" /\ verdict = "none"
      BY <2>3 DEF Retire, IInv, InOnePlace, EndState, Over
    <3>2. at' = [at EXCEPT ![i] = None]
      BY <2>3 DEF Retire
    <3>3. QED
      BY <2>3, <3>1, <3>2, SettleKeepsPromise
  <2>4. ASSUME Before PROVE Promise!Next \/ UNCHANGED Promise!promiseVars
    <3>1. ASSUME NEW S \in SUBSET Cacheable, ServeCached(S)
          PROVE  Promise!Next
      BY <3>1, ListKeepsPromise, BatchAssumption DEF ServeCached
    <3>2. CASE ReturnCached \/ SequentialEnd
      BY <3>2, ReturnKeepsPromise
         DEF ReturnCached, SequentialEnd, taskVars, IInv, EndState, Over
    <3>3. CASE MakeHosts \/ HostsMade \/ RunSequentially
      BY <3>3, <2>1 DEF MakeHosts, HostsMade, RunSequentially, taskVars, endVars
    <3>4. QED
      BY <2>4, <2>2, <3>1, <3>2, <3>3 DEF Before
  <2>5. ASSUME Turn PROVE Promise!Next \/ UNCHANGED Promise!promiseVars
    <3>1. ASSUME NEW m \in FileModes, Poll(m)
          PROVE  UNCHANGED Promise!promiseVars
      BY <3>1, <2>1 DEF Poll, taskVars, endVars
    <3>2. CASE LoopEnds
      BY <3>2, ReturnKeepsPromise
         DEF LoopEnds, taskVars, IInv, EndState, Over
    <3>3. CASE TakeCaps \/ AwaitTasks \/ AwaitSync \/ Deliver \/ EndTurn \/ Close
      BY <3>3, <2>1
         DEF TakeCaps, AwaitTasks, AwaitSync, Deliver, EndTurn, Close, taskVars,
             endVars
    <3>4. ASSUME NEW i \in Input, CollectValue(i) PROVE Promise!Next
      BY <3>4, <2>3 DEF CollectValue
    <3>5. ASSUME NEW i \in Input, CollectFailed(i) PROVE Promise!Next
      BY <3>5, <2>3 DEF CollectFailed, NoResult
    <3>6. QED
      BY <2>5, <2>2, <3>1, <3>2, <3>3, <3>4, <3>5, StartKeepsPromise,
         RequeueKeepsPromise DEF Turn
  <2>6. ASSUME NEW i \in Input, Expire(i) PROVE Promise!Next
    BY <2>6, <2>3 DEF Expire, NoResult
  <2>7. CASE Interrupt
    <3>1. verdict = "none" /\ verdict' = "interrupted"
      BY <2>7 DEF Interrupt, InLoop, IInv, EndState, Over
    <3>2. Promise!Interrupt
      BY <2>7, <3>1
         DEF Interrupt, taskVars, Promise!Interrupt, PromisedStatus, PromisedPhase
    <3>3. QED
      BY <3>2 DEF Promise!Next
  <2>8. ASSUME NEW i \in Input, Report(i) PROVE UNCHANGED Promise!promiseVars
    BY <2>8, <2>1 DEF Report, schedulerVars, endVars
  <2>9. ASSUME NEW h \in Host, HostStep(h) \/ Sweep(h)
        PROVE  UNCHANGED Promise!promiseVars
    BY <2>9, <2>1 DEF HostStep, Sweep, schedulerVars, endVars
  <2>10. CASE Done \/ UNCHANGED vars
    BY <2>10, <2>1 DEF Done, vars, taskVars, endVars
  <2>11. QED
    BY <2>4, <2>5, <2>6, <2>7, <2>8, <2>9, <2>10 DEF Next, Scheduler
<1>3. QED
  BY <1>1, <1>2, Inductive, PTL DEF Spec, PromiseKept, Promise!Spec

----------------------------------------------------------------------------
(* The count of a host's tasks, and its bound.                             *)

TasksAt(h) == {i \in Input : at[i] = h}

CountInv ==
  \A h \in Host :
    /\ busy[h] = Cardinality(TasksAt(h))
    /\ caps[h] <= Workers[h]
    /\ busy[h] <= Workers[h]

\* Only these steps touch what CountInv is about.
LEMMA CountSteps ==
  ASSUME [Next]_vars
  PROVE  \/ UNCHANGED <<at, busy, caps>>
         \/ UNCHANGED <<at, busy>> /\ StartingDone
         \/ UNCHANGED <<at, busy>> /\ TakeCaps
         \/ \E h \in Host : StartTask(h)
         \/ \E i \in Input : Retire(i)
<1> USE DEF taskVars
<1>1. Before => UNCHANGED <<at, busy, caps>>
  BY DEF Before, ServeCached, ReturnCached, MakeHosts, HostsMade,
         RunSequentially, SequentialEnd, SequentialCall
<1>2. CASE Turn
  BY <1>2 DEF Turn, Poll, LoopEnds, TakeCaps, AwaitTasks, AwaitSync, RunHere,
              Deliver, CollectValue, CollectLost, CollectFailed, NoResult,
              EndTurn, Close
<1>3. ASSUME NEW i \in Input, Expire(i) \/ Report(i)
      PROVE  Retire(i) \/ UNCHANGED <<at, busy, caps>>
  BY <1>3 DEF Expire, NoResult, Report, schedulerVars
<1>4. CASE Interrupt \/ Done \/ UNCHANGED vars
  BY <1>4 DEF Interrupt, Done, vars
<1>5. ASSUME NEW h \in Host, HostStep(h) \/ Sweep(h)
      PROVE  UNCHANGED <<at, busy, caps>>
  BY <1>5 DEF HostStep, Sweep, schedulerVars
<1>6. QED
  BY <1>1, <1>2, <1>3, <1>4, <1>5 DEF Next, Scheduler

LEMMA CountInductive == Spec => []CountInv
<1>1. Init => CountInv
  <2> SUFFICES ASSUME Init, NEW h \in Host
               PROVE  /\ busy[h] = Cardinality(TasksAt(h))
                      /\ caps[h] <= Workers[h] /\ busy[h] <= Workers[h]
    BY DEF CountInv
  <2>1. TasksAt(h) = {}
    BY BatchAssumption DEF Init, TasksAt
  <2>2. Workers[h] \in Nat /\ busy[h] = 0 /\ caps[h] = 0
    BY BatchAssumption DEF Init
  <2>3. QED
    BY <2>1, <2>2, FS_EmptySet
<1>2. IInv /\ IInv' /\ CountInv /\ [Next]_vars => CountInv'
  <2> SUFFICES ASSUME IInv, IInv', CountInv, [Next]_vars
               PROVE  CountInv'
    OBVIOUS
  <2>1. ASSUME NEW S \in SUBSET Input
        PROVE  IsFiniteSet(S)
    <3>1. IsFiniteSet(Input)
      BY FS_Interval, BatchAssumption DEF Input
    <3>2. QED
      BY <3>1, FS_Subset
  <2>2. /\ at \in [Input -> Host \cup {None}] /\ busy \in [Host -> Int]
        /\ caps \in [Host -> Nat] /\ Workers \in [Host -> Nat]
        /\ None \notin Host
    BY BatchAssumption DEF IInv, TypeOK
  <2>3. CASE UNCHANGED <<at, busy, caps>>
    BY <2>3 DEF CountInv, TasksAt
  <2>4. CASE UNCHANGED <<at, busy>> /\ StartingDone
    <3>1. \A h \in Host : caps'[h] = 0
      BY <2>4 DEF StartingDone
    <3>2. ASSUME NEW h \in Host
          PROVE  /\ busy'[h] = Cardinality(TasksAt(h)')
                 /\ caps'[h] <= Workers[h] /\ busy'[h] <= Workers[h]
      <4>1. TasksAt(h)' = TasksAt(h) /\ busy'[h] = busy[h]
        BY <2>4 DEF TasksAt
      <4>2. Workers[h] \in Nat
        BY <2>2
      <4>3. QED
        BY <3>1, <4>1, <4>2 DEF CountInv
    <3>3. QED
      BY <3>2 DEF CountInv
  <2>5. CASE UNCHANGED <<at, busy>> /\ TakeCaps
    <3>1. \A h \in Host : caps'[h] <= Workers[h]
      BY <2>2, <2>5 DEF TakeCaps, capacities, ReadyWorkers, Host
    <3>2. QED
      BY <2>5, <3>1 DEF CountInv, TasksAt
  <2>6. ASSUME NEW h \in Host, StartTask(h) PROVE CountInv'
    <3> DEFINE i == Head(pending)
    <3>1. i \in Input /\ at[i] = None
      BY <2>6, PopQueue DEF StartTask, IInv, InOnePlace
    <3>2. /\ at' = [at EXCEPT ![i] = h] /\ busy' = [busy EXCEPT ![h] = @ + 1]
          /\ UNCHANGED caps /\ busy[h] < caps[h]
      BY <2>6 DEF StartTask, HasRoom
    <3>3. TasksAt(h)' = TasksAt(h) \cup {i} /\ i \notin TasksAt(h)
      BY <2>2, <3>1, <3>2 DEF TasksAt
    <3>4. Cardinality(TasksAt(h)') = Cardinality(TasksAt(h)) + 1
      <4>1. IsFiniteSet(TasksAt(h))
        BY <2>1 DEF TasksAt
      <4>2. QED
        BY <4>1, <3>3, FS_AddElement
    <3>5. ASSUME NEW g \in Host, g # h
          PROVE  TasksAt(g)' = TasksAt(g) /\ busy'[g] = busy[g]
      BY <2>2, <3>1, <3>2, <3>5 DEF TasksAt
    <3>6. busy'[h] = busy[h] + 1 /\ busy'[h] <= Workers[h]
      BY <2>2, <3>2 DEF CountInv
    <3>7. ASSUME NEW g \in Host
          PROVE  /\ busy'[g] = Cardinality(TasksAt(g)')
                 /\ caps'[g] <= Workers[g] /\ busy'[g] <= Workers[g]
      BY <3>2, <3>4, <3>5, <3>6 DEF CountInv
    <3>8. QED
      BY <3>7 DEF CountInv
  <2>7. ASSUME NEW i \in Input, Retire(i) PROVE CountInv'
    <3> PICK h \in Host : h = at[i]
      BY <2>2, <2>7 DEF Retire
    <3>1. /\ at[i] = h
          /\ at' = [at EXCEPT ![i] = None] /\ busy' = [busy EXCEPT ![h] = @ - 1]
          /\ UNCHANGED caps
      BY <2>2, <2>7 DEF Retire
    <3>2. TasksAt(h)' = TasksAt(h) \ {i} /\ i \in TasksAt(h)
      BY <2>2, <3>1 DEF TasksAt
    <3>3. Cardinality(TasksAt(h)') = Cardinality(TasksAt(h)) - 1
      <4>1. IsFiniteSet(TasksAt(h))
        BY <2>1 DEF TasksAt
      <4>2. QED
        BY <4>1, <3>2, FS_RemoveElement
    <3>4. ASSUME NEW g \in Host, g # h
          PROVE  TasksAt(g)' = TasksAt(g) /\ busy'[g] = busy[g]
      BY <2>2, <3>1, <3>4 DEF TasksAt
    <3>5. busy'[h] = busy[h] - 1 /\ busy'[h] <= Workers[h]
      BY <2>2, <3>1 DEF CountInv
    <3>6. ASSUME NEW g \in Host
          PROVE  /\ busy'[g] = Cardinality(TasksAt(g)')
                 /\ caps'[g] <= Workers[g] /\ busy'[g] <= Workers[g]
      BY <3>1, <3>3, <3>4, <3>5 DEF CountInv
    <3>7. QED
      BY <3>6 DEF CountInv
  <2>8. QED
    BY <2>3, <2>4, <2>5, <2>6, <2>7, CountSteps
<1>3. QED
  BY <1>1, <1>2, Inductive, PTL DEF Spec

\* No host ever holds more tasks than it has workers, and the scheduler's
\* count of them is right.
THEOREM BusyBounded == Spec => []BusyWithinWorkers
<1>1. CountInv => BusyWithinWorkers
  BY DEF CountInv, TasksAt, BusyWithinWorkers
<1>2. QED
  BY <1>1, CountInductive, PTL

----------------------------------------------------------------------------
(* Tasks are only on hosts whose sync has ended.                           *)

Synced(h) ==
  sync[h] = "done" /\ state[h] \in {"ready", "failed"} /\ link[h] # "none"

\* The strengthening: a host is ready only once its sync is over, and a sync
\* past the connection has one; before the hosts are made none was tried.
SyncInv ==
  /\ \A h \in Host :
       /\ sync[h] \in {"opening", "checking", "passed"} => link[h] # "none"
       /\ state[h] = "ready" => Synced(h)
       /\ sync[h] = "done" => state[h] \in {"ready", "failed"}
       /\ pc \in {"begin", "served"} =>
            sync[h] = "none" /\ state[h] = "new" /\ link[h] = "none"
       /\ caps[h] > 0 => Synced(h)
  /\ \A i \in Input : at[i] # None => Synced(at[i])

\* A thread's step leaves a synced host synced.
LEMMA ThreadStep ==
  ASSUME TypeOK, SyncInv, NEW g \in Host, HostStep(g) \/ Sweep(g)
  PROVE  SyncInv'
<1> USE DEF schedulerVars
<1>1. ASSUME NEW h \in Host
      PROVE  /\ sync'[h] \in {"opening", "checking", "passed"}
                  => link'[h] # "none"
             /\ state'[h] = "ready" => Synced(h)'
             /\ sync'[h] = "done" => state'[h] \in {"ready", "failed"}
             /\ pc \in {"begin", "served"} =>
                  sync'[h] = "none" /\ state'[h] = "new" /\ link'[h] = "none"
             /\ Synced(h) => Synced(h)'
  <2> USE <1>1 DEF SyncInv, Synced, TypeOK, HostsTypeOK
  <2>1. CASE SyncStep(g)
    BY <2>1 DEF SyncStep, SyncBegins, Launch, LaunchFails, OpenCheck,
                CheckPasses, CheckFails, SyncReady, At
  <2>2. CASE Drop(g)
    BY <2>2 DEF Drop
  <2>3. CASE ReaderEnds(g)
    BY <2>3 DEF ReaderEnds
  <2>4. CASE ReaderSwept(g)
    BY <2>4 DEF ReaderSwept
  <2>5. QED
    BY <2>1, <2>2, <2>3, <2>4 DEF HostStep, Sweep
<1>2. UNCHANGED <<pc, caps, at>>
  BY DEF HostStep, Sweep
<1>3. QED
  BY <1>1, <1>2, BatchAssumption DEF SyncInv, TypeOK

LEMMA BusyIsNat ==
  ASSUME CountInv, NEW h \in Host
  PROVE  busy[h] \in Nat
<1>1. IsFiniteSet(Input)
  BY FS_Interval, BatchAssumption DEF Input
<1>2. IsFiniteSet(TasksAt(h))
  BY <1>1, FS_Subset DEF TasksAt
<1>3. QED
  BY <1>2, FS_CardinalityType DEF CountInv

LEMMA SyncInductive == Spec => []SyncInv
<1>1. Init => SyncInv
  BY BatchAssumption DEF Init, HostsInit, SyncInv
<1>2. TypeOK /\ CountInv /\ SyncInv /\ [Next]_vars => SyncInv'
  <2> SUFFICES ASSUME TypeOK, CountInv, SyncInv, [Next]_vars
               PROVE  SyncInv'
    OBVIOUS
  <2> USE DEF taskVars, endVars
  <2>1. ASSUME Before PROVE SyncInv'
    <3>1. CASE MakeHosts
      BY <3>1, BatchAssumption
         DEF MakeHosts, Goto, SyncInv, Synced, TypeOK, HostsTypeOK
    <3>2. CASE UNCHANGED <<caps, at, hostVars>>
               /\ (pc' \in {"begin", "served"} => pc = "begin")
      BY <3>2 DEF SyncInv, Synced, hostVars
    <3>3. QED
      BY <2>1, <3>1, <3>2
         DEF Before, ServeCached, ReturnCached, HostsMade, RunSequentially,
             SequentialEnd, SequentialCall, Goto
  <2>2. CASE UNCHANGED <<caps, at, hostVars>> /\ pc' = pc
    BY <2>2 DEF SyncInv, Synced, hostVars
  <2>3. CASE UNCHANGED <<caps, at, hostVars>> /\ pc' \notin {"begin", "served"}
    BY <2>3 DEF SyncInv, Synced, hostVars
  <2>4. ASSUME UNCHANGED <<at, hostVars>>, StartingDone,
               pc' \notin {"begin", "served"}
        PROVE  SyncInv'
    BY <2>4 DEF SyncInv, Synced, hostVars, StartingDone
  <2>5. ASSUME NEW m \in FileModes, Poll(m) PROVE SyncInv'
    <3>1. ASSUME NEW h \in Host
          PROVE  \/ sync'[h] = sync[h]
                 \/ sync[h] = "none" /\ sync'[h] = "spawned"
      <4>1. SpawnSyncs \/ UNCHANGED sync
        BY <2>5 DEF Poll
      <4>2. CASE SpawnSyncs
        BY <4>2 DEF SpawnSyncs
      <4>3. QED
        BY <4>1, <4>2
    <3>2. UNCHANGED <<caps, at, state, link>> /\ pc' = "caps"
      BY <2>5 DEF Poll, Goto
    <3>3. ASSUME NEW h \in Host
          PROVE  Synced(h) => Synced(h)'
      BY <3>1, <3>2 DEF Synced
    <3>4. \A i \in Input : at'[i] # None => Synced(at[i])' /\ at'[i] = at[i]
      BY <3>2, <3>3 DEF SyncInv, TypeOK
    <3>5. QED
      BY <3>1, <3>2, <3>3, <3>4 DEF SyncInv, Synced
  <2>6. CASE TakeCaps
    <3>1. \A h \in Host : caps'[h] > 0 => state[h] = "ready"
      BY <2>6 DEF TakeCaps, capacities, ReadyWorkers, Host
    <3>2. QED
      BY <2>6, <3>1 DEF TakeCaps, Goto, SyncInv, Synced, hostVars
  <2>7. ASSUME NEW h \in Host, StartTask(h) PROVE SyncInv'
    <3>1. caps[h] > 0
      BY <2>7, BusyIsNat DEF StartTask, HasRoom, TypeOK
    <3>2. QED
      BY <2>7, <3>1 DEF StartTask, SyncInv, Synced, hostVars, TypeOK
  <2>8. ASSUME NEW i \in Input, Retire(i), pc' \notin {"begin", "served"}
        PROVE  SyncInv'
    BY <2>8 DEF Retire, SyncInv, Synced, hostVars, TypeOK
  <2>9. CASE Close
    BY <2>9 DEF Close, CloseAll, Goto, SyncInv, Synced, TypeOK, HostsTypeOK
  <2>10. ASSUME NEW h \in Host, HostStep(h) \/ Sweep(h) PROVE SyncInv'
    BY <2>10, ThreadStep
  <2>11. ASSUME Turn PROVE SyncInv'
    <3>1. CASE AwaitTasks \/ AwaitSync
      BY <2>4, <3>1 DEF AwaitTasks, AwaitSync, Goto
    <3>2. ASSUME NEW what \in {"value", "failed"}, RunHere(what)
          PROVE  SyncInv'
      BY <2>4, <3>2 DEF RunHere
    <3>3. CASE LoopEnds \/ Deliver \/ EndTurn
      BY <2>3, <3>3 DEF LoopEnds, Deliver, EndTurn, Goto
    <3>4. ASSUME NEW i \in Input,
                 CollectValue(i) \/ CollectLost(i) \/ CollectFailed(i)
          PROVE  SyncInv'
      BY <2>8, <3>4
         DEF CollectValue, CollectLost, CollectFailed, NoResult, Retire
    <3>5. QED
      BY <2>5, <2>6, <2>7, <2>9, <2>11, <3>1, <3>2, <3>3, <3>4 DEF Turn
  <2>12. ASSUME NEW i \in Input, Expire(i) \/ Report(i) PROVE SyncInv'
    BY <2>2, <2>8, <2>12 DEF Expire, NoResult, Report, schedulerVars
  <2>13. CASE Interrupt \/ Done \/ UNCHANGED vars
    BY <2>2, <2>3, <2>13 DEF Interrupt, Done, vars
  <2>14. QED
    BY <2>1, <2>10, <2>11, <2>12, <2>13 DEF Next, Scheduler
<1>3. QED
  BY <1>1, <1>2, Typing, CountInductive, PTL DEF Spec

\* However the sync, reader and scheduler threads interleave, a task is only
\* ever on a host that was connected and whose sync has ended.
THEOREM TasksAreOnSyncedHosts == Spec => []TasksOnSyncedHosts
<1>1. SyncInv => TasksOnSyncedHosts
  BY DEF SyncInv, Synced, TasksOnSyncedHosts
<1>2. QED
  BY <1>1, SyncInductive, PTL

----------------------------------------------------------------------------
(* Nothing runs on when the batch has ended.                               *)

\* The steps to the end: before there are tasks, or by closing every host.
LEMMA EndsClosed ==
  ASSUME TypeOK, IInv, Next, pc # "ended", pc' = "ended"
  PROVE  NoTaskOutlivesBatch'
<1>1. \/ ReturnCached \/ SequentialEnd \/ Close
      \/ \E what \in {"value", "failed"} : SequentialCall(what)
  BY DEF Next, Scheduler, Before, Turn, ServeCached, MakeHosts, HostsMade,
         RunSequentially, Poll, LoopEnds, TakeCaps, StartTask, AwaitTasks,
         AwaitSync, RunHere, Deliver, CollectValue, CollectLost,
         CollectFailed, NoResult, Retire, EndTurn, Expire, Report, Interrupt,
         HostStep, Sweep, Done, Goto, schedulerVars, InLoop
<1>2. CASE Close
  BY <1>2 DEF Close, CloseAll, NoTaskOutlivesBatch, TypeOK, HostsTypeOK,
              taskVars
<1>3. CASE Early /\ UNCHANGED at
  BY <1>3 DEF IInv, BeforeLoop, NoTaskOutlivesBatch
<1>4. QED
  BY <1>1, <1>2, <1>3
     DEF ReturnCached, SequentialEnd, SequentialCall, Goto, Early, taskVars

\* The steps after it: the threads go on, and connect no host that has a
\* task, since its sync is over.
LEMMA StaysClosed ==
  ASSUME TypeOK, SyncInv, NoTaskOutlivesBatch, [Next]_vars, pc = "ended"
  PROVE  NoTaskOutlivesBatch'
<1>1. \/ UNCHANGED vars
      \/ \E h \in Host : HostStep(h) \/ Sweep(h)
      \/ \E i \in Input : Report(i)
  BY DEF Next, Scheduler, Before, Turn, ServeCached, ReturnCached, MakeHosts,
         HostsMade, RunSequentially, SequentialEnd, SequentialCall, Poll,
         LoopEnds, TakeCaps, StartTask, AwaitTasks, AwaitSync, RunHere,
         Deliver, CollectValue, CollectLost, CollectFailed, NoResult, Retire,
         EndTurn, Close, Expire, Interrupt, Done, Goto, InLoop
<1>2. CASE UNCHANGED <<at, link>>
  BY <1>2 DEF NoTaskOutlivesBatch
<1>3. ASSUME NEW h \in Host, HostStep(h) \/ Sweep(h)
      PROVE  NoTaskOutlivesBatch'
  <2>1. UNCHANGED at
    BY <1>3 DEF HostStep, Sweep, schedulerVars
  <2>2. \A i \in Input : at[i] # None => sync[at[i]] = "done" /\ at[i] \in Host
    BY DEF SyncInv, Synced, TypeOK
  <2>3. \A g \in Host : sync[g] = "done" /\ link[g] # "up" => link'[g] # "up"
    BY <1>3 DEF HostStep, Sweep, SyncStep, SyncBegins, Launch, LaunchFails,
                OpenCheck, CheckPasses, CheckFails, SyncReady, At, Drop,
                ReaderEnds, ReaderSwept, TypeOK, HostsTypeOK
  <2>4. QED
    BY <2>1, <2>2, <2>3 DEF NoTaskOutlivesBatch
<1>4. QED
  BY <1>1, <1>2, <1>3 DEF vars, hostVars, taskVars, Report, schedulerVars

\* "No worker process outlives the batch": whatever the sync and reader
\* threads do, before the batch ends or after, a task that still ran when it
\* ended has lost its connection.
THEOREM TasksEndWithBatch == Spec => []NoTaskOutlivesBatch
<1>1. Init => NoTaskOutlivesBatch
  BY DEF Init, NoTaskOutlivesBatch
<1>2. TypeOK /\ IInv /\ SyncInv /\ NoTaskOutlivesBatch /\ [Next]_vars
        => NoTaskOutlivesBatch'
  <2>1. CASE pc' # "ended"
    BY <2>1 DEF NoTaskOutlivesBatch
  <2>2. QED
    BY <2>1, EndsClosed, StaysClosed DEF vars
<1>3. QED
  BY <1>1, <1>2, Typing, Inductive, SyncInductive, PTL DEF Spec

=============================================================================
