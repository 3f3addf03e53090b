---------------------------- MODULE MonitorProofs ----------------------------
(***************************************************************************)
(* What holds of Monitor for any inputs, hosts, batches and lines.         *)
(*                                                                         *)
(* That a monitor which is up to date shows what the run does is not       *)
(* inductive: a monitor that is behind shows something else.  What is kept *)
(* is that it will catch up: applying the lines it has not read, one after *)
(* the other, leads to what is True of the run.                            *)
(***************************************************************************)
EXTENDS Monitor, FiniteSetTheorems, TLAPS

NoScore == [done |-> 0, failed |-> 0, ended |-> FALSE]

\* What a monitor makes of a host that the run has reported so.
Heard(r) == IF reported[r] = "none" THEN "unheard" ELSE reported[r]

\* The remote hosts of the batch.
Hosted == IF at \in {"between", "lookup"} THEN {} ELSE config.hosts

\* s is what a monitor shows that has read everything.
True(s) ==
  /\ s.batches = SubSeq(settled, 1, batch)
  /\ ~abandoned => \A h \in Place : s.counts[h] = Cardinality(Running(h))
  /\ batch = 0 \/ (batch = 1 /\ at # "between") =>
       s.rows \cap Remote \subseteq Hosted /\ \A r \in Remote : s.hosts[r] = Heard(r)

\* Applying es to s, an event after the other, gives t.
Leads(s, es, t) ==
  \E H \in [1..(Len(es) + 1) -> Shown] :
    /\ H[1] = s
    /\ \A k \in 1..Len(es) : H[k + 1] = Applied(H[k], es[k])
    /\ H[Len(es) + 1] = t

CatchesUp == ~dropped => \E t \in Shown : Leads(shown, unread, t) /\ True(t)

\* What the steps of the run rest on.
Course ==
  /\ at \in {"between", "lookup"} => \A i \in Input : where[i] = Nowhere
  /\ \A i \in todo : where[i] = Nowhere
  /\ \A b \in 1..Batches : b > batch => settled[b] = NoScore
  /\ at # "between" => ~settled[batch].ended
  /\ \A r \in Remote :
       /\ reported[r] = "ready"  => state[r] \in {"ready", "failed"}
       /\ reported[r] = "failed" => state[r] = "failed"
       /\ at \in {"report", "caps"} /\ polled # "local" => state[r] # "new"
       /\ IF at \in {"between", "lookup"} THEN reported[r] = "none"
          ELSE state[r] = "none" <=> r \notin config.hosts

\* No input runs, or may be started, on a host the batch does not have.
Sited ==
  /\ \A i \in Input : where[i] \in Remote => where[i] \in config.hosts
  /\ at = "start" => \A r \in Remote : caps[r] # 0 => r \in config.hosts

-----------------------------------------------------------------------------
(* Typing                                                                  *)

LEMMA SetAt ==
  ASSUME NEW S, NEW q \in Seq(S), NEW n, NEW v, n \in 1..Len(q) => v \in S
  PROVE  /\ [q EXCEPT ![n] = v] \in Seq(S)
         /\ Len([q EXCEPT ![n] = v]) = Len(q)
<1> DEFINE new == [q EXCEPT ![n] = v]
<1>1. q \in [1..Len(q) -> S]
  OBVIOUS
<1>2. new \in [1..Len(q) -> S]
  BY <1>1
<1>3. QED
  BY <1>2

LEMMA ScoreAt ==
  ASSUME NEW s \in Shown, NEW n \in 1..Len(s.batches)
  PROVE  s.batches[n] \in Score
BY DEF Shown

LEMMA ScoredType ==
  ASSUME NEW b \in Score, NEW ok \in BOOLEAN
  PROVE  Scored(b, ok) \in Score
<1> DEFINE n == IF ok THEN b.failed ELSE b.failed + 1
<1>1. b.done + 1 \in Nat /\ n \in Nat
  BY DEF Score
<1>2. Scored(b, ok) = [b EXCEPT !.done = @ + 1, !.failed = n]
  BY DEF Scored
<1> HIDE DEF n
<1>3. QED
  BY <1>1, <1>2 DEF Score

LEMMA AppliedType ==
  ASSUME NEW s \in Shown, NEW e \in Event
  PROVE  Applied(s, e) \in Shown
<1>1. CASE e \in [ev : {"batch", "end"}, id : 1..Batches]
  <2>1. CASE e.ev = "batch"
    <3>1. Applied(s, e) = [s EXCEPT !.batches = Append(@, NoScore)]
      BY <2>1 DEF Applied, NoScore
    <3>2. Append(s.batches, NoScore) \in Seq(Score)
      BY DEF Shown, Score, NoScore
    <3>3. QED
      BY <3>1, <3>2 DEF Shown
  <2>2. CASE e.ev = "end"
    <3> DEFINE v == [s.batches[e.id] EXCEPT !.ended = TRUE]
    <3>1. Applied(s, e) = [s EXCEPT !.batches = [@ EXCEPT ![e.id] = v]]
      BY <2>2 DEF Applied
    <3>2. e.id \in 1..Len(s.batches) => v \in Score
      BY ScoreAt DEF Score
    <3>3. [s.batches EXCEPT ![e.id] = v] \in Seq(Score)
      BY <3>2, SetAt DEF Shown
    <3> HIDE DEF v
    <3>4. QED
      BY <3>1, <3>3 DEF Shown
  <2>3. QED
    BY <1>1, <2>1, <2>2
<1>2. CASE e \in [ev : {"start", "requeue"}, host : Place]
  <2> DEFINE n == IF e.ev = "start" THEN s.counts[e.host] + 1 ELSE Down(s.counts[e.host])
             c == [s.counts EXCEPT ![e.host] = n]
             w == s.rows \cup {e.host}
  <2>1. Applied(s, e) = [s EXCEPT !.counts = c, !.rows = w]
    BY <1>2 DEF Applied, Requeued, Started
  <2>w. w \in SUBSET Place
    BY <1>2 DEF Shown
  <2>2. n \in Nat
    BY <1>2 DEF Down, Shown
  <2> HIDE DEF n
  <2>3. c \in [Place -> Nat]
    BY <1>2, <2>2 DEF Shown
  <2> HIDE DEF c, w
  <2>4. QED
    BY <2>1, <2>3, <2>w DEF Shown
<1>3. CASE e \in [ev : {"outcome"}, id : 1..Batches, host : Place, ok : BOOLEAN]
  <2> DEFINE c == [s.counts EXCEPT ![e.host] = Down(@)]
             w == s.rows \cup {e.host}
             v == Scored(s.batches[e.id], e.ok)
             b == [s.batches EXCEPT ![e.id] = v]
  <2>1. Applied(s, e) = [s EXCEPT !.counts = c, !.rows = w, !.batches = b]
    <3>1. e.ev = "outcome"
      BY <1>3
    <3>2. Applied(s, e) = Counted(s, e)
      BY <3>1 DEF Applied
    <3>3. QED
      BY <3>2 DEF Counted
  <2>2. c \in [Place -> Nat]
    <3>1. /\ e.host \in Place
          /\ s.counts \in [Place -> Nat]
      BY <1>3 DEF Shown
    <3>2. QED
      BY <3>1 DEF Down
  <2>3. e.id \in 1..Len(s.batches) => v \in Score
    BY <1>3, ScoredType, ScoreAt
  <2>4. b \in Seq(Score)
    BY <2>3, SetAt DEF Shown
  <2>5. w \in SUBSET Place
    BY <1>3 DEF Shown
  <2> HIDE DEF c, w, b
  <2>6. QED
    BY <2>1, <2>2, <2>4, <2>5 DEF Shown
<1>4. CASE e \in [ev : {"host"}, host : Host, ok : BOOLEAN]
  BY <1>4 DEF Applied, Shown
<1>5. QED
  BY <1>1, <1>2, <1>3, <1>4 DEF Event

LEMMA SettleScores ==
  ASSUME TypeOK, at # "between", NEW ok \in BOOLEAN, Settle(ok)
  PROVE  /\ settled' = [settled EXCEPT ![batch] = Scored(@, ok)]
         /\ settled' \in [1..Batches -> Score]
<1>1. batch \in 1..Batches /\ settled[batch] \in Score
  BY DEF TypeOK
<1>2. settled' = [settled EXCEPT ![batch] = Scored(@, ok)]
  BY <1>1 DEF Settle, Scored, TypeOK
<1>3. Scored(settled[batch], ok) \in Score
  BY <1>1, ScoredType
<1>4. QED
  BY <1>2, <1>3 DEF TypeOK

LEMMA WriteType ==
  ASSUME TypeOK, NEW e \in Event, Write(e)
  PROVE  written' \in 0..MaxLines /\ unread' \in Seq(Event) /\ dropped' \in BOOLEAN
<1>1. CASE written < MaxLines
  <2>1. written' = written + 1 /\ unread' = Append(unread, e) /\ dropped' = dropped
    BY <1>1 DEF Write
  <2>2. Append(unread, e) \in Seq(Event)
    BY DEF TypeOK
  <2>3. QED
    BY <1>1, <2>1, <2>2, MonitorAssumption DEF TypeOK
<1>2. CASE ~(written < MaxLines)
  BY <1>2 DEF Write, TypeOK
<1>3. QED
  BY <1>1, <1>2

LEMMA EventTypes ==
  /\ \A b \in 1..Batches : BatchEvent(b) \in Event /\ EndEvent(b) \in Event
  /\ \A h \in Place : StartEvent(h) \in Event /\ RequeueEvent(h) \in Event
  /\ \A b \in 1..Batches, h \in Place, ok \in BOOLEAN : OutcomeEvent(b, h, ok) \in Event
  /\ \A h \in Host, ok \in BOOLEAN : HostEvent(h, ok) \in Event
BY DEF Event, BatchEvent, EndEvent, StartEvent, RequeueEvent, OutcomeEvent, HostEvent

LEMMA Hosts == Host \subseteq Place /\ Main \in Place /\ Local \in Place /\ Remote \subseteq Place
BY DEF Place, Host

LEMMA InBatch == TypeOK /\ at # "between" => batch \in 1..Batches
BY DEF TypeOK

LEMMA CapsTypes ==
  ASSUME NEW m, NEW n \in Nat, NEW f \in [Remote -> Nat], NEW busy \in BOOLEAN
  PROVE  capacities(m, n, f, busy) \in [Host -> Nat]
BY DEF capacities, Host

LEMMA InitType ==
  ASSUME Init
  PROVE  TypeOK
<1>1. /\ NoCaps \in [Host -> Nat]
      /\ Idle \in [Place -> Nat]
      /\ <<>> \in Seq(Score) /\ <<>> \in Seq(Event)
  BY DEF NoCaps, Idle, Place
<1>2. settled \in [1..Batches -> Score]
  BY DEF Init, Score
<1>3. shown \in Shown
  BY <1>1 DEF Init, Shown
<1>4. batch \in 0..Batches /\ written \in 0..MaxLines /\ modes \in 0..MaxModes
  BY MonitorAssumption DEF Init
<1>5. QED
  BY <1>1, <1>2, <1>3, <1>4 DEF Init, TypeOK, NoHosts

LEMMA RunStepType ==
  ASSUME TypeOK, RunStep, UNCHANGED shown
  PROVE  TypeOK'
<1> USE DEF Quiet, log
<1>1. CASE BatchBegins
  <2>1. batch + 1 \in 1..Batches
    BY <1>1, MonitorAssumption DEF BatchBegins, TypeOK
  <2>2. written' \in 0..MaxLines /\ unread' \in Seq(Event) /\ dropped' \in BOOLEAN
    BY <1>1, <2>1, EventTypes, WriteType DEF BatchBegins
  <2>3. batch' \in 0..Batches /\ batch' > 0
    BY <1>1, <2>1 DEF BatchBegins
  <2>4. todo' \subseteq Input
    BY <1>1, <2>1, MonitorAssumption DEF BatchBegins
  <2>5. QED
    BY <1>1, <2>2, <2>3, <2>4 DEF BatchBegins, TypeOK
<1>2. ASSUME NEW i \in Input, Cached(i) PROVE TypeOK'
  <2>1. settled' \in [1..Batches -> Score]
    BY <1>2, SettleScores DEF Cached
  <2>2. OutcomeEvent(batch, Local, TRUE) \in Event
    <3>1. batch \in 1..Batches
      BY <1>2, InBatch DEF Cached
    <3>2. QED
      BY <3>1, EventTypes, Hosts
  <2>3. written' \in 0..MaxLines /\ unread' \in Seq(Event) /\ dropped' \in BOOLEAN
    BY <1>2, <2>2, WriteType DEF Cached
  <2>4. QED
    BY <1>2, <2>1, <2>3 DEF Cached, TypeOK
<1>3. CASE HostsMade
  <2>1. state' \in [Host -> {"none", "new", "started", "syncing", "ready", "failed"}]
    BY <1>3 DEF HostsMade
  <2>2. QED
    BY <1>3, <2>1 DEF HostsMade, TypeOK
<1>4. CASE HostsRaise
  BY <1>4 DEF HostsRaise, TypeOK
<1>5. CASE PollMode
  BY <1>5 DEF PollMode, TypeOK
<1>6. CASE Report
  <2>1. CASE News = {}
    BY <1>6, <2>1 DEF Report, TypeOK
  <2>2. ASSUME NEW r \in News,
               reported' = [reported EXCEPT ![r] = state[r]],
               Write(HostEvent(r, state[r] = "ready")), UNCHANGED at
        PROVE  TypeOK'
    <3>1. r \in Host /\ state[r] \in {"ready", "failed"}
      BY DEF News
    <3>2. HostEvent(r, state[r] = "ready") \in Event
      BY <3>1, EventTypes
    <3>3. written' \in 0..MaxLines /\ unread' \in Seq(Event) /\ dropped' \in BOOLEAN
      BY <2>2, <3>2, WriteType
    <3>4. QED
      BY <1>6, <2>2, <3>1, <3>3 DEF Report, TypeOK
  <2>3. QED
    BY <1>6, <2>1, <2>2 DEF Report
<1>7. CASE TakeCaps
  <2> DEFINE f == [r \in Remote |-> IF state[r] = "ready" THEN Capacity[r] ELSE 0]
             busy == \E r \in Remote : state[r] = "syncing"
             n == IF state[Local] = "ready" THEN config.workers ELSE 0
  <2>1. f \in [Remote -> Nat] /\ busy \in BOOLEAN
    BY HostsHaveWorkers
  <2>2. n \in Nat
    BY HostsHaveWorkers DEF TypeOK, NoConfig
  <2>3. caps' \in [Host -> Nat]
    <3>1. caps' = capacities(polled, n, f, busy)
      BY <1>7 DEF TakeCaps
    <3> HIDE DEF f, busy, n
    <3>2. QED
      BY <2>1, <2>2, <3>1, CapsTypes
  <2>4. QED
    BY <1>7, <2>3 DEF TakeCaps, TypeOK
<1>8. ASSUME NEW i \in Input, NEW h \in Host, Start(i, h) PROVE TypeOK'
  <2>1. h \in Place /\ StartEvent(h) \in Event
    BY EventTypes, Hosts
  <2>2. written' \in 0..MaxLines /\ unread' \in Seq(Event) /\ dropped' \in BOOLEAN
    BY <1>8, <2>1, WriteType DEF Start
  <2>3. QED
    BY <1>8, <2>1, <2>2 DEF Start, TypeOK
<1>9. ASSUME NEW i \in Input, RunHere(i) PROVE TypeOK'
  <2>1. Main \in Place /\ StartEvent(Main) \in Event
    BY EventTypes, Hosts
  <2>2. written' \in 0..MaxLines /\ unread' \in Seq(Event) /\ dropped' \in BOOLEAN
    BY <1>9, <2>1, WriteType DEF RunHere
  <2>3. QED
    BY <1>9, <2>1, <2>2 DEF RunHere, TypeOK, NoCaps
<1>10. CASE Wait
  BY <1>10 DEF Wait, TypeOK, NoCaps
<1>11. ASSUME NEW i \in Input, NEW ok \in BOOLEAN, Settles(i, ok) PROVE TypeOK'
  <2>1. at # "between" /\ where[i] \in Place
    BY <1>11 DEF Settles, TypeOK
  <2>2. settled' \in [1..Batches -> Score]
    BY <1>11, <2>1, SettleScores DEF Settles
  <2>3. OutcomeEvent(batch, where[i], ok) \in Event
    BY <2>1, EventTypes DEF TypeOK
  <2>4. written' \in 0..MaxLines /\ unread' \in Seq(Event) /\ dropped' \in BOOLEAN
    BY <1>11, <2>3, WriteType DEF Settles
  <2>5. QED
    BY <1>11, <2>1, <2>2, <2>4 DEF Settles, TypeOK
<1>12. ASSUME NEW i \in Input, Requeues(i) PROVE TypeOK'
  <2>1. RequeueEvent(where[i]) \in Event
    BY <1>12, EventTypes, Hosts DEF Requeues
  <2>2. written' \in 0..MaxLines /\ unread' \in Seq(Event) /\ dropped' \in BOOLEAN
    BY <1>12, <2>1, WriteType DEF Requeues
  <2>3. QED
    BY <1>12, <2>2 DEF Requeues, TypeOK
<1>13. CASE NextTurn
  BY <1>13 DEF NextTurn, TypeOK
<1>14. CASE LoopEnds
  BY <1>14 DEF LoopEnds, TypeOK
<1>15. CASE BatchEnds
  <2>1. EndEvent(batch) \in Event
    BY <1>15, EventTypes DEF BatchEnds, TypeOK
  <2>2. written' \in 0..MaxLines /\ unread' \in Seq(Event) /\ dropped' \in BOOLEAN
    BY <1>15, <2>1, WriteType DEF BatchEnds
  <2>3. settled' \in [1..Batches -> Score]
    <3>1. batch \in 1..Batches /\ settled[batch] \in Score
      BY <1>15 DEF BatchEnds, TypeOK
    <3>2. [settled[batch] EXCEPT !.ended = TRUE] \in Score
      BY <3>1 DEF Score
    <3>3. QED
      BY <1>15, <3>2 DEF BatchEnds, TypeOK
  <2>4. abandoned' \in BOOLEAN
    BY <1>15 DEF BatchEnds, TypeOK, AnyRunning
  <2>5. QED
    BY <1>15, <2>2, <2>3, <2>4 DEF BatchEnds, TypeOK, NoHosts
<1>16. ASSUME NEW h \in Host, HostChanges(h) PROVE TypeOK'
  BY <1>16 DEF HostChanges, TypeOK
<1>18. CASE NothingPending
  <2>1. EndEvent(batch) \in Event
    BY <1>18, EventTypes DEF NothingPending, TypeOK
  <2>2. written' \in 0..MaxLines /\ unread' \in Seq(Event) /\ dropped' \in BOOLEAN
    BY <1>18, <2>1, WriteType DEF NothingPending
  <2>3. settled' \in [1..Batches -> Score]
    <3>1. batch \in 1..Batches /\ settled[batch] \in Score
      BY <1>18 DEF NothingPending, TypeOK
    <3>2. [settled[batch] EXCEPT !.ended = TRUE] \in Score
      BY <3>1 DEF Score
    <3>3. QED
      BY <1>18, <3>2 DEF NothingPending, TypeOK
  <2>4. QED
    BY <1>18, <2>2, <2>3 DEF NothingPending, TypeOK
<1>17. QED
  BY <1>1, <1>2, <1>3, <1>4, <1>5, <1>6, <1>7, <1>8, <1>9, <1>10, <1>11, <1>12, <1>13, <1>14,
     <1>15, <1>16, <1>18 DEF RunStep

\* Every variable of the run, of the event file and of the monitor has its
\* type, whatever the run does and wherever the monitor is in the file.
THEOREM MonitorTyping == Spec => []TypeOK
<1>1. Init => TypeOK
  BY InitType
<1>2. TypeOK /\ [Next]_vars => TypeOK'
  <2> SUFFICES ASSUME TypeOK, [Next]_vars
               PROVE  TypeOK'
    OBVIOUS
  <2>1. CASE RunStep /\ UNCHANGED shown
    BY <2>1, RunStepType
  <2>2. CASE SetMode /\ UNCHANGED shown
    BY <2>2, MonitorAssumption DEF SetMode, TypeOK, run, log
  <2>3. CASE Poll
    <3>1. Head(unread) \in Event /\ Tail(unread) \in Seq(Event)
      BY <2>3 DEF Poll, TypeOK
    <3>2. shown' \in Shown
      BY <2>3, <3>1, AppliedType DEF Poll, TypeOK
    <3>3. QED
      BY <2>3, <3>1, <3>2 DEF Poll, TypeOK, run
  <2>4. CASE UNCHANGED vars
    BY <2>4 DEF TypeOK, vars, run, log
  <2>5. QED
    BY <2>1, <2>2, <2>3, <2>4 DEF Next
<1>3. QED
  BY <1>1, <1>2, PTL DEF Spec

-----------------------------------------------------------------------------
(* The course of a batch                                                   *)

LEMMA CourseStep ==
  ASSUME TypeOK, Course, RunStep
  PROVE  Course'
<1> USE DEF Course
<1>1. CASE BatchBegins
  BY <1>1, MonitorAssumption DEF BatchBegins, TypeOK, NoScore
<1>2. ASSUME NEW i \in Input, Cached(i) PROVE Course'
  <2>1. settled' = [settled EXCEPT ![batch] = Scored(@, TRUE)]
    BY <1>2, SettleScores DEF Cached
  <2>2. QED
    BY <1>2, <2>1, InBatch DEF Cached, Scored, TypeOK, Score
<1>3. CASE HostsMade
  <2>1. \A r \in Remote : reported'[r] = "none" /\ state'[r] = IF r \in config'.hosts THEN "new" ELSE "none"
    BY <1>3, LocalIsNotRemote DEF HostsMade, Host
  <2>2. QED
    BY <1>3, <2>1 DEF HostsMade
<1>4. CASE HostsRaise
  BY <1>4 DEF HostsRaise
<1>5. CASE PollMode
  <2>1. \A r \in Remote : state'[r] = IF mode # "local" /\ state[r] = "new" THEN "started" ELSE state[r]
    BY <1>5 DEF PollMode, Host
  <2>2. QED
    BY <1>5, <2>1 DEF PollMode
<1>6. CASE Report
  <2>1. CASE News = {}
    BY <1>6, <2>1 DEF Report
  <2>2. ASSUME NEW r \in News, reported' = [reported EXCEPT ![r] = state[r]], UNCHANGED at
        PROVE  Course'
    BY <1>6, <2>2 DEF Report, News, TypeOK
  <2>3. QED
    BY <1>6, <2>1, <2>2 DEF Report
<1>7. CASE TakeCaps
  BY <1>7 DEF TakeCaps
<1>8. ASSUME NEW i \in Input, NEW h \in Host, Start(i, h) PROVE Course'
  BY <1>8 DEF Start, TypeOK
<1>9. ASSUME NEW i \in Input, RunHere(i) PROVE Course'
  BY <1>9 DEF RunHere, TypeOK
<1>10. CASE Wait
  BY <1>10 DEF Wait
<1>11. ASSUME NEW i \in Input, NEW ok \in BOOLEAN, Settles(i, ok) PROVE Course'
  <2>1. at \in {"here", "wait"} /\ batch \in 1..Batches
    BY <1>11, InBatch DEF Settles
  <2>2. settled' = [settled EXCEPT ![batch] = Scored(@, ok)]
    BY <1>11, <2>1, SettleScores DEF Settles
  <2>3. Scored(settled[batch], ok).ended = settled[batch].ended
    BY <2>1 DEF Scored, TypeOK, Score
  <2>4. at' \in {"ending", "turn", "wait"}
    BY <1>11, <2>1 DEF Settles
  <2>5. QED
    BY <1>11, <2>1, <2>2, <2>3, <2>4 DEF Settles, TypeOK
<1>12. ASSUME NEW i \in Input, Requeues(i) PROVE Course'
  BY <1>12 DEF Requeues, TypeOK
<1>13. CASE NextTurn
  BY <1>13 DEF NextTurn
<1>14. CASE LoopEnds
  BY <1>14 DEF LoopEnds
<1>15. CASE BatchEnds
  <2>1. \A r \in Remote : reported'[r] = "none"
    BY <1>15 DEF BatchEnds, NoHosts, Host
  <2>2. \A b \in 1..Batches : b > batch => settled'[b] = settled[b]
    BY <1>15 DEF BatchEnds, TypeOK
  <2>3. QED
    BY <1>15, <2>1, <2>2 DEF BatchEnds
<1>16. ASSUME NEW h \in Host, HostChanges(h) PROVE Course'
  <2>1. PICK s \in {"syncing", "ready", "failed"} :
          /\ state' = [state EXCEPT ![h] = s]
          /\ \/ s = "syncing" /\ state[h] = "started"
             \/ s # "syncing" /\ state[h] = "syncing"
             \/ s = "failed" /\ state[h] = "ready"
    BY <1>16 DEF HostChanges
  <2>2. \A r \in Remote : state'[r] = IF r = h THEN s ELSE state[r]
    BY <2>1 DEF TypeOK, Host
  <2>3. UNCHANGED <<at, batch, todo, where, settled, config, reported, polled>>
    BY <1>16 DEF HostChanges
  <2>4. \A r \in Remote :
          /\ reported[r] = "ready"  => state'[r] \in {"ready", "failed"}
          /\ reported[r] = "failed" => state'[r] = "failed"
    BY <2>1, <2>2
  <2>5. \A r \in Remote : (state'[r] = "new" <=> state[r] = "new") /\ (state'[r] = "none" <=> state[r] = "none")
    BY <2>1, <2>2
  <2>6. QED
    BY <2>3, <2>4, <2>5
<1>18. CASE NothingPending
  BY <1>18 DEF NothingPending, TypeOK
<1>17. QED
  BY <1>1, <1>2, <1>3, <1>4, <1>5, <1>6, <1>7, <1>8, <1>9, <1>10, <1>11, <1>12, <1>13, <1>14,
     <1>15, <1>16, <1>18 DEF RunStep

LEMMA CourseHolds == Spec => []Course
<1>1. Init => Course
  BY DEF Init, Course, NoScore, NoHosts, Host
<1>2. TypeOK /\ Course /\ [Next]_vars => Course'
  <2> SUFFICES ASSUME TypeOK, Course, [Next]_vars
               PROVE  Course'
    OBVIOUS
  <2>1. CASE RunStep
    BY <2>1, CourseStep
  <2>2. CASE UNCHANGED run
    BY <2>2 DEF Course, run
  <2>3. QED
    BY <2>1, <2>2 DEF Next, SetMode, Poll, vars
<1>3. QED
  BY <1>1, <1>2, MonitorTyping, PTL DEF Spec

LEMMA RunningIsFinite == \A h : IsFiniteSet(Running(h)) /\ Cardinality(Running(h)) \in Nat
<1> SUFFICES ASSUME NEW h
             PROVE  IsFiniteSet(Running(h)) /\ Cardinality(Running(h)) \in Nat
  OBVIOUS
<1>1. IsFiniteSet(Running(h))
  BY MonitorAssumption, FS_Subset DEF Running
<1>2. QED
  BY <1>1, FS_CardinalityType

LEMMA SitedStep ==
  ASSUME TypeOK, Course, Sited, RunStep
  PROVE  Sited'
<1>0. /\ Nowhere \notin Remote /\ Main \notin Remote
      /\ \A r \in Remote : r \in Host /\ r # Local
  BY HostsHaveWorkers, LocalIsNotRemote DEF Host
<1> USE DEF Sited
<1>1. CASE HostsMade
  <2>1. \A i \in Input : where'[i] = Nowhere
    BY <1>1 DEF HostsMade, Course
  <2>2. QED
    BY <1>0, <1>1, <2>1 DEF HostsMade
<1>2. CASE TakeCaps
  <2>1. \A r \in Remote : caps'[r] # 0 => state[r] = "ready"
    BY <1>0, <1>2 DEF TakeCaps, capacities
  <2>2. \A r \in Remote : state[r] = "ready" => r \in config.hosts
    BY <1>2 DEF TakeCaps, Course
  <2>3. UNCHANGED <<where, config>>
    BY <1>2 DEF TakeCaps
  <2>4. QED
    BY <2>1, <2>2, <2>3
<1>3. ASSUME NEW i \in Input, NEW h \in Host, Start(i, h) PROVE Sited'
  <2>1. UNCHANGED <<at, caps, config>> /\ at = "start"
    BY <1>3 DEF Start
  <2>2. h \in Remote => h \in config.hosts
    <3>1. caps[h] # 0
      BY <1>3, RunningIsFinite DEF Start, HasRoom
    <3>2. QED
      BY <2>1, <3>1
  <2>3. \A j \in Input : where'[j] = IF j = i THEN h ELSE where[j]
    BY <1>3 DEF Start, TypeOK
  <2>4. QED
    BY <2>1, <2>2, <2>3
<1>4. ASSUME NEW i \in Input, NEW q \in {Nowhere, Main}, where' = [where EXCEPT ![i] = q],
             at' # "start", config' = config
      PROVE  Sited'
  <2>1. \A j \in Input : where'[j] = IF j = i THEN q ELSE where[j]
    BY <1>4 DEF TypeOK
  <2>2. QED
    BY <1>0, <1>4, <2>1
<1>5. CASE BatchEnds
  BY <1>0, <1>5 DEF BatchEnds
<1>6. ASSUME at' # "start", UNCHANGED <<where, config>>
      PROVE  Sited'
  BY <1>6
<1>7. CASE \E i \in Input : RunHere(i) \/ Requeues(i) \/ \E ok \in BOOLEAN : Settles(i, ok)
  BY <1>4, <1>7 DEF RunHere, Requeues, Settles
<1>8. CASE BatchBegins \/ NothingPending \/ HostsRaise \/ PollMode \/ Report \/ Wait \/ NextTurn \/ LoopEnds
  BY <1>6, <1>8 DEF BatchBegins, NothingPending, HostsRaise, PollMode, Report, Wait, NextTurn, LoopEnds
<1>9. ASSUME NEW i \in Input, Cached(i) PROVE Sited'
  BY <1>6, <1>9 DEF Cached
<1>10. ASSUME NEW h \in Host, HostChanges(h) PROVE Sited'
  BY <1>10 DEF HostChanges
<1>11. QED
  BY <1>1, <1>2, <1>3, <1>5, <1>7, <1>8, <1>9, <1>10 DEF RunStep

LEMMA SitedHolds == Spec => []Sited
<1>1. Init => Sited
  BY HostsHaveWorkers DEF Init, Sited, Host
<1>2. TypeOK /\ Course /\ Sited /\ [Next]_vars => Sited'
  <2> SUFFICES ASSUME TypeOK, Course, Sited, [Next]_vars
               PROVE  Sited'
    OBVIOUS
  <2>1. CASE RunStep
    BY <2>1, SitedStep
  <2>2. CASE UNCHANGED run
    BY <2>2 DEF Sited, run
  <2>3. QED
    BY <2>1, <2>2 DEF Next, SetMode, Poll, vars
<1>3. QED
  BY <1>1, <1>2, MonitorTyping, CourseHolds, PTL DEF Spec

-----------------------------------------------------------------------------
(* Lines unread                                                            *)

LEMMA LeadsNowhere == \A s \in Shown : Leads(s, <<>>, s)
<1> SUFFICES ASSUME NEW s \in Shown
             PROVE  Leads(s, <<>>, s)
  OBVIOUS
<1> DEFINE H == [k \in 1..1 |-> s]
<1>1. H \in [1..(Len(<<>>) + 1) -> Shown] /\ H[1] = s
  OBVIOUS
<1> HIDE DEF H
<1>2. QED
  BY <1>1 DEF Leads

\* A line more is applied after the others.
LEMMA LeadsOn ==
  ASSUME NEW s, NEW es \in Seq(Event), NEW t \in Shown, NEW e \in Event, Leads(s, es, t)
  PROVE  Leads(s, Append(es, e), Applied(t, e))
<1> DEFINE n == Len(es)
           fs == Append(es, e)
<1>1. PICK H \in [1..(n + 1) -> Shown] :
        /\ H[1] = s
        /\ \A k \in 1..n : H[k + 1] = Applied(H[k], es[k])
        /\ H[n + 1] = t
  BY DEF Leads
<1>2. n \in Nat /\ Len(fs) = n + 1 /\ fs[n + 1] = e /\ \A k \in 1..n : fs[k] = es[k]
  OBVIOUS
<1> HIDE DEF n, fs
<1> DEFINE G == [k \in 1..(n + 2) |-> IF k = n + 2 THEN Applied(t, e) ELSE H[k]]
<1>3. G \in [1..((n + 1) + 1) -> Shown]
  BY <1>1, <1>2, AppliedType
<1>4. G[1] = s /\ G[(n + 1) + 1] = Applied(t, e)
  BY <1>1, <1>2
<1>5. ASSUME NEW k \in 1..(n + 1) PROVE G[k + 1] = Applied(G[k], fs[k])
  <2>1. CASE k = n + 1
    BY <1>1, <1>2, <2>1
  <2>2. CASE k # n + 1
    <3>1. k \in 1..n
      BY <1>2, <2>2
    <3>2. G[k + 1] = H[k + 1] /\ G[k] = H[k]
      BY <1>2, <3>1
    <3>3. QED
      BY <1>1, <1>2, <3>1, <3>2
  <2>3. QED
    BY <2>1, <2>2
<1> HIDE DEF G
<1>6. QED
  BY <1>2, <1>3, <1>4, <1>5 DEF Leads, fs

\* A line less to read leads to the same.
LEMMA LeadsFrom ==
  ASSUME NEW s, NEW es \in Seq(Event), es # <<>>, NEW t, Leads(s, es, t)
  PROVE  Leads(Applied(s, Head(es)), Tail(es), t)
<1> DEFINE n == Len(es)
           fs == Tail(es)
<1>1. PICK H \in [1..(n + 1) -> Shown] :
        /\ H[1] = s
        /\ \A k \in 1..n : H[k + 1] = Applied(H[k], es[k])
        /\ H[n + 1] = t
  BY DEF Leads
<1>2. n \in Nat \ {0} /\ Len(fs) = n - 1 /\ Head(es) = es[1] /\ \A k \in 1..(n - 1) : fs[k] = es[k + 1]
  OBVIOUS
<1> HIDE DEF n, fs
<1> DEFINE G == [k \in 1..n |-> H[k + 1]]
<1>3. G \in [1..((n - 1) + 1) -> Shown]
  BY <1>1, <1>2
<1>4. G[1] = Applied(s, Head(es)) /\ G[(n - 1) + 1] = t
  <2>1. 1 \in 1..n /\ n \in 1..n /\ (n - 1) + 1 = n
    BY <1>2
  <2>2. QED
    BY <1>1, <1>2, <2>1
<1>5. ASSUME NEW k \in 1..(n - 1) PROVE G[k + 1] = Applied(G[k], fs[k])
  <2>1. k \in 1..n /\ k + 1 \in 1..n
    BY <1>2
  <2>2. G[k + 1] = H[(k + 1) + 1] /\ G[k] = H[k + 1]
    BY <2>1
  <2>3. QED
    BY <1>1, <1>2, <2>1, <2>2
<1> HIDE DEF G
<1>6. QED
  BY <1>2, <1>3, <1>4, <1>5 DEF Leads, fs

\* Nothing is left to read: it is shown.
LEMMA LeadsHere ==
  ASSUME NEW s, NEW t, Leads(s, <<>>, t)
  PROVE  s = t
BY DEF Leads

\* A step that writes e keeps what is to come, if e says what the step does.
LEMMA WriteKeeps ==
  ASSUME TypeOK, CatchesUp, UNCHANGED shown, NEW e \in Event, Write(e),
         \A t \in Shown : True(t) => True(Applied(t, e))'
  PROVE  CatchesUp'
<1> SUFFICES ASSUME ~dropped'
             PROVE  (\E t \in Shown : Leads(shown, unread, t) /\ True(t))'
  BY DEF CatchesUp
<1>1. unread' = Append(unread, e) /\ ~dropped
  BY DEF Write
<1>2. PICK t \in Shown : Leads(shown, unread, t) /\ True(t)
  BY <1>1 DEF CatchesUp
<1>3. Leads(shown, unread', Applied(t, e))
  BY <1>1, <1>2, LeadsOn DEF TypeOK
<1>4. Applied(t, e) \in Shown
  BY AppliedType
<1>5. QED
  BY <1>2, <1>3, <1>4

LEMMA QuietKeeps ==
  ASSUME CatchesUp, UNCHANGED <<shown, log, settled, batch, abandoned, where, reported>>,
         at' # "between" => at # "between", Hosted \subseteq Hosted'
  PROVE  CatchesUp'
BY DEF CatchesUp, True, log, Running, Heard

-----------------------------------------------------------------------------
(* What a step changes of the truth                                        *)

LEMMA Scores ==
  ASSUME NEW z \in [1..Batches -> Score], NEW n \in 0..Batches
  PROVE  /\ SubSeq(z, 1, n) \in Seq(Score)
         /\ Len(SubSeq(z, 1, n)) = n
         /\ \A b \in 1..n : SubSeq(z, 1, n)[b] = z[b]
<1>1. z \in Seq(Score) /\ Len(z) = Batches
  BY MonitorAssumption
<1>2. QED
  BY <1>1, MonitorAssumption

LEMMA ScoresChange ==
  ASSUME TypeOK, TypeOK', at # "between", batch' = batch,
         NEW v, settled' = [settled EXCEPT ![batch] = v]
  PROVE  SubSeq(settled', 1, batch') = [SubSeq(settled, 1, batch) EXCEPT ![batch] = v]
<1> DEFINE old == SubSeq(settled, 1, batch)
           new == SubSeq(settled', 1, batch')
<1>1. batch \in 1..Batches
  BY InBatch
<1>2. old \in Seq(Score) /\ Len(old) = batch /\ \A b \in 1..batch : old[b] = settled[b]
  BY Scores DEF TypeOK
<1>3. new \in Seq(Score) /\ Len(new) = batch /\ \A b \in 1..batch : new[b] = settled'[b]
  <2>1. settled' \in [1..Batches -> Score] /\ batch' \in 0..Batches
    BY DEF TypeOK
  <2> HIDE DEF Score
  <2>2. QED
    BY <2>1, Scores
<1> HIDE DEF old, new
<1>4. old \in [1..batch -> Score] /\ new \in [1..batch -> Score]
  BY <1>1, <1>2, <1>3
<1>5. \A b \in 1..batch : settled'[b] = IF b = batch THEN v ELSE settled[b]
  BY <1>1 DEF TypeOK
<1>6. new = [old EXCEPT ![batch] = v]
  <2>1. \A b \in 1..batch : new[b] = IF b = batch THEN v ELSE old[b]
    BY <1>2, <1>3, <1>5
  <2>2. QED
    BY <1>4, <2>1
<1>7. QED
  BY <1>6 DEF old, new

\* An input begins to run.
LEMMA RunningGrows ==
  ASSUME TypeOK, NEW i \in Input, NEW p \in Place,
         where[i] = Nowhere, where' = [where EXCEPT ![i] = p]
  PROVE  \A h \in Place : Cardinality(Running(h))' =
           IF h = p THEN Cardinality(Running(h)) + 1 ELSE Cardinality(Running(h))
<1> SUFFICES ASSUME NEW h \in Place
             PROVE  Cardinality(Running(h))' =
                      IF h = p THEN Cardinality(Running(h)) + 1 ELSE Cardinality(Running(h))
  OBVIOUS
<1>1. h # Nowhere
  BY HostsHaveWorkers DEF Place
<1>2. CASE h = p
  <2>1. Running(h)' = Running(h) \cup {i} /\ i \notin Running(h)
    BY <1>1, <1>2 DEF Running, TypeOK
  <2>2. QED
    BY <1>2, <2>1, RunningIsFinite, FS_AddElement
<1>3. CASE h # p
  <2>1. Running(h)' = Running(h)
    BY <1>1, <1>3 DEF Running, TypeOK
  <2>2. QED
    BY <1>3, <2>1
<1>4. QED
  BY <1>2, <1>3

\* An input no longer runs.
LEMMA RunningShrinks ==
  ASSUME TypeOK, NEW i \in Input, where[i] # Nowhere, where' = [where EXCEPT ![i] = Nowhere]
  PROVE  \A h \in Place : Cardinality(Running(h))' =
           IF h = where[i] THEN Down(Cardinality(Running(h))) ELSE Cardinality(Running(h))
<1> SUFFICES ASSUME NEW h \in Place
             PROVE  Cardinality(Running(h))' =
                      IF h = where[i] THEN Down(Cardinality(Running(h))) ELSE Cardinality(Running(h))
  OBVIOUS
<1>1. h # Nowhere
  BY HostsHaveWorkers DEF Place
<1>2. CASE h = where[i]
  <2>1. Running(h)' = Running(h) \ {i} /\ i \in Running(h)
    BY <1>1, <1>2 DEF Running, TypeOK
  <2>2. Cardinality(Running(h)) # 0
    BY <2>1, RunningIsFinite, FS_EmptySet
  <2>3. Cardinality(Running(h))' = Cardinality(Running(h)) - 1
    BY <2>1, RunningIsFinite, FS_RemoveElement
  <2>4. QED
    BY <1>2, <2>2, <2>3 DEF Down
<1>3. CASE h # where[i]
  <2>1. Running(h)' = Running(h)
    BY <1>1, <1>3 DEF Running, TypeOK
  <2>2. QED
    BY <1>3, <2>1
<1>4. QED
  BY <1>2, <1>3

LEMMA RunningNothing ==
  ASSUME ~AnyRunning
  PROVE  \A h \in Place : Cardinality(Running(h)) = 0
<1>1. \A h \in Place : Running(h) = {}
  BY HostsHaveWorkers DEF AnyRunning, Running, Place
<1>2. QED
  BY <1>1, FS_EmptySet

LEMMA CountedIs ==
  ASSUME NEW t \in Shown, NEW e \in Event, e.host \in Place
  PROVE  /\ Counted(t, e).batches = [t.batches EXCEPT ![e.id] = Scored(@, e.ok)]
         /\ \A h \in Place : Counted(t, e).counts[h] =
               IF h = e.host THEN Down(t.counts[h]) ELSE t.counts[h]
         /\ Counted(t, e).hosts = t.hosts /\ Counted(t, e).rows = t.rows \cup {e.host}
<1> DEFINE c == [t.counts EXCEPT ![e.host] = Down(@)]
           w == t.rows \cup {e.host}
           b == [t.batches EXCEPT ![e.id] = Scored(@, e.ok)]
<1>1. Counted(t, e) = [t EXCEPT !.counts = c, !.rows = w, !.batches = b]
  BY DEF Counted
<1>2. \A h \in Place : c[h] = IF h = e.host THEN Down(t.counts[h]) ELSE t.counts[h]
  BY DEF Shown
<1> HIDE DEF c, w
<1>3. QED
  BY <1>1, <1>2 DEF Shown, w

\* Every line says what the step that writes it does.
LEMMA RunStepCatchesUp ==
  ASSUME TypeOK, TypeOK', Course, Sited, CatchesUp, RunStep, UNCHANGED shown
  PROVE  CatchesUp'
<1>1. CASE BatchBegins
  <2> DEFINE e == BatchEvent(batch + 1)
  <2>1. batch + 1 \in 1..Batches /\ batch' = batch + 1 /\ settled' = settled
    BY <1>1, MonitorAssumption DEF BatchBegins, TypeOK
  <2>2. PICK f \in Event : f = e
    BY <2>1, EventTypes
  <2>3. Write(f)
    BY <1>1, <2>2 DEF BatchBegins
  <2>4. ASSUME NEW t \in Shown, True(t) PROVE True(Applied(t, f))'
    <3>1. Applied(t, f) = [t EXCEPT !.batches = Append(@, NoScore)]
      BY <2>2 DEF Applied, BatchEvent, NoScore
    <3>2. SubSeq(settled, 1, batch + 1) = Append(SubSeq(settled, 1, batch), NoScore)
      <4>1. settled[batch + 1] = NoScore
        BY <2>1 DEF Course, TypeOK
      <4>2. settled \in Seq(Score) /\ Len(settled) = Batches
        BY MonitorAssumption DEF TypeOK
      <4>3. QED
        BY <2>1, <4>1, <4>2 DEF TypeOK
    <3>3. reported' = reported /\ batch' # 0 /\ (batch' = 1 => batch = 0)
      BY <1>1, <2>1 DEF BatchBegins, TypeOK
    <3>4. where' = where /\ abandoned' = abandoned
      BY <1>1 DEF BatchBegins
    <3>5. /\ Applied(t, f).batches = Append(t.batches, NoScore)
          /\ Applied(t, f).counts = t.counts /\ Applied(t, f).hosts = t.hosts
          /\ Applied(t, f).rows = t.rows
      BY <3>1 DEF Shown
    <3>6. Applied(t, f).batches = SubSeq(settled', 1, batch')
      BY <2>1, <2>4, <3>2, <3>5 DEF True
    <3>7. ~abandoned' => \A h \in Place : Applied(t, f).counts[h] = Cardinality(Running(h))'
      BY <2>4, <3>4, <3>5 DEF True, Running
    <3>8. batch' = 0 \/ batch' = 1 => /\ Applied(t, f).rows \cap Remote \subseteq Hosted'
                                      /\ \A r \in Remote : Applied(t, f).hosts[r] = Heard(r)'
      BY <1>1, <2>4, <3>3, <3>5 DEF BatchBegins, True, Heard, Hosted
    <3>9. QED
      BY <3>6, <3>7, <3>8 DEF True
  <2>5. QED
    BY <2>3, <2>4, WriteKeeps
<1>2. ASSUME NEW i \in Input, Cached(i) PROVE CatchesUp'
  <2>1. batch \in 1..Batches /\ settled[batch] \in Score
    BY <1>2, InBatch DEF Cached, TypeOK
  <2> DEFINE e == OutcomeEvent(batch, Local, TRUE)
  <2>2. PICK f \in Event, ok \in BOOLEAN : f = e /\ ok /\ f.ok = ok
    <3>1. e \in Event /\ e.ok = TRUE
      BY <2>1, EventTypes, Hosts DEF OutcomeEvent
    <3>2. QED
      BY <3>1
  <2>3. Write(f)
    BY <1>2, <2>2 DEF Cached
  <2>4. ~AnyRunning
    BY <1>2 DEF Cached, Course, AnyRunning
  <2>5. ASSUME NEW t \in Shown, True(t) PROVE True(Applied(t, f))'
    <3>1. settled' = [settled EXCEPT ![batch] = Scored(@, ok)]
      BY <1>2, <2>2, SettleScores DEF Cached
    <3>2. SubSeq(settled', 1, batch') =
            [SubSeq(settled, 1, batch) EXCEPT ![batch] = Scored(settled[batch], ok)]
      BY <1>2, <3>1, ScoresChange DEF Cached
    <3>3. SubSeq(settled, 1, batch)[batch] = settled[batch]
      BY <2>1, Scores DEF TypeOK
    <3>4. Applied(t, f) = Counted(t, f) /\ f.id = batch /\ f.host = Local /\ f.ok = ok
      BY <2>2 DEF Applied, OutcomeEvent
    <3>5. /\ Applied(t, f).batches = [t.batches EXCEPT ![batch] = Scored(@, ok)]
          /\ \A h \in Place : Applied(t, f).counts[h] =
                IF h = Local THEN Down(t.counts[h]) ELSE t.counts[h]
          /\ Applied(t, f).hosts = t.hosts /\ Applied(t, f).rows = t.rows \cup {Local}
      BY <3>4, Hosts, CountedIs
    <3>6. UNCHANGED <<where, abandoned, reported, batch, at, config>>
      BY <1>2 DEF Cached
    <3>7. Applied(t, f).batches = SubSeq(settled', 1, batch')
      BY <2>5, <3>2, <3>3, <3>5 DEF True
    <3>8. ~abandoned => \A h \in Place : Applied(t, f).counts[h] = Cardinality(Running(h))
      BY <2>4, <2>5, <3>5, RunningNothing DEF True, Down
    <3>9. ~abandoned' => \A h \in Place : Applied(t, f).counts[h] = Cardinality(Running(h))'
      BY <3>6, <3>8 DEF Running
    <3>10. QED
      BY <2>5, <3>5, <3>6, <3>7, <3>9, LocalIsNotRemote DEF True, Heard, Hosted
  <2>6. QED
    BY <1>2, <2>3, <2>5, WriteKeeps
<1>3. CASE HostsMade
  BY <1>3, QuietKeeps DEF HostsMade, Hosted
<1>4. CASE HostsRaise
  BY <1>4, QuietKeeps DEF HostsRaise, Hosted
<1>5. CASE PollMode
  BY <1>5, QuietKeeps DEF PollMode, Hosted
<1>6. CASE Report
  <2>1. CASE News = {}
    BY <1>6, <2>1, QuietKeeps DEF Report, Quiet, Hosted
  <2>2. ASSUME NEW r \in News,
               reported' = [reported EXCEPT ![r] = state[r]],
               Write(HostEvent(r, state[r] = "ready")), UNCHANGED at
        PROVE  CatchesUp'
    <3>1. r \in Host /\ state[r] \in {"ready", "failed"}
      BY DEF News
    <3>2. PICK f \in Event : f = HostEvent(r, state[r] = "ready")
      BY <3>1, EventTypes
    <3>3. ASSUME NEW t \in Shown, True(t) PROVE True(Applied(t, f))'
      <4>1. Applied(t, f) = [t EXCEPT !.hosts[r] = state[r]]
        BY <3>1, <3>2 DEF Applied, HostEvent
      <4>2. UNCHANGED <<settled, batch, abandoned, where, at, config>>
        BY <1>6, <2>2 DEF Report
      <4>3. \A q \in Remote : Heard(q)' = IF q = r THEN state[r] ELSE Heard(q)
        BY <2>2, <3>1 DEF Heard, TypeOK, Host
      <4>4. \A q \in Remote : Applied(t, f).hosts[q] = IF q = r THEN state[r] ELSE t.hosts[q]
        BY <3>1, <4>1 DEF Shown, Host
      <4>5. batch = 0 \/ (batch = 1 /\ at # "between")
              => \A q \in Remote : Applied(t, f).hosts[q] = Heard(q)'
        BY <3>1, <3>3, <4>1, <4>3, <4>4 DEF True, Shown
      <4>6. QED
        BY <3>3, <4>1, <4>2, <4>5 DEF True, Running, Hosted, Shown
    <3>4. QED
      BY <2>2, <3>2, <3>3, WriteKeeps
  <2>3. QED
    BY <1>6, <2>1, <2>2 DEF Report
<1>7. CASE TakeCaps
  BY <1>7, QuietKeeps DEF TakeCaps, Hosted
<1>8. ASSUME NEW i \in Input, NEW p \in Place, i \in todo, where' = [where EXCEPT ![i] = p],
             Write(StartEvent(p)), UNCHANGED <<settled, batch, abandoned, reported>>,
             at # "between", Hosted' = Hosted, p \in Remote => p \in Hosted
      PROVE  CatchesUp'
  <2>1. PICK f \in Event : f = StartEvent(p)
    BY EventTypes
  <2>2. \A h \in Place : Cardinality(Running(h))' =
          IF h = p THEN Cardinality(Running(h)) + 1 ELSE Cardinality(Running(h))
    BY <1>8, RunningGrows DEF Course
  <2>3. ASSUME NEW t \in Shown, True(t) PROVE True(Applied(t, f))'
    <3>1. Applied(t, f) = [t EXCEPT !.counts[p] = @ + 1, !.rows = @ \cup {p}]
      BY <2>1 DEF Applied, Started, StartEvent
    <3>2. /\ Applied(t, f).batches = t.batches /\ Applied(t, f).hosts = t.hosts
          /\ Applied(t, f).rows = t.rows \cup {p}
          /\ \A h \in Place : Applied(t, f).counts[h] =
                IF h = p THEN t.counts[h] + 1 ELSE t.counts[h]
      BY <3>1 DEF Shown
    <3>3. QED
      BY <1>8, <2>2, <2>3, <3>2 DEF True, Heard
  <2>4. QED
    BY <1>8, <2>1, <2>3, WriteKeeps
<1>9. CASE Wait
  BY <1>9, QuietKeeps DEF Wait, Hosted
<1>10. ASSUME NEW i \in Input, NEW ok \in BOOLEAN, Settles(i, ok) PROVE CatchesUp'
  <2>1. batch \in 1..Batches /\ settled[batch] \in Score /\ where[i] \in Place
    BY <1>10, InBatch DEF Settles, TypeOK
  <2>2. PICK f \in Event : f = OutcomeEvent(batch, where[i], ok)
    BY <2>1, EventTypes
  <2>3. PICK p \in Place : p = where[i]
    BY <2>1
  <2>4. UNCHANGED <<abandoned, reported, batch>> /\ where[i] # Nowhere /\ at # "between"
        /\ where' = [where EXCEPT ![i] = Nowhere] /\ Write(f)
    BY <1>10, <2>2 DEF Settles
  <2>8. Hosted' = Hosted /\ (p \in Remote => p \in Hosted)
    BY <1>10, <2>3 DEF Settles, Hosted, Sited
  <2>5. \A h \in Place : Cardinality(Running(h))' =
          IF h = p THEN Down(Cardinality(Running(h))) ELSE Cardinality(Running(h))
    BY <2>3, <2>4, RunningShrinks
  <2>6. ASSUME NEW t \in Shown, True(t) PROVE True(Applied(t, f))'
    <3>1. settled' = [settled EXCEPT ![batch] = Scored(@, ok)]
      BY <1>10, <2>4, SettleScores DEF Settles
    <3>2. SubSeq(settled', 1, batch') =
            [SubSeq(settled, 1, batch) EXCEPT ![batch] = Scored(settled[batch], ok)]
      BY <2>4, <3>1, ScoresChange
    <3>3. SubSeq(settled, 1, batch)[batch] = settled[batch]
      BY <2>1, Scores DEF TypeOK
    <3>4. Applied(t, f) = Counted(t, f) /\ f.id = batch /\ f.host = p /\ f.ok = ok
      BY <2>2, <2>3 DEF Applied, OutcomeEvent
    <3>5. /\ Applied(t, f).batches = [t.batches EXCEPT ![batch] = Scored(@, ok)]
          /\ \A h \in Place : Applied(t, f).counts[h] =
                IF h = p THEN Down(t.counts[h]) ELSE t.counts[h]
          /\ Applied(t, f).hosts = t.hosts /\ Applied(t, f).rows = t.rows \cup {p}
      BY <3>4, CountedIs
    <3>6. Applied(t, f).batches = SubSeq(settled', 1, batch')
      BY <2>6, <3>2, <3>3, <3>5 DEF True
    <3>7. QED
      BY <2>4, <2>5, <2>6, <2>8, <3>5, <3>6 DEF True, Heard
  <2>7. QED
    BY <2>4, <2>6, WriteKeeps
<1>11. ASSUME NEW i \in Input, Requeues(i) PROVE CatchesUp'
  <2>1. PICK p \in Place : p = where[i]
    BY <1>11, Hosts DEF Requeues
  <2>2. PICK f \in Event : f = RequeueEvent(p)
    BY EventTypes
  <2>3. UNCHANGED <<settled, batch, abandoned, reported, at>> /\ where[i] # Nowhere
        /\ where' = [where EXCEPT ![i] = Nowhere] /\ Write(f)
    BY <1>11, <2>1, <2>2, HostsHaveWorkers DEF Requeues, Place
  <2>4. \A h \in Place : Cardinality(Running(h))' =
          IF h = p THEN Down(Cardinality(Running(h))) ELSE Cardinality(Running(h))
    BY <2>1, <2>3, RunningShrinks
  <2>7. Hosted' = Hosted /\ (p \in Remote => p \in Hosted)
    BY <1>11, <2>1 DEF Requeues, Hosted, Sited
  <2>5. ASSUME NEW t \in Shown, True(t) PROVE True(Applied(t, f))'
    <3>1. Applied(t, f) = [t EXCEPT !.counts[p] = Down(@), !.rows = @ \cup {p}]
      BY <2>2 DEF Applied, Requeued, RequeueEvent
    <3>2. /\ Applied(t, f).batches = t.batches /\ Applied(t, f).hosts = t.hosts
          /\ Applied(t, f).rows = t.rows \cup {p}
          /\ \A h \in Place : Applied(t, f).counts[h] =
                IF h = p THEN Down(t.counts[h]) ELSE t.counts[h]
      BY <3>1 DEF Shown
    <3>3. QED
      BY <2>3, <2>4, <2>5, <2>7, <3>2 DEF True, Heard
  <2>6. QED
    BY <2>3, <2>5, WriteKeeps
<1>12. CASE NextTurn
  BY <1>12, QuietKeeps DEF NextTurn, Hosted
<1>13. CASE LoopEnds
  BY <1>13, QuietKeeps DEF LoopEnds, Hosted
<1>14. ASSUME at # "between", at' = "between", batch' = batch,
              settled' = [settled EXCEPT ![batch].ended = TRUE],
              Write(EndEvent(batch)),
              ~abandoned' => ~abandoned /\ ~AnyRunning /\ ~AnyRunning'
       PROVE  CatchesUp'
  <2>1. batch \in 1..Batches /\ settled[batch] \in Score
    BY <1>14, InBatch DEF TypeOK
  <2>2. PICK f \in Event : f = EndEvent(batch)
    BY <2>1, EventTypes
  <2>3. Write(f)
    BY <1>14, <2>2
  <2>4. ASSUME NEW t \in Shown, True(t) PROVE True(Applied(t, f))'
    <3> DEFINE v == [settled[batch] EXCEPT !.ended = TRUE]
    <3>1. settled' = [settled EXCEPT ![batch] = v]
      BY <1>14
    <3>2. SubSeq(settled', 1, batch') = [SubSeq(settled, 1, batch) EXCEPT ![batch] = v]
      BY <1>14, <3>1, ScoresChange
    <3>3. SubSeq(settled, 1, batch)[batch] = settled[batch]
      BY <2>1, Scores DEF TypeOK
    <3>4. Applied(t, f) = [t EXCEPT !.batches[batch].ended = TRUE]
      BY <2>2 DEF Applied, EndEvent
    <3>5. Applied(t, f).batches = SubSeq(settled', 1, batch')
      <4> DEFINE b == t.batches
      <4>1. b = SubSeq(settled, 1, batch)
        BY <2>4 DEF True
      <4>2. Applied(t, f).batches = [b EXCEPT ![batch].ended = TRUE]
        BY <3>4 DEF Shown
      <4> HIDE DEF b
      <4>3. b[batch] = settled[batch]
        BY <3>3, <4>1
      <4>4. [b EXCEPT ![batch].ended = TRUE] = [b EXCEPT ![batch] = v]
        BY <4>3
      <4> HIDE DEF v
      <4>5. QED
        BY <3>2, <4>1, <4>2, <4>4
    <3>6. Applied(t, f).counts = t.counts /\ Applied(t, f).hosts = t.hosts
      BY <3>4 DEF Shown
    <3>7. ~abandoned' => \A h \in Place : t.counts[h] = Cardinality(Running(h))'
      <4>1. ~AnyRunning' => \A h \in Place : Cardinality(Running(h))' = 0
        <5>1. ~AnyRunning' => \A h \in Place : Running(h)' = {}
          BY HostsHaveWorkers DEF AnyRunning, Running, Place
        <5>2. QED
          BY <5>1, FS_EmptySet
      <4>2. QED
        BY <1>14, <2>4, <4>1, RunningNothing DEF True
    <3>8. QED
      BY <1>14, <2>1, <3>5, <3>6, <3>7 DEF True
  <2>5. QED
    BY <2>3, <2>4, WriteKeeps
<1>15. ASSUME NEW h \in Host, HostChanges(h) PROVE CatchesUp'
  BY <1>15, QuietKeeps DEF HostChanges, Hosted
<1>16. ASSUME NEW i \in Input, NEW h \in Host, Start(i, h) PROVE CatchesUp'
  <2>1. h \in Remote => h \in config.hosts
    BY <1>16, RunningIsFinite DEF Start, HasRoom, Sited
  <2>2. QED
    BY <1>8, <1>16, <2>1, Hosts DEF Start, Hosted
<1>17. ASSUME NEW i \in Input, RunHere(i) PROVE CatchesUp'
  BY <1>8, <1>17, Hosts, HostsHaveWorkers DEF RunHere, Hosted, Host
<1>18. CASE BatchEnds
  <2>1. ~abandoned' => ~abandoned /\ ~AnyRunning /\ ~AnyRunning'
    BY <1>18 DEF BatchEnds, AnyRunning
  <2>2. QED
    BY <1>14, <1>18, <2>1 DEF BatchEnds
<1>19. CASE NothingPending
  <2>1. ~AnyRunning /\ ~AnyRunning' /\ abandoned' = abandoned
    BY <1>19 DEF NothingPending, AnyRunning, Course
  <2>2. QED
    BY <1>14, <1>19, <2>1 DEF NothingPending
<1>20. QED
  BY <1>1, <1>2, <1>3, <1>4, <1>5, <1>6, <1>7, <1>9, <1>10, <1>11, <1>12, <1>13,
     <1>15, <1>16, <1>17, <1>18, <1>19 DEF RunStep

LEMMA CatchesUpHolds == Spec => []CatchesUp
<1>1. Init => CatchesUp
  <2> SUFFICES ASSUME Init, TypeOK
               PROVE  Leads(shown, unread, shown) /\ True(shown)
    BY InitType DEF CatchesUp, TypeOK
  <2>1. Leads(shown, unread, shown)
    BY LeadsNowhere DEF Init, TypeOK
  <2>2. ~AnyRunning
    BY DEF Init, AnyRunning
  <2>3. shown.batches = SubSeq(settled, 1, batch)
    BY Scores DEF Init, TypeOK
  <2>4. \A h \in Place : shown.counts[h] = Cardinality(Running(h))
    BY <2>2, RunningNothing DEF Init, Idle, Place
  <2>5. shown.rows = {} /\ \A r \in Remote : shown.hosts[r] = Heard(r)
    BY DEF Init, Heard, NoHosts, Host
  <2>6. QED
    BY <2>1, <2>3, <2>4, <2>5 DEF True
<1>2. TypeOK /\ TypeOK' /\ Course /\ Sited /\ CatchesUp /\ [Next]_vars => CatchesUp'
  <2> SUFFICES ASSUME TypeOK, TypeOK', Course, Sited, CatchesUp, [Next]_vars
               PROVE  CatchesUp'
    OBVIOUS
  <2>1. CASE RunStep /\ UNCHANGED shown
    BY <2>1, RunStepCatchesUp
  <2>2. CASE SetMode /\ UNCHANGED shown
    BY <2>2, QuietKeeps DEF SetMode, run, Hosted
  <2>3. CASE Poll
    <3> SUFFICES ASSUME ~dropped
                 PROVE  (\E t \in Shown : Leads(shown, unread, t) /\ True(t))'
      BY <2>3 DEF CatchesUp, Poll
    <3>1. PICK t \in Shown : Leads(shown, unread, t) /\ True(t)
      BY DEF CatchesUp
    <3>2. Leads(shown', unread', t)
      BY <2>3, <3>1, LeadsFrom DEF Poll, TypeOK
    <3>3. True(t)'
      BY <2>3, <3>1 DEF Poll, run, True, Heard, Running, Hosted
    <3>4. QED
      BY <3>2, <3>3
  <2>4. CASE UNCHANGED vars
    BY <2>4, QuietKeeps DEF vars, run, Hosted
  <2>5. QED
    BY <2>1, <2>2, <2>3, <2>4 DEF Next
<1>3. QED
  BY <1>1, <1>2, MonitorTyping, CourseHolds, SitedHolds, PTL DEF Spec

\* There is nothing left for it to read: it shows what is true.
LEMMA ShowsTruth ==
  ASSUME TypeOK, CatchesUp, UpToDate
  PROVE  True(shown)
<1>1. PICK t \in Shown : Leads(shown, <<>>, t) /\ True(t)
  BY DEF CatchesUp, UpToDate
<1>2. shown = t
  BY <1>1, LeadsHere
<1>3. QED
  BY <1>1, <1>2

-----------------------------------------------------------------------------
(* Theorems                                                                *)

\* A monitor that has read all a run wrote shows the batches' outcomes, and
\* the inputs that run on each host, as they are: through cached inputs,
\* requeues, failures and runs in the main process, for any number of inputs,
\* hosts and batches.
THEOREM CountsHold == Spec => []CountsAreTrue
<1>1. TypeOK /\ CatchesUp => CountsAreTrue
  BY ShowsTruth DEF CountsAreTrue, True, Place
<1>2. QED
  BY <1>1, MonitorTyping, CatchesUpHolds, PTL

\* What such a monitor says the next task may use is what the turn takes, as
\* long as no host has changed since the turn wrote of it: of each remote
\* host; and of this machine, if its host is ready, the monitor read the same
\* of the local file as the run, and nothing has run in the main process.
\* Whatever that file names, or has come to name since the monitor read it.
THEOREM ForecastHolds == Spec => ForecastIsTrue
<1> DEFINE told == UpToDate /\ mode = polled /\ batch = 1 /\ News = {}
                   /\ \A r \in Remote : state[r] # "started"
<1>1. ASSUME TypeOK, Course, CatchesUp, TakeCaps, told
      PROVE  /\ \A r \in Remote : caps'[r] = ShownCaps[r]
             /\ state[Local] = "ready" /\ Known = config /\ Main \notin shown.rows
               => caps'[Local] = ShownCaps[Local]
  <2> DEFINE real == [r \in Remote |-> IF state[r] = "ready" THEN Capacity[r] ELSE 0]
             seen == [r \in Remote |-> IF shown.hosts[r] = "ready" THEN Capacity[r] ELSE 0]
             busy == \E r \in Remote : state[r] = "syncing"
             here == IF state[Local] = "ready" THEN config.workers ELSE 0
  <2>1. caps' = capacities(polled, here, real, busy)
    BY <1>1 DEF TakeCaps
  <2>2. ShownCaps = capacities(polled, Known.workers, seen, ShownSyncing)
    BY <1>1 DEF ShownCaps
  <2>3. shown.rows \cap Remote \subseteq config.hosts /\ \A r \in Remote : shown.hosts[r] = Heard(r)
    <3>1. True(shown) /\ batch = 1 /\ at # "between"
      BY <1>1, ShowsTruth DEF TakeCaps
    <3>2. QED
      BY <1>1, <3>1 DEF True, Hosted, TakeCaps
  <2>4. ASSUME polled # "local", NEW r \in Remote
        PROVE  /\ shown.hosts[r] = "ready" <=> state[r] = "ready"
               /\ shown.hosts[r] = "unheard" <=> state[r] \in {"none", "syncing"}
               /\ state[r] = "none" <=> r \notin config.hosts
    <3>1. state[r] \in {"none", "syncing", "ready", "failed"} /\ reported[r] \in {"none", "ready", "failed"}
      BY <1>1, <2>4 DEF Course, TakeCaps, TypeOK, Host
    <3>2. state[r] \in {"ready", "failed"} => reported[r] = state[r]
      BY <1>1, LocalIsNotRemote DEF News, Host
    <3>3. state[r] \in {"none", "syncing"} => reported[r] = "none"
      BY <1>1, <3>1 DEF Course
    <3>4. state[r] = "none" <=> r \notin config.hosts
      BY <1>1 DEF Course, TakeCaps
    <3>5. QED
      BY <2>3, <3>1, <3>2, <3>3, <3>4 DEF Heard
  <2>5. polled # "local" => real = seen
    BY <2>4
  <2>6. BatchLive
    <3>1. shown.batches = SubSeq(settled, 1, 1)
      BY <1>1, ShowsTruth DEF True
    <3>2. 1 \in 1..Batches /\ 1 \in 0..Batches /\ ~settled[1].ended
      BY <1>1, InBatch, MonitorAssumption DEF Course, TakeCaps
    <3>3. Len(shown.batches) = 1 /\ shown.batches[1] = settled[1]
      BY <1>1, <3>1, <3>2, Scores DEF TypeOK
    <3>4. 1 \in DOMAIN shown.batches
      BY <1>1, <3>3 DEF TypeOK, Shown
    <3>5. QED
      BY <3>2, <3>3, <3>4 DEF BatchLive
  <2>7. polled # "local" /\ Known = config /\ Main \notin shown.rows => (busy <=> ShownSyncing)
    <3> SUFFICES ASSUME polled # "local", Known = config, Main \notin shown.rows
                 PROVE  busy <=> ShownSyncing
      OBVIOUS
    <3>1. Known.hosts \subseteq Remote /\ shown.rows \subseteq Remote \cup {Local, Main}
      BY <1>1, HostsHaveWorkers DEF TypeOK, Shown, Place, Host
    <3>2. (Known.hosts \cup shown.rows) \ {Local} = config.hosts
      BY <2>3, <3>1, LocalIsNotRemote
    <3>3. \A r \in config.hosts : r \in Remote /\ r # Main
      BY <3>1, HostsHaveWorkers DEF Host
    <3>4. QED
      BY <2>4, <2>6, <3>2, <3>3 DEF ShownSyncing
  <2> HIDE DEF real, seen, busy, here
  <2>8. \A r \in Remote : caps'[r] = ShownCaps[r]
    BY <2>1, <2>2, <2>5, LocalIsNotRemote DEF capacities, Host
  <2>9. state[Local] = "ready" /\ Known = config /\ Main \notin shown.rows
               => caps'[Local] = ShownCaps[Local]
    <3> SUFFICES ASSUME state[Local] = "ready", Known = config, Main \notin shown.rows
                 PROVE  caps'[Local] = ShownCaps[Local]
      OBVIOUS
    <3>1. here = Known.workers
      BY DEF here
    <3>2. CASE polled = "local"
      BY <2>1, <2>2, <3>1, <3>2 DEF capacities, Host
    <3>3. CASE polled # "local"
      BY <2>1, <2>2, <2>5, <2>7, <3>1, <3>3 DEF capacities, Host
    <3>4. QED
      BY <3>2, <3>3
  <2>10. QED
    BY <2>8, <2>9
<1>2. TypeOK /\ Course /\ CatchesUp =>
        [TakeCaps /\ UpToDate /\ mode = polled /\ batch = 1 /\ News = {}
         /\ (\A r \in Remote : state[r] # "started") =>
           /\ \A r \in Remote : caps'[r] = ShownCaps[r]
           /\ state[Local] = "ready" /\ Known = config /\ Main \notin shown.rows
               => caps'[Local] = ShownCaps[Local]]_vars
  BY <1>1
<1>3. QED
  BY <1>2, MonitorTyping, CourseHolds, CatchesUpHolds, PTL DEF ForecastIsTrue

=============================================================================
