--------------------------------- MODULE Memo ---------------------------------
(***************************************************************************)
(* pure.py: memoised calls, the frames they run in, and the call records   *)
(* that serve them.                                                        *)
(*                                                                         *)
(* A memoised function is a program that reads its one argument, calls     *)
(* other memoised functions on parts of it, and returns or raises: at each *)
(* location an instruction, and where to go on each reply.  A location is  *)
(* all that the run has learned.  Actors (threads, processes) share the    *)
(* store.  An actor's stack is the chain of frames from its ContextVar.    *)
(*                                                                         *)
(* What is observed in an inner call is recorded at once by the recorders  *)
(* of the calls around it; here they get it when the inner call ends,      *)
(* since none is read earlier.  A lookup is one step: a record that comes  *)
(* during it may as well come after it.                                    *)
(***************************************************************************)
EXTENDS Facts

CONSTANTS
  Actor,      \* the threads and processes that share the store
  Fn,         \* the memoised functions
  Given,      \* the values the outermost calls are made on
  Loc,        \* the locations of the functions' programs
  Start,      \* Start[f]: where f begins
  Does,       \* Does[l]: the instruction at l, a record [op, path, fn, value]
  Then(_, _), \* Then(l, reply): where the program goes from l
  Means,      \* Means[l][t]: what a run from l on t comes to
  Result,     \* what a call may return
  Raised,     \* what comes of a call that raises
  Missing,    \* the reply of a read that finds nothing
  Debugging   \* whether a breakpoint may be live

Op == {"get", "contains", "whole", "call", "return", "raise"}

\* What the instruction at l finds in t.
Reply(l, t) ==
  LET n == Node(t, Does[l].path) IN
    IF n = NoTree THEN Missing
    ELSE CASE Does[l].op = "contains" -> Branch
           [] Does[l].op = "whole"    -> n
           [] Does[l].op = "get"      -> n[<< >>]
           [] Does[l].op = "call"     -> Means[Start[Does[l].fn]][n]

\* A function is pure: what a run comes to is fixed by what it reads.
ASSUME Purity ==
  /\ Given \subseteq Tree
  /\ Start \in [Fn -> Loc]
  /\ Does \in [Loc -> [op : Op, path : Path, fn : Fn, value : Result]]
  /\ Means \in [Loc -> [Tree -> Result \cup {Raised}]]
  /\ Raised \notin Result
  /\ \A l \in Loc, t \in Tree :
       Means[l][t] = CASE Does[l].op = "return" -> Does[l].value
                       [] Does[l].op = "raise"  -> Raised
                       [] OTHER -> Means[Then(l, Reply(l, t))][t]
  /\ \A l \in Loc :
       /\ Does[l].op \notin {"return", "raise"} =>
            \A t \in Tree : Then(l, Reply(l, t)) \in Loc
       /\ Does[l].op = "call" =>
            \A v \in Result \cup {Raised, Missing} : Then(l, v) \in Loc

VARIABLES
  records,  \* the call records in the store
  stack,    \* stack[a]: the frames of actor a, the innermost last
  blind     \* HISTORY: the records of calls that learned what no fact says

vars == <<records, stack, blind>>

Record == [fn : Fn, map : BOOLEAN, facts : SUBSET AnyFact, result : Result]

\* knows and blind are HISTORY: all that the call has learned of its argument,
\* and whether something in it was served by a blind record.
Frame == [fn : Fn, arg : Tree, from : Path, loc : Loc, facts : SUBSET AnyFact,
          discard : BOOLEAN, forced : BOOLEAN,
          knows : SUBSET AnyFact, blind : BOOLEAN]

TypeOK ==
  /\ records \subseteq Record
  /\ stack \in [Actor -> Seq(Frame)]
  /\ blind \subseteq records

Init ==
  /\ records = {}
  /\ stack = [a \in Actor |-> << >>]
  /\ blind = {}

----------------------------------------------------------------------------
(* Frames.                                                                 *)

Doing(a) == Does[Last(stack[a]).loc]

\* The innermost frame of s goes on with a reply, having observed F and
\* learned G.
GoesOn(s, reply, F, G, unsure) ==
  IF s = << >> THEN s
  ELSE Append(Front(s),
         [Last(s) EXCEPT !.loc = Then(@, reply),
                         !.facts = Put(@, F),
                         !.knows = @ \cup F \cup G,
                         !.blind = @ \/ unsure])

\* A read through a RecordingMap.
Read(a) ==
  /\ stack[a] # << >>
  /\ Doing(a).op \in {"get", "contains", "whole"}
  /\ LET top == Last(stack[a])
         p == Doing(a).path
         F == CASE Doing(a).op = "get"      -> Get(top.arg, p)
                [] Doing(a).op = "contains" -> HasKey(top.arg, p)
                [] Doing(a).op = "whole"    -> Whole(top.arg, p)
         G == IF Doing(a).op = "get" /\ IsMap(Node(top.arg, p))
                THEN {Fact(p, "map", NoTree)} ELSE {}
     IN  stack' = [stack EXCEPT ![a] =
                     GoesOn(@, Reply(top.loc, top.arg), F, G, FALSE)]
  /\ UNCHANGED <<records, blind>>

\* The calls actor a may make now: any, or the one its innermost frame is at.
\* seen is what the frame reads to get at the argument.
Call(f, t, p, F, G) == [fn |-> f, arg |-> t, from |-> p, seen |-> F, known |-> G]

Calls(a) ==
  IF stack[a] = << >> THEN {Call(f, t, << >>, {}, {}) : f \in Fn, t \in Given}
  ELSE LET top == Last(stack[a])
           p == Doing(a).path
           n == Node(top.arg, p)
       IN  IF Doing(a).op = "call" /\ n # NoTree
             THEN {Call(Doing(a).fn, n, p, Get(top.arg, p),
                        IF IsMap(n) THEN {Fact(p, "map", NoTree)} ELSE {})}
             ELSE {}

\* A call on what is not there raises before it is made.
NoArgument(a) ==
  /\ stack[a] # << >>
  /\ Doing(a).op = "call"
  /\ LET top == Last(stack[a]) IN
       /\ Node(top.arg, Doing(a).path) = NoTree
       /\ stack' = [stack EXCEPT ![a] =
                      GoesOn(@, Missing, Get(top.arg, Doing(a).path), {}, FALSE)]
  /\ UNCHANGED <<records, blind>>

----------------------------------------------------------------------------
(* The lookup.                                                             *)

\* _match_record.
Holds(r, t) == (r.map <=> IsMap(t)) /\ AllHold(r.facts, t)

Of(f) == {r \in records : r.fn = f}

\* What matching the records R of one function reads of t.
Observed(R, t) ==
  UNION {Tried(r.facts, t) : r \in {r \in R : r.map /\ IsMap(t)}}

\* _hit: records come in any order, and the first that holds is taken.
Hit(a) ==
  /\ \E c \in Calls(a) : \E r \in Of(c.fn) :
       /\ Holds(r, c.arg)
       /\ \E R \in SUBSET {q \in Of(c.fn) : ~ Holds(q, c.arg)} :
            LET F == At(c.from, Observed(R \cup {r}, c.arg)) IN
              stack' = [stack EXCEPT ![a] =
                GoesOn(@, r.result, c.seen \cup F,
                       c.known \cup At(c.from, r.facts), r \in blind)]
  /\ UNCHANGED <<records, blind>>

NewFrame(c, forced) ==
  LET F == IF IsMap(c.arg) THEN {} ELSE {Fact(<< >>, "value", c.arg)} IN
    [fn |-> c.fn, arg |-> c.arg, from |-> c.from, loc |-> Start[c.fn],
     facts |-> F, knows |-> F, discard |-> forced, forced |-> forced,
     blind |-> FALSE]

\* The enclosing frame has observed F of its argument on the way.
Push(s, c, F, forced) ==
  (IF s = << >> THEN s
   ELSE Append(Front(s),
          [Last(s) EXCEPT !.facts = Put(@, c.seen \cup F),
                          !.knows = @ \cup c.seen \cup c.known \cup F]))
    \o <<NewFrame(c, forced)>>

\* No record holds, or the value of the one taken is gone from the store (the
\* store may lose any value at any time): the call runs.
Miss(a) ==
  /\ \E c \in Calls(a) :
       LET held == {r \in Of(c.fn) : Holds(r, c.arg)} IN
         \E R \in SUBSET Of(c.fn) :
           /\ IF held = {} THEN R = Of(c.fn) ELSE \E r \in held : R \cap held = {r}
           /\ stack' = [stack EXCEPT ![a] =
                Push(@, c, At(c.from, Observed(R, c.arg)), FALSE)]
  /\ UNCHANGED <<records, blind>>

\* MUTANT: the enclosing calls are recorded all the same.
ForceInnermost(a) ==
  /\ Debugging
  /\ \E c \in Calls(a) : stack' = [stack EXCEPT ![a] = Push(@, c, {}, TRUE)]
  /\ UNCHANGED <<records, blind>>

\* A live breakpoint: the call runs with no lookup, and neither it nor the
\* calls around it will be recorded.
RunForced(a) ==
  /\ Debugging
  /\ \E c \in Calls(a) :
       LET s == Push(stack[a], c, {}, TRUE) IN
         stack' = [stack EXCEPT ![a] =
                     [n \in DOMAIN s |-> [s[n] EXCEPT !.discard = TRUE]]]
  /\ UNCHANGED <<records, blind>>

----------------------------------------------------------------------------
(* The end of a call.                                                      *)

\* What the calls around the innermost have observed and learned by it.
Leave(s, reply) ==
  LET top == Last(s) IN
    GoesOn(Front(s), reply, At(top.from, top.facts), At(top.from, top.knows),
           top.blind)

\* The record of a frame that returns v.
RecordOf(fr, v) ==
  [fn |-> fr.fn, map |-> IsMap(fr.arg), facts |-> Finalize(fr.facts),
   result |-> v]

\* Something the call learned is not in its record.
LearnedMore(fr, r) ==
  \E t \in Tree : Holds(r, t) /\ ~ AllHold(fr.knows, t)

\* The value is stored, then the record.  A forced call returns what the
\* debugging made of it.
Return(a) ==
  /\ stack[a] # << >>
  /\ Doing(a).op = "return"
  /\ LET top == Last(stack[a]) IN
       \E v \in IF top.forced THEN Result ELSE {Doing(a).value} :
         LET r == RecordOf(top, v) IN
           /\ stack' = [stack EXCEPT ![a] = Leave(@, v)]
           /\ IF top.discard
                THEN UNCHANGED <<records, blind>>
                ELSE /\ records' = records \cup {r}
                     /\ blind' = IF top.blind \/ LearnedMore(top, r)
                                   THEN blind \cup {r} ELSE blind

\* MUTANT: that a call raised is remembered.
RaiseStores(a) ==
  /\ stack[a] # << >>
  /\ Doing(a).op = "raise"
  /\ stack' = [stack EXCEPT ![a] = Leave(@, Raised)]
  /\ records' = records \cup {RecordOf(Last(stack[a]), Raised)}
  /\ UNCHANGED blind

\* The store is untouched.
Raise(a) ==
  /\ stack[a] # << >>
  /\ Doing(a).op = "raise"
  /\ stack' = [stack EXCEPT ![a] = Leave(@, Raised)]
  /\ UNCHANGED <<records, blind>>

\* An exception no call catches, such as an interrupt.
Unwind(a) ==
  /\ stack[a] # << >>
  /\ stack' = [stack EXCEPT ![a] = << >>]
  /\ UNCHANGED <<records, blind>>

\* A file of the store goes, at any time.
Lose(r) ==
  /\ records' = records \ {r}
  /\ blind' = blind \ {r}
  /\ UNCHANGED stack

Next ==
  \/ \E a \in Actor :
       \/ Read(a) \/ NoArgument(a) \/ Hit(a) \/ Miss(a) \/ RunForced(a)
       \/ Return(a) \/ Raise(a) \/ Unwind(a)
  \/ \E r \in records : Lose(r)

Spec == Init /\ [][Next]_vars

----------------------------------------------------------------------------
(* What holds of it.                                                       *)

Value(f, t) == Means[Start[f]][t]

\* A record serves only what a call would return: whatever value its facts
\* hold of, the function returns the recorded result on it.  Of the records
\* of calls all of whose learning the facts imply, and that nothing unsound
\* was served to; whatever actors, losses, raises and debuggers do.
RecordsAreSound ==
  \A r \in records \ blind : \A t \in Tree :
    Holds(r, t) => r.result = Value(r.fn, t)

\* Being served from the store changes no call's course: from where it is, it
\* goes on to what the function comes to on its argument.
CallsOnCourse ==
  \A a \in Actor : \A n \in DOMAIN stack[a] :
    LET fr == stack[a][n] IN
      ~ fr.blind /\ ~ fr.discard =>
        Means[fr.loc][fr.arg] = Value(fr.fn, fr.arg)

\* The same call again is a hit: what a call would now be recorded with holds
\* of its own argument, also what inner calls and lookups observed of it.
RecordedIsTrue ==
  \A a \in Actor : \A n \in DOMAIN stack[a] :
    LET fr == stack[a][n] IN
      AllHold(fr.knows, fr.arg) /\ Holds(RecordOf(fr, Raised), fr.arg)

----------------------------------------------------------------------------
(* What the documentation says of it, and the runs refute.                 *)

\* recording.py:28-29: the record of an outer call "stays valid only for maps
\* that would drive the inner the same way".
EveryRecordSound ==
  \A r \in records : \A t \in Tree :
    Holds(r, t) => r.result = Value(r.fn, t)

=============================================================================
