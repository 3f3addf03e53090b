---------------------------- MODULE FunctionHash ----------------------------
(***************************************************************************)
(* functionhash.py, with what pure.py and debughook.py make of it.  The    *)
(* source of a @pure function is edited while processes start, compute its *)
(* function hash at its first call, look up a record under that hash, and  *)
(* else run the function and record what it returned.  The walk of         *)
(* _Walker is here step by step, depth first, as a stack of what is left   *)
(* to add; each frame it feeds the hasher is kept, so that two hashes are  *)
(* equal when their frames are.  What a function returns is abstracted to  *)
(* its definition: everything reachable by name from its code.             *)
(***************************************************************************)
EXTENDS Integers, FiniteSets, Sequences

CONSTANTS
  Fn, Root,    \* user functions, and the @pure one that is called
  Code,        \* their code objects
  Cls,         \* user classes
  Mod,         \* user modules referenced as modules
  Outside,     \* what installed packages and the standard library define
  Const,       \* immutable values
  Mutable,     \* mutable ones, and what cannot be hashed
  TypeOf,      \* TypeOf[o]: the name of the type of a mutable value
  Name,        \* global and attribute names
  Nothing,     \* what an unbound name is bound to
  CodeOf,      \* [Fn -> Code]: fn.__code__
  Inner,       \* [Code -> Seq(Code)]: the code objects in co_consts
  Bases,       \* [Cls -> Seq(Cls)]
  Sub,         \* [Mod -> [Name -> Mod \cup {Nothing}]]: a package's submodules
  Names,       \* [Code -> SUBSET Seq(Name)]: co_names a code object may have
  Bindings,    \* [Name -> SUBSET Object]: what a global may be bound to
  Captures,    \* [Fn -> SUBSET Seq(Object)]: defaults and closure values
  Methods,     \* [Cls -> SUBSET Seq(Name \X Fn)]: the functions in vars(cls)
  Editable,    \* the kinds of edit, see Edit
  MaxEdits,    \* bound on the edits
  MaxRuns      \* bound on the processes

Object == Fn \cup Cls \cup Mod \cup Outside \cup Const \cup Mutable

\* A thing is of one kind, and there are finitely many.
ASSUME HashAssumption ==
  /\ Root \in Fn /\ Nothing \notin Object \cup Code
  /\ \A S \in {Fn, Code, Cls, Mod} : IsFiniteSet(S)
  /\ Fn \cap (Code \cup Cls \cup Mod \cup Outside \cup Const \cup Mutable) = {}
  /\ Code \cap (Cls \cup Mod \cup Outside \cup Const \cup Mutable) = {}
  /\ Cls \cap (Mod \cup Outside \cup Const \cup Mutable) = {}
  /\ Mod \cap (Outside \cup Const \cup Mutable) = {}
  /\ Outside \cap (Const \cup Mutable) = {} /\ Const \cap Mutable = {}
  /\ Name \cap Nat = {}
  /\ \A o \in Mutable : TypeOf[o] \notin Object \cup Code \cup {Nothing}
  /\ CodeOf \in [Fn -> Code] /\ Inner \in [Code -> Seq(Code)] /\ Bases \in [Cls -> Seq(Cls)]
  /\ Sub \in [Mod -> [Name -> Mod \cup {Nothing}]]
  /\ \A c \in Code : Names[c] # {} /\ Names[c] \subseteq Seq(Name)
  /\ \A n \in Name : Bindings[n] \subseteq Object \cup {Nothing}
  /\ \A f \in Fn : Captures[f] # {} /\ Captures[f] \subseteq Seq(Object)
  /\ \A k \in Cls : Methods[k] # {} /\ Methods[k] \subseteq Seq(Name \X Fn)
  /\ MaxEdits \in Nat /\ MaxRuns \in Nat

VARIABLES
  source,   \* the program, as its files are
  loaded,   \* the program as this process imported it
  phase,    \* of this process: "off", "loaded", "walking", "hashed", "answered"
  walk,     \* this process's _Walker
  breaks,   \* where breakpoints are set: code objects and modules
  answer,   \* what the call returned, and whether it was a hit
  records,  \* the call records, by function hash
  edits, runs

vars == <<source, loaded, phase, walk, breaks, answer, records, edits, runs>>

-----------------------------------------------------------------------------
(* What a definition is.                                                   *)

Under(s, ns) == [i \in DOMAIN s |-> <<s[i], ns>>]

\* What code refers to, in order: a module's attributes are looked up in the
\* names of the code that refers to the module, so an object is paired with
\* them.
Kin(p, x) ==
  LET o == x[1]
      Bound(i) == p.bound[p.names[o][i]]
      Method(i) == p.methods[o][i][2]
  IN  IF o \in Fn THEN <<<<CodeOf[o], <<>>>>>> \o Under(p.captures[o], p.names[CodeOf[o]])
      ELSE IF o \in Code THEN
        Under(Inner[o], <<>>) \o [i \in DOMAIN p.names[o] |-> <<Bound(i), p.names[o]>>]
      ELSE IF o \in Cls THEN
        Under(Bases[o], <<>>) \o [i \in DOMAIN p.methods[o] |-> <<Method(i), <<>>>>]
      ELSE IF o \in Mod THEN [i \in DOMAIN x[2] |-> <<Sub[o][x[2][i]], x[2]>>]
      ELSE <<>>

Refers(p, x) == {Kin(p, x)[i] : i \in DOMAIN Kin(p, x)}

\* No path through functions, or pairs of them, code, classes and modules is
\* longer.
Longest ==
  Cardinality(Fn) * Cardinality(Fn) + Cardinality(Code) + Cardinality(Cls) + Cardinality(Mod) + 1

Reached(p) ==
  LET R[k \in 0..Longest] ==
        IF k = 0 THEN {<<Root, <<>>>>}
        ELSE LET r == R[k - 1] IN r \cup UNION {Refers(p, x) : x \in r}
  IN  {x[1] : x \in R[Longest]} \ {Nothing}

\* What a thing is but for what it refers to.  A function is not its name;
\* of a mutable value the definition has the type, whichever it is.
Own(p, o) ==
  IF o \in Fn THEN <<CodeOf[o], Len(p.captures[o])>>
  ELSE IF o \in Code THEN <<o, p.body[o], p.literal[o], p.signature[o], p.names[o]>>
  ELSE IF o \in Cls THEN
    LET MethodName(i) == p.methods[o][i][1]
    IN  <<o, [i \in DOMAIN p.methods[o] |-> MethodName(i)]>>
  ELSE IF o \in Mod THEN <<o, p.text[o]>>
  ELSE IF o \in Outside THEN <<o, p.version>>
  ELSE IF o \in Mutable THEN <<TypeOf[o]>>
  ELSE <<o>>

\* What two programs reach on the same way.
Together(p, q) ==
  LET Both(z) == {<<Kin(p, z[1])[i], Kin(q, z[2])[i]>> :
                    i \in DOMAIN Kin(p, z[1]) \cap DOMAIN Kin(q, z[2])}
      First == {<<<<Root, <<>>>>, <<Root, <<>>>>>>}
      R[k \in 0..Longest] ==
        IF k = 0 THEN [all |-> First, new |-> First]
        ELSE LET r == R[k - 1]
                 new == (UNION {Both(z) : z \in r.new}) \ r.all
             IN  [all |-> r.all \cup new, new |-> new]
  IN  R[Longest].all

\* README: "everything reachable by name from the function's code".
SameDefinition(p, q) == \A z \in Together(p, q) : Own(p, z[1][1]) = Own(q, z[2][1])

-----------------------------------------------------------------------------
(* The walk.  A task is a call of one of _Walker's methods; what a method  *)
(* still has to do after a call it makes is the tasks behind it.           *)

Task(does, at, label, names) ==
  [does |-> does, at |-> at, label |-> label, names |-> names]

\* The frames are what the hasher is fed.  Two more parts say what they leave
\* out: unsaid, what a frame stands for and does not tell, and after how many
\* frames; blind, why something the walk came to was not looked at, or was
\* not what this process had loaded.
NewWalk ==
  [todo |-> <<Task("function", Root, <<>>, <<>>)>>, seen |-> {}, spans |-> {},
   frames |-> <<>>, met |-> {}, unsaid |-> <<>>, blind |-> {}]

Doing(does) == phase = "walking" /\ walk.todo # <<>> /\ walk.todo[1].does = does

\* The walk goes on with tasks, having fed frames to the hasher.
On(tasks, frames) ==
  [walk EXCEPT !.todo = tasks \o Tail(@), !.frames = @ \o frames]

\* And with what these frames do not tell, and what was not looked at.
Omitting(w, unsaid, blind) ==
  [w EXCEPT !.unsaid = @ \o unsaid, !.blind = @ \cup blind]

Note(what) == <<<<Len(walk.frames), what>>>>

\* _classify: of what is not user code, the package and its version.
Marker(o) == <<"outside", loaded.version>>

\* MUTANT: a mutable value is fed as it happens to be.
GlobalFrameOfMutable(o, label) ==
  CASE o \in Fn      -> <<<<"fn", label>>>>
    [] o \in Const \cup Mutable -> <<<<"value", label, o>>>>
    [] o \in Outside -> <<<<"global", label, Marker(o)>>>>
    [] OTHER         -> <<>>

\* The name of a global is fed with what it is, if it is user code or a value
\* that can change only in the source, and with the type of another value.
\* One that is bound to nothing is not fed.
GlobalFrame(o, label) ==
  CASE o \in Fn      -> <<<<"fn", label>>>>
    [] o \in Const   -> <<<<"value", label, o>>>>
    [] o \in Mutable -> <<<<"untracked", label, TypeOf[o]>>>>
    [] o \in Outside -> <<<<"global", label, Marker(o)>>>>
    [] OTHER         -> <<>>

GlobalTasks(o, label, names) ==
  CASE o \in Fn  -> <<Task("function", o, label, names)>>
    [] o \in Mod -> <<Task("module", o, label, names)>>
    [] o \in Cls -> <<Task("class", o, label, names)>>
    [] OTHER     -> <<>>

AddGlobal ==
  /\ Doing("global")
  /\ LET t == walk.todo[1]
     IN  walk' = Omitting(On(GlobalTasks(t.at, t.label, t.names), GlobalFrame(t.at, t.label)),
                          IF t.at \in Outside THEN Note(<<"object", t.at>>) ELSE <<>>, {})

Captured(f) ==
  LET Known(o) == IF o \in Mutable THEN TypeOf[o] ELSE o
  IN  [i \in DOMAIN loaded.captures[f] |-> Known(loaded.captures[f][i])]

\* What f captured is not what was looked at with its code.
OtherCaptured(f) ==
  LET met == {g \in walk.met : CodeOf[g] = CodeOf[f]}
  IN  IF met = {} THEN loaded.captures[f] # <<>>
      ELSE \E g \in met : Captured(g) # Captured(f)

\* A function whose code was walked: what this one captured is not looked at.
MeetCodeAgain ==
  /\ Doing("function") \/ Doing("code")
  /\ LET t == walk.todo[1]
         c == IF t.does = "code" THEN t.at ELSE CodeOf[t.at]
     IN  /\ c \in walk.seen
         /\ walk' = Omitting(On(<<>>, <<<<"cycle">>>>), Note(<<"met", c>>),
                             IF t.does = "function" /\ OtherCaptured(t.at)
                             THEN {"captured"} ELSE {})

\* Defaults and closure values, then the code: only that marks it seen.
AddFunction ==
  /\ Doing("function")
  /\ LET f == walk.todo[1].at
     IN  /\ CodeOf[f] \notin walk.seen
         /\ walk' = [On(<<Task("captures", f, <<1>>, <<>>)>>, <<>>) EXCEPT !.met = @ \cup {f}]

\* The loops over them: the next, or else the code.
AddCaptures ==
  /\ Doing("captures")
  /\ LET f == walk.todo[1].at
         i == walk.todo[1].label[1]
     IN  walk' =
           IF i \in DOMAIN loaded.captures[f]
             THEN On(<<Task("global", loaded.captures[f][i], <<i>>, loaded.names[CodeOf[f]]),
                       Task("captures", f, <<i + 1>>, <<>>)>>, <<>>)
             ELSE On(<<Task("code", CodeOf[f], <<>>, <<>>)>>, <<>>)

\* MUTANT: only the names that are bound are fed, with what they are bound to.
CodeFramesUnnamed(c) == <<<<"C", c, loaded.body[c]>>, <<"const", loaded.literal[c]>>>>

\* The bytecode, the names, attributes' among them, and the constants.
\* Neither the parameters nor the flags are fed.
CodeFrames(c) ==
  <<<<"C", c, loaded.body[c]>>, <<"names", loaded.names[c]>>, <<"const", loaded.literal[c]>>>>

\* These, the nested code objects, then what each name is bound to.
AddCode ==
  /\ Doing("code")
  /\ LET c == walk.todo[1].at
         ns == loaded.names[c]
         Nested(i) == Task("code", Inner[c][i], <<>>, <<>>)
         Global(i) == Task("global", loaded.bound[ns[i]], <<ns[i]>>, ns)
     IN  /\ c \notin walk.seen
         /\ walk' = Omitting(
              [On([i \in DOMAIN Inner[c] |-> Nested(i)]
                    \o [i \in DOMAIN ns |-> Global(i)],
                  CodeFrames(c))
                 EXCEPT !.seen = @ \cup {c}, !.spans = @ \cup {c}],
              Note(<<"signature", loaded.signature[c]>>), {})

\* MUTANT: a package's file is all of it.
FollowedNever(m, names) == <<>>

\* What each of the names is in m: a submodule or nothing.
Followed(m, names) == [i \in DOMAIN names |-> Sub[m][names[i]]]

\* A name that is no submodule's.
NoSubmodule ==
  /\ Doing("module") /\ walk.todo[1].at = Nothing
  /\ walk' = On(<<>>, <<>>)

\* Whether the walk has come to all that names lead to from m.
AllFollowed(m, names) ==
  \E S \in SUBSET (walk.seen \cap Mod) :
    /\ m \in S
    /\ \A x \in S : \A i \in DOMAIN names : Sub[x][names[i]] \in S \cup {Nothing}

\* A module or a class is passed over in silence the second time: the
\* submodules this code's names lead to are not looked at.
PassOver ==
  /\ Doing("module") \/ Doing("class")
  /\ LET t == walk.todo[1]
     IN  /\ t.at \in walk.seen
         /\ walk' = Omitting(On(<<>>, <<>>), Note(<<"passed", t.label, t.at>>),
              IF t.at \in Mod /\ ~AllFollowed(t.at, t.names) THEN {"submodule"} ELSE {})

\* The module's file as it is now, and the submodules named.
AddUserModule ==
  /\ Doing("module")
  /\ LET t == walk.todo[1]
         m == t.at
         subs == Followed(m, t.names)
         Submodule(i) == Task("module", subs[i], Append(t.label, t.names[i]), t.names)
     IN  /\ m \in Mod \ walk.seen
         /\ walk' = Omitting([On([i \in DOMAIN subs |-> Submodule(i)],
                                 <<<<"m", t.label, m, source.text[m]>>>>)
                                EXCEPT !.seen = @ \cup {m}, !.spans = @ \cup {m}],
                             <<>>, IF source.text[m] # loaded.text[m] THEN {"edited"} ELSE {})

\* A class's own functions, not their names, nor its bases.
AddUserClass ==
  /\ Doing("class")
  /\ LET k == walk.todo[1].at
         ms == loaded.methods[k]
         Method(i) == Task("function", ms[i][2], <<>>, <<>>)
         MethodName(i) == ms[i][1]
     IN  /\ k \notin walk.seen
         /\ walk' = Omitting([On([i \in DOMAIN ms |-> Method(i)], <<<<"cls", walk.todo[1].label, k>>>>)
                                EXCEPT !.seen = @ \cup {k}],
                             Note(<<"methods", [i \in DOMAIN ms |-> MethodName(i)]>>),
                             IF Bases[k] = <<>> THEN {} ELSE {"base"})

Walk ==
  /\ AddGlobal \/ AddFunction \/ AddCaptures \/ AddCode \/ MeetCodeAgain \/ AddUserModule \/ NoSubmodule
       \/ AddUserClass \/ PassOver
  /\ UNCHANGED <<source, loaded, phase, breaks, answer, records, edits, runs>>

-----------------------------------------------------------------------------
(* Edits and processes.                                                    *)

Init ==
  /\ source \in [body : {[c \in Code |-> 0]}, literal : {[c \in Code |-> 0]},
                 signature : {[c \in Code |-> 0]}, text : {[m \in Mod |-> 0]}, version : {0},
                 names : {[c \in Code |-> CHOOSE s \in Names[c] : TRUE]},
                 captures : {[f \in Fn |-> CHOOSE s \in Captures[f] : TRUE]},
                 methods : {[k \in Cls |-> CHOOSE s \in Methods[k] : TRUE]},
                 bound : {b \in [Name -> Object \cup {Nothing}] :
                            \A n \in Name : b[n] \in Bindings[n]}]
  /\ loaded = source /\ phase = "off" /\ walk = NewWalk /\ breaks = {}
  /\ answer = [by |-> "none"] /\ records = {} /\ edits = 0 /\ runs = 0

\* What one edit makes of the source.
Edited ==
  LET E(kind, S) == IF kind \in Editable THEN S ELSE {}
  IN  UNION {
    E("body",      {[source EXCEPT !.body[c] = 1 - @] : c \in Code}),
    E("literal",   {[source EXCEPT !.literal[c] = 1 - @] : c \in Code}),
    E("signature", {[source EXCEPT !.signature[c] = 1 - @] : c \in Code}),
    E("text",      {[source EXCEPT !.text[m] = 1 - @] : m \in Mod}),
    E("version",   {[source EXCEPT !.version = 1 - @]}),
    E("names",     UNION {{[source EXCEPT !.names[c] = s] : s \in Names[c]} : c \in Code}),
    E("bound",     UNION {{[source EXCEPT !.bound[n] = o] : o \in Bindings[n]} : n \in Name}),
    E("captures",  UNION {{[source EXCEPT !.captures[f] = s] : s \in Captures[f]} : f \in Fn}),
    E("methods",   UNION {{[source EXCEPT !.methods[k] = s] : s \in Methods[k]} : k \in Cls})}

\* A process reads the files of the modules it names as it walks; the rest of
\* the source it reads as it starts, and edits of it in between are as well
\* made after it.
Edit ==
  /\ edits < MaxEdits /\ edits' = edits + 1
  /\ source' \in Edited \ {source}
  /\ \/ phase = "off" /\ runs < MaxRuns
     \/ phase # "answered" /\ source'.text # source.text
  /\ UNCHANGED <<loaded, phase, walk, breaks, answer, records, runs>>

\* A process imports the program.
Start ==
  /\ phase = "off" /\ runs < MaxRuns
  /\ phase' = "loaded" /\ loaded' = source /\ runs' = runs + 1
  /\ UNCHANGED <<source, walk, breaks, answer, records, edits>>

\* Memoised.reachable: the walk is at the first call, whenever that is.
FirstCall ==
  /\ phase = "loaded" /\ phase' = "walking" /\ walk' = NewWalk
  /\ UNCHANGED <<source, loaded, breaks, answer, records, edits, runs>>

Walked == phase = "walking" /\ walk.todo = <<>>

\* In a debugger: only what is set when the call is made matters.
SetBreakpoint ==
  /\ Walked /\ breaks = {}
  /\ \E x \in Code \cup Mod : breaks' = {x}
  /\ UNCHANGED <<source, loaded, phase, walk, answer, records, edits, runs>>

\* breakpoints_force: a breakpoint in a span makes the call run, and leaves
\* nothing in the store.
Forces == breaks \cap walk.spans # {}

Answers(by, of) == phase' = "answered" /\ answer' = [by |-> by, of |-> of]

\* What is recorded with a hash: the definition that ran, and, of the walk
\* that made it, what it left out.
Record ==
  [frames |-> walk.frames, of |-> loaded, unsaid |-> walk.unsaid,
   blind |-> walk.blind]

Found == {r \in records : r.frames = walk.frames}

RunForced ==
  /\ Walked /\ Forces /\ Answers("forced", Record) /\ records' = records
  /\ UNCHANGED <<source, loaded, walk, breaks, edits, runs>>

Hit ==
  /\ Walked /\ ~Forces /\ \E r \in Found : Answers("hit", r)
  /\ UNCHANGED <<source, loaded, walk, breaks, records, edits, runs>>

Miss ==
  /\ Walked /\ ~Forces /\ Found = {} /\ Answers("run", Record)
  /\ records' = records \cup {Record}
  /\ UNCHANGED <<source, loaded, walk, breaks, edits, runs>>

Exit ==
  /\ phase = "answered" /\ phase' = "off"
  /\ loaded' = source /\ walk' = NewWalk /\ breaks' = {} /\ answer' = [by |-> "none"]
  /\ UNCHANGED <<source, records, edits, runs>>

Next ==
  Edit \/ Start \/ FirstCall \/ SetBreakpoint \/ Walk \/ RunForced \/ Hit \/ Miss \/ Exit

Spec == Init /\ [][Next]_vars

-----------------------------------------------------------------------------
(* What the hash is for.                                                   *)

IsHit == phase = "answered" /\ answer.by = "hit"

\* README: "a cache hit returns exactly what executing the current definition
\* on the current arguments would return".
HitIsCurrent == IsHit => SameDefinition(answer.of.of, loaded)

\* It does, for the process that makes the call and the source it imported,
\* wherever both walks looked at all they came to, and the frames stand for
\* the same things: no edit of a body, a constant, a name, a binding, a
\* captured value, a module or a version that was reached is missed, whatever
\* order the walk met them in, and what shares a name, a place or a shape with
\* something else is not taken for it.
HitIsCurrentIfTold ==
  IsHit /\ answer.of.blind = {} /\ walk.blind = {} /\ answer.of.unsaid = walk.unsaid =>
    SameDefinition(answer.of.of, loaded)

\* The same definition has the same hash, in every process: an edit of what
\* is not reached costs nothing, and a worker's hash is the main process's.
\* But for a module whose file was edited under one of them.
SameDefinitionHits ==
  Walked /\ "edited" \notin walk.blind =>
    \A r \in records \ Found : "edited" \notin r.blind => ~SameDefinition(r.of, loaded)

\* "Setting a breakpoint in a step, or in a helper it calls, makes that step
\* execute": no hit passes over a breakpoint in anything reached, but for
\* what a walk does not look at.
BreakpointIsHit ==
  IsHit /\ walk.blind \subseteq {"edited"} => breaks \cap Reached(loaded) = {}

=============================================================================
