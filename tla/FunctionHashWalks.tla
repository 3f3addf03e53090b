------------------------- MODULE FunctionHashWalks --------------------------
(***************************************************************************)
(* The terms in which FunctionHashProofs speaks of walks: the types, what  *)
(* is closed, what a step makes of a walk of any program, one walk from    *)
(* its first step to its last (a course), two of them side by side, and    *)
(* what two programs reach on the same way.  None of it is code; every     *)
(* step restated here is shown to be the one FunctionHash takes.           *)
(***************************************************************************)
EXTENDS FunctionHash

Program ==
  [body : [Code -> Int], literal : [Code -> Int], signature : [Code -> Int], text : [Mod -> Int],
   version : Int, names : [Code -> Seq(Name)], captures : [Fn -> Seq(Object)],
   methods : [Cls -> Seq(Name \X Fn)], bound : [Name -> Object \cup {Nothing}]]

Label == Seq(Name \cup Nat)

TasksOf(does, S) == [does : {does}, at : S, label : Label, names : Seq(Name)]

Tasks ==
  TasksOf("function", Fn) \cup TasksOf("code", Code) \cup TasksOf("class", Cls)
    \cup TasksOf("global", Object \cup {Nothing}) \cup TasksOf("module", Mod \cup {Nothing})
    \cup [does : {"captures"}, at : Fn, label : {<<i>> : i \in Nat \ {0}}, names : Seq(Name)]

Shape(w) ==
  w = [todo |-> w.todo, seen |-> w.seen, spans |-> w.spans, frames |-> w.frames, met |-> w.met,
       unsaid |-> w.unsaid, blind |-> w.blind]

\* A walk with these parts.
HasParts(w, todo, seen, spans, frames, met, unsaid, blind) ==
  /\ Shape(w) /\ w.todo = todo /\ w.seen = seen /\ w.spans = spans /\ w.frames = frames
  /\ w.met = met /\ w.unsaid = unsaid /\ w.blind = blind

Elements(s) == {s[j] : j \in DOMAIN s}

IsSeq(s) == s \in Seq(Elements(s))

\* The types of what the proof is about.
TypedWalk(w) ==
  /\ Shape(w) /\ w.todo \in Seq(Tasks)
  /\ w.seen \subseteq Code \cup Cls \cup Mod /\ w.met \subseteq Fn
  /\ IsSeq(w.frames) /\ IsSeq(w.unsaid)

Typed ==
  /\ source \in Program /\ loaded \in Program
  /\ phase \in {"off", "loaded", "walking", "answered"}
  /\ TypedWalk(walk)
  /\ breaks \subseteq Code \cup Mod

Todo == Elements(walk.todo)

\* What code refers to is referred to with the code's names.
Pair == (Object \cup Code \cup {Nothing}) \X Seq(Name)

\* M: the modules that were looked at, each with the names it was looked at for.
LookedAt(M, x) ==
  /\ x[1] \in Fn =>
       \/ x[1] \in walk.met
       \/ /\ CodeOf[x[1]] \in walk.seen
          /\ \/ loaded.captures[x[1]] = <<>>
             \/ \E g \in walk.met : CodeOf[g] = CodeOf[x[1]] /\ Captured(g) = Captured(x[1])
  /\ x[1] \in Code \cup Cls => x[1] \in walk.seen
  /\ x[1] \in Mod => x \in M

\* A task is about a thing; the captures task, about what is left of them, and
\* the code.
IsOf(t, x) ==
  IF t.does = "captures"
    THEN \/ x = <<CodeOf[t.at], <<>>>>
         \/ \E j \in DOMAIN loaded.captures[t.at] :
              j >= t.label[1] /\ x = <<loaded.captures[t.at][j], loaded.names[CodeOf[t.at]]>>
    ELSE t.at = x[1] /\ (x[1] \in Mod => t.names = x[2])

Awaited(x) == \E t \in Todo : IsOf(t, x)

Closed(M) ==
  /\ M \subseteq Mod \X Seq(Name) /\ \A x \in M : x[1] \in walk.seen
  /\ walk.seen \cap (Code \cup Mod) \subseteq walk.spans
  /\ LookedAt(M, <<Root, <<>>>>) \/ Awaited(<<Root, <<>>>>)
  /\ \A x \in Pair : LookedAt(M, x) =>
       \A y \in Refers(loaded, x) : LookedAt(M, y) \/ Awaited(y)

\* A base, or a captured value, that was not looked at, is not spoken for.
WalkIsClosed ==
  /\ phase \in {"walking", "answered"} /\ walk.blind \subseteq {"edited"} => \E M : Closed(M)
  /\ IsHit => walk.todo = <<>> /\ breaks \cap walk.spans = {}

-----------------------------------------------------------------------------
(* The walk                                                                *)

\* The walk with all these parts, as the only member of a set: a record with
\* some parts replaced is a member of another such set.
WalkOf(q, s, p, f, m, n, l) ==
  [todo : {q}, seen : {s}, spans : {p}, frames : {f}, met : {m}, unsaid : {n}, blind : {l}]

-----------------------------------------------------------------------------
(* What each step of the walk does                                         *)

\* The task at hand is done: tasks are added, things are seen, functions are
\* met, frames are fed, what they do not tell is noted, and what was not
\* looked at.
Moves(w, v, tasks, things, fns, frames, notes, unseen) ==
  HasParts(v, tasks \o Tail(w.todo), w.seen \cup things,
           w.spans \cup (things \cap (Code \cup Mod)), w.frames \o frames,
           w.met \cup fns, w.unsaid \o notes, w.blind \cup unseen)

Does(tasks, things, fns, unseen) ==
  /\ tasks \in Seq(Tasks) /\ things \subseteq Code \cup Cls \cup Mod /\ fns \subseteq Fn
  /\ walk.todo # <<>>
  /\ \E frames, notes :
       IsSeq(frames) /\ IsSeq(notes) /\ Moves(walk, walk', tasks, things, fns, frames, notes, unseen)

\* The task at hand.
Now == walk.todo[1]

\* The code a task is about.
CodeNow == IF Now.does = "code" THEN Now.at ELSE CodeOf[Now.at]

CapturesMissed ==
  IF Now.does = "function" /\ OtherCaptured(Now.at) THEN {"captured"} ELSE {}

FollowsMissed ==
  IF Now.at \in Mod /\ ~AllFollowed(Now.at, Now.names) THEN {"submodule"} ELSE {}

FunctionTasks(f) == <<Task("captures", f, <<1>>, <<>>)>>

\* The next captured value, and those after it; or the code.
CapturesTasks(f, i) ==
  IF i \in DOMAIN loaded.captures[f]
    THEN <<Task("global", loaded.captures[f][i], <<i>>, loaded.names[CodeOf[f]]),
           Task("captures", f, <<i + 1>>, <<>>)>>
    ELSE <<Task("code", CodeOf[f], <<>>, <<>>)>>

CodeTasks(c) ==
  [i \in DOMAIN Inner[c] |-> Task("code", Inner[c][i], <<>>, <<>>)]
    \o [i \in DOMAIN loaded.names[c] |->
          Task("global", loaded.bound[loaded.names[c][i]], <<loaded.names[c][i]>>, loaded.names[c])]

ModuleTasks(m, label, names) ==
  [i \in DOMAIN names |-> Task("module", Sub[m][names[i]], Append(label, names[i]), names)]

TextMissed(m) == IF source.text[m] # loaded.text[m] THEN {"edited"} ELSE {}

ClassTasks(k) ==
  [i \in DOMAIN loaded.methods[k] |-> Task("function", loaded.methods[k][i][2], <<>>, <<>>)]

BasesMissed(k) == IF Bases[k] = <<>> THEN {} ELSE {"base"}

-----------------------------------------------------------------------------
(* Two walks                                                               *)

\* One walk, of program p, that looks at all it comes to: what each step
\* makes of w.
FrameOf(p, o, label) ==
  CASE o \in Fn      -> <<<<"fn", label>>>>
    [] o \in Const   -> <<<<"value", label, o>>>>
    [] o \in Mutable -> <<<<"untracked", label, TypeOf[o]>>>>
    [] o \in Outside -> <<<<"global", label, <<"outside", p.version>>>>>>
    [] OTHER         -> <<>>

Mark(w, what) == <<<<Len(w.frames), what>>>>

CapturedIn(p, f) ==
  [i \in DOMAIN p.captures[f] |-> IF p.captures[f][i] \in Mutable
                                   THEN TypeOf[p.captures[f][i]] ELSE p.captures[f][i]]

\* What f captured is what every function of its code that was met captured.
KnownIn(p, w, f) ==
  LET met == {g \in w.met : CodeOf[g] = CodeOf[f]}
  IN  IF met = {} THEN p.captures[f] = <<>> ELSE \A g \in met : CapturedIn(p, g) = CapturedIn(p, f)

CapturesIn(p, f, i) ==
  IF i \in DOMAIN p.captures[f]
    THEN <<Task("global", p.captures[f][i], <<i>>, p.names[CodeOf[f]]),
           Task("captures", f, <<i + 1>>, <<>>)>>
    ELSE <<Task("code", CodeOf[f], <<>>, <<>>)>>

CodeIn(p, c) ==
  [i \in DOMAIN Inner[c] |-> Task("code", Inner[c][i], <<>>, <<>>)]
    \o [i \in DOMAIN p.names[c] |-> Task("global", p.bound[p.names[c][i]], <<p.names[c][i]>>, p.names[c])]

CodeFramesIn(p, c) == <<<<"C", c, p.body[c]>>, <<"names", p.names[c]>>, <<"const", p.literal[c]>>>>

ClassIn(p, k) == [i \in DOMAIN p.methods[k] |-> Task("function", p.methods[k][i][2], <<>>, <<>>)]

MethodNames(p, k) == [i \in DOMAIN p.methods[k] |-> p.methods[k][i][1]]

\* A set of modules that the names lead out of to nothing.
Follows(T, names) == \A x \in T : \A i \in DOMAIN names : Sub[x][names[i]] \in T \cup {Nothing}

\* A step that adds tasks, frames and notes.
Feeds(w, v, tasks, frames, notes) == Moves(w, v, tasks, {}, {}, frames, notes, {})

GlobalStep(p, w, v) ==
  LET t == w.todo[1]
  IN  Feeds(w, v, GlobalTasks(t.at, t.label, t.names), FrameOf(p, t.at, t.label),
            IF t.at \in Outside THEN Mark(w, <<"object", t.at>>) ELSE <<>>)

FunctionStep(p, w, v) ==
  LET f == w.todo[1].at
  IN  IF CodeOf[f] \in w.seen
        THEN KnownIn(p, w, f) /\ Feeds(w, v, <<>>, <<<<"cycle">>>>, Mark(w, <<"met", CodeOf[f]>>))
        ELSE Moves(w, v, <<Task("captures", f, <<1>>, <<>>)>>, {}, {f}, <<>>, <<>>, {})

CapturesStep(p, w, v) ==
  LET t == w.todo[1]
  IN  Feeds(w, v, CapturesIn(p, t.at, t.label[1]), <<>>, <<>>)

CodeStep(p, w, v) ==
  LET c == w.todo[1].at
  IN  IF c \in w.seen THEN Feeds(w, v, <<>>, <<<<"cycle">>>>, Mark(w, <<"met", c>>))
      ELSE Moves(w, v, CodeIn(p, c), {c}, {}, CodeFramesIn(p, c),
                 Mark(w, <<"signature", p.signature[c]>>), {})

ModuleStep(p, w, v) ==
  LET t == w.todo[1]
      m == t.at
  IN  IF m = Nothing THEN Feeds(w, v, <<>>, <<>>, <<>>)
      ELSE IF m \in w.seen
        THEN /\ \E T \in SUBSET (w.seen \cap Mod) : m \in T /\ Follows(T, t.names)
             /\ Feeds(w, v, <<>>, <<>>, Mark(w, <<"passed", t.label, m>>))
      ELSE Moves(w, v, ModuleTasks(m, t.label, t.names), {m}, {}, <<<<"m", t.label, m, p.text[m]>>>>, <<>>, {})

ClassStep(p, w, v) ==
  LET t == w.todo[1]
      k == t.at
  IN  IF k \in w.seen THEN Feeds(w, v, <<>>, <<>>, Mark(w, <<"passed", t.label, k>>))
      ELSE /\ Bases[k] = <<>>
           /\ Moves(w, v, ClassIn(p, k), {k}, {}, <<<<"cls", t.label, k>>>>,
                    Mark(w, <<"methods", MethodNames(p, k)>>), {})

Step(p, w, v) ==
  /\ w.todo # <<>>
  /\ w.todo[1].does = "global" => GlobalStep(p, w, v)
  /\ w.todo[1].does = "function" => FunctionStep(p, w, v)
  /\ w.todo[1].does = "captures" => CapturesStep(p, w, v)
  /\ w.todo[1].does = "code" => CodeStep(p, w, v)
  /\ w.todo[1].does = "module" => ModuleStep(p, w, v)
  /\ w.todo[1].does = "class" => ClassStep(p, w, v)

\* A walk of the program c.of, as it was after each of c.steps steps.
Course(c) ==
  /\ c.of \in Program /\ c.steps \in Nat /\ c.at[0] = NewWalk
  /\ \A k \in 0..c.steps : TypedWalk(c.at[k])
  /\ \A k \in 0..(c.steps - 1) : Step(c.of, c.at[k], c.at[k + 1])

\* How much was fed to the hasher after k steps, how much was noted, and all
\* of both.
Fed(c, k) == Len(c.at[k].frames)
Noted(c, k) == Len(c.at[k].unsaid)
Text(c) == c.at[c.steps].frames
Notes(c) == c.at[c.steps].unsaid

\* What a step fed comes right after what had been.
Grown(w, v, tasks, things, fns, frames, notes) ==
  /\ v.todo = tasks \o Tail(w.todo)
  /\ v.seen = w.seen \cup things /\ v.met = w.met \cup fns
  /\ Len(w.frames) \in Nat /\ Len(frames) \in Nat /\ Len(v.frames) = Len(w.frames) + Len(frames)
  /\ \A i \in 1..Len(w.frames) : v.frames[i] = w.frames[i]
  /\ \A i \in 1..Len(frames) : v.frames[Len(w.frames) + i] = frames[i]
  /\ Len(w.unsaid) \in Nat /\ Len(notes) \in Nat /\ Len(v.unsaid) = Len(w.unsaid) + Len(notes)
  /\ \A i \in 1..Len(w.unsaid) : v.unsaid[i] = w.unsaid[i]
  /\ \A i \in 1..Len(notes) : v.unsaid[Len(w.unsaid) + i] = notes[i]

\* What was fed and noted stays, and what is noted later comes later.
Lasts(c, k) ==
  /\ Fed(c, k) \in Nat /\ Len(Text(c)) \in Nat /\ Fed(c, k) <= Len(Text(c))
  /\ Noted(c, k) \in Nat /\ Len(Notes(c)) \in Nat /\ Noted(c, k) <= Len(Notes(c))
  /\ \A i \in 1..Fed(c, k) : Text(c)[i] = c.at[k].frames[i]
  /\ \A i \in 1..Noted(c, k) : Notes(c)[i] = c.at[k].unsaid[i]
  /\ \A i \in 1..Len(Notes(c)) : i > Noted(c, k) => Notes(c)[i][1] \in Nat /\ Notes(c)[i][1] >= Fed(c, k)

\* What is fed or noted next after k steps.
Said(c, k) ==
  IF Noted(c, k) < Len(Notes(c)) /\ Notes(c)[Noted(c, k) + 1][1] = Fed(c, k)
    THEN Notes(c)[Noted(c, k) + 1][2]
  ELSE IF Fed(c, k) < Len(Text(c)) THEN Text(c)[Fed(c, k) + 1]
  ELSE <<"end">>

\* What the next step does, and what it says.
Turned(c, k, tasks, things, fns, frames, notes) ==
  LET w == c.at[k]
      v == c.at[k + 1]
  IN  /\ v.todo = tasks \o Tail(w.todo) /\ v.seen = w.seen \cup things /\ v.met = w.met \cup fns
      /\ Fed(c, k) \in Nat /\ Len(frames) \in Nat /\ Fed(c, k + 1) = Fed(c, k) + Len(frames)
      /\ Noted(c, k) \in Nat /\ Noted(c, k + 1) = Noted(c, k) + (IF notes = <<>> THEN 0 ELSE 1)
      /\ \A i \in 1..Len(frames) : Text(c)[Fed(c, k) + i] = frames[i]
      /\ Fed(c, k + 1) <= Len(Text(c)) /\ Len(Text(c)) \in Nat
      /\ Said(c, k) = IF notes # <<>> THEN notes[1][2]
                      ELSE IF Len(frames) # 0 THEN frames[1]
                      ELSE Said(c, k + 1)
      /\ notes # <<>> => /\ Noted(c, k) + 1 \in 1..Len(Notes(c))
                         /\ Notes(c)[Noted(c, k) + 1] = notes[1]

-----------------------------------------------------------------------------
(* What is left to do                                                      *)

\* A submodule's task, behind its package's: of these come as many as the
\* code has names, to submodules or nothing.
Deep(t) == t.does = "module" /\ Len(t.label) > 1

\* A global is a name and what it is bound to, or a captured value, at its
\* place; a class, and a module that is no submodule, came from one that was
\* bound to it.
Sound(p, t) ==
  /\ t.does = "global" =>
       \/ \E y \in Name : t.label = <<y>> /\ t.at = p.bound[y]
       \/ \E i \in Nat : t.label = <<i>> /\ t.at \in Object
  /\ t.does = "module" => Len(t.label) \in Nat \ {0} /\ (Len(t.label) = 1 => t.at # Nothing)
  /\ t.does = "class" => Len(t.label) = 1
  /\ t.does \in {"module", "class"} => \A y \in Name : t.label = <<y>> => p.bound[y] # Nothing

\* Submodules' tasks are done before everything else.
Neat(p, todo) ==
  /\ \A a \in DOMAIN todo : Sound(p, todo[a])
  /\ \A a, b \in DOMAIN todo : a < b /\ Deep(todo[b]) => Deep(todo[a])

\* What a task adds: a submodule's comes behind a module's only.
AddsFine(p, t, s) ==
  /\ s \in Seq(Tasks)
  /\ \A a \in 1..Len(s) : Sound(p, s[a]) /\ (Deep(s[a]) <=> t.does = "module")

-----------------------------------------------------------------------------
(* What a step says                                                        *)

\* A step that says nothing.
Silent(c, k) == Said(c, k) = Said(c, k + 1) /\ Fed(c, k + 1) = Fed(c, k) /\ Noted(c, k + 1) = Noted(c, k)

\* A finished course.
Finished(c) == Course(c) /\ c.at[c.steps].todo = <<>>

\* By the first word that is said, one can tell what a global is.
ValueTag == {"fn", "value", "untracked", "object", "passed", "m", "methods"}

-----------------------------------------------------------------------------
(* Submodules: what is said of one bears a longer label                    *)

DeepVoice(x) == x[1] \in {"passed", "m"} /\ Len(x[2]) > 1

\* Nothing to do, or something that is not a submodule's.
Plain(todo) == todo = <<>> \/ ~Deep(todo[1])

-----------------------------------------------------------------------------
(* A name that is bound to nothing is not heard of.                        *)

FrameNames(x, y) == x[1] \in {"fn", "value", "untracked", "global", "cls", "m"} /\ x[2] = <<y>>

NoteNames(x, y) == x[2][1] = "passed" /\ x[2][2] = <<y>>

Uttered(T, N, y) ==
  \/ \E i \in 1..Len(T) : FrameNames(T[i], y)
  \/ \E i \in 1..Len(N) : NoteNames(N[i], y)

\* What is said of a name so far is said of one that is bound.
Bounded(c, k) ==
  \A y \in Name :
    \/ \E i \in 1..Fed(c, k) : FrameNames(Text(c)[i], y)
    \/ \E i \in 1..Noted(c, k) : NoteNames(Notes(c)[i], y)
    => c.of.bound[y] # Nothing

\* What a step feeds and notes that names y.
StepNames(c, k, y) ==
  \/ \E i \in (Fed(c, k) + 1)..Fed(c, k + 1) : FrameNames(Text(c)[i], y)
  \/ \E i \in (Noted(c, k) + 1)..Noted(c, k + 1) : NoteNames(Notes(c)[i], y)

-----------------------------------------------------------------------------
(* What two walks side by side have made sure of.  W are the pairs of tasks *)
(* they have still to do together.                                         *)

Held(W, D, o, o2) ==
  \E r \in W : r[1].does \in D /\ r[2].does \in D /\ r[1].at = o /\ r[2].at = o2

Sorts == {{"global"}, {"function"}, {"module", "class"}}

\* F: the pairs of functions they have met.
Akin(p, q, F, o, o2) ==
  \/ <<o, o2>> \in F
  \/ o = o2 /\ o \notin Fn /\ (o \in Outside => p.version = q.version)
  \/ o \in Mutable /\ o2 \in Mutable /\ TypeOf[o] = TypeOf[o2]

Pend(p, q, W, F, o, o2) == Akin(p, q, F, o, o2) \/ \E D \in Sorts : Held(W, D, o, o2)

\* A captured value of both.
Alike(p, q, W, F, f, g, n) ==
  /\ n \in DOMAIN p.captures[f] /\ n \in DOMAIN q.captures[g]
  /\ Pend(p, q, W, F, p.captures[f][n], q.captures[g][n])

Capturing(p, q, W, F, f, g) ==
  \E r \in W, i \in Nat \ {0} :
    /\ r[1].does = "captures" /\ r[2].does = "captures" /\ r[1].at = f /\ r[2].at = g
    /\ r[1].label = <<i>> /\ r[2].label = <<i>>
    /\ \A n \in 1..(i - 1) : Alike(p, q, W, F, f, g, n)

HaveCaptured(p, q, S, W, F, f, g) ==
  /\ DOMAIN p.captures[f] = DOMAIN q.captures[g]
  /\ \A n \in DOMAIN p.captures[f] : Alike(p, q, W, F, f, g, n)
  /\ Held(W, {"code"}, CodeOf[f], CodeOf[g]) \/ (CodeOf[f] = CodeOf[g] /\ CodeOf[f] \in S)

MetWell(p, q, S, W, F, f, g) ==
  Capturing(p, q, W, F, f, g) \/ HaveCaptured(p, q, S, W, F, f, g)

\* What f captured is what the functions of M did that have its code.
KnownAmong(p, M, f) ==
  LET met == {g \in M : CodeOf[g] = CodeOf[f]}
  IN  IF met = {} THEN p.captures[f] = <<>> ELSE \A g \in met : CapturedIn(p, g) = CapturedIn(p, f)

\* A pair whose code both had met; G: the pairs that were looked at.
Skipped(p, q, S, G, f, g) ==
  /\ CodeOf[f] = CodeOf[g] /\ CodeOf[f] \in S
  /\ \E E \in SUBSET G : KnownAmong(p, {z[1] : z \in E}, f) /\ KnownAmong(q, {z[2] : z \in E}, g)

SeenWell(p, q, W, F, x) ==
  /\ Own(p, x) = Own(q, x)
  /\ x \in Code => \A n \in DOMAIN p.names[x] :
                     Pend(p, q, W, F, p.bound[p.names[x][n]], q.bound[p.names[x][n]])
  /\ x \in Cls => /\ Bases[x] = <<>>
                  /\ \A n \in DOMAIN p.methods[x] :
                       Pend(p, q, W, F, p.methods[x][n][2], q.methods[x][n][2])

Kept(p, q, S, W, F, G) ==
  /\ G \subseteq F /\ F \subseteq Fn \X Fn
  /\ Pend(p, q, W, F, Root, Root)
  /\ \A z \in G : MetWell(p, q, S, W, F, z[1], z[2])
  /\ \A z \in F \ G : Skipped(p, q, S, G, z[1], z[2])
  /\ \A x \in S : SeenWell(p, q, W, F, x)

\* What doing t and u together makes of them.
DoesBoth(p, q, S, W, F, t, u) ==
  /\ \A D \in Sorts : t.does \in D /\ u.does \in D => Pend(p, q, W, F, t.at, u.at)
  /\ t.does = "code" /\ u.does = "code" => t.at = u.at /\ t.at \in S
  /\ \A i \in Nat \ {0} :
       /\ t.does = "captures" /\ u.does = "captures" /\ t.label = <<i>> /\ u.label = <<i>>
       /\ \A n \in 1..(i - 1) : Alike(p, q, W, F, t.at, u.at, n)
       => MetWell(p, q, S, W, F, t.at, u.at)

-----------------------------------------------------------------------------
(* Two walks side by side                                                  *)

\* What is left of s behind submodules' tasks.
Shallow(s, x) ==
  /\ x \in Seq(Tasks)
  /\ \E i \in Nat :
       /\ Len(s) = i + Len(x) /\ \A a \in 1..i : Deep(s[a])
       /\ \A a \in 1..Len(x) : s[i + a] = x[a] /\ ~Deep(x[a])

\* What the text cannot tell of two tasks at one place.
Like(t, u) ==
  /\ t.label = u.label
  /\ t.does = u.does \/ (t.does \in {"module", "class"} /\ u.does \in {"module", "class"})

Alikes(x, y) == Len(x) = Len(y) /\ \A a \in 1..Len(x) : Like(x[a], y[a])

Twos(x, y) == {<<x[a], y[a]>> : a \in 1..Len(x)}

Shallows(a) == \A n \in 1..Len(a) : ~Deep(a[n])
Deeps(a) == \A n \in 1..Len(a) : Deep(a[n])

\* Two walks that have fed and noted as much, and have the same to do: they
\* have looked at the same, and at the same pairs of functions, G.
Beside(c, d, k, l, x, y, F, G) ==
  /\ Fed(c, k) = Fed(d, l) /\ Noted(c, k) = Noted(d, l) /\ c.at[k].seen = d.at[l].seen
  /\ Shallow(c.at[k].todo, x) /\ Shallow(d.at[l].todo, y) /\ Alikes(x, y)
  /\ c.at[k].met = {z[1] : z \in G} /\ d.at[l].met = {z[2] : z \in G}
  /\ Kept(c.of, d.of, c.at[k].seen, Twos(x, y), F, G)

Abreast(c, d, k, l) ==
  \E x, y, F, G : x \in Seq(Tasks) /\ y \in Seq(Tasks) /\ Beside(c, d, k, l, x, y, F, G)

\* Two finished courses that nothing in what was recorded tells apart.
Twins(c, d) == Finished(c) /\ Finished(d) /\ Text(c) = Text(d) /\ Notes(c) = Notes(d)

Sees(c, k, things) == c.at[k + 1].seen = c.at[k].seen \cup things

Meets(c, k, fns) == c.at[k + 1].met = c.at[k].met \cup fns

\* A submodule's task: what it adds are submodules' tasks.
DeepTurn(c, k, x) ==
  LET w == c.at[k]
      v == c.at[k + 1]
      m == w.todo[1].at
  IN  /\ Shallow(v.todo, x) /\ v.met = w.met
      /\ m = Nothing => Silent(c, k) /\ v.seen = w.seen
      /\ m # Nothing /\ m \in w.seen =>
           /\ Said(c, k) = <<"passed", w.todo[1].label, m>>
           /\ v.seen = w.seen /\ Fed(c, k + 1) = Fed(c, k) /\ Noted(c, k + 1) = Noted(c, k) + 1
      /\ m # Nothing /\ m \notin w.seen =>
           /\ Said(c, k) = <<"m", w.todo[1].label, m, c.of.text[m]>> /\ m \in Mod
           /\ v.seen = w.seen \cup {m}
           /\ Fed(c, k + 1) = Fed(c, k) + 1 /\ Noted(c, k + 1) = Noted(c, k)

\* Side by side, with no submodule's task to do first.
Level(c, d, k, l, F, G) ==
  /\ Twins(c, d) /\ k \in 0..(c.steps - 1) /\ l \in 0..(d.steps - 1)
  /\ Shallows(c.at[k].todo) /\ Shallows(d.at[l].todo)
  /\ Beside(c, d, k, l, c.at[k].todo, d.at[l].todo, F, G)

\* What both are at.
Heads(c, d, k, l) ==
  LET t == c.at[k].todo[1]
      u == d.at[l].todo[1]
  IN  /\ Finished(c) /\ Finished(d) /\ Course(c) /\ Course(d) /\ c.of \in Program /\ d.of \in Program
      /\ k \in 0..(c.steps - 1) /\ l \in 0..(d.steps - 1)
      /\ c.at[k].todo # <<>> /\ c.at[k].todo \in Seq(Tasks) /\ t \in Tasks
      /\ d.at[l].todo # <<>> /\ d.at[l].todo \in Seq(Tasks) /\ u \in Tasks
      /\ Like(t, u) /\ ~Deep(t) /\ ~Deep(u) /\ Sound(c.of, t) /\ Sound(d.of, u)
      /\ Said(c, k) = Said(d, l) /\ Text(c) = Text(d) /\ Notes(c) = Notes(d)
      /\ Fed(c, k) = Fed(d, l) /\ Noted(c, k) = Noted(d, l) /\ c.at[k].seen = d.at[l].seen
      /\ c.at[k].seen \subseteq Code \cup Cls \cup Mod

\* What is left to do together, when the two at hand are done.
Grows(c, d, k, l, x, y) ==
  /\ x \in Seq(Tasks) /\ y \in Seq(Tasks) /\ Alikes(x, y)
  /\ Shallow(c.at[k + 1].todo, x) /\ Shallow(d.at[l + 1].todo, y)
  /\ Twos(c.at[k].todo, d.at[l].todo) \subseteq Twos(x, y) \cup {<<c.at[k].todo[1], d.at[l].todo[1]>>}

\* What each adds, one as the other.
AddsBoth(c, d, k, l, a, b) ==
  /\ a \in Seq(Tasks) /\ b \in Seq(Tasks) /\ Alikes(a, b) /\ Shallows(a) /\ Shallows(b)
  /\ c.at[k + 1].todo = a \o Tail(c.at[k].todo) /\ d.at[l + 1].todo = b \o Tail(d.at[l].todo)

\* Both have fed and noted as much again, and seen the same.
Evenly(c, d, k, l) ==
  /\ Fed(c, k) = Fed(d, l) /\ Noted(c, k) = Noted(d, l) /\ c.at[k].seen = d.at[l].seen

\* With the pairs F2 met, G2 of them looked at.
Ready(c, d, k, l, x, y, F, G, F2, G2) ==
  LET S == c.at[k + 1].seen
  IN  /\ c.at[k].seen \subseteq S
      /\ F \subseteq F2 /\ G \subseteq G2 /\ G2 \subseteq F2 /\ F2 \subseteq Fn \X Fn
      /\ c.at[k + 1].met = {z[1] : z \in G2} /\ d.at[l + 1].met = {z[2] : z \in G2}
      /\ DoesBoth(c.of, d.of, S, Twos(x, y), F2, c.at[k].todo[1], d.at[l].todo[1])
      /\ \A z \in G2 \ G : MetWell(c.of, d.of, S, Twos(x, y), F2, z[1], z[2])
      /\ \A z \in F2 \ (F \cup G2) : Skipped(c.of, d.of, S, G2, z[1], z[2])
      /\ \A o \in S \ c.at[k].seen : SeenWell(c.of, d.of, Twos(x, y), F2, o)

-----------------------------------------------------------------------------
(* Two globals                                                             *)

Leaves(c, k, s) == c.at[k + 1].todo = s \o Tail(c.at[k].todo)

\* What a global's step feeds and notes, by what it is.
GlobalFeeds(c, k, o, label, names) ==
  /\ c.at[k + 1].todo = GlobalTasks(o, label, names) \o Tail(c.at[k].todo)
  /\ c.at[k + 1].seen = c.at[k].seen /\ c.at[k + 1].met = c.at[k].met
  /\ o \in Fn \cup Const \cup Mutable => Fed(c, k + 1) = Fed(c, k) + 1 /\ Noted(c, k + 1) = Noted(c, k)
  /\ o \in Outside => /\ Fed(c, k + 1) = Fed(c, k) + 1 /\ Noted(c, k + 1) = Noted(c, k) + 1
                      /\ Text(c)[Fed(c, k) + 1] = <<"global", label, <<"outside", c.of.version>>>>
  /\ o \in Mod \cup Cls \cup {Nothing} => Fed(c, k + 1) = Fed(c, k) /\ Noted(c, k + 1) = Noted(c, k)

\* Two that the text does not tell apart.
SameGlobal(o, o2) ==
  \/ o \in Fn /\ o2 \in Fn
  \/ o \in Mod \cup Cls /\ o2 \in Mod \cup Cls
  \/ o \in Const /\ o2 = o
  \/ o \in Mutable /\ o2 \in Mutable /\ TypeOf[o] = TypeOf[o2]
  \/ o \in Outside /\ o2 = o
  \/ o = Nothing /\ o2 = Nothing

-----------------------------------------------------------------------------
(* Two functions, and what they captured                                   *)

FunctionFeeds(c, k, f) ==
  /\ c.at[k + 1].seen = c.at[k].seen
  /\ CodeOf[f] \in c.at[k].seen =>
       /\ KnownIn(c.of, c.at[k], f) /\ Leaves(c, k, <<>>) /\ c.at[k + 1].met = c.at[k].met
       /\ Fed(c, k + 1) = Fed(c, k) + 1 /\ Noted(c, k + 1) = Noted(c, k) + 1
  /\ CodeOf[f] \notin c.at[k].seen =>
       /\ Leaves(c, k, FunctionTasks(f)) /\ c.at[k + 1].met = c.at[k].met \cup {f}
       /\ Fed(c, k + 1) = Fed(c, k) /\ Noted(c, k + 1) = Noted(c, k)

\* Both have the same code, if one of the codes was walked.
SameCode(c, d, k, l) ==
  LET f == c.at[k].todo[1].at
      g == d.at[l].todo[1].at
      S == c.at[k].seen
  IN  /\ d.at[l].todo[1].does = "function" /\ f \in Fn /\ g \in Fn
      /\ CodeOf[f] \in S => CodeOf[g] = CodeOf[f]
      /\ CodeOf[g] \in S => CodeOf[g] = CodeOf[f]

CapturesFeed(c, k, f, i) ==
  /\ Leaves(c, k, CapturesIn(c.of, f, i))
  /\ c.at[k + 1].seen = c.at[k].seen /\ c.at[k + 1].met = c.at[k].met
  /\ Fed(c, k + 1) = Fed(c, k) /\ Noted(c, k + 1) = Noted(c, k)

\* Both have another captured value, or neither.
AsMany(c, d, k, l, i) ==
  i \in DOMAIN c.of.captures[c.at[k].todo[1].at] <=> i \in DOMAIN d.of.captures[d.at[l].todo[1].at]

-----------------------------------------------------------------------------
(* Two code objects                                                        *)

CodeFeed(c, k, x) ==
  /\ c.at[k + 1].met = c.at[k].met /\ Noted(c, k + 1) = Noted(c, k) + 1
  /\ x \in c.at[k].seen =>
       Leaves(c, k, <<>>) /\ c.at[k + 1].seen = c.at[k].seen /\ Fed(c, k + 1) = Fed(c, k) + 1
  /\ x \notin c.at[k].seen =>
       /\ Leaves(c, k, CodeIn(c.of, x)) /\ c.at[k + 1].seen = c.at[k].seen \cup {x}
       /\ Fed(c, k + 1) = Fed(c, k) + 3
       /\ Text(c)[Fed(c, k) + 1] = <<"C", x, c.of.body[x]>>
       /\ Text(c)[Fed(c, k) + 2] = <<"names", c.of.names[x]>>
       /\ Text(c)[Fed(c, k) + 3] = <<"const", c.of.literal[x]>>

FedThen(c, k, frames) ==
  /\ Fed(c, k + 1) = Fed(c, k) + Len(frames)
  /\ \A i \in 1..Len(frames) : Text(c)[Fed(c, k) + i] = frames[i]

\* Both were walked, and are the same; or neither was.
SameCodes(c, d, k, l) ==
  LET x == c.at[k].todo[1].at
      y == d.at[l].todo[1].at
      S == c.at[k].seen
  IN  /\ d.at[l].todo[1].does = "code" /\ x \in Code /\ y \in Code
      /\ x \in S => y = x
      /\ x \notin S => y \notin S /\ d.of.signature[y] = c.of.signature[x]

-----------------------------------------------------------------------------
(* Two modules, or classes                                                 *)

ThingFeed(c, k, t, o) ==
  /\ c.at[k + 1].met = c.at[k].met /\ o \in Mod \cup Cls
  /\ o \in c.at[k].seen =>
       /\ Leaves(c, k, <<>>) /\ c.at[k + 1].seen = c.at[k].seen
       /\ Fed(c, k + 1) = Fed(c, k) /\ Noted(c, k + 1) = Noted(c, k) + 1
       /\ Said(c, k) = <<"passed", t.label, o>>
  /\ o \notin c.at[k].seen =>
       c.at[k + 1].seen = c.at[k].seen \cup {o} /\ Fed(c, k + 1) = Fed(c, k) + 1
  /\ o \notin c.at[k].seen /\ t.does = "module" =>
       /\ Leaves(c, k, ModuleTasks(o, t.label, t.names)) /\ Noted(c, k + 1) = Noted(c, k)
       /\ o \in Mod /\ Said(c, k) = <<"m", t.label, o, c.of.text[o]>>
  /\ o \notin c.at[k].seen /\ t.does = "class" =>
       /\ Leaves(c, k, ClassIn(c.of, o)) /\ Noted(c, k + 1) = Noted(c, k) + 1
       /\ o \in Cls /\ Bases[o] = <<>>
       /\ Said(c, k) = <<"methods", MethodNames(c.of, o)>>
       /\ Text(c)[Fed(c, k) + 1] = <<"cls", t.label, o>>

\* Both are the same, and passed over or not.
SameThings(c, d, k, l) ==
  LET t == c.at[k].todo[1]
      u == d.at[l].todo[1]
      S == c.at[k].seen
  IN  /\ ThingFeed(c, k, t, t.at) /\ ThingFeed(d, l, u, u.at) /\ u.at = t.at
      /\ t.does \in {"module", "class"} /\ u.does \in {"module", "class"}
      /\ t.at \notin S => u.does = t.does
      /\ t.at \notin S /\ t.does = "module" => d.of.text[t.at] = c.of.text[t.at]
      /\ t.at \notin S /\ t.does = "class" => MethodNames(d.of, t.at) = MethodNames(c.of, t.at)

-----------------------------------------------------------------------------
(* To the end                                                              *)

\* The steps that are left to both.
Left(c, d, k, l) == (c.steps - k) + (d.steps - l)

-----------------------------------------------------------------------------
(* What two programs reach on the same way                                 *)

Both(p, q, z) ==
  {<<Kin(p, z[1])[i], Kin(q, z[2])[i]>> : i \in DOMAIN Kin(p, z[1]) \cap DOMAIN Kin(q, z[2])}

\* The rounds in which Together goes on from what was new in the last.
FirstPairs == {<<<<Root, <<>>>>, <<Root, <<>>>>>>}
Newly(p, q, r) == (UNION {Both(p, q, z) : z \in r.new}) \ r.all
More(p, q, r) == [all |-> r.all \cup Newly(p, q, r), new |-> Newly(p, q, r)]

Rounds(p, q, R) ==
  /\ R[0].all = FirstPairs /\ R[0].new = FirstPairs
  /\ \A k \in 1..Longest : R[k].new = Newly(p, q, R[k - 1]) /\ R[k].all = R[k - 1].all \cup R[k].new
  /\ Together(p, q) = R[Longest].all

-----------------------------------------------------------------------------
(* When nothing is left to do together                                     *)

\* Two functions with the same code, and captured values that are akin.
Paired(p, q, S, F, f, g) ==
  /\ f \in Fn /\ g \in Fn /\ CodeOf[f] = CodeOf[g] /\ CodeOf[f] \in S
  /\ DOMAIN p.captures[f] = DOMAIN q.captures[g]
  /\ \A n \in DOMAIN p.captures[f] : Akin(p, q, F, p.captures[f][n], q.captures[g][n])

\* What two captured values are that are told apart only when not mutable,
\* or by their types.
Same(o, o2) == o = o2 \/ (o \in Mutable /\ o2 \in Mutable /\ TypeOf[o] = TypeOf[o2])

\* Two things at the same place, that were looked at.
Mated(p, q, S, F, x, y) ==
  /\ x \in Pair /\ y \in Pair /\ x[2] = y[2]
  /\ Akin(p, q, F, x[1], y[1])
  /\ y[1] \in Code \cup Cls \cup Mod => y[1] \in S

\* What two such things refer to at the same place.
KinAkin(p, q, F, x, y, i) ==
  /\ Kin(p, x)[i][2] = Kin(q, y)[i][2]
  /\ Akin(p, q, F, Kin(p, x)[i][1], Kin(q, y)[i][1])

-----------------------------------------------------------------------------
(* A hit is current                                                        *)

\* A course of program p that comes to w.
Leads(c, p, w) == Course(c) /\ c.of = p /\ c.at[c.steps] = w

\* A finished one that told what is in the record.
Told(c, r) == Finished(c) /\ c.of = r.of /\ Text(c) = r.frames /\ Notes(c) = r.unsaid

\* Every walk that looked at all it came to is one, and every record is of one.
Coursed ==
  /\ phase \in {"walking", "answered"} /\ walk.blind = {} => \E c : Leads(c, loaded, walk)
  /\ \A r \in records : r.blind = {} => \E c : Told(c, r)
  /\ IsHit => answer.of \in records /\ answer.of.frames = walk.frames

-----------------------------------------------------------------------------
(* Together is closed                                                      *)

\* What Own tells of a thing.
OwnIs(p, o, r) ==
  /\ o \in Fn => Len(r) = 2 /\ r[1] = CodeOf[o] /\ r[2] = Len(p.captures[o])
  /\ o \in Code => Len(r) = 5 /\ r[1] = o /\ r[2] = p.body[o] /\ r[3] = p.literal[o] /\ r[5] = p.names[o]
  /\ o \in Cls => Len(r) = 2 /\ r[1] = o /\ r[2] = MethodNames(p, o)
  /\ o \in Mod => Len(r) = 2 /\ r[1] = o /\ r[2] = p.text[o]
  /\ o \in Outside => Len(r) = 2 /\ r[1] = o /\ r[2] = p.version
  /\ o \in Mutable => Len(r) = 1 /\ r[1] = TypeOf[o]
  /\ o \in Const \cup {Nothing} => Len(r) = 1 /\ r[1] = o

\* Two things that are the same but for what they refer to.
SameOwn(p, q, o, o2) ==
  /\ o \in Fn => o2 \in Fn /\ CodeOf[o] = CodeOf[o2] /\ Len(p.captures[o]) = Len(q.captures[o2])
  /\ o \in Mutable => o2 \in Mutable /\ TypeOf[o] = TypeOf[o2]
  /\ o \notin Fn \cup Mutable => o2 = o
  /\ o \in Code => p.body[o] = q.body[o] /\ p.literal[o] = q.literal[o] /\ p.names[o] = q.names[o]
  /\ o \in Cls => MethodNames(p, o) = MethodNames(q, o)
  /\ o \in Mod => p.text[o] = q.text[o]
  /\ o \in Outside => p.version = q.version

\* A pair of functions, or what both are, is met for the first time once.
KeyOf(z) == IF z[1][1] \in Fn THEN <<z[1][1], z[2][1]>> ELSE <<z[1][1], Nothing>>
Keys == (Fn \X Fn) \cup ((Code \cup Cls \cup Mod) \X {Nothing})

\* A way to a pair: from each round one that is new, and each what the one
\* before it refers to.
IsWay(p, q, R, n, s) ==
  /\ \A j \in 0..n : s[j] \in R[j].new
  /\ \A j \in 0..(n - 1) : s[j + 1] \in Both(p, q, s[j])

-----------------------------------------------------------------------------
(* Two walks of one definition                                             *)

\* What a step of a walk of program p does, whatever it leaves out.
Steps(w, v, tasks, things, frames) ==
  v.todo = tasks \o Tail(w.todo) /\ v.seen = w.seen \cup things /\ v.frames = w.frames \o frames

FunctionTurn(p, w, v, t) ==
  IF CodeOf[t.at] \in w.seen THEN Steps(w, v, <<>>, {}, <<<<"cycle">>>>)
  ELSE Steps(w, v, FunctionTasks(t.at), {}, <<>>)

CodeTurn(p, w, v, t) ==
  IF t.at \in w.seen THEN Steps(w, v, <<>>, {}, <<<<"cycle">>>>)
  ELSE Steps(w, v, CodeIn(p, t.at), {t.at}, CodeFramesIn(p, t.at))

ModuleTurn(p, w, v, t) ==
  IF t.at = Nothing \/ t.at \in w.seen THEN Steps(w, v, <<>>, {}, <<>>)
  ELSE Steps(w, v, ModuleTasks(t.at, t.label, t.names), {t.at}, <<<<"m", t.label, t.at, p.text[t.at]>>>>)

ClassTurn(p, w, v, t) ==
  IF t.at \in w.seen THEN Steps(w, v, <<>>, {}, <<>>)
  ELSE Steps(w, v, ClassIn(p, t.at), {t.at}, <<<<"cls", t.label, t.at>>>>)

TurnOf(p, w, v, t) ==
  /\ t.does = "global" =>
       Steps(w, v, GlobalTasks(t.at, t.label, t.names), {}, FrameOf(p, t.at, t.label))
  /\ t.does = "function" => FunctionTurn(p, w, v, t)
  /\ t.does = "captures" => Steps(w, v, CapturesIn(p, t.at, t.label[1]), {}, <<>>)
  /\ t.does = "code" => CodeTurn(p, w, v, t)
  /\ t.does = "module" => ModuleTurn(p, w, v, t)
  /\ t.does = "class" => ClassTurn(p, w, v, t)

Turn(p, w, v) == w.todo # <<>> /\ TurnOf(p, w, v, w.todo[1])

\* Two tasks of walks of two programs: the same, of things that both reach on
\* the same way.
Peer(T, t, u) ==
  /\ t.does = u.does /\ t.label = u.label /\ t.names = u.names
  /\ IF t.does = "captures" THEN \E ns : <<<<t.at, ns>>, <<u.at, ns>>>> \in T
     ELSE <<<<t.at, t.names>>, <<u.at, u.names>>>> \in T

Peers(T, a, b) ==
  a \in Seq(Tasks) /\ b \in Seq(Tasks) /\ Len(a) = Len(b) /\ \A i \in 1..Len(a) : Peer(T, a[i], b[i])

\* Walks that have fed the same, seen the same, and are about to go on alike.
InStep(T, w, v) == Peers(T, w.todo, v.todo) /\ w.seen = v.seen /\ w.frames = v.frames

\* T is what two programs that are one definition reach on the same way.
Ones(p, q, T) == p \in Program /\ q \in Program /\ SameDefinition(p, q) /\ T = Together(p, q)

-----------------------------------------------------------------------------
(* The same definition has the same hash                                   *)

\* The turns of a walk of a program, from the first.
Trail(c) ==
  /\ c.of \in Program /\ c.steps \in Nat /\ c.at[0] = NewWalk
  /\ \A k \in 0..c.steps : TypedWalk(c.at[k])
  /\ \A k \in 0..(c.steps - 1) : Turn(c.of, c.at[k], c.at[k + 1])

TrailTo(c, p, w) == Trail(c) /\ c.of = p /\ c.at[c.steps] = w

\* To the end of the walk of a record.
TrailOf(c, r) == Trail(c) /\ c.of = r.of /\ c.at[c.steps].todo = <<>> /\ c.at[c.steps].frames = r.frames

\* Every walk that read the modules this process had loaded is one, and every
\* record of such a walk.
Trailed ==
  /\ phase \in {"walking", "answered"} /\ "edited" \notin walk.blind => \E c : TrailTo(c, loaded, walk)
  /\ \A r \in records : "edited" \notin r.blind => \E c : TrailOf(c, r)

=============================================================================
