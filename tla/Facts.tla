-------------------------------- MODULE Facts --------------------------------
(***************************************************************************)
(* recording.py and the matching of pure.py: what a call has read of an    *)
(* ImmutableMap argument, as facts, and when those facts hold of another.  *)
(*                                                                         *)
(* A value is a tree: the function that gives, for each path that leads    *)
(* somewhere in it, Branch if a map is there and the value if a leaf is.   *)
(* The digest of a value is the value.  Where nothing is, the tree is      *)
(* NoTree.  A read m[k1][k2]... is one read of the path <<k1, k2, ...>>.   *)
(***************************************************************************)
EXTENDS Naturals, Sequences, SequencesExt

CONSTANTS
  Key,     \* the keys of maps
  Path,    \* the paths a value may have, as sequences of keys
  Tree,    \* the values that may be passed
  Branch   \* what marks a map

NoTree == << >>

ASSUME FactsAssumption ==
  /\ << >> \in Path /\ Path \subseteq Seq(Key)
  /\ \A p \in Path : \A n \in 0 .. Len(p) :
       SubSeq(p, 1, n) \in Path /\ SubSeq(p, n + 1, Len(p)) \in Path
  /\ \A t \in Tree :
       /\ t = [p \in DOMAIN t |-> t[p]]
       /\ << >> \in DOMAIN t /\ DOMAIN t \subseteq Path
       /\ \A p \in DOMAIN t : \A n \in 0 .. Len(p) - 1 :
            SubSeq(p, 1, n) \in DOMAIN t /\ t[SubSeq(p, 1, n)] = Branch

\* What is at p in t.
Node(t, p) == [q \in {q \in Path : p \o q \in DOMAIN t} |-> t[p \o q]]

IsMap(t) == t # NoTree /\ t[<< >>] = Branch

ASSUME PartsAssumption == \A t \in Tree : \A p \in DOMAIN t : Node(t, p) \in Tree

----------------------------------------------------------------------------
(* Facts, and what holds of a value.  "map" is never recorded; it is what  *)
(* a call learns that is given a map and does not look into it.            *)

Dep == {"present", "absent", "value", "whole", "map"}

Fact(p, dep, what) == [path |-> p, dep |-> dep, what |-> what]

AnyFact == [path : Seq(Key), dep : Dep, what : Tree \cup {NoTree}]

Rank(dep) == CASE dep = "whole" -> 2 [] dep = "value" -> 1 [] OTHER -> 0

\* _match_map, one entry.
HoldsOf(f, t) ==
  LET n == Node(t, f.path) IN
    CASE f.dep = "present" -> n # NoTree
      [] f.dep = "absent"  -> n = NoTree /\ IsMap(Node(t, Front(f.path)))
      [] f.dep = "value"   -> n = f.what /\ ~ IsMap(n)
      [] f.dep = "whole"   -> n = f.what /\ IsMap(n)
      [] f.dep = "map"     -> IsMap(n)

AllHold(F, t) == \A f \in F : HoldsOf(f, t)

----------------------------------------------------------------------------
(* RecordingMap: what a read records.                                      *)

\* The keys a walk along p gets to ask for.
Asked(t, p) ==
  {q \in {SubSeq(p, 1, n) : n \in 1 .. Len(p)} : IsMap(Node(t, Front(q)))}

\* k in m.
Presence(t, q) ==
  Fact(q, IF Node(t, q) = NoTree THEN "absent" ELSE "present", NoTree)

\* m[k]: a sub-map is not recorded, only what is read in it.
Item(t, q) ==
  IF Node(t, q) = NoTree THEN {Presence(t, q)}
  ELSE IF IsMap(Node(t, q)) THEN {}
  ELSE {Fact(q, "value", Node(t, q))}

\* MUTANT: a key that is not there is not recorded.
GetRecordsHits(t, p) ==
  UNION {Item(t, q) : q \in {q \in Asked(t, p) : Node(t, q) # NoTree}}

Get(t, p) == UNION {Item(t, q) : q \in Asked(t, p)}

HasKey(t, p) ==
  Get(t, Front(p)) \cup {Presence(t, q) : q \in Asked(t, p) \cap {p}}

\* Anything that looks at all of a map.
Whole(t, p) ==
  Get(t, p) \cup
    (IF IsMap(Node(t, p)) THEN {Fact(p, "whole", Node(t, p))} ELSE {})

\* _navigate: k in m, then m[k], for each key.
Navigate(t, p) == Get(t, p) \cup {Presence(t, q) : q \in Asked(t, p)}

\* What matching a recorded fact reads.  map_digest is no observation.
Matching(f, t) ==
  IF f.dep = "absent"
    THEN Navigate(t, Front(f.path))
           \cup {Presence(t, q) : q \in Asked(t, f.path) \cap {f.path}}
    ELSE Navigate(t, f.path)

\* What matching a record reads before it fails: the entries are tried the
\* shortest path first.  BOUND: those that fail at one length are all tried,
\* the ones that hold before them only if shorter; a call that reads the same
\* keys given the same values reads those in any case.
Tried(F, t) ==
  LET bad == {f \in F : ~ HoldsOf(f, t)}
      upto == {f \in F : \A g \in bad : Len(f.path) < Len(g.path)}
                \cup {f \in bad : \A g \in bad : Len(f.path) <= Len(g.path)}
  IN  UNION {Matching(f, t) : f \in upto}

----------------------------------------------------------------------------
(* Recorder.                                                               *)

\* _put: one fact for a path, the strongest.
Put(F, G) ==
  {f \in F \cup G :
     \A g \in F \cup G : g.path = f.path => Rank(g.dep) <= Rank(f.dep)}

\* finalize: a whole map shadows what is below it.
Finalize(F) ==
  {f \in F :
     \A g \in F : g.dep = "whole" => ~ IsStrictPrefix(g.path, f.path)}

\* MUTANT: a watcher's own path is forgotten.
AtNoPath(p, F) == F

\* What a read recorded inside a map is to a watcher that has it at p.
At(p, F) == {Fact(p \o f.path, f.dep, f.what) : f \in F}

=============================================================================
