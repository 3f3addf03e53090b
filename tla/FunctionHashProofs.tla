------------------------- MODULE FunctionHashProofs -------------------------
(***************************************************************************)
(* What holds of FunctionHash for any program, edits and processes.        *)
(*                                                                         *)
(* That no breakpoint is passed over is a statement about everything       *)
(* reached from the function, however long the way to it, while the walk   *)
(* knows only what it has seen.  What is kept is that what it has looked   *)
(* at is closed but for what is still to do: a thing that is looked at     *)
(* refers to things that are, or that wait for it.  When nothing waits,    *)
(* the closed set holds all that is reached.                               *)
(*                                                                         *)
(* That a hit is current is a statement about two walks, of two programs   *)
(* and in two processes.  The walk of the record and this one are followed *)
(* side by side, wherever they have fed and noted equally much: what is    *)
(* kept is that there they have seen the same things, and have the same    *)
(* left to do, task by task, but for tasks of submodules.  What both       *)
(* programs reach on the same way is then among what was looked at in      *)
(* both.                                                                   *)
(*                                                                         *)
(* That the same definition hits is the converse: Together is closed,      *)
(* since a way on which all is the same and nothing comes twice is no      *)
(* longer than Longest, and walks of one definition go in step through it. *)
(***************************************************************************)
EXTENDS FunctionHashWalks, FiniteSetTheorems, WellFoundedInduction, TLAPS

-----------------------------------------------------------------------------
(* Sequences and pairs                                                     *)

LEMMA SeqFrom ==
  ASSUME NEW S, NEW n \in Nat, NEW f \in [1..n -> S]
  PROVE  f \in Seq(S) /\ Len(f) = n /\ DOMAIN f = 1..n
OBVIOUS

LEMMA SeqsJoin ==
  /\ IsSeq(<<>>) /\ \A x : IsSeq(<<x>>)
  /\ \A S : \A s \in Seq(S) : IsSeq(s)
  /\ \A s : IsSeq(s) => s \o <<>> = s /\ Len(s) \in Nat /\ DOMAIN s = 1..Len(s)
  /\ \A s, t : IsSeq(s) /\ IsSeq(t) =>
       /\ IsSeq(s \o t) /\ Len(s \o t) = Len(s) + Len(t)
       /\ \A i \in 1..Len(s) : (s \o t)[i] = s[i]
       /\ \A i \in 1..Len(t) : (s \o t)[Len(s) + i] = t[i]
<1>1. ASSUME NEW S, NEW s \in Seq(S) PROVE IsSeq(s)
  <2>1. s \in [1..Len(s) -> Elements(s)] /\ Len(s) \in Nat BY DEF Elements
  <2> QED BY <2>1, SeqFrom DEF IsSeq
<1>2. IsSeq(<<>>) BY DEF IsSeq
<1>3. ASSUME NEW x PROVE IsSeq(<<x>>)
  <2>1. <<x>> \in Seq({x}) OBVIOUS
  <2> QED BY <1>1, <2>1
<1>4. \A s : IsSeq(s) => s \o <<>> = s /\ Len(s) \in Nat /\ DOMAIN s = 1..Len(s) BY DEF IsSeq
<1>5. ASSUME NEW s, NEW t, IsSeq(s), IsSeq(t)
      PROVE  /\ IsSeq(s \o t) /\ Len(s \o t) = Len(s) + Len(t)
             /\ \A i \in 1..Len(s) : (s \o t)[i] = s[i]
             /\ \A i \in 1..Len(t) : (s \o t)[Len(s) + i] = t[i]
  <2> DEFINE S == Elements(s) \cup Elements(t)
  <2>1. s \in Seq(S) /\ t \in Seq(S)
    <3>1. \A A, B : \A u \in Seq(A) : u \in Seq(A \cup B) /\ u \in Seq(B \cup A) OBVIOUS
    <3> QED BY <1>5, <3>1 DEF IsSeq
  <2> HIDE DEF S
  <2>2. s \o t \in Seq(S) /\ Len(s \o t) = Len(s) + Len(t)
        /\ (\A i \in 1..Len(s) : (s \o t)[i] = s[i])
        /\ (\A i \in 1..Len(t) : (s \o t)[Len(s) + i] = t[i])
    BY <2>1
  <2> QED BY <1>1, <2>2
<1> QED BY <1>1, <1>2, <1>3, <1>4, <1>5

\* The first of a queue is taken out, and others come before the rest.
LEMMA Queue ==
  ASSUME NEW S, NEW es \in Seq(S), NEW fs \in Seq(S), es # <<>>
  PROVE  /\ fs \o Tail(es) \in Seq(S)
         /\ Elements(es) \subseteq Elements(fs \o Tail(es)) \cup {es[1]}
         /\ Elements(fs) \subseteq Elements(fs \o Tail(es))
<1> DEFINE gs == fs \o Tail(es)
<1>1. /\ gs \in Seq(S) /\ Len(gs) = Len(fs) + Len(es) - 1
      /\ \A k \in 1..Len(fs) : gs[k] = fs[k]
      /\ \A k \in 2..Len(es) : gs[Len(fs) + k - 1] = es[k]
  OBVIOUS
<1>2. ASSUME NEW j \in DOMAIN es, es[j] # es[1] PROVE \E k \in DOMAIN gs : gs[k] = es[j]
  <2>1. j \in 2..Len(es) /\ Len(fs) + j - 1 \in DOMAIN gs BY <1>1, <1>2
  <2> QED BY <1>1, <2>1
<1>3. ASSUME NEW j \in DOMAIN fs PROVE \E k \in DOMAIN gs : gs[k] = fs[j]
  <2>1. j \in DOMAIN gs /\ gs[j] = fs[j] BY <1>1
  <2> QED BY <2>1
<1> HIDE DEF gs
<1>4. gs \in Seq(S) /\ Elements(es) \subseteq Elements(gs) \cup {es[1]} /\ Elements(fs) \subseteq Elements(gs)
  BY <1>1, <1>2, <1>3 DEF Elements
<1> QED BY <1>4 DEF gs

LEMMA TaskIs ==
  \A does, at, label, names :
    LET t == Task(does, at, label, names)
    IN  t.does = does /\ t.at = at /\ t.label = label /\ t.names = names
BY DEF Task

LEMMA Kinds ==
  /\ Root \in Object /\ Nothing \notin Object \cup Code /\ <<>> \in Seq(Name)
  /\ Fn \subseteq Object /\ Cls \subseteq Object /\ Mod \subseteq Object
BY HashAssumption DEF Object

\* One sequence after another has the elements of both.
LEMMA BothElements ==
  ASSUME NEW S, NEW a \in Seq(S), NEW b \in Seq(S)
  PROVE  /\ a \o b \in Seq(S) /\ Len(a \o b) = Len(a) + Len(b)
         /\ \A i \in DOMAIN a : i \in DOMAIN (a \o b) /\ (a \o b)[i] = a[i]
         /\ \A i \in DOMAIN b : Len(a) + i \in DOMAIN (a \o b) /\ (a \o b)[Len(a) + i] = b[i]
         /\ Elements(a \o b) = Elements(a) \cup Elements(b)
<1> DEFINE c == a \o b
<1>1. /\ c \in Seq(S) /\ Len(c) = Len(a) + Len(b) /\ Len(a) \in Nat /\ Len(b) \in Nat
      /\ DOMAIN a = 1..Len(a) /\ DOMAIN b = 1..Len(b) /\ DOMAIN c = 1..Len(c)
      /\ \A i \in 1..Len(a) : c[i] = a[i]
      /\ \A i \in 1..Len(b) : c[Len(a) + i] = b[i]
  OBVIOUS
<1> HIDE DEF c
<1>2. \A i \in DOMAIN a : i \in DOMAIN c /\ c[i] = a[i] BY <1>1
<1>3. \A i \in DOMAIN b : Len(a) + i \in DOMAIN c /\ c[Len(a) + i] = b[i] BY <1>1
<1>4. ASSUME NEW i \in DOMAIN c PROVE c[i] \in Elements(a) \cup Elements(b)
  <2>1. CASE i <= Len(a)
    <3>1. i \in DOMAIN a BY <1>1, <2>1
    <3> QED BY <1>2, <3>1 DEF Elements
  <2>2. CASE i > Len(a)
    <3>1. i - Len(a) \in DOMAIN b /\ Len(a) + (i - Len(a)) = i BY <1>1, <2>2
    <3> QED BY <1>3, <3>1 DEF Elements
  <2> QED BY <1>1, <2>1, <2>2
<1>5. Elements(c) = Elements(a) \cup Elements(b) BY <1>2, <1>3, <1>4 DEF Elements
<1> QED BY <1>1, <1>2, <1>3, <1>5 DEF c

\* Things, each with the same names, are pairs.
LEMMA PairsOf ==
  ASSUME NEW S \in SUBSET (Object \cup Code \cup {Nothing}), NEW s \in Seq(S), NEW ns \in Seq(Name)
  PROVE  Under(s, ns) \in Seq(Pair) /\ Elements(Under(s, ns)) = {<<s[i], ns>> : i \in DOMAIN s}
<1>1. ASSUME NEW i \in DOMAIN s PROVE <<s[i], ns>> \in Pair
  <2>1. s[i] \in S OBVIOUS
  <2> QED BY <2>1 DEF Pair
<1>2. Under(s, ns) \in [1..Len(s) -> Pair] /\ Len(s) \in Nat BY <1>1 DEF Under
<1> QED BY <1>2, SeqFrom DEF Under, Elements

\* What a thing refers to, one thing after another.
LEMMA KinIs ==
  ASSUME NEW p \in Program, NEW x \in Pair
  PROVE  /\ x[1] \in Fn =>
              /\ Kin(p, x) = <<<<CodeOf[x[1]], <<>>>>>> \o Under(p.captures[x[1]], p.names[CodeOf[x[1]]])
              /\ <<<<CodeOf[x[1]], <<>>>>>> \in Seq(Pair)
              /\ Under(p.captures[x[1]], p.names[CodeOf[x[1]]]) \in Seq(Pair)
         /\ x[1] \in Code =>
              /\ Kin(p, x) = Under(Inner[x[1]], <<>>) \o
                   [i \in DOMAIN p.names[x[1]] |-> <<p.bound[p.names[x[1]][i]], p.names[x[1]]>>]
              /\ Under(Inner[x[1]], <<>>) \in Seq(Pair)
              /\ [i \in DOMAIN p.names[x[1]] |->
                    <<p.bound[p.names[x[1]][i]], p.names[x[1]]>>] \in Seq(Pair)
         /\ x[1] \in Cls =>
              /\ Kin(p, x) = Under(Bases[x[1]], <<>>) \o
                   [i \in DOMAIN p.methods[x[1]] |-> <<p.methods[x[1]][i][2], <<>>>>]
              /\ Under(Bases[x[1]], <<>>) \in Seq(Pair)
              /\ [i \in DOMAIN p.methods[x[1]] |-> <<p.methods[x[1]][i][2], <<>>>>] \in Seq(Pair)
         /\ x[1] \in Mod =>
              /\ Kin(p, x) = [i \in DOMAIN x[2] |-> <<Sub[x[1]][x[2][i]], x[2]>>]
              /\ Kin(p, x) \in Seq(Pair)
         /\ x[1] \notin Fn \cup Code \cup Cls \cup Mod => Kin(p, x) = <<>>
<1> DEFINE o == x[1]
<1>1. x[2] \in Seq(Name) /\ o \in Object \cup Code \cup {Nothing} /\ <<>> \in Seq(Name) BY DEF Pair
<1>2. ASSUME o \in Fn
      PROVE  /\ Kin(p, x) = <<<<CodeOf[o], <<>>>>>> \o Under(p.captures[o], p.names[CodeOf[o]])
             /\ <<<<CodeOf[o], <<>>>>>> \in Seq(Pair)
             /\ Under(p.captures[o], p.names[CodeOf[o]]) \in Seq(Pair)
  <2>1. CodeOf[o] \in Code /\ p.captures[o] \in Seq(Object) /\ p.names[CodeOf[o]] \in Seq(Name)
    BY <1>2, HashAssumption DEF Program
  <2>2. <<CodeOf[o], <<>>>> \in Pair BY <1>1, <2>1 DEF Pair
  <2>3. <<<<CodeOf[o], <<>>>>>> \in Seq(Pair) BY <2>2
  <2> DEFINE a == p.captures[o]
             b == p.names[CodeOf[o]]
  <2>4. a \in Seq(Object) /\ b \in Seq(Name) /\ Object \in SUBSET (Object \cup Code \cup {Nothing})
    BY <2>1
  <2>5. Kin(p, x) = <<<<CodeOf[o], <<>>>>>> \o Under(a, b) BY <1>2 DEF Kin
  <2> HIDE DEF a, b
  <2>6. Under(a, b) \in Seq(Pair) BY <2>4, PairsOf
  <2> QED BY <2>3, <2>5, <2>6 DEF a, b
<1>3. ASSUME o \in Code
      PROVE  /\ Kin(p, x) = Under(Inner[o], <<>>) \o
                   [i \in DOMAIN p.names[o] |-> <<p.bound[p.names[o][i]], p.names[o]>>]
             /\ Under(Inner[o], <<>>) \in Seq(Pair)
             /\ [i \in DOMAIN p.names[o] |-> <<p.bound[p.names[o][i]], p.names[o]>>] \in Seq(Pair)
  <2>1. /\ Inner[o] \in Seq(Code) /\ p.names[o] \in Seq(Name)
        /\ p.bound \in [Name -> Object \cup {Nothing}]
    BY <1>3, HashAssumption DEF Program
  <2>2. o \notin Fn BY <1>3, HashAssumption
  <2>3. Kin(p, x) = Under(Inner[o], <<>>) \o
                      [i \in DOMAIN p.names[o] |-> <<p.bound[p.names[o][i]], p.names[o]>>]
    BY <1>3, <2>2 DEF Kin
  <2> DEFINE a == Inner[o]
             ns == p.names[o]
             bound == p.bound
             b == [i \in DOMAIN ns |-> <<bound[ns[i]], ns>>]
  <2>4. /\ Code \in SUBSET (Object \cup Code \cup {Nothing}) /\ a \in Seq(Code) /\ ns \in Seq(Name)
        /\ bound \in [Name -> Object \cup {Nothing}]
    BY <2>1
  <2> HIDE DEF a, ns, bound
  <2>5. Under(a, <<>>) \in Seq(Pair) BY <1>1, <2>4, PairsOf
  <2>6. ASSUME NEW i \in DOMAIN ns PROVE <<bound[ns[i]], ns>> \in Pair
    <3>1. ns[i] \in Name BY <2>4
    <3>2. bound[ns[i]] \in Object \cup {Nothing} BY <2>4, <3>1
    <3> QED BY <2>4, <3>2 DEF Pair
  <2>7. b \in [1..Len(ns) -> Pair] /\ Len(ns) \in Nat BY <2>4, <2>6
  <2> HIDE DEF b
  <2>8. b \in Seq(Pair) BY <2>7, SeqFrom
  <2> QED BY <2>3, <2>5, <2>8 DEF a, b, ns, bound
<1>4. ASSUME o \in Cls
      PROVE  /\ Kin(p, x) = Under(Bases[o], <<>>) \o [i \in DOMAIN p.methods[o] |-> <<p.methods[o][i][2], <<>>>>]
             /\ Under(Bases[o], <<>>) \in Seq(Pair)
             /\ [i \in DOMAIN p.methods[o] |-> <<p.methods[o][i][2], <<>>>>] \in Seq(Pair)
  <2>1. Bases[o] \in Seq(Cls) /\ p.methods[o] \in Seq(Name \X Fn)
    BY <1>4, HashAssumption DEF Program
  <2>2. o \notin Fn \cup Code BY <1>4, HashAssumption
  <2>3. Kin(p, x) = Under(Bases[o], <<>>) \o [i \in DOMAIN p.methods[o] |-> <<p.methods[o][i][2], <<>>>>]
    BY <1>4, <2>2 DEF Kin
  <2> DEFINE a == Bases[o]
             s == p.methods[o]
             b == [i \in DOMAIN s |-> <<s[i][2], <<>>>>]
  <2>4. Cls \in SUBSET (Object \cup Code \cup {Nothing}) /\ a \in Seq(Cls) /\ s \in Seq(Name \X Fn)
    BY <2>1 DEF Object
  <2> HIDE DEF a, s
  <2>5. Under(a, <<>>) \in Seq(Pair) BY <1>1, <2>4, PairsOf
  <2>6. ASSUME NEW i \in DOMAIN s PROVE <<s[i][2], <<>>>> \in Pair
    <3>1. s[i] \in Name \X Fn BY <2>4
    <3>2. s[i][2] \in Fn BY <3>1
    <3> QED BY <1>1, <3>2 DEF Pair, Object
  <2>7. b \in [1..Len(s) -> Pair] /\ Len(s) \in Nat BY <2>4, <2>6
  <2> HIDE DEF b
  <2>8. b \in Seq(Pair) BY <2>7, SeqFrom
  <2> QED BY <2>3, <2>5, <2>8 DEF a, b, s
<1>5. ASSUME o \in Mod
      PROVE  /\ Kin(p, x) = [i \in DOMAIN x[2] |-> <<Sub[o][x[2][i]], x[2]>>]
             /\ Kin(p, x) \in Seq(Pair)
  <2>1. o \notin Fn \cup Code \cup Cls BY <1>5, HashAssumption
  <2> DEFINE s == Sub[o]
             ns == x[2]
             b == [i \in DOMAIN ns |-> <<s[ns[i]], ns>>]
  <2>2. Kin(p, x) = b BY <1>5, <2>1 DEF Kin
  <2>3. s \in [Name -> Mod \cup {Nothing}] /\ ns \in Seq(Name) BY <1>1, <1>5, HashAssumption
  <2> HIDE DEF s, ns
  <2>4. ASSUME NEW i \in DOMAIN ns PROVE <<s[ns[i]], ns>> \in Pair
    <3>1. ns[i] \in Name BY <2>3
    <3>2. s[ns[i]] \in Mod \cup {Nothing} BY <2>3, <3>1
    <3> QED BY <2>3, <3>2 DEF Pair, Object
  <2>5. b \in [1..Len(ns) -> Pair] /\ Len(ns) \in Nat BY <2>3, <2>4
  <2> HIDE DEF b
  <2>6. b \in Seq(Pair) BY <2>5, SeqFrom
  <2> QED BY <2>2, <2>6 DEF b, s, ns
<1>6. ASSUME o \notin Fn \cup Code \cup Cls \cup Mod PROVE Kin(p, x) = <<>> BY <1>6 DEF Kin
<1> QED BY <1>2, <1>3, <1>4, <1>5, <1>6

LEMMA KinInPair ==
  ASSUME NEW p \in Program, NEW x \in Pair PROVE Kin(p, x) \in Seq(Pair)
<1>1. <<>> \in Seq(Pair) OBVIOUS
<1>2. CASE x[1] \in Fn \cup Code \cup Cls
  <2>1. \E a \in Seq(Pair), b \in Seq(Pair) : Kin(p, x) = a \o b
    <3>1. CASE x[1] \in Fn BY <3>1, KinIs, Zenon
    <3>2. CASE x[1] \in Code BY <3>2, KinIs
    <3>3. CASE x[1] \in Cls BY <3>3, KinIs, Zenon
    <3> QED BY <1>2, <3>1, <3>2, <3>3
  <2> QED BY <2>1, BothElements
<1>3. CASE x[1] \in Mod BY <1>3, KinIs
<1>4. CASE x[1] \notin Fn \cup Code \cup Cls \cup Mod BY <1>1, <1>4, KinIs
<1> QED BY <1>2, <1>3, <1>4

\* What is referred to is something, with names.
LEMMA RefersInPair ==
  ASSUME NEW p \in Program, NEW x \in Pair PROVE Refers(p, x) \subseteq Pair
<1>1. \A s \in Seq(Pair) : \A i \in DOMAIN s : s[i] \in Pair OBVIOUS
<1> QED BY <1>1, KinInPair DEF Refers

LEMMA RefersIs ==
  ASSUME NEW p \in Program, NEW x \in Pair
  PROVE  /\ x[1] \in Fn => Refers(p, x) = {<<CodeOf[x[1]], <<>>>>} \cup
                {<<p.captures[x[1]][i], p.names[CodeOf[x[1]]]>> : i \in DOMAIN p.captures[x[1]]}
         /\ x[1] \in Code => Refers(p, x) = {<<Inner[x[1]][i], <<>>>> : i \in DOMAIN Inner[x[1]]} \cup
                {<<p.bound[p.names[x[1]][i]], p.names[x[1]]>> : i \in DOMAIN p.names[x[1]]}
         /\ x[1] \in Cls => Refers(p, x) = {<<Bases[x[1]][i], <<>>>> : i \in DOMAIN Bases[x[1]]} \cup
                {<<p.methods[x[1]][i][2], <<>>>> : i \in DOMAIN p.methods[x[1]]}
         /\ x[1] \in Mod => Refers(p, x) = {<<Sub[x[1]][x[2][i]], x[2]>> : i \in DOMAIN x[2]}
         /\ x[1] \notin Fn \cup Code \cup Cls \cup Mod => Refers(p, x) = {}
<1> DEFINE o == x[1]
<1>1. Refers(p, x) = Elements(Kin(p, x)) BY DEF Refers, Elements
<1>2. \A s, ns : Elements(Under(s, ns)) = {<<s[i], ns>> : i \in DOMAIN s} BY DEF Elements, Under
<1>3. ASSUME o \in Fn PROVE Refers(p, x) = {<<CodeOf[o], <<>>>>} \cup
                {<<p.captures[o][i], p.names[CodeOf[o]]>> : i \in DOMAIN p.captures[o]}
  <2> DEFINE a == <<<<CodeOf[o], <<>>>>>>
             b == Under(p.captures[o], p.names[CodeOf[o]])
  <2>1. Kin(p, x) = a \o b /\ a \in Seq(Pair) /\ b \in Seq(Pair) BY <1>3, KinIs, Zenon
  <2>2. Elements(a) = {<<CodeOf[o], <<>>>>} BY DEF Elements
  <2>3. Elements(a) \cup Elements(b) = Elements(a \o b)
    <3> HIDE DEF a, b
    <3> QED BY <2>1, BothElements
  <2> QED BY <1>1, <1>2, <2>1, <2>2, <2>3
<1>4. ASSUME o \in Code PROVE Refers(p, x) = {<<Inner[o][i], <<>>>> : i \in DOMAIN Inner[o]} \cup
                {<<p.bound[p.names[o][i]], p.names[o]>> : i \in DOMAIN p.names[o]}
  <2> DEFINE a == Under(Inner[o], <<>>)
             b == [i \in DOMAIN p.names[o] |-> <<p.bound[p.names[o][i]], p.names[o]>>]
  <2>1. Kin(p, x) = a \o b /\ a \in Seq(Pair) /\ b \in Seq(Pair) BY <1>4, KinIs
  <2>2. Elements(b) = {<<p.bound[p.names[o][i]], p.names[o]>> : i \in DOMAIN p.names[o]}
    BY DEF Elements
  <2>3. Elements(a) \cup Elements(b) = Elements(a \o b)
    <3> HIDE DEF a, b
    <3> QED BY <2>1, BothElements
  <2> QED BY <1>1, <1>2, <2>1, <2>2, <2>3
<1>5. ASSUME o \in Cls PROVE Refers(p, x) = {<<Bases[o][i], <<>>>> : i \in DOMAIN Bases[o]} \cup
                {<<p.methods[o][i][2], <<>>>> : i \in DOMAIN p.methods[o]}
  <2> DEFINE a == Under(Bases[o], <<>>)
             b == [i \in DOMAIN p.methods[o] |-> <<p.methods[o][i][2], <<>>>>]
  <2>1. Kin(p, x) = a \o b /\ a \in Seq(Pair) /\ b \in Seq(Pair) BY <1>5, KinIs
  <2>2. Elements(b) = {<<p.methods[o][i][2], <<>>>> : i \in DOMAIN p.methods[o]}
    BY Zenon DEF Elements
  <2>3. Elements(a) \cup Elements(b) = Elements(a \o b)
    <3> HIDE DEF a, b
    <3> QED BY <2>1, BothElements
  <2> QED BY <1>1, <1>2, <2>1, <2>2, <2>3
<1>6. ASSUME o \in Mod PROVE Refers(p, x) = {<<Sub[o][x[2][i]], x[2]>> : i \in DOMAIN x[2]}
  <2> DEFINE b == [i \in DOMAIN x[2] |-> <<Sub[o][x[2][i]], x[2]>>]
  <2>1. Kin(p, x) = b BY <1>6, KinIs
  <2>2. Elements(b) = {<<Sub[o][x[2][i]], x[2]>> : i \in DOMAIN x[2]} BY DEF Elements
  <2> HIDE DEF b
  <2> QED BY <1>1, <2>1, <2>2
<1>7. ASSUME o \notin Fn \cup Code \cup Cls \cup Mod PROVE Refers(p, x) = {}
  <2>1. Kin(p, x) = <<>> BY <1>7, KinIs
  <2>2. Elements(<<>>) = {} BY DEF Elements
  <2> QED BY <1>1, <2>1, <2>2
<1> QED BY <1>3, <1>4, <1>5, <1>6, <1>7

-----------------------------------------------------------------------------
(* What is reached                                                         *)

LEMMA LongestIs == Longest \in Nat
<1> DEFINE n(S) == Cardinality(S)
<1>1. n(Fn) \in Nat /\ n(Code) \in Nat /\ n(Cls) \in Nat /\ n(Mod) \in Nat
  BY HashAssumption, FS_CardinalityType
<1>2. Longest = n(Fn) * n(Fn) + n(Code) + n(Cls) + n(Mod) + 1 BY DEF Longest
<1> HIDE DEF n
<1>3. n(Fn) * n(Fn) \in Nat BY <1>1
<1> QED BY <1>1, <1>2, <1>3

LEMMA Least ==
  ASSUME NEW S, S \subseteq Nat, S # {} PROVE \E n \in S : \A k \in Nat : k < n => k \notin S
<1>1. PICK n \in S : \A k \in S : ~(<<k, n>> \in OpToRel(<, Nat))
  BY NatLessThanWellFounded, WFMin, Zenon
<1> QED BY <1>1 DEF OpToRel

\* What holds of 0, and of k + 1 when of k, holds up to n.
LEMMA Upward ==
  ASSUME NEW n \in Nat, NEW S, 0 \in S, \A k \in 0..(n - 1) : k \in S => k + 1 \in S
  PROVE  \A k \in 0..n : k \in S
<1> DEFINE Bad == (0..n) \ S
<1> SUFFICES ASSUME Bad # {} PROVE FALSE OBVIOUS
<1>1. PICK k \in Bad : \A j \in Nat : j < k => j \notin Bad
  <2>1. Bad \subseteq Nat OBVIOUS
  <2> HIDE DEF Bad
  <2> QED BY <2>1, Least
<1>2. k # 0 /\ k - 1 \in 0..(n - 1) /\ k - 1 \in S BY <1>1
<1> QED BY <1>2

\* What holds of n, and of k when of k + 1, holds down to 0.
LEMMA Downward ==
  ASSUME NEW n \in Nat, NEW S, n \in S, \A k \in 0..(n - 1) : k + 1 \in S => k \in S
  PROVE  \A k \in 0..n : k \in S
<1> DEFINE D == {k \in 0..n : n - k \in S}
<1>1. 0 \in D /\ \A k \in 0..(n - 1) : k \in D => k + 1 \in D
  <2>1. ASSUME NEW k \in 0..(n - 1), k \in D PROVE k + 1 \in D
    <3>1. PICK j : j = n - (k + 1) OBVIOUS
    <3>2. j \in 0..(n - 1) /\ j + 1 = n - k /\ j + 1 \in S BY <2>1, <3>1
    <3> QED BY <3>1, <3>2
  <2> QED BY <2>1
<1>2. \A k \in 0..n : k \in D
  <2> HIDE DEF D
  <2> QED BY <1>1, Upward
<1>3. ASSUME NEW k \in 0..n PROVE k \in S
  <2>1. n - k \in D /\ n - (n - k) = k BY <1>2
  <2> QED BY <2>1
<1> QED BY <1>3

\* A set of pairs with the root in it, closed under what they refer to, has
\* all that is reached in it: the walk of Reached never leaves it.
LEMMA ReachedStays ==
  ASSUME NEW p, NEW C, <<Root, <<>>>> \in C, \A x \in C : Refers(p, x) \subseteq C
  PROVE  Reached(p) \subseteq {x[1] : x \in C}
<1> DEFINE Next1(r) == r \cup UNION {Refers(p, x) : x \in r}
           First == {<<Root, <<>>>>}
           IsReach(R, n) == R = [k \in 0..n |-> IF k = 0 THEN First ELSE Next1(R[k - 1])]
<1>1. Longest \in Nat BY LongestIs
<1>2. \A n \in Nat : \E R : IsReach(R, n)
  <2> DEFINE Bad == {n \in Nat : ~\E R : IsReach(R, n)}
  <2> SUFFICES ASSUME Bad # {} PROVE FALSE OBVIOUS
  <2>1. PICK n \in Bad : \A k \in Nat : k < n => k \notin Bad
    <3>1. Bad \subseteq Nat OBVIOUS
    <3> HIDE DEF Bad
    <3> QED BY <3>1, Least
  <2>2. n # 0
    <3> DEFINE R0 == [k \in 0..0 |-> First]
    <3>1. IsReach(R0, 0) OBVIOUS
    <3> QED BY <3>1
  <2>3. PICK R : IsReach(R, n - 1)
    <3>1. n - 1 \in Nat /\ n - 1 < n BY <2>2
    <3> QED BY <2>1, <3>1
  <2> DEFINE Q == [k \in 0..n |-> IF k = n THEN Next1(R[n - 1]) ELSE R[k]]
  <2>4. IsReach(Q, n)
    <3>1. n \in Nat \ {0} BY <2>2
    <3>2. ASSUME NEW k \in 0..n PROVE Q[k] = IF k = 0 THEN First ELSE Next1(Q[k - 1])
      <4>1. CASE k = n BY <3>1, <4>1
      <4>2. CASE k # n
        <5>1. k \in 0..(n - 1) /\ Q[k] = R[k] BY <3>1, <4>2
        <5>2. R[k] = IF k = 0 THEN First ELSE Next1(R[k - 1]) BY <2>3, <5>1
        <5>3. k # 0 => Q[k - 1] = R[k - 1] BY <3>1, <4>2
        <5> QED BY <5>1, <5>2, <5>3
      <4> QED BY <4>1, <4>2
    <3> HIDE DEF Next1, First
    <3> QED BY <3>2
  <2> QED BY <2>4
<1> DEFINE R == CHOOSE R : IsReach(R, Longest)
<1>3. IsReach(R, Longest) BY <1>1, <1>2
<1>4. Reached(p) = {x[1] : x \in R[Longest]} \ {Nothing} BY DEF Reached
<1> HIDE DEF R
<1>5. \A k \in 0..(Longest - 1) : R[k] \subseteq C => R[k + 1] \subseteq C
  <2>1. ASSUME NEW k \in 0..(Longest - 1) PROVE R[k + 1] = Next1(R[k])
    <3>1. k + 1 \in 0..Longest /\ k + 1 # 0 /\ (k + 1) - 1 = k BY <1>1
    <3> HIDE DEF Next1, First
    <3> QED BY <1>3, <3>1
  <2> QED BY <2>1
<1>6. PICK S : S = {k \in Nat : R[k] \subseteq C} OBVIOUS
<1>7. 0 \in S BY <1>1, <1>3, <1>6
<1>8. R[Longest] \subseteq C
  <2> HIDE DEF Next1, First, IsReach
  <2>1. \A k \in 0..(Longest - 1) : k \in S => k + 1 \in S BY <1>1, <1>5, <1>6
  <2>2. \A k \in 0..Longest : k \in S BY <1>1, <1>7, <2>1, Upward
  <2> QED BY <1>1, <1>6, <2>2
<1> QED BY <1>4, <1>8

-----------------------------------------------------------------------------
(* The walk                                                                *)

LEMMA HasAll ==
  ASSUME NEW w, NEW q, NEW s, NEW p, NEW f, NEW m, NEW n, NEW l
  PROVE  HasParts(w, q, s, p, f, m, n, l) <=> w \in WalkOf(q, s, p, f, m, n, l)
<1>1. ASSUME HasParts(w, q, s, p, f, m, n, l) PROVE w \in WalkOf(q, s, p, f, m, n, l)
  <2>1. w = [todo |-> q, seen |-> s, spans |-> p, frames |-> f, met |-> m, unsaid |-> n, blind |-> l]
    BY <1>1 DEF HasParts, Shape
  <2> QED BY <2>1 DEF WalkOf
<1>2. ASSUME w \in WalkOf(q, s, p, f, m, n, l) PROVE HasParts(w, q, s, p, f, m, n, l)
  BY <1>2 DEF WalkOf, HasParts, Shape
<1> QED BY <1>1, <1>2

LEMMA OnHas ==
  ASSUME Shape(walk), NEW a, NEW b
  PROVE  HasParts(On(a, b), a \o Tail(walk.todo), walk.seen, walk.spans, walk.frames \o b,
                  walk.met, walk.unsaid, walk.blind)
<1>1. PICK w, q, s, p, m, l, f, n, q1, f1 :
        /\ w = walk /\ q = walk.todo /\ s = walk.seen /\ p = walk.spans /\ m = walk.met
        /\ l = walk.blind /\ f = walk.frames /\ n = walk.unsaid
        /\ q1 = a \o Tail(walk.todo) /\ f1 = walk.frames \o b
  OBVIOUS
<1>2. w \in WalkOf(q, s, p, f, m, n, l) BY <1>1, HasAll DEF HasParts
<1>3. [w EXCEPT !.todo = q1, !.frames = f1] \in WalkOf(q1, s, p, f1, m, n, l) BY <1>2 DEF WalkOf
<1>4. On(a, b) = [w EXCEPT !.todo = q1, !.frames = f1] BY <1>1 DEF On
<1>5. HasParts(On(a, b), q1, s, p, f1, m, n, l) BY <1>3, <1>4, HasAll
<1> QED BY <1>1, <1>5

LEMMA OmittingHas ==
  ASSUME NEW w, NEW q, NEW s, NEW p, NEW f, NEW m, NEW n, NEW l,
         HasParts(w, q, s, p, f, m, n, l), NEW u, NEW b
  PROVE  HasParts(Omitting(w, u, b), q, s, p, f, m, n \o u, l \cup b)
<1>1. PICK n1, l1 : n1 = n \o u /\ l1 = l \cup b OBVIOUS
<1>2. w \in WalkOf(q, s, p, f, m, n, l) BY <1>1, HasAll
<1>3. [w EXCEPT !.unsaid = n1, !.blind = l1] \in WalkOf(q, s, p, f, m, n1, l1) BY <1>2 DEF WalkOf
<1>4. Omitting(w, u, b) = [w EXCEPT !.unsaid = n1, !.blind = l1] BY <1>1 DEF Omitting, HasParts
<1>5. HasParts(Omitting(w, u, b), q, s, p, f, m, n1, l1) BY <1>3, <1>4, HasAll
<1> QED BY <1>1, <1>5

LEMMA MarkingHas ==
  ASSUME NEW w, NEW q, NEW s, NEW p, NEW f, NEW m, NEW n, NEW l,
         HasParts(w, q, s, p, f, m, n, l), NEW c
  PROVE  /\ HasParts([w EXCEPT !.met = @ \cup {c}], q, s, p, f, m \cup {c}, n, l)
         /\ HasParts([w EXCEPT !.seen = @ \cup {c}], q, s \cup {c}, p, f, m, n, l)
         /\ HasParts([w EXCEPT !.seen = @ \cup {c}, !.spans = @ \cup {c}],
                     q, s \cup {c}, p \cup {c}, f, m, n, l)
<1>1. PICK m1, s1, p1 : m1 = m \cup {c} /\ s1 = s \cup {c} /\ p1 = p \cup {c} OBVIOUS
<1>2. w \in WalkOf(q, s, p, f, m, n, l) BY <1>1, HasAll
<1>3. /\ [w EXCEPT !.met = m1] \in WalkOf(q, s, p, f, m1, n, l)
      /\ [w EXCEPT !.seen = s1] \in WalkOf(q, s1, p, f, m, n, l)
      /\ [w EXCEPT !.seen = s1, !.spans = p1] \in WalkOf(q, s1, p1, f, m, n, l)
  BY <1>2 DEF WalkOf
<1>4. w.met \cup {c} = m1 /\ w.seen \cup {c} = s1 /\ w.spans \cup {c} = p1 BY <1>1 DEF HasParts
<1>5. /\ HasParts([w EXCEPT !.met = m1], q, s, p, f, m1, n, l)
      /\ HasParts([w EXCEPT !.seen = s1], q, s1, p, f, m, n, l)
      /\ HasParts([w EXCEPT !.seen = s1, !.spans = p1], q, s1, p1, f, m, n, l)
  BY <1>3, HasAll
<1> QED BY <1>1, <1>4, <1>5

\* One task is done, others are added.
LEMMA TodoIs ==
  ASSUME walk.todo \in Seq(Tasks), NEW tasks \in Seq(Tasks), walk.todo # <<>>,
         walk'.todo = tasks \o Tail(walk.todo)
  PROVE  /\ walk'.todo \in Seq(Tasks)
         /\ Todo \subseteq Todo' \cup {walk.todo[1]}
         /\ Elements(tasks) \subseteq Todo'
BY Queue DEF Todo

\* A step of the walk: what it is about is looked at, or replaced, and what is
\* newly looked at refers to what is looked at, or added.
LEMMA IsOfStays ==
  ASSUME loaded' = loaded PROVE \A t, x : IsOf(t, x)' <=> IsOf(t, x)
BY DEF IsOf

\* What is looked at stays so, and what waits does, but for what is at hand.
LEMMA Remains ==
  ASSUME Typed, NEW M, NEW N, M \subseteq N, loaded' = loaded,
         NEW tasks \in Seq(Tasks), walk.todo # <<>>, walk'.todo = tasks \o Tail(walk.todo),
         walk.seen \subseteq walk'.seen, walk.met \subseteq walk'.met, NEW x,
         IsOf(walk.todo[1], x) => (LookedAt(N, x) \/ Awaited(x))',
         LookedAt(M, x) \/ Awaited(x)
  PROVE  (LookedAt(N, x) \/ Awaited(x))'
<1>1. CASE LookedAt(M, x)
  <2>1. \A f : Captured(f)' = Captured(f) BY DEF Captured
  <2> QED BY <1>1, <2>1 DEF LookedAt
<1>2. CASE Awaited(x)
  <2>1. PICK t \in Todo : IsOf(t, x) BY <1>2 DEF Awaited
  <2>2. t = walk.todo[1] \/ t \in Todo' BY TodoIs DEF Typed, TypedWalk
  <2> QED BY <2>1, <2>2, IsOfStays DEF Awaited
<1> QED BY <1>1, <1>2

\* A step of the walk: what it is about is looked at, or replaced, and what is
\* newly looked at refers to what is looked at, or added.
LEMMA Goes ==
  ASSUME Typed, NEW M, NEW N, Closed(M), M \subseteq N, loaded' = loaded,
         NEW tasks \in Seq(Tasks), walk.todo # <<>>, walk'.todo = tasks \o Tail(walk.todo),
         walk.seen \subseteq walk'.seen, walk.met \subseteq walk'.met,
         N \subseteq Mod \X Seq(Name), \A x \in N : x[1] \in walk'.seen,
         walk'.seen \cap (Code \cup Mod) \subseteq walk'.spans,
         \A x \in Pair : IsOf(walk.todo[1], x) => (LookedAt(N, x) \/ Awaited(x))',
         \A x \in Pair : LookedAt(N, x)' /\ ~LookedAt(M, x) =>
           \A y \in Refers(loaded, x) : (LookedAt(N, y) \/ Awaited(y))'
  PROVE  Closed(N)'
<1>1. ASSUME NEW x \in Pair, LookedAt(M, x) \/ Awaited(x) PROVE (LookedAt(N, x) \/ Awaited(x))'
  BY <1>1, Remains
<1>2. <<Root, <<>>>> \in Pair BY Kinds DEF Pair
<1>3. (LookedAt(N, <<Root, <<>>>>) \/ Awaited(<<Root, <<>>>>))' BY <1>1, <1>2 DEF Closed
<1>4. ASSUME NEW x \in Pair, LookedAt(N, x)', NEW y \in Refers(loaded, x)
      PROVE  (LookedAt(N, y) \/ Awaited(y))'
  <2>1. CASE LookedAt(M, x)
    <3>1. y \in Pair BY RefersInPair DEF Typed
    <3>2. LookedAt(M, y) \/ Awaited(y) BY <2>1 DEF Closed
    <3> QED BY <1>1, <3>1, <3>2
  <2>2. CASE ~LookedAt(M, x) BY <1>4, <2>2
  <2> QED BY <2>1, <2>2
<1> QED BY <1>3, <1>4 DEF Closed

\* A task that was added waits.
LEMMA AddedWaits ==
  ASSUME Typed, NEW tasks \in Seq(Tasks), walk.todo # <<>>, walk'.todo = tasks \o Tail(walk.todo),
         loaded' = loaded, NEW x, NEW k \in DOMAIN tasks, IsOf(tasks[k], x)
  PROVE  Awaited(x)'
<1>1. tasks[k] \in Todo' BY TodoIs DEF Typed, TypedWalk, Elements
<1> QED BY <1>1, IsOfStays DEF Awaited

-----------------------------------------------------------------------------
(* What each step of the walk does                                         *)

LEMMA NothingMore ==
  /\ <<>> \in Seq(Tasks)
  /\ \A S : S \cup {} = S /\ {} \cap S = {} /\ {} \subseteq S
OBVIOUS

LEMMA NowIs ==
  ASSUME Typed, NEW does, Doing(does)
  PROVE  /\ walk.todo # <<>> /\ Now \in Tasks /\ Now.does = does
         /\ Now.names \in Seq(Name)
         /\ does # "captures" => Now.label \in Label
         /\ does = "function" => Now.at \in Fn
         /\ does = "code" => Now.at \in Code
         /\ does = "class" => Now.at \in Cls
         /\ does = "global" => Now.at \in Object \cup {Nothing}
         /\ does = "module" => Now.at \in Mod \cup {Nothing}
         /\ does = "captures" => Now.at \in Fn /\ \E i \in Nat \ {0} : Now.label = <<i>>
<1>1. walk.todo # <<>> /\ Now.does = does BY DEF Doing, Now
<1>2. Now \in Tasks BY <1>1 DEF Typed, TypedWalk, Now
<1> QED BY <1>1, <1>2 DEF Tasks, TasksOf

\* The tasks there are.
LEMMA TaskTypes ==
  ASSUME NEW l \in Label, NEW ns \in Seq(Name)
  PROVE  /\ \A f \in Fn : Task("function", f, l, ns) \in Tasks
         /\ \A c \in Code : Task("code", c, l, ns) \in Tasks
         /\ \A k \in Cls : Task("class", k, l, ns) \in Tasks
         /\ \A o \in Object \cup {Nothing} : Task("global", o, l, ns) \in Tasks
         /\ \A m \in Mod \cup {Nothing} : Task("module", m, l, ns) \in Tasks
         /\ \A f \in Fn, i \in Nat \ {0} : Task("captures", f, <<i>>, ns) \in Tasks
BY DEF Task, Tasks, TasksOf

LEMMA Labels ==
  /\ <<>> \in Label /\ <<>> \in Seq(Name)
  /\ \A n \in Name \cup Nat : <<n>> \in Label
  /\ \A l \in Label, n \in Name : Append(l, n) \in Label
BY DEF Label

\* What a step does when it is On, with what it marks, and Omitting.
LEMMA StepMoves ==
  ASSUME Typed, walk.todo # <<>>, NEW tasks \in Seq(Tasks), NEW frames, IsSeq(frames),
         NEW notes, IsSeq(notes), NEW unseen, NEW c
  PROVE  /\ walk' = Omitting(On(tasks, frames), notes, unseen) =>
              /\ Moves(walk, walk', tasks, {}, {}, frames, notes, unseen)
              /\ Does(tasks, {}, {}, unseen)
         /\ walk' = On(tasks, frames) =>
              /\ Moves(walk, walk', tasks, {}, {}, frames, <<>>, {})
              /\ Does(tasks, {}, {}, {})
         /\ c \in Fn /\ walk' = [On(tasks, frames) EXCEPT !.met = @ \cup {c}] =>
              /\ Moves(walk, walk', tasks, {}, {c}, frames, <<>>, {})
              /\ Does(tasks, {}, {c}, {})
         /\ c \in Code \cup Mod
            /\ walk' = Omitting([On(tasks, frames) EXCEPT !.seen = @ \cup {c}, !.spans = @ \cup {c}],
                                notes, unseen) =>
              /\ Moves(walk, walk', tasks, {c}, {}, frames, notes, unseen)
              /\ Does(tasks, {c}, {}, unseen)
         /\ c \in Cls
            /\ walk' = Omitting([On(tasks, frames) EXCEPT !.seen = @ \cup {c}], notes, unseen) =>
              /\ Moves(walk, walk', tasks, {c}, {}, frames, notes, unseen)
              /\ Does(tasks, {c}, {}, unseen)
<1> DEFINE w == On(tasks, frames)
           q == tasks \o Tail(walk.todo)
           f == walk.frames \o frames
<1>1. HasParts(w, q, walk.seen, walk.spans, f, walk.met, walk.unsaid, walk.blind)
  BY OnHas DEF Typed, TypedWalk
<1>2. /\ walk.unsaid \o <<>> = walk.unsaid /\ walk.blind \cup {} = walk.blind
      /\ walk.seen \cup {} = walk.seen /\ walk.met \cup {} = walk.met
      /\ walk.spans \cup ({} \cap (Code \cup Mod)) = walk.spans
  BY SeqsJoin DEF Typed, TypedWalk
<1>3. IsSeq(<<>>) BY SeqsJoin
<1> HIDE DEF w, q, f
<1>4. ASSUME walk' = Omitting(w, notes, unseen)
      PROVE  Moves(walk, walk', tasks, {}, {}, frames, notes, unseen)
  <2>1. HasParts(walk', q, walk.seen, walk.spans, f, walk.met, walk.unsaid \o notes, walk.blind \cup unseen)
    BY <1>1, <1>4, OmittingHas
  <2> QED BY <1>2, <2>1 DEF Moves, q, f
<1>5. ASSUME walk' = w PROVE Moves(walk, walk', tasks, {}, {}, frames, <<>>, {})
  BY <1>1, <1>2, <1>5 DEF Moves, q, f
<1>6. ASSUME walk' = [w EXCEPT !.met = @ \cup {c}]
      PROVE  Moves(walk, walk', tasks, {}, {c}, frames, <<>>, {})
  <2>1. HasParts(walk', q, walk.seen, walk.spans, f, walk.met \cup {c}, walk.unsaid, walk.blind)
    BY <1>1, <1>6, MarkingHas, Zenon
  <2> QED BY <1>2, <2>1 DEF Moves, q, f
<1>7. ASSUME c \in Code \cup Mod,
             walk' = Omitting([w EXCEPT !.seen = @ \cup {c}, !.spans = @ \cup {c}], notes, unseen)
      PROVE  Moves(walk, walk', tasks, {c}, {}, frames, notes, unseen)
  <2> DEFINE v == [w EXCEPT !.seen = @ \cup {c}, !.spans = @ \cup {c}]
  <2>1. HasParts(v, q, walk.seen \cup {c}, walk.spans \cup {c}, f, walk.met, walk.unsaid, walk.blind)
    BY <1>1, MarkingHas, Zenon
  <2> HIDE DEF v
  <2>2. walk' = Omitting(v, notes, unseen) BY <1>7 DEF v
  <2>3. HasParts(walk', q, walk.seen \cup {c}, walk.spans \cup {c}, f, walk.met,
                 walk.unsaid \o notes, walk.blind \cup unseen)
    BY <2>1, <2>2, OmittingHas
  <2>4. {c} \cap (Code \cup Mod) = {c} BY <1>7
  <2> QED BY <1>2, <2>3, <2>4 DEF Moves, q, f
<1>8. ASSUME c \in Cls, walk' = Omitting([w EXCEPT !.seen = @ \cup {c}], notes, unseen)
      PROVE  Moves(walk, walk', tasks, {c}, {}, frames, notes, unseen)
  <2> DEFINE v == [w EXCEPT !.seen = @ \cup {c}]
  <2>1. HasParts(v, q, walk.seen \cup {c}, walk.spans, f, walk.met, walk.unsaid, walk.blind)
    BY <1>1, MarkingHas, Zenon
  <2> HIDE DEF v
  <2>2. walk' = Omitting(v, notes, unseen) BY <1>8 DEF v
  <2>3. HasParts(walk', q, walk.seen \cup {c}, walk.spans, f, walk.met,
                 walk.unsaid \o notes, walk.blind \cup unseen)
    BY <2>1, <2>2, OmittingHas
  <2>4. walk.spans \cup ({c} \cap (Code \cup Mod)) = walk.spans BY <1>8, HashAssumption
  <2> QED BY <1>2, <2>3, <2>4 DEF Moves, q, f
<1>9. ASSUME NEW things \in SUBSET (Code \cup Cls \cup Mod), NEW fns \in SUBSET Fn, NEW ns, IsSeq(ns),
             NEW u, Moves(walk, walk', tasks, things, fns, frames, ns, u)
      PROVE  Does(tasks, things, fns, u)
  BY <1>9 DEF Does
<1>10. {} \in SUBSET (Code \cup Cls \cup Mod) /\ {} \in SUBSET Fn OBVIOUS
<1>11. /\ c \in Fn => {c} \in SUBSET Fn
       /\ c \in Code \cup Mod \/ c \in Cls => {c} \in SUBSET (Code \cup Cls \cup Mod)
  OBVIOUS
<1>12. /\ walk' = Omitting(w, notes, unseen) => Does(tasks, {}, {}, unseen)
       /\ walk' = w => Does(tasks, {}, {}, {})
  BY <1>3, <1>4, <1>5, <1>9, <1>10
<1>13. c \in Fn /\ walk' = [w EXCEPT !.met = @ \cup {c}] => Does(tasks, {}, {c}, {})
  BY <1>3, <1>6, <1>9, <1>10, <1>11
<1>14. ASSUME c \in Code \cup Cls \cup Mod, Moves(walk, walk', tasks, {c}, {}, frames, notes, unseen)
       PROVE  Does(tasks, {c}, {}, unseen)
  BY <1>9, <1>10, <1>11, <1>14
<1> QED BY <1>4, <1>5, <1>6, <1>7, <1>8, <1>12, <1>13, <1>14 DEF w

LEMMA NoteIs == \A what : IsSeq(Note(what)) /\ Note(what) # <<>>
BY SeqsJoin DEF Note

LEMMA AddGlobalDoes ==
  ASSUME Typed, AddGlobal
  PROVE  LET tasks == GlobalTasks(Now.at, Now.label, Now.names)
         IN  /\ Moves(walk, walk', tasks, {}, {}, GlobalFrame(Now.at, Now.label),
                      IF Now.at \in Outside THEN Note(<<"object", Now.at>>) ELSE <<>>, {})
             /\ Does(tasks, {}, {}, {})
<1> DEFINE t == Now
           tasks == GlobalTasks(t.at, t.label, t.names)
           frames == GlobalFrame(t.at, t.label)
           u == IF t.at \in Outside THEN Note(<<"object", t.at>>) ELSE <<>>
<1>1. Doing("global") /\ walk' = Omitting(On(tasks, frames), u, {}) BY DEF AddGlobal, Now
<1>2. walk.todo # <<>> /\ t.label \in Label /\ t.names \in Seq(Name) BY <1>1, NowIs
<1>3. tasks \in Seq(Tasks)
  <2>1. \A x \in Tasks : <<x>> \in Seq(Tasks) OBVIOUS
  <2>2. <<>> \in Seq(Tasks) OBVIOUS
  <2> QED BY <1>2, <2>1, <2>2, TaskTypes DEF GlobalTasks
<1>4. IsSeq(frames) /\ IsSeq(u) BY SeqsJoin, NoteIs DEF GlobalFrame
<1> HIDE DEF tasks, frames, u
<1>5. /\ Moves(walk, walk', tasks, {}, {}, frames, u, {})
      /\ Does(tasks, {}, {}, {})
  BY <1>1, <1>2, <1>3, <1>4, StepMoves, Zenon
<1> QED BY <1>5 DEF tasks, frames, u

LEMMA NoSubmoduleDoes ==
  ASSUME Typed, NoSubmodule
  PROVE  Moves(walk, walk', <<>>, {}, {}, <<>>, <<>>, {}) /\ Does(<<>>, {}, {}, {})
<1>1. walk.todo # <<>> /\ walk' = On(<<>>, <<>>) BY DEF NoSubmodule, Doing
<1> QED BY <1>1, StepMoves, SeqsJoin, NothingMore, Zenon

LEMMA MeetCodeAgainDoes ==
  ASSUME Typed, MeetCodeAgain
  PROVE  /\ CodeNow \in walk.seen
         /\ Moves(walk, walk', <<>>, {}, {}, <<<<"cycle">>>>, Note(<<"met", CodeNow>>), CapturesMissed)
         /\ Does(<<>>, {}, {}, CapturesMissed)
<1>1. walk.todo # <<>> BY DEF MeetCodeAgain, Doing
<1>2. /\ CodeNow \in walk.seen
      /\ walk' = Omitting(On(<<>>, <<<<"cycle">>>>), Note(<<"met", CodeNow>>), CapturesMissed)
  BY DEF MeetCodeAgain, CodeNow, CapturesMissed, Now
<1>3. IsSeq(<<<<"cycle">>>>) /\ IsSeq(Note(<<"met", CodeNow>>)) BY SeqsJoin, NoteIs
<1> QED BY <1>1, <1>2, <1>3, StepMoves, NothingMore, Zenon

LEMMA PassOverDoes ==
  ASSUME Typed, PassOver
  PROVE  /\ Now.at \in walk.seen
         /\ Moves(walk, walk', <<>>, {}, {}, <<>>, Note(<<"passed", Now.label, Now.at>>), FollowsMissed)
         /\ Does(<<>>, {}, {}, FollowsMissed)
<1>1. walk.todo # <<>> BY DEF PassOver, Doing
<1>2. /\ Now.at \in walk.seen
      /\ walk' = Omitting(On(<<>>, <<>>), Note(<<"passed", Now.label, Now.at>>), FollowsMissed)
  BY DEF PassOver, FollowsMissed, Now
<1>3. IsSeq(<<>>) /\ IsSeq(Note(<<"passed", Now.label, Now.at>>)) BY SeqsJoin, NoteIs
<1> QED BY <1>1, <1>2, <1>3, StepMoves, NothingMore, Zenon

LEMMA AddFunctionDoes ==
  ASSUME Typed, AddFunction
  PROVE  /\ Now.at \in Fn /\ CodeOf[Now.at] \notin walk.seen
         /\ Moves(walk, walk', FunctionTasks(Now.at), {}, {Now.at}, <<>>, <<>>, {})
         /\ Does(FunctionTasks(Now.at), {}, {Now.at}, {})
<1> DEFINE f == Now.at
           tasks == FunctionTasks(f)
<1>1. Doing("function") BY DEF AddFunction
<1>2. f \in Fn /\ walk.todo # <<>> BY <1>1, NowIs
<1>3. CodeOf[f] \notin walk.seen /\ walk' = [On(tasks, <<>>) EXCEPT !.met = @ \cup {f}]
  BY DEF AddFunction, FunctionTasks, Now
<1>4. tasks \in Seq(Tasks)
  <2>1. 1 \in Nat \ {0} /\ <<>> \in Label /\ <<>> \in Seq(Name) BY Labels
  <2>2. Task("captures", f, <<1>>, <<>>) \in Tasks BY <1>2, <2>1, TaskTypes
  <2> QED BY <2>2 DEF FunctionTasks
<1> HIDE DEF tasks
<1>5. /\ Moves(walk, walk', tasks, {}, {f}, <<>>, <<>>, {})
      /\ Does(tasks, {}, {f}, {})
  BY <1>2, <1>3, <1>4, StepMoves, SeqsJoin, Zenon
<1> QED BY <1>2, <1>3, <1>5 DEF tasks

LEMMA CapturesTasksAre ==
  ASSUME Typed, NEW f \in Fn, NEW i \in Nat \ {0} PROVE CapturesTasks(f, i) \in Seq(Tasks)
<1> DEFINE s == loaded.captures[f]
           ns == loaded.names[CodeOf[f]]
           c == CodeOf[f]
           a == Task("global", s[i], <<i>>, ns)
           b == Task("captures", f, <<i + 1>>, <<>>)
           d == Task("code", c, <<>>, <<>>)
<1>1. c \in Code /\ s \in Seq(Object) /\ ns \in Seq(Name) BY HashAssumption DEF Typed, Program
<1>2. CapturesTasks(f, i) = IF i \in DOMAIN s THEN <<a, b>> ELSE <<d>> BY DEF CapturesTasks
<1> HIDE DEF s, ns, c
<1>3. CASE i \in DOMAIN s
  <2>1. s[i] \in Object /\ i \in Nat /\ i + 1 \in Nat \ {0} BY <1>1, <1>3
  <2>2. a \in Tasks /\ b \in Tasks BY <1>1, <2>1, TaskTypes, Labels
  <2> HIDE DEF a, b, d
  <2> QED BY <1>2, <1>3, <2>2
<1>4. CASE i \notin DOMAIN s
  <2>1. d \in Tasks BY <1>1, TaskTypes, Labels
  <2> HIDE DEF a, b, d
  <2> QED BY <1>2, <1>4, <2>1
<1> QED BY <1>3, <1>4

LEMMA AddCapturesDoes ==
  ASSUME Typed, AddCaptures
  PROVE  /\ Now.at \in Fn /\ Now.label[1] \in Nat \ {0}
         /\ Moves(walk, walk', CapturesTasks(Now.at, Now.label[1]), {}, {}, <<>>, <<>>, {})
         /\ Does(CapturesTasks(Now.at, Now.label[1]), {}, {}, {})
<1> DEFINE f == Now.at
           i == Now.label[1]
           tasks == CapturesTasks(f, i)
<1>1. Doing("captures") BY DEF AddCaptures
<1>2. f \in Fn /\ walk.todo # <<>> /\ i \in Nat \ {0} BY <1>1, NowIs
<1>3. walk' = On(tasks, <<>>) BY DEF AddCaptures, CapturesTasks, Now
<1>4. tasks \in Seq(Tasks) BY <1>2, CapturesTasksAre
<1> HIDE DEF tasks
<1>5. /\ Moves(walk, walk', tasks, {}, {}, <<>>, <<>>, {})
      /\ Does(tasks, {}, {}, {})
  BY <1>2, <1>3, <1>4, StepMoves, SeqsJoin, Zenon
<1> QED BY <1>2, <1>5 DEF tasks

LEMMA CodeTasksAre ==
  ASSUME Typed, NEW c \in Code PROVE CodeTasks(c) \in Seq(Tasks)
<1> DEFINE s == Inner[c]
           ns == loaded.names[c]
           bound == loaded.bound
           a == [i \in DOMAIN s |-> Task("code", s[i], <<>>, <<>>)]
           b == [i \in DOMAIN ns |-> Task("global", bound[ns[i]], <<ns[i]>>, ns)]
<1>1. s \in Seq(Code) /\ ns \in Seq(Name) /\ bound \in [Name -> Object \cup {Nothing}]
  BY HashAssumption DEF Typed, Program
<1>2. CodeTasks(c) = a \o b BY DEF CodeTasks
<1> HIDE DEF s, ns, bound
<1>3. \A i \in DOMAIN s : s[i] \in Code BY <1>1
<1>4. \A i \in DOMAIN s : Task("code", s[i], <<>>, <<>>) \in Tasks BY <1>3, TaskTypes, Labels
<1>5. a \in [1..Len(s) -> Tasks] /\ Len(s) \in Nat BY <1>1, <1>4
<1>6. \A i \in DOMAIN ns : ns[i] \in Name BY <1>1
<1>7. \A i \in DOMAIN ns : bound[ns[i]] \in Object \cup {Nothing} BY <1>1, <1>6
<1>8. \A i \in DOMAIN ns : Task("global", bound[ns[i]], <<ns[i]>>, ns) \in Tasks
  BY <1>1, <1>6, <1>7, TaskTypes, Labels
<1>9. b \in [1..Len(ns) -> Tasks] /\ Len(ns) \in Nat BY <1>1, <1>8
<1> HIDE DEF a, b
<1>10. a \in Seq(Tasks) /\ b \in Seq(Tasks) BY <1>5, <1>9, SeqFrom
<1> QED BY <1>2, <1>10

LEMMA AddCodeDoes ==
  ASSUME Typed, AddCode
  PROVE  /\ Now.at \in Code \ walk.seen
         /\ Moves(walk, walk', CodeTasks(Now.at), {Now.at}, {}, CodeFrames(Now.at),
                  Note(<<"signature", loaded.signature[Now.at]>>), {})
         /\ Does(CodeTasks(Now.at), {Now.at}, {}, {})
<1> DEFINE c == Now.at
           tasks == CodeTasks(c)
           fr == CodeFrames(c)
           u == Note(<<"signature", loaded.signature[c]>>)
<1>1. Doing("code") BY DEF AddCode
<1>2. c \in Code /\ c \notin walk.seen /\ walk.todo # <<>> BY <1>1, NowIs DEF AddCode, Now
<1>3. walk' = Omitting([On(tasks, fr) EXCEPT !.seen = @ \cup {c}, !.spans = @ \cup {c}], u, {})
  BY DEF AddCode, CodeTasks, Now
<1>4. tasks \in Seq(Tasks) BY <1>2, CodeTasksAre
<1>5. IsSeq(fr) /\ IsSeq(u)
  <2>1. \A x, y, z : <<x, y, z>> \in Seq({x, y, z}) OBVIOUS
  <2>2. \A x, y, z : IsSeq(<<x, y, z>>) BY <2>1, SeqsJoin
  <2> QED BY <2>2, NoteIs DEF CodeFrames
<1> HIDE DEF tasks, fr, u
<1>6. /\ Moves(walk, walk', tasks, {c}, {}, fr, u, {})
      /\ Does(tasks, {c}, {}, {})
  BY <1>2, <1>3, <1>4, <1>5, StepMoves, Zenon
<1> QED BY <1>2, <1>6 DEF tasks, fr, u

LEMMA ModuleTasksAre ==
  ASSUME NEW m \in Mod, NEW label \in Label, NEW names \in Seq(Name)
  PROVE  ModuleTasks(m, label, names) \in Seq(Tasks)
<1> DEFINE s == Sub[m]
           a == [i \in DOMAIN names |-> Task("module", s[names[i]], Append(label, names[i]), names)]
<1>1. s \in [Name -> Mod \cup {Nothing}] BY HashAssumption
<1>2. ModuleTasks(m, label, names) = a BY DEF ModuleTasks
<1> HIDE DEF s
<1>3. \A i \in DOMAIN names : names[i] \in Name OBVIOUS
<1>4. \A i \in DOMAIN names : s[names[i]] \in Mod \cup {Nothing} /\ Append(label, names[i]) \in Label
  BY <1>1, <1>3, Labels
<1>5. \A i \in DOMAIN names :
        Task("module", s[names[i]], Append(label, names[i]), names) \in Tasks
  BY <1>4, TaskTypes
<1>6. a \in [1..Len(names) -> Tasks] /\ Len(names) \in Nat BY <1>5
<1> HIDE DEF a
<1> QED BY <1>2, <1>6, SeqFrom

LEMMA AddUserModuleDoes ==
  ASSUME Typed, AddUserModule
  PROVE  /\ Now.at \in Mod \ walk.seen /\ Now.names \in Seq(Name)
         /\ Moves(walk, walk', ModuleTasks(Now.at, Now.label, Now.names), {Now.at}, {},
                  <<<<"m", Now.label, Now.at, source.text[Now.at]>>>>, <<>>, TextMissed(Now.at))
         /\ Does(ModuleTasks(Now.at, Now.label, Now.names), {Now.at}, {}, TextMissed(Now.at))
<1> DEFINE m == Now.at
           tasks == ModuleTasks(m, Now.label, Now.names)
           fr == <<<<"m", Now.label, m, source.text[m]>>>>
           b == TextMissed(m)
<1>1. Doing("module") BY DEF AddUserModule
<1>2. m \in Mod \ walk.seen BY DEF AddUserModule, Now
<1>3. Now.label \in Label /\ Now.names \in Seq(Name) /\ walk.todo # <<>> BY <1>1, NowIs
<1>4. tasks = [i \in DOMAIN Followed(m, Now.names) |->
                 Task("module", Followed(m, Now.names)[i], Append(Now.label, Now.names[i]), Now.names)]
  BY DEF ModuleTasks, Followed
<1>5. walk' = Omitting([On(tasks, fr) EXCEPT !.seen = @ \cup {m}, !.spans = @ \cup {m}], <<>>, b)
  BY <1>4 DEF AddUserModule, TextMissed, Now
<1>6. tasks \in Seq(Tasks) BY <1>2, <1>3, ModuleTasksAre
<1>7. IsSeq(fr) /\ IsSeq(<<>>) BY SeqsJoin
<1> HIDE DEF tasks, fr, b
<1>8. /\ Moves(walk, walk', tasks, {m}, {}, fr, <<>>, b)
      /\ Does(tasks, {m}, {}, b)
  BY <1>2, <1>3, <1>5, <1>6, <1>7, StepMoves, Zenon
<1> QED BY <1>2, <1>3, <1>8 DEF tasks, fr, b

LEMMA ClassTasksAre ==
  ASSUME Typed, NEW k \in Cls PROVE ClassTasks(k) \in Seq(Tasks)
<1> DEFINE s == loaded.methods[k]
           a == [i \in DOMAIN s |-> Task("function", s[i][2], <<>>, <<>>)]
<1>1. s \in Seq(Name \X Fn) BY DEF Typed, Program
<1>2. ClassTasks(k) = a BY DEF ClassTasks
<1> HIDE DEF s
<1>3. \A i \in DOMAIN s : s[i] \in Name \X Fn BY <1>1
<1>4. \A i \in DOMAIN s : s[i][2] \in Fn BY <1>3
<1>5. \A i \in DOMAIN s : Task("function", s[i][2], <<>>, <<>>) \in Tasks BY <1>4, TaskTypes, Labels
<1>6. a \in [1..Len(s) -> Tasks] /\ Len(s) \in Nat BY <1>1, <1>5
<1> HIDE DEF a
<1> QED BY <1>2, <1>6, SeqFrom

LEMMA AddUserClassDoes ==
  ASSUME Typed, AddUserClass
  PROVE  /\ Now.at \in Cls \ walk.seen
         /\ Moves(walk, walk', ClassTasks(Now.at), {Now.at}, {}, <<<<"cls", Now.label, Now.at>>>>,
                  Note(<<"methods", [i \in DOMAIN loaded.methods[Now.at] |-> loaded.methods[Now.at][i][1]]>>),
                  BasesMissed(Now.at))
         /\ Does(ClassTasks(Now.at), {Now.at}, {}, BasesMissed(Now.at))
<1> DEFINE k == Now.at
           tasks == ClassTasks(k)
           fr == <<<<"cls", Now.label, k>>>>
           u == Note(<<"methods", [i \in DOMAIN loaded.methods[k] |-> loaded.methods[k][i][1]]>>)
           b == BasesMissed(k)
<1>1. Doing("class") BY DEF AddUserClass
<1>2. k \in Cls /\ k \notin walk.seen /\ walk.todo # <<>> BY <1>1, NowIs DEF AddUserClass, Now
<1>3. walk' = Omitting([On(tasks, fr) EXCEPT !.seen = @ \cup {k}], u, b)
  BY DEF AddUserClass, ClassTasks, BasesMissed, Now
<1>4. tasks \in Seq(Tasks) BY <1>2, ClassTasksAre
<1>5. IsSeq(fr) /\ IsSeq(u) BY SeqsJoin, NoteIs
<1> HIDE DEF tasks, fr, u, b
<1>6. /\ Moves(walk, walk', tasks, {k}, {}, fr, u, b)
      /\ Does(tasks, {k}, {}, b)
  BY <1>2, <1>3, <1>4, <1>5, StepMoves, Zenon
<1> QED BY <1>2, <1>6 DEF tasks, fr, u, b

-----------------------------------------------------------------------------
(* What was looked at stays closed                                         *)

LEMMA DoneIs ==
  ASSUME NEW tasks, NEW things, NEW fns, NEW unseen, Does(tasks, things, fns, unseen)
  PROVE  /\ tasks \in Seq(Tasks) /\ things \subseteq Code \cup Cls \cup Mod /\ walk.todo # <<>>
         /\ Shape(walk') /\ walk'.todo = tasks \o Tail(walk.todo)
         /\ walk'.seen = walk.seen \cup things
         /\ walk'.spans = walk.spans \cup (things \cap (Code \cup Mod))
         /\ walk'.met = walk.met \cup fns /\ walk'.blind = walk.blind \cup unseen
         /\ fns \subseteq Fn
         /\ IsSeq(walk.frames) /\ IsSeq(walk.unsaid) => IsSeq(walk'.frames) /\ IsSeq(walk'.unsaid)
BY SeqsJoin DEF Does, Moves, HasParts

LEMMA NowSeen ==
  ASSUME NEW tasks, NEW things, NEW fns, NEW unseen, Does(tasks, things, fns, unseen)
  PROVE  /\ walk'.seen = walk.seen \cup things /\ walk'.met = walk.met \cup fns
         /\ things = {} => walk'.seen = walk.seen
         /\ fns = {} => walk'.met = walk.met
<1>1. walk'.seen = walk.seen \cup things /\ walk'.met = walk.met \cup fns BY DoneIs
<1> QED BY <1>1

LEMMA DoesKeeps ==
  ASSUME Typed, NEW tasks, NEW things, NEW fns, NEW unseen, Does(tasks, things, fns, unseen),
         UNCHANGED <<source, loaded, phase, breaks>>
  PROVE  Typed'
<1>1. /\ tasks \in Seq(Tasks) /\ things \subseteq Code \cup Cls \cup Mod /\ walk.todo # <<>>
      /\ Shape(walk') /\ walk'.todo = tasks \o Tail(walk.todo)
      /\ walk'.seen = walk.seen \cup things /\ walk'.met = walk.met \cup fns /\ fns \subseteq Fn
      /\ IsSeq(walk'.frames) /\ IsSeq(walk'.unsaid)
  BY DoneIs DEF Typed, TypedWalk
<1>2. walk'.todo \in Seq(Tasks) BY <1>1, TodoIs DEF Typed, TypedWalk
<1>3. TypedWalk(walk') BY <1>1, <1>2 DEF Typed, TypedWalk
<1> QED BY <1>3 DEF Typed, TypedWalk, Shape

\* What is at hand is looked at, or waits; and what is newly looked at is
\* followed.
LEMMA DoesGoes ==
  ASSUME Typed, NEW tasks, NEW things, NEW fns, NEW unseen, Does(tasks, things, fns, unseen),
         loaded' = loaded, NEW M, NEW N, Closed(M), M \subseteq N,
         N \subseteq Mod \X Seq(Name), \A x \in N : x[1] \in walk.seen \cup things,
         \A x \in Pair : IsOf(Now, x) => (LookedAt(N, x) \/ Awaited(x))',
         \A x \in Pair : LookedAt(N, x)' /\ ~LookedAt(M, x) =>
           \A y \in Refers(loaded, x) : (LookedAt(N, y) \/ Awaited(y))'
  PROVE  Closed(N)'
<1>1. /\ tasks \in Seq(Tasks) /\ walk.todo # <<>>
      /\ walk'.todo = tasks \o Tail(walk.todo)
      /\ walk'.seen = walk.seen \cup things
      /\ walk'.spans = walk.spans \cup (things \cap (Code \cup Mod))
      /\ walk'.met = walk.met \cup fns
  BY DoneIs
<1>2. walk.seen \cap (Code \cup Mod) \subseteq walk.spans BY DEF Closed
<1>3. walk'.seen \cap (Code \cup Mod) \subseteq walk'.spans BY <1>1, <1>2
<1>4. \A x \in N : x[1] \in walk'.seen BY <1>1
<1>5. walk.seen \subseteq walk'.seen /\ walk.met \subseteq walk'.met BY <1>1
<1>6. \A x \in Pair : IsOf(walk.todo[1], x) => (LookedAt(N, x) \/ Awaited(x))' BY DEF Now
<1> QED BY <1>1, <1>3, <1>4, <1>5, <1>6, Goes

LEMMA DoesWaits ==
  ASSUME Typed, loaded' = loaded, NEW tasks, NEW things, NEW fns, NEW unseen, Does(tasks, things, fns, unseen),
         NEW x, NEW k \in DOMAIN tasks, IsOf(tasks[k], x)
  PROVE  Awaited(x)'
BY DoneIs, AddedWaits

\* Nothing more is seen or met.
LEMMA AsBefore ==
  ASSUME NEW tasks, NEW unseen, Does(tasks, {}, {}, unseen), loaded' = loaded, NEW M, NEW x
  PROVE  LookedAt(M, x)' <=> LookedAt(M, x)
<1>1. walk'.seen = walk.seen /\ walk'.met = walk.met BY NowSeen
<1>2. \A f : Captured(f)' = Captured(f) BY DEF Captured
<1> QED BY <1>1, <1>2 DEF LookedAt

\* What a task is about, but for the captures task.
LEMMA TaskIsOf ==
  ASSUME NEW does, does # "captures", NEW at, NEW label, NEW names, NEW x
  PROVE  IsOf(Task(does, at, label, names), x) <=> at = x[1] /\ (x[1] \in Mod => names = x[2])
BY TaskIs DEF IsOf

LEMMA NowIsOf ==
  ASSUME NEW does, Doing(does), does # "captures", NEW x
  PROVE  IsOf(Now, x) <=> Now.at = x[1] /\ (x[1] \in Mod => Now.names = x[2])
<1>1. Now.does # "captures" BY DEF Doing, Now
<1> QED BY <1>1 DEF IsOf

\* Only functions, code, classes and modules are to be looked at.
LEMMA NoneToLookAt ==
  ASSUME NEW M, NEW x, x[1] \notin Fn \cup Code \cup Cls \cup Mod PROVE LookedAt(M, x)'
BY DEF LookedAt

LEMMA AddGlobalCloses ==
  ASSUME Typed, AddGlobal, loaded' = loaded, NEW M, Closed(M) PROVE Closed(M)'
<1> DEFINE tasks == GlobalTasks(Now.at, Now.label, Now.names)
<1>1. Does(tasks, {}, {}, {}) BY AddGlobalDoes
<1>2. ASSUME NEW x \in Pair, IsOf(Now, x) PROVE (LookedAt(M, x) \/ Awaited(x))'
  <2> DEFINE T(does) == Task(does, Now.at, Now.label, Now.names)
  <2>1. Doing("global") BY DEF AddGlobal
  <2>2. Now.at = x[1] /\ (x[1] \in Mod => Now.names = x[2]) BY <1>2, <2>1, NowIsOf
  <2>3. CASE x[1] \in Fn \cup Mod \cup Cls
    <3>1. \E does \in {"function", "module", "class"} : tasks = <<T(does)>>
      BY <2>2, <2>3 DEF GlobalTasks
    <3>2. PICK does \in {"function", "module", "class"} : tasks = <<T(does)>> BY <3>1
    <3>3. 1 \in DOMAIN tasks /\ tasks[1] = T(does) /\ does # "captures" BY <3>2
    <3>4. IsOf(tasks[1], x) BY <2>2, <3>3, TaskIsOf
    <3> HIDE DEF tasks
    <3> QED BY <1>1, <3>3, <3>4, DoesWaits
  <2>4. CASE x[1] \notin Fn \cup Mod \cup Cls
    <3>1. x[1] \in Object \cup {Nothing} BY <2>1, <2>2, NowIs
    <3>2. x[1] \notin Code BY <2>4, <3>1, HashAssumption DEF Object
    <3> QED BY <2>4, <3>2, NoneToLookAt
  <2> QED BY <2>3, <2>4
<1> HIDE DEF tasks
<1>3. \A x \in Pair : ~(LookedAt(M, x)' /\ ~LookedAt(M, x)) BY <1>1, AsBefore
<1>4. M \subseteq Mod \X Seq(Name) /\ \A x \in M : x[1] \in walk.seen \cup {} BY DEF Closed
<1> QED BY <1>1, <1>2, <1>3, <1>4, DoesGoes

LEMMA NoSubmoduleCloses ==
  ASSUME Typed, NoSubmodule, loaded' = loaded, NEW M, Closed(M) PROVE Closed(M)'
<1>1. Does(<<>>, {}, {}, {}) BY NoSubmoduleDoes
<1>2. ASSUME NEW x \in Pair, IsOf(Now, x) PROVE (LookedAt(M, x) \/ Awaited(x))'
  <2>1. x[1] = Nothing BY <1>2, NowIsOf DEF NoSubmodule, Now
  <2>2. x[1] \notin Fn \cup Code \cup Cls \cup Mod BY <2>1, HashAssumption DEF Object
  <2> QED BY <2>2, NoneToLookAt
<1>3. \A x \in Pair : ~(LookedAt(M, x)' /\ ~LookedAt(M, x)) BY <1>1, AsBefore
<1>4. M \subseteq Mod \X Seq(Name) /\ \A x \in M : x[1] \in walk.seen \cup {} BY DEF Closed
<1> QED BY <1>1, <1>2, <1>3, <1>4, DoesGoes

LEMMA MeetCodeAgainCloses ==
  ASSUME Typed, MeetCodeAgain, loaded' = loaded, walk'.blind \subseteq {"edited"},
         NEW M, Closed(M)
  PROVE  Closed(M)'
<1>1. CodeNow \in walk.seen /\ Does(<<>>, {}, {}, CapturesMissed) BY MeetCodeAgainDoes
<1>2. CapturesMissed = {}
  <2>1. walk'.blind = walk.blind \cup CapturesMissed BY <1>1, DoneIs
  <2>2. CapturesMissed \subseteq {"edited"} BY <2>1
  <2> QED BY <2>2 DEF CapturesMissed
<1>3. Doing("function") \/ Doing("code") BY DEF MeetCodeAgain
<1>4. ASSUME NEW x \in Pair, IsOf(Now, x) PROVE LookedAt(M, x)
  <2>1. Now.at = x[1] BY <1>3, <1>4, NowIsOf
  <2>2. CASE Doing("function")
    <3>1. x[1] \in Fn /\ Now.does = "function" BY <2>1, <2>2, NowIs
    <3>2. CodeOf[x[1]] \in walk.seen BY <1>1, <2>1, <3>1 DEF CodeNow
    <3>3. \/ loaded.captures[x[1]] = <<>>
          \/ \E g \in walk.met : CodeOf[g] = CodeOf[x[1]] /\ Captured(g) = Captured(x[1])
      <4>1. ~OtherCaptured(x[1]) BY <1>2, <2>1, <3>1 DEF CapturesMissed
      <4> DEFINE met == {g \in walk.met : CodeOf[g] = CodeOf[x[1]]}
      <4>2. IF met = {} THEN loaded.captures[x[1]] = <<>>
            ELSE \A g \in met : Captured(g) = Captured(x[1])
        BY <4>1 DEF OtherCaptured
      <4> QED BY <4>2
    <3>4. x[1] \notin Code \cup Cls \cup Mod BY <3>1, HashAssumption
    <3> QED BY <3>2, <3>3, <3>4 DEF LookedAt
  <2>3. CASE Doing("code")
    <3>1. x[1] \in Code /\ Now.does = "code" BY <2>1, <2>3, NowIs
    <3>2. x[1] \in walk.seen BY <1>1, <2>1, <3>1 DEF CodeNow
    <3>3. x[1] \notin Fn \cup Mod BY <3>1, HashAssumption
    <3> QED BY <3>2, <3>3 DEF LookedAt
  <2> QED BY <1>3, <2>2, <2>3
<1>5. \A x \in Pair : IsOf(Now, x) => (LookedAt(M, x) \/ Awaited(x))' BY <1>1, <1>4, AsBefore
<1>6. \A x \in Pair : ~(LookedAt(M, x)' /\ ~LookedAt(M, x)) BY <1>1, AsBefore
<1>7. M \subseteq Mod \X Seq(Name) /\ \A x \in M : x[1] \in walk.seen \cup {} BY DEF Closed
<1> QED BY <1>1, <1>5, <1>6, <1>7, DoesGoes

\* What is passed over was looked at: a module, with all that the names lead
\* to from it.
LEMMA PassOverCloses ==
  ASSUME Typed, PassOver, loaded' = loaded, walk'.blind \subseteq {"edited"},
         NEW M, Closed(M)
  PROVE  \E N : Closed(N)'
<1>1. Now.at \in walk.seen /\ Does(<<>>, {}, {}, FollowsMissed) BY PassOverDoes
<1>2. FollowsMissed = {}
  <2>1. walk'.blind = walk.blind \cup FollowsMissed BY <1>1, DoneIs
  <2>2. FollowsMissed \subseteq {"edited"} BY <2>1
  <2> QED BY <2>2 DEF FollowsMissed
<1>3. Doing("module") \/ Doing("class") BY DEF PassOver
<1>4. M \subseteq Mod \X Seq(Name) /\ \A x \in M : x[1] \in walk.seen BY DEF Closed
<1>5. walk'.seen = walk.seen /\ walk'.met = walk.met BY <1>1, NowSeen
<1>6. CASE Now.at \in Cls
  <2>1. ASSUME NEW x \in Pair, IsOf(Now, x) PROVE LookedAt(M, x)
    <3>1. x[1] \in Cls /\ x[1] \in walk.seen BY <1>1, <1>3, <1>6, <2>1, NowIsOf
    <3>2. x[1] \notin Fn \cup Mod BY <3>1, HashAssumption
    <3> QED BY <3>1, <3>2 DEF LookedAt
  <2>2. \A x \in Pair : IsOf(Now, x) => (LookedAt(M, x) \/ Awaited(x))' BY <1>1, <2>1, AsBefore
  <2>3. \A x \in Pair : ~(LookedAt(M, x)' /\ ~LookedAt(M, x)) BY <1>1, AsBefore
  <2>4. \A x \in M : x[1] \in walk.seen \cup {} BY <1>4
  <2>5. Closed(M)' BY <1>1, <1>4, <2>2, <2>3, <2>4, DoesGoes
  <2> QED BY <2>5
<1>7. CASE Now.at \notin Cls
  <2>1. Now.at \in Mod /\ Now.names \in Seq(Name)
    <3>1. Doing("module") BY <1>3, <1>7, NowIs
    <3>2. Now.at \in Mod \cup {Nothing} /\ Now.names \in Seq(Name) BY <3>1, NowIs
    <3>3. Nothing \notin walk.seen BY HashAssumption DEF Typed, TypedWalk, Object
    <3> QED BY <1>1, <3>2, <3>3
  <2>2. PICK at \in Mod, ns \in Seq(Name) : at = Now.at /\ ns = Now.names BY <2>1
  <2>3. AllFollowed(at, ns) BY <1>2, <2>2 DEF FollowsMissed
  <2>4. PICK S \in SUBSET (walk.seen \cap Mod) :
          /\ at \in S
          /\ \A x \in S : \A i \in DOMAIN ns : Sub[x][ns[i]] \in S \cup {Nothing}
    BY <2>3 DEF AllFollowed
  <2> DEFINE N == M \cup (S \X {ns})
  <2>5. N \subseteq Mod \X Seq(Name) /\ M \subseteq N BY <1>4, <2>2, <2>4
  <2>6. \A x \in N : x[1] \in walk.seen \cup {} BY <1>4, <2>4
  <2>7. ASSUME NEW x \in Pair, IsOf(Now, x) PROVE LookedAt(N, x)'
    <3>1. x[1] = at /\ x[2] = ns BY <1>3, <2>2, <2>7, NowIsOf
    <3>2. x \in N BY <2>4, <3>1 DEF Pair
    <3>3. x[1] \notin Fn \cup Code \cup Cls BY <2>2, <3>1, HashAssumption
    <3> QED BY <3>2, <3>3 DEF LookedAt
  <2>8. ASSUME NEW x \in Pair, LookedAt(N, x)', ~LookedAt(M, x),
               NEW y \in Refers(loaded, x)
        PROVE  LookedAt(N, y)'
    <3>1. x[1] \in Mod /\ x \in N \ M
      <4>1. \A f : Captured(f)' = Captured(f) BY DEF Captured
      <4> QED BY <1>5, <2>8, <4>1 DEF LookedAt
    <3>2. x[1] \in S /\ x[2] = ns BY <3>1
    <3>3. x[1] \notin Fn \cup Code \cup Cls BY <3>1, HashAssumption
    <3>4. Refers(loaded, x) = {<<Sub[x[1]][x[2][i]], x[2]>> : i \in DOMAIN x[2]}
      BY <2>8, <3>1, RefersIs DEF Typed
    <3>5. PICK i \in DOMAIN ns : y = <<Sub[x[1]][ns[i]], ns>> BY <2>8, <3>2, <3>4
    <3>6. CASE y[1] \in S
      <4>1. y \in N BY <3>5, <3>6
      <4>2. y[1] \notin Fn \cup Code \cup Cls BY <3>6, <2>4, HashAssumption
      <4> QED BY <4>1, <4>2 DEF LookedAt
    <3>7. CASE y[1] = Nothing
      <4>1. y[1] \notin Fn \cup Code \cup Cls \cup Mod BY <3>7, HashAssumption DEF Object
      <4> QED BY <4>1, NoneToLookAt
    <3> QED BY <2>4, <3>2, <3>5, <3>6, <3>7
  <2> HIDE DEF N
  <2>9. Closed(N)' BY <1>1, <2>5, <2>6, <2>7, <2>8, DoesGoes
  <2> QED BY <2>9
<1> QED BY <1>6, <1>7

LEMMA AddFunctionCloses ==
  ASSUME Typed, AddFunction, loaded' = loaded, NEW M, Closed(M) PROVE Closed(M)'
<1>1. PICK f : f = Now.at OBVIOUS
<1>2. f \in Fn /\ CodeOf[f] \notin walk.seen /\ Does(FunctionTasks(f), {}, {f}, {})
  BY <1>1, AddFunctionDoes
<1>3. walk'.seen = walk.seen /\ walk'.met = walk.met \cup {f} BY <1>2, NowSeen
<1>4. f \notin Code \cup Cls \cup Mod BY <1>2, HashAssumption
<1>5. ASSUME NEW x \in Pair, IsOf(Now, x) PROVE LookedAt(M, x)'
  <2>1. Doing("function") BY DEF AddFunction
  <2>2. x[1] = f BY <1>1, <1>5, <2>1, NowIsOf
  <2> QED BY <1>3, <1>4, <2>2 DEF LookedAt
<1>6. ASSUME NEW x \in Pair, LookedAt(M, x)', ~LookedAt(M, x), NEW y \in Refers(loaded, x)
      PROVE  Awaited(y)'
  <2>1. x[1] = f
    <3>1. \A g : Captured(g)' = Captured(g) BY DEF Captured
    <3>2. CASE x[1] \in Fn /\ CodeOf[x[1]] = CodeOf[f] BY <1>2, <1>3, <1>6, <3>2 DEF LookedAt
    <3>3. CASE x[1] \in Fn /\ CodeOf[x[1]] # CodeOf[f] BY <1>3, <1>6, <3>1, <3>3 DEF LookedAt
    <3>4. CASE x[1] \notin Fn BY <1>3, <1>6, <3>4 DEF LookedAt
    <3> QED BY <3>2, <3>3, <3>4
  <2> DEFINE s == loaded.captures[f]
             ns == loaded.names[CodeOf[f]]
             c == CodeOf[f]
             t == Task("captures", f, <<1>>, <<>>)
  <2>2. Refers(loaded, x) = {<<c, <<>>>>} \cup {<<s[i], ns>> : i \in DOMAIN s}
    BY <1>2, <2>1, RefersIs DEF Typed
  <2>3. s \in Seq(Object) BY <1>2 DEF Typed, Program
  <2>4. IsOf(t, y) <=> y = <<c, <<>>>> \/ \E j \in DOMAIN s : j >= 1 /\ y = <<s[j], ns>>
    BY TaskIs DEF IsOf
  <2> HIDE DEF s, ns, c
  <2>5. \A j \in DOMAIN s : j >= 1 BY <2>3
  <2>6. IsOf(t, y) BY <1>6, <2>2, <2>4, <2>5
  <2> DEFINE tasks == FunctionTasks(f)
  <2>7. 1 \in DOMAIN tasks /\ tasks[1] = t BY DEF FunctionTasks
  <2> HIDE DEF tasks, t
  <2>8. Does(tasks, {}, {f}, {}) BY <1>2 DEF tasks
  <2> QED BY <2>6, <2>7, <2>8, DoesWaits
<1>7. M \subseteq Mod \X Seq(Name) /\ \A x \in M : x[1] \in walk.seen \cup {} BY DEF Closed
<1> QED BY <1>2, <1>5, <1>6, <1>7, DoesGoes

\* What is captured waits, one after another, and then the code.
LEMMA AddCapturesCloses ==
  ASSUME Typed, AddCaptures, loaded' = loaded, NEW M, Closed(M) PROVE Closed(M)'
<1>1. PICK f, i : f = Now.at /\ i = Now.label[1] OBVIOUS
<1>2. f \in Fn /\ i \in Nat \ {0} /\ Does(CapturesTasks(f, i), {}, {}, {}) BY <1>1, AddCapturesDoes
<1>3. ASSUME NEW x \in Pair, IsOf(Now, x) PROVE Awaited(x)'
  <2> DEFINE s == loaded.captures[f]
             ns == loaded.names[CodeOf[f]]
             c == CodeOf[f]
             a == Task("global", s[i], <<i>>, ns)
             b == Task("captures", f, <<i + 1>>, <<>>)
             d == Task("code", c, <<>>, <<>>)
             tasks == CapturesTasks(f, i)
  <2>1. Now.does = "captures" BY DEF AddCaptures, Doing, Now
  <2>2. x = <<c, <<>>>> \/ \E j \in DOMAIN s : j >= i /\ x = <<s[j], ns>>
    BY <1>1, <1>3, <2>1 DEF IsOf
  <2>3. IsOf(b, x) <=> x = <<c, <<>>>> \/ \E j \in DOMAIN s : j >= i + 1 /\ x = <<s[j], ns>>
    BY TaskIs DEF IsOf
  <2>4. IsOf(a, x) <=> s[i] = x[1] /\ (x[1] \in Mod => ns = x[2]) BY TaskIsOf
  <2>5. IsOf(d, x) <=> c = x[1] /\ (x[1] \in Mod => <<>> = x[2]) BY TaskIsOf
  <2>6. tasks = IF i \in DOMAIN s THEN <<a, b>> ELSE <<d>> BY DEF CapturesTasks
  <2>7. Does(tasks, {}, {}, {}) BY <1>2
  <2>8. s \in Seq(Object) BY <1>2 DEF Typed, Program
  <2> HIDE DEF s, ns, c, a, b, d, tasks
  <2>9. CASE i \in DOMAIN s
    <3>1. 1 \in DOMAIN tasks /\ tasks[1] = a /\ 2 \in DOMAIN tasks /\ tasks[2] = b BY <2>6, <2>9
    <3>2. IsOf(a, x) \/ IsOf(b, x)
      <4>1. CASE x = <<s[i], ns>> BY <2>4, <4>1
      <4>2. CASE x # <<s[i], ns>>
        <5>1. \A j \in DOMAIN s : j >= i => j = i \/ j >= i + 1 BY <1>2, <2>8
        <5> QED BY <2>2, <2>3, <4>2, <5>1
      <4> QED BY <4>1, <4>2
    <3> QED BY <2>7, <3>1, <3>2, DoesWaits
  <2>10. CASE i \notin DOMAIN s
    <3>1. 1 \in DOMAIN tasks /\ tasks[1] = d BY <2>6, <2>10
    <3>2. \A j \in DOMAIN s : ~(j >= i) BY <1>2, <2>8, <2>10
    <3>3. IsOf(d, x) BY <2>2, <2>5, <3>2
    <3> QED BY <2>7, <3>1, <3>3, DoesWaits
  <2> QED BY <2>9, <2>10
<1>4. \A x \in Pair : ~(LookedAt(M, x)' /\ ~LookedAt(M, x)) BY <1>2, AsBefore
<1>5. M \subseteq Mod \X Seq(Name) /\ \A x \in M : x[1] \in walk.seen \cup {} BY DEF Closed
<1> QED BY <1>2, <1>3, <1>4, <1>5, DoesGoes

LEMMA AddCodeCloses ==
  ASSUME Typed, AddCode, loaded' = loaded, NEW M, Closed(M) PROVE Closed(M)'
<1>1. PICK c : c = Now.at OBVIOUS
<1>2. c \in Code \ walk.seen /\ Does(CodeTasks(c), {c}, {}, {}) BY <1>1, AddCodeDoes
<1>3. walk'.seen = walk.seen \cup {c} /\ walk'.met = walk.met BY <1>2, NowSeen
<1>4. c \notin Fn \cup Cls \cup Mod BY <1>2, HashAssumption
<1>5. ASSUME NEW x \in Pair, x[1] = c PROVE LookedAt(M, x)' BY <1>3, <1>4, <1>5 DEF LookedAt
<1>6. \A x \in Pair : IsOf(Now, x) => LookedAt(M, x)'
  <2>1. Doing("code") BY DEF AddCode
  <2> QED BY <1>1, <1>5, <2>1, NowIsOf
<1>7. ASSUME NEW x \in Pair, LookedAt(M, x)', ~LookedAt(M, x), NEW y \in Refers(loaded, x)
      PROVE  (LookedAt(M, y) \/ Awaited(y))'
  <2>1. CASE x[1] \in Fn
    <3>1. CodeOf[x[1]] = c
      <4>1. x[1] \notin Code \cup Cls \cup Mod BY <2>1, HashAssumption
      <4>2. \A f : Captured(f)' = Captured(f) BY DEF Captured
      <4> QED BY <1>3, <1>7, <2>1, <4>1, <4>2 DEF LookedAt
    <3> DEFINE s == loaded.captures[x[1]]
               ns == loaded.names[c]
    <3>2. Refers(loaded, x) = {<<c, <<>>>>} \cup {<<s[i], ns>> : i \in DOMAIN s}
      <4>1. Refers(loaded, x)
             = {<<CodeOf[x[1]], <<>>>>}
                 \cup {<<loaded.captures[x[1]][i], loaded.names[CodeOf[x[1]]]>> :
                         i \in DOMAIN loaded.captures[x[1]]}
        BY <2>1, RefersIs, Zenon DEF Typed
      <4> QED BY <3>1, <4>1
    <3>3. CASE y = <<c, <<>>>>
      <4>1. y \in Pair /\ y[1] = c BY <1>2, <3>3, Labels DEF Pair
      <4> QED BY <1>5, <4>1
    <3>4. ASSUME NEW i \in DOMAIN s, y = <<s[i], ns>> PROVE (LookedAt(M, y) \/ Awaited(y))'
      <4>1. CASE s[i] \in Mutable
        <5>1. y[1] \notin Fn \cup Code \cup Cls \cup Mod BY <3>4, <4>1, HashAssumption
        <5> QED BY <5>1, NoneToLookAt
      <4>2. CASE s[i] \notin Mutable
        <5>1. PICK g \in walk.met : CodeOf[g] = c /\ Captured(g) = Captured(x[1])
          <6>1. x[1] \notin walk.met BY <1>2, <1>7, <2>1, HashAssumption DEF LookedAt
          <6>2. s # <<>> BY <3>4
          <6>3. \A f : Captured(f)' = Captured(f) BY DEF Captured
          <6> QED BY <1>3, <1>7, <2>1, <3>1, <6>1, <6>2, <6>3 DEF LookedAt
        <5> DEFINE r == loaded.captures[g]
        <5>2. g \in Fn /\ g \notin Code \cup Cls \cup Mod BY HashAssumption DEF Typed, TypedWalk
        <5>3. i \in DOMAIN r /\ r[i] = s[i]
          <6>1. /\ Captured(g) = [k \in DOMAIN r |-> IF r[k] \in Mutable THEN TypeOf[r[k]] ELSE r[k]]
                /\ Captured(x[1]) = [k \in DOMAIN s |-> IF s[k] \in Mutable THEN TypeOf[s[k]] ELSE s[k]]
            BY DEF Captured
          <6>2. (\A o \in Mutable : TypeOf[o] \notin Object) /\ s \in Seq(Object)
            BY <2>1, HashAssumption DEF Typed, Program
          <6> HIDE DEF r, s
          <6>3. DOMAIN r = DOMAIN s BY <5>1, <6>1
          <6>4. s[i] = IF r[i] \in Mutable THEN TypeOf[r[i]] ELSE r[i]
            BY <3>4, <4>2, <5>1, <6>1, <6>3
          <6>5. s[i] \in Object BY <3>4, <6>2
          <6> QED BY <3>4, <6>2, <6>3, <6>4, <6>5
        <5>4. <<g, <<>>>> \in Pair /\ LookedAt(M, <<g, <<>>>>)
          BY <5>2, Kinds DEF LookedAt, Pair, Object
        <5>5. y \in Refers(loaded, <<g, <<>>>>)
          <6>1. Refers(loaded, <<g, <<>>>>) = {<<CodeOf[g], <<>>>>} \cup
                  {<<loaded.captures[g][k], loaded.names[CodeOf[g]]>> : k \in DOMAIN loaded.captures[g]}
            BY <5>2, <5>4, RefersIs DEF Typed
          <6> QED BY <3>4, <5>1, <5>3, <6>1
        <5>6. LookedAt(M, y) \/ Awaited(y) BY <5>4, <5>5 DEF Closed
        <5>7. y \in Pair BY RefersInPair DEF Typed
        <5> DEFINE tasks == CodeTasks(c)
        <5>8. /\ tasks \in Seq(Tasks) /\ walk.todo # <<>> /\ walk'.todo = tasks \o Tail(walk.todo)
              /\ walk.seen \subseteq walk'.seen /\ walk.met \subseteq walk'.met
          BY <1>2, <1>3, DoneIs
        <5> HIDE DEF tasks
        <5>9. IsOf(walk.todo[1], y) => LookedAt(M, y)' BY <1>6, <5>7 DEF Now
        <5> QED BY <5>6, <5>8, <5>9, Remains
      <4> QED BY <4>1, <4>2
    <3> QED BY <1>7, <3>2, <3>3, <3>4
  <2>2. CASE x[1] \notin Fn
    <3>1. x[1] = c BY <1>3, <1>7, <2>2 DEF LookedAt
    <3> DEFINE s == Inner[c]
               ns == loaded.names[c]
               bound == loaded.bound
               tasks == CodeTasks(c)
    <3>2. s \in Seq(Code) /\ ns \in Seq(Name) BY <1>2, HashAssumption DEF Typed, Program
    <3>3. Refers(loaded, x) = {<<s[i], <<>>>> : i \in DOMAIN s} \cup
                                {<<bound[ns[i]], ns>> : i \in DOMAIN ns}
      <4>1. loaded \in Program /\ x \in Pair /\ x[1] \in Code BY <1>2, <1>7, <3>1 DEF Typed
      <4>2. Refers(loaded, x) = {<<Inner[x[1]][i], <<>>>> : i \in DOMAIN Inner[x[1]]} \cup
              {<<bound[loaded.names[x[1]][i]], loaded.names[x[1]]>> : i \in DOMAIN loaded.names[x[1]]}
        BY <4>1, RefersIs
      <4> QED BY <3>1, <4>2
    <3>4. tasks = [i \in DOMAIN s |-> Task("code", s[i], <<>>, <<>>)]
                    \o [i \in DOMAIN ns |-> Task("global", bound[ns[i]], <<ns[i]>>, ns)]
      BY DEF CodeTasks
    <3>5. Does(tasks, {c}, {}, {}) BY <1>2
    <3> HIDE DEF s, ns, bound, tasks
    <3>6. DOMAIN s = 1..Len(s) /\ Len(s) \in Nat /\ DOMAIN ns = 1..Len(ns) /\ Len(ns) \in Nat
      BY <3>2
    <3>7. ASSUME NEW i \in DOMAIN s, y = <<s[i], <<>>>> PROVE Awaited(y)'
      <4>1. i \in DOMAIN tasks /\ tasks[i] = Task("code", s[i], <<>>, <<>>) BY <3>4, <3>6
      <4>2. s[i] \in Code BY <3>2
      <4>3. IsOf(tasks[i], y)
        <5>1. y[1] = s[i] /\ y[1] \notin Mod BY <3>7, <4>2, HashAssumption
        <5>2. IsOf(Task("code", s[i], <<>>, <<>>), y) BY <5>1, TaskIsOf
        <5> QED BY <4>1, <5>2
      <4> QED BY <3>5, <4>1, <4>3, DoesWaits
    <3>8. ASSUME NEW i \in DOMAIN ns, y = <<bound[ns[i]], ns>> PROVE Awaited(y)'
      <4>1. /\ Len(s) + i \in DOMAIN tasks
            /\ tasks[Len(s) + i] = Task("global", bound[ns[i]], <<ns[i]>>, ns)
        BY <3>4, <3>6
      <4>2. IsOf(tasks[Len(s) + i], y) BY <3>8, <4>1, TaskIsOf
      <4> QED BY <3>5, <4>1, <4>2, DoesWaits
    <3> QED BY <1>7, <3>3, <3>7, <3>8
  <2> QED BY <2>1, <2>2
<1>8. M \subseteq Mod \X Seq(Name) /\ \A x \in M : x[1] \in walk.seen \cup {c} BY DEF Closed
<1> QED BY <1>2, <1>6, <1>7, <1>8, DoesGoes

LEMMA AddUserClassCloses ==
  ASSUME Typed, AddUserClass, loaded' = loaded, walk'.blind \subseteq {"edited"},
         NEW M, Closed(M)
  PROVE  Closed(M)'
<1>1. PICK k : k = Now.at OBVIOUS
<1>2. k \in Cls \ walk.seen /\ Does(ClassTasks(k), {k}, {}, BasesMissed(k))
  BY <1>1, AddUserClassDoes
<1>3. walk'.seen = walk.seen \cup {k} /\ walk'.met = walk.met BY <1>2, NowSeen
<1>4. k \notin Fn \cup Code \cup Mod BY <1>2, HashAssumption
<1>5. Bases[k] = <<>>
  <2>1. walk'.blind = walk.blind \cup BasesMissed(k) BY <1>2, DoneIs
  <2>2. BasesMissed(k) \subseteq {"edited"} BY <2>1
  <2> QED BY <2>2 DEF BasesMissed
<1>6. ASSUME NEW x \in Pair, IsOf(Now, x) PROVE LookedAt(M, x)'
  <2>1. Doing("class") BY DEF AddUserClass
  <2>2. x[1] = k BY <1>1, <1>6, <2>1, NowIsOf
  <2> QED BY <1>3, <1>4, <2>2 DEF LookedAt
<1>7. ASSUME NEW x \in Pair, LookedAt(M, x)', ~LookedAt(M, x), NEW y \in Refers(loaded, x)
      PROVE  Awaited(y)'
  <2>1. x[1] = k
    <3>1. \A f \in Fn : CodeOf[f] # k BY <1>4, HashAssumption
    <3>2. \A f : Captured(f)' = Captured(f) BY DEF Captured
    <3> QED BY <1>3, <1>7, <3>1, <3>2 DEF LookedAt
  <2> DEFINE s == loaded.methods[k]
             tasks == ClassTasks(k)
             bs == Bases[k]
  <2>2. s \in Seq(Name \X Fn) BY <1>2 DEF Typed, Program
  <2>3. Refers(loaded, x) = {<<bs[i], <<>>>> : i \in DOMAIN bs} \cup
                              {<<s[i][2], <<>>>> : i \in DOMAIN s}
    <3>1. loaded \in Program /\ x \in Pair /\ x[1] \in Cls BY <1>2, <1>7, <2>1 DEF Typed
    <3>2. Refers(loaded, x) = {<<Bases[x[1]][i], <<>>>> : i \in DOMAIN Bases[x[1]]} \cup
            {<<loaded.methods[x[1]][i][2], <<>>>> : i \in DOMAIN loaded.methods[x[1]]}
      BY <3>1, RefersIs
    <3> QED BY <2>1, <3>2
  <2>4. tasks = [i \in DOMAIN s |-> Task("function", s[i][2], <<>>, <<>>)] BY DEF ClassTasks
  <2>5. Does(tasks, {k}, {}, BasesMissed(k)) /\ bs = <<>> BY <1>2, <1>5
  <2> HIDE DEF s, tasks, bs
  <2>6. DOMAIN bs = {} BY <2>5
  <2>7. PICK i \in DOMAIN s : y = <<s[i][2], <<>>>> BY <1>7, <2>3, <2>6
  <2>8. i \in DOMAIN tasks /\ tasks[i] = Task("function", s[i][2], <<>>, <<>>) BY <2>4
  <2>9. IsOf(tasks[i], y)
    <3>1. s[i] \in Name \X Fn BY <2>2
    <3>2. s[i][2] \notin Mod BY <3>1, HashAssumption
    <3> QED BY <2>7, <2>8, <3>2, TaskIsOf
  <2> QED BY <2>5, <2>8, <2>9, DoesWaits
<1>8. M \subseteq Mod \X Seq(Name) /\ \A x \in M : x[1] \in walk.seen \cup {k} BY DEF Closed
<1> QED BY <1>2, <1>6, <1>7, <1>8, DoesGoes

LEMMA AddUserModuleCloses ==
  ASSUME Typed, AddUserModule, loaded' = loaded, NEW M, Closed(M) PROVE \E N : Closed(N)'
<1>1. PICK m, ns, tasks, b : m = Now.at /\ ns = Now.names
        /\ tasks = ModuleTasks(Now.at, Now.label, Now.names) /\ b = TextMissed(Now.at)
  OBVIOUS
<1>2. m \in Mod \ walk.seen /\ ns \in Seq(Name) /\ Does(tasks, {m}, {}, b)
  BY <1>1, AddUserModuleDoes
<1>3. walk'.seen = walk.seen \cup {m} /\ walk'.met = walk.met BY <1>2, NowSeen
<1>4. m \notin Fn \cup Code \cup Cls BY <1>2, HashAssumption
<1> DEFINE N == M \cup {<<m, ns>>}
<1>5. M \subseteq Mod \X Seq(Name) /\ \A x \in M : x[1] \in walk.seen BY DEF Closed
<1>6. N \subseteq Mod \X Seq(Name) /\ M \subseteq N BY <1>2, <1>5
<1>7. \A x \in N : x[1] \in walk.seen \cup {m} BY <1>5
<1>8. ASSUME NEW x \in Pair, IsOf(Now, x) PROVE LookedAt(N, x)'
  <2>1. Doing("module") BY DEF AddUserModule
  <2>2. x[1] = m /\ x[2] = ns BY <1>1, <1>2, <1>8, <2>1, NowIsOf
  <2>3. x \in N BY <2>2 DEF Pair
  <2> QED BY <1>4, <2>2, <2>3 DEF LookedAt
<1>9. ASSUME NEW x \in Pair, LookedAt(N, x)', ~LookedAt(M, x), NEW y \in Refers(loaded, x)
      PROVE  Awaited(y)'
  <2>1. x = <<m, ns>>
    <3>1. \A f \in Fn : CodeOf[f] # m BY <1>4, HashAssumption
    <3>2. CASE x[1] \notin Mod
      <4>1. \A f : Captured(f)' = Captured(f) BY DEF Captured
      <4> QED BY <1>2, <1>3, <1>9, <3>1, <3>2, <4>1 DEF LookedAt
    <3>3. CASE x[1] \in Mod
      <4>1. x[1] \notin Fn \cup Code \cup Cls BY <3>3, HashAssumption
      <4>2. x \in N \ M BY <1>9, <3>3, <4>1 DEF LookedAt
      <4> QED BY <4>2
    <3> QED BY <3>2, <3>3
  <2>2. Refers(loaded, x) = {<<Sub[m][ns[i]], ns>> : i \in DOMAIN ns}
    BY <1>2, <2>1, RefersIs DEF Typed
  <2>3. PICK i \in DOMAIN ns : y = <<Sub[m][ns[i]], ns>> BY <1>9, <2>2
  <2>4. /\ i \in DOMAIN tasks
        /\ tasks[i] = Task("module", Sub[m][ns[i]], Append(Now.label, ns[i]), ns)
    BY <1>1 DEF ModuleTasks
  <2>5. IsOf(tasks[i], y) BY <2>3, <2>4, TaskIsOf
  <2> QED BY <1>2, <2>4, <2>5, DoesWaits
<1> HIDE DEF N
<1>10. Closed(N)' BY <1>2, <1>6, <1>7, <1>8, <1>9, DoesGoes
<1> QED BY <1>10

-----------------------------------------------------------------------------
(* The types                                                               *)

LEMMA InitIsProgram ==
  ASSUME Init PROVE source \in Program
<1>1. \A c \in Code : (CHOOSE s \in Names[c] : TRUE) \in Seq(Name) BY HashAssumption
<1>2. \A f \in Fn : (CHOOSE s \in Captures[f] : TRUE) \in Seq(Object) BY HashAssumption
<1>3. \A k \in Cls : (CHOOSE s \in Methods[k] : TRUE) \in Seq(Name \X Fn) BY HashAssumption
<1> DEFINE zero == [c \in Code |-> 0]
           text == [m \in Mod |-> 0]
           names == [c \in Code |-> CHOOSE s \in Names[c] : TRUE]
           captures == [f \in Fn |-> CHOOSE s \in Captures[f] : TRUE]
           methods == [k \in Cls |-> CHOOSE s \in Methods[k] : TRUE]
<1>4. zero \in [Code -> Int] /\ text \in [Mod -> Int] OBVIOUS
<1>5. names \in [Code -> Seq(Name)] /\ captures \in [Fn -> Seq(Object)]
      /\ methods \in [Cls -> Seq(Name \X Fn)]
  BY <1>1, <1>2, <1>3
<1>6. source \in [body : {zero}, literal : {zero}, signature : {zero}, text : {text},
                  version : {0}, names : {names}, captures : {captures}, methods : {methods},
                  bound : [Name -> Object \cup {Nothing}]]
  BY DEF Init
<1> HIDE DEF zero, text, names, captures, methods
<1> QED BY <1>4, <1>5, <1>6 DEF Program

LEMMA ProgramWith ==
  ASSUME NEW p \in Program
  PROVE  /\ \A v \in [Code -> Int] : [p EXCEPT !.body = v] \in Program
         /\ \A v \in [Code -> Int] : [p EXCEPT !.literal = v] \in Program
         /\ \A v \in [Code -> Int] : [p EXCEPT !.signature = v] \in Program
         /\ \A v \in [Mod -> Int] : [p EXCEPT !.text = v] \in Program
         /\ \A v \in Int : [p EXCEPT !.version = v] \in Program
         /\ \A v \in [Code -> Seq(Name)] : [p EXCEPT !.names = v] \in Program
         /\ \A v \in [Fn -> Seq(Object)] : [p EXCEPT !.captures = v] \in Program
         /\ \A v \in [Cls -> Seq(Name \X Fn)] : [p EXCEPT !.methods = v] \in Program
         /\ \A v \in [Name -> Object \cup {Nothing}] : [p EXCEPT !.bound = v] \in Program
<1>1. p = [body |-> p.body, literal |-> p.literal, signature |-> p.signature, text |-> p.text,
           version |-> p.version, names |-> p.names, captures |-> p.captures,
           methods |-> p.methods, bound |-> p.bound]
  BY DEF Program
<1>2. \A v \in [Code -> Int] : [p EXCEPT !.body = v] \in Program BY DEF Program
<1>3. \A v \in [Code -> Int] : [p EXCEPT !.literal = v] \in Program BY DEF Program
<1>4. \A v \in [Code -> Int] : [p EXCEPT !.signature = v] \in Program BY DEF Program
<1>5. \A v \in [Mod -> Int] : [p EXCEPT !.text = v] \in Program BY DEF Program
<1>6. \A v \in Int : [p EXCEPT !.version = v] \in Program BY DEF Program
<1>7. \A v \in [Code -> Seq(Name)] : [p EXCEPT !.names = v] \in Program BY DEF Program
<1>8. \A v \in [Fn -> Seq(Object)] : [p EXCEPT !.captures = v] \in Program BY DEF Program
<1>9. \A v \in [Cls -> Seq(Name \X Fn)] : [p EXCEPT !.methods = v] \in Program BY DEF Program
<1>10. \A v \in [Name -> Object \cup {Nothing}] : [p EXCEPT !.bound = v] \in Program BY DEF Program
<1> QED BY <1>2, <1>3, <1>4, <1>5, <1>6, <1>7, <1>8, <1>9, <1>10

LEMMA EditedIsProgram ==
  ASSUME source \in Program PROVE Edited \subseteq Program
<1> DEFINE flipped(f, x) == [f EXCEPT ![x] = 1 - @]
           with(f, x, v) == [f EXCEPT ![x] = v]
<1>1. {[source EXCEPT !.body[c] = 1 - @] : c \in Code} \subseteq Program
  <2>1. \A c \in Code : flipped(source.body, c) \in [Code -> Int] BY DEF Program
  <2> HIDE DEF flipped
  <2>2. \A c \in Code : [source EXCEPT !.body = flipped(source.body, c)] \in Program
    BY <2>1, ProgramWith
  <2> QED BY <2>2 DEF flipped
<1>2. {[source EXCEPT !.literal[c] = 1 - @] : c \in Code} \subseteq Program
  <2>1. \A c \in Code : flipped(source.literal, c) \in [Code -> Int] BY DEF Program
  <2> HIDE DEF flipped
  <2>2. \A c \in Code : [source EXCEPT !.literal = flipped(source.literal, c)] \in Program
    BY <2>1, ProgramWith
  <2> QED BY <2>2 DEF flipped
<1>3. {[source EXCEPT !.signature[c] = 1 - @] : c \in Code} \subseteq Program
  <2>1. \A c \in Code : flipped(source.signature, c) \in [Code -> Int] BY DEF Program
  <2> HIDE DEF flipped
  <2>2. \A c \in Code : [source EXCEPT !.signature = flipped(source.signature, c)] \in Program
    BY <2>1, ProgramWith
  <2> QED BY <2>2 DEF flipped
<1>4. {[source EXCEPT !.text[c] = 1 - @] : c \in Mod} \subseteq Program
  <2>1. \A c \in Mod : flipped(source.text, c) \in [Mod -> Int] BY DEF Program
  <2> HIDE DEF flipped
  <2>2. \A c \in Mod : [source EXCEPT !.text = flipped(source.text, c)] \in Program
    BY <2>1, ProgramWith
  <2> QED BY <2>2 DEF flipped
<1>5. {[source EXCEPT !.version = 1 - @]} \subseteq Program
  <2>1. 1 - source.version \in Int BY DEF Program
  <2> QED BY <2>1, ProgramWith
<1>6. UNION {{[source EXCEPT !.names[c] = s] : s \in Names[c]} : c \in Code} \subseteq Program
  <2>1. \A c \in Code : \A s \in Names[c] : with(source.names, c, s) \in [Code -> Seq(Name)]
    BY HashAssumption DEF Program
  <2> HIDE DEF with
  <2>2. \A c \in Code : \A s \in Names[c] : [source EXCEPT !.names = with(source.names, c, s)] \in Program
    BY <2>1, ProgramWith
  <2> QED BY <2>2 DEF with
<1>7. UNION {{[source EXCEPT !.bound[c] = s] : s \in Bindings[c]} : c \in Name} \subseteq Program
  <2>1. \A c \in Name : \A s \in Bindings[c] : with(source.bound, c, s) \in [Name -> Object \cup {Nothing}]
    BY HashAssumption DEF Program
  <2> HIDE DEF with
  <2>2. \A c \in Name : \A s \in Bindings[c] : [source EXCEPT !.bound = with(source.bound, c, s)] \in Program
    BY <2>1, ProgramWith
  <2> QED BY <2>2 DEF with
<1>8. UNION {{[source EXCEPT !.captures[c] = s] : s \in Captures[c]} : c \in Fn} \subseteq Program
  <2>1. \A c \in Fn : \A s \in Captures[c] : with(source.captures, c, s) \in [Fn -> Seq(Object)]
    BY HashAssumption DEF Program
  <2> HIDE DEF with
  <2>2. \A c \in Fn : \A s \in Captures[c] : [source EXCEPT !.captures = with(source.captures, c, s)] \in Program
    BY <2>1, ProgramWith
  <2> QED BY <2>2 DEF with
<1>9. UNION {{[source EXCEPT !.methods[c] = s] : s \in Methods[c]} : c \in Cls} \subseteq Program
  <2>1. \A c \in Cls : \A s \in Methods[c] : with(source.methods, c, s) \in [Cls -> Seq(Name \X Fn)]
    BY HashAssumption DEF Program
  <2> HIDE DEF with
  <2>2. \A c \in Cls : \A s \in Methods[c] : [source EXCEPT !.methods = with(source.methods, c, s)] \in Program
    BY <2>1, ProgramWith
  <2> QED BY <2>2 DEF with
<1> QED BY <1>1, <1>2, <1>3, <1>4, <1>5, <1>6, <1>7, <1>8, <1>9 DEF Edited

LEMMA NewWalkIs ==
  /\ Shape(NewWalk) /\ TypedWalk(NewWalk) /\ NewWalk.todo = <<Task("function", Root, <<>>, <<>>)>>
  /\ NewWalk.todo \in Seq(Tasks)
  /\ NewWalk.seen = {} /\ NewWalk.spans = {} /\ NewWalk.met = {} /\ NewWalk.blind = {}
<1>1. Task("function", Root, <<>>, <<>>) \in Tasks BY HashAssumption, TaskTypes, Labels
<1> QED BY <1>1, SeqsJoin DEF NewWalk, Shape, TypedWalk

LEMMA WalkKeeps ==
  ASSUME Typed, Walk PROVE Typed'
<1>1. UNCHANGED <<source, loaded, phase, breaks>> BY DEF Walk
<1>2. CASE AddGlobal BY <1>1, <1>2, AddGlobalDoes, DoesKeeps
<1>3. CASE AddFunction BY <1>1, <1>3, AddFunctionDoes, DoesKeeps
<1>4. CASE AddCode BY <1>1, <1>4, AddCodeDoes, DoesKeeps
<1>5. CASE MeetCodeAgain BY <1>1, <1>5, MeetCodeAgainDoes, DoesKeeps
<1>6. CASE AddUserModule BY <1>1, <1>6, AddUserModuleDoes, DoesKeeps
<1>7. CASE NoSubmodule BY <1>1, <1>7, NoSubmoduleDoes, DoesKeeps
<1>8. CASE AddUserClass BY <1>1, <1>8, AddUserClassDoes, DoesKeeps
<1>9. CASE PassOver BY <1>1, <1>9, PassOverDoes, DoesKeeps
<1>10. CASE AddCaptures BY <1>1, <1>10, AddCapturesDoes, DoesKeeps
<1> QED BY <1>2, <1>3, <1>4, <1>5, <1>6, <1>7, <1>8, <1>9, <1>10 DEF Walk

LEMMA Typing == Spec => []Typed
<1>1. Init => Typed
  <2> SUFFICES ASSUME Init PROVE Typed OBVIOUS
  <2>1. source \in Program /\ loaded \in Program BY InitIsProgram DEF Init
  <2>2. walk = NewWalk /\ phase = "off" /\ breaks = {} BY DEF Init
  <2> QED BY <2>1, <2>2, NewWalkIs DEF Typed
<1>2. Typed /\ [Next]_vars => Typed'
  <2> SUFFICES ASSUME Typed, [Next]_vars PROVE Typed' OBVIOUS
  <2>1. CASE Edit
    <3>1. source' \in Program BY <2>1, EditedIsProgram DEF Edit, Typed
    <3> QED BY <2>1, <3>1 DEF Edit, Typed, TypedWalk, Shape
  <2>2. CASE Start BY <2>2 DEF Start, Typed, TypedWalk, Shape
  <2>3. CASE FirstCall
    <3>1. walk' = NewWalk /\ phase' = "walking" /\ UNCHANGED <<source, loaded, breaks>>
      BY <2>3 DEF FirstCall
    <3>2. TypedWalk(walk') BY <3>1, NewWalkIs
    <3> QED BY <3>1, <3>2 DEF Typed, TypedWalk, Shape
  <2>4. CASE SetBreakpoint BY <2>4 DEF SetBreakpoint, Typed, TypedWalk, Shape
  <2>5. CASE Walk BY <2>5, WalkKeeps
  <2>6. CASE RunForced BY <2>6 DEF RunForced, Answers, Typed, TypedWalk, Shape
  <2>7. CASE Hit BY <2>7 DEF Hit, Answers, Typed, TypedWalk, Shape
  <2>8. CASE Miss BY <2>8 DEF Miss, Answers, Typed, TypedWalk, Shape
  <2>9. CASE Exit
    <3>1. walk' = NewWalk /\ phase' = "off" /\ breaks' = {} /\ source' = source /\ loaded' = source
      BY <2>9 DEF Exit
    <3>2. TypedWalk(walk') BY <3>1, NewWalkIs
    <3> QED BY <3>1, <3>2 DEF Typed, TypedWalk, Shape
  <2>10. CASE UNCHANGED vars BY <2>10 DEF vars, Typed, TypedWalk, Shape
  <2> QED BY <2>1, <2>2, <2>3, <2>4, <2>5, <2>6, <2>7, <2>8, <2>9, <2>10 DEF Next
<1> QED BY <1>1, <1>2, PTL DEF Spec

-----------------------------------------------------------------------------
(* No breakpoint is passed over                                            *)

LEMMA WalkCloses ==
  ASSUME Typed, Walk, walk'.blind \subseteq {"edited"}, NEW M, Closed(M) PROVE \E N : Closed(N)'
<1>1. loaded' = loaded BY DEF Walk
<1>2. CASE AddGlobal BY <1>1, <1>2, AddGlobalCloses
<1>3. CASE AddFunction BY <1>1, <1>3, AddFunctionCloses
<1>4. CASE AddCode BY <1>1, <1>4, AddCodeCloses
<1>5. CASE MeetCodeAgain BY <1>1, <1>5, MeetCodeAgainCloses
<1>6. CASE AddUserModule BY <1>1, <1>6, AddUserModuleCloses
<1>7. CASE NoSubmodule BY <1>1, <1>7, NoSubmoduleCloses
<1>8. CASE AddUserClass BY <1>1, <1>8, AddUserClassCloses
<1>9. CASE PassOver BY <1>1, <1>9, PassOverCloses
<1>10. CASE AddCaptures BY <1>1, <1>10, AddCapturesCloses
<1> QED BY <1>2, <1>3, <1>4, <1>5, <1>6, <1>7, <1>8, <1>9, <1>10 DEF Walk

\* A step of the walk adds to what was not looked at.
LEMMA WalkNotes ==
  ASSUME Typed, Walk PROVE walk.blind \subseteq walk'.blind
<1>1. \A tasks, things, fns, unseen :
        Does(tasks, things, fns, unseen) => walk.blind \subseteq walk'.blind
  <2> SUFFICES ASSUME NEW tasks, NEW things, NEW fns, NEW unseen, Does(tasks, things, fns, unseen)
               PROVE  walk.blind \subseteq walk'.blind
    OBVIOUS
  <2>1. walk'.blind = walk.blind \cup unseen BY DoneIs
  <2> QED BY <2>1
<1>2. \E tasks, things, fns, unseen : Does(tasks, things, fns, unseen)
  BY AddGlobalDoes, AddFunctionDoes, AddCapturesDoes, AddCodeDoes, MeetCodeAgainDoes,
     AddUserModuleDoes, NoSubmoduleDoes, AddUserClassDoes, PassOverDoes DEF Walk
<1> QED BY <1>1, <1>2

\* Before the first step only the root waits.
LEMMA NewWalkIsClosed ==
  ASSUME walk' = NewWalk PROVE Closed({})'
<1>1. /\ walk'.todo = <<Task("function", Root, <<>>, <<>>)>>
      /\ walk'.seen = {} /\ walk'.spans = {} /\ walk'.met = {}
  BY NewWalkIs
<1>2. Root \in Fn /\ Root \notin Mod BY HashAssumption
<1>3. Awaited(<<Root, <<>>>>)'
  <2> DEFINE t == Task("function", Root, <<>>, <<>>)
  <2>1. IsOf(t, <<Root, <<>>>>)' BY <1>2, TaskIs DEF IsOf
  <2> HIDE DEF t
  <2>2. t \in Todo' BY <1>1 DEF Todo, Elements, t
  <2> QED BY <2>1, <2>2 DEF Awaited
<1>4. ASSUME NEW x \in Pair, LookedAt({}, x)' PROVE Refers(loaded', x) = {}
  <2>1. x[1] \notin Fn \cup Code \cup Cls \cup Mod BY <1>1, <1>4 DEF LookedAt
  <2>2. Kin(loaded', x) = <<>> BY <2>1 DEF Kin
  <2> QED BY <2>2 DEF Refers
<1> QED BY <1>1, <1>3, <1>4 DEF Closed

LEMMA ClosedStays ==
  ASSUME UNCHANGED <<walk, loaded>>, NEW M PROVE Closed(M)' <=> Closed(M)
<1>1. \A t, x : IsOf(t, x)' <=> IsOf(t, x) BY IsOfStays
<1>2. \A x : LookedAt(M, x)' <=> LookedAt(M, x) BY DEF LookedAt, Captured
<1>3. \A x : Awaited(x)' <=> Awaited(x) BY <1>1 DEF Awaited, Todo
<1> QED BY <1>2, <1>3 DEF Closed

\* What was looked at is closed but for what waits.
LEMMA WalkStaysClosed == Spec => []WalkIsClosed
<1>1. Init => WalkIsClosed BY DEF Init, WalkIsClosed, IsHit
<1>2. Typed /\ WalkIsClosed /\ [Next]_vars => WalkIsClosed'
  <2> SUFFICES ASSUME Typed, WalkIsClosed, [Next]_vars PROVE WalkIsClosed' OBVIOUS
  <2>1. CASE Edit \/ SetBreakpoint \/ UNCHANGED vars
    <3>1. UNCHANGED <<walk, loaded, phase, answer>> BY <2>1 DEF Edit, SetBreakpoint, vars
    <3>2. IsHit' => breaks' = breaks BY <2>1 DEF Edit, SetBreakpoint, Walked, IsHit, vars
    <3>3. \A M : Closed(M)' <=> Closed(M) BY <3>1, ClosedStays
    <3> QED BY <3>1, <3>2, <3>3 DEF WalkIsClosed, IsHit
  <2>2. CASE Start \/ Exit BY <2>2 DEF Start, Exit, WalkIsClosed, IsHit
  <2>3. CASE FirstCall
    <3>1. Closed({})' BY <2>3, NewWalkIsClosed DEF FirstCall
    <3>2. ~IsHit' BY <2>3 DEF FirstCall, IsHit
    <3> QED BY <3>1, <3>2 DEF WalkIsClosed
  <2>4. CASE Walk
    <3>1. phase = "walking" /\ phase' = "walking"
      BY <2>4 DEF Walk, AddGlobal, AddFunction, AddCaptures, AddCode, MeetCodeAgain, AddUserModule,
                  NoSubmodule, AddUserClass, PassOver, Doing
    <3>2. ~IsHit' BY <3>1 DEF IsHit
    <3>3. ASSUME walk'.blind \subseteq {"edited"} PROVE \E N : Closed(N)'
      <4>1. walk.blind \subseteq {"edited"} BY <2>4, <3>3, WalkNotes
      <4>2. PICK M : Closed(M) BY <3>1, <4>1 DEF WalkIsClosed
      <4> QED BY <2>4, <3>3, <4>2, WalkCloses
    <3> QED BY <3>2, <3>3 DEF WalkIsClosed
  <2>5. CASE RunForced \/ Hit \/ Miss
    <3>1. UNCHANGED <<walk, loaded, breaks>> /\ phase = "walking" /\ walk.todo = <<>>
      BY <2>5 DEF RunForced, Hit, Miss, Walked
    <3>2. IsHit' => breaks \cap walk.spans = {}
      BY <2>5 DEF RunForced, Hit, Miss, Answers, IsHit, Forces
    <3>3. \A M : Closed(M)' <=> Closed(M) BY <3>1, ClosedStays
    <3> QED BY <3>1, <3>2, <3>3 DEF WalkIsClosed
  <2> QED BY <2>1, <2>2, <2>3, <2>4, <2>5 DEF Next
<1> QED BY <1>1, <1>2, Typing, PTL DEF Spec

\* A hit means that the walk is over and came to everything that is reached
\* from the function, so that a breakpoint in any of it would have forced the
\* call to run: BreakpointIsHit, for any program.
THEOREM NoBreakpointIsPassed == Spec => []BreakpointIsHit
<1>1. Typed /\ WalkIsClosed => BreakpointIsHit
  <2> SUFFICES ASSUME Typed, WalkIsClosed, IsHit, walk.blind \subseteq {"edited"}
               PROVE  breaks \cap Reached(loaded) = {}
    BY DEF BreakpointIsHit
  <2>1. walk.todo = <<>> /\ breaks \cap walk.spans = {} /\ phase = "answered"
    BY DEF WalkIsClosed, IsHit
  <2>2. PICK M : Closed(M) BY <2>1 DEF WalkIsClosed
  <2>3. \A x : ~Awaited(x) BY <2>1 DEF Awaited, Todo, Elements
  <2> DEFINE C == {x \in Pair : LookedAt(M, x)}
  <2>4. <<Root, <<>>>> \in C BY <2>2, <2>3, Kinds DEF Closed, Pair
  <2>5. ASSUME NEW x \in C PROVE Refers(loaded, x) \subseteq C
    <3>1. Refers(loaded, x) \subseteq Pair BY RefersInPair DEF Typed
    <3> QED BY <2>2, <2>3, <3>1 DEF Closed
  <2>6. Reached(loaded) \subseteq {x[1] : x \in C}
    <3> HIDE DEF C
    <3> QED BY <2>4, <2>5, ReachedStays
  <2>7. ASSUME NEW b \in breaks, b \in Reached(loaded) PROVE FALSE
    <3>1. PICK x \in C : b = x[1] BY <2>6, <2>7
    <3>2. b \in Code \cup Mod BY DEF Typed
    <3>3. b \in walk.seen
      <4>1. CASE b \in Code BY <3>1, <4>1 DEF LookedAt
      <4>2. CASE b \in Mod BY <2>2, <3>1, <4>2 DEF LookedAt, Closed
      <4> QED BY <3>2, <4>1, <4>2
    <3>4. b \in walk.spans BY <2>2, <3>2, <3>3 DEF Closed
    <3> QED BY <2>1, <3>4
  <2> QED BY <2>7
<1> QED BY <1>1, Typing, WalkStaysClosed, PTL

-----------------------------------------------------------------------------
(* Two walks                                                               *)

LEMMA WalkIsStep ==
  ASSUME Typed, Walk, walk'.blind = {} PROVE Step(loaded, walk, walk')
<1>1. \A tasks, things, fns, frames, notes, unseen :
        Moves(walk, walk', tasks, things, fns, frames, notes, unseen) =>
          unseen = {} /\ Moves(walk, walk', tasks, things, fns, frames, notes, {})
  <2> SUFFICES ASSUME NEW tasks, NEW things, NEW fns, NEW frames, NEW notes, NEW unseen,
                      Moves(walk, walk', tasks, things, fns, frames, notes, unseen)
               PROVE  unseen = {} /\ Moves(walk, walk', tasks, things, fns, frames, notes, {})
    OBVIOUS
  <2>1. walk'.blind = walk.blind \cup unseen BY DEF Moves, HasParts
  <2>2. unseen = {} BY <2>1
  <2> QED BY <2>2
<1>2. \A what : Note(what) = Mark(walk, what) BY DEF Note, Mark
<1>3. Nothing \notin walk.seen /\ Fn \cap Outside = {} /\ \A m \in Mod : m # Nothing
  BY HashAssumption DEF Typed, TypedWalk, Object
<1>4. CASE AddGlobal
  <2>1. walk.todo # <<>> /\ Now.does = "global" BY <1>4 DEF AddGlobal, Doing, Now
  <2>2. GlobalFrame(Now.at, Now.label) = FrameOf(loaded, Now.at, Now.label)
    BY DEF GlobalFrame, FrameOf, Marker
  <2>3. GlobalStep(loaded, walk, walk')
    BY <1>2, <1>4, <2>2, AddGlobalDoes DEF GlobalStep, Feeds, Now
  <2> QED BY <2>1, <2>3 DEF Step, Now
<1>5. CASE AddFunction
  <2>1. walk.todo # <<>> /\ Now.does = "function" BY <1>5 DEF AddFunction, Doing, Now
  <2>2. FunctionStep(loaded, walk, walk')
    BY <1>5, AddFunctionDoes DEF FunctionStep, FunctionTasks, Now
  <2> QED BY <2>1, <2>2 DEF Step, Now
<1>6. CASE AddCaptures
  <2>1. walk.todo # <<>> /\ Now.does = "captures" BY <1>6 DEF AddCaptures, Doing, Now
  <2>2. CapturesTasks(Now.at, Now.label[1]) = CapturesIn(loaded, Now.at, Now.label[1])
    BY DEF CapturesTasks, CapturesIn
  <2>4. Moves(walk, walk', CapturesTasks(Now.at, Now.label[1]), {}, {}, <<>>, <<>>, {})
    BY <1>6, AddCapturesDoes
  <2>5. CapturesStep(loaded, walk, walk') BY <2>2, <2>4 DEF CapturesStep, Feeds, Now
  <2> QED BY <2>1, <2>5 DEF Step, Now
<1>7. CASE AddCode
  <2>1. walk.todo # <<>> /\ Now.does = "code"
    <3>1. Doing("code") BY <1>7, Zenon DEF AddCode
    <3> QED BY <3>1 DEF Doing, Now
  <2>2. CodeTasks(Now.at) = CodeIn(loaded, Now.at) /\ CodeFrames(Now.at) = CodeFramesIn(loaded, Now.at)
    BY DEF CodeTasks, CodeIn, CodeFrames, CodeFramesIn
  <2>3. /\ Now.at \in Code \ walk.seen
        /\ Moves(walk, walk', CodeIn(loaded, Now.at), {Now.at}, {}, CodeFramesIn(loaded, Now.at),
                 Mark(walk, <<"signature", loaded.signature[Now.at]>>), {})
    BY <1>2, <1>7, <2>2, AddCodeDoes
  <2>4. CodeStep(loaded, walk, walk') BY <2>3 DEF CodeStep, Now
  <2> QED BY <2>1, <2>4 DEF Step, Now
<1>8. CASE MeetCodeAgain
  <2>1. /\ CodeNow \in walk.seen /\ CapturesMissed = {}
        /\ Feeds(walk, walk', <<>>, <<<<"cycle">>>>, Mark(walk, <<"met", CodeNow>>))
    BY <1>1, <1>2, <1>8, MeetCodeAgainDoes DEF Feeds
  <2>2. walk.todo # <<>> /\ Now.does \in {"function", "code"} BY <1>8 DEF MeetCodeAgain, Doing, Now
  <2>3. CASE Now.does = "function"
    <3>1. ~OtherCaptured(Now.at) BY <2>1, <2>3 DEF CapturesMissed
    <3>2. \A f : Captured(f) = CapturedIn(loaded, f) BY DEF Captured, CapturedIn
    <3>3. KnownIn(loaded, walk, Now.at)
      <4> DEFINE met == {g \in walk.met : CodeOf[g] = CodeOf[Now.at]}
      <4>1. KnownIn(loaded, walk, Now.at) <=>
              IF met = {} THEN loaded.captures[Now.at] = <<>>
              ELSE \A g \in met : CapturedIn(loaded, g) = CapturedIn(loaded, Now.at)
        BY DEF KnownIn
      <4>2. OtherCaptured(Now.at) <=>
              IF met = {} THEN loaded.captures[Now.at] # <<>>
              ELSE \E g \in met : Captured(g) # Captured(Now.at)
        BY DEF OtherCaptured
      <4> HIDE DEF met
      <4> QED BY <3>1, <3>2, <4>1, <4>2
    <3>4. FunctionStep(loaded, walk, walk') BY <2>1, <2>3, <3>3 DEF FunctionStep, CodeNow, Now
    <3> QED BY <2>2, <2>3, <3>4 DEF Step, Now
  <2>4. CASE Now.does = "code"
    <3>1. CodeStep(loaded, walk, walk') BY <2>1, <2>4 DEF CodeStep, CodeNow, Now
    <3> QED BY <2>2, <2>4, <3>1 DEF Step, Now
  <2> QED BY <2>2, <2>3, <2>4
<1>9. CASE AddUserModule
  <2>1. walk.todo # <<>> /\ Now.does = "module"
    <3>1. Doing("module") BY <1>9, Zenon DEF AddUserModule
    <3> QED BY <3>1 DEF Doing, Now
  <2>2. /\ Now.at \in Mod \ walk.seen /\ TextMissed(Now.at) = {}
        /\ Moves(walk, walk', ModuleTasks(Now.at, Now.label, Now.names), {Now.at}, {},
                 <<<<"m", Now.label, Now.at, source.text[Now.at]>>>>, <<>>, {})
    BY <1>1, <1>9, AddUserModuleDoes
  <2>3. source.text[Now.at] = loaded.text[Now.at] BY <2>2 DEF TextMissed
  <2>4. ModuleStep(loaded, walk, walk') BY <1>3, <2>2, <2>3 DEF ModuleStep, Now
  <2> QED BY <2>1, <2>4 DEF Step, Now
<1>10. CASE NoSubmodule
  <2>1. walk.todo # <<>> /\ Now.does = "module" /\ Now.at = Nothing
    BY <1>10 DEF NoSubmodule, Doing, Now
  <2>2. ModuleStep(loaded, walk, walk') BY <1>10, <2>1, NoSubmoduleDoes DEF ModuleStep, Feeds, Now
  <2> QED BY <2>1, <2>2 DEF Step, Now
<1>11. CASE AddUserClass
  <2>1. walk.todo # <<>> /\ Now.does = "class"
    <3>1. Doing("class") BY <1>11, Zenon DEF AddUserClass
    <3> QED BY <3>1 DEF Doing, Now
  <2>2. /\ Now.at \in Cls \ walk.seen /\ BasesMissed(Now.at) = {}
        /\ Moves(walk, walk', ClassIn(loaded, Now.at), {Now.at}, {}, <<<<"cls", Now.label, Now.at>>>>,
                 Mark(walk, <<"methods", MethodNames(loaded, Now.at)>>), {})
    BY <1>1, <1>2, <1>11, AddUserClassDoes DEF ClassTasks, ClassIn, MethodNames
  <2>3. Bases[Now.at] = <<>> BY <2>2 DEF BasesMissed
  <2>4. ClassStep(loaded, walk, walk') BY <2>2, <2>3 DEF ClassStep, Now
  <2> QED BY <2>1, <2>4 DEF Step, Now
<1>12. CASE PassOver
  <2>1. /\ Now.at \in walk.seen /\ FollowsMissed = {}
        /\ Feeds(walk, walk', <<>>, <<>>, Mark(walk, <<"passed", Now.label, Now.at>>))
    BY <1>1, <1>2, <1>12, PassOverDoes DEF Feeds
  <2>2. walk.todo # <<>> /\ Now.does \in {"module", "class"} BY <1>12 DEF PassOver, Doing, Now
  <2>3. CASE Now.does = "module"
    <3>1. Now.at \in Mod
      <4>1. Doing("module") BY <1>12, <2>3 DEF PassOver, Doing, Now
      <4> QED BY <1>3, <2>1, <4>1, NowIs
    <3>2. AllFollowed(Now.at, Now.names) BY <2>1, <3>1 DEF FollowsMissed
    <3>3. \E T \in SUBSET (walk.seen \cap Mod) : Now.at \in T /\ Follows(T, Now.names)
      BY <3>2 DEF AllFollowed, Follows
    <3>4. ModuleStep(loaded, walk, walk') BY <1>3, <2>1, <3>1, <3>3 DEF ModuleStep, Now
    <3> QED BY <2>2, <2>3, <3>4 DEF Step, Now
  <2>4. CASE Now.does = "class"
    <3>1. ClassStep(loaded, walk, walk') BY <2>1 DEF ClassStep, Now
    <3> QED BY <2>2, <2>4, <3>1 DEF Step, Now
  <2> QED BY <2>2, <2>3, <2>4
<1> QED BY <1>4, <1>5, <1>6, <1>7, <1>8, <1>9, <1>10, <1>11, <1>12 DEF Walk

LEMMA CourseStep ==
  ASSUME NEW c, Course(c), NEW k \in 0..(c.steps - 1)
  PROVE  /\ c.of \in Program /\ k \in 0..c.steps /\ k + 1 \in 0..c.steps /\ k \in Nat
         /\ TypedWalk(c.at[k]) /\ TypedWalk(c.at[k + 1]) /\ Step(c.of, c.at[k], c.at[k + 1])
<1>1. c.of \in Program /\ c.steps \in Nat BY DEF Course
<1>2. k \in 0..c.steps /\ k + 1 \in 0..c.steps /\ k \in Nat BY <1>1
<1> QED BY <1>1, <1>2 DEF Course

LEMMA SeqOfThree == \A x, y, z :
  /\ IsSeq(<<x, y, z>>) /\ Len(<<x, y, z>>) = 3
  /\ <<x, y, z>>[1] = x /\ <<x, y, z>>[2] = y /\ <<x, y, z>>[3] = z
<1>1. \A x, y, z : <<x, y, z>> \in Seq({x, y, z}) OBVIOUS
<1> QED BY <1>1, SeqsJoin

LEMMA MarkIs == \A w, what :
  /\ IsSeq(Mark(w, what)) /\ Len(Mark(w, what)) = 1 /\ Mark(w, what)[1] = <<Len(w.frames), what>>
BY SeqsJoin DEF Mark

LEMMA HeadIs ==
  ASSUME NEW w, TypedWalk(w), w.todo # <<>>
  PROVE  LET t == w.todo[1]
         IN  /\ t \in Tasks /\ t.names \in Seq(Name)
             /\ t.does \in {"function", "code", "class", "global", "module", "captures"}
             /\ t.does = "function" => t.at \in Fn
             /\ t.does = "code" => t.at \in Code
             /\ t.does = "class" => t.at \in Cls /\ t.label \in Label
             /\ t.does = "global" => t.at \in Object \cup {Nothing}
             /\ t.does = "module" => t.at \in Mod \cup {Nothing} /\ t.label \in Label
             /\ t.does = "captures" => t.at \in Fn /\ \E i \in Nat \ {0} : t.label = <<i>>
<1> DEFINE t == w.todo[1]
<1>1. t \in Tasks BY DEF TypedWalk
<1> HIDE DEF t
<1>2. /\ t \in Tasks /\ t.names \in Seq(Name)
      /\ t.does \in {"function", "code", "class", "global", "module", "captures"}
      /\ t.does = "function" => t.at \in Fn
      /\ t.does = "code" => t.at \in Code
      /\ t.does = "class" => t.at \in Cls /\ t.label \in Label
      /\ t.does = "global" => t.at \in Object \cup {Nothing}
      /\ t.does = "module" => t.at \in Mod \cup {Nothing} /\ t.label \in Label
      /\ t.does = "captures" => t.at \in Fn /\ \E i \in Nat \ {0} : t.label = <<i>>
  BY <1>1 DEF Tasks, TasksOf
<1> QED BY <1>2 DEF t

\* Whatever a step does, it feeds frames, and notes at most one thing: after
\* what was fed.
LEMMA StepFeeds ==
  ASSUME NEW p \in Program, NEW w, NEW v, TypedWalk(w), Step(p, w, v)
  PROVE  \E tasks, things, fns, frames, notes :
           /\ Moves(w, v, tasks, things, fns, frames, notes, {})
           /\ IsSeq(frames) /\ IsSeq(notes)
           /\ notes = <<>> \/ \E what : notes = Mark(w, what)
<1> DEFINE t == w.todo[1]
           Fine(frames, notes) == IsSeq(frames) /\ IsSeq(notes) /\ (notes = <<>> \/ \E what : notes = Mark(w, what))
           Goal == \E tasks, things, fns, frames, notes :
                     Moves(w, v, tasks, things, fns, frames, notes, {}) /\ Fine(frames, notes)
<1>1. t.does \in {"function", "code", "class", "global", "module", "captures"} BY HeadIs DEF Step
<1>2. \A tasks, things, fns, frames, notes :
        Moves(w, v, tasks, things, fns, frames, notes, {}) /\ Fine(frames, notes) => Goal
  OBVIOUS
<1>3. /\ Fine(<<>>, <<>>)
      /\ \A what : Fine(<<>>, Mark(w, what))
      /\ \A x, what : Fine(<<x>>, <<>>) /\ Fine(<<x>>, Mark(w, what))
      /\ \A x, y, z, what : Fine(<<x, y, z>>, Mark(w, what))
  BY SeqsJoin, SeqOfThree, MarkIs
<1> SUFFICES Goal BY DEF Goal, Fine
<1> HIDE DEF Fine, Goal
<1>4. CASE t.does = "global"
  <2>1. Moves(w, v, GlobalTasks(t.at, t.label, t.names), {}, {}, FrameOf(p, t.at, t.label),
              IF t.at \in Outside THEN Mark(w, <<"object", t.at>>) ELSE <<>>, {})
    BY <1>4 DEF Step, GlobalStep, Feeds
  <2>2. Fine(FrameOf(p, t.at, t.label), IF t.at \in Outside THEN Mark(w, <<"object", t.at>>) ELSE <<>>)
    BY <1>3 DEF FrameOf
  <2> QED BY <1>2, <2>1, <2>2
<1>5. CASE t.does = "function"
  <2>1. FunctionStep(p, w, v) BY <1>5 DEF Step
  <2> QED BY <1>2, <1>3, <2>1 DEF FunctionStep, Feeds
<1>6. CASE t.does = "captures"
  <2>1. CapturesStep(p, w, v) BY <1>6 DEF Step
  <2> QED BY <1>2, <1>3, <2>1 DEF CapturesStep, Feeds
<1>7. CASE t.does = "code"
  <2>1. CodeStep(p, w, v) BY <1>7 DEF Step
  <2>2. \A x, what : Fine(CodeFramesIn(p, x), Mark(w, what)) BY <1>3 DEF CodeFramesIn
  <2> QED BY <1>2, <1>3, <2>1, <2>2 DEF CodeStep, Feeds
<1>8. CASE t.does = "module"
  <2>1. ModuleStep(p, w, v) BY <1>8 DEF Step
  <2> QED BY <1>2, <1>3, <2>1 DEF ModuleStep, Feeds
<1>9. CASE t.does = "class"
  <2>1. ClassStep(p, w, v) BY <1>9 DEF Step
  <2> QED BY <1>2, <1>3, <2>1 DEF ClassStep, Feeds
<1> QED BY <1>1, <1>4, <1>5, <1>6, <1>7, <1>8, <1>9

LEMMA MovesGrows ==
  ASSUME NEW w, NEW v, TypedWalk(w), NEW tasks, NEW things, NEW fns, NEW frames, NEW notes,
         Moves(w, v, tasks, things, fns, frames, notes, {}), IsSeq(frames), IsSeq(notes)
  PROVE  Grown(w, v, tasks, things, fns, frames, notes)
<1>1. /\ v.todo = tasks \o Tail(w.todo) /\ v.seen = w.seen \cup things /\ v.met = w.met \cup fns
      /\ v.frames = w.frames \o frames /\ v.unsaid = w.unsaid \o notes
  BY DEF Moves, HasParts
<1>2. IsSeq(w.frames) /\ IsSeq(w.unsaid) BY DEF TypedWalk
<1>3. \A s, t : IsSeq(s) /\ IsSeq(t) =>
        /\ Len(s) \in Nat /\ Len(t) \in Nat /\ Len(s \o t) = Len(s) + Len(t)
        /\ \A i \in 1..Len(s) : (s \o t)[i] = s[i]
        /\ \A i \in 1..Len(t) : (s \o t)[Len(s) + i] = t[i]
  BY SeqsJoin
<1> QED BY <1>1, <1>2, <1>3 DEF Grown

LEMMA StepLasts ==
  ASSUME NEW c, Course(c), NEW k \in 0..(c.steps - 1), Lasts(c, k + 1) PROVE Lasts(c, k)
<1> DEFINE w == c.at[k]
           v == c.at[k + 1]
<1>1. c.of \in Program /\ TypedWalk(w) /\ Step(c.of, w, v) BY CourseStep
<1>2. PICK tasks, things, fns, frames, notes :
        /\ Moves(w, v, tasks, things, fns, frames, notes, {})
        /\ IsSeq(frames) /\ IsSeq(notes)
        /\ notes = <<>> \/ \E what : notes = Mark(w, what)
  BY <1>1, StepFeeds
<1> HIDE DEF w, v
<1>3. /\ Len(w.frames) \in Nat /\ Len(frames) \in Nat /\ Len(v.frames) = Len(w.frames) + Len(frames)
      /\ \A i \in 1..Len(w.frames) : v.frames[i] = w.frames[i]
      /\ Len(w.unsaid) \in Nat /\ Len(notes) \in Nat /\ Len(v.unsaid) = Len(w.unsaid) + Len(notes)
      /\ \A i \in 1..Len(w.unsaid) : v.unsaid[i] = w.unsaid[i]
      /\ \A i \in 1..Len(notes) : v.unsaid[Len(w.unsaid) + i] = notes[i]
  <2>1. Grown(w, v, tasks, things, fns, frames, notes) BY <1>1, <1>2, MovesGrows
  <2> QED BY <2>1 DEF Grown
<1>4. notes # <<>> => Len(notes) = 1 /\ notes[1][1] = Len(w.frames)
  <2>1. ASSUME NEW what, notes = Mark(w, what) PROVE Len(notes) = 1 /\ notes[1][1] = Len(w.frames)
    BY <2>1, MarkIs
  <2> QED BY <1>2, <2>1
<1> DEFINE T == Text(c)
           N == Notes(c)
<1>5. /\ Len(v.frames) \in Nat /\ Len(T) \in Nat /\ Len(v.frames) <= Len(T)
      /\ Len(v.unsaid) \in Nat /\ Len(N) \in Nat /\ Len(v.unsaid) <= Len(N)
      /\ \A i \in 1..Len(v.frames) : T[i] = v.frames[i]
      /\ \A i \in 1..Len(v.unsaid) : N[i] = v.unsaid[i]
      /\ \A i \in 1..Len(N) : i > Len(v.unsaid) => N[i][1] \in Nat /\ N[i][1] >= Len(v.frames)
  BY DEF Lasts, Fed, Noted, v
<1> HIDE DEF T, N
<1>6. \A i \in 1..Len(w.frames) : i \in 1..Len(v.frames) /\ T[i] = w.frames[i] BY <1>3, <1>5
<1>7. \A i \in 1..Len(w.unsaid) : i \in 1..Len(v.unsaid) /\ N[i] = w.unsaid[i] BY <1>3, <1>5
<1>8. ASSUME NEW i \in 1..Len(N), i > Len(w.unsaid)
      PROVE  N[i][1] \in Nat /\ N[i][1] >= Len(w.frames)
  <2>1. CASE i > Len(v.unsaid)
    <3>1. N[i][1] \in Nat /\ N[i][1] >= Len(v.frames) BY <1>5, <2>1
    <3>2. Len(v.frames) \in Nat /\ Len(w.frames) \in Nat /\ Len(v.frames) >= Len(w.frames) BY <1>3
    <3> QED BY <3>1, <3>2
  <2>2. CASE i <= Len(v.unsaid)
    <3>1. notes # <<>>
      <4>1. notes = <<>> => Len(notes) = 0 OBVIOUS
      <4> QED BY <1>3, <1>8, <2>2, <4>1
    <3>2. Len(notes) = 1 /\ notes[1][1] = Len(w.frames) BY <1>4, <3>1
    <3>3. i = Len(w.unsaid) + 1 /\ i \in 1..Len(v.unsaid) /\ 1 \in 1..Len(notes)
      BY <1>3, <1>8, <2>2, <3>2
    <3>4. N[i] = notes[1] BY <1>3, <1>5, <3>3
    <3>5. N[i][1] = Len(w.frames) BY <3>2, <3>4
    <3> QED BY <1>3, <3>5
  <2> QED BY <1>3, <1>5, <2>1, <2>2
<1>9. Len(w.frames) <= Len(T) /\ Len(w.unsaid) <= Len(N) BY <1>3, <1>5
<1> QED BY <1>3, <1>5, <1>6, <1>7, <1>8, <1>9 DEF Lasts, Fed, Noted, T, N, w

LEMMA CourseLasts ==
  ASSUME NEW c, Course(c) PROVE \A k \in 0..c.steps : Lasts(c, k)
<1>1. c.steps \in Nat /\ TypedWalk(c.at[c.steps]) BY DEF Course
<1>2. Lasts(c, c.steps)
  <2>1. IsSeq(Text(c)) /\ IsSeq(Notes(c)) BY <1>1 DEF TypedWalk, Text, Notes
  <2>2. Len(Text(c)) \in Nat /\ Len(Notes(c)) \in Nat BY <2>1, SeqsJoin
  <2> QED BY <2>2 DEF Lasts, Fed, Noted, Text, Notes
<1>3. PICK S : S = {k \in Nat : Lasts(c, k)} OBVIOUS
<1>4. c.steps \in S /\ \A k \in 0..(c.steps - 1) : k + 1 \in S => k \in S
  BY <1>1, <1>2, <1>3, StepLasts
<1> QED BY <1>1, <1>3, <1>4, Downward

LEMMA TurnsNext ==
  ASSUME NEW c, Course(c), NEW k \in 0..(c.steps - 1), NEW tasks, NEW things, NEW fns, NEW frames, NEW notes,
         Moves(c.at[k], c.at[k + 1], tasks, things, fns, frames, notes, {}), IsSeq(frames), IsSeq(notes),
         notes = <<>> \/ \E what : notes = Mark(c.at[k], what)
  PROVE  Turned(c, k, tasks, things, fns, frames, notes)
<1> DEFINE w == c.at[k]
           v == c.at[k + 1]
           T == Text(c)
           N == Notes(c)
<1>1. k \in 0..c.steps /\ k + 1 \in 0..c.steps /\ TypedWalk(w) BY CourseStep
<1> HIDE DEF w, v
<1>2. Lasts(c, k) /\ Lasts(c, k + 1) BY <1>1, CourseLasts
<1>3. /\ v.todo = tasks \o Tail(w.todo) /\ v.seen = w.seen \cup things /\ v.met = w.met \cup fns
      /\ Len(w.frames) \in Nat /\ Len(frames) \in Nat /\ Len(v.frames) = Len(w.frames) + Len(frames)
      /\ \A i \in 1..Len(frames) : v.frames[Len(w.frames) + i] = frames[i]
      /\ Len(w.unsaid) \in Nat /\ Len(notes) \in Nat /\ Len(v.unsaid) = Len(w.unsaid) + Len(notes)
      /\ \A i \in 1..Len(notes) : v.unsaid[Len(w.unsaid) + i] = notes[i]
  <2>1. Moves(w, v, tasks, things, fns, frames, notes, {}) BY DEF w, v
  <2>2. Grown(w, v, tasks, things, fns, frames, notes) BY <1>1, <2>1, MovesGrows
  <2> QED BY <2>2 DEF Grown
<1>4. IF notes = <<>> THEN Len(notes) = 0 ELSE Len(notes) = 1 /\ notes[1][1] = Len(w.frames)
  <2>1. ASSUME NEW what, notes = Mark(w, what) PROVE Len(notes) = 1 /\ notes[1][1] = Len(w.frames)
    BY <2>1, MarkIs
  <2>2. notes = <<>> => Len(notes) = 0 OBVIOUS
  <2> QED BY <2>1, <2>2 DEF w
<1>5. /\ Len(v.frames) \in Nat /\ Len(T) \in Nat /\ Len(v.frames) <= Len(T)
      /\ Len(v.unsaid) \in Nat /\ Len(N) \in Nat /\ Len(v.unsaid) <= Len(N)
      /\ \A i \in 1..Len(v.frames) : T[i] = v.frames[i]
      /\ \A i \in 1..Len(v.unsaid) : N[i] = v.unsaid[i]
      /\ \A i \in 1..Len(N) : i > Len(v.unsaid) => N[i][1] \in Nat /\ N[i][1] >= Len(v.frames)
  BY <1>2 DEF Lasts, Fed, Noted, v
<1> HIDE DEF T, N
<1>6. \A i \in 1..Len(frames) : T[Len(w.frames) + i] = frames[i]
  <2>1. \A i \in 1..Len(frames) : Len(w.frames) + i \in 1..Len(v.frames) BY <1>3
  <2> QED BY <1>3, <1>5, <2>1
<1>7. notes # <<>> => Len(w.unsaid) + 1 \in 1..Len(N) /\ N[Len(w.unsaid) + 1] = notes[1]
  <2>1. notes # <<>> => 1 \in 1..Len(notes) /\ Len(w.unsaid) + 1 \in 1..Len(v.unsaid) BY <1>3, <1>4
  <2>2. notes # <<>> => Len(w.unsaid) + 1 \in 1..Len(N) BY <1>5, <2>1
  <2>3. notes # <<>> => N[Len(w.unsaid) + 1] = notes[1] BY <1>3, <1>5, <2>1
  <2> QED BY <2>2, <2>3
<1>8. Said(c, k) = IF Len(w.unsaid) < Len(N) /\ N[Len(w.unsaid) + 1][1] = Len(w.frames)
                     THEN N[Len(w.unsaid) + 1][2]
                   ELSE IF Len(w.frames) < Len(T) THEN T[Len(w.frames) + 1]
                   ELSE <<"end">>
  BY DEF Said, Fed, Noted, T, N, w, v
<1>9. Said(c, k + 1) = IF Len(v.unsaid) < Len(N) /\ N[Len(v.unsaid) + 1][1] = Len(v.frames)
                     THEN N[Len(v.unsaid) + 1][2]
                   ELSE IF Len(v.frames) < Len(T) THEN T[Len(v.frames) + 1]
                   ELSE <<"end">>
  BY DEF Said, Fed, Noted, T, N, w, v
<1>10. CASE notes # <<>>
  <2>1. Said(c, k) = notes[1][2]
    <3>1. Len(w.unsaid) < Len(N) BY <1>3, <1>5, <1>7, <1>10
    <3> QED BY <1>4, <1>7, <1>8, <1>10, <3>1
  <2> QED BY <1>3, <1>4, <1>5, <1>6, <1>7, <1>10, <2>1 DEF Turned, Fed, Noted, T, N, w, v
<1>11. CASE notes = <<>> /\ Len(frames) # 0
  <2>1. Len(w.unsaid) < Len(N) => N[Len(w.unsaid) + 1][1] # Len(w.frames)
    <3>1. Len(v.unsaid) = Len(w.unsaid) /\ Len(v.frames) > Len(w.frames) BY <1>3, <1>4, <1>11
    <3>2. Len(w.unsaid) \in Nat /\ Len(N) \in Nat /\ Len(w.frames) \in Nat BY <1>3, <1>5
    <3>3. ASSUME Len(w.unsaid) < Len(N)
          PROVE  Len(w.unsaid) + 1 \in 1..Len(N) /\ Len(w.unsaid) + 1 > Len(v.unsaid)
      BY <3>1, <3>2, <3>3
    <3>4. ASSUME Len(w.unsaid) < Len(N)
          PROVE  N[Len(w.unsaid) + 1][1] \in Nat /\ N[Len(w.unsaid) + 1][1] >= Len(v.frames)
      BY <1>5, <3>3, <3>4
    <3> QED BY <1>5, <3>1, <3>2, <3>4
  <2>2. Len(w.frames) < Len(T) /\ T[Len(w.frames) + 1] = frames[1] BY <1>3, <1>5, <1>6, <1>11
  <2>3. Said(c, k) = frames[1] BY <1>8, <2>1, <2>2
  <2> QED BY <1>3, <1>4, <1>5, <1>6, <1>11, <2>3 DEF Turned, Fed, Noted, T, N, w, v
<1>12. CASE notes = <<>> /\ Len(frames) = 0
  <2>1. Len(v.frames) = Len(w.frames) /\ Len(v.unsaid) = Len(w.unsaid) BY <1>3, <1>4, <1>12
  <2>2. Said(c, k) = Said(c, k + 1) BY <1>8, <1>9, <2>1
  <2> QED BY <1>3, <1>4, <1>5, <1>6, <1>12, <2>2 DEF Turned, Fed, Noted, T, N, w, v
<1> QED BY <1>10, <1>11, <1>12

LEMMA Turns ==
  ASSUME NEW c, Course(c), NEW k \in 0..(c.steps - 1), NEW w, w = c.at[k], NEW v, v = c.at[k + 1],
         NEW tasks, NEW things, NEW fns, NEW frames, NEW notes,
         Moves(w, v, tasks, things, fns, frames, notes, {}), IsSeq(frames),
         notes = <<>> \/ \E what : notes = Mark(w, what)
  PROVE  Turned(c, k, tasks, things, fns, frames, notes)
<1>1. IsSeq(notes) BY SeqsJoin, MarkIs
<1> QED BY <1>1, TurnsNext

LEMMA GlobalTurns ==
  ASSUME NEW c, Course(c), NEW k \in 0..(c.steps - 1), c.at[k].todo[1].does = "global"
  PROVE  LET w == c.at[k]
             t == w.todo[1]
         IN  Turned(c, k, GlobalTasks(t.at, t.label, t.names), {}, {}, FrameOf(c.of, t.at, t.label),
                    IF t.at \in Outside THEN Mark(w, <<"object", t.at>>) ELSE <<>>)
<1> DEFINE t == c.at[k].todo[1]
<1>1. PICK w, v : w = c.at[k] /\ v = c.at[k + 1] OBVIOUS
<1>2. t = w.todo[1] /\ GlobalStep(c.of, w, v) BY <1>1, CourseStep DEF Step
<1> HIDE DEF t
<1>3. ASSUME NEW tasks, NEW things, NEW fns, NEW frames, NEW notes,
             Moves(w, v, tasks, things, fns, frames, notes, {}), IsSeq(frames),
             notes = <<>> \/ \E what : notes = Mark(w, what)
      PROVE  Turned(c, k, tasks, things, fns, frames, notes)
  BY <1>1, <1>3, Turns
<1>4. IsSeq(FrameOf(c.of, t.at, t.label)) BY SeqsJoin DEF FrameOf
<1>5. Moves(w, v, GlobalTasks(t.at, t.label, t.names), {}, {}, FrameOf(c.of, t.at, t.label),
            IF t.at \in Outside THEN Mark(w, <<"object", t.at>>) ELSE <<>>, {})
  BY <1>2 DEF GlobalStep, Feeds
<1> QED BY <1>1, <1>3, <1>4, <1>5 DEF t

LEMMA FunctionTurns ==
  ASSUME NEW c, Course(c), NEW k \in 0..(c.steps - 1), c.at[k].todo[1].does = "function"
  PROVE  LET w == c.at[k]
             t == w.todo[1]
         IN  IF CodeOf[t.at] \in w.seen
               THEN /\ KnownIn(c.of, w, t.at)
                    /\ Turned(c, k, <<>>, {}, {}, <<<<"cycle">>>>, Mark(w, <<"met", CodeOf[t.at]>>))
               ELSE Turned(c, k, <<Task("captures", t.at, <<1>>, <<>>)>>, {}, {t.at}, <<>>, <<>>)
<1> DEFINE t == c.at[k].todo[1]
<1>1. PICK w, v : w = c.at[k] /\ v = c.at[k + 1] OBVIOUS
<1>2. t = w.todo[1] /\ FunctionStep(c.of, w, v) BY <1>1, CourseStep DEF Step
<1> HIDE DEF t
<1>3. ASSUME NEW tasks, NEW things, NEW fns, NEW frames, NEW notes,
             Moves(w, v, tasks, things, fns, frames, notes, {}), IsSeq(frames),
             notes = <<>> \/ \E what : notes = Mark(w, what)
      PROVE  Turned(c, k, tasks, things, fns, frames, notes)
  BY <1>1, <1>3, Turns
<1>4. IsSeq(<<<<"cycle">>>>) /\ IsSeq(<<>>) BY SeqsJoin
<1> QED BY <1>1, <1>2, <1>3, <1>4 DEF FunctionStep, Feeds, t

LEMMA CapturesTurns ==
  ASSUME NEW c, Course(c), NEW k \in 0..(c.steps - 1), c.at[k].todo[1].does = "captures"
  PROVE  LET w == c.at[k]
             t == w.todo[1]
         IN  Turned(c, k, CapturesIn(c.of, t.at, t.label[1]), {}, {}, <<>>, <<>>)
<1> DEFINE t == c.at[k].todo[1]
<1>1. PICK w, v : w = c.at[k] /\ v = c.at[k + 1] OBVIOUS
<1>2. t = w.todo[1] /\ CapturesStep(c.of, w, v) BY <1>1, CourseStep DEF Step
<1> HIDE DEF t
<1>3. ASSUME NEW tasks, NEW things, NEW fns, NEW frames, NEW notes,
             Moves(w, v, tasks, things, fns, frames, notes, {}), IsSeq(frames),
             notes = <<>> \/ \E what : notes = Mark(w, what)
      PROVE  Turned(c, k, tasks, things, fns, frames, notes)
  BY <1>1, <1>3, Turns
<1>4. IsSeq(<<>>) BY SeqsJoin
<1> QED BY <1>1, <1>2, <1>3, <1>4 DEF CapturesStep, Feeds, t

LEMMA CodeTurns ==
  ASSUME NEW c, Course(c), NEW k \in 0..(c.steps - 1), c.at[k].todo[1].does = "code"
  PROVE  LET w == c.at[k]
             t == w.todo[1]
         IN  IF t.at \in w.seen
               THEN Turned(c, k, <<>>, {}, {}, <<<<"cycle">>>>, Mark(w, <<"met", t.at>>))
               ELSE Turned(c, k, CodeIn(c.of, t.at), {t.at}, {}, CodeFramesIn(c.of, t.at),
                           Mark(w, <<"signature", c.of.signature[t.at]>>))
<1> DEFINE t == c.at[k].todo[1]
<1>1. PICK w, v : w = c.at[k] /\ v = c.at[k + 1] OBVIOUS
<1>2. t = w.todo[1] /\ CodeStep(c.of, w, v) BY <1>1, CourseStep DEF Step
<1> HIDE DEF t
<1>3. ASSUME NEW tasks, NEW things, NEW fns, NEW frames, NEW notes,
             Moves(w, v, tasks, things, fns, frames, notes, {}), IsSeq(frames),
             notes = <<>> \/ \E what : notes = Mark(w, what)
      PROVE  Turned(c, k, tasks, things, fns, frames, notes)
  BY <1>1, <1>3, Turns
<1>4. IsSeq(<<<<"cycle">>>>) /\ IsSeq(CodeFramesIn(c.of, t.at))
  BY SeqsJoin, SeqOfThree DEF CodeFramesIn
<1> QED BY <1>1, <1>2, <1>3, <1>4 DEF CodeStep, Feeds, t

LEMMA ModuleTurns ==
  ASSUME NEW c, Course(c), NEW k \in 0..(c.steps - 1), c.at[k].todo[1].does = "module"
  PROVE  LET w == c.at[k]
             t == w.todo[1]
         IN  IF t.at = Nothing THEN Turned(c, k, <<>>, {}, {}, <<>>, <<>>)
             ELSE IF t.at \in w.seen
               THEN /\ \E T \in SUBSET (w.seen \cap Mod) : t.at \in T /\ Follows(T, t.names)
                    /\ Turned(c, k, <<>>, {}, {}, <<>>, Mark(w, <<"passed", t.label, t.at>>))
             ELSE Turned(c, k, ModuleTasks(t.at, t.label, t.names), {t.at}, {},
                         <<<<"m", t.label, t.at, c.of.text[t.at]>>>>, <<>>)
<1> DEFINE t == c.at[k].todo[1]
<1>1. PICK w, v : w = c.at[k] /\ v = c.at[k + 1] OBVIOUS
<1>2. t = w.todo[1] /\ ModuleStep(c.of, w, v) BY <1>1, CourseStep DEF Step
<1> HIDE DEF t
<1>3. ASSUME NEW tasks, NEW things, NEW fns, NEW frames, NEW notes,
             Moves(w, v, tasks, things, fns, frames, notes, {}), IsSeq(frames),
             notes = <<>> \/ \E what : notes = Mark(w, what)
      PROVE  Turned(c, k, tasks, things, fns, frames, notes)
  BY <1>1, <1>3, Turns
<1>4. IsSeq(<<>>) /\ IsSeq(<<<<"m", t.label, t.at, c.of.text[t.at]>>>>) BY SeqsJoin
<1>5. CASE t.at = Nothing BY <1>1, <1>2, <1>3, <1>4, <1>5 DEF ModuleStep, Feeds, t
<1>6. CASE t.at # Nothing /\ t.at \in w.seen
  <2>1. /\ \E T \in SUBSET (w.seen \cap Mod) : t.at \in T /\ Follows(T, t.names)
        /\ Moves(w, v, <<>>, {}, {}, <<>>, Mark(w, <<"passed", t.label, t.at>>), {})
    BY <1>2, <1>6 DEF ModuleStep, Feeds
  <2>2. Turned(c, k, <<>>, {}, {}, <<>>, Mark(w, <<"passed", t.label, t.at>>)) BY <1>3, <1>4, <2>1
  <2> QED BY <1>1, <1>6, <2>1, <2>2 DEF t
<1>7. CASE t.at # Nothing /\ t.at \notin w.seen
  <2>1. Moves(w, v, ModuleTasks(t.at, t.label, t.names), {t.at}, {},
              <<<<"m", t.label, t.at, c.of.text[t.at]>>>>, <<>>, {})
    BY <1>2, <1>7 DEF ModuleStep
  <2>2. Turned(c, k, ModuleTasks(t.at, t.label, t.names), {t.at}, {},
               <<<<"m", t.label, t.at, c.of.text[t.at]>>>>, <<>>)
    BY <1>3, <1>4, <2>1
  <2> QED BY <1>1, <1>7, <2>2, Zenon DEF t
<1> QED BY <1>5, <1>6, <1>7

LEMMA ClassTurns ==
  ASSUME NEW c, Course(c), NEW k \in 0..(c.steps - 1), c.at[k].todo[1].does = "class"
  PROVE  LET w == c.at[k]
             t == w.todo[1]
         IN  IF t.at \in w.seen
               THEN Turned(c, k, <<>>, {}, {}, <<>>, Mark(w, <<"passed", t.label, t.at>>))
             ELSE /\ Bases[t.at] = <<>>
                  /\ Turned(c, k, ClassIn(c.of, t.at), {t.at}, {}, <<<<"cls", t.label, t.at>>>>,
                            Mark(w, <<"methods", MethodNames(c.of, t.at)>>))
<1> DEFINE t == c.at[k].todo[1]
<1>1. PICK w, v : w = c.at[k] /\ v = c.at[k + 1] OBVIOUS
<1>2. t = w.todo[1] /\ ClassStep(c.of, w, v) BY <1>1, CourseStep DEF Step
<1> HIDE DEF t
<1>3. ASSUME NEW tasks, NEW things, NEW fns, NEW frames, NEW notes,
             Moves(w, v, tasks, things, fns, frames, notes, {}), IsSeq(frames),
             notes = <<>> \/ \E what : notes = Mark(w, what)
      PROVE  Turned(c, k, tasks, things, fns, frames, notes)
  BY <1>1, <1>3, Turns
<1>4. IsSeq(<<>>) /\ IsSeq(<<<<"cls", t.label, t.at>>>>) BY SeqsJoin
<1> QED BY <1>1, <1>2, <1>3, <1>4 DEF ClassStep, Feeds, t

-----------------------------------------------------------------------------
(* What is left to do                                                      *)

LEMMA Spliced ==
  ASSUME NEW s \in Seq(Tasks), s # <<>>, NEW tasks \in Seq(Tasks), NEW r, r = tasks \o Tail(s)
  PROVE  /\ r \in Seq(Tasks) /\ Len(r) = Len(tasks) + Len(s) - 1
         /\ Len(s) \in Nat \ {0} /\ Len(tasks) \in Nat
         /\ \A a \in 1..Len(tasks) : r[a] = tasks[a]
         /\ \A a \in 2..Len(s) : r[Len(tasks) + a - 1] = s[a]
OBVIOUS

LEMMA CapturesInIs ==
  ASSUME NEW p \in Program, NEW f \in Fn, NEW i \in Nat \ {0}
  PROVE  LET s == CapturesIn(p, f, i)
         IN  /\ s \in Seq(Tasks) /\ p.captures[f] \in Seq(Object) /\ CodeOf[f] \in Code
             /\ i \in DOMAIN p.captures[f] =>
                  /\ Len(s) = 2
                  /\ s[1] = Task("global", p.captures[f][i], <<i>>, p.names[CodeOf[f]])
                  /\ s[2] = Task("captures", f, <<i + 1>>, <<>>)
                  /\ p.captures[f][i] \in Object
             /\ i \notin DOMAIN p.captures[f] =>
                  Len(s) = 1 /\ s[1] = Task("code", CodeOf[f], <<>>, <<>>)
<1> DEFINE s == p.captures[f]
           ns == p.names[CodeOf[f]]
           c == CodeOf[f]
           a == Task("global", s[i], <<i>>, ns)
           b == Task("captures", f, <<i + 1>>, <<>>)
           d == Task("code", c, <<>>, <<>>)
<1>1. c \in Code /\ s \in Seq(Object) /\ ns \in Seq(Name) BY HashAssumption DEF Program
<1>2. CapturesIn(p, f, i) = IF i \in DOMAIN s THEN <<a, b>> ELSE <<d>> BY DEF CapturesIn
<1> HIDE DEF s, ns, c
<1>3. CASE i \in DOMAIN s
  <2>1. s[i] \in Object /\ i \in Nat /\ i + 1 \in Nat \ {0} BY <1>1, <1>3
  <2>2. a \in Tasks /\ b \in Tasks BY <1>1, <2>1, TaskTypes, Labels
  <2> HIDE DEF a, b, d
  <2>3. <<a, b>> \in Seq(Tasks) /\ Len(<<a, b>>) = 2 /\ <<a, b>>[1] = a /\ <<a, b>>[2] = b BY <2>2
  <2> QED BY <1>1, <1>2, <1>3, <2>1, <2>3 DEF s, ns, c, a, b
<1>4. CASE i \notin DOMAIN s
  <2>1. d \in Tasks BY <1>1, TaskTypes, Labels
  <2> HIDE DEF a, b, d
  <2>2. <<d>> \in Seq(Tasks) /\ Len(<<d>>) = 1 /\ <<d>>[1] = d BY <2>1
  <2> QED BY <1>1, <1>2, <1>4, <2>2 DEF s, ns, c, d
<1> QED BY <1>3, <1>4

LEMMA CodeInIs ==
  ASSUME NEW p \in Program, NEW x \in Code
  PROVE  LET s == CodeIn(p, x)
             n == Len(Inner[x])
             ns == p.names[x]
         IN  /\ s \in Seq(Tasks) /\ ns \in Seq(Name) /\ n \in Nat /\ Len(ns) \in Nat
             /\ Len(s) = n + Len(ns) /\ DOMAIN Inner[x] = 1..n
             /\ \A i \in 1..n : Inner[x][i] \in Code /\ s[i] = Task("code", Inner[x][i], <<>>, <<>>)
             /\ \A i \in 1..Len(ns) :
                  ns[i] \in Name /\ s[n + i] = Task("global", p.bound[ns[i]], <<ns[i]>>, ns)
<1> DEFINE s == Inner[x]
           ns == p.names[x]
           bound == p.bound
           a == [i \in DOMAIN s |-> Task("code", s[i], <<>>, <<>>)]
           b == [i \in DOMAIN ns |-> Task("global", bound[ns[i]], <<ns[i]>>, ns)]
<1>1. s \in Seq(Code) /\ ns \in Seq(Name) /\ bound \in [Name -> Object \cup {Nothing}]
  BY HashAssumption DEF Program
<1>2. CodeIn(p, x) = a \o b BY DEF CodeIn
<1> HIDE DEF s, ns, bound
<1>3. \A i \in DOMAIN s : s[i] \in Code BY <1>1
<1>4. \A i \in DOMAIN s : Task("code", s[i], <<>>, <<>>) \in Tasks BY <1>3, TaskTypes, Labels
<1>5. a \in [1..Len(s) -> Tasks] /\ Len(s) \in Nat /\ DOMAIN s = 1..Len(s) BY <1>1, <1>4
<1>6. \A i \in DOMAIN ns : ns[i] \in Name BY <1>1
<1>7. \A i \in DOMAIN ns : bound[ns[i]] \in Object \cup {Nothing} BY <1>1, <1>6
<1>8. \A i \in DOMAIN ns : Task("global", bound[ns[i]], <<ns[i]>>, ns) \in Tasks
  BY <1>1, <1>6, <1>7, TaskTypes, Labels
<1>9. b \in [1..Len(ns) -> Tasks] /\ Len(ns) \in Nat /\ DOMAIN ns = 1..Len(ns) BY <1>1, <1>8
<1>10. /\ \A i \in DOMAIN s : a[i] = Task("code", s[i], <<>>, <<>>)
       /\ \A i \in DOMAIN ns : b[i] = Task("global", bound[ns[i]], <<ns[i]>>, ns)
  OBVIOUS
<1> HIDE DEF a, b
<1>11. a \in Seq(Tasks) /\ b \in Seq(Tasks) /\ Len(a) = Len(s) /\ Len(b) = Len(ns)
  BY <1>5, <1>9, SeqFrom
<1>12. /\ a \o b \in Seq(Tasks) /\ Len(a \o b) = Len(s) + Len(ns)
       /\ \A i \in 1..Len(s) : (a \o b)[i] = a[i]
       /\ \A i \in 1..Len(ns) : (a \o b)[Len(s) + i] = b[i]
  <2>1. IsSeq(a) /\ IsSeq(b) BY <1>11, SeqsJoin
  <2>2. /\ Len(a \o b) = Len(a) + Len(b)
        /\ \A i \in 1..Len(a) : (a \o b)[i] = a[i]
        /\ \A i \in 1..Len(b) : (a \o b)[Len(a) + i] = b[i]
    BY <2>1, SeqsJoin
  <2>3. a \o b \in Seq(Tasks) BY <1>11
  <2> QED BY <1>11, <2>2, <2>3
<1> QED BY <1>1, <1>2, <1>3, <1>5, <1>6, <1>9, <1>10, <1>12 DEF s, ns, bound

LEMMA ClassInIs ==
  ASSUME NEW p \in Program, NEW k \in Cls
  PROVE  LET s == ClassIn(p, k)
             ms == p.methods[k]
         IN  /\ s \in Seq(Tasks) /\ ms \in Seq(Name \X Fn) /\ Len(ms) \in Nat /\ Len(s) = Len(ms)
             /\ \A i \in 1..Len(ms) : ms[i][2] \in Fn /\ s[i] = Task("function", ms[i][2], <<>>, <<>>)
<1> DEFINE s == p.methods[k]
           a == [i \in DOMAIN s |-> Task("function", s[i][2], <<>>, <<>>)]
<1>1. s \in Seq(Name \X Fn) BY DEF Program
<1>2. ClassIn(p, k) = a BY DEF ClassIn
<1> HIDE DEF s
<1>3. \A i \in DOMAIN s : s[i] \in Name \X Fn BY <1>1
<1>4. \A i \in DOMAIN s : s[i][2] \in Fn BY <1>3
<1>5. \A i \in DOMAIN s : Task("function", s[i][2], <<>>, <<>>) \in Tasks BY <1>4, TaskTypes, Labels
<1>6. a \in [1..Len(s) -> Tasks] /\ Len(s) \in Nat /\ DOMAIN s = 1..Len(s) BY <1>1, <1>5
<1>7. \A i \in DOMAIN s : a[i] = Task("function", s[i][2], <<>>, <<>>) OBVIOUS
<1> HIDE DEF a
<1>8. a \in Seq(Tasks) /\ Len(a) = Len(s) BY <1>6, SeqFrom
<1> QED BY <1>1, <1>2, <1>4, <1>6, <1>7, <1>8 DEF s

LEMMA ModuleTasksIs ==
  ASSUME NEW m \in Mod, NEW label \in Label, NEW names \in Seq(Name)
  PROVE  LET s == ModuleTasks(m, label, names)
         IN  /\ s \in Seq(Tasks) /\ Len(s) = Len(names) /\ Len(names) \in Nat
             /\ \A i \in 1..Len(names) : s[i] = Task("module", Sub[m][names[i]], Append(label, names[i]), names)
<1> DEFINE s == ModuleTasks(m, label, names)
<1>1. s \in Seq(Tasks) BY ModuleTasksAre
<1>2. DOMAIN s = 1..Len(names) /\ Len(names) \in Nat BY DEF ModuleTasks
<1>3. \A i \in 1..Len(names) : s[i] = Task("module", Sub[m][names[i]], Append(label, names[i]), names)
  BY DEF ModuleTasks
<1> HIDE DEF s
<1>4. Len(s) = Len(names) BY <1>1, <1>2
<1> QED BY <1>1, <1>2, <1>3, <1>4 DEF s

LEMMA GlobalTasksIs ==
  ASSUME NEW o \in Object \cup {Nothing}, NEW label \in Label, NEW names \in Seq(Name)
  PROVE  LET s == GlobalTasks(o, label, names)
         IN  /\ s \in Seq(Tasks)
             /\ o \in Fn => s = <<Task("function", o, label, names)>>
             /\ o \in Mod => s = <<Task("module", o, label, names)>>
             /\ o \in Cls => s = <<Task("class", o, label, names)>>
             /\ o \notin Fn \cup Mod \cup Cls => s = <<>>
<1>1. \A x \in Tasks : <<x>> \in Seq(Tasks) OBVIOUS
<1>2. <<>> \in Seq(Tasks) OBVIOUS
<1>3. Fn \cap (Mod \cup Cls) = {} /\ Mod \cap Cls = {} BY HashAssumption
<1>4. GlobalTasks(o, label, names) \in Seq(Tasks) BY <1>1, <1>2, TaskTypes DEF GlobalTasks
<1> QED BY <1>3, <1>4 DEF GlobalTasks

LEMMA NoAdds ==
  ASSUME NEW p, NEW t PROVE AddsFine(p, t, <<>>)
<1>1. <<>> \in Seq(Tasks) /\ Len(<<>>) = 0 /\ 1..0 = {} OBVIOUS
<1> QED BY <1>1 DEF AddsFine

LEMMA OneAdds ==
  ASSUME NEW p, NEW t, t.does # "module", NEW x \in Tasks, Sound(p, x), ~Deep(x)
  PROVE  AddsFine(p, t, <<x>>)
<1>1. <<x>> \in Seq(Tasks) /\ Len(<<x>>) = 1 /\ <<x>>[1] = x /\ 1..1 = {1} OBVIOUS
<1> QED BY <1>1 DEF AddsFine

LEMMA PlainTask ==
  ASSUME NEW p, NEW does, NEW at, NEW label, NEW names, does \notin {"global", "module", "class"}
  PROVE  Sound(p, Task(does, at, label, names)) /\ ~Deep(Task(does, at, label, names))
<1>1. PICK x : x = Task(does, at, label, names) OBVIOUS
<1>2. x.does = does BY <1>1, TaskIs
<1>3. Sound(p, x) /\ ~Deep(x) BY <1>2 DEF Sound, Deep
<1> QED BY <1>1, <1>3

LEMMA TaskHas ==
  ASSUME NEW t \in Tasks
  PROVE  /\ t.names \in Seq(Name)
         /\ t.does \in {"function", "code", "class", "global", "module", "captures"}
         /\ t.does = "function" => t.at \in Fn /\ t.label \in Label
         /\ t.does = "code" => t.at \in Code
         /\ t.does = "class" => t.at \in Cls /\ t.label \in Label
         /\ t.does = "global" => t.at \in Object \cup {Nothing} /\ t.label \in Label
         /\ t.does = "module" => t.at \in Mod \cup {Nothing} /\ t.label \in Label
         /\ t.does = "captures" => t.at \in Fn /\ \E i \in Nat \ {0} : t.label = <<i>>
BY DEF Tasks, TasksOf

LEMMA LabelLen ==
  /\ \A y : Len(<<y>>) = 1 /\ <<y>>[1] = y
  /\ \A l \in Label, y \in Name : Len(l) \in Nat /\ Len(Append(l, y)) = Len(l) + 1
BY DEF Label

LEMMA GlobalAdds ==
  ASSUME NEW p \in Program, NEW t \in Tasks, t.does = "global", Sound(p, t)
  PROVE  AddsFine(p, t, GlobalTasks(t.at, t.label, t.names))
<1> DEFINE s == GlobalTasks(t.at, t.label, t.names)
<1>1. t.at \in Object \cup {Nothing} /\ t.label \in Label /\ t.names \in Seq(Name) BY TaskHas
<1>2. Len(t.label) = 1 BY LabelLen DEF Sound
<1>9. t.at # Nothing => \A y \in Name : t.label = <<y>> => p.bound[y] # Nothing
  <2> SUFFICES ASSUME t.at # Nothing, NEW y \in Name, t.label = <<y>> PROVE p.bound[y] # Nothing
    OBVIOUS
  <2>1. t.label[1] = y OBVIOUS
  <2>2. y \notin Nat BY HashAssumption
  <2>3. \/ \E z \in Name : t.label = <<z>> /\ t.at = p.bound[z]
        \/ \E i \in Nat : t.label = <<i>>
    BY DEF Sound
  <2>4. \A i : t.label = <<i>> => i = y BY <2>1
  <2> QED BY <2>2, <2>3, <2>4
<1>3. /\ s \in Seq(Tasks)
      /\ t.at \in Fn => s = <<Task("function", t.at, t.label, t.names)>>
      /\ t.at \in Mod => s = <<Task("module", t.at, t.label, t.names)>>
      /\ t.at \in Cls => s = <<Task("class", t.at, t.label, t.names)>>
      /\ t.at \notin Fn \cup Mod \cup Cls => s = <<>>
  BY <1>1, GlobalTasksIs
<1> HIDE DEF s
<1>4. CASE t.at \in Fn
  <2>1. Task("function", t.at, t.label, t.names) \in Tasks BY <1>1, <1>4, TaskTypes
  <2> QED BY <1>3, <1>4, <2>1, PlainTask, OneAdds DEF s
<1>5. CASE t.at \in Mod
  <2>1. PICK x : x = Task("module", t.at, t.label, t.names) OBVIOUS
  <2>2. x \in Tasks BY <1>1, <1>5, <2>1, TaskTypes
  <2>3. x.does = "module" /\ x.label = t.label /\ x.at = t.at BY <2>1, TaskIs
  <2>4. /\ x.does = "module" /\ Len(x.label) = 1 /\ x.at # Nothing
        /\ \A y \in Name : x.label = <<y>> => p.bound[y] # Nothing
    BY <1>2, <1>5, <1>9, <2>3, HashAssumption DEF Object
  <2>5. Sound(p, x) /\ ~Deep(x) BY <2>4 DEF Sound, Deep
  <2> QED BY <1>3, <1>5, <2>1, <2>2, <2>5, OneAdds DEF s
<1>6. CASE t.at \in Cls
  <2>1. PICK x : x = Task("class", t.at, t.label, t.names) OBVIOUS
  <2>2. x \in Tasks BY <1>1, <1>6, <2>1, TaskTypes
  <2>3. x.does = "class" /\ x.label = t.label BY <2>1, TaskIs
  <2>4. /\ x.does = "class" /\ Len(x.label) = 1
        /\ \A y \in Name : x.label = <<y>> => p.bound[y] # Nothing
    BY <1>2, <1>6, <1>9, <2>3, HashAssumption DEF Object
  <2>5. Sound(p, x) /\ ~Deep(x) BY <2>4 DEF Sound, Deep
  <2> QED BY <1>3, <1>6, <2>1, <2>2, <2>5, OneAdds DEF s
<1>7. CASE t.at \notin Fn \cup Mod \cup Cls BY <1>3, <1>7, NoAdds DEF s
<1> QED BY <1>4, <1>5, <1>6, <1>7

LEMMA CapturesAdds ==
  ASSUME NEW p \in Program, NEW t \in Tasks, t.does = "captures"
  PROVE  AddsFine(p, t, CapturesIn(p, t.at, t.label[1]))
<1>1. PICK f \in Fn, i \in Nat \ {0} : f = t.at /\ t.label = <<i>> BY TaskHas
<1>2. t.label[1] = i BY <1>1
<1>3. PICK s : s = CapturesIn(p, f, i) OBVIOUS
<1>4. /\ s \in Seq(Tasks)
      /\ i \in DOMAIN p.captures[f] =>
            /\ Len(s) = 2
            /\ s[1] = Task("global", p.captures[f][i], <<i>>, p.names[CodeOf[f]])
            /\ s[2] = Task("captures", f, <<i + 1>>, <<>>)
            /\ p.captures[f][i] \in Object
      /\ i \notin DOMAIN p.captures[f] => Len(s) = 1 /\ s[1] = Task("code", CodeOf[f], <<>>, <<>>)
  BY <1>3, CapturesInIs
<1>5. CASE i \in DOMAIN p.captures[f]
  <2>1. PICK x : x = Task("global", p.captures[f][i], <<i>>, p.names[CodeOf[f]]) OBVIOUS
  <2>2. x.does = "global" /\ x.label = <<i>> /\ x.at \in Object BY <1>4, <1>5, <2>1, TaskIs
  <2>3. Sound(p, x) /\ ~Deep(x) BY <2>2 DEF Sound, Deep
  <2>4. Sound(p, s[2]) /\ ~Deep(s[2]) BY <1>4, <1>5, PlainTask
  <2>5. s[1] = x /\ Len(s) = 2 /\ 1..2 = {1, 2} BY <1>4, <1>5, <2>1
  <2>6. AddsFine(p, t, s) BY <1>4, <2>3, <2>4, <2>5 DEF AddsFine
  <2> QED BY <1>1, <1>2, <1>3, <2>6
<1>6. CASE i \notin DOMAIN p.captures[f]
  <2>1. Len(s) = 1 /\ Sound(p, s[1]) /\ ~Deep(s[1]) BY <1>4, <1>6, PlainTask
  <2>2. 1..1 = {1} OBVIOUS
  <2>3. AddsFine(p, t, s) BY <1>4, <2>1, <2>2 DEF AddsFine
  <2> QED BY <1>1, <1>2, <1>3, <2>3
<1> QED BY <1>5, <1>6

LEMMA CodeAdds ==
  ASSUME NEW p \in Program, NEW t, t.does # "module", NEW x \in Code
  PROVE  AddsFine(p, t, CodeIn(p, x))
<1>1. PICK s, n, ns : s = CodeIn(p, x) /\ n = Len(Inner[x]) /\ ns = p.names[x]
  <2>1. CodeIn(p, x) = CodeIn(p, x) /\ Len(Inner[x]) = Len(Inner[x]) /\ p.names[x] = p.names[x]
    OBVIOUS
  <2> QED BY <2>1, Zenon
<1>2. /\ s \in Seq(Tasks) /\ n \in Nat /\ Len(ns) \in Nat /\ Len(s) = n + Len(ns)
      /\ \A i \in 1..n : s[i] = Task("code", Inner[x][i], <<>>, <<>>)
      /\ \A i \in 1..Len(ns) :
           ns[i] \in Name /\ s[n + i] = Task("global", p.bound[ns[i]], <<ns[i]>>, ns)
  BY <1>1, CodeInIs
<1>3. ASSUME NEW a \in 1..Len(s) PROVE Sound(p, s[a]) /\ ~Deep(s[a])
  <2>1. CASE a <= n
    <3>1. s[a] = Task("code", Inner[x][a], <<>>, <<>>) BY <1>2, <2>1
    <3> QED BY <3>1, PlainTask
  <2>2. CASE a > n
    <3>1. PICK i \in 1..Len(ns) : a = n + i
      <4>1. a - n \in 1..Len(ns) /\ a = n + (a - n) BY <1>2, <2>2
      <4> QED BY <4>1
    <3>2. ns[i] \in Name /\ s[a] = Task("global", p.bound[ns[i]], <<ns[i]>>, ns) BY <1>2, <3>1
    <3>3. PICK y : y = ns[i] OBVIOUS
    <3>4. PICK z : z = s[a] OBVIOUS
    <3>5. z.does = "global" /\ z.label = <<y>> /\ z.at = p.bound[y] /\ y \in Name
      BY <3>2, <3>3, <3>4, TaskIs
    <3>6. Sound(p, z) /\ ~Deep(z) BY <3>5 DEF Sound, Deep
    <3> QED BY <3>4, <3>6
  <2> QED BY <1>2, <2>1, <2>2
<1>4. AddsFine(p, t, s) BY <1>2, <1>3 DEF AddsFine
<1> QED BY <1>1, <1>4

LEMMA ModuleAdds ==
  ASSUME NEW p \in Program, NEW t \in Tasks, t.does = "module", t.at # Nothing, Sound(p, t)
  PROVE  AddsFine(p, t, ModuleTasks(t.at, t.label, t.names))
<1>1. PICK m \in Mod, l \in Label, ns \in Seq(Name) : m = t.at /\ l = t.label /\ ns = t.names
  BY TaskHas
<1>2. PICK s : s = ModuleTasks(m, l, ns) OBVIOUS
<1>3. /\ s \in Seq(Tasks) /\ Len(s) = Len(ns) /\ Len(ns) \in Nat
      /\ \A i \in 1..Len(ns) : s[i] = Task("module", Sub[m][ns[i]], Append(l, ns[i]), ns)
  BY <1>2, ModuleTasksIs
<1>4. Len(l) \in Nat \ {0} BY <1>1 DEF Sound
<1>5. ASSUME NEW a \in 1..Len(s) PROVE Sound(p, s[a]) /\ Deep(s[a])
  <2>1. PICK y \in Name : y = ns[a] BY <1>3
  <2>2. PICK z : z = s[a] OBVIOUS
  <2>8. z = Task("module", Sub[m][ns[a]], Append(l, y), ns) BY <1>3, <2>1, <2>2
  <2>3. z.does = "module" /\ z.label = Append(l, y) BY <2>8 DEF Task
  <2>4. Len(z.label) = Len(l) + 1 BY <2>3, LabelLen
  <2>5. Len(z.label) \in Nat \ {0} /\ Len(z.label) # 1 /\ Len(z.label) > 1 BY <1>4, <2>4
  <2>9. \A b : z.label # <<b>> BY <2>5, LabelLen
  <2>6. Sound(p, z) /\ Deep(z) BY <2>3, <2>5, <2>9 DEF Sound, Deep
  <2> QED BY <2>2, <2>6
<1>6. AddsFine(p, t, s) BY <1>3, <1>5 DEF AddsFine
<1> QED BY <1>1, <1>2, <1>6

LEMMA ClassAdds ==
  ASSUME NEW p \in Program, NEW t, t.does # "module", NEW k \in Cls
  PROVE  AddsFine(p, t, ClassIn(p, k))
<1>1. PICK s, ms : s = ClassIn(p, k) /\ ms = p.methods[k]
  <2>1. ClassIn(p, k) = ClassIn(p, k) /\ p.methods[k] = p.methods[k] OBVIOUS
  <2> QED BY <2>1, Zenon
<1>2. /\ s \in Seq(Tasks) /\ Len(s) = Len(ms)
      /\ \A i \in 1..Len(ms) : s[i] = Task("function", ms[i][2], <<>>, <<>>)
  BY <1>1, ClassInIs
<1>3. \A a \in 1..Len(s) : Sound(p, s[a]) /\ ~Deep(s[a]) BY <1>2, PlainTask
<1>4. AddsFine(p, t, s) BY <1>2, <1>3 DEF AddsFine
<1> QED BY <1>1, <1>4

LEMMA TurnedTodo ==
  ASSUME NEW c, NEW k, NEW s, NEW things, NEW fns, NEW frames, NEW notes,
         Turned(c, k, s, things, fns, frames, notes)
  PROVE  /\ c.at[k + 1].todo = s \o Tail(c.at[k].todo)
         /\ c.at[k + 1].seen = c.at[k].seen \cup things /\ c.at[k + 1].met = c.at[k].met \cup fns
BY DEF Turned

LEMMA HeadOf ==
  ASSUME NEW c, Course(c), NEW k \in 0..(c.steps - 1)
  PROVE  c.at[k].todo # <<>> /\ c.at[k].todo[1] \in Tasks /\ c.at[k].todo \in Seq(Tasks)
<1>1. TypedWalk(c.at[k]) /\ c.at[k].todo # <<>> BY CourseStep DEF Step
<1> QED BY <1>1 DEF TypedWalk

\* The tasks a step adds.
LEMMA Adds ==
  ASSUME NEW c, Course(c), NEW k \in 0..(c.steps - 1), Sound(c.of, c.at[k].todo[1])
  PROVE  \E s : AddsFine(c.of, c.at[k].todo[1], s) /\ c.at[k + 1].todo = s \o Tail(c.at[k].todo)
<1>1. PICK t : t = c.at[k].todo[1] OBVIOUS
<1>2. PICK p : p = c.of OBVIOUS
<1>3. p \in Program /\ t \in Tasks /\ Sound(p, t) BY <1>1, <1>2, HeadOf, CourseStep
<1>4. t.does \in {"function", "code", "class", "global", "module", "captures"} BY <1>3, TaskHas
<1>5. SUFFICES \E s : AddsFine(p, t, s) /\ c.at[k + 1].todo = s \o Tail(c.at[k].todo) BY <1>1, <1>2
<1>13. ASSUME NEW s, NEW things, NEW fns, NEW frames, NEW notes, Turned(c, k, s, things, fns, frames, notes)
       PROVE  c.at[k + 1].todo = s \o Tail(c.at[k].todo)
  BY <1>13 DEF Turned
<1>14. AddsFine(p, t, <<>>) BY NoAdds
<1>6. CASE t.does = "global"
  <2>1. c.at[k + 1].todo = GlobalTasks(t.at, t.label, t.names) \o Tail(c.at[k].todo)
    <3>1. Turned(c, k, GlobalTasks(t.at, t.label, t.names), {}, {}, FrameOf(c.of, t.at, t.label),
                 IF t.at \in Outside THEN Mark(c.at[k], <<"object", t.at>>) ELSE <<>>)
      BY <1>1, <1>6, GlobalTurns
    <3> QED BY <1>13, <3>1, Zenon
  <2>2. AddsFine(p, t, GlobalTasks(t.at, t.label, t.names)) BY <1>3, <1>6, GlobalAdds
  <2> QED BY <2>1, <2>2, Zenon
<1>7. CASE t.does = "function"
  <2>1. \E a \in {<<>>, <<Task("captures", t.at, <<1>>, <<>>)>>} :
          c.at[k + 1].todo = a \o Tail(c.at[k].todo)
    BY <1>1, <1>7, <1>13, FunctionTurns
  <2>2. AddsFine(p, t, <<Task("captures", t.at, <<1>>, <<>>)>>)
    <3>1. 1 \in Nat \ {0} /\ <<>> \in Label /\ <<>> \in Seq(Name) /\ t.at \in Fn
      BY <1>3, <1>7, TaskHas, Labels
    <3>2. Task("captures", t.at, <<1>>, <<>>) \in Tasks BY <3>1, TaskTypes
    <3>3. Sound(p, Task("captures", t.at, <<1>>, <<>>)) /\ ~Deep(Task("captures", t.at, <<1>>, <<>>))
      BY PlainTask
    <3>4. t.does # "module" BY <1>7
    <3> QED BY <3>2, <3>3, <3>4, OneAdds
  <2> QED BY <1>14, <2>1, <2>2
<1>8. CASE t.does = "captures"
  <2>1. c.at[k + 1].todo = CapturesIn(p, t.at, t.label[1]) \o Tail(c.at[k].todo)
    BY <1>1, <1>2, <1>8, <1>13, CapturesTurns
  <2>2. AddsFine(p, t, CapturesIn(p, t.at, t.label[1])) BY <1>3, <1>8, CapturesAdds
  <2> QED BY <2>1, <2>2
<1>9. CASE t.does = "code"
  <2>1. \E a \in {<<>>, CodeIn(p, t.at)} : c.at[k + 1].todo = a \o Tail(c.at[k].todo)
    BY <1>1, <1>2, <1>9, <1>13, CodeTurns
  <2>2. AddsFine(p, t, CodeIn(p, t.at)) BY <1>3, <1>9, TaskHas, CodeAdds
  <2> QED BY <1>14, <2>1, <2>2, Zenon
<1>10. CASE t.does = "module"
  <2>1. PICK a : a = ModuleTasks(t.at, t.label, t.names) OBVIOUS
  <2>2. \/ c.at[k + 1].todo = <<>> \o Tail(c.at[k].todo)
        \/ t.at # Nothing /\ c.at[k + 1].todo = a \o Tail(c.at[k].todo)
    <3>1. \/ \E notes : Turned(c, k, <<>>, {}, {}, <<>>, notes)
          \/ /\ t.at # Nothing
             /\ Turned(c, k, ModuleTasks(t.at, t.label, t.names), {t.at}, {},
                       <<<<"m", t.label, t.at, c.of.text[t.at]>>>>, <<>>)
      <4>1. IF t.at = Nothing THEN Turned(c, k, <<>>, {}, {}, <<>>, <<>>)
            ELSE IF t.at \in c.at[k].seen
              THEN /\ \E T \in SUBSET (c.at[k].seen \cap Mod) : t.at \in T /\ Follows(T, t.names)
                   /\ Turned(c, k, <<>>, {}, {}, <<>>, Mark(c.at[k], <<"passed", t.label, t.at>>))
            ELSE Turned(c, k, ModuleTasks(t.at, t.label, t.names), {t.at}, {},
                        <<<<"m", t.label, t.at, c.of.text[t.at]>>>>, <<>>)
        BY <1>1, <1>10, ModuleTurns, Zenon
      <4> QED BY <4>1, Zenon
    <3> QED BY <1>13, <2>1, <3>1, Zenon
  <2>3. t.at # Nothing => AddsFine(p, t, a) BY <1>3, <1>10, <2>1, ModuleAdds
  <2> QED BY <1>14, <2>2, <2>3, Zenon
<1>11. CASE t.does = "class"
  <2>1. \E a \in {<<>>, ClassIn(p, t.at)} : c.at[k + 1].todo = a \o Tail(c.at[k].todo)
    BY <1>1, <1>2, <1>11, <1>13, ClassTurns
  <2>2. AddsFine(p, t, ClassIn(p, t.at)) BY <1>3, <1>11, TaskHas, ClassAdds
  <2> QED BY <1>14, <2>1, <2>2, Zenon
<1> QED BY <1>4, <1>6, <1>7, <1>8, <1>9, <1>10, <1>11

\* Splicing, for the part that is deep and the part that is not.
LEMMA NeatStays ==
  ASSUME NEW p, NEW s \in Seq(Tasks), s # <<>>, Neat(p, s), NEW a, AddsFine(p, s[1], a),
         NEW r, r = a \o Tail(s)
  PROVE  Neat(p, r)
<1>1. a \in Seq(Tasks) BY DEF AddsFine
<1>2. PICK n, m : n = Len(a) /\ m = Len(s) OBVIOUS
<1>3. /\ r \in Seq(Tasks) /\ Len(r) = n + m - 1 /\ m \in Nat \ {0} /\ n \in Nat
      /\ \A i \in 1..n : r[i] = a[i]
      /\ \A i \in 2..m : r[n + i - 1] = s[i]
  BY <1>1, <1>2, Spliced
<1>4. DOMAIN r = 1..(n + m - 1) /\ DOMAIN s = 1..m BY <1>2, <1>3
<1>5. \A x \in DOMAIN r : \/ x \in 1..n /\ r[x] = a[x]
                         \/ \E i \in 2..m : x = n + i - 1 /\ r[x] = s[i]
  <2> SUFFICES ASSUME NEW x \in DOMAIN r, x \notin 1..n
               PROVE  \E i \in 2..m : x = n + i - 1 /\ r[x] = s[i]
    BY <1>3
  <2>1. x - n + 1 \in 2..m /\ x = n + (x - n + 1) - 1 BY <1>3, <1>4
  <2> QED BY <1>3, <2>1
<1>6. /\ \A i \in 1..m : Sound(p, s[i])
      /\ \A i, j \in 1..m : i < j /\ Deep(s[j]) => Deep(s[i])
  BY <1>4 DEF Neat
<1>7. \A i \in 1..n : Sound(p, a[i]) /\ (Deep(a[i]) <=> s[1].does = "module") BY <1>2 DEF AddsFine
<1>8. ASSUME NEW x \in DOMAIN r PROVE Sound(p, r[x])
  <2>1. CASE x \in 1..n /\ r[x] = a[x] BY <1>7, <2>1
  <2>2. CASE \E i \in 2..m : x = n + i - 1 /\ r[x] = s[i]
    <3>1. PICK i \in 2..m : r[x] = s[i] BY <2>2
    <3>2. i \in 1..m BY <1>3, <3>1
    <3> QED BY <1>6, <3>1, <3>2
  <2> QED BY <1>5, <2>1, <2>2
<1>9. ASSUME NEW x \in DOMAIN r, NEW y \in DOMAIN r, x < y, Deep(r[y]) PROVE Deep(r[x])
  <2>1. CASE y \in 1..n /\ r[y] = a[y]
    <3>1. x \in 1..n BY <1>3, <1>4, <1>9, <2>1
    <3>2. r[x] = a[x] /\ Deep(a[y]) BY <1>3, <1>9, <2>1, <3>1
    <3> QED BY <1>7, <2>1, <3>1, <3>2
  <2>2. CASE \E i \in 2..m : y = n + i - 1 /\ r[y] = s[i]
    <3>1. PICK j \in 2..m : y = n + j - 1 /\ r[y] = s[j] BY <2>2
    <3>2. j \in 1..m /\ 1 \in 1..m /\ 1 < j BY <1>3, <3>1
    <3>3. Deep(s[j]) /\ Deep(s[1]) BY <1>6, <1>9, <3>1, <3>2
    <3>4. CASE x \in 1..n /\ r[x] = a[x]
      <4>1. s[1].does = "module" BY <3>3 DEF Deep
      <4> QED BY <1>7, <3>4, <4>1
    <3>5. CASE \E i \in 2..m : x = n + i - 1 /\ r[x] = s[i]
      <4>1. PICK i \in 2..m : x = n + i - 1 /\ r[x] = s[i] BY <3>5
      <4>2. i < j /\ i \in 1..m BY <1>3, <1>9, <3>1, <4>1
      <4> QED BY <1>6, <3>2, <3>3, <4>1, <4>2
    <3> QED BY <1>5, <3>4, <3>5
  <2> QED BY <1>5, <1>9, <2>1, <2>2
<1> QED BY <1>8, <1>9 DEF Neat

\* The walk begins with the task of the function.
LEMMA CourseBegins ==
  ASSUME NEW c, Course(c)
  PROVE  LET w == c.at[0]
         IN  /\ w.todo = <<Task("function", Root, <<>>, <<>>)>> /\ w.seen = {} /\ w.met = {}
             /\ w.frames = <<>> /\ w.unsaid = <<>>
BY DEF Course, NewWalk

LEMMA CourseNeat ==
  ASSUME NEW c, Course(c) PROVE \A k \in 0..c.steps : Neat(c.of, c.at[k].todo)
<1>1. c.steps \in Nat BY DEF Course
<1>2. Neat(c.of, c.at[0].todo)
  <2>1. PICK s, x : s = c.at[0].todo /\ x = Task("function", Root, <<>>, <<>>) /\ s = <<x>>
    BY CourseBegins
  <2>2. DOMAIN s = {1} /\ s[1] = x BY <2>1
  <2>3. Sound(c.of, x) BY <2>1, PlainTask
  <2>4. Neat(c.of, s) BY <2>2, <2>3 DEF Neat
  <2> QED BY <2>1, <2>4
<1>3. ASSUME NEW k \in 0..(c.steps - 1), Neat(c.of, c.at[k].todo)
      PROVE  Neat(c.of, c.at[k + 1].todo)
  <2>1. PICK s : s = c.at[k].todo OBVIOUS
  <2>2. s \in Seq(Tasks) /\ s # <<>> BY <2>1, HeadOf
  <2>3. Sound(c.of, s[1]) BY <1>3, <2>1, <2>2 DEF Neat
  <2>4. PICK a : AddsFine(c.of, s[1], a) /\ c.at[k + 1].todo = a \o Tail(s) BY <2>1, <2>3, Adds
  <2> QED BY <1>3, <2>1, <2>2, <2>4, NeatStays
<1>4. PICK S : S = {k \in Nat : Neat(c.of, c.at[k].todo)} OBVIOUS
<1>5. 0 \in S /\ \A k \in 0..(c.steps - 1) : k \in S => k + 1 \in S BY <1>1, <1>2, <1>3, <1>4
<1>6. \A k \in 0..c.steps : k \in S BY <1>1, <1>5, Upward
<1> QED BY <1>4, <1>6

-----------------------------------------------------------------------------
(* What a step says                                                        *)

LEMMA MarkSays == \A w, what : Mark(w, what) # <<>> /\ Mark(w, what)[1][2] = what
<1>1. ASSUME NEW w, NEW what PROVE Mark(w, what) # <<>> /\ Mark(w, what)[1][2] = what
  <2>1. Mark(w, what)[1] = <<Len(w.frames), what>> BY MarkIs
  <2>2. Mark(w, what) # <<>>
    <3>1. PICK m : m = Mark(w, what) OBVIOUS
    <3>2. Len(m) = 1 BY <3>1, MarkIs
    <3>3. m # <<>> BY <3>2
    <3> QED BY <3>1, <3>3
  <2>3. PICK m : m = Mark(w, what)[1] OBVIOUS
  <2>4. m = <<Len(w.frames), what>> BY <2>1, <2>3
  <2>5. m[2] = what BY <2>4
  <2> QED BY <2>2, <2>3, <2>5
<1> QED BY <1>1

LEMMA NothingSaid ==
  ASSUME NEW c, NEW k, NEW s, NEW things, NEW fns, Turned(c, k, s, things, fns, <<>>, <<>>)
  PROVE  Silent(c, k)
<1>1. Len(<<>>) = 0 OBVIOUS
<1>2. Fed(c, k) \in Nat /\ Noted(c, k) \in Nat BY DEF Turned
<1>3. /\ Fed(c, k + 1) = Fed(c, k) + Len(<<>>) /\ Noted(c, k + 1) = Noted(c, k) + 0
      /\ Said(c, k) = Said(c, k + 1)
  BY <1>1 DEF Turned
<1> QED BY <1>1, <1>2, <1>3 DEF Silent

LEMMA FrameSaid ==
  ASSUME NEW c, NEW k, NEW s, NEW things, NEW fns, NEW x, Turned(c, k, s, things, fns, <<x>>, <<>>)
  PROVE  Said(c, k) = x
<1>1. Len(<<x>>) = 1 /\ <<x>>[1] = x OBVIOUS
<1> QED BY <1>1 DEF Turned

LEMMA NoteSaid ==
  ASSUME NEW c, NEW k, NEW s, NEW things, NEW fns, NEW frames, NEW w, NEW what,
         Turned(c, k, s, things, fns, frames, Mark(w, what))
  PROVE  Said(c, k) = what
<1>1. Mark(w, what) # <<>> /\ Mark(w, what)[1][2] = what BY MarkSays
<1> QED BY <1>1 DEF Turned

LEMMA NoteIn ==
  ASSUME NEW c, NEW k, NEW s, NEW things, NEW fns, NEW frames, NEW w, NEW what,
         Turned(c, k, s, things, fns, frames, Mark(w, what))
  PROVE  /\ Noted(c, k) + 1 \in 1..Len(Notes(c)) /\ Notes(c)[Noted(c, k) + 1][2] = what
         /\ Noted(c, k + 1) = Noted(c, k) + 1
<1>1. Mark(w, what) # <<>> /\ Mark(w, what)[1][2] = what BY MarkSays
<1> QED BY <1>1 DEF Turned

LEMMA FrameIn ==
  ASSUME NEW c, NEW k, NEW s, NEW things, NEW fns, NEW x, NEW notes,
         Turned(c, k, s, things, fns, <<x>>, notes)
  PROVE  /\ Fed(c, k) + 1 \in 1..Len(Text(c)) /\ Text(c)[Fed(c, k) + 1] = x
         /\ Fed(c, k + 1) = Fed(c, k) + 1
<1>1. Len(<<x>>) = 1 /\ <<x>>[1] = x OBVIOUS
<1>2. Fed(c, k) \in Nat /\ Fed(c, k + 1) = Fed(c, k) + 1 /\ Fed(c, k + 1) <= Len(Text(c)) /\ Len(Text(c)) \in Nat
  BY <1>1 DEF Turned
<1>3. Text(c)[Fed(c, k) + 1] = x BY <1>1 DEF Turned
<1> QED BY <1>2, <1>3

LEMMA CodeSays ==
  ASSUME NEW c, Course(c), NEW k \in 0..(c.steps - 1), c.at[k].todo[1].does = "code"
  PROVE  LET t == c.at[k].todo[1]
         IN  Said(c, k) = IF t.at \in c.at[k].seen THEN <<"met", t.at>>
                          ELSE <<"signature", c.of.signature[t.at]>>
BY CodeTurns, NoteSaid

LEMMA ModuleSays ==
  ASSUME NEW c, Course(c), NEW k \in 0..(c.steps - 1), c.at[k].todo[1].does = "module"
  PROVE  LET t == c.at[k].todo[1]
         IN  IF t.at = Nothing THEN Silent(c, k)
             ELSE Said(c, k) = IF t.at \in c.at[k].seen THEN <<"passed", t.label, t.at>>
                               ELSE <<"m", t.label, t.at, c.of.text[t.at]>>
BY ModuleTurns, NoteSaid, NothingSaid, FrameSaid

LEMMA ClassSays ==
  ASSUME NEW c, Course(c), NEW k \in 0..(c.steps - 1), c.at[k].todo[1].does = "class"
  PROVE  LET t == c.at[k].todo[1]
         IN  Said(c, k) = IF t.at \in c.at[k].seen THEN <<"passed", t.label, t.at>>
                          ELSE <<"methods", MethodNames(c.of, t.at)>>
<1>1. PICK t : t = c.at[k].todo[1] OBVIOUS
<1>2. IF t.at \in c.at[k].seen
        THEN Turned(c, k, <<>>, {}, {}, <<>>, Mark(c.at[k], <<"passed", t.label, t.at>>))
        ELSE Turned(c, k, ClassIn(c.of, t.at), {t.at}, {}, <<<<"cls", t.label, t.at>>>>,
                    Mark(c.at[k], <<"methods", MethodNames(c.of, t.at)>>))
  BY <1>1, ClassTurns, Zenon
<1>3. Said(c, k) = IF t.at \in c.at[k].seen THEN <<"passed", t.label, t.at>>
                   ELSE <<"methods", MethodNames(c.of, t.at)>>
  BY <1>2, NoteSaid
<1> QED BY <1>1, <1>3

LEMMA CapturesSilent ==
  ASSUME NEW c, Course(c), NEW k \in 0..(c.steps - 1), c.at[k].todo[1].does = "captures"
  PROVE  Silent(c, k)
BY CapturesTurns, NothingSaid

LEMMA FunctionSays ==
  ASSUME NEW c, Course(c), NEW k \in 0..(c.steps - 1), c.at[k].todo[1].does = "function"
  PROVE  LET t == c.at[k].todo[1]
         IN  IF CodeOf[t.at] \in c.at[k].seen THEN Said(c, k) = <<"met", CodeOf[t.at]>>
             ELSE Silent(c, k)
BY FunctionTurns, NothingSaid, NoteSaid

LEMMA HeadSound ==
  ASSUME NEW c, Course(c), NEW k \in 0..(c.steps - 1) PROVE Sound(c.of, c.at[k].todo[1])
<1>1. Neat(c.of, c.at[k].todo) BY CourseStep, CourseNeat
<1>2. 1 \in DOMAIN c.at[k].todo BY HeadOf
<1> QED BY <1>1, <1>2 DEF Neat

LEMMA GoesOn ==
  ASSUME NEW c, Finished(c), NEW k \in 0..c.steps, c.at[k].todo # <<>> PROVE k \in 0..(c.steps - 1)
<1>1. c.steps \in Nat /\ c.at[c.steps].todo = <<>> BY DEF Finished, Course
<1>2. k # c.steps BY <1>1
<1> QED BY <1>1, <1>2

LEMMA GlobalSays ==
  ASSUME NEW c, Course(c), NEW k \in 0..(c.steps - 1), c.at[k].todo[1].does = "global"
  PROVE  LET t == c.at[k].todo[1]
             o == t.at
         IN  /\ o \in Object \cup {Nothing} /\ t.label \in Label /\ t.names \in Seq(Name)
             /\ o \in Fn => Said(c, k) = <<"fn", t.label>>
             /\ o \in Const => Said(c, k) = <<"value", t.label, o>>
             /\ o \in Mutable => Said(c, k) = <<"untracked", t.label, TypeOf[o]>>
             /\ o \in Outside => Said(c, k) = <<"object", o>>
             /\ o \in Mod \cup Cls \cup {Nothing} => Silent(c, k)
<1>1. PICK t, o : t = c.at[k].todo[1] /\ o = t.at OBVIOUS
<1>2. o \in Object \cup {Nothing} /\ t.label \in Label /\ t.names \in Seq(Name)
  BY <1>1, HeadOf, TaskHas
<1>3. Turned(c, k, GlobalTasks(o, t.label, t.names), {}, {}, FrameOf(c.of, o, t.label),
             IF o \in Outside THEN Mark(c.at[k], <<"object", o>>) ELSE <<>>)
  BY <1>1, GlobalTurns, Zenon
<1>4. /\ o \in Fn => FrameOf(c.of, o, t.label) = <<<<"fn", t.label>>>>
      /\ o \in Const => FrameOf(c.of, o, t.label) = <<<<"value", t.label, o>>>>
      /\ o \in Mutable => FrameOf(c.of, o, t.label) = <<<<"untracked", t.label, TypeOf[o]>>>>
      /\ o \in Mod \cup Cls \cup {Nothing} => FrameOf(c.of, o, t.label) = <<>>
  BY HashAssumption DEF FrameOf, Object
<1>5. o \in Fn \cup Const \cup Mutable \cup Mod \cup Cls \cup {Nothing} => o \notin Outside
  BY HashAssumption DEF Object
<1>6. o \notin Outside => Turned(c, k, GlobalTasks(o, t.label, t.names), {}, {}, FrameOf(c.of, o, t.label), <<>>)
  BY <1>3
<1>7. /\ o \in Fn => Said(c, k) = <<"fn", t.label>>
      /\ o \in Const => Said(c, k) = <<"value", t.label, o>>
      /\ o \in Mutable => Said(c, k) = <<"untracked", t.label, TypeOf[o]>>
  BY <1>4, <1>5, <1>6, FrameSaid
<1>8. o \in Mod \cup Cls \cup {Nothing} => Silent(c, k) BY <1>4, <1>5, <1>6, NothingSaid
<1>9. o \in Outside => Said(c, k) = <<"object", o>> BY <1>3, NoteSaid
<1> QED BY <1>1, <1>2, <1>7, <1>8, <1>9

LEMMA NextHead ==
  ASSUME NEW c, Finished(c), NEW k \in 0..(c.steps - 1), NEW s \in Seq(Tasks), s # <<>>,
         c.at[k + 1].todo = s \o Tail(c.at[k].todo)
  PROVE  k + 1 \in 0..(c.steps - 1) /\ c.at[k + 1].todo[1] = s[1]
<1>1. PICK u, r : u = c.at[k].todo /\ r = c.at[k + 1].todo OBVIOUS
<1>2. Course(c) BY DEF Finished
<1>3. u \in Seq(Tasks) /\ u # <<>> /\ r = s \o Tail(u) BY <1>1, <1>2, HeadOf
<1>4. r # <<>> /\ r[1] = s[1] BY <1>3
<1>5. k + 1 \in 0..c.steps BY <1>2, CourseStep
<1>6. k + 1 \in 0..(c.steps - 1) BY <1>1, <1>4, <1>5, GoesOn
<1> QED BY <1>1, <1>4, <1>6

\* A module or class that a global is bound to is next.
LEMMA GlobalLeads ==
  ASSUME NEW c, Finished(c), NEW k \in 0..(c.steps - 1), c.at[k].todo[1].does = "global",
         c.at[k].todo[1].at \in Mod \cup Cls
  PROVE  /\ k + 1 \in 0..(c.steps - 1)
         /\ c.at[k + 1].todo[1].at = c.at[k].todo[1].at
         /\ c.at[k + 1].todo[1].label = c.at[k].todo[1].label
         /\ c.at[k + 1].todo[1].does = IF c.at[k].todo[1].at \in Mod THEN "module" ELSE "class"
<1>1. PICK t, o, s : t = c.at[k].todo[1] /\ o = t.at /\ s = c.at[k].todo OBVIOUS
<1>2. Course(c) BY DEF Finished
<1>3. o \in Object \cup {Nothing} /\ t.label \in Label /\ t.names \in Seq(Name) /\ s \in Seq(Tasks) /\ s # <<>>
  BY <1>1, <1>2, HeadOf, TaskHas
<1>4. PICK x : /\ x = Task(IF o \in Mod THEN "module" ELSE "class", o, t.label, t.names)
               /\ GlobalTasks(o, t.label, t.names) = <<x>>
  <2>1. o \in Mod => GlobalTasks(o, t.label, t.names) = <<Task("module", o, t.label, t.names)>>
    BY <1>3, GlobalTasksIs
  <2>2. o \in Cls => GlobalTasks(o, t.label, t.names) = <<Task("class", o, t.label, t.names)>>
    BY <1>3, GlobalTasksIs
  <2>3. o \in Mod \cup Cls /\ Mod \cap Cls = {} BY <1>1, HashAssumption
  <2> QED BY <2>1, <2>2, <2>3
<1>5. x.does = (IF o \in Mod THEN "module" ELSE "class") /\ x.at = o /\ x.label = t.label
  BY <1>4, TaskIs
<1>6. c.at[k + 1].todo = <<x>> \o Tail(s)
  <2>1. PICK frames, notes : Turned(c, k, GlobalTasks(o, t.label, t.names), {}, {}, frames, notes)
    BY <1>1, <1>2, GlobalTurns, Zenon
  <2>2. c.at[k + 1].todo = GlobalTasks(o, t.label, t.names) \o Tail(c.at[k].todo) BY <2>1 DEF Turned
  <2> QED BY <1>1, <1>4, <2>2, Zenon
<1>7. x \in Tasks
  <2>3. GlobalTasks(o, t.label, t.names) \in Seq(Tasks) BY <1>3, GlobalTasksIs
  <2>1. <<x>> \in Seq(Tasks) BY <1>4, <2>3
  <2>2. <<x>>[1] = x /\ Len(<<x>>) = 1 OBVIOUS
  <2> QED BY <2>1, <2>2
<1>8. <<x>> \in Seq(Tasks) /\ <<x>> # <<>> /\ <<x>>[1] = x BY <1>7
<1>9. k + 1 \in 0..(c.steps - 1) /\ c.at[k + 1].todo[1] = x BY <1>1, <1>6, <1>8, NextHead
<1> QED BY <1>1, <1>5, <1>9

LEMMA GlobalTag ==
  ASSUME NEW c, Finished(c), NEW k \in 0..(c.steps - 1), c.at[k].todo[1].does = "global"
  PROVE  LET o == c.at[k].todo[1].at
         IN  /\ o \in Object \cup {Nothing}
             /\ o \in Mod \cup Cls => Said(c, k)[1] \in {"passed", "m", "methods"}
             /\ o # Nothing => Said(c, k)[1] \in ValueTag
<1>1. PICK t, o : t = c.at[k].todo[1] /\ o = t.at OBVIOUS
<1>2. Course(c) BY DEF Finished
<1>3. /\ o \in Object \cup {Nothing} /\ t.label \in Label
      /\ o \in Fn => Said(c, k) = <<"fn", t.label>>
      /\ o \in Const => Said(c, k) = <<"value", t.label, o>>
      /\ o \in Mutable => Said(c, k) = <<"untracked", t.label, TypeOf[o]>>
      /\ o \in Outside => Said(c, k) = <<"object", o>>
      /\ o \in Mod \cup Cls \cup {Nothing} => Silent(c, k)
  BY <1>1, <1>2, GlobalSays
<1>4. ASSUME o \in Mod \cup Cls PROVE Said(c, k)[1] \in {"passed", "m", "methods"}
  <2>1. PICK x : x = c.at[k + 1].todo[1] OBVIOUS
  <2>2. /\ k + 1 \in 0..(c.steps - 1) /\ x.at = o /\ x.label = t.label
        /\ x.does = IF o \in Mod THEN "module" ELSE "class"
    BY <1>1, <1>4, <2>1, GlobalLeads
  <2>3. Said(c, k) = Said(c, k + 1) BY <1>3, <1>4 DEF Silent
  <2>4. o # Nothing BY <1>4, HashAssumption DEF Object
  <2>5. CASE x.does = "module"
    <3>1. Said(c, k + 1) = IF o \in c.at[k + 1].seen THEN <<"passed", x.label, o>>
                           ELSE <<"m", x.label, o, c.of.text[o]>>
      BY <1>2, <2>1, <2>2, <2>4, <2>5, ModuleSays
    <3> QED BY <2>3, <3>1
  <2>6. CASE x.does = "class"
    <3>1. Said(c, k + 1) = IF o \in c.at[k + 1].seen THEN <<"passed", x.label, o>>
                           ELSE <<"methods", MethodNames(c.of, o)>>
      BY <1>2, <2>1, <2>2, <2>6, ClassSays
    <3> QED BY <2>3, <3>1
  <2> QED BY <2>2, <2>5, <2>6
<1>5. o # Nothing => Said(c, k)[1] \in ValueTag
  <2>1. o \in Fn \/ o \in Const \/ o \in Mutable \/ o \in Outside => Said(c, k)[1] \in ValueTag
    BY <1>3 DEF ValueTag
  <2>2. o \in Mod \cup Cls => Said(c, k)[1] \in ValueTag BY <1>4 DEF ValueTag
  <2> QED BY <1>3, <2>1, <2>2 DEF Object
<1> QED BY <1>1, <1>3, <1>4, <1>5

LEMMA CapturesTag ==
  ASSUME NEW c, Finished(c), NEW k \in 0..(c.steps - 1), c.at[k].todo[1].does = "captures",
         NEW i \in Nat \ {0}, c.at[k].todo[1].label = <<i>>
  PROVE  LET f == c.at[k].todo[1].at
         IN  IF i \in DOMAIN c.of.captures[f] THEN Said(c, k)[1] \in ValueTag
             ELSE Said(c, k) = IF CodeOf[f] \in c.at[k].seen THEN <<"met", CodeOf[f]>>
                               ELSE <<"signature", c.of.signature[CodeOf[f]]>>
<1>1. PICK t, f, p : t = c.at[k].todo[1] /\ f = t.at /\ p = c.of OBVIOUS
<1>2. Course(c) BY DEF Finished
<1>3. p \in Program /\ t \in Tasks /\ f \in Fn /\ t.label[1] = i
  BY <1>1, <1>2, HeadOf, TaskHas, CourseStep
<1>15. p \in Program /\ f \in Fn BY <1>3
<1>4. Said(c, k) = Said(c, k + 1) BY <1>2, CapturesSilent DEF Silent
<1>5. PICK s : s = CapturesIn(p, f, i) OBVIOUS
<1>6. /\ s \in Seq(Tasks)
      /\ i \in DOMAIN p.captures[f] =>
            /\ Len(s) = 2
            /\ s[1] = Task("global", p.captures[f][i], <<i>>, p.names[CodeOf[f]])
            /\ p.captures[f][i] \in Object
      /\ i \notin DOMAIN p.captures[f] => Len(s) = 1 /\ s[1] = Task("code", CodeOf[f], <<>>, <<>>)
  BY <1>5, <1>15, CapturesInIs
<1>7. Turned(c, k, s, {}, {}, <<>>, <<>>) BY <1>1, <1>2, <1>3, <1>5, CapturesTurns
<1>8. c.at[k + 1].todo = s \o Tail(c.at[k].todo) /\ c.at[k + 1].seen = c.at[k].seen
  BY <1>7 DEF Turned
<1>9. s # <<>> BY <1>6
<1>10. PICK x : x = c.at[k + 1].todo[1] OBVIOUS
<1>11. k + 1 \in 0..(c.steps - 1) /\ x = s[1] BY <1>6, <1>8, <1>9, <1>10, NextHead
<1>12. CASE i \in DOMAIN p.captures[f]
  <2>1. x.does = "global" /\ x.at \in Object BY <1>6, <1>11, <1>12, TaskIs
  <2>2. x.at # Nothing BY <2>1, HashAssumption
  <2>3. c.at[k + 1].todo[1].does = "global" /\ c.at[k + 1].todo[1].at # Nothing BY <1>10, <2>1, <2>2
  <2>4. Said(c, k + 1)[1] \in ValueTag BY <1>11, <2>3, GlobalTag, Zenon
  <2>5. Said(c, k)[1] \in ValueTag BY <1>4, <2>4
  <2> QED BY <1>1, <1>12, <2>5, Zenon
<1>13. CASE i \notin DOMAIN p.captures[f]
  <2>1. x.does = "code" /\ x.at = CodeOf[f] BY <1>6, <1>11, <1>13, TaskIs
  <2>2. c.at[k + 1].todo[1].does = "code" /\ c.at[k + 1].todo[1].at = CodeOf[f] BY <1>10, <2>1
  <2>3. LET y == c.at[k + 1].todo[1].at
        IN  Said(c, k + 1) = IF y \in c.at[k + 1].seen THEN <<"met", y>>
                             ELSE <<"signature", c.of.signature[y]>>
    BY <1>2, <1>11, <2>2, CodeSays, Zenon
  <2>4. Said(c, k) = IF CodeOf[f] \in c.at[k].seen THEN <<"met", CodeOf[f]>>
                     ELSE <<"signature", c.of.signature[CodeOf[f]]>>
    <3>1. PICK z, w : z = c.at[k + 1].todo[1].at /\ w = c.at[k + 1].seen OBVIOUS
    <3>2. Said(c, k + 1) = IF z \in w THEN <<"met", z>> ELSE <<"signature", c.of.signature[z]>>
      BY <2>3, <3>1, Zenon
    <3>3. z = CodeOf[f] /\ w = c.at[k].seen BY <1>8, <2>2, <3>1
    <3> QED BY <1>4, <3>2, <3>3, Zenon
  <2> QED BY <1>1, <1>13, <2>4, Zenon
<1> QED BY <1>12, <1>13, Zenon

LEMMA FunctionTag ==
  ASSUME NEW c, Finished(c), NEW k \in 0..(c.steps - 1), c.at[k].todo[1].does = "function"
  PROVE  LET f == c.at[k].todo[1].at
         IN  IF CodeOf[f] \in c.at[k].seen THEN Said(c, k) = <<"met", CodeOf[f]>>
             ELSE Said(c, k)[1] \in ValueTag \cup {"signature"}
<1>1. PICK t, f : t = c.at[k].todo[1] /\ f = t.at OBVIOUS
<1>2. Course(c) BY DEF Finished
<1>3. CASE CodeOf[f] \in c.at[k].seen BY <1>1, <1>2, <1>3, FunctionSays
<1>4. CASE CodeOf[f] \notin c.at[k].seen
  <2>1. Said(c, k) = Said(c, k + 1) BY <1>1, <1>2, <1>4, FunctionSays DEF Silent
  <2>2. PICK x : x = Task("captures", f, <<1>>, <<>>) OBVIOUS
  <2>3. c.at[k + 1].todo = <<x>> \o Tail(c.at[k].todo) /\ c.at[k + 1].seen = c.at[k].seen
    <3>1. Turned(c, k, <<x>>, {}, {f}, <<>>, <<>>)
      <4>1. c.at[k].todo[1].does = "function" /\ CodeOf[c.at[k].todo[1].at] \notin c.at[k].seen
        BY <1>1, <1>4
      <4>2. LET g == c.at[k].todo[1].at
            IN  Turned(c, k, <<Task("captures", g, <<1>>, <<>>)>>, {}, {g}, <<>>, <<>>)
        BY <1>2, <4>1, FunctionTurns, Zenon
      <4> QED BY <1>1, <2>2, <4>2, Zenon
    <3> QED BY <3>1 DEF Turned
  <2>4. x \in Tasks
    <3>1. 1 \in Nat \ {0} /\ <<>> \in Label /\ <<>> \in Seq(Name) /\ f \in Fn
      BY <1>1, <1>2, HeadOf, TaskHas, Labels
    <3> QED BY <2>2, <3>1, TaskTypes
  <2>5. <<x>> \in Seq(Tasks) /\ <<x>> # <<>> /\ <<x>>[1] = x BY <2>4
  <2>6. k + 1 \in 0..(c.steps - 1) /\ c.at[k + 1].todo[1] = x BY <2>3, <2>5, NextHead, Zenon
  <2>7. x.does = "captures" /\ x.at = f /\ x.label = <<1>> /\ 1 \in Nat \ {0} BY <2>2, TaskIs
  <2>8. IF 1 \in DOMAIN c.of.captures[f] THEN Said(c, k + 1)[1] \in ValueTag
        ELSE Said(c, k + 1) = IF CodeOf[f] \in c.at[k + 1].seen THEN <<"met", CodeOf[f]>>
                              ELSE <<"signature", c.of.signature[CodeOf[f]]>>
    BY <2>6, <2>7, CapturesTag
  <2>9. Said(c, k)[1] \in ValueTag \cup {"signature"} BY <1>4, <2>1, <2>3, <2>8
  <2> QED BY <1>1, <1>4, <2>9
<1> QED BY <1>3, <1>4

-----------------------------------------------------------------------------
(* Submodules: what is said of one bears a longer label                    *)

LEMMA DeepSays ==
  ASSUME NEW c, Course(c), NEW k \in 0..(c.steps - 1), Deep(c.at[k].todo[1]), c.at[k].todo[1].at # Nothing
  PROVE  DeepVoice(Said(c, k))
<1>1. PICK t, b, x : t = c.at[k].todo[1] /\ b = c.at[k].seen /\ x = Said(c, k) OBVIOUS
<1>2. t.does = "module" /\ Len(t.label) > 1 /\ t.at # Nothing BY <1>1 DEF Deep
<1>3. x = IF t.at \in b THEN <<"passed", t.label, t.at>> ELSE <<"m", t.label, t.at, c.of.text[t.at]>>
  BY <1>1, <1>2, ModuleSays, Zenon
<1>4. x[1] \in {"passed", "m"} /\ x[2] = t.label BY <1>3
<1> QED BY <1>1, <1>2, <1>4 DEF DeepVoice

LEMMA PlainStays ==
  ASSUME NEW c, Finished(c), NEW k \in 0..(c.steps - 1), ~Deep(c.at[k].todo[1]),
         c.at[k].todo[1].does # "module"
  PROVE  Plain(c.at[k + 1].todo)
<1>1. PICK s, p : s = c.at[k].todo /\ p = c.of OBVIOUS
<1>2. Course(c) BY DEF Finished
<1>3. s \in Seq(Tasks) /\ s # <<>> /\ Sound(p, s[1]) /\ ~Deep(s[1]) /\ s[1].does # "module"
  BY <1>1, <1>2, HeadOf, HeadSound
<1>4. Neat(p, s) BY <1>1, <1>2, CourseStep, CourseNeat
<1>5. PICK a : AddsFine(p, s[1], a) /\ c.at[k + 1].todo = a \o Tail(s) BY <1>1, <1>2, <1>3, Adds
<1>6. PICK r : r = c.at[k + 1].todo OBVIOUS
<1>7. a \in Seq(Tasks) /\ \A i \in 1..Len(a) : ~Deep(a[i]) BY <1>3, <1>5 DEF AddsFine
<1>8. /\ r \in Seq(Tasks) /\ Len(r) = Len(a) + Len(s) - 1
      /\ Len(s) \in Nat \ {0} /\ Len(a) \in Nat
      /\ \A i \in 1..Len(a) : r[i] = a[i]
      /\ \A i \in 2..Len(s) : r[Len(a) + i - 1] = s[i]
  BY <1>3, <1>5, <1>6, <1>7, Spliced
<1>9. CASE Len(a) # 0
  <2>1. 1 \in 1..Len(a) BY <1>8, <1>9
  <2>2. ~Deep(r[1]) BY <1>7, <1>8, <2>1
  <2> QED BY <1>6, <2>2 DEF Plain
<1>10. CASE Len(a) = 0 /\ Len(s) = 1
  <2>1. Len(r) = 0 BY <1>8, <1>10
  <2>2. r = <<>> BY <1>8, <2>1
  <2> QED BY <1>6, <2>2 DEF Plain
<1>11. CASE Len(a) = 0 /\ Len(s) # 1
  <2>1. 2 \in 2..Len(s) /\ Len(a) + 2 - 1 = 1 /\ 1 \in DOMAIN s /\ 2 \in DOMAIN s /\ 1 < 2
    BY <1>3, <1>8, <1>11
  <2>2. r[1] = s[2] BY <1>8, <2>1
  <2>3. ~Deep(s[2]) BY <1>3, <1>4, <2>1 DEF Neat
  <2> QED BY <1>6, <2>2, <2>3 DEF Plain
<1> QED BY <1>9, <1>10, <1>11

LEMMA EndSays ==
  ASSUME NEW c, Course(c) PROVE Said(c, c.steps) = <<"end">>
<1>1. Lasts(c, c.steps) BY CourseLasts DEF Course
<1>2. Fed(c, c.steps) = Len(Text(c)) /\ Noted(c, c.steps) = Len(Notes(c))
  BY DEF Fed, Noted, Text, Notes
<1>3. Len(Text(c)) \in Nat /\ Len(Notes(c)) \in Nat BY <1>1 DEF Lasts
<1>4. ~(Fed(c, c.steps) < Len(Text(c))) /\ ~(Noted(c, c.steps) < Len(Notes(c))) BY <1>2, <1>3
<1> QED BY <1>4 DEF Said

LEMMA PlainStep ==
  ASSUME NEW c, Finished(c), NEW k \in 0..(c.steps - 1), Plain(c.at[k].todo),
         Plain(c.at[k + 1].todo) => ~DeepVoice(Said(c, k + 1))
  PROVE  ~DeepVoice(Said(c, k))
<1>1. PICK t, b, x : t = c.at[k].todo[1] /\ b = c.at[k].seen /\ x = Said(c, k) OBVIOUS
<1>2. Course(c) BY DEF Finished
<1>3. t \in Tasks /\ Sound(c.of, t) /\ ~Deep(t) BY <1>1, <1>2, HeadOf, HeadSound DEF Plain
<1>4. t.does \in {"function", "code", "class", "global", "module", "captures"} BY <1>3, TaskHas
<1>5. t.does # "module" /\ Silent(c, k) => ~DeepVoice(x) BY <1>1, <1>3, PlainStays DEF Silent
<1>6. \A v : v[1] \notin {"passed", "m"} \/ Len(v[2]) = 1 => ~DeepVoice(v)
  <2>1. ASSUME NEW v, NEW n, n = Len(v[2]), DeepVoice(v) PROVE v[1] \in {"passed", "m"} /\ n > 1
    BY <2>1 DEF DeepVoice
  <2>2. ~(1 > 1) OBVIOUS
  <2> QED BY <2>1, <2>2
<1>7. SUFFICES ~DeepVoice(x) BY <1>1
<1>8. CASE t.does = "global"
  <2>1. PICK o, l : o = t.at /\ l = t.label OBVIOUS
  <2>2. /\ o \in Object \cup {Nothing}
        /\ o \in Fn => x = <<"fn", l>>
        /\ o \in Const => x = <<"value", l, o>>
        /\ o \in Mutable => x = <<"untracked", l, TypeOf[o]>>
        /\ o \in Outside => x = <<"object", o>>
        /\ o \in Mod \cup Cls \cup {Nothing} => Silent(c, k)
    BY <1>1, <1>2, <1>8, <2>1, GlobalSays
  <2>3. o \notin Mod \cup Cls \cup {Nothing} => x[1] \notin {"passed", "m"} BY <2>2 DEF Object
  <2> QED BY <1>5, <1>6, <1>8, <2>2, <2>3
<1>9. CASE t.does = "function"
  <2>1. IF CodeOf[t.at] \in b THEN x = <<"met", CodeOf[t.at]>> ELSE Silent(c, k)
    BY <1>1, <1>2, <1>9, FunctionSays
  <2>2. CodeOf[t.at] \in b => x[1] \notin {"passed", "m"} BY <2>1
  <2> QED BY <1>5, <1>6, <1>9, <2>1, <2>2
<1>10. CASE t.does = "captures" BY <1>1, <1>2, <1>5, <1>10, CapturesSilent
<1>11. CASE t.does = "code"
  <2>1. x = IF t.at \in b THEN <<"met", t.at>> ELSE <<"signature", c.of.signature[t.at]>>
    BY <1>1, <1>2, <1>11, CodeSays
  <2>2. x[1] \notin {"passed", "m"} BY <2>1
  <2> QED BY <1>6, <2>2
<1>12. CASE t.does = "module"
  <2>1. Len(t.label) \in Nat \ {0} /\ ~(Len(t.label) > 1) BY <1>3, <1>12 DEF Sound, Deep
  <2>2. Len(t.label) = 1
    <3>1. \A n \in Nat \ {0} : ~(n > 1) => n = 1 OBVIOUS
    <3> QED BY <2>1, <3>1
  <2>3. t.at # Nothing BY <1>3, <1>12, <2>2 DEF Sound
  <2>4. x = IF t.at \in b THEN <<"passed", t.label, t.at>> ELSE <<"m", t.label, t.at, c.of.text[t.at]>>
    BY <1>1, <1>2, <1>12, <2>3, ModuleSays, Zenon
  <2>5. x[2] = t.label BY <2>4
  <2> QED BY <1>6, <2>2, <2>5
<1>13. CASE t.does = "class"
  <2>1. Len(t.label) = 1 BY <1>3, <1>13 DEF Sound
  <2>2. x = IF t.at \in b THEN <<"passed", t.label, t.at>> ELSE <<"methods", MethodNames(c.of, t.at)>>
    BY <1>1, <1>2, <1>13, ClassSays, Zenon
  <2>3. x[2] = t.label \/ x[1] = "methods" BY <2>2
  <2> QED BY <1>6, <2>1, <2>3
<1> QED BY <1>4, <1>8, <1>9, <1>10, <1>11, <1>12, <1>13

LEMMA PlainSays ==
  ASSUME NEW c, Finished(c)
  PROVE  \A k \in 0..c.steps : Plain(c.at[k].todo) => ~DeepVoice(Said(c, k))
<1> DEFINE Fine(k) == Plain(c.at[k].todo) => ~DeepVoice(Said(c, k))
<1>1. c.steps \in Nat /\ Course(c) BY DEF Finished, Course
<1>2. Fine(c.steps)
  <2>1. Said(c, c.steps) = <<"end">> BY <1>1, EndSays
  <2>2. <<"end">>[1] \notin {"passed", "m"} OBVIOUS
  <2> QED BY <2>1, <2>2 DEF DeepVoice
<1>3. \A k \in 0..(c.steps - 1) : Fine(k + 1) => Fine(k) BY PlainStep
<1> HIDE DEF Fine
<1>4. PICK S : S = {k \in Nat : Fine(k)} OBVIOUS
<1>5. c.steps \in S /\ \A k \in 0..(c.steps - 1) : k + 1 \in S => k \in S BY <1>1, <1>2, <1>3, <1>4
<1>6. \A k \in 0..c.steps : Fine(k) BY <1>1, <1>4, <1>5, Downward
<1> QED BY <1>6 DEF Fine

-----------------------------------------------------------------------------
(* A name that is bound to nothing is not heard of.                        *)

\* A global that is bound to something is.
LEMMA GlobalUtters ==
  ASSUME NEW c, Finished(c), NEW k \in 0..(c.steps - 1), c.at[k].todo[1].does = "global",
         c.at[k].todo[1].at # Nothing, NEW y, c.at[k].todo[1].label = <<y>>
  PROVE  Uttered(Text(c), Notes(c), y)
<1>1. PICK t, o, l, T, N : /\ t = c.at[k].todo[1] /\ o = t.at /\ l = t.label
                           /\ T = Text(c) /\ N = Notes(c)
  OBVIOUS
<1>2. Course(c) BY DEF Finished
<1>3. t \in Tasks /\ o \in Object /\ l = <<y>> BY <1>1, <1>2, HeadOf, TaskHas
<1>4. Turned(c, k, GlobalTasks(o, l, t.names), {}, {}, FrameOf(c.of, o, l),
             IF o \in Outside THEN Mark(c.at[k], <<"object", o>>) ELSE <<>>)
  BY <1>1, <1>2, GlobalTurns, Zenon
<1>5. SUFFICES Uttered(T, N, y) BY <1>1
<1>6. ASSUME NEW x, FrameOf(c.of, o, l) = <<x>>, FrameNames(x, y) PROVE Uttered(T, N, y)
  <2>1. \E notes : Turned(c, k, GlobalTasks(o, l, t.names), {}, {}, <<x>>, notes)
    BY <1>4, <1>6, Zenon
  <2>2. Fed(c, k) + 1 \in 1..Len(T) /\ T[Fed(c, k) + 1] = x BY <1>1, <2>1, FrameIn
  <2> QED BY <1>6, <2>2 DEF Uttered
<1>7. CASE o \in Fn \cup Const \cup Mutable \cup Outside
  <2>1. \/ FrameOf(c.of, o, l) = <<<<"fn", l>>>>
        \/ FrameOf(c.of, o, l) = <<<<"value", l, o>>>>
        \/ FrameOf(c.of, o, l) = <<<<"untracked", l, TypeOf[o]>>>>
        \/ FrameOf(c.of, o, l) = <<<<"global", l, <<"outside", c.of.version>>>>>>
    BY <1>7 DEF FrameOf
  <2>2. /\ FrameNames(<<"fn", l>>, y) /\ FrameNames(<<"value", l, o>>, y)
        /\ FrameNames(<<"untracked", l, TypeOf[o]>>, y)
        /\ FrameNames(<<"global", l, <<"outside", c.of.version>>>>, y)
    BY <1>3 DEF FrameNames
  <2> QED BY <1>6, <2>1, <2>2
<1>8. CASE o \in Mod \cup Cls
  <2>1. PICK z, w : z = c.at[k + 1].todo[1] /\ w = c.at[k + 1] OBVIOUS
  <2>2. /\ k + 1 \in 0..(c.steps - 1) /\ z.at = o /\ z.label = l
        /\ z.does = IF o \in Mod THEN "module" ELSE "class"
    BY <1>1, <1>8, <2>1, GlobalLeads
  <2>3. o # Nothing BY <1>3, HashAssumption
  <2>4. ASSUME NEW x, FrameNames(x, y), NEW s, NEW things, NEW notes,
               Turned(c, k + 1, s, things, {}, <<x>>, notes)
        PROVE  Uttered(T, N, y)
    <3>1. Fed(c, k + 1) + 1 \in 1..Len(T) /\ T[Fed(c, k + 1) + 1] = x BY <1>1, <2>4, FrameIn
    <3> QED BY <2>4, <3>1 DEF Uttered
  <2>5. ASSUME Turned(c, k + 1, <<>>, {}, {}, <<>>, Mark(w, <<"passed", l, o>>))
        PROVE  Uttered(T, N, y)
    <3>1. Noted(c, k + 1) + 1 \in 1..Len(N) /\ N[Noted(c, k + 1) + 1][2] = <<"passed", l, o>>
      BY <1>1, <2>5, NoteIn
    <3>2. PICK n : n = N[Noted(c, k + 1) + 1] OBVIOUS
    <3>3. n[2] = <<"passed", l, o>> BY <3>1, <3>2
    <3>4. n[2][1] = "passed" /\ n[2][2] = <<y>> BY <1>3, <3>3
    <3> QED BY <3>1, <3>2, <3>4 DEF Uttered, NoteNames
  <2>6. FrameNames(<<"m", l, o, c.of.text[o]>>, y) /\ FrameNames(<<"cls", l, o>>, y)
    BY <1>3 DEF FrameNames
  <2>7. CASE z.does = "module"
    <3>1. \/ Turned(c, k + 1, <<>>, {}, {}, <<>>, Mark(w, <<"passed", l, o>>))
          \/ \E s : Turned(c, k + 1, s, {o}, {}, <<<<"m", l, o, c.of.text[o]>>>>, <<>>)
      <4>1. LET u == c.at[k + 1].todo[1]
            IN  \/ Turned(c, k + 1, <<>>, {}, {}, <<>>, Mark(c.at[k + 1], <<"passed", u.label, u.at>>))
                \/ \E s : Turned(c, k + 1, s, {u.at}, {}, <<<<"m", u.label, u.at, c.of.text[u.at]>>>>, <<>>)
        <5>1. c.at[k + 1].todo[1].does = "module" /\ c.at[k + 1].todo[1].at # Nothing
          BY <2>1, <2>2, <2>3, <2>7
        <5> QED BY <1>2, <2>2, <5>1, ModuleTurns, Zenon
      <4> QED BY <2>1, <2>2, <4>1, Zenon
    <3> QED BY <2>4, <2>5, <2>6, <3>1, Zenon
  <2>8. CASE z.does = "class"
    <3>1. \/ Turned(c, k + 1, <<>>, {}, {}, <<>>, Mark(w, <<"passed", l, o>>))
          \/ \E s, notes : Turned(c, k + 1, s, {o}, {}, <<<<"cls", l, o>>>>, notes)
      <4>1. LET u == c.at[k + 1].todo[1]
            IN  \/ Turned(c, k + 1, <<>>, {}, {}, <<>>, Mark(c.at[k + 1], <<"passed", u.label, u.at>>))
                \/ \E s, notes : Turned(c, k + 1, s, {u.at}, {}, <<<<"cls", u.label, u.at>>>>, notes)
        <5>1. c.at[k + 1].todo[1].does = "class" BY <2>1, <2>8
        <5> QED BY <1>2, <2>2, <5>1, ClassTurns, Zenon
      <4> QED BY <2>1, <2>2, <4>1, Zenon
    <3> QED BY <2>4, <2>5, <2>6, <3>1, Zenon
  <2> QED BY <2>2, <2>7, <2>8
<1> QED BY <1>3, <1>7, <1>8 DEF Object

LEMMA TurnedNames ==
  ASSUME NEW c, NEW k, NEW s, NEW things, NEW fns, NEW frames, NEW notes,
         Turned(c, k, s, things, fns, frames, notes), NEW y, StepNames(c, k, y)
  PROVE  \/ \E i \in 1..Len(frames) : FrameNames(frames[i], y)
         \/ notes # <<>> /\ NoteNames(notes[1], y)
<1>1. /\ Fed(c, k) \in Nat /\ Len(frames) \in Nat /\ Fed(c, k + 1) = Fed(c, k) + Len(frames)
      /\ Noted(c, k) \in Nat /\ Noted(c, k + 1) = Noted(c, k) + (IF notes = <<>> THEN 0 ELSE 1)
      /\ \A i \in 1..Len(frames) : Text(c)[Fed(c, k) + i] = frames[i]
      /\ notes # <<>> => Notes(c)[Noted(c, k) + 1] = notes[1]
  BY DEF Turned
<1>2. CASE \E i \in (Fed(c, k) + 1)..Fed(c, k + 1) : FrameNames(Text(c)[i], y)
  <2>1. PICK i \in (Fed(c, k) + 1)..Fed(c, k + 1) : FrameNames(Text(c)[i], y) BY <1>2
  <2>2. PICK j : j = i - Fed(c, k) OBVIOUS
  <2>3. j \in 1..Len(frames) /\ i = Fed(c, k) + j BY <1>1, <2>1, <2>2
  <2>4. Text(c)[i] = frames[j] BY <1>1, <2>3
  <2> QED BY <2>1, <2>3, <2>4
<1>3. CASE \E i \in (Noted(c, k) + 1)..Noted(c, k + 1) : NoteNames(Notes(c)[i], y)
  <2>1. PICK i \in (Noted(c, k) + 1)..Noted(c, k + 1) : NoteNames(Notes(c)[i], y) BY <1>3
  <2>2. notes # <<>> /\ i = Noted(c, k) + 1 BY <1>1, <2>1
  <2> QED BY <1>1, <2>1, <2>2
<1> QED BY <1>2, <1>3 DEF StepNames

LEMMA NameHeard ==
  ASSUME NEW c, Course(c), NEW k \in 0..(c.steps - 1), NEW y \in Name, StepNames(c, k, y)
  PROVE  c.of.bound[y] # Nothing
<1>1. PICK t, p, w : t = c.at[k].todo[1] /\ p = c.of /\ w = c.at[k] OBVIOUS
<1>2. t \in Tasks /\ Sound(p, t) BY <1>1, HeadOf, HeadSound
<1>3. t.does \in {"function", "code", "class", "global", "module", "captures"} BY <1>2, TaskHas
<1>4. ASSUME NEW s, NEW things, NEW fns, NEW frames, NEW notes,
             Turned(c, k, s, things, fns, frames, notes)
      PROVE  (\E i \in 1..Len(frames) : FrameNames(frames[i], y)) \/ (notes # <<>> /\ NoteNames(notes[1], y))
  BY <1>4, TurnedNames
<1>5. ASSUME NEW s, NEW things, NEW fns, Turned(c, k, s, things, fns, <<>>, <<>>) PROVE FALSE
  <2>1. \E i \in 1..Len(<<>>) : FrameNames(<<>>[i], y) BY <1>4, <1>5, Zenon
  <2>2. Len(<<>>) = 0 /\ 1..0 = {} OBVIOUS
  <2> QED BY <2>1, <2>2
<1>6. ASSUME NEW s, NEW things, NEW fns, NEW x, Turned(c, k, s, things, fns, <<x>>, <<>>)
      PROVE  FrameNames(x, y)
  <2>1. \E i \in 1..Len(<<x>>) : FrameNames(<<x>>[i], y) BY <1>4, <1>6, Zenon
  <2>2. Len(<<x>>) = 1 /\ 1..1 = {1} /\ <<x>>[1] = x OBVIOUS
  <2> QED BY <2>1, <2>2
<1>7. ASSUME NEW what, NEW s, NEW things, NEW fns, NEW frames,
             Turned(c, k, s, things, fns, frames, Mark(w, what))
      PROVE  \/ \E i \in 1..Len(frames) : FrameNames(frames[i], y)
             \/ what[1] = "passed" /\ what[2] = <<y>>
  <2>1. CASE NoteNames(Mark(w, what)[1], y)
    <3>1. Mark(w, what)[1][2] = what BY MarkSays
    <3> QED BY <2>1, <3>1 DEF NoteNames
  <2> QED BY <1>4, <1>7, <2>1, Zenon
<1>8. ASSUME NEW what, NEW s, NEW things, NEW fns, NEW x, what[1] # "passed",
             Turned(c, k, s, things, fns, <<x>>, Mark(w, what))
      PROVE  FrameNames(x, y)
  <2>1. \E i \in 1..Len(<<x>>) : FrameNames(<<x>>[i], y) BY <1>7, <1>8, Zenon
  <2>2. Len(<<x>>) = 1 /\ 1..1 = {1} /\ <<x>>[1] = x OBVIOUS
  <2> QED BY <2>1, <2>2
<1>9. ASSUME NEW what, NEW s, NEW things, NEW fns,
             Turned(c, k, s, things, fns, <<>>, Mark(w, what))
      PROVE  what[1] = "passed" /\ what[2] = <<y>>
  <2>1. Len(<<>>) = 0 /\ 1..0 = {} OBVIOUS
  <2>2. ~\E i \in 1..Len(<<>>) : FrameNames(<<>>[i], y) BY <2>1
  <2> QED BY <1>7, <1>9, <2>2, Zenon
<1>10. ~FrameNames(<<"cycle">>, y) BY DEF FrameNames
<1>11. \A a, b : <<"met", a>>[1] # "passed" /\ <<"signature", a>>[1] # "passed" /\ <<"methods", a>>[1] # "passed"
                /\ <<"object", a>>[1] # "passed" /\ <<"passed", a, b>>[2] = a
  OBVIOUS
<1>12. CASE t.does = "function"
  <2>1. \/ Turned(c, k, <<>>, {}, {}, <<<<"cycle">>>>, Mark(w, <<"met", CodeOf[t.at]>>))
        \/ Turned(c, k, <<Task("captures", t.at, <<1>>, <<>>)>>, {}, {t.at}, <<>>, <<>>)
    BY <1>1, <1>12, FunctionTurns, Zenon
  <2> QED BY <1>5, <1>8, <1>10, <1>11, <2>1, Zenon
<1>13. CASE t.does = "captures"
  <2>1. Turned(c, k, CapturesIn(p, t.at, t.label[1]), {}, {}, <<>>, <<>>)
    BY <1>1, <1>13, CapturesTurns, Zenon
  <2> QED BY <1>5, <2>1, Zenon
<1>14. CASE t.does = "code"
  <2>1. \/ Turned(c, k, <<>>, {}, {}, <<<<"cycle">>>>, Mark(w, <<"met", t.at>>))
        \/ Turned(c, k, CodeIn(p, t.at), {t.at}, {}, CodeFramesIn(p, t.at),
                  Mark(w, <<"signature", p.signature[t.at]>>))
    BY <1>1, <1>14, CodeTurns, Zenon
  <2>2. ~Turned(c, k, <<>>, {}, {}, <<<<"cycle">>>>, Mark(w, <<"met", t.at>>))
    BY <1>8, <1>10, <1>11, Zenon
  <2>3. \E i \in 1..Len(CodeFramesIn(p, t.at)) : FrameNames(CodeFramesIn(p, t.at)[i], y)
    BY <1>7, <1>11, <2>1, <2>2, Zenon
  <2>4. PICK a, b, d : CodeFramesIn(p, t.at) = <<<<"C", t.at, a>>, <<"names", b>>, <<"const", d>>>>
    BY DEF CodeFramesIn
  <2>5. PICK u, v, z : u = <<"C", t.at, a>> /\ v = <<"names", b>> /\ z = <<"const", d>> OBVIOUS
  <2>6. ~FrameNames(u, y) /\ ~FrameNames(v, y) /\ ~FrameNames(z, y) BY <2>5 DEF FrameNames
  <2>7. Len(<<u, v, z>>) = 3 /\ <<u, v, z>>[1] = u /\ <<u, v, z>>[2] = v /\ <<u, v, z>>[3] = z /\ 1..3 = {1, 2, 3}
    BY SeqOfThree
  <2>8. \E i \in 1..Len(<<u, v, z>>) : FrameNames(<<u, v, z>>[i], y) BY <2>3, <2>4, <2>5, Zenon
  <2> QED BY <2>6, <2>7, <2>8
<1>15. CASE t.does \in {"module", "class"}
  <2>1. t.label = <<y>> => p.bound[y] # Nothing BY <1>2, <1>15 DEF Sound
  <2>2. \A a, b : FrameNames(<<"m", t.label, a, b>>, y) \/ FrameNames(<<"cls", t.label, a>>, y) => t.label = <<y>>
    BY DEF FrameNames
  <2>3. CASE t.does = "module"
    <3>1. \/ Turned(c, k, <<>>, {}, {}, <<>>, <<>>)
          \/ Turned(c, k, <<>>, {}, {}, <<>>, Mark(w, <<"passed", t.label, t.at>>))
          \/ \E s : Turned(c, k, s, {t.at}, {}, <<<<"m", t.label, t.at, p.text[t.at]>>>>, <<>>)
      BY <1>1, <2>3, ModuleTurns, Zenon
    <3>2. t.label = <<y>> BY <1>5, <1>6, <1>9, <1>11, <2>2, <3>1, Zenon
    <3> QED BY <1>1, <2>1, <3>2
  <2>4. CASE t.does = "class"
    <3>1. \/ Turned(c, k, <<>>, {}, {}, <<>>, Mark(w, <<"passed", t.label, t.at>>))
          \/ \E s : Turned(c, k, s, {t.at}, {}, <<<<"cls", t.label, t.at>>>>, Mark(w, <<"methods", MethodNames(p, t.at)>>))
      BY <1>1, <2>4, ClassTurns, Zenon
    <3>2. t.label = <<y>> BY <1>8, <1>9, <1>11, <2>2, <3>1, Zenon
    <3> QED BY <1>1, <2>1, <3>2
  <2> QED BY <1>15, <2>3, <2>4
<1>16. CASE t.does = "global"
  <2>1. PICK o, l : o = t.at /\ l = t.label OBVIOUS
  <2>2. Turned(c, k, GlobalTasks(o, l, t.names), {}, {}, FrameOf(p, o, l),
               IF o \in Outside THEN Mark(w, <<"object", o>>) ELSE <<>>)
    BY <1>1, <1>16, <2>1, GlobalTurns, Zenon
  <2>3. \E i \in 1..Len(FrameOf(p, o, l)) : FrameNames(FrameOf(p, o, l)[i], y)
    <3>1. CASE o \in Outside
      <4>1. Turned(c, k, GlobalTasks(o, l, t.names), {}, {}, FrameOf(p, o, l), Mark(w, <<"object", o>>))
        BY <2>2, <3>1, Zenon
      <4> QED BY <1>7, <1>11, <4>1, Zenon
    <3>2. CASE o \notin Outside
      <4>1. Turned(c, k, GlobalTasks(o, l, t.names), {}, {}, FrameOf(p, o, l), <<>>)
        BY <2>2, <3>2, Zenon
      <4> QED BY <1>4, <4>1, Zenon
    <3> QED BY <3>1, <3>2
  <2>4. \/ FrameOf(p, o, l) = <<<<"fn", l>>>>
        \/ FrameOf(p, o, l) = <<<<"value", l, o>>>>
        \/ FrameOf(p, o, l) = <<<<"untracked", l, TypeOf[o]>>>>
        \/ FrameOf(p, o, l) = <<<<"global", l, <<"outside", p.version>>>>>>
        \/ FrameOf(p, o, l) = <<>>
    BY DEF FrameOf
  <2>5. Len(<<>>) = 0 /\ 1..0 = {} /\ 1..1 = {1} /\ \A x : Len(<<x>>) = 1 /\ <<x>>[1] = x OBVIOUS
  <2>6. FrameOf(p, o, l) # <<>> BY <2>3, <2>5
  <2>7. l = <<y>>
    <3>1. \A x : FrameOf(p, o, l) = <<x>> => FrameNames(x, y) BY <2>3, <2>5
    <3>2. /\ FrameNames(<<"fn", l>>, y) => l = <<y>>
          /\ FrameNames(<<"value", l, o>>, y) => l = <<y>>
          /\ FrameNames(<<"untracked", l, TypeOf[o]>>, y) => l = <<y>>
          /\ FrameNames(<<"global", l, <<"outside", p.version>>>>, y) => l = <<y>>
      BY DEF FrameNames
    <3> QED BY <2>4, <2>6, <3>1, <3>2, Zenon
  <2>8. o # Nothing
    <3>1. o \in Fn \cup Const \cup Mutable \cup Outside BY <2>6 DEF FrameOf
    <3> QED BY <3>1, HashAssumption DEF Object
  <2>9. o = p.bound[y]
    <3>1. \/ \E z \in Name : l = <<z>> /\ o = p.bound[z]
          \/ \E i \in Nat : l = <<i>>
      BY <1>2, <1>16, <2>1 DEF Sound
    <3>2. \A z : l = <<z>> => z = y
      <4>1. l[1] = y BY <2>7
      <4> QED BY <4>1
    <3>3. y \notin Nat BY HashAssumption
    <3> QED BY <3>1, <3>2, <3>3
  <2> QED BY <1>1, <2>8, <2>9
<1> QED BY <1>3, <1>12, <1>13, <1>14, <1>15, <1>16

LEMMA BoundedStays ==
  ASSUME NEW c, Course(c), NEW k \in 0..(c.steps - 1), Bounded(c, k) PROVE Bounded(c, k + 1)
<1>1. \A y \in Name : StepNames(c, k, y) => c.of.bound[y] # Nothing BY NameHeard
<1>2. Fed(c, k) \in Nat /\ Noted(c, k) \in Nat /\ Fed(c, k + 1) \in Nat /\ Noted(c, k + 1) \in Nat
  <2>1. Lasts(c, k) /\ Lasts(c, k + 1) BY CourseStep, CourseLasts
  <2> QED BY <2>1 DEF Lasts
<1>3. /\ \A i \in 1..Fed(c, k + 1) : i \in 1..Fed(c, k) \/ i \in (Fed(c, k) + 1)..Fed(c, k + 1)
      /\ \A i \in 1..Noted(c, k + 1) : i \in 1..Noted(c, k) \/ i \in (Noted(c, k) + 1)..Noted(c, k + 1)
  BY <1>2
<1> QED BY <1>1, <1>3 DEF Bounded, StepNames

LEMMA UtteredIsBound ==
  ASSUME NEW c, Course(c), NEW y \in Name, Uttered(Text(c), Notes(c), y)
  PROVE  c.of.bound[y] # Nothing
<1>1. c.steps \in Nat BY DEF Course
<1>2. Bounded(c, 0)
  <2>1. Fed(c, 0) = 0 /\ Noted(c, 0) = 0 /\ 1..0 = {} BY CourseBegins DEF Fed, Noted
  <2> QED BY <2>1 DEF Bounded
<1>3. PICK S : S = {k \in Nat : Bounded(c, k)} OBVIOUS
<1>4. Bounded(c, c.steps)
  <2>1. 0 \in S /\ \A k \in 0..(c.steps - 1) : k \in S => k + 1 \in S
    BY <1>1, <1>2, <1>3, BoundedStays
  <2> QED BY <1>1, <1>3, <2>1, Upward
<1>5. Fed(c, c.steps) = Len(Text(c)) /\ Noted(c, c.steps) = Len(Notes(c))
  BY DEF Fed, Noted, Text, Notes
<1> QED BY <1>4, <1>5 DEF Bounded, Uttered

-----------------------------------------------------------------------------
(* What two walks side by side have made sure of.  W are the pairs of tasks *)
(* they have still to do together.                                         *)

LEMMA KeptGrows ==
  ASSUME NEW p, NEW q, NEW S, NEW W, NEW F, NEW G, Kept(p, q, S, W, F, G),
         NEW S2, NEW W2, NEW F2, NEW G2, S \subseteq S2, F \subseteq F2, G \subseteq G2,
         G2 \subseteq F2, F2 \subseteq Fn \X Fn,
         NEW t, NEW u, W \subseteq W2 \cup {<<t, u>>}, DoesBoth(p, q, S2, W2, F2, t, u),
         \A z \in G2 \ G : MetWell(p, q, S2, W2, F2, z[1], z[2]),
         \A z \in F2 \ (F \cup G2) : Skipped(p, q, S2, G2, z[1], z[2]),
         \A x \in S2 \ S : SeenWell(p, q, W2, F2, x)
  PROVE  Kept(p, q, S2, W2, F2, G2)
<1>1. \A D, o, o2 : Held(W, D, o, o2) => Held(W2, D, o, o2) \/ (t.does \in D /\ u.does \in D /\ t.at = o /\ u.at = o2)
  <2> SUFFICES ASSUME NEW D, NEW o, NEW o2, Held(W, D, o, o2), ~Held(W2, D, o, o2)
               PROVE  t.does \in D /\ u.does \in D /\ t.at = o /\ u.at = o2
    OBVIOUS
  <2>1. PICK r \in W : r[1].does \in D /\ r[2].does \in D /\ r[1].at = o /\ r[2].at = o2 BY DEF Held
  <2>2. r = <<t, u>> BY <2>1 DEF Held
  <2>3. r[1] = t /\ r[2] = u BY <2>2
  <2> QED BY <2>1, <2>3
<1>2. \A o, o2 : Akin(p, q, F, o, o2) => Akin(p, q, F2, o, o2) BY DEF Akin
<1>3. \A o, o2 : Pend(p, q, W, F, o, o2) => Pend(p, q, W2, F2, o, o2)
  <2> SUFFICES ASSUME NEW o, NEW o2, Pend(p, q, W, F, o, o2) PROVE Pend(p, q, W2, F2, o, o2) OBVIOUS
  <2>1. CASE Akin(p, q, F, o, o2) BY <1>2, <2>1 DEF Pend
  <2>2. CASE \E D \in Sorts : Held(W, D, o, o2)
    <3>1. PICK D \in Sorts : Held(W, D, o, o2) BY <2>2
    <3>2. CASE Held(W2, D, o, o2) BY <3>2 DEF Pend
    <3>3. CASE t.does \in D /\ u.does \in D /\ t.at = o /\ u.at = o2 BY <3>3 DEF DoesBoth
    <3> QED BY <1>1, <3>1, <3>2, <3>3
  <2> QED BY <2>1, <2>2 DEF Pend
<1>4. \A f, g, n : Alike(p, q, W, F, f, g, n) => Alike(p, q, W2, F2, f, g, n) BY <1>3 DEF Alike
<1>5. \A f, g : MetWell(p, q, S, W, F, f, g) => MetWell(p, q, S2, W2, F2, f, g)
  <2> SUFFICES ASSUME NEW f, NEW g, MetWell(p, q, S, W, F, f, g)
               PROVE  MetWell(p, q, S2, W2, F2, f, g)
    OBVIOUS
  <2>1. CASE Capturing(p, q, W, F, f, g)
    <3>1. PICK r \in W, i \in Nat \ {0} :
            /\ r[1].does = "captures" /\ r[2].does = "captures" /\ r[1].at = f /\ r[2].at = g
            /\ r[1].label = <<i>> /\ r[2].label = <<i>>
            /\ \A n \in 1..(i - 1) : Alike(p, q, W, F, f, g, n)
      BY <2>1 DEF Capturing
    <3>2. \A n \in 1..(i - 1) : Alike(p, q, W2, F2, f, g, n) BY <1>4, <3>1
    <3>3. CASE r \in W2
      <4>1. Capturing(p, q, W2, F2, f, g) BY <3>1, <3>2, <3>3 DEF Capturing
      <4> QED BY <4>1 DEF MetWell
    <3>4. CASE r = <<t, u>>
      <4>1. r[1] = t /\ r[2] = u BY <3>4
      <4>2. /\ t.does = "captures" /\ u.does = "captures" /\ t.label = <<i>> /\ u.label = <<i>>
            /\ t.at = f /\ u.at = g
        BY <3>1, <4>1
      <4>3. \A n \in 1..(i - 1) : Alike(p, q, W2, F2, t.at, u.at, n) BY <3>2, <4>2
      <4>4. MetWell(p, q, S2, W2, F2, t.at, u.at) BY <4>2, <4>3, Zenon DEF DoesBoth
      <4> QED BY <4>2, <4>4
    <3> QED BY <3>3, <3>4
  <2>2. CASE HaveCaptured(p, q, S, W, F, f, g)
    <3>1. /\ DOMAIN p.captures[f] = DOMAIN q.captures[g]
          /\ \A n \in DOMAIN p.captures[f] : Alike(p, q, W2, F2, f, g, n)
      BY <1>4, <2>2 DEF HaveCaptured
    <3>2. Held(W2, {"code"}, CodeOf[f], CodeOf[g]) \/ (CodeOf[f] = CodeOf[g] /\ CodeOf[f] \in S2)
      <4>1. CASE CodeOf[f] = CodeOf[g] /\ CodeOf[f] \in S BY <4>1
      <4>2. CASE Held(W, {"code"}, CodeOf[f], CodeOf[g])
        <5>1. CASE t.does \in {"code"} /\ u.does \in {"code"} /\ t.at = CodeOf[f] /\ u.at = CodeOf[g]
          <6>1. t.at = u.at /\ t.at \in S2 BY <5>1 DEF DoesBoth
          <6> QED BY <5>1, <6>1
        <5> QED BY <1>1, <4>2, <5>1
      <4> QED BY <2>2, <4>1, <4>2 DEF HaveCaptured
    <3> QED BY <3>1, <3>2 DEF HaveCaptured, MetWell
  <2> QED BY <2>1, <2>2 DEF MetWell
<1>6. \A f, g : Skipped(p, q, S, G, f, g) => Skipped(p, q, S2, G2, f, g) BY DEF Skipped
<1>7. \A x : SeenWell(p, q, W, F, x) => SeenWell(p, q, W2, F2, x) BY <1>3 DEF SeenWell
<1>8. /\ Pend(p, q, W, F, Root, Root)
      /\ \A z \in G : MetWell(p, q, S, W, F, z[1], z[2])
      /\ \A z \in F \ G : Skipped(p, q, S, G, z[1], z[2])
      /\ \A x \in S : SeenWell(p, q, W, F, x)
  BY DEF Kept
<1>9. \A z \in G2 : MetWell(p, q, S2, W2, F2, z[1], z[2]) BY <1>5, <1>8
<1>10. \A z \in F2 \ G2 : Skipped(p, q, S2, G2, z[1], z[2]) BY <1>6, <1>8
<1>11. \A x \in S2 : SeenWell(p, q, W2, F2, x) BY <1>7, <1>8
<1> QED BY <1>3, <1>8, <1>9, <1>10, <1>11 DEF Kept

-----------------------------------------------------------------------------
(* Two walks side by side                                                  *)

LEMMA ShallowDeep ==
  ASSUME NEW s \in Seq(Tasks), s # <<>>, NEW x, Shallow(s, x), Deep(s[1]),
         NEW a \in Seq(Tasks), Deeps(a), NEW r, r = a \o Tail(s)
  PROVE  Shallow(r, x)
<1>1. PICK i \in Nat : /\ Len(s) = i + Len(x) /\ \A n \in 1..i : Deep(s[n])
                       /\ \A n \in 1..Len(x) : s[i + n] = x[n] /\ ~Deep(x[n])
  BY DEF Shallow
<1>2. x \in Seq(Tasks) /\ Len(x) \in Nat BY DEF Shallow
<1>3. /\ Len(r) = Len(a) + Len(s) - 1 /\ Len(s) \in Nat \ {0} /\ Len(a) \in Nat
      /\ \A n \in 1..Len(a) : r[n] = a[n]
      /\ \A n \in 2..Len(s) : r[Len(a) + n - 1] = s[n]
  BY Spliced
<1>4. i # 0
  <2> SUFFICES ASSUME i = 0 PROVE FALSE OBVIOUS
  <2>1. Len(x) = Len(s) /\ 1 \in 1..Len(x) /\ 0 + 1 = 1 BY <1>1, <1>2, <1>3
  <2>2. s[1] = x[1] /\ ~Deep(x[1]) BY <1>1, <2>1
  <2> QED BY <2>2
<1> DEFINE j == i - 1 + Len(a)
<1>5. j \in Nat /\ Len(r) = j + Len(x) BY <1>1, <1>2, <1>3, <1>4
<1>6. ASSUME NEW n \in 1..j PROVE Deep(r[n])
  <2>1. CASE n \in 1..Len(a) BY <1>3, <2>1 DEF Deeps
  <2>2. CASE n \notin 1..Len(a)
    <3> DEFINE m == n - Len(a) + 1
    <3>1. m \in 2..Len(s) /\ Len(a) + m - 1 = n /\ m \in 1..i BY <1>1, <1>2, <1>3, <1>4, <2>2
    <3>2. r[n] = s[m] /\ Deep(s[m]) BY <1>1, <1>3, <3>1
    <3> QED BY <3>2
  <2> QED BY <2>1, <2>2
<1>7. ASSUME NEW n \in 1..Len(x) PROVE r[j + n] = x[n]
  <2> DEFINE m == i + n
  <2>1. m \in 2..Len(s) /\ Len(a) + m - 1 = j + n BY <1>1, <1>2, <1>3, <1>4
  <2>2. r[Len(a) + m - 1] = s[m] /\ s[i + n] = x[n] BY <1>1, <1>3, <2>1
  <2> QED BY <2>1, <2>2
<1> QED BY <1>1, <1>2, <1>5, <1>6, <1>7 DEF Shallow

\* Behind nothing, all of it.
LEMMA ShallowAll ==
  ASSUME NEW s \in Seq(Tasks), NEW x, Shallow(s, x), Plain(s) PROVE x = s /\ Shallows(s)
<1>1. PICK i \in Nat : /\ Len(s) = i + Len(x) /\ \A n \in 1..i : Deep(s[n])
                       /\ \A n \in 1..Len(x) : s[i + n] = x[n] /\ ~Deep(x[n])
  BY DEF Shallow
<1>2. x \in Seq(Tasks) /\ Len(x) \in Nat /\ Len(s) \in Nat BY DEF Shallow
<1>3. i = 0
  <2> SUFFICES ASSUME i # 0 PROVE FALSE OBVIOUS
  <2>1. 1 \in 1..i /\ Len(s) # 0 BY <1>1, <1>2
  <2>2. Deep(s[1]) /\ s # <<>> BY <1>1, <2>1
  <2> QED BY <2>2 DEF Plain
<1>4. Len(s) = Len(x) /\ \A n \in 1..Len(x) : s[n] = x[n] /\ ~Deep(x[n])
  <2>1. Len(s) = Len(x) /\ \A n \in 1..Len(x) : 0 + n = n BY <1>1, <1>2, <1>3
  <2> QED BY <1>1, <1>3, <2>1
<1>5. x = s BY <1>2, <1>4
<1> QED BY <1>4, <1>5 DEF Shallows

LEMMA ShallowOver ==
  ASSUME NEW s \in Seq(Tasks), s # <<>>, Shallows(s), NEW a \in Seq(Tasks), NEW r, r = a \o Tail(s)
  PROVE  /\ Shallows(a) => Shallow(r, r)
         /\ Deeps(a) => Shallow(r, Tail(s))
<1>1. /\ Len(r) = Len(a) + Len(s) - 1 /\ Len(s) \in Nat \ {0} /\ Len(a) \in Nat
      /\ \A n \in 1..Len(a) : r[n] = a[n]
      /\ \A n \in 2..Len(s) : r[Len(a) + n - 1] = s[n]
      /\ r \in Seq(Tasks)
  BY Spliced
<1>2. /\ Tail(s) \in Seq(Tasks) /\ Len(Tail(s)) = Len(s) - 1
      /\ \A n \in 1..(Len(s) - 1) : Tail(s)[n] = s[n + 1]
  BY <1>1
<1>3. \A n \in 2..Len(s) : ~Deep(s[n]) BY <1>1 DEF Shallows
<1>4. ASSUME Shallows(a) PROVE Shallow(r, r)
  <2>1. ASSUME NEW n \in 1..Len(r) PROVE ~Deep(r[n]) /\ 0 + n = n
    <3>1. CASE n \in 1..Len(a) BY <1>1, <1>4, <3>1 DEF Shallows
    <3>2. CASE n \notin 1..Len(a)
      <4> DEFINE m == n - Len(a) + 1
      <4>1. m \in 2..Len(s) /\ Len(a) + m - 1 = n /\ 0 + n = n BY <1>1, <3>2
      <4>2. r[n] = s[m] BY <1>1, <4>1
      <4> QED BY <1>3, <4>1, <4>2
    <3> QED BY <3>1, <3>2
  <2>2. Len(r) = 0 + Len(r) /\ 0 \in Nat /\ \A n \in 1..0 : Deep(r[n]) BY <1>1
  <2> QED BY <1>1, <2>1, <2>2 DEF Shallow
<1>5. ASSUME Deeps(a) PROVE Shallow(r, Tail(s))
  <2>1. Len(r) = Len(a) + Len(Tail(s)) /\ \A n \in 1..Len(a) : Deep(r[n])
    BY <1>1, <1>2, <1>5 DEF Deeps
  <2>2. ASSUME NEW n \in 1..Len(Tail(s)) PROVE r[Len(a) + n] = Tail(s)[n] /\ ~Deep(Tail(s)[n])
    <3> DEFINE m == n + 1
    <3>1. m \in 2..Len(s) /\ Len(a) + m - 1 = Len(a) + n /\ n \in 1..(Len(s) - 1) BY <1>1, <1>2
    <3>2. r[Len(a) + n] = s[m] /\ Tail(s)[n] = s[m] BY <1>1, <1>2, <3>1
    <3> QED BY <1>3, <3>1, <3>2
  <2> QED BY <1>1, <1>2, <2>1, <2>2 DEF Shallow
<1> QED BY <1>4, <1>5

\* Doing the first two, and adding as many on both sides.
LEMMA TwosGrow ==
  ASSUME NEW x \in Seq(Tasks), NEW y \in Seq(Tasks), x # <<>>, y # <<>>, Alikes(x, y),
         NEW a \in Seq(Tasks), NEW b \in Seq(Tasks), Alikes(a, b),
         NEW r, r = a \o Tail(x), NEW s, s = b \o Tail(y)
  PROVE  /\ Alikes(r, s) /\ Twos(x, y) \subseteq Twos(r, s) \cup {<<x[1], y[1]>>}
         /\ \A n \in 1..Len(a) : <<a[n], b[n]>> \in Twos(r, s)
<1>1. /\ Len(r) = Len(a) + Len(x) - 1 /\ Len(x) \in Nat \ {0} /\ Len(a) \in Nat
      /\ \A n \in 1..Len(a) : r[n] = a[n]
      /\ \A n \in 2..Len(x) : r[Len(a) + n - 1] = x[n]
  BY Spliced
<1>2. /\ Len(s) = Len(b) + Len(y) - 1
      /\ \A n \in 1..Len(b) : s[n] = b[n]
      /\ \A n \in 2..Len(y) : s[Len(b) + n - 1] = y[n]
  BY Spliced
<1>3. Len(x) = Len(y) /\ Len(a) = Len(b) BY DEF Alikes
<1>4. /\ \A n \in 1..Len(a) : s[n] = b[n]
      /\ \A n \in 2..Len(x) : s[Len(a) + n - 1] = y[n]
      /\ Len(s) = Len(r)
  BY <1>1, <1>2, <1>3
<1>5. ASSUME NEW n \in 1..Len(r) PROVE Like(r[n], s[n])
  <2>1. CASE n \in 1..Len(a) BY <1>1, <1>4, <2>1 DEF Alikes
  <2>2. CASE n \notin 1..Len(a)
    <3> DEFINE m == n - Len(a) + 1
    <3>1. m \in 2..Len(x) /\ Len(a) + m - 1 = n /\ m \in 1..Len(x) BY <1>1, <2>2
    <3>2. r[n] = x[m] /\ s[n] = y[m] BY <1>1, <1>4, <3>1
    <3>3. Like(x[m], y[m]) BY <3>1 DEF Alikes
    <3> QED BY <3>2, <3>3
  <2> QED BY <2>1, <2>2
<1>6. ASSUME NEW n \in 1..Len(x), n # 1 PROVE <<x[n], y[n]>> \in Twos(r, s)
  <2> DEFINE m == Len(a) + n - 1
  <2>1. m \in 1..Len(r) /\ n \in 2..Len(x) BY <1>1, <1>6
  <2>2. r[m] = x[n] /\ s[m] = y[n] BY <1>1, <1>4, <2>1
  <2>3. <<r[m], s[m]>> \in Twos(r, s) BY <2>1 DEF Twos
  <2> QED BY <2>2, <2>3
<1>7. ASSUME NEW n \in 1..Len(a) PROVE <<a[n], b[n]>> \in Twos(r, s)
  <2>1. n \in 1..Len(r) BY <1>1
  <2>2. r[n] = a[n] /\ s[n] = b[n] BY <1>1, <1>4
  <2>3. <<r[n], s[n]>> \in Twos(r, s) BY <2>1 DEF Twos
  <2> QED BY <2>2, <2>3
<1>8. Alikes(r, s) BY <1>4, <1>5 DEF Alikes
<1>9. Twos(x, y) \subseteq Twos(r, s) \cup {<<x[1], y[1]>>} BY <1>6 DEF Twos
<1> QED BY <1>7, <1>8, <1>9

LEMMA SaidSame ==
  ASSUME NEW c, NEW d, Twins(c, d), NEW k, NEW l, Fed(c, k) = Fed(d, l), Noted(c, k) = Noted(d, l)
  PROVE  Said(c, k) = Said(d, l)
BY DEF Said, Twins

LEMMA ProgramsOf ==
  ASSUME NEW c, Finished(c)
  PROVE  /\ Course(c) /\ c.of \in Program /\ c.steps \in Nat
         /\ \A k \in 0..c.steps : TypedWalk(c.at[k]) /\ c.at[k].todo \in Seq(Tasks)
BY DEF Finished, Course, TypedWalk

LEMMA AbreastBegins ==
  ASSUME NEW c, NEW d, Twins(c, d) PROVE Abreast(c, d, 0, 0)
<1> DEFINE t == Task("function", Root, <<>>, <<>>)
           x == <<t>>
<1>1. Course(c) /\ Course(d) BY DEF Twins, Finished
<1>2. /\ c.at[0].todo = x /\ c.at[0].seen = {} /\ c.at[0].met = {}
      /\ c.at[0].frames = <<>> /\ c.at[0].unsaid = <<>>
  BY <1>1, CourseBegins
<1>3. /\ d.at[0].todo = x /\ d.at[0].seen = {} /\ d.at[0].met = {}
      /\ d.at[0].frames = <<>> /\ d.at[0].unsaid = <<>>
  BY <1>1, CourseBegins
<1>4. t \in Tasks /\ t.does = "function" /\ t.at = Root /\ ~Deep(t)
  <2>1. Root \in Fn /\ <<>> \in Label /\ <<>> \in Seq(Name) BY HashAssumption, Labels
  <2>2. t \in Tasks BY <2>1, TaskTypes
  <2>3. t.does = "function" /\ t.at = Root BY TaskIs
  <2> QED BY <2>2, <2>3 DEF Deep
<1> HIDE DEF t
<1>5. x \in Seq(Tasks) /\ Len(x) = 1 /\ x[1] = t BY <1>4
<1>6. Shallow(x, x)
  <2>1. \A a \in 1..Len(x) : a = 1 /\ 0 + a = 1 BY <1>5
  <2>2. \A a \in 1..Len(x) : x[0 + a] = x[a] /\ ~Deep(x[a]) BY <1>4, <1>5, <2>1
  <2>3. Len(x) = 0 + Len(x) /\ \A a \in 1..0 : Deep(x[a]) BY <1>5
  <2> QED BY <1>5, <2>2, <2>3 DEF Shallow
<1>7. Alikes(x, x) BY DEF Alikes, Like
<1>8. <<t, t>> \in Twos(x, x) BY <1>5 DEF Twos
<1>9. Kept(c.of, d.of, {}, Twos(x, x), {}, {})
  <2>1. <<t, t>>[1] = t /\ <<t, t>>[2] = t OBVIOUS
  <2>2. Held(Twos(x, x), {"function"}, Root, Root) BY <1>4, <1>8, <2>1 DEF Held
  <2>3. Pend(c.of, d.of, Twos(x, x), {}, Root, Root) BY <2>2 DEF Pend, Sorts
  <2> QED BY <2>3 DEF Kept
<1>10. c.at[0].met = {z[1] : z \in {}} /\ d.at[0].met = {z[2] : z \in {}} BY <1>2, <1>3
<1>11. Fed(c, 0) = Fed(d, 0) /\ Noted(c, 0) = Noted(d, 0) BY <1>2, <1>3 DEF Fed, Noted
<1>12. Kept(c.of, d.of, c.at[0].seen, Twos(x, x), {}, {}) BY <1>2, <1>9
<1>13. Beside(c, d, 0, 0, x, x, {}, {}) BY <1>2, <1>3, <1>6, <1>7, <1>10, <1>11, <1>12 DEF Beside
<1> QED BY <1>5, <1>13 DEF Abreast

LEMMA TurnedSees ==
  ASSUME NEW c, NEW k, NEW s, NEW things, NEW fns, NEW frames, NEW notes,
         Turned(c, k, s, things, fns, frames, notes)
  PROVE  Sees(c, k, things)
BY DEF Turned, Sees

LEMMA TurnedMeets ==
  ASSUME NEW c, NEW k, NEW s, NEW things, NEW fns, NEW frames, NEW notes,
         Turned(c, k, s, things, fns, frames, notes)
  PROVE  Meets(c, k, fns)
BY DEF Turned, Meets

LEMMA TurnedSeen ==
  ASSUME NEW c, NEW k, NEW s, NEW things, NEW fns, NEW frames, NEW notes,
         Turned(c, k, s, things, fns, frames, notes)
  PROVE  /\ things = {} => c.at[k + 1].seen = c.at[k].seen
         /\ fns = {} => c.at[k + 1].met = c.at[k].met
         /\ notes = <<>> => Noted(c, k + 1) = Noted(c, k)
<1>1. c.at[k + 1].seen = c.at[k].seen \cup things /\ c.at[k + 1].met = c.at[k].met \cup fns
  BY TurnedTodo
<1>2. Noted(c, k) \in Nat /\ Noted(c, k + 1) = Noted(c, k) + (IF notes = <<>> THEN 0 ELSE 1)
  BY DEF Turned
<1>3. notes = <<>> => Noted(c, k + 1) = Noted(c, k) BY <1>2
<1> QED BY <1>1, <1>3

LEMMA DeepTurns ==
  ASSUME NEW c, Course(c), NEW k \in 0..(c.steps - 1), Deep(c.at[k].todo[1]), NEW x,
         Shallow(c.at[k].todo, x)
  PROVE  DeepTurn(c, k, x)
<1> DEFINE t == c.at[k].todo[1]
<1>1. t.does = "module" BY DEF Deep
<1>2. t \in Tasks /\ c.at[k].todo # <<>> /\ c.at[k].todo \in Seq(Tasks) BY HeadOf
<1>3. Sound(c.of, t) BY HeadSound
<1>4. c.of \in Program BY DEF Course
<1>5. Shallow(c.at[k + 1].todo, x)
  <2>1. PICK s : AddsFine(c.of, t, s) /\ c.at[k + 1].todo = s \o Tail(c.at[k].todo) BY <1>3, Adds
  <2>2. s \in Seq(Tasks) /\ Deeps(s) BY <1>1, <2>1 DEF AddsFine, Deeps
  <2> QED BY <1>2, <2>1, <2>2, ShallowDeep
<1>6. CASE t.at = Nothing
  <2>1. Turned(c, k, <<>>, {}, {}, <<>>, <<>>) BY <1>1, <1>6, ModuleTurns, Zenon
  <2>2. c.at[k + 1].seen = c.at[k].seen /\ c.at[k + 1].met = c.at[k].met BY <2>1, TurnedSeen, Zenon
  <2>4. Silent(c, k) BY <2>1, NothingSaid, Zenon
  <2> QED BY <1>5, <1>6, <2>2, <2>4 DEF DeepTurn
<1>7. CASE t.at # Nothing /\ t.at \in c.at[k].seen
  <2>1. Turned(c, k, <<>>, {}, {}, <<>>, Mark(c.at[k], <<"passed", t.label, t.at>>))
    BY <1>1, <1>7, ModuleTurns, Zenon
  <2>2. c.at[k + 1].seen = c.at[k].seen /\ c.at[k + 1].met = c.at[k].met BY <2>1, TurnedSeen, Zenon
  <2>3. Said(c, k) = <<"passed", t.label, t.at>> BY <2>1, NoteSaid, Zenon
  <2>4. Noted(c, k + 1) = Noted(c, k) + 1 BY <2>1, NoteIn, Zenon
  <2>5. Fed(c, k + 1) = Fed(c, k) BY <2>1 DEF Turned
  <2> QED BY <1>5, <1>7, <2>2, <2>3, <2>4, <2>5 DEF DeepTurn
<1>8. CASE t.at # Nothing /\ t.at \notin c.at[k].seen
  <2>1. Turned(c, k, ModuleTasks(t.at, t.label, t.names), {t.at}, {},
               <<<<"m", t.label, t.at, c.of.text[t.at]>>>>, <<>>)
    BY <1>1, <1>8, ModuleTurns, Zenon
  <2>2. c.at[k + 1].met = c.at[k].met BY <2>1, TurnedSeen, Zenon
  <2>8. Sees(c, k, {t.at}) BY <2>1, TurnedSees, Zenon
  <2>9. c.at[k + 1].seen = c.at[k].seen \cup {t.at} BY <2>8 DEF Sees
  <2>3. Said(c, k) = <<"m", t.label, t.at, c.of.text[t.at]>> BY <2>1, FrameSaid, Zenon
  <2>4. Fed(c, k + 1) = Fed(c, k) + 1 BY <2>1, FrameIn, Zenon
  <2>5. Noted(c, k + 1) = Noted(c, k) BY <2>1, TurnedSeen, Zenon
  <2>6. t.at \in Mod BY <1>1, <1>2, <1>8, TaskHas
  <2> QED BY <1>5, <1>8, <2>2, <2>3, <2>4, <2>5, <2>6, <2>9 DEF DeepTurn
<1> QED BY <1>6, <1>7, <1>8

\* What both have looked at grows by one thing.
LEMMA KeptSees ==
  ASSUME NEW p, NEW q, NEW S, NEW W, NEW F, NEW G, Kept(p, q, S, W, F, G),
         NEW m, SeenWell(p, q, W, F, m)
  PROVE  Kept(p, q, S \cup {m}, W, F, G)
<1> DEFINE t == Task("none", m, <<>>, <<>>)
<1>1. t.does = "none" BY TaskIs
<1> HIDE DEF t
<1>2. DoesBoth(p, q, S \cup {m}, W, F, t, t)
  <2>1. \A D \in Sorts : t.does \notin D BY <1>1 DEF Sorts
  <2>2. t.does # "code" /\ t.does # "captures" BY <1>1
  <2> QED BY <2>1, <2>2 DEF DoesBoth
<1>3. G \subseteq F /\ F \subseteq Fn \X Fn BY DEF Kept
<1>4. \A x \in (S \cup {m}) \ S : SeenWell(p, q, W, F, x) OBVIOUS
<1>5. \A z \in F \ (F \cup G) : Skipped(p, q, S \cup {m}, G, z[1], z[2]) OBVIOUS
<1>6. \A z \in G \ G : MetWell(p, q, S \cup {m}, W, F, z[1], z[2]) OBVIOUS
<1>7. W \subseteq W \cup {<<t, t>>} /\ S \subseteq S \cup {m} /\ F \subseteq F /\ G \subseteq G
  OBVIOUS
<1> QED BY <1>2, <1>3, <1>4, <1>5, <1>6, <1>7, KeptGrows

LEMMA KindsApart ==
  /\ \A m \in Mod : m \notin Fn /\ m \notin Code /\ m \notin Cls /\ m \notin Outside /\ m \notin Mutable
                    /\ m \notin Const /\ m # Nothing
  /\ \A m \in Cls : m \notin Fn /\ m \notin Code /\ m \notin Mod /\ m \notin Outside /\ m \notin Mutable
                    /\ m \notin Const /\ m # Nothing
  /\ \A m \in Code : m \notin Fn /\ m \notin Cls /\ m \notin Mod /\ m \notin Outside /\ m \notin Mutable
                    /\ m \notin Const /\ m # Nothing
  /\ \A m \in Fn : m \notin Code /\ m \notin Cls /\ m \notin Mod /\ m \notin Outside /\ m \notin Mutable
                    /\ m \notin Const /\ m # Nothing
  /\ \A m \in Outside : m \notin Fn /\ m # Nothing /\ m \notin Const /\ m \notin Mutable
  /\ \A m \in Const \cup Mutable : m \notin Fn /\ m \notin Outside /\ m # Nothing
  /\ Nothing \notin Fn /\ Nothing \notin Outside /\ Nothing \notin Object
BY HashAssumption DEF Object

LEMMA ModuleSeen ==
  ASSUME NEW p, NEW q, NEW W, NEW F, NEW m \in Mod, p.text[m] = q.text[m]
  PROVE  SeenWell(p, q, W, F, m)
<1>1. m \notin Fn /\ m \notin Code /\ m \notin Cls BY KindsApart
<1>2. Own(p, m) = <<m, p.text[m]>> /\ Own(q, m) = <<m, q.text[m]>> BY <1>1 DEF Own
<1> QED BY <1>1, <1>2 DEF SeenWell

\* A submodule's task for a name that is none's: nothing is told of it.
LEMMA LeftAlone ==
  ASSUME NEW c, NEW d, Twins(c, d), NEW k \in 0..(c.steps - 1), NEW l \in 0..d.steps, Abreast(c, d, k, l),
         Deep(c.at[k].todo[1]), c.at[k].todo[1].at = Nothing
  PROVE  Abreast(c, d, k + 1, l)
<1>1. PICK x, y, F, G : x \in Seq(Tasks) /\ y \in Seq(Tasks) /\ Beside(c, d, k, l, x, y, F, G)
  BY DEF Abreast
<1>2. Shallow(c.at[k].todo, x) BY <1>1 DEF Beside
<1>3. Course(c) BY DEF Twins, Finished
<1>4. /\ Shallow(c.at[k + 1].todo, x) /\ c.at[k + 1].met = c.at[k].met
      /\ Silent(c, k) /\ c.at[k + 1].seen = c.at[k].seen
  BY <1>2, <1>3, DeepTurns DEF DeepTurn
<1>5. Fed(c, k + 1) = Fed(c, k) /\ Noted(c, k + 1) = Noted(c, k) BY <1>4 DEF Silent
<1>6. Beside(c, d, k + 1, l, x, y, F, G) BY <1>1, <1>4, <1>5 DEF Beside
<1> QED BY <1>1, <1>6 DEF Abreast

LEMMA RightAlone ==
  ASSUME NEW c, NEW d, Twins(c, d), NEW k \in 0..c.steps, NEW l \in 0..(d.steps - 1), Abreast(c, d, k, l),
         Deep(d.at[l].todo[1]), d.at[l].todo[1].at = Nothing
  PROVE  Abreast(c, d, k, l + 1)
<1>1. PICK x, y, F, G : x \in Seq(Tasks) /\ y \in Seq(Tasks) /\ Beside(c, d, k, l, x, y, F, G)
  BY DEF Abreast
<1>2. Shallow(d.at[l].todo, y) BY <1>1 DEF Beside
<1>3. Course(d) BY DEF Twins, Finished
<1>4. /\ Shallow(d.at[l + 1].todo, y) /\ d.at[l + 1].met = d.at[l].met
      /\ Silent(d, l) /\ d.at[l + 1].seen = d.at[l].seen
  BY <1>2, <1>3, DeepTurns DEF DeepTurn
<1>5. Fed(d, l + 1) = Fed(d, l) /\ Noted(d, l + 1) = Noted(d, l) BY <1>4 DEF Silent
<1>6. Beside(c, d, k, l + 1, x, y, F, G) BY <1>1, <1>4, <1>5 DEF Beside
<1> QED BY <1>1, <1>6 DEF Abreast

\* Two submodules' tasks that say the same.
LEMMA DeepBoth ==
  ASSUME NEW c, NEW d, Twins(c, d), NEW k \in 0..(c.steps - 1), NEW l \in 0..(d.steps - 1),
         Abreast(c, d, k, l),
         Deep(c.at[k].todo[1]), c.at[k].todo[1].at # Nothing,
         Deep(d.at[l].todo[1]), d.at[l].todo[1].at # Nothing
  PROVE  Abreast(c, d, k + 1, l + 1)
<1> DEFINE m == c.at[k].todo[1].at
           n == d.at[l].todo[1].at
           S == c.at[k].seen
           p == c.of
           q == d.of
<1>1. PICK x, y, F, G : x \in Seq(Tasks) /\ y \in Seq(Tasks) /\ Beside(c, d, k, l, x, y, F, G)
  BY DEF Abreast
<1>2. /\ Shallow(c.at[k].todo, x) /\ Shallow(d.at[l].todo, y) /\ d.at[l].seen = S
      /\ Fed(c, k) = Fed(d, l) /\ Noted(c, k) = Noted(d, l)
  BY <1>1 DEF Beside
<1>3. Course(c) /\ Course(d) BY DEF Twins, Finished
<1>4. Said(c, k) = Said(d, l) BY <1>2, SaidSame
<1>16. DeepTurn(c, k, x) /\ DeepTurn(d, l, y) BY <1>2, <1>3, DeepTurns, Zenon
<1>5. Shallow(c.at[k + 1].todo, x) /\ c.at[k + 1].met = c.at[k].met BY <1>16, Zenon DEF DeepTurn
<1>6. Shallow(d.at[l + 1].todo, y) /\ d.at[l + 1].met = d.at[l].met BY <1>16, Zenon DEF DeepTurn
<1>7. m \in S => /\ Said(c, k) = <<"passed", c.at[k].todo[1].label, m>>
                 /\ c.at[k + 1].seen = S /\ Fed(c, k + 1) = Fed(c, k) /\ Noted(c, k + 1) = Noted(c, k) + 1
  BY <1>16, Zenon DEF DeepTurn
<1>8. m \notin S => /\ Said(c, k) = <<"m", c.at[k].todo[1].label, m, p.text[m]>> /\ m \in Mod
                    /\ c.at[k + 1].seen = S \cup {m}
                    /\ Fed(c, k + 1) = Fed(c, k) + 1 /\ Noted(c, k + 1) = Noted(c, k)
  BY <1>16, Zenon DEF DeepTurn
<1>9. n \in S => /\ Said(d, l) = <<"passed", d.at[l].todo[1].label, n>>
                 /\ d.at[l + 1].seen = S /\ Fed(d, l + 1) = Fed(d, l) /\ Noted(d, l + 1) = Noted(d, l) + 1
  BY <1>2, <1>16, Zenon DEF DeepTurn
<1>10. n \notin S => /\ Said(d, l) = <<"m", d.at[l].todo[1].label, n, q.text[n]>> /\ n \in Mod
                     /\ d.at[l + 1].seen = S \cup {n}
                     /\ Fed(d, l + 1) = Fed(d, l) + 1 /\ Noted(d, l + 1) = Noted(d, l)
  BY <1>2, <1>16, Zenon DEF DeepTurn
<1> HIDE DEF m, n, S, p, q
<1>11. Kept(p, q, S, Twos(x, y), F, G) BY <1>1 DEF Beside, p, q, S
<1>12. Fed(c, k + 1) = Fed(d, l + 1) /\ Noted(c, k + 1) = Noted(d, l + 1)
       /\ c.at[k + 1].seen = d.at[l + 1].seen
       /\ Kept(p, q, c.at[k + 1].seen, Twos(x, y), F, G)
  <2>1. CASE m \in S
    <3>1. Said(d, l)[1] = "passed" BY <1>4, <1>7, <2>1
    <3>2. n \in S BY <1>10, <3>1
    <3> QED BY <1>2, <1>7, <1>9, <1>11, <2>1, <3>2
  <2>2. CASE m \notin S
    <3>1. Said(d, l) = <<"m", c.at[k].todo[1].label, m, p.text[m]>> BY <1>4, <1>8, <2>2
    <3>2. n \notin S BY <1>9, <3>1
    <3>3. <<"m", d.at[l].todo[1].label, n, q.text[n]>> = <<"m", c.at[k].todo[1].label, m, p.text[m]>>
      BY <1>10, <3>1, <3>2
    <3>4. n = m /\ q.text[n] = p.text[m] BY <3>3
    <3>5. m \in Mod /\ p.text[m] = q.text[m] BY <1>8, <2>2, <3>4
    <3>6. SeenWell(p, q, Twos(x, y), F, m) BY <3>5, ModuleSeen
    <3>7. Kept(p, q, S \cup {m}, Twos(x, y), F, G) BY <1>11, <3>6, KeptSees
    <3> QED BY <1>2, <1>8, <1>10, <2>2, <3>2, <3>4, <3>7
  <2> QED BY <2>1, <2>2
<1>13. Alikes(x, y) /\ c.at[k].met = {z[1] : z \in G} /\ d.at[l].met = {z[2] : z \in G}
  BY <1>1 DEF Beside
<1>14. Beside(c, d, k + 1, l + 1, x, y, F, G) BY <1>5, <1>6, <1>12, <1>13 DEF Beside, p, q
<1> QED BY <1>1, <1>14 DEF Abreast

\* One of them alone does not say what the other does.
LEMMA NoneAlone ==
  ASSUME NEW c, NEW d, Twins(c, d), NEW k \in 0..(c.steps - 1), NEW l \in 0..d.steps,
         Fed(c, k) = Fed(d, l), Noted(c, k) = Noted(d, l),
         Deep(c.at[k].todo[1]), c.at[k].todo[1].at # Nothing
  PROVE  ~Plain(d.at[l].todo)
<1>1. Course(c) /\ Finished(d) BY DEF Twins, Finished
<1>2. DeepVoice(Said(c, k)) BY <1>1, DeepSays
<1>3. Said(c, k) = Said(d, l) BY SaidSame
<1>4. Plain(d.at[l].todo) => ~DeepVoice(Said(d, l)) BY <1>1, PlainSays
<1> QED BY <1>2, <1>3, <1>4

LEMMA TwinsTurn ==
  ASSUME NEW c, NEW d, Twins(c, d) PROVE Twins(d, c)
BY DEF Twins

LEMMA AbreastLevel ==
  ASSUME NEW c, NEW d, Twins(c, d), NEW k \in 0..(c.steps - 1), NEW l \in 0..(d.steps - 1),
         Abreast(c, d, k, l), Plain(c.at[k].todo), Plain(d.at[l].todo)
  PROVE  \E F, G : Level(c, d, k, l, F, G)
<1>1. PICK x, y, F, G : x \in Seq(Tasks) /\ y \in Seq(Tasks) /\ Beside(c, d, k, l, x, y, F, G)
  BY DEF Abreast
<1>2. Shallow(c.at[k].todo, x) /\ Shallow(d.at[l].todo, y) BY <1>1 DEF Beside
<1>3. Course(c) /\ Course(d) BY DEF Twins, Finished
<1>4. c.at[k].todo \in Seq(Tasks) /\ d.at[l].todo \in Seq(Tasks) BY <1>3, HeadOf
<1>5. x = c.at[k].todo /\ Shallows(c.at[k].todo) BY <1>2, <1>4, ShallowAll
<1>6. y = d.at[l].todo /\ Shallows(d.at[l].todo) BY <1>2, <1>4, ShallowAll
<1>7. Beside(c, d, k, l, c.at[k].todo, d.at[l].todo, F, G) BY <1>1, <1>5, <1>6, Zenon
<1> QED BY <1>5, <1>6, <1>7 DEF Level

LEMMA LevelHeads ==
  ASSUME NEW c, NEW d, NEW k, NEW l, NEW F, NEW G, Level(c, d, k, l, F, G) PROVE Heads(c, d, k, l)
<1> DEFINE s == c.at[k].todo
           r == d.at[l].todo
<1>1. Twins(c, d) /\ k \in 0..(c.steps - 1) /\ l \in 0..(d.steps - 1) /\ Shallows(s) /\ Shallows(r)
  BY DEF Level
<1>2. Finished(c) /\ Finished(d) /\ Course(c) /\ Course(d) /\ Text(c) = Text(d) /\ Notes(c) = Notes(d)
  BY <1>1 DEF Twins, Finished
<1>3. c.of \in Program /\ d.of \in Program BY <1>2 DEF Course
<1>4. s # <<>> /\ s \in Seq(Tasks) /\ s[1] \in Tasks BY <1>1, <1>2, HeadOf
<1>5. r # <<>> /\ r \in Seq(Tasks) /\ r[1] \in Tasks BY <1>1, <1>2, HeadOf
<1>6. Alikes(s, r) /\ Fed(c, k) = Fed(d, l) /\ Noted(c, k) = Noted(d, l) /\ c.at[k].seen = d.at[l].seen
  BY DEF Level, Beside
<1>7. 1 \in 1..Len(s) /\ 1 \in 1..Len(r) BY <1>4, <1>5
<1>8. Like(s[1], r[1]) /\ ~Deep(s[1]) /\ ~Deep(r[1]) BY <1>1, <1>6, <1>7 DEF Alikes, Shallows
<1>9. Sound(c.of, s[1]) /\ Sound(d.of, r[1]) BY <1>1, <1>2, HeadSound
<1>10. Said(c, k) = Said(d, l) BY <1>1, <1>6, SaidSame
<1>11. TypedWalk(c.at[k]) BY <1>1, <1>2, CourseStep
<1>12. c.at[k].seen \subseteq Code \cup Cls \cup Mod BY <1>11 DEF TypedWalk
<1> QED BY <1>1, <1>2, <1>3, <1>4, <1>5, <1>6, <1>8, <1>9, <1>10, <1>12 DEF Heads

LEMMA Adding ==
  ASSUME NEW c, NEW d, NEW k, NEW l, NEW F, NEW G, Level(c, d, k, l, F, G),
         NEW a, NEW b, AddsBoth(c, d, k, l, a, b)
  PROVE  \E x, y : /\ Grows(c, d, k, l, x, y)
                   /\ \A n \in 1..Len(a) : <<a[n], b[n]>> \in Twos(x, y)
<1> DEFINE s == c.at[k].todo
           r == d.at[l].todo
           x == c.at[k + 1].todo
           y == d.at[l + 1].todo
<1>1. s # <<>> /\ s \in Seq(Tasks) /\ r # <<>> /\ r \in Seq(Tasks) BY LevelHeads DEF Heads
<1>2. Alikes(s, r) /\ Shallows(s) /\ Shallows(r) BY DEF Level, Beside
<1>3. x = a \o Tail(s) /\ y = b \o Tail(r) BY DEF AddsBoth
<1>10. a \in Seq(Tasks) /\ b \in Seq(Tasks) /\ Alikes(a, b) /\ Shallows(a) /\ Shallows(b)
  BY DEF AddsBoth
<1> HIDE DEF s, r, x, y
<1>4. Shallow(x, x) BY <1>1, <1>2, <1>3, <1>10, ShallowOver
<1>5. Shallow(y, y) BY <1>1, <1>2, <1>3, <1>10, ShallowOver
<1>6. x \in Seq(Tasks) /\ y \in Seq(Tasks) BY <1>4, <1>5 DEF Shallow
<1>7. /\ Alikes(x, y) /\ Twos(s, r) \subseteq Twos(x, y) \cup {<<s[1], r[1]>>}
      /\ \A n \in 1..Len(a) : <<a[n], b[n]>> \in Twos(x, y)
  BY <1>1, <1>2, <1>3, <1>10, TwosGrow
<1>8. Grows(c, d, k, l, x, y) BY <1>4, <1>5, <1>6, <1>7 DEF Grows, s, r, x, y
<1> QED BY <1>7, <1>8

LEMMA AddingDeep ==
  ASSUME NEW c, NEW d, NEW k, NEW l, NEW F, NEW G, Level(c, d, k, l, F, G),
         NEW a \in Seq(Tasks), NEW b \in Seq(Tasks), Deeps(a), Deeps(b),
         c.at[k + 1].todo = a \o Tail(c.at[k].todo), d.at[l + 1].todo = b \o Tail(d.at[l].todo)
  PROVE  \E x, y : Grows(c, d, k, l, x, y)
<1> DEFINE s == c.at[k].todo
           r == d.at[l].todo
           x == Tail(s)
           y == Tail(r)
<1>1. s # <<>> /\ s \in Seq(Tasks) /\ r # <<>> /\ r \in Seq(Tasks) BY LevelHeads DEF Heads
<1>2. Alikes(s, r) /\ Shallows(s) /\ Shallows(r) BY DEF Level, Beside
<1>3. c.at[k + 1].todo = a \o Tail(s) /\ d.at[l + 1].todo = b \o Tail(r) OBVIOUS
<1> HIDE DEF s, r
<1>4. Shallow(c.at[k + 1].todo, x) BY <1>1, <1>2, <1>3, ShallowOver
<1>5. Shallow(d.at[l + 1].todo, y) BY <1>1, <1>2, <1>3, ShallowOver
<1>6. x \in Seq(Tasks) /\ y \in Seq(Tasks) BY <1>1
<1>7. x = <<>> \o Tail(s) /\ y = <<>> \o Tail(r) /\ <<>> \in Seq(Tasks) BY <1>6
<1>8. Alikes(<<>>, <<>>) BY DEF Alikes
<1> HIDE DEF x, y
<1>9. Alikes(x, y) /\ Twos(s, r) \subseteq Twos(x, y) \cup {<<s[1], r[1]>>}
  BY <1>1, <1>2, <1>7, <1>8, TwosGrow
<1>10. Grows(c, d, k, l, x, y) BY <1>4, <1>5, <1>6, <1>9 DEF Grows, s, r
<1> QED BY <1>10

LEMMA Advance ==
  ASSUME NEW c, NEW d, NEW k, NEW l, NEW F, NEW G, Level(c, d, k, l, F, G),
         NEW x, NEW y, Grows(c, d, k, l, x, y), Evenly(c, d, k + 1, l + 1),
         NEW F2, NEW G2, Ready(c, d, k, l, x, y, F, G, F2, G2)
  PROVE  Abreast(c, d, k + 1, l + 1)
<1>1. Kept(c.of, d.of, c.at[k].seen, Twos(c.at[k].todo, d.at[l].todo), F, G) BY DEF Level, Beside
<1>2. Twos(c.at[k].todo, d.at[l].todo) \subseteq Twos(x, y) \cup {<<c.at[k].todo[1], d.at[l].todo[1]>>}
  BY DEF Grows
<1>3. Kept(c.of, d.of, c.at[k + 1].seen, Twos(x, y), F2, G2) BY <1>1, <1>2, KeptGrows DEF Ready
<1>4. Beside(c, d, k + 1, l + 1, x, y, F2, G2) BY <1>3 DEF Beside, Grows, Evenly, Ready
<1>5. x \in Seq(Tasks) /\ y \in Seq(Tasks) BY DEF Grows
<1> QED BY <1>4, <1>5 DEF Abreast

\* With nothing newly met or seen.
LEMMA AdvanceOnly ==
  ASSUME NEW c, NEW d, NEW k, NEW l, NEW F, NEW G, Level(c, d, k, l, F, G),
         NEW x, NEW y, Grows(c, d, k, l, x, y), Evenly(c, d, k + 1, l + 1),
         c.at[k + 1].seen = c.at[k].seen,
         c.at[k + 1].met = c.at[k].met, d.at[l + 1].met = d.at[l].met,
         DoesBoth(c.of, d.of, c.at[k].seen, Twos(x, y), F, c.at[k].todo[1], d.at[l].todo[1])
  PROVE  Abreast(c, d, k + 1, l + 1)
<1>1. /\ Kept(c.of, d.of, c.at[k].seen, Twos(c.at[k].todo, d.at[l].todo), F, G)
      /\ c.at[k].met = {z[1] : z \in G} /\ d.at[l].met = {z[2] : z \in G}
  BY DEF Level, Beside
<1>2. Twos(c.at[k].todo, d.at[l].todo) \subseteq Twos(x, y) \cup {<<c.at[k].todo[1], d.at[l].todo[1]>>}
  BY DEF Grows
<1>3. G \subseteq F /\ F \subseteq Fn \X Fn BY <1>1 DEF Kept
<1> DEFINE S == c.at[k].seen
<1>4. /\ \A z \in G \ G : MetWell(c.of, d.of, S, Twos(x, y), F, z[1], z[2])
      /\ \A z \in F \ (F \cup G) : Skipped(c.of, d.of, S, G, z[1], z[2])
      /\ \A o \in S \ S : SeenWell(c.of, d.of, Twos(x, y), F, o)
  OBVIOUS
<1>5. Kept(c.of, d.of, S, Twos(x, y), F, G) BY <1>1, <1>2, <1>3, <1>4, KeptGrows
<1>6. Beside(c, d, k + 1, l + 1, x, y, F, G) BY <1>1, <1>5 DEF Beside, Grows, Evenly
<1>7. x \in Seq(Tasks) /\ y \in Seq(Tasks) BY DEF Grows
<1> QED BY <1>6, <1>7 DEF Abreast

-----------------------------------------------------------------------------
(* Two globals                                                             *)

LEMMA TurnedLeaves ==
  ASSUME NEW c, NEW k, NEW s, NEW things, NEW fns, NEW frames, NEW notes,
         Turned(c, k, s, things, fns, frames, notes)
  PROVE  Leaves(c, k, s)
BY TurnedTodo DEF Leaves

LEMMA GlobalsFeed ==
  ASSUME NEW c, Course(c), NEW k \in 0..(c.steps - 1), c.at[k].todo[1].does = "global"
  PROVE  GlobalFeeds(c, k, c.at[k].todo[1].at, c.at[k].todo[1].label, c.at[k].todo[1].names)
<1>1. PICK t, o, l : t = c.at[k].todo[1] /\ o = t.at /\ l = t.label OBVIOUS
<1>2. SUFFICES GlobalFeeds(c, k, o, l, t.names) BY <1>1, Zenon
<1>3. Turned(c, k, GlobalTasks(o, l, t.names), {}, {}, FrameOf(c.of, o, l),
             IF o \in Outside THEN Mark(c.at[k], <<"object", o>>) ELSE <<>>)
  BY <1>1, GlobalTurns, Zenon
<1>4. /\ o \in Fn => FrameOf(c.of, o, l) = <<<<"fn", l>>>>
      /\ o \in Const => FrameOf(c.of, o, l) = <<<<"value", l, o>>>>
      /\ o \in Mutable => FrameOf(c.of, o, l) = <<<<"untracked", l, TypeOf[o]>>>>
      /\ o \in Outside => FrameOf(c.of, o, l) = <<<<"global", l, <<"outside", c.of.version>>>>>>
      /\ o \in Mod \cup Cls \cup {Nothing} => FrameOf(c.of, o, l) = <<>>
  BY HashAssumption DEF FrameOf, Object
<1>5. o \in Fn \cup Const \cup Mutable \cup Mod \cup Cls \cup {Nothing} => o \notin Outside
  BY HashAssumption DEF Object
<1>6. o \notin Outside => Turned(c, k, GlobalTasks(o, l, t.names), {}, {}, FrameOf(c.of, o, l), <<>>)
  BY <1>3
<1>7. c.at[k + 1].todo = GlobalTasks(o, l, t.names) \o Tail(c.at[k].todo)
  <2>1. Leaves(c, k, GlobalTasks(o, l, t.names)) BY <1>3, TurnedLeaves, Zenon
  <2> QED BY <2>1 DEF Leaves
<1>8. c.at[k + 1].seen = c.at[k].seen /\ c.at[k + 1].met = c.at[k].met BY <1>3, TurnedSeen, Zenon
<1>9. o \notin Outside => Noted(c, k + 1) = Noted(c, k) BY <1>6, TurnedSeen, Zenon
<1>10. ASSUME NEW x, FrameOf(c.of, o, l) = <<x>>
       PROVE  Fed(c, k + 1) = Fed(c, k) + 1 /\ Text(c)[Fed(c, k) + 1] = x
  <2>1. \E notes : Turned(c, k, GlobalTasks(o, l, t.names), {}, {}, <<x>>, notes)
    BY <1>3, <1>10, Zenon
  <2> QED BY <2>1, FrameIn
<1>11. o \in Fn \cup Const \cup Mutable => Fed(c, k + 1) = Fed(c, k) + 1 BY <1>4, <1>10
<1>12. o \in Outside => Noted(c, k + 1) = Noted(c, k) + 1 BY <1>3, NoteIn
<1>13. o \in Outside => /\ Fed(c, k + 1) = Fed(c, k) + 1
                        /\ Text(c)[Fed(c, k) + 1] = <<"global", l, <<"outside", c.of.version>>>>
  <2>1. o \in Outside => FrameOf(c.of, o, l) = <<<<"global", l, <<"outside", c.of.version>>>>>>
    BY <1>4
  <2> QED BY <1>10, <2>1, Zenon
<1>14. o \in Mod \cup Cls \cup {Nothing} => Silent(c, k) BY <1>4, <1>5, <1>6, NothingSaid
<1> QED BY <1>5, <1>7, <1>8, <1>9, <1>11, <1>12, <1>13, <1>14 DEF GlobalFeeds, Silent

\* A name that is bound to nothing in one program is not bound in the other,
\* or the other's walk would have named it.
LEMMA BoundAlike ==
  ASSUME NEW c, NEW d, Finished(c), Finished(d), Text(c) = Text(d), Notes(c) = Notes(d),
         NEW k \in 0..(c.steps - 1), NEW l \in 0..(d.steps - 1),
         c.at[k].todo[1].does = "global", d.at[l].todo[1].does = "global",
         c.at[k].todo[1].label = d.at[l].todo[1].label, c.at[k].todo[1].at = Nothing
  PROVE  d.at[l].todo[1].at = Nothing
<1>1. Course(c) /\ Course(d) BY DEF Finished
<1>2. Sound(c.of, c.at[k].todo[1]) BY <1>1, HeadSound
<1>3. Nothing \notin Object BY HashAssumption
<1>4. PICK y \in Name : c.at[k].todo[1].label = <<y>> /\ c.of.bound[y] = Nothing
  BY <1>2, <1>3 DEF Sound
<1>5. SUFFICES ASSUME d.at[l].todo[1].at # Nothing PROVE FALSE OBVIOUS
<1>6. Uttered(Text(d), Notes(d), y) BY <1>4, <1>5, GlobalUtters
<1>7. Uttered(Text(c), Notes(c), y) BY <1>6
<1>8. c.of.bound[y] # Nothing BY <1>1, <1>7, UtteredIsBound
<1> QED BY <1>4, <1>8

LEMMA GlobalsAlike ==
  ASSUME NEW c, NEW d, NEW k, NEW l, Heads(c, d, k, l), c.at[k].todo[1].does = "global"
  PROVE  d.at[l].todo[1].does = "global" /\ SameGlobal(c.at[k].todo[1].at, d.at[l].todo[1].at)
<1>1. PICK t, u, o, o2 : t = c.at[k].todo[1] /\ u = d.at[l].todo[1] /\ o = t.at /\ o2 = u.at OBVIOUS
<1>2. /\ Finished(c) /\ Finished(d) /\ Course(c) /\ Course(d) /\ Text(c) = Text(d) /\ Notes(c) = Notes(d)
      /\ k \in 0..(c.steps - 1) /\ l \in 0..(d.steps - 1) /\ Said(c, k) = Said(d, l)
  BY DEF Heads
<1>3. Like(t, u) BY <1>1 DEF Heads
<1>4. u.does = "global" /\ t.does = "global" /\ t.label = u.label BY <1>1, <1>3 DEF Like
<1>5. /\ o \in Object \cup {Nothing}
      /\ o \in Fn => Said(c, k) = <<"fn", t.label>>
      /\ o \in Const => Said(c, k) = <<"value", t.label, o>>
      /\ o \in Mutable => Said(c, k) = <<"untracked", t.label, TypeOf[o]>>
      /\ o \in Outside => Said(c, k) = <<"object", o>>
  BY <1>1, <1>2, GlobalSays
<1>6. /\ o2 \in Object \cup {Nothing}
      /\ o2 \in Fn => Said(d, l) = <<"fn", u.label>>
      /\ o2 \in Const => Said(d, l) = <<"value", u.label, o2>>
      /\ o2 \in Mutable => Said(d, l) = <<"untracked", u.label, TypeOf[o2]>>
      /\ o2 \in Outside => Said(d, l) = <<"object", o2>>
  BY <1>1, <1>2, <1>4, GlobalSays
<1>7. o \in Mod \cup Cls => Said(c, k)[1] \in {"passed", "m", "methods"} BY <1>1, <1>2, GlobalTag
<1>8. o2 \in Mod \cup Cls => Said(d, l)[1] \in {"passed", "m", "methods"}
  BY <1>1, <1>2, <1>4, GlobalTag
<1>13. /\ c.at[k].todo[1].does = "global" /\ d.at[l].todo[1].does = "global"
       /\ c.at[k].todo[1].label = d.at[l].todo[1].label
  BY <1>1, <1>4
<1>16. Text(d) = Text(c) /\ Notes(d) = Notes(c) /\ d.at[l].todo[1].label = c.at[k].todo[1].label
  BY <1>2, <1>13
<1>14. ASSUME c.at[k].todo[1].at = Nothing PROVE d.at[l].todo[1].at = Nothing
  BY <1>2, <1>13, <1>14, BoundAlike
<1>15. ASSUME d.at[l].todo[1].at = Nothing PROVE c.at[k].todo[1].at = Nothing
  BY <1>2, <1>13, <1>15, <1>16, BoundAlike
<1>9. o = Nothing => o2 = Nothing BY <1>1, <1>14
<1>10. o2 = Nothing => o = Nothing BY <1>1, <1>15
<1>11. SameGlobal(o, o2)
  <2>1. \/ o \in Fn \/ o \in Const \/ o \in Mutable \/ o \in Outside \/ o \in Mod \cup Cls \/ o = Nothing
    BY <1>5 DEF Object
  <2>2. \/ o2 \in Fn \/ o2 \in Const \/ o2 \in Mutable \/ o2 \in Outside \/ o2 \in Mod \cup Cls \/ o2 = Nothing
    BY <1>6 DEF Object
  <2>3. /\ o \in Fn => Said(c, k)[1] = "fn"
        /\ o \in Const => Said(c, k)[1] = "value" /\ Said(c, k)[3] = o
        /\ o \in Mutable => Said(c, k)[1] = "untracked" /\ Said(c, k)[3] = TypeOf[o]
        /\ o \in Outside => Said(c, k)[1] = "object" /\ Said(c, k)[2] = o
    BY <1>5
  <2>4. /\ o2 \in Fn => Said(d, l)[1] = "fn"
        /\ o2 \in Const => Said(d, l)[1] = "value" /\ Said(d, l)[3] = o2
        /\ o2 \in Mutable => Said(d, l)[1] = "untracked" /\ Said(d, l)[3] = TypeOf[o2]
        /\ o2 \in Outside => Said(d, l)[1] = "object" /\ Said(d, l)[2] = o2
    BY <1>6
  <2> QED BY <1>2, <1>7, <1>8, <1>9, <1>10, <2>1, <2>2, <2>3, <2>4 DEF SameGlobal
<1> QED BY <1>1, <1>4, <1>11

LEMMA OneAlike ==
  ASSUME NEW x, NEW y, Like(x, y) PROVE Alikes(<<x>>, <<y>>)
BY DEF Alikes

\* What they add.
LEMMA GlobalsAdd ==
  ASSUME NEW o \in Object \cup {Nothing}, NEW o2 \in Object \cup {Nothing}, SameGlobal(o, o2),
         NEW label \in Label, NEW ns \in Seq(Name), NEW ns2 \in Seq(Name)
  PROVE  LET a == GlobalTasks(o, label, ns)
             b == GlobalTasks(o2, label, ns2)
         IN  /\ Alikes(a, b)
             /\ o \in Fn => /\ Len(a) = 1 /\ a[1].does = "function" /\ a[1].at = o
                            /\ b[1].does = "function" /\ b[1].at = o2
             /\ o \in Mod \cup Cls => /\ Len(a) = 1 /\ a[1].does \in {"module", "class"} /\ a[1].at = o
                                      /\ b[1].does \in {"module", "class"} /\ b[1].at = o2
<1> DEFINE a == GlobalTasks(o, label, ns)
           b == GlobalTasks(o2, label, ns2)
<1>1. /\ o \in Fn => a = <<Task("function", o, label, ns)>>
      /\ o \in Mod => a = <<Task("module", o, label, ns)>>
      /\ o \in Cls => a = <<Task("class", o, label, ns)>>
      /\ o \notin Fn \cup Mod \cup Cls => a = <<>>
  BY GlobalTasksIs
<1>2. /\ o2 \in Fn => b = <<Task("function", o2, label, ns2)>>
      /\ o2 \in Mod => b = <<Task("module", o2, label, ns2)>>
      /\ o2 \in Cls => b = <<Task("class", o2, label, ns2)>>
      /\ o2 \notin Fn \cup Mod \cup Cls => b = <<>>
  BY GlobalTasksIs
<1> HIDE DEF a, b
<1>3. \A does, at, names : LET x == Task(does, at, label, names)
                           IN  x.does = does /\ x.at = at /\ x.label = label
  BY TaskIs
<1>4. CASE o \in Fn /\ o2 \in Fn
  <2>1. PICK x, y : x = Task("function", o, label, ns) /\ y = Task("function", o2, label, ns2)
    OBVIOUS
  <2>2. a = <<x>> /\ b = <<y>> BY <1>1, <1>2, <1>4, <2>1
  <2>3. x.does = "function" /\ x.at = o /\ x.label = label /\ y.does = "function" /\ y.at = o2 /\ y.label = label
    BY <1>3, <2>1
  <2>4. Like(x, y) /\ o \notin Mod \cup Cls BY <1>4, <2>3, KindsApart DEF Like
  <2>5. Alikes(a, b) BY <2>2, <2>4, OneAlike
  <2>6. Len(a) = 1 /\ a[1] = x /\ b[1] = y BY <2>2
  <2> QED BY <2>3, <2>4, <2>5, <2>6 DEF a, b
<1>5. CASE o \in Mod \cup Cls /\ o2 \in Mod \cup Cls
  <2>1. PICK does, does2, x, y :
          /\ does \in {"module", "class"} /\ does2 \in {"module", "class"} /\ a = <<x>> /\ b = <<y>>
          /\ x = Task(does, o, label, ns) /\ y = Task(does2, o2, label, ns2)
    BY <1>1, <1>2, <1>5
  <2>2. x.does = does /\ x.at = o /\ x.label = label /\ y.does = does2 /\ y.at = o2 /\ y.label = label
    BY <1>3, <2>1
  <2>3. Like(x, y) /\ o \notin Fn BY <1>5, <2>1, <2>2, KindsApart DEF Like
  <2>4. Alikes(a, b) BY <2>1, <2>3, OneAlike
  <2>5. Len(a) = 1 /\ a[1] = x /\ b[1] = y BY <2>1
  <2> QED BY <2>1, <2>2, <2>3, <2>4, <2>5 DEF a, b
<1>6. CASE o \notin Fn \cup Mod \cup Cls /\ o2 \notin Fn \cup Mod \cup Cls
  <2>1. a = <<>> /\ b = <<>> BY <1>1, <1>2, <1>6
  <2>2. Alikes(a, b) BY <2>1 DEF Alikes
  <2> QED BY <1>6, <2>2 DEF a, b
<1> QED BY <1>4, <1>5, <1>6, KindsApart DEF SameGlobal

LEMMA GlobalsTogether ==
  ASSUME NEW c, NEW d, NEW k, NEW l, NEW F, NEW G, Level(c, d, k, l, F, G),
         c.at[k].todo[1].does = "global"
  PROVE  Abreast(c, d, k + 1, l + 1)
<1>1. PICK t, u, p, q, o, o2 : /\ t = c.at[k].todo[1] /\ u = d.at[l].todo[1] /\ p = c.of /\ q = d.of
                               /\ o = t.at /\ o2 = u.at
  OBVIOUS
<1>2. Heads(c, d, k, l) BY LevelHeads
<1>3. /\ k \in 0..(c.steps - 1) /\ l \in 0..(d.steps - 1) /\ Course(c) /\ Course(d)
      /\ p \in Program /\ q \in Program /\ t \in Tasks /\ u \in Tasks /\ Sound(p, t) /\ Sound(q, u)
      /\ Text(c) = Text(d) /\ Fed(c, k) = Fed(d, l) /\ Noted(c, k) = Noted(d, l)
      /\ c.at[k].seen = d.at[l].seen
  BY <1>1, <1>2 DEF Heads
<1>4. Like(t, u) BY <1>1, <1>2 DEF Heads
<1>5. t.does = "global" /\ u.does = "global" /\ t.label = u.label BY <1>1, <1>4 DEF Like
<1>6. SameGlobal(o, o2) BY <1>1, <1>2, GlobalsAlike
<1>7. o \in Object \cup {Nothing} /\ o2 \in Object \cup {Nothing} /\ t.label \in Label
      /\ t.names \in Seq(Name) /\ u.names \in Seq(Name)
  BY <1>1, <1>3, <1>5, TaskHas
<1> DEFINE a == GlobalTasks(o, t.label, t.names)
           b == GlobalTasks(o2, t.label, u.names)
<1>8. AddsFine(p, t, a) /\ AddsFine(q, u, b)
  <2>1. AddsFine(p, t, GlobalTasks(t.at, t.label, t.names)) BY <1>3, <1>5, GlobalAdds
  <2>2. AddsFine(q, u, GlobalTasks(u.at, u.label, u.names)) BY <1>3, <1>5, GlobalAdds
  <2> QED BY <1>1, <1>5, <2>1, <2>2, Zenon
<1>9. a \in Seq(Tasks) /\ b \in Seq(Tasks) /\ Shallows(a) /\ Shallows(b)
  BY <1>5, <1>8 DEF AddsFine, Shallows
<1>10. /\ Alikes(a, b)
       /\ o \in Fn => /\ Len(a) = 1 /\ a[1].does = "function" /\ a[1].at = o
                      /\ b[1].does = "function" /\ b[1].at = o2
       /\ o \in Mod \cup Cls => /\ Len(a) = 1 /\ a[1].does \in {"module", "class"} /\ a[1].at = o
                                /\ b[1].does \in {"module", "class"} /\ b[1].at = o2
  BY <1>6, <1>7, GlobalsAdd
<1>11. GlobalFeeds(c, k, o, t.label, t.names) BY <1>1, <1>3, <1>5, GlobalsFeed, Zenon
<1>12. GlobalFeeds(d, l, o2, t.label, u.names)
  <2>1. GlobalFeeds(d, l, d.at[l].todo[1].at, d.at[l].todo[1].label, d.at[l].todo[1].names)
    BY <1>1, <1>3, <1>5, GlobalsFeed, Zenon
  <2> QED BY <1>1, <1>5, <2>1, Zenon
<1>13. c.at[k + 1].todo = a \o Tail(c.at[k].todo) /\ d.at[l + 1].todo = b \o Tail(d.at[l].todo)
  BY <1>11, <1>12 DEF GlobalFeeds
<1>14. /\ c.at[k + 1].seen = c.at[k].seen /\ c.at[k + 1].met = c.at[k].met
       /\ d.at[l + 1].seen = d.at[l].seen /\ d.at[l + 1].met = d.at[l].met
  BY <1>11, <1>12 DEF GlobalFeeds
<1>15. Fed(c, k + 1) = Fed(d, l + 1) /\ Noted(c, k + 1) = Noted(d, l + 1)
  BY <1>3, <1>6, <1>11, <1>12 DEF GlobalFeeds, SameGlobal
<1>16. o \in Outside => p.version = q.version
  <2>1. SUFFICES ASSUME o \in Outside PROVE p.version = q.version OBVIOUS
  <2>2. o2 = o BY <1>6, <2>1, KindsApart DEF SameGlobal
  <2>3. Text(c)[Fed(c, k) + 1] = <<"global", t.label, <<"outside", p.version>>>>
    BY <1>1, <1>11, <2>1, Zenon DEF GlobalFeeds
  <2>4. Text(d)[Fed(d, l) + 1] = <<"global", t.label, <<"outside", q.version>>>>
    BY <1>1, <1>12, <2>1, <2>2, Zenon DEF GlobalFeeds
  <2>5. <<"global", t.label, <<"outside", p.version>>>> = <<"global", t.label, <<"outside", q.version>>>>
    BY <1>3, <2>3, <2>4
  <2> QED BY <2>5
<1> HIDE DEF a, b
<1>17. PICK x, y : /\ Grows(c, d, k, l, x, y)
                   /\ \A n \in 1..Len(a) : <<a[n], b[n]>> \in Twos(x, y)
  <2>1. AddsBoth(c, d, k, l, a, b) BY <1>9, <1>10, <1>13, Zenon DEF AddsBoth
  <2> QED BY <2>1, Adding, Zenon
<1>18. Pend(p, q, Twos(x, y), F, o, o2)
  <2>1. CASE o \in Fn /\ o2 \in Fn
    <3>5. Len(a) = 1 BY <1>10, <2>1, Zenon
    <3>4. 1 \in 1..Len(a) BY <3>5
    <3>1. <<a[1], b[1]>> \in Twos(x, y) /\ <<a[1], b[1]>>[1] = a[1] /\ <<a[1], b[1]>>[2] = b[1]
      BY <1>17, <3>4
    <3>2. Held(Twos(x, y), {"function"}, o, o2) BY <1>10, <2>1, <3>1 DEF Held
    <3> QED BY <3>2 DEF Pend, Sorts
  <2>2. CASE o \in Mod \cup Cls /\ o2 \in Mod \cup Cls
    <3>1. <<a[1], b[1]>> \in Twos(x, y) /\ <<a[1], b[1]>>[1] = a[1] /\ <<a[1], b[1]>>[2] = b[1]
      BY <1>10, <1>17, <2>2
    <3>2. Held(Twos(x, y), {"module", "class"}, o, o2) BY <1>10, <2>2, <3>1 DEF Held
    <3> QED BY <3>2 DEF Pend, Sorts
  <2>3. CASE o \in Mutable /\ o2 \in Mutable /\ TypeOf[o] = TypeOf[o2] BY <2>3 DEF Pend, Akin
  <2>4. CASE o2 = o /\ o \in Const \cup Outside \cup {Nothing}
    <3>1. o \notin Fn BY <2>4, KindsApart
    <3> QED BY <1>16, <2>4, <3>1 DEF Pend, Akin
  <2> QED BY <1>6, <2>1, <2>2, <2>3, <2>4 DEF SameGlobal
<1>19. DoesBoth(p, q, c.at[k].seen, Twos(x, y), F, t, u) BY <1>1, <1>5, <1>18 DEF DoesBoth
<1>20. Evenly(c, d, k + 1, l + 1) BY <1>3, <1>14, <1>15 DEF Evenly
<1>21. DoesBoth(c.of, d.of, c.at[k].seen, Twos(x, y), F, c.at[k].todo[1], d.at[l].todo[1])
  BY <1>1, <1>19, Zenon
<1> QED BY <1>14, <1>17, <1>20, <1>21, AdvanceOnly

-----------------------------------------------------------------------------
(* Two functions, and what they captured                                   *)

LEMMA FunctionsFeed ==
  ASSUME NEW c, Course(c), NEW k \in 0..(c.steps - 1), c.at[k].todo[1].does = "function"
  PROVE  FunctionFeeds(c, k, c.at[k].todo[1].at)
<1>1. PICK f, w : f = c.at[k].todo[1].at /\ w = c.at[k] OBVIOUS
<1>2. SUFFICES FunctionFeeds(c, k, f) BY <1>1, Zenon
<1>3. IF CodeOf[f] \in c.at[k].seen
        THEN /\ KnownIn(c.of, c.at[k], f)
             /\ Turned(c, k, <<>>, {}, {}, <<<<"cycle">>>>, Mark(w, <<"met", CodeOf[f]>>))
        ELSE Turned(c, k, FunctionTasks(f), {}, {f}, <<>>, <<>>)
  BY <1>1, FunctionTurns, Zenon DEF FunctionTasks
<1>4. CASE CodeOf[f] \in c.at[k].seen
  <2>1. /\ KnownIn(c.of, c.at[k], f)
        /\ Turned(c, k, <<>>, {}, {}, <<<<"cycle">>>>, Mark(w, <<"met", CodeOf[f]>>))
    BY <1>3, <1>4
  <2>2. Leaves(c, k, <<>>) BY <2>1, TurnedLeaves, Zenon
  <2>3. c.at[k + 1].seen = c.at[k].seen /\ c.at[k + 1].met = c.at[k].met BY <2>1, TurnedSeen, Zenon
  <2>4. Fed(c, k + 1) = Fed(c, k) + 1 BY <2>1, FrameIn, Zenon
  <2>5. Noted(c, k + 1) = Noted(c, k) + 1 BY <2>1, NoteIn, Zenon
  <2> QED BY <1>4, <2>1, <2>2, <2>3, <2>4, <2>5 DEF FunctionFeeds
<1>5. CASE CodeOf[f] \notin c.at[k].seen
  <2>1. Turned(c, k, FunctionTasks(f), {}, {f}, <<>>, <<>>) BY <1>3, <1>5
  <2>2. Leaves(c, k, FunctionTasks(f)) BY <2>1, TurnedLeaves, Zenon
  <2>3. c.at[k + 1].seen = c.at[k].seen BY <2>1, TurnedSeen, Zenon
  <2>4. Meets(c, k, {f}) BY <2>1, TurnedMeets, Zenon
  <2>5. Silent(c, k) BY <2>1, NothingSaid, Zenon
  <2>6. c.at[k + 1].met = c.at[k].met \cup {f} BY <2>4 DEF Meets
  <2> QED BY <1>5, <2>2, <2>3, <2>5, <2>6 DEF FunctionFeeds, Silent
<1> QED BY <1>4, <1>5

LEMMA FunctionsAlike ==
  ASSUME NEW c, NEW d, NEW k, NEW l, Heads(c, d, k, l), c.at[k].todo[1].does = "function"
  PROVE  SameCode(c, d, k, l)
<1>1. PICK t, u, f, g, S : /\ t = c.at[k].todo[1] /\ u = d.at[l].todo[1] /\ f = t.at /\ g = u.at
                           /\ S = c.at[k].seen
  OBVIOUS
<1>2. /\ Finished(c) /\ Finished(d) /\ k \in 0..(c.steps - 1) /\ l \in 0..(d.steps - 1)
      /\ Said(c, k) = Said(d, l) /\ d.at[l].seen = c.at[k].seen
  BY DEF Heads
<1>3. Like(t, u) /\ t \in Tasks /\ u \in Tasks BY <1>1 DEF Heads
<1>4. t.does = "function" /\ u.does = "function" BY <1>1, <1>3 DEF Like
<1>5. f \in Fn /\ g \in Fn BY <1>1, <1>3, <1>4, TaskHas
<1>6. IF CodeOf[f] \in S THEN Said(c, k) = <<"met", CodeOf[f]>>
      ELSE Said(c, k)[1] \in ValueTag \cup {"signature"}
  BY <1>1, <1>2, <1>4, FunctionTag
<1>7. IF CodeOf[g] \in S THEN Said(d, l) = <<"met", CodeOf[g]>>
      ELSE Said(d, l)[1] \in ValueTag \cup {"signature"}
  BY <1>1, <1>2, <1>4, FunctionTag
<1>8. /\ CodeOf[f] \in S => CodeOf[g] = CodeOf[f]
      /\ CodeOf[g] \in S => CodeOf[g] = CodeOf[f]
  <2>1. /\ CodeOf[f] \in S => Said(c, k)[1] = "met" /\ Said(c, k)[2] = CodeOf[f]
        /\ CodeOf[f] \notin S => Said(c, k)[1] # "met"
    BY <1>6 DEF ValueTag
  <2>2. /\ CodeOf[g] \in S => Said(d, l)[1] = "met" /\ Said(d, l)[2] = CodeOf[g]
        /\ CodeOf[g] \notin S => Said(d, l)[1] # "met"
    BY <1>7 DEF ValueTag
  <2> QED BY <1>2, <2>1, <2>2
<1> QED BY <1>1, <1>4, <1>5, <1>8 DEF SameCode

LEMMA FunctionTask ==
  ASSUME NEW f \in Fn, NEW i \in Nat \ {0}
  PROVE  LET t == Task("captures", f, <<i>>, <<>>)
         IN  t \in Tasks /\ ~Deep(t) /\ t.does = "captures" /\ t.at = f /\ t.label = <<i>>
<1>1. <<>> \in Label /\ <<>> \in Seq(Name) BY Labels
<1>2. Task("captures", f, <<i>>, <<>>) \in Tasks BY <1>1, TaskTypes
<1> QED BY <1>2, TaskIs DEF Deep

\* One task on both sides.
LEMMA OneList ==
  ASSUME NEW x \in Tasks, ~Deep(x)
  PROVE  /\ <<x>> \in Seq(Tasks) /\ Shallows(<<x>>) /\ Len(<<x>>) = 1 /\ <<x>>[1] = x
         /\ 1 \in 1..Len(<<x>>)
BY DEF Shallows

LEMMA NoneList ==
  <<>> \in Seq(Tasks) /\ Shallows(<<>>) /\ Alikes(<<>>, <<>>) /\ Deeps(<<>>)
BY DEF Shallows, Alikes, Deeps

\* Their code was walked: they are passed over, for what G's captured.
LEMMA MetAgainTogether ==
  ASSUME NEW c, NEW d, NEW k, NEW l, NEW F, NEW G, Level(c, d, k, l, F, G),
         c.at[k].todo[1].does = "function", CodeOf[c.at[k].todo[1].at] \in c.at[k].seen
  PROVE  Abreast(c, d, k + 1, l + 1)
<1>1. PICK t, u, p, q, f, g, S : /\ t = c.at[k].todo[1] /\ u = d.at[l].todo[1] /\ p = c.of /\ q = d.of
                                 /\ f = t.at /\ g = u.at /\ S = c.at[k].seen
  OBVIOUS
<1>2. Heads(c, d, k, l) BY LevelHeads
<1>3. /\ k \in 0..(c.steps - 1) /\ l \in 0..(d.steps - 1) /\ Course(c) /\ Course(d)
      /\ Fed(c, k) = Fed(d, l) /\ Noted(c, k) = Noted(d, l) /\ d.at[l].seen = S
  BY <1>1, <1>2 DEF Heads
<1>4. t.does = "function" /\ u.does = "function" /\ f \in Fn /\ g \in Fn /\ CodeOf[g] = CodeOf[f]
  <2>1. /\ u.does = "function" /\ f \in Fn /\ g \in Fn
        /\ CodeOf[f] \in S => CodeOf[g] = CodeOf[f]
    <3>1. SameCode(c, d, k, l) BY <1>2, FunctionsAlike
    <3> QED BY <1>1, <3>1 DEF SameCode
  <2>2. CodeOf[f] \in S /\ t.does = "function" BY <1>1
  <2> QED BY <2>1, <2>2
<1>5. CodeOf[f] \in S /\ CodeOf[g] \in S BY <1>1, <1>4
<1>6. FunctionFeeds(c, k, f) BY <1>1, <1>3, FunctionsFeed, Zenon
<1>7. FunctionFeeds(d, l, g) BY <1>1, <1>3, <1>4, FunctionsFeed, Zenon
<1>8. /\ KnownIn(p, c.at[k], f) /\ Leaves(c, k, <<>>) /\ c.at[k + 1].met = c.at[k].met
      /\ Fed(c, k + 1) = Fed(c, k) + 1 /\ Noted(c, k + 1) = Noted(c, k) + 1 /\ c.at[k + 1].seen = S
  BY <1>1, <1>5, <1>6 DEF FunctionFeeds
<1>9. /\ KnownIn(q, d.at[l], g) /\ Leaves(d, l, <<>>) /\ d.at[l + 1].met = d.at[l].met
      /\ Fed(d, l + 1) = Fed(d, l) + 1 /\ Noted(d, l + 1) = Noted(d, l) + 1 /\ d.at[l + 1].seen = S
  BY <1>1, <1>3, <1>5, <1>7 DEF FunctionFeeds
<1>10. PICK x, y : Grows(c, d, k, l, x, y)
  <2>1. AddsBoth(c, d, k, l, <<>>, <<>>) BY <1>8, <1>9, NoneList DEF Leaves, AddsBoth
  <2> QED BY <2>1, Adding, Zenon
<1>11. /\ G \subseteq F /\ F \subseteq Fn \X Fn
       /\ c.at[k].met = {z[1] : z \in G} /\ d.at[l].met = {z[2] : z \in G}
  BY DEF Level, Beside, Kept
<1>12. Skipped(p, q, S, G, f, g)
  <2>1. KnownAmong(p, {z[1] : z \in G}, f) /\ KnownAmong(q, {z[2] : z \in G}, g)
    BY <1>8, <1>9, <1>11 DEF KnownIn, KnownAmong
  <2> QED BY <1>4, <1>5, <2>1 DEF Skipped
<1> DEFINE F2 == F \cup {<<f, g>>}
<1>13. DoesBoth(p, q, S, Twos(x, y), F2, t, u)
  <2>1. Akin(p, q, F2, f, g) BY DEF Akin
  <2>2. Pend(p, q, Twos(x, y), F2, t.at, u.at) BY <1>1, <2>1, Zenon DEF Pend
  <2> QED BY <1>4, <2>2 DEF DoesBoth
<1>14. /\ F \subseteq F2 /\ G \subseteq G /\ G \subseteq F2 /\ F2 \subseteq Fn \X Fn
  BY <1>4, <1>11
<1>15. \A z \in F2 \ (F \cup G) : Skipped(p, q, S, G, z[1], z[2])
  <2>1. <<f, g>>[1] = f /\ <<f, g>>[2] = g OBVIOUS
  <2> QED BY <1>12, <2>1
<1>16. /\ \A z \in G \ G : MetWell(p, q, S, Twos(x, y), F2, z[1], z[2])
       /\ \A o \in S \ c.at[k].seen : SeenWell(p, q, Twos(x, y), F2, o)
  BY <1>1
<1>17. Evenly(c, d, k + 1, l + 1) BY <1>3, <1>8, <1>9 DEF Evenly
<1>18. c.at[k + 1].met = {z[1] : z \in G} /\ d.at[l + 1].met = {z[2] : z \in G} /\ S = c.at[k + 1].seen
       /\ c.at[k].seen \subseteq S
  BY <1>1, <1>8, <1>9, <1>11
<1> HIDE DEF F2
<1>19. /\ DoesBoth(c.of, d.of, S, Twos(x, y), F2, c.at[k].todo[1], d.at[l].todo[1])
       /\ \A z \in G \ G : MetWell(c.of, d.of, S, Twos(x, y), F2, z[1], z[2])
       /\ \A z \in F2 \ (F \cup G) : Skipped(c.of, d.of, S, G, z[1], z[2])
       /\ \A o \in S \ c.at[k].seen : SeenWell(c.of, d.of, Twos(x, y), F2, o)
  BY <1>1, <1>13, <1>15, <1>16, Zenon
<1>20. Ready(c, d, k, l, x, y, F, G, F2, G) BY <1>14, <1>18, <1>19, Zenon DEF Ready
<1> QED BY <1>10, <1>17, <1>20, Advance, Zenon

\* Neither code was: both are met, and what they captured is next.
LEMMA MetTogether ==
  ASSUME NEW c, NEW d, NEW k, NEW l, NEW F, NEW G, Level(c, d, k, l, F, G),
         c.at[k].todo[1].does = "function", CodeOf[c.at[k].todo[1].at] \notin c.at[k].seen
  PROVE  Abreast(c, d, k + 1, l + 1)
<1>1. PICK t, u, p, q, f, g, S : /\ t = c.at[k].todo[1] /\ u = d.at[l].todo[1] /\ p = c.of /\ q = d.of
                                 /\ f = t.at /\ g = u.at /\ S = c.at[k].seen
  OBVIOUS
<1>2. Heads(c, d, k, l) BY LevelHeads
<1>3. /\ k \in 0..(c.steps - 1) /\ l \in 0..(d.steps - 1) /\ Course(c) /\ Course(d)
      /\ Fed(c, k) = Fed(d, l) /\ Noted(c, k) = Noted(d, l) /\ d.at[l].seen = S
  BY <1>1, <1>2 DEF Heads
<1>4. /\ t.does = "function" /\ u.does = "function" /\ f \in Fn /\ g \in Fn
      /\ CodeOf[g] \in S => CodeOf[g] = CodeOf[f]
  <2>1. SameCode(c, d, k, l) BY <1>2, FunctionsAlike
  <2> QED BY <1>1, <2>1 DEF SameCode
<1>5. CodeOf[f] \notin S /\ CodeOf[g] \notin S BY <1>1, <1>4
<1>6. FunctionFeeds(c, k, f) BY <1>1, <1>3, FunctionsFeed, Zenon
<1>7. FunctionFeeds(d, l, g) BY <1>1, <1>3, <1>4, FunctionsFeed, Zenon
<1>8. /\ Leaves(c, k, FunctionTasks(f)) /\ c.at[k + 1].met = c.at[k].met \cup {f}
      /\ Fed(c, k + 1) = Fed(c, k) /\ Noted(c, k + 1) = Noted(c, k) /\ c.at[k + 1].seen = S
  BY <1>1, <1>5, <1>6 DEF FunctionFeeds
<1>9. /\ Leaves(d, l, FunctionTasks(g)) /\ d.at[l + 1].met = d.at[l].met \cup {g}
      /\ Fed(d, l + 1) = Fed(d, l) /\ Noted(d, l + 1) = Noted(d, l) /\ d.at[l + 1].seen = S
  BY <1>1, <1>3, <1>5, <1>7 DEF FunctionFeeds
<1>10. PICK a, b : a = Task("captures", f, <<1>>, <<>>) /\ b = Task("captures", g, <<1>>, <<>>)
  OBVIOUS
<1>11. /\ a \in Tasks /\ ~Deep(a) /\ a.does = "captures" /\ a.at = f /\ a.label = <<1>>
       /\ b \in Tasks /\ ~Deep(b) /\ b.does = "captures" /\ b.at = g /\ b.label = <<1>>
  BY <1>4, <1>10, FunctionTask
<1>12. FunctionTasks(f) = <<a>> /\ FunctionTasks(g) = <<b>> BY <1>10 DEF FunctionTasks
<1>13. Alikes(<<a>>, <<b>>) BY <1>11, OneAlike DEF Like
<1>14. PICK x, y : /\ Grows(c, d, k, l, x, y)
                   /\ \A n \in 1..Len(<<a>>) : <<(<<a>>)[n], (<<b>>)[n]>> \in Twos(x, y)
  <2>1. c.at[k + 1].todo = <<a>> \o Tail(c.at[k].todo) /\ d.at[l + 1].todo = <<b>> \o Tail(d.at[l].todo)
    BY <1>8, <1>9, <1>12 DEF Leaves
  <2>2. <<a>> \in Seq(Tasks) /\ Shallows(<<a>>) /\ <<b>> \in Seq(Tasks) /\ Shallows(<<b>>)
    BY <1>11, OneList
  <2>3. AddsBoth(c, d, k, l, <<a>>, <<b>>) BY <1>13, <2>1, <2>2, Zenon DEF AddsBoth
  <2> QED BY <2>3, Adding, Zenon
<1>15. <<a, b>> \in Twos(x, y) BY <1>11, <1>14, OneList
<1>16. /\ G \subseteq F /\ F \subseteq Fn \X Fn
       /\ c.at[k].met = {z[1] : z \in G} /\ d.at[l].met = {z[2] : z \in G}
  BY DEF Level, Beside, Kept
<1> DEFINE F2 == F \cup {<<f, g>>}
           G2 == G \cup {<<f, g>>}
<1>17. MetWell(p, q, S, Twos(x, y), F2, f, g)
  <2>1. <<a, b>>[1] = a /\ <<a, b>>[2] = b /\ 1 \in Nat \ {0} OBVIOUS
  <2>2. \A n \in 1..(1 - 1) : Alike(p, q, Twos(x, y), F2, f, g, n) OBVIOUS
  <2>3. Capturing(p, q, Twos(x, y), F2, f, g) BY <1>11, <1>15, <2>1, <2>2 DEF Capturing
  <2> QED BY <2>3 DEF MetWell
<1>18. DoesBoth(p, q, S, Twos(x, y), F2, t, u)
  <2>1. Akin(p, q, F2, f, g) BY DEF Akin
  <2>2. Pend(p, q, Twos(x, y), F2, t.at, u.at) BY <1>1, <2>1, Zenon DEF Pend
  <2> QED BY <1>4, <2>2 DEF DoesBoth
<1>19. /\ F \subseteq F2 /\ G \subseteq G2 /\ G2 \subseteq F2 /\ F2 \subseteq Fn \X Fn
  BY <1>4, <1>16
<1>20. <<f, g>>[1] = f /\ <<f, g>>[2] = g OBVIOUS
<1>21. \A z \in G2 \ G : MetWell(p, q, S, Twos(x, y), F2, z[1], z[2])
  <2>1. SUFFICES ASSUME NEW z \in G2 \ G PROVE MetWell(p, q, S, Twos(x, y), F2, z[1], z[2]) OBVIOUS
  <2>2. z = <<f, g>> OBVIOUS
  <2>3. z[1] = f /\ z[2] = g BY <1>20, <2>2
  <2> QED BY <1>17, <2>3
<1>22. \A z \in F2 \ (F \cup G2) : Skipped(p, q, S, G2, z[1], z[2]) OBVIOUS
<1>23. \A o \in S \ c.at[k].seen : SeenWell(p, q, Twos(x, y), F2, o) BY <1>1
<1>24. Evenly(c, d, k + 1, l + 1) BY <1>3, <1>8, <1>9 DEF Evenly
<1>25. c.at[k + 1].met = {z[1] : z \in G2} /\ d.at[l + 1].met = {z[2] : z \in G2}
  <2>1. {z[1] : z \in G2} = {z[1] : z \in G} \cup {f} /\ {z[2] : z \in G2} = {z[2] : z \in G} \cup {g}
    BY <1>20
  <2> QED BY <1>8, <1>9, <1>16, <2>1
<1>26. S = c.at[k + 1].seen /\ c.at[k].seen \subseteq S BY <1>1, <1>8
<1> HIDE DEF F2, G2
<1>27. /\ DoesBoth(c.of, d.of, S, Twos(x, y), F2, c.at[k].todo[1], d.at[l].todo[1])
       /\ \A z \in G2 \ G : MetWell(c.of, d.of, S, Twos(x, y), F2, z[1], z[2])
       /\ \A z \in F2 \ (F \cup G2) : Skipped(c.of, d.of, S, G2, z[1], z[2])
       /\ \A o \in S \ c.at[k].seen : SeenWell(c.of, d.of, Twos(x, y), F2, o)
  BY <1>1, <1>18, <1>21, <1>22, <1>23, Zenon
<1>28. Ready(c, d, k, l, x, y, F, G, F2, G2) BY <1>19, <1>25, <1>26, <1>27, Zenon DEF Ready
<1> QED BY <1>14, <1>24, <1>28, Advance, Zenon

LEMMA CapturesFeeds ==
  ASSUME NEW c, Course(c), NEW k \in 0..(c.steps - 1), c.at[k].todo[1].does = "captures"
  PROVE  CapturesFeed(c, k, c.at[k].todo[1].at, c.at[k].todo[1].label[1])
<1>1. PICK f, i : f = c.at[k].todo[1].at /\ i = c.at[k].todo[1].label[1] OBVIOUS
<1>2. Turned(c, k, CapturesIn(c.of, f, i), {}, {}, <<>>, <<>>) BY <1>1, CapturesTurns, Zenon
<1>3. Leaves(c, k, CapturesIn(c.of, f, i)) BY <1>2, TurnedLeaves, Zenon
<1>4. c.at[k + 1].seen = c.at[k].seen /\ c.at[k + 1].met = c.at[k].met BY <1>2, TurnedSeen, Zenon
<1>5. Silent(c, k) BY <1>2, NothingSaid, Zenon
<1>6. CapturesFeed(c, k, f, i) BY <1>3, <1>4, <1>5 DEF CapturesFeed, Silent
<1> QED BY <1>1, <1>6, Zenon

LEMMA AsManyCaptured ==
  ASSUME NEW c, NEW d, NEW k, NEW l, Heads(c, d, k, l), c.at[k].todo[1].does = "captures",
         NEW i \in Nat \ {0}, c.at[k].todo[1].label = <<i>>, d.at[l].todo[1].label = <<i>>,
         d.at[l].todo[1].does = "captures"
  PROVE  AsMany(c, d, k, l, i)
<1>1. PICK f, g, s, r : f = c.at[k].todo[1].at /\ g = d.at[l].todo[1].at /\ s = Said(c, k) /\ r = Said(d, l)
  OBVIOUS
<1>2. /\ Finished(c) /\ Finished(d) /\ k \in 0..(c.steps - 1) /\ l \in 0..(d.steps - 1)
      /\ s = r
  BY <1>1 DEF Heads
<1>3. IF i \in DOMAIN c.of.captures[f] THEN s[1] \in ValueTag
      ELSE s = IF CodeOf[f] \in c.at[k].seen THEN <<"met", CodeOf[f]>>
               ELSE <<"signature", c.of.signature[CodeOf[f]]>>
  BY <1>1, <1>2, CapturesTag, Zenon
<1>4. IF i \in DOMAIN d.of.captures[g] THEN r[1] \in ValueTag
      ELSE r = IF CodeOf[g] \in d.at[l].seen THEN <<"met", CodeOf[g]>>
               ELSE <<"signature", d.of.signature[CodeOf[g]]>>
  BY <1>1, <1>2, CapturesTag, Zenon
<1>5. i \in DOMAIN c.of.captures[f] <=> s[1] \in ValueTag
  <2>1. <<"met", CodeOf[f]>>[1] \notin ValueTag /\ <<"signature", c.of.signature[CodeOf[f]]>>[1] \notin ValueTag
    BY DEF ValueTag
  <2> QED BY <1>3, <2>1
<1>6. i \in DOMAIN d.of.captures[g] <=> r[1] \in ValueTag
  <2>1. <<"met", CodeOf[g]>>[1] \notin ValueTag /\ <<"signature", d.of.signature[CodeOf[g]]>>[1] \notin ValueTag
    BY DEF ValueTag
  <2> QED BY <1>4, <2>1
<1> QED BY <1>1, <1>2, <1>5, <1>6 DEF AsMany

\* What they add: the next value and what is behind it, or the code.
LEMMA CapturesPair ==
  ASSUME NEW p \in Program, NEW q \in Program, NEW f \in Fn, NEW g \in Fn, NEW i \in Nat \ {0},
         i \in DOMAIN p.captures[f] <=> i \in DOMAIN q.captures[g]
  PROVE  LET a == CapturesIn(p, f, i)
             b == CapturesIn(q, g, i)
         IN  /\ Alikes(a, b)
             /\ i \in DOMAIN p.captures[f] =>
                  /\ Len(a) = 2
                  /\ a[1].does = "global" /\ a[1].at = p.captures[f][i]
                  /\ b[1].does = "global" /\ b[1].at = q.captures[g][i]
                  /\ a[2].does = "captures" /\ a[2].at = f /\ a[2].label = <<i + 1>>
                  /\ b[2].does = "captures" /\ b[2].at = g /\ b[2].label = <<i + 1>>
             /\ i \notin DOMAIN p.captures[f] =>
                  /\ Len(a) = 1
                  /\ a[1].does = "code" /\ a[1].at = CodeOf[f] /\ b[1].does = "code" /\ b[1].at = CodeOf[g]
<1> DEFINE a == CapturesIn(p, f, i)
           b == CapturesIn(q, g, i)
<1>1. CASE i \in DOMAIN p.captures[f]
  <2>1. Len(a) = 2 /\ a[1] = Task("global", p.captures[f][i], <<i>>, p.names[CodeOf[f]])
        /\ a[2] = Task("captures", f, <<i + 1>>, <<>>)
    BY <1>1, CapturesInIs
  <2>2. Len(b) = 2 /\ b[1] = Task("global", q.captures[g][i], <<i>>, q.names[CodeOf[g]])
        /\ b[2] = Task("captures", g, <<i + 1>>, <<>>)
    BY <1>1, CapturesInIs
  <2> HIDE DEF a, b
  <2>3. /\ a[1].does = "global" /\ a[1].at = p.captures[f][i] /\ a[1].label = <<i>>
        /\ a[2].does = "captures" /\ a[2].at = f /\ a[2].label = <<i + 1>>
    BY <2>1, TaskIs
  <2>4. /\ b[1].does = "global" /\ b[1].at = q.captures[g][i] /\ b[1].label = <<i>>
        /\ b[2].does = "captures" /\ b[2].at = g /\ b[2].label = <<i + 1>>
    BY <2>2, TaskIs
  <2>5. Like(a[1], b[1]) /\ Like(a[2], b[2]) BY <2>3, <2>4 DEF Like
  <2>6. \A n \in 1..Len(a) : n = 1 \/ n = 2 BY <2>1
  <2>7. Alikes(a, b) BY <2>1, <2>2, <2>5, <2>6 DEF Alikes
  <2> QED BY <1>1, <2>1, <2>3, <2>4, <2>7 DEF a, b
<1>2. CASE i \notin DOMAIN p.captures[f]
  <2>1. Len(a) = 1 /\ a[1] = Task("code", CodeOf[f], <<>>, <<>>) BY <1>2, CapturesInIs
  <2>2. Len(b) = 1 /\ b[1] = Task("code", CodeOf[g], <<>>, <<>>) BY <1>2, CapturesInIs
  <2> HIDE DEF a, b
  <2>3. a[1].does = "code" /\ a[1].at = CodeOf[f] /\ a[1].label = <<>> BY <2>1, TaskIs
  <2>4. b[1].does = "code" /\ b[1].at = CodeOf[g] /\ b[1].label = <<>> BY <2>2, TaskIs
  <2>5. Like(a[1], b[1]) BY <2>3, <2>4 DEF Like
  <2>6. \A n \in 1..Len(a) : n = 1 BY <2>1
  <2>7. Alikes(a, b) BY <2>1, <2>2, <2>5, <2>6 DEF Alikes
  <2> QED BY <1>2, <2>1, <2>3, <2>4, <2>7 DEF a, b
<1> QED BY <1>1, <1>2

LEMMA CapturesTogether ==
  ASSUME NEW c, NEW d, NEW k, NEW l, NEW F, NEW G, Level(c, d, k, l, F, G),
         c.at[k].todo[1].does = "captures"
  PROVE  Abreast(c, d, k + 1, l + 1)
<1>1. PICK t, u, p, q, f, g, S : /\ t = c.at[k].todo[1] /\ u = d.at[l].todo[1] /\ p = c.of /\ q = d.of
                                 /\ f = t.at /\ g = u.at /\ S = c.at[k].seen
  OBVIOUS
<1>2. Heads(c, d, k, l) BY LevelHeads
<1>3. /\ k \in 0..(c.steps - 1) /\ l \in 0..(d.steps - 1) /\ Course(c) /\ Course(d)
      /\ p \in Program /\ q \in Program /\ t \in Tasks /\ u \in Tasks
      /\ Fed(c, k) = Fed(d, l) /\ Noted(c, k) = Noted(d, l) /\ d.at[l].seen = S
  BY <1>1, <1>2 DEF Heads
<1>4. Like(t, u) BY <1>1, <1>2 DEF Heads
<1>5. t.does = "captures" /\ u.does = "captures" /\ t.label = u.label BY <1>1, <1>4 DEF Like
<1>6. f \in Fn /\ g \in Fn /\ \E i \in Nat \ {0} : t.label = <<i>> BY <1>1, <1>3, <1>5, TaskHas
<1>7. PICK i \in Nat \ {0} : t.label = <<i>> BY <1>6
<1>8. u.label = <<i>> /\ t.label[1] = i /\ u.label[1] = i BY <1>5, <1>7
<1>9. i \in DOMAIN p.captures[f] <=> i \in DOMAIN q.captures[g]
  <2>1. i \in DOMAIN c.of.captures[c.at[k].todo[1].at] <=> i \in DOMAIN d.of.captures[d.at[l].todo[1].at]
    <3>1. /\ c.at[k].todo[1].does = "captures" /\ d.at[l].todo[1].does = "captures"
          /\ c.at[k].todo[1].label = <<i>> /\ d.at[l].todo[1].label = <<i>>
      BY <1>1, <1>5, <1>7, <1>8
    <3>2. AsMany(c, d, k, l, i) BY <1>2, <3>1, AsManyCaptured
    <3> QED BY <3>2 DEF AsMany
  <2> QED BY <1>1, <2>1, Zenon
<1>10. CapturesFeed(c, k, f, i)
  <2>1. CapturesFeed(c, k, c.at[k].todo[1].at, c.at[k].todo[1].label[1])
    BY <1>1, <1>3, <1>5, CapturesFeeds, Zenon
  <2> QED BY <1>1, <1>8, <2>1, Zenon
<1>11. CapturesFeed(d, l, g, i)
  <2>1. CapturesFeed(d, l, d.at[l].todo[1].at, d.at[l].todo[1].label[1])
    BY <1>1, <1>3, <1>5, CapturesFeeds, Zenon
  <2> QED BY <1>1, <1>8, <2>1, Zenon
<1> DEFINE a == CapturesIn(p, f, i)
           b == CapturesIn(q, g, i)
<1>12. a \in Seq(Tasks) /\ Shallows(a) /\ b \in Seq(Tasks) /\ Shallows(b)
  <2>1. AddsFine(p, t, CapturesIn(p, t.at, t.label[1])) /\ AddsFine(q, u, CapturesIn(q, u.at, u.label[1]))
    BY <1>3, <1>5, CapturesAdds
  <2>2. AddsFine(p, t, a) /\ AddsFine(q, u, b) BY <1>1, <1>8, <2>1, Zenon
  <2> QED BY <1>5, <2>2 DEF AddsFine, Shallows
<1>13. /\ Alikes(a, b)
       /\ i \in DOMAIN p.captures[f] =>
            /\ Len(a) = 2
            /\ a[1].does = "global" /\ a[1].at = p.captures[f][i]
            /\ b[1].does = "global" /\ b[1].at = q.captures[g][i]
            /\ a[2].does = "captures" /\ a[2].at = f /\ a[2].label = <<i + 1>>
            /\ b[2].does = "captures" /\ b[2].at = g /\ b[2].label = <<i + 1>>
       /\ i \notin DOMAIN p.captures[f] =>
            /\ Len(a) = 1
            /\ a[1].does = "code" /\ a[1].at = CodeOf[f] /\ b[1].does = "code" /\ b[1].at = CodeOf[g]
  BY <1>3, <1>6, <1>9, CapturesPair
<1>14. Leaves(c, k, a) /\ Leaves(d, l, b) BY <1>1, <1>10, <1>11, Zenon DEF CapturesFeed
<1> HIDE DEF a, b
<1>15. PICK x, y : /\ Grows(c, d, k, l, x, y)
                   /\ \A n \in 1..Len(a) : <<a[n], b[n]>> \in Twos(x, y)
  <2>1. AddsBoth(c, d, k, l, a, b) BY <1>12, <1>13, <1>14, Zenon DEF AddsBoth, Leaves
  <2> QED BY <2>1, Adding, Zenon
<1> DEFINE W == Twos(x, y)
<1>16. \A e, h : <<e, h>>[1] = e /\ <<e, h>>[2] = h OBVIOUS
<1>17. ASSUME \A n \in 1..(i - 1) : Alike(p, q, W, F, f, g, n) PROVE MetWell(p, q, S, W, F, f, g)
  <2>1. CASE i \in DOMAIN p.captures[f]
    <3>1. Len(a) = 2 BY <1>13, <2>1, Zenon
    <3>2. 1 \in 1..Len(a) /\ 2 \in 1..Len(a) BY <3>1
    <3>3. <<a[1], b[1]>> \in W /\ <<a[2], b[2]>> \in W BY <1>15, <3>2, Zenon
    <3>4. Held(W, {"global"}, p.captures[f][i], q.captures[g][i])
      BY <1>13, <1>16, <2>1, <3>3 DEF Held
    <3>5. Pend(p, q, W, F, p.captures[f][i], q.captures[g][i]) BY <3>4 DEF Pend, Sorts
    <3>6. Alike(p, q, W, F, f, g, i) BY <1>9, <2>1, <3>5 DEF Alike
    <3>7. \A n \in 1..(i + 1 - 1) : n \in 1..(i - 1) \/ n = i OBVIOUS
    <3>8. \A n \in 1..(i + 1 - 1) : Alike(p, q, W, F, f, g, n) BY <1>17, <3>6, <3>7
    <3>9. i + 1 \in Nat \ {0} OBVIOUS
    <3>10. Capturing(p, q, W, F, f, g)
      <4>1. PICK r : r = <<a[2], b[2]>> OBVIOUS
      <4>2. r \in W /\ r[1] = a[2] /\ r[2] = b[2] BY <1>16, <3>3, <4>1
      <4>3. /\ r[1].does = "captures" /\ r[2].does = "captures" /\ r[1].at = f /\ r[2].at = g
            /\ r[1].label = <<i + 1>> /\ r[2].label = <<i + 1>>
        BY <1>13, <2>1, <4>2, Zenon
      <4>4. PICK j \in Nat \ {0} : j = i + 1 BY <3>9
      <4>5. /\ r[1].label = <<j>> /\ r[2].label = <<j>>
            /\ \A n \in 1..(j - 1) : Alike(p, q, W, F, f, g, n)
        <5>1. \A n \in 1..(j - 1) : n \in 1..(i + 1 - 1) BY <4>4
        <5> QED BY <3>8, <4>3, <4>4, <5>1
      <4> QED BY <4>2, <4>3, <4>5, Zenon DEF Capturing
    <3> QED BY <3>10 DEF MetWell
  <2>2. CASE i \notin DOMAIN p.captures[f]
    <3>1. Len(a) = 1 BY <1>13, <2>2, Zenon
    <3>2. 1 \in 1..Len(a) BY <3>1
    <3>3. <<a[1], b[1]>> \in W BY <1>15, <3>2, Zenon
    <3>4. Held(W, {"code"}, CodeOf[f], CodeOf[g]) BY <1>13, <1>16, <2>2, <3>3 DEF Held
    <3>5. p.captures[f] \in Seq(Object) /\ q.captures[g] \in Seq(Object) BY <1>3, <1>6 DEF Program
    <3>6. \A n \in 1..(i - 1) : n \in DOMAIN p.captures[f] /\ n \in DOMAIN q.captures[g]
      BY <1>17 DEF Alike
    <3>7. DOMAIN p.captures[f] = 1..(i - 1) /\ DOMAIN q.captures[g] = 1..(i - 1)
      <4>1. \A s \in Seq(Object) : i \notin DOMAIN s /\ (\A n \in 1..(i - 1) : n \in DOMAIN s) => DOMAIN s = 1..(i - 1)
        <5>1. SUFFICES ASSUME NEW s \in Seq(Object), i \notin DOMAIN s, \A n \in 1..(i - 1) : n \in DOMAIN s
                       PROVE  DOMAIN s = 1..(i - 1)
          OBVIOUS
        <5>2. DOMAIN s = 1..Len(s) /\ Len(s) \in Nat OBVIOUS
        <5>3. Len(s) < i BY <5>1, <5>2
        <5>4. i = 1 \/ i - 1 \in 1..(i - 1) OBVIOUS
        <5>5. i = 1 \/ i - 1 <= Len(s) BY <5>1, <5>2, <5>4
        <5>6. Len(s) = i - 1 BY <5>2, <5>3, <5>5
        <5> QED BY <5>2, <5>6
      <4> QED BY <1>9, <2>2, <3>5, <3>6, <4>1
    <3>8. \A n \in DOMAIN p.captures[f] : Alike(p, q, W, F, f, g, n) BY <1>17, <3>7
    <3> QED BY <3>4, <3>7, <3>8, Zenon DEF HaveCaptured, MetWell
  <2> QED BY <2>1, <2>2
<1>18. DoesBoth(p, q, S, W, F, t, u)
  <2>1. \A D \in Sorts : t.does \notin D BY <1>5 DEF Sorts
  <2>2. ASSUME NEW j \in Nat \ {0}, t.label = <<j>>, \A n \in 1..(j - 1) : Alike(p, q, W, F, t.at, u.at, n)
        PROVE  MetWell(p, q, S, W, F, t.at, u.at)
    <3>1. <<j>> = <<i>> BY <1>7, <2>2
    <3>2. j = i BY <3>1
    <3>3. \A n \in 1..(i - 1) : Alike(p, q, W, F, f, g, n) BY <1>1, <2>2, <3>2, Zenon
    <3>4. MetWell(p, q, S, W, F, f, g) BY <1>17, <3>3
    <3> QED BY <1>1, <3>4, Zenon
  <2>3. t.does # "code" BY <1>5
  <2> HIDE DEF W
  <2> QED BY <2>1, <2>2, <2>3 DEF DoesBoth
<1>19. DoesBoth(c.of, d.of, c.at[k].seen, Twos(x, y), F, c.at[k].todo[1], d.at[l].todo[1])
  BY <1>1, <1>18, Zenon
<1>20. Evenly(c, d, k + 1, l + 1) BY <1>1, <1>3, <1>10, <1>11 DEF Evenly, CapturesFeed
<1>21. /\ c.at[k + 1].seen = c.at[k].seen
       /\ c.at[k + 1].met = c.at[k].met /\ d.at[l + 1].met = d.at[l].met
  BY <1>10, <1>11 DEF CapturesFeed
<1> QED BY <1>15, <1>19, <1>20, <1>21, AdvanceOnly, Zenon

-----------------------------------------------------------------------------
(* Two code objects                                                        *)

LEMMA FramesIn ==
  ASSUME NEW c, NEW k, NEW s, NEW things, NEW fns, NEW frames, NEW notes,
         Turned(c, k, s, things, fns, frames, notes)
  PROVE  FedThen(c, k, frames)
BY DEF Turned, FedThen

LEMMA CodesFeed ==
  ASSUME NEW c, Course(c), NEW k \in 0..(c.steps - 1), c.at[k].todo[1].does = "code"
  PROVE  CodeFeed(c, k, c.at[k].todo[1].at)
<1>1. PICK x, w, n : x = c.at[k].todo[1].at /\ w = c.at[k] /\ n = <<"signature", c.of.signature[x]>>
  OBVIOUS
<1>2. SUFFICES CodeFeed(c, k, x) BY <1>1, Zenon
<1>3. IF x \in c.at[k].seen
        THEN Turned(c, k, <<>>, {}, {}, <<<<"cycle">>>>, Mark(w, <<"met", x>>))
        ELSE Turned(c, k, CodeIn(c.of, x), {x}, {}, CodeFramesIn(c.of, x), Mark(w, n))
  BY <1>1, CodeTurns, Zenon
<1>4. CASE x \in c.at[k].seen
  <2>1. Turned(c, k, <<>>, {}, {}, <<<<"cycle">>>>, Mark(w, <<"met", x>>)) BY <1>3, <1>4
  <2>2. Leaves(c, k, <<>>) BY <2>1, TurnedLeaves, Zenon
  <2>3. c.at[k + 1].seen = c.at[k].seen /\ c.at[k + 1].met = c.at[k].met BY <2>1, TurnedSeen, Zenon
  <2>4. Fed(c, k + 1) = Fed(c, k) + 1 BY <2>1, FrameIn, Zenon
  <2>5. Noted(c, k + 1) = Noted(c, k) + 1 BY <2>1, NoteIn, Zenon
  <2> QED BY <1>4, <2>2, <2>3, <2>4, <2>5 DEF CodeFeed
<1>5. CASE x \notin c.at[k].seen
  <2>1. Turned(c, k, CodeIn(c.of, x), {x}, {}, CodeFramesIn(c.of, x), Mark(w, n)) BY <1>3, <1>5
  <2>2. Leaves(c, k, CodeIn(c.of, x)) BY <2>1, TurnedLeaves, Zenon
  <2>3. c.at[k + 1].met = c.at[k].met BY <2>1, TurnedSeen, Zenon
  <2>4. Sees(c, k, {x}) BY <2>1, TurnedSees, Zenon
  <2>5. c.at[k + 1].seen = c.at[k].seen \cup {x} BY <2>4 DEF Sees
  <2>6. Noted(c, k + 1) = Noted(c, k) + 1 BY <2>1, NoteIn, Zenon
  <2>7. PICK fs : fs = CodeFramesIn(c.of, x) OBVIOUS
  <2>8. /\ Len(fs) = 3 /\ fs[1] = <<"C", x, c.of.body[x]>> /\ fs[2] = <<"names", c.of.names[x]>>
        /\ fs[3] = <<"const", c.of.literal[x]>>
    BY <2>7, SeqOfThree, Zenon DEF CodeFramesIn
  <2>9. Turned(c, k, CodeIn(c.of, x), {x}, {}, fs, Mark(w, n)) BY <2>1, <2>7, Zenon
  <2>10. /\ Fed(c, k + 1) = Fed(c, k) + Len(fs)
         /\ \A i \in 1..Len(fs) : Text(c)[Fed(c, k) + i] = fs[i]
    <3>1. FedThen(c, k, fs) BY <2>9, FramesIn, Zenon
    <3> QED BY <3>1 DEF FedThen
  <2>11. 1 \in 1..Len(fs) /\ 2 \in 1..Len(fs) /\ 3 \in 1..Len(fs) BY <2>8
  <2>12. /\ Fed(c, k + 1) = Fed(c, k) + 3
         /\ Text(c)[Fed(c, k) + 1] = <<"C", x, c.of.body[x]>>
         /\ Text(c)[Fed(c, k) + 2] = <<"names", c.of.names[x]>>
         /\ Text(c)[Fed(c, k) + 3] = <<"const", c.of.literal[x]>>
    BY <2>8, <2>10, <2>11
  <2> QED BY <1>5, <2>2, <2>3, <2>5, <2>6, <2>12 DEF CodeFeed
<1> QED BY <1>4, <1>5

LEMMA CodesAlike ==
  ASSUME NEW c, NEW d, NEW k, NEW l, Heads(c, d, k, l), c.at[k].todo[1].does = "code"
  PROVE  SameCodes(c, d, k, l)
<1>1. PICK t, u, x, y, S : /\ t = c.at[k].todo[1] /\ u = d.at[l].todo[1] /\ x = t.at /\ y = u.at
                           /\ S = c.at[k].seen
  OBVIOUS
<1>2. /\ Course(c) /\ Course(d) /\ k \in 0..(c.steps - 1) /\ l \in 0..(d.steps - 1)
      /\ Said(c, k) = Said(d, l) /\ d.at[l].seen = c.at[k].seen
  BY DEF Heads
<1>3. Like(t, u) /\ t \in Tasks /\ u \in Tasks BY <1>1 DEF Heads
<1>4. t.does = "code" /\ u.does = "code" BY <1>1, <1>3 DEF Like
<1>5. x \in Code /\ y \in Code BY <1>1, <1>3, <1>4, TaskHas
<1>6. Said(c, k) = IF x \in S THEN <<"met", x>> ELSE <<"signature", c.of.signature[x]>>
  BY <1>1, <1>2, <1>4, CodeSays
<1>7. Said(d, l) = IF y \in S THEN <<"met", y>> ELSE <<"signature", d.of.signature[y]>>
  BY <1>1, <1>2, <1>4, CodeSays
<1>8. /\ x \in S => y = x
      /\ x \notin S => y \notin S /\ d.of.signature[y] = c.of.signature[x]
  <2>1. /\ x \in S => Said(c, k)[1] = "met" /\ Said(c, k)[2] = x
        /\ x \notin S => Said(c, k)[1] = "signature" /\ Said(c, k)[2] = c.of.signature[x]
    BY <1>6
  <2>2. /\ y \in S => Said(d, l)[1] = "met" /\ Said(d, l)[2] = y
        /\ y \notin S => Said(d, l)[1] = "signature" /\ Said(d, l)[2] = d.of.signature[y]
    BY <1>7
  <2> QED BY <1>2, <2>1, <2>2
<1> QED BY <1>1, <1>4, <1>5, <1>8 DEF SameCodes

LEMMA CodeMetTogether ==
  ASSUME NEW c, NEW d, NEW k, NEW l, NEW F, NEW G, Level(c, d, k, l, F, G),
         c.at[k].todo[1].does = "code", c.at[k].todo[1].at \in c.at[k].seen
  PROVE  Abreast(c, d, k + 1, l + 1)
<1>1. PICK t, u, x, y, S : /\ t = c.at[k].todo[1] /\ u = d.at[l].todo[1] /\ x = t.at /\ y = u.at
                           /\ S = c.at[k].seen
  OBVIOUS
<1>2. Heads(c, d, k, l) BY LevelHeads
<1>3. /\ k \in 0..(c.steps - 1) /\ l \in 0..(d.steps - 1) /\ Course(c) /\ Course(d)
      /\ Fed(c, k) = Fed(d, l) /\ Noted(c, k) = Noted(d, l) /\ d.at[l].seen = S
  BY <1>1, <1>2 DEF Heads
<1>4. SameCodes(c, d, k, l) BY <1>2, CodesAlike
<1>5. t.does = "code" /\ u.does = "code" /\ x \in S /\ y = x BY <1>1, <1>4 DEF SameCodes
<1>6. CodeFeed(c, k, x) /\ CodeFeed(d, l, y) BY <1>1, <1>3, <1>5, CodesFeed, Zenon
<1>7. /\ Leaves(c, k, <<>>) /\ c.at[k + 1].seen = S /\ Fed(c, k + 1) = Fed(c, k) + 1
      /\ c.at[k + 1].met = c.at[k].met /\ Noted(c, k + 1) = Noted(c, k) + 1
  BY <1>1, <1>5, <1>6 DEF CodeFeed
<1>8. /\ Leaves(d, l, <<>>) /\ d.at[l + 1].seen = S /\ Fed(d, l + 1) = Fed(d, l) + 1
      /\ d.at[l + 1].met = d.at[l].met /\ Noted(d, l + 1) = Noted(d, l) + 1
  BY <1>3, <1>5, <1>6 DEF CodeFeed
<1>9. PICK v, z : Grows(c, d, k, l, v, z)
  <2>1. AddsBoth(c, d, k, l, <<>>, <<>>) BY <1>7, <1>8, NoneList DEF Leaves, AddsBoth
  <2> QED BY <2>1, Adding, Zenon
<1>10. DoesBoth(c.of, d.of, S, Twos(v, z), F, t, u)
  <2>1. \A D \in Sorts : t.does \notin D BY <1>5 DEF Sorts
  <2> QED BY <1>1, <1>5, <2>1 DEF DoesBoth
<1>11. DoesBoth(c.of, d.of, c.at[k].seen, Twos(v, z), F, c.at[k].todo[1], d.at[l].todo[1])
  BY <1>1, <1>10, Zenon
<1>12. Evenly(c, d, k + 1, l + 1) BY <1>3, <1>7, <1>8 DEF Evenly
<1>13. /\ c.at[k + 1].seen = c.at[k].seen
       /\ c.at[k + 1].met = c.at[k].met /\ d.at[l + 1].met = d.at[l].met
  BY <1>1, <1>7, <1>8
<1> QED BY <1>9, <1>11, <1>12, <1>13, AdvanceOnly, Zenon

\* What the code adds: what is nested, and its names.
LEMMA CodePair ==
  ASSUME NEW p \in Program, NEW q \in Program, NEW x \in Code, p.names[x] = q.names[x]
  PROVE  LET a == CodeIn(p, x)
             b == CodeIn(q, x)
             ns == p.names[x]
         IN  /\ a \in Seq(Tasks) /\ b \in Seq(Tasks) /\ Alikes(a, b)
             /\ \A n \in DOMAIN ns : \E i \in 1..Len(a) :
                  /\ a[i].does = "global" /\ a[i].at = p.bound[ns[n]]
                  /\ b[i].does = "global" /\ b[i].at = q.bound[ns[n]]
<1>1. PICK a, b, ns, m : a = CodeIn(p, x) /\ b = CodeIn(q, x) /\ ns = p.names[x] /\ m = Len(Inner[x])
  OBVIOUS
<1>2. /\ a \in Seq(Tasks) /\ ns \in Seq(Name) /\ m \in Nat /\ Len(ns) \in Nat /\ Len(a) = m + Len(ns)
      /\ \A i \in 1..m : a[i] = Task("code", Inner[x][i], <<>>, <<>>)
      /\ \A i \in 1..Len(ns) : a[m + i] = Task("global", p.bound[ns[i]], <<ns[i]>>, ns)
  BY <1>1, CodeInIs
<1>3. /\ b \in Seq(Tasks) /\ Len(b) = m + Len(ns)
      /\ \A i \in 1..m : b[i] = Task("code", Inner[x][i], <<>>, <<>>)
      /\ \A i \in 1..Len(ns) : b[m + i] = Task("global", q.bound[ns[i]], <<ns[i]>>, ns)
  <2>1. PICK qs : qs = q.names[x] OBVIOUS
  <2>2. /\ b \in Seq(Tasks) /\ Len(b) = m + Len(qs)
        /\ \A i \in 1..m : b[i] = Task("code", Inner[x][i], <<>>, <<>>)
        /\ \A i \in 1..Len(qs) : b[m + i] = Task("global", q.bound[qs[i]], <<qs[i]>>, qs)
    BY <1>1, <2>1, CodeInIs
  <2>3. qs = ns BY <1>1, <2>1
  <2> QED BY <2>2, <2>3
<1>4. \A i \in 1..Len(ns) : /\ a[m + i].does = "global" /\ a[m + i].at = p.bound[ns[i]]
                            /\ a[m + i].label = <<ns[i]>>
  <2>1. ASSUME NEW i \in 1..Len(ns)
        PROVE  /\ a[m + i].does = "global" /\ a[m + i].at = p.bound[ns[i]]
               /\ a[m + i].label = <<ns[i]>>
    <3>1. PICK v, z : v = p.bound[ns[i]] /\ z = <<ns[i]>> OBVIOUS
    <3>2. a[m + i] = Task("global", v, z, ns) BY <1>2, <3>1
    <3> QED BY <3>1, <3>2, TaskIs
  <2> QED BY <2>1
<1>5. \A i \in 1..Len(ns) : /\ b[m + i].does = "global" /\ b[m + i].at = q.bound[ns[i]]
                            /\ b[m + i].label = <<ns[i]>>
  <2>1. ASSUME NEW i \in 1..Len(ns)
        PROVE  /\ b[m + i].does = "global" /\ b[m + i].at = q.bound[ns[i]]
               /\ b[m + i].label = <<ns[i]>>
    <3>1. PICK v, z : v = q.bound[ns[i]] /\ z = <<ns[i]>> OBVIOUS
    <3>2. b[m + i] = Task("global", v, z, ns) BY <1>3, <3>1
    <3> QED BY <3>1, <3>2, TaskIs
  <2> QED BY <2>1
<1>6. ASSUME NEW i \in 1..Len(a) PROVE Like(a[i], b[i])
  <2>1. CASE i \in 1..m
    <3>1. a[i] = b[i] BY <1>2, <1>3, <2>1
    <3> QED BY <3>1 DEF Like
  <2>2. CASE i \notin 1..m
    <3> DEFINE j == i - m
    <3>1. j \in 1..Len(ns) /\ m + j = i BY <1>2, <2>2
    <3> HIDE DEF j
    <3>2. /\ a[m + j].does = "global" /\ a[m + j].label = <<ns[j]>>
          /\ b[m + j].does = "global" /\ b[m + j].label = <<ns[j]>>
      BY <1>4, <1>5, <3>1
    <3> QED BY <3>1, <3>2 DEF Like
  <2> QED BY <2>1, <2>2
<1>7. Alikes(a, b) BY <1>2, <1>3, <1>6 DEF Alikes
<1>8. \A n \in DOMAIN ns : \E i \in 1..Len(a) :
        /\ a[i].does = "global" /\ a[i].at = p.bound[ns[n]]
        /\ b[i].does = "global" /\ b[i].at = q.bound[ns[n]]
  <2>1. SUFFICES ASSUME NEW n \in DOMAIN ns PROVE \E i \in 1..Len(a) :
                          /\ a[i].does = "global" /\ a[i].at = p.bound[ns[n]]
                          /\ b[i].does = "global" /\ b[i].at = q.bound[ns[n]]
    OBVIOUS
  <2>2. n \in 1..Len(ns) /\ m + n \in 1..Len(a) BY <1>2
  <2>3. /\ a[m + n].does = "global" /\ a[m + n].at = p.bound[ns[n]]
        /\ b[m + n].does = "global" /\ b[m + n].at = q.bound[ns[n]]
    BY <1>4, <1>5, <2>2
  <2> QED BY <2>2, <2>3
<1> QED BY <1>1, <1>2, <1>3, <1>7, <1>8, Zenon

\* Nothing newly met, and one thing newly seen.
LEMMA AdvanceSeeing ==
  ASSUME NEW c, NEW d, NEW k, NEW l, NEW F, NEW G, Level(c, d, k, l, F, G),
         NEW x, NEW y, Grows(c, d, k, l, x, y), Evenly(c, d, k + 1, l + 1),
         NEW o, c.at[k + 1].seen = c.at[k].seen \cup {o},
         c.at[k + 1].met = c.at[k].met, d.at[l + 1].met = d.at[l].met,
         DoesBoth(c.of, d.of, c.at[k].seen \cup {o}, Twos(x, y), F, c.at[k].todo[1], d.at[l].todo[1]),
         SeenWell(c.of, d.of, Twos(x, y), F, o)
  PROVE  Abreast(c, d, k + 1, l + 1)
<1> DEFINE S == c.at[k].seen
           S2 == c.at[k].seen \cup {o}
           W == Twos(x, y)
<1>1. /\ Kept(c.of, d.of, S, Twos(c.at[k].todo, d.at[l].todo), F, G)
      /\ c.at[k].met = {z[1] : z \in G} /\ d.at[l].met = {z[2] : z \in G}
  BY DEF Level, Beside
<1>2. G \subseteq F /\ F \subseteq Fn \X Fn BY <1>1 DEF Kept
<1>3. /\ \A z \in G \ G : MetWell(c.of, d.of, S2, W, F, z[1], z[2])
      /\ \A z \in F \ (F \cup G) : Skipped(c.of, d.of, S2, G, z[1], z[2])
      /\ F \subseteq F /\ G \subseteq G /\ S \subseteq S2
  OBVIOUS
<1>4. \A e \in S2 \ S : SeenWell(c.of, d.of, W, F, e) OBVIOUS
<1>5. Ready(c, d, k, l, x, y, F, G, F, G)
  <2>1. c.at[k + 1].seen = S2 /\ c.at[k + 1].met = {z[1] : z \in G} /\ d.at[l + 1].met = {z[2] : z \in G}
    BY <1>1
  <2>2. DoesBoth(c.of, d.of, S2, W, F, c.at[k].todo[1], d.at[l].todo[1]) OBVIOUS
  <2> HIDE DEF S2, W
  <2>3. DoesBoth(c.of, d.of, c.at[k + 1].seen, W, F, c.at[k].todo[1], d.at[l].todo[1])
    BY <2>1, <2>2, Zenon
  <2>4. /\ \A z \in G \ G : MetWell(c.of, d.of, c.at[k + 1].seen, W, F, z[1], z[2])
        /\ \A z \in F \ (F \cup G) : Skipped(c.of, d.of, c.at[k + 1].seen, G, z[1], z[2])
        /\ F \subseteq F /\ G \subseteq G /\ S \subseteq c.at[k + 1].seen
        /\ \A e \in c.at[k + 1].seen \ S : SeenWell(c.of, d.of, W, F, e)
    BY <1>3, <1>4, <2>1
  <2> QED BY <1>2, <2>1, <2>3, <2>4, Zenon DEF Ready, W
<1> QED BY <1>5, Advance, Zenon

LEMMA CodeSeen ==
  ASSUME NEW p, NEW q, NEW W, NEW F, NEW x \in Code, Own(p, x) = Own(q, x),
         \A n \in DOMAIN p.names[x] : Pend(p, q, W, F, p.bound[p.names[x][n]], q.bound[p.names[x][n]])
  PROVE  SeenWell(p, q, W, F, x)
<1>1. x \notin Cls BY KindsApart
<1> QED BY <1>1 DEF SeenWell

LEMMA CodesTogether ==
  ASSUME NEW c, NEW d, NEW k, NEW l, NEW F, NEW G, Level(c, d, k, l, F, G),
         c.at[k].todo[1].does = "code", c.at[k].todo[1].at \notin c.at[k].seen
  PROVE  Abreast(c, d, k + 1, l + 1)
<1>1. PICK t, u, p, q, x, y, S : /\ t = c.at[k].todo[1] /\ u = d.at[l].todo[1] /\ p = c.of /\ q = d.of
                                 /\ x = t.at /\ y = u.at /\ S = c.at[k].seen
  OBVIOUS
<1>2. Heads(c, d, k, l) BY LevelHeads
<1>3. /\ k \in 0..(c.steps - 1) /\ l \in 0..(d.steps - 1) /\ Course(c) /\ Course(d)
      /\ p \in Program /\ q \in Program /\ Text(c) = Text(d)
      /\ Fed(c, k) = Fed(d, l) /\ Noted(c, k) = Noted(d, l) /\ d.at[l].seen = S
  BY <1>1, <1>2 DEF Heads
<1>4. SameCodes(c, d, k, l) BY <1>2, CodesAlike
<1>5. /\ t.does = "code" /\ u.does = "code" /\ x \in Code /\ y \in Code /\ x \notin S /\ y \notin S
      /\ q.signature[y] = p.signature[x]
  BY <1>1, <1>4 DEF SameCodes
<1>6. CodeFeed(c, k, x) /\ CodeFeed(d, l, y) BY <1>1, <1>3, <1>5, CodesFeed, Zenon
<1>7. PICK T, h : T = Text(c) /\ h = Fed(c, k) OBVIOUS
<1>8. /\ Leaves(c, k, CodeIn(p, x)) /\ c.at[k + 1].seen = S \cup {x} /\ Fed(c, k + 1) = h + 3
      /\ c.at[k + 1].met = c.at[k].met /\ Noted(c, k + 1) = Noted(c, k) + 1
      /\ T[h + 1] = <<"C", x, p.body[x]>> /\ T[h + 2] = <<"names", p.names[x]>>
      /\ T[h + 3] = <<"const", p.literal[x]>>
  <2>1. x \notin c.at[k].seen BY <1>1, <1>5
  <2>2. /\ Leaves(c, k, CodeIn(c.of, x)) /\ c.at[k + 1].seen = c.at[k].seen \cup {x}
        /\ Fed(c, k + 1) = Fed(c, k) + 3
        /\ c.at[k + 1].met = c.at[k].met /\ Noted(c, k + 1) = Noted(c, k) + 1
        /\ Text(c)[Fed(c, k) + 1] = <<"C", x, c.of.body[x]>> /\ Text(c)[Fed(c, k) + 2] = <<"names", c.of.names[x]>>
        /\ Text(c)[Fed(c, k) + 3] = <<"const", c.of.literal[x]>>
    BY <1>6, <2>1 DEF CodeFeed
  <2>3. c.of = p /\ c.at[k].seen = S /\ Text(c) = T /\ Fed(c, k) = h BY <1>1, <1>7
  <2> QED BY <2>2, <2>3
<1>9. Text(d) = T /\ Fed(d, l) = h BY <1>3, <1>7
<1>10. /\ Leaves(d, l, CodeIn(q, y)) /\ d.at[l + 1].seen = S \cup {y} /\ Fed(d, l + 1) = h + 3
       /\ d.at[l + 1].met = d.at[l].met /\ Noted(d, l + 1) = Noted(d, l) + 1
       /\ T[h + 1] = <<"C", y, q.body[y]>> /\ T[h + 2] = <<"names", q.names[y]>>
       /\ T[h + 3] = <<"const", q.literal[y]>>
  <2>1. /\ Leaves(d, l, CodeIn(d.of, y)) /\ d.at[l + 1].seen = d.at[l].seen \cup {y}
        /\ Fed(d, l + 1) = Fed(d, l) + 3
        /\ d.at[l + 1].met = d.at[l].met /\ Noted(d, l + 1) = Noted(d, l) + 1
        /\ Text(d)[Fed(d, l) + 1] = <<"C", y, d.of.body[y]>> /\ Text(d)[Fed(d, l) + 2] = <<"names", d.of.names[y]>>
        /\ Text(d)[Fed(d, l) + 3] = <<"const", d.of.literal[y]>>
    BY <1>3, <1>5, <1>6 DEF CodeFeed
  <2>2. d.of = q /\ d.at[l].seen = S BY <1>1, <1>3
  <2> QED BY <1>9, <2>1, <2>2
<1>11. y = x /\ q.body[x] = p.body[x] /\ q.names[x] = p.names[x] /\ q.literal[x] = p.literal[x]
       /\ q.signature[x] = p.signature[x]
  <2>1. <<"C", y, q.body[y]>> = <<"C", x, p.body[x]>> /\ <<"names", q.names[y]>> = <<"names", p.names[x]>>
        /\ <<"const", q.literal[y]>> = <<"const", p.literal[x]>>
    BY <1>8, <1>10
  <2>2. y = x /\ q.body[y] = p.body[x] /\ q.names[y] = p.names[x] /\ q.literal[y] = p.literal[x]
    BY <2>1
  <2> QED BY <1>5, <2>2
<1> DEFINE a == CodeIn(p, x)
           b == CodeIn(q, x)
<1>12. /\ a \in Seq(Tasks) /\ b \in Seq(Tasks) /\ Alikes(a, b)
       /\ \A n \in DOMAIN p.names[x] : \E i \in 1..Len(a) :
            /\ a[i].does = "global" /\ a[i].at = p.bound[p.names[x][n]]
            /\ b[i].does = "global" /\ b[i].at = q.bound[p.names[x][n]]
  BY <1>3, <1>5, <1>11, CodePair
<1>13. Shallows(a) /\ Shallows(b)
  <2>1. AddsFine(p, t, a) /\ AddsFine(q, u, b) BY <1>3, <1>5, CodeAdds
  <2> QED BY <1>5, <2>1 DEF AddsFine, Shallows
<1>14. Leaves(c, k, a) /\ Leaves(d, l, b) BY <1>8, <1>10, <1>11
<1> HIDE DEF a, b
<1>15. PICK v, z : /\ Grows(c, d, k, l, v, z)
                   /\ \A n \in 1..Len(a) : <<a[n], b[n]>> \in Twos(v, z)
  <2>1. AddsBoth(c, d, k, l, a, b) BY <1>12, <1>13, <1>14, Zenon DEF AddsBoth, Leaves
  <2> QED BY <2>1, Adding, Zenon
<1>16. SeenWell(p, q, Twos(v, z), F, x)
  <2>1. x \notin Fn /\ x \notin Cls BY <1>5, KindsApart
  <2>2. /\ Own(p, x) = <<x, p.body[x], p.literal[x], p.signature[x], p.names[x]>>
        /\ Own(q, x) = <<x, q.body[x], q.literal[x], q.signature[x], q.names[x]>>
    BY <1>5, <2>1 DEF Own
  <2>3. Own(p, x) = Own(q, x) BY <1>11, <2>2
  <2>4. ASSUME NEW n \in DOMAIN p.names[x]
        PROVE  Pend(p, q, Twos(v, z), F, p.bound[p.names[x][n]], q.bound[p.names[x][n]])
    <3>1. PICK i \in 1..Len(a) :
            /\ a[i].does = "global" /\ a[i].at = p.bound[p.names[x][n]]
            /\ b[i].does = "global" /\ b[i].at = q.bound[p.names[x][n]]
      BY <1>12
    <3>2. PICK r : r = <<a[i], b[i]>> OBVIOUS
    <3>3. r \in Twos(v, z) /\ r[1] = a[i] /\ r[2] = b[i] BY <1>15, <3>2
    <3>4. Held(Twos(v, z), {"global"}, p.bound[p.names[x][n]], q.bound[p.names[x][n]])
      BY <3>1, <3>3 DEF Held
    <3>5. Pend(p, q, Twos(v, z), F, p.bound[p.names[x][n]], q.bound[p.names[x][n]])
      BY <3>4 DEF Pend, Sorts
    <3> QED BY <1>11, <3>5
  <2>5. \A n \in DOMAIN p.names[x] :
          Pend(p, q, Twos(v, z), F, p.bound[p.names[x][n]], q.bound[p.names[x][n]])
    BY <2>4
  <2> QED BY <1>5, <2>3, <2>5, CodeSeen, Zenon
<1>17. DoesBoth(p, q, S \cup {x}, Twos(v, z), F, t, u)
  <2>1. \A D \in Sorts : t.does \notin D BY <1>5 DEF Sorts
  <2>4. t.at = x /\ u.at = x BY <1>1, <1>11, Zenon
  <2>2. t.at = u.at /\ t.at \in S \cup {x} /\ t.does # "captures" BY <1>5, <2>4
  <2> QED BY <2>1, <2>2 DEF DoesBoth
<1>18. Evenly(c, d, k + 1, l + 1) BY <1>3, <1>8, <1>10, <1>11 DEF Evenly
<1>19. /\ c.at[k + 1].seen = c.at[k].seen \cup {x}
       /\ c.at[k + 1].met = c.at[k].met /\ d.at[l + 1].met = d.at[l].met
  <2>1. c.at[k].seen = S BY <1>1
  <2> QED BY <1>8, <1>10, <2>1
<1>20. /\ DoesBoth(c.of, d.of, c.at[k].seen \cup {x}, Twos(v, z), F, c.at[k].todo[1], d.at[l].todo[1])
       /\ SeenWell(c.of, d.of, Twos(v, z), F, x)
  BY <1>1, <1>16, <1>17, Zenon
<1> QED BY <1>15, <1>18, <1>19, <1>20, AdvanceSeeing, Zenon

-----------------------------------------------------------------------------
(* Two modules, or classes                                                 *)

LEMMA ModulesFeed ==
  ASSUME NEW c, Course(c), NEW k \in 0..(c.steps - 1), c.at[k].todo[1].does = "module",
         ~Deep(c.at[k].todo[1])
  PROVE  ThingFeed(c, k, c.at[k].todo[1], c.at[k].todo[1].at)
<1>1. PICK t, o, w : t = c.at[k].todo[1] /\ o = t.at /\ w = c.at[k] OBVIOUS
<1>2. SUFFICES ThingFeed(c, k, t, o) BY <1>1, Zenon
<1>3. t \in Tasks /\ Sound(c.of, t) /\ ~Deep(t) /\ t.does = "module" BY <1>1, HeadOf, HeadSound
<1>4. o # Nothing
  <2>1. Len(t.label) \in Nat \ {0} /\ (Len(t.label) = 1 => t.at # Nothing) BY <1>3 DEF Sound
  <2>2. ~(Len(t.label) > 1) BY <1>3 DEF Deep
  <2>3. \A n \in Nat \ {0} : ~(n > 1) => n = 1 OBVIOUS
  <2> QED BY <1>1, <2>1, <2>2, <2>3
<1>5. o \in Mod BY <1>1, <1>3, <1>4, TaskHas
<1>6. IF o = Nothing THEN Turned(c, k, <<>>, {}, {}, <<>>, <<>>)
      ELSE IF o \in c.at[k].seen
        THEN /\ \E T \in SUBSET (c.at[k].seen \cap Mod) : o \in T /\ Follows(T, t.names)
             /\ Turned(c, k, <<>>, {}, {}, <<>>, Mark(w, <<"passed", t.label, o>>))
      ELSE Turned(c, k, ModuleTasks(o, t.label, t.names), {o}, {},
                  <<<<"m", t.label, o, c.of.text[o]>>>>, <<>>)
  BY <1>1, <1>3, ModuleTurns, Zenon
<1>7. CASE o \in c.at[k].seen
  <2>1. Turned(c, k, <<>>, {}, {}, <<>>, Mark(w, <<"passed", t.label, o>>))
    BY <1>4, <1>6, <1>7, Zenon
  <2>2. Leaves(c, k, <<>>) BY <2>1, TurnedLeaves, Zenon
  <2>3. c.at[k + 1].seen = c.at[k].seen /\ c.at[k + 1].met = c.at[k].met BY <2>1, TurnedSeen, Zenon
  <2>4. Fed(c, k + 1) = Fed(c, k) BY <2>1 DEF Turned
  <2>5. Noted(c, k + 1) = Noted(c, k) + 1 BY <2>1, NoteIn, Zenon
  <2>6. Said(c, k) = <<"passed", t.label, o>> BY <2>1, NoteSaid, Zenon
  <2> QED BY <1>5, <1>7, <2>2, <2>3, <2>4, <2>5, <2>6 DEF ThingFeed
<1>8. CASE o \notin c.at[k].seen
  <2>1. Turned(c, k, ModuleTasks(o, t.label, t.names), {o}, {}, <<<<"m", t.label, o, c.of.text[o]>>>>, <<>>)
    BY <1>4, <1>6, <1>8, Zenon
  <2>2. Leaves(c, k, ModuleTasks(o, t.label, t.names)) BY <2>1, TurnedLeaves, Zenon
  <2>3. c.at[k + 1].met = c.at[k].met BY <2>1, TurnedSeen, Zenon
  <2>4. Noted(c, k + 1) = Noted(c, k) BY <2>1, TurnedSeen, Zenon
  <2>5. Sees(c, k, {o}) BY <2>1, TurnedSees, Zenon
  <2>6. Fed(c, k + 1) = Fed(c, k) + 1 BY <2>1, FrameIn, Zenon
  <2>7. Said(c, k) = <<"m", t.label, o, c.of.text[o]>> BY <2>1, FrameSaid, Zenon
  <2>8. c.at[k + 1].seen = c.at[k].seen \cup {o} BY <2>5 DEF Sees
  <2> QED BY <1>3, <1>5, <1>8, <2>2, <2>3, <2>4, <2>6, <2>7, <2>8 DEF ThingFeed
<1> QED BY <1>7, <1>8

LEMMA ClassesFeed ==
  ASSUME NEW c, Course(c), NEW k \in 0..(c.steps - 1), c.at[k].todo[1].does = "class"
  PROVE  ThingFeed(c, k, c.at[k].todo[1], c.at[k].todo[1].at)
<1>1. PICK t, o, w : t = c.at[k].todo[1] /\ o = t.at /\ w = c.at[k] OBVIOUS
<1>2. SUFFICES ThingFeed(c, k, t, o) BY <1>1, Zenon
<1>3. t \in Tasks /\ t.does = "class" BY <1>1, HeadOf
<1>4. o \in Cls BY <1>1, <1>3, TaskHas
<1>5. IF o \in c.at[k].seen THEN Turned(c, k, <<>>, {}, {}, <<>>, Mark(w, <<"passed", t.label, o>>))
      ELSE /\ Bases[o] = <<>>
           /\ Turned(c, k, ClassIn(c.of, o), {o}, {}, <<<<"cls", t.label, o>>>>,
                     Mark(w, <<"methods", MethodNames(c.of, o)>>))
  BY <1>1, <1>3, ClassTurns, Zenon
<1>6. CASE o \in c.at[k].seen
  <2>1. Turned(c, k, <<>>, {}, {}, <<>>, Mark(w, <<"passed", t.label, o>>)) BY <1>5, <1>6, Zenon
  <2>2. Leaves(c, k, <<>>) BY <2>1, TurnedLeaves, Zenon
  <2>3. c.at[k + 1].seen = c.at[k].seen /\ c.at[k + 1].met = c.at[k].met BY <2>1, TurnedSeen, Zenon
  <2>4. Fed(c, k + 1) = Fed(c, k) BY <2>1 DEF Turned
  <2>5. Noted(c, k + 1) = Noted(c, k) + 1 BY <2>1, NoteIn, Zenon
  <2>6. Said(c, k) = <<"passed", t.label, o>> BY <2>1, NoteSaid, Zenon
  <2> QED BY <1>4, <1>6, <2>2, <2>3, <2>4, <2>5, <2>6 DEF ThingFeed
<1>7. CASE o \notin c.at[k].seen
  <2>1. /\ Bases[o] = <<>>
        /\ Turned(c, k, ClassIn(c.of, o), {o}, {}, <<<<"cls", t.label, o>>>>,
                  Mark(w, <<"methods", MethodNames(c.of, o)>>))
    BY <1>5, <1>7, Zenon
  <2>2. Leaves(c, k, ClassIn(c.of, o)) BY <2>1, TurnedLeaves, Zenon
  <2>3. c.at[k + 1].met = c.at[k].met BY <2>1, TurnedSeen, Zenon
  <2>4. Noted(c, k + 1) = Noted(c, k) + 1 BY <2>1, NoteIn, Zenon
  <2>5. Sees(c, k, {o}) BY <2>1, TurnedSees, Zenon
  <2>6. Fed(c, k + 1) = Fed(c, k) + 1 /\ Text(c)[Fed(c, k) + 1] = <<"cls", t.label, o>>
    BY <2>1, FrameIn, Zenon
  <2>7. Said(c, k) = <<"methods", MethodNames(c.of, o)>> BY <2>1, NoteSaid, Zenon
  <2>8. c.at[k + 1].seen = c.at[k].seen \cup {o} BY <2>5 DEF Sees
  <2> QED BY <1>3, <1>4, <1>7, <2>1, <2>2, <2>3, <2>4, <2>6, <2>7, <2>8 DEF ThingFeed
<1> QED BY <1>6, <1>7

LEMMA ThingsAlike ==
  ASSUME NEW c, NEW d, NEW k, NEW l, Heads(c, d, k, l), c.at[k].todo[1].does \in {"module", "class"}
  PROVE  SameThings(c, d, k, l)
<1>1. PICK t, u, x, y, S : /\ t = c.at[k].todo[1] /\ u = d.at[l].todo[1] /\ x = t.at /\ y = u.at
                           /\ S = c.at[k].seen
  OBVIOUS
<1>2. /\ Course(c) /\ Course(d) /\ k \in 0..(c.steps - 1) /\ l \in 0..(d.steps - 1)
      /\ Said(c, k) = Said(d, l) /\ d.at[l].seen = S
      /\ Text(c) = Text(d) /\ Fed(c, k) = Fed(d, l)
  BY <1>1 DEF Heads
<1>3. Like(t, u) /\ t \in Tasks /\ u \in Tasks /\ ~Deep(t) /\ ~Deep(u) BY <1>1 DEF Heads
<1>4. t.does \in {"module", "class"} /\ u.does \in {"module", "class"} BY <1>1, <1>3 DEF Like
<1>5. ThingFeed(c, k, t, x)
  <2>1. CASE t.does = "module"
    <3>1. c.at[k].todo[1].does = "module" /\ ~Deep(c.at[k].todo[1]) BY <1>1, <1>3, <2>1
    <3>2. ThingFeed(c, k, c.at[k].todo[1], c.at[k].todo[1].at) BY <1>2, <3>1, ModulesFeed
    <3> QED BY <1>1, <3>2, Zenon
  <2>2. CASE t.does = "class"
    <3>1. ThingFeed(c, k, c.at[k].todo[1], c.at[k].todo[1].at)
      BY <1>1, <1>2, <2>2, ClassesFeed, Zenon
    <3> QED BY <1>1, <3>1, Zenon
  <2> QED BY <1>4, <2>1, <2>2
<1>6. ThingFeed(d, l, u, y)
  <2>1. CASE u.does = "module"
    <3>1. d.at[l].todo[1].does = "module" /\ ~Deep(d.at[l].todo[1]) BY <1>1, <1>3, <2>1
    <3>2. ThingFeed(d, l, d.at[l].todo[1], d.at[l].todo[1].at) BY <1>2, <3>1, ModulesFeed
    <3> QED BY <1>1, <3>2, Zenon
  <2>2. CASE u.does = "class"
    <3>1. ThingFeed(d, l, d.at[l].todo[1], d.at[l].todo[1].at)
      BY <1>1, <1>2, <2>2, ClassesFeed, Zenon
    <3> QED BY <1>1, <3>1, Zenon
  <2> QED BY <1>4, <2>1, <2>2
<1>7. /\ x \in S => Said(c, k) = <<"passed", t.label, x>>
      /\ x \notin S /\ t.does = "module" => Said(c, k) = <<"m", t.label, x, c.of.text[x]>>
      /\ x \notin S /\ t.does = "class" => Said(c, k) = <<"methods", MethodNames(c.of, x)>>
  BY <1>1, <1>5 DEF ThingFeed
<1>8. /\ y \in S => Said(d, l) = <<"passed", u.label, y>>
      /\ y \notin S /\ u.does = "module" => Said(d, l) = <<"m", u.label, y, d.of.text[y]>>
      /\ y \notin S /\ u.does = "class" => Said(d, l) = <<"methods", MethodNames(d.of, y)>>
  BY <1>2, <1>6 DEF ThingFeed
<1>9. /\ x \in S => Said(c, k)[1] = "passed" /\ Said(c, k)[3] = x
      /\ x \notin S /\ t.does = "module" => Said(c, k)[1] = "m" /\ Said(c, k)[3] = x /\ Said(c, k)[4] = c.of.text[x]
      /\ x \notin S /\ t.does = "class" => Said(c, k)[1] = "methods" /\ Said(c, k)[2] = MethodNames(c.of, x)
  BY <1>7
<1>10. /\ y \in S => Said(d, l)[1] = "passed" /\ Said(d, l)[3] = y
       /\ y \notin S /\ u.does = "module" => Said(d, l)[1] = "m" /\ Said(d, l)[3] = y /\ Said(d, l)[4] = d.of.text[y]
       /\ y \notin S /\ u.does = "class" => Said(d, l)[1] = "methods" /\ Said(d, l)[2] = MethodNames(d.of, y)
  BY <1>8
<1>11. x \in S => y = x BY <1>2, <1>4, <1>9, <1>10
<1>12. x \notin S => y \notin S /\ u.does = t.does BY <1>2, <1>4, <1>9, <1>10
<1>13. x \notin S /\ t.does = "module" => y = x /\ d.of.text[x] = c.of.text[x]
  BY <1>2, <1>4, <1>9, <1>10, <1>12
<1>14. x \notin S /\ t.does = "class" => y = x /\ MethodNames(d.of, x) = MethodNames(c.of, x)
  <2>1. SUFFICES ASSUME x \notin S, t.does = "class" PROVE y = x /\ MethodNames(d.of, x) = MethodNames(c.of, x)
    OBVIOUS
  <2>2. y \notin S /\ u.does = "class" BY <1>12, <2>1
  <2>3. Text(c)[Fed(c, k) + 1] = <<"cls", t.label, x>> BY <1>1, <1>5, <2>1 DEF ThingFeed
  <2>4. Text(d)[Fed(d, l) + 1] = <<"cls", u.label, y>> BY <1>2, <1>6, <2>2 DEF ThingFeed
  <2>5. <<"cls", t.label, x>> = <<"cls", u.label, y>> BY <1>2, <2>3, <2>4
  <2>6. y = x BY <2>5
  <2>7. MethodNames(d.of, y) = MethodNames(c.of, x) BY <1>2, <1>9, <1>10, <2>1, <2>2
  <2> QED BY <2>6, <2>7
<1>15. y = x BY <1>4, <1>11, <1>13, <1>14
<1> QED BY <1>1, <1>4, <1>5, <1>6, <1>12, <1>13, <1>14, <1>15, Zenon DEF SameThings

\* One they had looked at: both pass over it.
LEMMA ThingMetTogether ==
  ASSUME NEW c, NEW d, NEW k, NEW l, NEW F, NEW G, Level(c, d, k, l, F, G),
         c.at[k].todo[1].does \in {"module", "class"}, c.at[k].todo[1].at \in c.at[k].seen
  PROVE  Abreast(c, d, k + 1, l + 1)
<1>1. PICK t, u, x, S : /\ t = c.at[k].todo[1] /\ u = d.at[l].todo[1] /\ x = t.at /\ S = c.at[k].seen
  OBVIOUS
<1>2. Heads(c, d, k, l) BY LevelHeads
<1>3. /\ Fed(c, k) = Fed(d, l) /\ Noted(c, k) = Noted(d, l) /\ d.at[l].seen = S
      /\ S \subseteq Code \cup Cls \cup Mod
  BY <1>1, <1>2 DEF Heads
<1>4. SameThings(c, d, k, l) BY <1>2, ThingsAlike
<1>5. /\ ThingFeed(c, k, t, x) /\ ThingFeed(d, l, u, x) /\ u.at = x /\ x \in S
      /\ t.does \in {"module", "class"} /\ u.does \in {"module", "class"}
  <2>1. /\ ThingFeed(c, k, c.at[k].todo[1], c.at[k].todo[1].at)
        /\ ThingFeed(d, l, d.at[l].todo[1], d.at[l].todo[1].at)
        /\ d.at[l].todo[1].at = c.at[k].todo[1].at
        /\ c.at[k].todo[1].does \in {"module", "class"} /\ d.at[l].todo[1].does \in {"module", "class"}
    BY <1>4, Zenon DEF SameThings
  <2> QED BY <1>1, <2>1, Zenon
<1>6. x \in Mod \cup Cls BY <1>5 DEF ThingFeed
<1>7. /\ Leaves(c, k, <<>>) /\ c.at[k + 1].seen = S /\ Fed(c, k + 1) = Fed(c, k)
      /\ c.at[k + 1].met = c.at[k].met /\ Noted(c, k + 1) = Noted(c, k) + 1
  <2>1. x \in c.at[k].seen BY <1>1, <1>5, Zenon
  <2>2. /\ Leaves(c, k, <<>>) /\ c.at[k + 1].seen = c.at[k].seen /\ Fed(c, k + 1) = Fed(c, k)
        /\ c.at[k + 1].met = c.at[k].met /\ Noted(c, k + 1) = Noted(c, k) + 1
    BY <1>5, <2>1 DEF ThingFeed
  <2> QED BY <1>1, <2>2, Zenon
<1>8. /\ Leaves(d, l, <<>>) /\ d.at[l + 1].seen = S /\ Fed(d, l + 1) = Fed(d, l)
      /\ d.at[l + 1].met = d.at[l].met /\ Noted(d, l + 1) = Noted(d, l) + 1
  BY <1>3, <1>5 DEF ThingFeed
<1>9. PICK v, z : Grows(c, d, k, l, v, z)
  <2>1. AddsBoth(c, d, k, l, <<>>, <<>>) BY <1>7, <1>8, NoneList DEF Leaves, AddsBoth
  <2> QED BY <2>1, Adding, Zenon
<1>10. DoesBoth(c.of, d.of, S, Twos(v, z), F, t, u)
  <2>1. Pend(c.of, d.of, Twos(v, z), F, t.at, u.at)
    <3>1. x \notin Fn /\ x \notin Outside BY <1>6, KindsApart
    <3>2. Akin(c.of, d.of, F, x, x) BY <3>1 DEF Akin
    <3>3. Pend(c.of, d.of, Twos(v, z), F, x, x) BY <3>2 DEF Pend
    <3> QED BY <1>1, <1>5, <3>3, Zenon
  <2>2. t.does # "captures" /\ t.does # "code" BY <1>5
  <2> QED BY <2>1, <2>2 DEF DoesBoth
<1>11. DoesBoth(c.of, d.of, c.at[k].seen, Twos(v, z), F, c.at[k].todo[1], d.at[l].todo[1])
  BY <1>1, <1>10, Zenon
<1>12. Evenly(c, d, k + 1, l + 1) BY <1>3, <1>7, <1>8 DEF Evenly
<1>13. /\ c.at[k + 1].seen = c.at[k].seen
       /\ c.at[k + 1].met = c.at[k].met /\ d.at[l + 1].met = d.at[l].met
  BY <1>1, <1>7, <1>8
<1> QED BY <1>9, <1>11, <1>12, <1>13, AdvanceOnly, Zenon

\* A module that neither had looked at.
LEMMA ModulesTogether ==
  ASSUME NEW c, NEW d, NEW k, NEW l, NEW F, NEW G, Level(c, d, k, l, F, G),
         c.at[k].todo[1].does = "module", c.at[k].todo[1].at \notin c.at[k].seen
  PROVE  Abreast(c, d, k + 1, l + 1)
<1>1. PICK t, u, p, q, x, S : /\ t = c.at[k].todo[1] /\ u = d.at[l].todo[1] /\ p = c.of /\ q = d.of
                              /\ x = t.at /\ S = c.at[k].seen
  OBVIOUS
<1>2. Heads(c, d, k, l) BY LevelHeads
<1>3. /\ Fed(c, k) = Fed(d, l) /\ Noted(c, k) = Noted(d, l) /\ d.at[l].seen = S
      /\ p \in Program /\ q \in Program /\ t \in Tasks /\ u \in Tasks /\ Sound(p, t) /\ Sound(q, u)
  BY <1>1, <1>2 DEF Heads
<1>4. SameThings(c, d, k, l) BY <1>2, ThingsAlike
<1>5. /\ ThingFeed(c, k, t, x) /\ ThingFeed(d, l, u, x) /\ u.at = x /\ x \notin S
      /\ t.does = "module" /\ u.does = "module" /\ p.text[x] = q.text[x]
  <2>1. /\ ThingFeed(c, k, c.at[k].todo[1], c.at[k].todo[1].at)
        /\ ThingFeed(d, l, d.at[l].todo[1], d.at[l].todo[1].at)
        /\ d.at[l].todo[1].at = c.at[k].todo[1].at /\ d.at[l].todo[1].does = c.at[k].todo[1].does
        /\ d.of.text[c.at[k].todo[1].at] = c.of.text[c.at[k].todo[1].at]
    BY <1>4, Zenon DEF SameThings
  <2> QED BY <1>1, <2>1, Zenon
<1> DEFINE a == ModuleTasks(x, t.label, t.names)
           b == ModuleTasks(x, u.label, u.names)
<1>6. /\ Leaves(c, k, a) /\ c.at[k + 1].seen = S \cup {x} /\ Fed(c, k + 1) = Fed(c, k) + 1
      /\ c.at[k + 1].met = c.at[k].met /\ Noted(c, k + 1) = Noted(c, k) /\ x \in Mod
  <2>1. x \notin c.at[k].seen BY <1>1, <1>5, Zenon
  <2>2. /\ Leaves(c, k, a) /\ c.at[k + 1].seen = c.at[k].seen \cup {x} /\ Fed(c, k + 1) = Fed(c, k) + 1
        /\ c.at[k + 1].met = c.at[k].met /\ Noted(c, k + 1) = Noted(c, k) /\ x \in Mod
    BY <1>5, <2>1 DEF ThingFeed
  <2> QED BY <1>1, <2>2, Zenon
<1>7. /\ Leaves(d, l, b) /\ d.at[l + 1].seen = S \cup {x} /\ Fed(d, l + 1) = Fed(d, l) + 1
      /\ d.at[l + 1].met = d.at[l].met /\ Noted(d, l + 1) = Noted(d, l)
  BY <1>3, <1>5 DEF ThingFeed
<1>8. a \in Seq(Tasks) /\ b \in Seq(Tasks) /\ Deeps(a) /\ Deeps(b)
  <2>1. x # Nothing BY <1>6, KindsApart
  <2>2. AddsFine(p, t, ModuleTasks(t.at, t.label, t.names)) /\ AddsFine(q, u, ModuleTasks(u.at, u.label, u.names))
    <3>1. t.at # Nothing /\ u.at # Nothing BY <1>1, <1>5, <2>1, Zenon
    <3> QED BY <1>3, <1>5, <3>1, ModuleAdds, Zenon
  <2>3. AddsFine(p, t, a) /\ AddsFine(q, u, b) BY <1>1, <1>5, <2>2, Zenon
  <2> QED BY <1>5, <2>3 DEF AddsFine, Deeps
<1> HIDE DEF a, b
<1>9. PICK v, z : Grows(c, d, k, l, v, z)
  <2>1. c.at[k + 1].todo = a \o Tail(c.at[k].todo) /\ d.at[l + 1].todo = b \o Tail(d.at[l].todo)
    BY <1>6, <1>7 DEF Leaves
  <2> QED BY <1>8, <2>1, AddingDeep, Zenon
<1>10. SeenWell(p, q, Twos(v, z), F, x) BY <1>5, <1>6, ModuleSeen, Zenon
<1>11. DoesBoth(p, q, S \cup {x}, Twos(v, z), F, t, u)
  <2>1. Pend(p, q, Twos(v, z), F, t.at, u.at)
    <3>1. x \notin Fn /\ x \notin Outside BY <1>6, KindsApart
    <3>2. Akin(p, q, F, x, x) BY <3>1 DEF Akin
    <3>3. Pend(p, q, Twos(v, z), F, x, x) BY <3>2 DEF Pend
    <3> QED BY <1>1, <1>5, <3>3, Zenon
  <2>2. t.does # "captures" /\ t.does # "code" BY <1>5
  <2> QED BY <2>1, <2>2 DEF DoesBoth
<1>12. Evenly(c, d, k + 1, l + 1) BY <1>3, <1>6, <1>7 DEF Evenly
<1>13. /\ c.at[k + 1].seen = c.at[k].seen \cup {x}
       /\ c.at[k + 1].met = c.at[k].met /\ d.at[l + 1].met = d.at[l].met
  BY <1>1, <1>6, <1>7
<1>14. /\ DoesBoth(c.of, d.of, c.at[k].seen \cup {x}, Twos(v, z), F, c.at[k].todo[1], d.at[l].todo[1])
       /\ SeenWell(c.of, d.of, Twos(v, z), F, x)
  BY <1>1, <1>10, <1>11, Zenon
<1> QED BY <1>9, <1>12, <1>13, <1>14, AdvanceSeeing, Zenon

\* What a class adds: its methods, in order.
LEMMA ClassPair ==
  ASSUME NEW p \in Program, NEW q \in Program, NEW x \in Cls, MethodNames(p, x) = MethodNames(q, x)
  PROVE  LET a == ClassIn(p, x)
             b == ClassIn(q, x)
         IN  /\ a \in Seq(Tasks) /\ b \in Seq(Tasks) /\ Alikes(a, b)
             /\ DOMAIN p.methods[x] = 1..Len(a)
             /\ \A n \in 1..Len(a) :
                  /\ a[n].does = "function" /\ a[n].at = p.methods[x][n][2]
                  /\ b[n].does = "function" /\ b[n].at = q.methods[x][n][2]
<1>1. PICK a, b, ms, ns : a = ClassIn(p, x) /\ b = ClassIn(q, x) /\ ms = p.methods[x] /\ ns = q.methods[x]
  OBVIOUS
<1>2. /\ a \in Seq(Tasks) /\ ms \in Seq(Name \X Fn) /\ Len(ms) \in Nat /\ Len(a) = Len(ms)
      /\ \A i \in 1..Len(ms) : a[i] = Task("function", ms[i][2], <<>>, <<>>)
  BY <1>1, ClassInIs
<1>3. /\ b \in Seq(Tasks) /\ ns \in Seq(Name \X Fn) /\ Len(ns) \in Nat /\ Len(b) = Len(ns)
      /\ \A i \in 1..Len(ns) : b[i] = Task("function", ns[i][2], <<>>, <<>>)
  BY <1>1, ClassInIs
<1>4. DOMAIN ms = 1..Len(ms) /\ DOMAIN ns = 1..Len(ns) BY <1>2, <1>3
<1>5. DOMAIN ms = DOMAIN ns
  <2>1. DOMAIN MethodNames(p, x) = DOMAIN ms /\ DOMAIN MethodNames(q, x) = DOMAIN ns
    BY <1>1 DEF MethodNames
  <2> QED BY <2>1
<1>6. Len(ms) = Len(ns) BY <1>2, <1>3, <1>4, <1>5
<1>7. \A n \in 1..Len(a) : /\ a[n].does = "function" /\ a[n].at = ms[n][2] /\ a[n].label = <<>>
                           /\ b[n].does = "function" /\ b[n].at = ns[n][2] /\ b[n].label = <<>>
  BY <1>2, <1>3, <1>6, TaskIs
<1>8. Alikes(a, b) BY <1>2, <1>3, <1>6, <1>7 DEF Alikes, Like
<1> QED BY <1>1, <1>2, <1>3, <1>4, <1>7, <1>8

LEMMA ClassSeen ==
  ASSUME NEW p, NEW q, NEW W, NEW F, NEW x \in Cls, MethodNames(p, x) = MethodNames(q, x), Bases[x] = <<>>,
         \A n \in DOMAIN p.methods[x] : Pend(p, q, W, F, p.methods[x][n][2], q.methods[x][n][2])
  PROVE  SeenWell(p, q, W, F, x)
<1>1. x \notin Fn /\ x \notin Code BY KindsApart
<1>2. Own(p, x) = <<x, MethodNames(p, x)>> /\ Own(q, x) = <<x, MethodNames(q, x)>>
  BY <1>1 DEF Own, MethodNames
<1> QED BY <1>1, <1>2 DEF SeenWell

LEMMA ClassesTogether ==
  ASSUME NEW c, NEW d, NEW k, NEW l, NEW F, NEW G, Level(c, d, k, l, F, G),
         c.at[k].todo[1].does = "class", c.at[k].todo[1].at \notin c.at[k].seen
  PROVE  Abreast(c, d, k + 1, l + 1)
<1>1. PICK t, u, p, q, x, S : /\ t = c.at[k].todo[1] /\ u = d.at[l].todo[1] /\ p = c.of /\ q = d.of
                              /\ x = t.at /\ S = c.at[k].seen
  OBVIOUS
<1>2. Heads(c, d, k, l) BY LevelHeads
<1>3. /\ Fed(c, k) = Fed(d, l) /\ Noted(c, k) = Noted(d, l) /\ d.at[l].seen = S
      /\ p \in Program /\ q \in Program
  BY <1>1, <1>2 DEF Heads
<1>4. SameThings(c, d, k, l) BY <1>2, ThingsAlike
<1>5. /\ ThingFeed(c, k, t, x) /\ ThingFeed(d, l, u, x) /\ u.at = x /\ x \notin S
      /\ t.does = "class" /\ u.does = "class" /\ MethodNames(p, x) = MethodNames(q, x)
  BY <1>1, <1>4 DEF SameThings
<1> DEFINE a == ClassIn(p, x)
           b == ClassIn(q, x)
<1>6. /\ Leaves(c, k, a) /\ c.at[k + 1].seen = S \cup {x} /\ Fed(c, k + 1) = Fed(c, k) + 1
      /\ c.at[k + 1].met = c.at[k].met /\ Noted(c, k + 1) = Noted(c, k) + 1 /\ x \in Cls /\ Bases[x] = <<>>
  BY <1>1, <1>5 DEF ThingFeed
<1>7. /\ Leaves(d, l, b) /\ d.at[l + 1].seen = S \cup {x} /\ Fed(d, l + 1) = Fed(d, l) + 1
      /\ d.at[l + 1].met = d.at[l].met /\ Noted(d, l + 1) = Noted(d, l) + 1
  <2>1. x \notin d.at[l].seen BY <1>3, <1>5, Zenon
  <2>2. /\ Leaves(d, l, ClassIn(d.of, x)) /\ d.at[l + 1].seen = d.at[l].seen \cup {x}
        /\ Fed(d, l + 1) = Fed(d, l) + 1
        /\ d.at[l + 1].met = d.at[l].met /\ Noted(d, l + 1) = Noted(d, l) + 1
    BY <1>5, <2>1, Zenon DEF ThingFeed
  <2> QED BY <1>1, <1>3, <2>2, Zenon
<1>8. /\ a \in Seq(Tasks) /\ b \in Seq(Tasks) /\ Alikes(a, b)
      /\ DOMAIN p.methods[x] = 1..Len(a)
      /\ \A n \in 1..Len(a) :
           /\ a[n].does = "function" /\ a[n].at = p.methods[x][n][2]
           /\ b[n].does = "function" /\ b[n].at = q.methods[x][n][2]
  BY <1>3, <1>5, <1>6, ClassPair
<1>9. Shallows(a) /\ Shallows(b)
  <2>1. AddsFine(p, t, a) /\ AddsFine(q, u, b) BY <1>3, <1>5, <1>6, ClassAdds
  <2> QED BY <1>5, <2>1 DEF AddsFine, Shallows
<1> HIDE DEF a, b
<1>10. PICK v, z : /\ Grows(c, d, k, l, v, z)
                   /\ \A n \in 1..Len(a) : <<a[n], b[n]>> \in Twos(v, z)
  <2>1. AddsBoth(c, d, k, l, a, b) BY <1>6, <1>7, <1>8, <1>9, Zenon DEF AddsBoth, Leaves
  <2> QED BY <2>1, Adding, Zenon
<1>11. SeenWell(p, q, Twos(v, z), F, x)
  <2>1. ASSUME NEW n \in DOMAIN p.methods[x]
        PROVE  Pend(p, q, Twos(v, z), F, p.methods[x][n][2], q.methods[x][n][2])
    <3>1. n \in 1..Len(a) BY <1>8
    <3>2. PICK r : r = <<a[n], b[n]>> OBVIOUS
    <3>3. r \in Twos(v, z) /\ r[1] = a[n] /\ r[2] = b[n] BY <1>10, <3>1, <3>2
    <3>4. /\ a[n].does = "function" /\ a[n].at = p.methods[x][n][2]
          /\ b[n].does = "function" /\ b[n].at = q.methods[x][n][2]
      BY <1>8, <3>1
    <3>5. Held(Twos(v, z), {"function"}, p.methods[x][n][2], q.methods[x][n][2])
      BY <3>3, <3>4 DEF Held
    <3> QED BY <3>5 DEF Pend, Sorts
  <2>2. \A n \in DOMAIN p.methods[x] : Pend(p, q, Twos(v, z), F, p.methods[x][n][2], q.methods[x][n][2])
    BY <2>1
  <2> QED BY <1>5, <1>6, <2>2, ClassSeen, Zenon
<1>12. DoesBoth(p, q, S \cup {x}, Twos(v, z), F, t, u)
  <2>1. Pend(p, q, Twos(v, z), F, t.at, u.at)
    <3>1. x \notin Fn /\ x \notin Outside BY <1>6, KindsApart
    <3>2. Akin(p, q, F, x, x) BY <3>1 DEF Akin
    <3>3. Pend(p, q, Twos(v, z), F, x, x) BY <3>2 DEF Pend
    <3> QED BY <1>1, <1>5, <3>3, Zenon
  <2>2. t.does # "captures" /\ t.does # "code" BY <1>5
  <2> QED BY <2>1, <2>2 DEF DoesBoth
<1>13. Evenly(c, d, k + 1, l + 1) BY <1>3, <1>6, <1>7 DEF Evenly
<1>14. /\ c.at[k + 1].seen = c.at[k].seen \cup {x}
       /\ c.at[k + 1].met = c.at[k].met /\ d.at[l + 1].met = d.at[l].met
  BY <1>1, <1>6, <1>7
<1>15. /\ DoesBoth(c.of, d.of, c.at[k].seen \cup {x}, Twos(v, z), F, c.at[k].todo[1], d.at[l].todo[1])
       /\ SeenWell(c.of, d.of, Twos(v, z), F, x)
  BY <1>1, <1>11, <1>12, Zenon
<1> QED BY <1>10, <1>13, <1>14, <1>15, AdvanceSeeing, Zenon

-----------------------------------------------------------------------------
(* To the end                                                              *)

LEMMA LevelOn ==
  ASSUME NEW c, NEW d, NEW k, NEW l, NEW F, NEW G, Level(c, d, k, l, F, G)
  PROVE  Abreast(c, d, k + 1, l + 1)
<1>1. c.at[k].todo[1].does \in {"function", "code", "class", "global", "module", "captures"}
  <2>1. c.at[k].todo[1] \in Tasks BY LevelHeads DEF Heads
  <2> QED BY <2>1, TaskHas, Zenon
<1>2. CASE c.at[k].todo[1].does = "function"
  <2>1. CASE CodeOf[c.at[k].todo[1].at] \in c.at[k].seen BY <1>2, <2>1, MetAgainTogether, Zenon
  <2>2. CASE CodeOf[c.at[k].todo[1].at] \notin c.at[k].seen BY <1>2, <2>2, MetTogether, Zenon
  <2> QED BY <2>1, <2>2
<1>3. CASE c.at[k].todo[1].does = "code"
  <2>1. CASE c.at[k].todo[1].at \in c.at[k].seen BY <1>3, <2>1, CodeMetTogether, Zenon
  <2>2. CASE c.at[k].todo[1].at \notin c.at[k].seen BY <1>3, <2>2, CodesTogether, Zenon
  <2> QED BY <2>1, <2>2
<1>4. CASE c.at[k].todo[1].does \in {"module", "class"}
  <2>1. CASE c.at[k].todo[1].at \in c.at[k].seen BY <1>4, <2>1, ThingMetTogether, Zenon
  <2>2. CASE c.at[k].todo[1].at \notin c.at[k].seen /\ c.at[k].todo[1].does = "module"
    BY <2>2, ModulesTogether, Zenon
  <2>3. CASE c.at[k].todo[1].at \notin c.at[k].seen /\ c.at[k].todo[1].does = "class"
    BY <2>3, ClassesTogether, Zenon
  <2> QED BY <1>4, <2>1, <2>2, <2>3
<1>5. CASE c.at[k].todo[1].does = "global" BY <1>5, GlobalsTogether, Zenon
<1>6. CASE c.at[k].todo[1].does = "captures" BY <1>6, CapturesTogether, Zenon
<1> QED BY <1>1, <1>2, <1>3, <1>4, <1>5, <1>6

LEMMA AbreastIs ==
  ASSUME NEW c, NEW d, NEW k, NEW l, Abreast(c, d, k, l)
  PROVE  /\ Fed(c, k) = Fed(d, l) /\ Noted(c, k) = Noted(d, l)
         /\ \E x, y \in Seq(Tasks) :
              Shallow(c.at[k].todo, x) /\ Shallow(d.at[l].todo, y) /\ Alikes(x, y)
BY DEF Abreast, Beside

\* Both are done, or neither.
LEMMA BothDone ==
  ASSUME NEW c, NEW d, Twins(c, d), NEW k \in 0..c.steps, NEW l \in 0..d.steps, Abreast(c, d, k, l),
         Plain(c.at[k].todo), Plain(d.at[l].todo)
  PROVE  c.at[k].todo = <<>> <=> d.at[l].todo = <<>>
<1>1. c.at[k].todo \in Seq(Tasks) /\ d.at[l].todo \in Seq(Tasks)
  <2>1. Finished(c) /\ Finished(d) BY DEF Twins
  <2> QED BY <2>1, ProgramsOf
<1>2. PICK x \in Seq(Tasks), y \in Seq(Tasks) :
        Shallow(c.at[k].todo, x) /\ Shallow(d.at[l].todo, y) /\ Alikes(x, y)
  BY AbreastIs
<1>3. x = c.at[k].todo /\ y = d.at[l].todo BY <1>1, <1>2, ShallowAll
<1>4. Len(x) = Len(y) BY <1>2 DEF Alikes
<1>5. \A s \in Seq(Tasks) : s = <<>> <=> Len(s) = 0 OBVIOUS
<1> QED BY <1>3, <1>4, <1>5

\* Until then, one of them, or both, can go on.
LEMMA Onward ==
  ASSUME NEW c, NEW d, Twins(c, d), NEW k \in 0..c.steps, NEW l \in 0..d.steps, Abreast(c, d, k, l),
         ~(c.at[k].todo = <<>> /\ d.at[l].todo = <<>>)
  PROVE  \/ k \in 0..(c.steps - 1) /\ Abreast(c, d, k + 1, l)
         \/ l \in 0..(d.steps - 1) /\ Abreast(c, d, k, l + 1)
         \/ k \in 0..(c.steps - 1) /\ l \in 0..(d.steps - 1) /\ Abreast(c, d, k + 1, l + 1)
<1>1. Finished(c) /\ Finished(d) BY DEF Twins
<1>2. c.at[k].todo # <<>> => k \in 0..(c.steps - 1) BY <1>1, GoesOn
<1>3. d.at[l].todo # <<>> => l \in 0..(d.steps - 1) BY <1>1, GoesOn
<1>4. Fed(c, k) = Fed(d, l) /\ Noted(c, k) = Noted(d, l) BY AbreastIs
<1>5. /\ ~Plain(c.at[k].todo) => c.at[k].todo # <<>> /\ Deep(c.at[k].todo[1])
      /\ ~Plain(d.at[l].todo) => d.at[l].todo # <<>> /\ Deep(d.at[l].todo[1])
  BY DEF Plain
<1>6. CASE ~Plain(c.at[k].todo) /\ c.at[k].todo[1].at = Nothing
  <2>1. k \in 0..(c.steps - 1) /\ Deep(c.at[k].todo[1]) BY <1>2, <1>5, <1>6
  <2> QED BY <1>6, <2>1, LeftAlone, Zenon
<1>7. CASE ~Plain(d.at[l].todo) /\ d.at[l].todo[1].at = Nothing
  <2>1. l \in 0..(d.steps - 1) /\ Deep(d.at[l].todo[1]) BY <1>3, <1>5, <1>7
  <2> QED BY <1>7, <2>1, RightAlone, Zenon
<1>8. CASE ~Plain(c.at[k].todo) /\ c.at[k].todo[1].at # Nothing
           /\ ~(~Plain(d.at[l].todo) /\ d.at[l].todo[1].at = Nothing)
  <2>1. k \in 0..(c.steps - 1) /\ Deep(c.at[k].todo[1]) BY <1>2, <1>5, <1>8
  <2>2. ~Plain(d.at[l].todo) BY <1>4, <1>8, <2>1, NoneAlone, Zenon
  <2>3. l \in 0..(d.steps - 1) /\ Deep(d.at[l].todo[1]) /\ d.at[l].todo[1].at # Nothing
    BY <1>3, <1>5, <1>8, <2>2
  <2> QED BY <1>8, <2>1, <2>3, DeepBoth, Zenon
<1>9. CASE Plain(c.at[k].todo) /\ ~Plain(d.at[l].todo) /\ d.at[l].todo[1].at # Nothing
  <2>1. l \in 0..(d.steps - 1) /\ Deep(d.at[l].todo[1]) BY <1>3, <1>5, <1>9
  <2>2. Twins(d, c) /\ Fed(d, l) = Fed(c, k) /\ Noted(d, l) = Noted(c, k) BY <1>4, TwinsTurn
  <2>3. ~Plain(c.at[k].todo) BY <1>9, <2>1, <2>2, NoneAlone, Zenon
  <2> QED BY <1>9, <2>3
<1>10. CASE Plain(c.at[k].todo) /\ Plain(d.at[l].todo)
  <2>1. c.at[k].todo # <<>> /\ d.at[l].todo # <<>> BY <1>10, BothDone
  <2>2. k \in 0..(c.steps - 1) /\ l \in 0..(d.steps - 1) BY <1>2, <1>3, <2>1
  <2>3. PICK F, G : Level(c, d, k, l, F, G) BY <1>10, <2>2, AbreastLevel, Zenon
  <2> QED BY <2>2, <2>3, LevelOn, Zenon
<1> QED BY <1>6, <1>7, <1>8, <1>9, <1>10

LEMMA Arrives ==
  ASSUME NEW c, NEW d, Twins(c, d) PROVE Abreast(c, d, c.steps, d.steps)
<1>1. /\ Finished(c) /\ Finished(d) /\ Course(c) /\ Course(d) /\ c.steps \in Nat /\ d.steps \in Nat
  <2>1. Finished(c) /\ Finished(d) BY DEF Twins
  <2> QED BY <2>1, ProgramsOf
<1> DEFINE At(n) == \E k \in 0..c.steps, l \in 0..d.steps : Abreast(c, d, k, l) /\ n = Left(c, d, k, l)
           S == {n \in Nat : At(n)}
<1>2. ASSUME NEW k \in 0..c.steps, NEW l \in 0..d.steps PROVE Left(c, d, k, l) \in Nat
  BY <1>1 DEF Left
<1>3. Left(c, d, 0, 0) \in S
  <2>1. 0 \in 0..c.steps /\ 0 \in 0..d.steps BY <1>1
  <2>2. At(Left(c, d, 0, 0)) BY <2>1, AbreastBegins
  <2> QED BY <1>2, <2>1, <2>2
<1>4. PICK n \in S : \A m \in Nat : m < n => m \notin S
  <2>1. S \subseteq Nat /\ S # {} BY <1>3
  <2> QED BY <2>1, Least
<1>5. PICK k \in 0..c.steps, l \in 0..d.steps : Abreast(c, d, k, l) /\ n = Left(c, d, k, l) BY <1>4
<1>6. ASSUME NEW i \in 0..c.steps, NEW j \in 0..d.steps, Abreast(c, d, i, j), Left(c, d, i, j) < n
      PROVE  FALSE
  <2>1. Left(c, d, i, j) \in S BY <1>2, <1>6
  <2> QED BY <1>4, <1>6, <2>1
<1>7. c.at[k].todo = <<>> /\ d.at[l].todo = <<>>
  <2>1. SUFFICES ASSUME ~(c.at[k].todo = <<>> /\ d.at[l].todo = <<>>) PROVE FALSE OBVIOUS
  <2>2. \/ k \in 0..(c.steps - 1) /\ Abreast(c, d, k + 1, l)
        \/ l \in 0..(d.steps - 1) /\ Abreast(c, d, k, l + 1)
        \/ k \in 0..(c.steps - 1) /\ l \in 0..(d.steps - 1) /\ Abreast(c, d, k + 1, l + 1)
    BY <1>5, <2>1, Onward
  <2>3. /\ k \in 0..(c.steps - 1) => k + 1 \in 0..c.steps /\ Left(c, d, k + 1, l) < n
        /\ l \in 0..(d.steps - 1) => l + 1 \in 0..d.steps /\ Left(c, d, k, l + 1) < n
        /\ k \in 0..(c.steps - 1) /\ l \in 0..(d.steps - 1) => Left(c, d, k + 1, l + 1) < n
    BY <1>1, <1>5 DEF Left
  <2> QED BY <1>6, <2>2, <2>3
<1>8. k = c.steps /\ l = d.steps
  <2>1. k \notin 0..(c.steps - 1) BY <1>1, <1>7, HeadOf
  <2>2. l \notin 0..(d.steps - 1) BY <1>1, <1>7, HeadOf
  <2> QED BY <1>1, <2>1, <2>2
<1> QED BY <1>5, <1>8

\* What two whole walks have made sure of.
LEMMA KeptToTheEnd ==
  ASSUME NEW c, NEW d, Twins(c, d) PROVE \E F, G :
           /\ Kept(c.of, d.of, d.at[d.steps].seen, {}, F, G)
           /\ c.at[c.steps].seen = d.at[d.steps].seen
           /\ c.at[c.steps].met = {z[1] : z \in G} /\ d.at[d.steps].met = {z[2] : z \in G}
<1>1. Abreast(c, d, c.steps, d.steps) BY Arrives
<1>2. PICK x, y, F, G : x \in Seq(Tasks) /\ y \in Seq(Tasks) /\ Beside(c, d, c.steps, d.steps, x, y, F, G)
  BY <1>1 DEF Abreast
<1>3. c.at[c.steps].todo = <<>> BY DEF Twins, Finished
<1>4. Len(x) = 0
  <2>1. Shallow(c.at[c.steps].todo, x) BY <1>2 DEF Beside
  <2>2. PICK i \in Nat : Len(c.at[c.steps].todo) = i + Len(x) BY <2>1 DEF Shallow
  <2>3. Len(c.at[c.steps].todo) = 0 BY <1>3
  <2> QED BY <2>2, <2>3
<1>5. Twos(x, y) = {} BY <1>4 DEF Twos
<1>6. /\ Kept(c.of, d.of, c.at[c.steps].seen, Twos(x, y), F, G)
      /\ c.at[c.steps].seen = d.at[d.steps].seen
      /\ c.at[c.steps].met = {z[1] : z \in G} /\ d.at[d.steps].met = {z[2] : z \in G}
  BY <1>2, Zenon DEF Beside
<1> QED BY <1>5, <1>6

-----------------------------------------------------------------------------
(* What two programs reach on the same way                                 *)

LEMMA TogetherIs ==
  ASSUME NEW p, NEW q PROVE \E R : Rounds(p, q, R)
<1> DEFINE First == [all |-> FirstPairs, new |-> FirstPairs]
           IsReach(R, n) == R = [k \in 0..n |-> IF k = 0 THEN First ELSE More(p, q, R[k - 1])]
<1>1. Longest \in Nat BY LongestIs
<1>2. \A n \in Nat : \E R : IsReach(R, n)
  <2> DEFINE Bad == {n \in Nat : ~\E R : IsReach(R, n)}
  <2> HIDE DEF First
  <2> SUFFICES ASSUME Bad # {} PROVE FALSE OBVIOUS
  <2>1. PICK n \in Bad : \A k \in Nat : k < n => k \notin Bad
    <3>1. Bad \subseteq Nat OBVIOUS
    <3> QED BY <3>1, Least
  <2>2. n # 0
    <3> DEFINE R0 == [k \in 0..0 |-> First]
    <3>1. IsReach(R0, 0) OBVIOUS
    <3> QED BY <3>1
  <2>3. PICK R : IsReach(R, n - 1)
    <3>1. n - 1 \in Nat /\ n - 1 < n BY <2>2
    <3> QED BY <2>1, <3>1
  <2> DEFINE Q == [k \in 0..n |-> IF k = n THEN More(p, q, R[n - 1]) ELSE R[k]]
  <2>4. IsReach(Q, n)
    <3>1. n \in Nat \ {0} BY <2>2
    <3>2. ASSUME NEW k \in 0..n PROVE Q[k] = IF k = 0 THEN First ELSE More(p, q, Q[k - 1])
      <4>1. CASE k = n BY <3>1, <4>1
      <4>2. CASE k # n
        <5>1. k \in 0..(n - 1) /\ Q[k] = R[k] BY <3>1, <4>2
        <5>2. R[k] = IF k = 0 THEN First ELSE More(p, q, R[k - 1]) BY <2>3, <5>1
        <5>3. k # 0 => Q[k - 1] = R[k - 1] BY <3>1, <4>2
        <5> QED BY <5>1, <5>2, <5>3
      <4> QED BY <4>1, <4>2
    <3> QED BY <3>2
  <2> QED BY <2>4
<1> DEFINE R == CHOOSE R : IsReach(R, Longest)
<1>3. IsReach(R, Longest)
  <2> HIDE DEF IsReach
  <2> QED BY <1>1, <1>2
<1>4. Together(p, q) = R[Longest].all BY DEF Together, Both, More, Newly, FirstPairs
<1> HIDE DEF R
<1>5. R[0] = First /\ \A k \in 1..Longest : R[k] = More(p, q, R[k - 1])
  <2> HIDE DEF First
  <2>1. \A k \in 0..Longest : R[k] = IF k = 0 THEN First ELSE More(p, q, R[k - 1]) BY <1>3
  <2>2. 0 \in 0..Longest /\ \A k \in 1..Longest : k \in 0..Longest /\ k # 0 BY <1>1
  <2> QED BY <2>1, <2>2
<1>6. First.all = FirstPairs /\ First.new = FirstPairs OBVIOUS
<1>7. \A k \in 1..Longest : R[k].new = Newly(p, q, R[k - 1]) /\ R[k].all = R[k - 1].all \cup R[k].new
  <2> SUFFICES ASSUME NEW k \in 1..Longest
               PROVE  R[k].new = Newly(p, q, R[k - 1]) /\ R[k].all = R[k - 1].all \cup R[k].new
    OBVIOUS
  <2>1. PICK r, n : r = R[k - 1] /\ n = Newly(p, q, r) OBVIOUS
  <2>2. R[k] = [all |-> r.all \cup n, new |-> n] BY <1>5, <2>1 DEF More
  <2>3. R[k].new = n /\ R[k].all = r.all \cup n BY <2>2
  <2> QED BY <2>1, <2>3
<1> QED BY <1>4, <1>5, <1>6, <1>7 DEF Rounds

\* A set of pairs of things, with the root's in it, closed under what both
\* refer to at the same place, has all of it.
LEMMA TogetherStays ==
  ASSUME NEW p, NEW q, NEW C, <<<<Root, <<>>>>, <<Root, <<>>>>>> \in C,
         \A z \in C : Both(p, q, z) \subseteq C
  PROVE  Together(p, q) \subseteq C
<1>1. PICK R : Rounds(p, q, R) BY TogetherIs
<1> DEFINE In(r) == r.all \subseteq C /\ r.new \subseteq C
<1>2. ASSUME NEW k \in 0..(Longest - 1), In(R[k]) PROVE In(R[k + 1])
  <2>1. k + 1 \in 1..Longest /\ (k + 1) - 1 = k BY LongestIs
  <2>2. R[k + 1].new = Newly(p, q, R[k]) /\ R[k + 1].all = R[k].all \cup R[k + 1].new
    BY <1>1, <2>1 DEF Rounds
  <2>3. Newly(p, q, R[k]) \subseteq C BY <1>2 DEF Newly
  <2> QED BY <1>2, <2>2, <2>3
<1>3. In(R[Longest])
  <2>1. PICK S : S = {k \in Nat : In(R[k])} OBVIOUS
  <2>2. 0 \in S BY <1>1, <2>1 DEF Rounds, FirstPairs
  <2>3. \A k \in 0..(Longest - 1) : k \in S => k + 1 \in S BY <1>2, <2>1
  <2> HIDE DEF In
  <2>4. \A k \in 0..Longest : k \in S BY <2>2, <2>3, Upward, LongestIs
  <2> QED BY <2>1, <2>4, LongestIs
<1> QED BY <1>1, <1>3 DEF Rounds

LEMMA PairsJoin ==
  ASSUME NEW a \in Seq(Pair), NEW b \in Seq(Pair)
  PROVE  /\ a \o b \in Seq(Pair) /\ Len(a \o b) = Len(a) + Len(b)
         /\ \A i \in DOMAIN a : (a \o b)[i] = a[i]
         /\ \A i \in DOMAIN b : (a \o b)[Len(a) + i] = b[i]
<1> PICK S : S = Pair OBVIOUS
<1>1. a \in Seq(S) /\ b \in Seq(S) OBVIOUS
<1>2. /\ a \o b \in Seq(S) /\ Len(a \o b) = Len(a) + Len(b)
      /\ \A i \in DOMAIN a : (a \o b)[i] = a[i]
      /\ \A i \in DOMAIN b : (a \o b)[Len(a) + i] = b[i]
  BY <1>1
<1> QED BY <1>2

LEMMA SameEnds ==
  ASSUME NEW m \in Nat, NEW n \in Nat, 1..m = 1..n PROVE m = n
<1>1. \A i \in Nat : i >= 1 => (i <= m <=> i <= n)
  <2>1. \A i \in Nat : (i \in 1..m <=> i >= 1 /\ i <= m) /\ (i \in 1..n <=> i >= 1 /\ i <= n)
    OBVIOUS
  <2> QED BY <2>1
<1>2. (m >= 1 => m <= n) /\ (n >= 1 => n <= m) BY <1>1
<1> QED BY <1>2

\* What both refer to at place i, and how it comes about.
LEMMA FunctionKin ==
  ASSUME NEW p \in Program, NEW x \in Pair, x[1] \in Fn
  PROVE  /\ DOMAIN Kin(p, x) = 1..(1 + Len(p.captures[x[1]])) /\ Len(p.captures[x[1]]) \in Nat
         /\ DOMAIN p.captures[x[1]] = 1..Len(p.captures[x[1]])
         /\ Kin(p, x)[1] = <<CodeOf[x[1]], <<>>>>
         /\ \A n \in DOMAIN p.captures[x[1]] :
              Kin(p, x)[1 + n] = <<p.captures[x[1]][n], p.names[CodeOf[x[1]]]>>
<1>1. PICK f, s, ns : f = x[1] /\ s = p.captures[f] /\ ns = p.names[CodeOf[f]] OBVIOUS
<1> DEFINE a == <<<<CodeOf[f], <<>>>>>>
           b == Under(s, ns)
<1>2. Kin(p, x) = a \o b /\ a \in Seq(Pair) /\ b \in Seq(Pair)
  <2>1. /\ Kin(p, x) = <<<<CodeOf[x[1]], <<>>>>>> \o Under(p.captures[x[1]], p.names[CodeOf[x[1]]])
        /\ <<<<CodeOf[x[1]], <<>>>>>> \in Seq(Pair)
        /\ Under(p.captures[x[1]], p.names[CodeOf[x[1]]]) \in Seq(Pair)
    BY KinIs
  <2> QED BY <1>1, <2>1, Zenon
<1>3. s \in Seq(Object) BY <1>1 DEF Program
<1>4. DOMAIN b = DOMAIN s /\ \A n \in DOMAIN s : b[n] = <<s[n], ns>> BY <1>1 DEF Under
<1>5. Len(a) = 1 /\ DOMAIN a = 1..1 /\ a[1] = <<CodeOf[f], <<>>>> BY <1>1
<1> HIDE DEF a, b
<1>6. /\ a \o b \in Seq(Pair) /\ Len(a \o b) = 1 + Len(b) /\ (a \o b)[1] = a[1]
      /\ \A i \in DOMAIN b : (a \o b)[1 + i] = b[i]
  <2>1. /\ a \o b \in Seq(Pair) /\ Len(a \o b) = Len(a) + Len(b)
        /\ \A i \in DOMAIN a : (a \o b)[i] = a[i]
        /\ \A i \in DOMAIN b : (a \o b)[Len(a) + i] = b[i]
    BY <1>2, PairsJoin, Zenon
  <2>2. 1 \in DOMAIN a BY <1>5
  <2> QED BY <1>5, <2>1, <2>2
<1>7. /\ DOMAIN (a \o b) = 1..Len(a \o b) /\ DOMAIN s = 1..Len(s) /\ DOMAIN b = 1..Len(b)
      /\ Len(s) \in Nat /\ Len(b) \in Nat
  BY <1>2, <1>3, <1>6
<1>8. Len(b) = Len(s) BY <1>4, <1>7
<1>9. /\ DOMAIN (a \o b) = 1..(1 + Len(s)) /\ (a \o b)[1] = <<CodeOf[f], <<>>>>
      /\ \A n \in DOMAIN s : (a \o b)[1 + n] = <<s[n], ns>>
  BY <1>4, <1>5, <1>6, <1>7, <1>8
<1> QED BY <1>1, <1>2, <1>7, <1>9

LEMMA CodeKin ==
  ASSUME NEW p \in Program, NEW x \in Pair, x[1] \in Code
  PROVE  LET c == x[1]
             m == Len(Inner[c])
             ns == p.names[c]
         IN  /\ m \in Nat /\ Len(ns) \in Nat /\ DOMAIN ns = 1..Len(ns)
             /\ DOMAIN Kin(p, x) = 1..(m + Len(ns))
             /\ \A i \in 1..m : Inner[c][i] \in Code /\ Kin(p, x)[i] = <<Inner[c][i], <<>>>>
             /\ \A n \in 1..Len(ns) : Kin(p, x)[m + n] = <<p.bound[ns[n]], ns>>
<1>1. PICK c, m, ns : c = x[1] /\ m = Len(Inner[c]) /\ ns = p.names[c] OBVIOUS
<1> DEFINE a == Under(Inner[c], <<>>)
           b == [i \in DOMAIN ns |-> <<p.bound[ns[i]], ns>>]
<1>2. Kin(p, x) = a \o b /\ a \in Seq(Pair) /\ b \in Seq(Pair)
  <2>1. c \in Code /\ c = x[1] /\ ns = p.names[x[1]] BY <1>1
  <2>2. b = [i \in DOMAIN p.names[x[1]] |-> <<p.bound[p.names[x[1]][i]], p.names[x[1]]>>] BY <2>1
  <2>3. /\ Kin(p, x) = Under(Inner[x[1]], <<>>) \o
             [i \in DOMAIN p.names[x[1]] |-> <<p.bound[p.names[x[1]][i]], p.names[x[1]]>>]
        /\ Under(Inner[x[1]], <<>>) \in Seq(Pair)
        /\ [i \in DOMAIN p.names[x[1]] |-> <<p.bound[p.names[x[1]][i]], p.names[x[1]]>>] \in Seq(Pair)
    BY KinIs, Zenon
  <2> HIDE DEF b
  <2> QED BY <2>1, <2>2, <2>3, Zenon
<1>3. ns \in Seq(Name) /\ Inner[c] \in Seq(Code) BY <1>1, HashAssumption DEF Program
<1>4. /\ DOMAIN a = DOMAIN Inner[c] /\ \A i \in DOMAIN Inner[c] : a[i] = <<Inner[c][i], <<>>>>
      /\ DOMAIN b = DOMAIN ns /\ \A n \in DOMAIN ns : b[n] = <<p.bound[ns[n]], ns>>
  BY DEF Under
<1> HIDE DEF a, b
<1>5. /\ DOMAIN a = 1..Len(a) /\ DOMAIN b = 1..Len(b) /\ DOMAIN ns = 1..Len(ns) /\ DOMAIN Inner[c] = 1..m
      /\ Len(a) \in Nat /\ Len(b) \in Nat /\ Len(ns) \in Nat /\ m \in Nat
      /\ \A i \in 1..m : Inner[c][i] \in Code
  BY <1>1, <1>2, <1>3
<1>6. Len(a) = m /\ Len(b) = Len(ns)
  <2>1. 1..Len(a) = 1..m /\ 1..Len(b) = 1..Len(ns) BY <1>4, <1>5, Zenon
  <2> QED BY <1>5, <2>1, SameEnds, Zenon
<1>7. /\ a \o b \in Seq(Pair) /\ Len(a \o b) = m + Len(ns)
      /\ \A i \in DOMAIN a : (a \o b)[i] = a[i]
      /\ \A i \in DOMAIN b : (a \o b)[m + i] = b[i]
  <2>1. /\ a \o b \in Seq(Pair) /\ Len(a \o b) = Len(a) + Len(b)
        /\ \A i \in DOMAIN a : (a \o b)[i] = a[i]
        /\ \A i \in DOMAIN b : (a \o b)[Len(a) + i] = b[i]
    BY <1>2, PairsJoin, Zenon
  <2> QED BY <1>6, <2>1
<1>8. DOMAIN (a \o b) = 1..Len(a \o b) BY <1>7
<1>9. /\ m \in Nat /\ Len(ns) \in Nat /\ DOMAIN ns = 1..Len(ns)
      /\ DOMAIN (a \o b) = 1..(m + Len(ns))
      /\ \A i \in 1..m : Inner[c][i] \in Code /\ (a \o b)[i] = <<Inner[c][i], <<>>>>
      /\ \A n \in 1..Len(ns) : (a \o b)[m + n] = <<p.bound[ns[n]], ns>>
  BY <1>4, <1>5, <1>7, <1>8
<1> QED BY <1>1, <1>2, <1>9

LEMMA ClassKin ==
  ASSUME NEW p \in Program, NEW x \in Pair, x[1] \in Cls, Bases[x[1]] = <<>>
  PROVE  /\ DOMAIN Kin(p, x) = DOMAIN p.methods[x[1]]
         /\ \A n \in DOMAIN p.methods[x[1]] : Kin(p, x)[n] = <<p.methods[x[1]][n][2], <<>>>>
<1> DEFINE ms == p.methods[x[1]]
           a == Under(Bases[x[1]], <<>>)
           b == [i \in DOMAIN ms |-> <<ms[i][2], <<>>>>]
<1>2. Kin(p, x) = a \o b /\ a \in Seq(Pair) /\ b \in Seq(Pair) BY KinIs, Zenon
<1>3. a = <<>> BY DEF Under
<1>4. DOMAIN b = DOMAIN ms /\ \A n \in DOMAIN ms : b[n] = <<ms[n][2], <<>>>> OBVIOUS
<1> HIDE DEF a, b
<1>5. a \o b = b BY <1>2, <1>3
<1>6. Kin(p, x) = b BY <1>2, <1>5
<1> QED BY <1>4, <1>6

-----------------------------------------------------------------------------
(* When nothing is left to do together                                     *)

LEMMA OnlyAkin ==
  ASSUME NEW p, NEW q, NEW F, NEW o, NEW o2, Pend(p, q, {}, F, o, o2) PROVE Akin(p, q, F, o, o2)
BY DEF Pend, Held

LEMMA MetPaired ==
  ASSUME NEW p, NEW q, NEW S, NEW F, NEW f \in Fn, NEW g \in Fn, MetWell(p, q, S, {}, F, f, g)
  PROVE  Paired(p, q, S, F, f, g)
<1>1. ~Capturing(p, q, {}, F, f, g) BY DEF Capturing
<1>2. HaveCaptured(p, q, S, {}, F, f, g) BY <1>1 DEF MetWell
<1>3. CodeOf[f] = CodeOf[g] /\ CodeOf[f] \in S BY <1>2 DEF HaveCaptured, Held
<1>4. /\ DOMAIN p.captures[f] = DOMAIN q.captures[g]
      /\ \A n \in DOMAIN p.captures[f] : Alike(p, q, {}, F, f, g, n)
  BY <1>2 DEF HaveCaptured
<1>5. \A n \in DOMAIN p.captures[f] : Akin(p, q, F, p.captures[f][n], q.captures[g][n])
  BY <1>4, OnlyAkin DEF Alike
<1> QED BY <1>3, <1>4, <1>5 DEF Paired

LEMMA CapturedSame ==
  ASSUME NEW p \in Program, NEW f \in Fn, NEW g \in Fn, CapturedIn(p, f) = CapturedIn(p, g)
  PROVE  /\ DOMAIN p.captures[f] = DOMAIN p.captures[g]
         /\ \A n \in DOMAIN p.captures[f] : Same(p.captures[f][n], p.captures[g][n])
<1>1. /\ DOMAIN CapturedIn(p, f) = DOMAIN p.captures[f] /\ DOMAIN CapturedIn(p, g) = DOMAIN p.captures[g]
  BY DEF CapturedIn
<1>2. DOMAIN p.captures[f] = DOMAIN p.captures[g] BY <1>1
<1>3. ASSUME NEW n \in DOMAIN p.captures[f] PROVE Same(p.captures[f][n], p.captures[g][n])
  <2>1. PICK a, b : a = p.captures[f][n] /\ b = p.captures[g][n] OBVIOUS
  <2>2. a \in Object /\ b \in Object
    <3>1. p.captures[f] \in Seq(Object) /\ p.captures[g] \in Seq(Object) /\ n \in DOMAIN p.captures[g]
      BY <1>2 DEF Program
    <3> QED BY <2>1, <3>1
  <2>3. /\ CapturedIn(p, f)[n] = IF a \in Mutable THEN TypeOf[a] ELSE a
        /\ CapturedIn(p, g)[n] = IF b \in Mutable THEN TypeOf[b] ELSE b
    BY <1>2, <2>1 DEF CapturedIn
  <2>4. (IF a \in Mutable THEN TypeOf[a] ELSE a) = (IF b \in Mutable THEN TypeOf[b] ELSE b) BY <2>3
  <2>5. (a \in Mutable => TypeOf[a] # b) /\ (b \in Mutable => TypeOf[b] # a) BY <2>2, HashAssumption
  <2> QED BY <2>1, <2>4, <2>5 DEF Same
<1> QED BY <1>2, <1>3

\* Akin to akin things are akin.
LEMMA AkinOver ==
  ASSUME NEW p, NEW q, NEW F, F \subseteq Fn \X Fn, NEW o, NEW o2, Akin(p, q, F, o, o2),
         NEW a, NEW b, Same(a, o), Same(b, o2)
  PROVE  Akin(p, q, F, a, b)
<1>1. CASE <<o, o2>> \in F
  <2>1. o \in Fn /\ o2 \in Fn BY <1>1
  <2>2. o \notin Mutable /\ o2 \notin Mutable BY <2>1, KindsApart
  <2>3. a = o /\ b = o2 BY <2>2 DEF Same
  <2> QED BY <2>3
<1>2. CASE o \in Mutable /\ o2 \in Mutable /\ TypeOf[o] = TypeOf[o2] BY <1>2 DEF Same, Akin
<1>3. CASE o = o2 /\ o \notin Mutable
  <2>1. a = o /\ b = o2 BY <1>3 DEF Same
  <2> QED BY <2>1
<1> QED BY <1>1, <1>2, <1>3 DEF Akin

\* Among the functions of a code that were met, none captured other values.
LEMMA SkippedPaired ==
  ASSUME NEW p \in Program, NEW q \in Program, NEW S, NEW F, NEW G, F \subseteq Fn \X Fn, G \subseteq F,
         \A z \in G : Paired(p, q, S, F, z[1], z[2]),
         NEW f \in Fn, NEW g \in Fn, Skipped(p, q, S, G, f, g)
  PROVE  Paired(p, q, S, F, f, g)
<1>1. CodeOf[f] = CodeOf[g] /\ CodeOf[f] \in S BY DEF Skipped
<1>2. PICK E \in SUBSET G : KnownAmong(p, {z[1] : z \in E}, f) /\ KnownAmong(q, {z[2] : z \in E}, g)
  BY DEF Skipped
<1> DEFINE A == {h \in {z[1] : z \in E} : CodeOf[h] = CodeOf[f]}
           B == {h \in {z[2] : z \in E} : CodeOf[h] = CodeOf[g]}
<1>3. /\ A = {} => p.captures[f] = <<>>
      /\ A # {} => \A h \in A : CapturedIn(p, h) = CapturedIn(p, f)
  BY <1>2 DEF KnownAmong
<1>4. /\ B = {} => q.captures[g] = <<>>
      /\ B # {} => \A h \in B : CapturedIn(q, h) = CapturedIn(q, g)
  BY <1>2 DEF KnownAmong
<1>5. ASSUME NEW z \in E PROVE Paired(p, q, S, F, z[1], z[2]) BY <1>2
<1>6. \A z \in E : CodeOf[z[1]] = CodeOf[z[2]] BY <1>5 DEF Paired
<1>7. CASE A = {}
  <2>1. B = {} BY <1>1, <1>6, <1>7
  <2>2. p.captures[f] = <<>> /\ q.captures[g] = <<>> BY <1>3, <1>4, <1>7, <2>1
  <2> QED BY <1>1, <2>2 DEF Paired
<1>8. CASE A # {}
  <2>1. PICK z \in E : CodeOf[z[1]] = CodeOf[f] BY <1>8
  <2>2. PICK x, y : x = z[1] /\ y = z[2] OBVIOUS
  <2>3. x \in A /\ y \in B BY <1>1, <1>6, <2>1, <2>2
  <2>4. Paired(p, q, S, F, x, y) BY <1>5, <2>2
  <2>5. CapturedIn(p, f) = CapturedIn(p, x) /\ CapturedIn(q, g) = CapturedIn(q, y)
    BY <1>3, <1>4, <2>3
  <2>6. x \in Fn /\ y \in Fn BY <2>4 DEF Paired
  <2>7. /\ DOMAIN p.captures[f] = DOMAIN p.captures[x]
        /\ \A n \in DOMAIN p.captures[f] : Same(p.captures[f][n], p.captures[x][n])
    BY <2>5, <2>6, CapturedSame
  <2>8. /\ DOMAIN q.captures[g] = DOMAIN q.captures[y]
        /\ \A n \in DOMAIN q.captures[g] : Same(q.captures[g][n], q.captures[y][n])
    BY <2>5, <2>6, CapturedSame
  <2>9. /\ DOMAIN p.captures[x] = DOMAIN q.captures[y]
        /\ \A n \in DOMAIN p.captures[x] : Akin(p, q, F, p.captures[x][n], q.captures[y][n])
    BY <2>4 DEF Paired
  <2>10. ASSUME NEW n \in DOMAIN p.captures[f]
         PROVE  Akin(p, q, F, p.captures[f][n], q.captures[g][n])
    <3>1. /\ Same(p.captures[f][n], p.captures[x][n]) /\ Same(q.captures[g][n], q.captures[y][n])
          /\ Akin(p, q, F, p.captures[x][n], q.captures[y][n])
      BY <2>7, <2>8, <2>9
    <3> QED BY <3>1, AkinOver, Zenon
  <2>11. DOMAIN p.captures[f] = DOMAIN q.captures[g] BY <2>7, <2>8, <2>9
  <2> QED BY <1>1, <2>10, <2>11 DEF Paired
<1> QED BY <1>7, <1>8

LEMMA AllPaired ==
  ASSUME NEW p \in Program, NEW q \in Program, NEW S, NEW F, NEW G, Kept(p, q, S, {}, F, G)
  PROVE  \A z \in F : Paired(p, q, S, F, z[1], z[2])
<1>1. /\ G \subseteq F /\ F \subseteq Fn \X Fn
      /\ \A z \in G : MetWell(p, q, S, {}, F, z[1], z[2])
      /\ \A z \in F \ G : Skipped(p, q, S, G, z[1], z[2])
  BY DEF Kept
<1>2. \A z \in F : z[1] \in Fn /\ z[2] \in Fn BY <1>1
<1>3. ASSUME NEW z \in G PROVE Paired(p, q, S, F, z[1], z[2])
  <2>1. z[1] \in Fn /\ z[2] \in Fn /\ MetWell(p, q, S, {}, F, z[1], z[2]) BY <1>1, <1>2
  <2> QED BY <2>1, MetPaired, Zenon
<1>4. \A z \in G : Paired(p, q, S, F, z[1], z[2]) BY <1>3
<1>5. ASSUME NEW z \in F \ G PROVE Paired(p, q, S, F, z[1], z[2])
  <2>1. z[1] \in Fn /\ z[2] \in Fn /\ Skipped(p, q, S, G, z[1], z[2]) BY <1>1, <1>2
  <2> QED BY <1>1, <1>4, <2>1, SkippedPaired, Zenon
<1> QED BY <1>4, <1>5

LEMMA AkinKinds ==
  ASSUME NEW p, NEW q, NEW F, F \subseteq Fn \X Fn, NEW o, NEW o2, Akin(p, q, F, o, o2)
  PROVE  /\ o \in Fn => <<o, o2>> \in F /\ o2 \in Fn
         /\ o \in Mutable => o2 \in Mutable /\ TypeOf[o] = TypeOf[o2]
         /\ o \notin Fn \cup Mutable => o2 = o
         /\ o \in Outside => p.version = q.version
<1>1. CASE <<o, o2>> \in F
  <2>1. o \in Fn /\ o2 \in Fn BY <1>1
  <2>2. o \notin Mutable /\ o \notin Outside BY <2>1, KindsApart
  <2> QED BY <1>1, <2>1, <2>2
<1>2. CASE o = o2 /\ o \notin Fn /\ (o \in Outside => p.version = q.version) BY <1>2
<1>3. CASE o \in Mutable /\ o2 \in Mutable /\ TypeOf[o] = TypeOf[o2]
  <2>1. o \notin Fn /\ o \notin Outside BY <1>3, KindsApart
  <2> QED BY <1>3, <2>1
<1> QED BY <1>1, <1>2, <1>3 DEF Akin

LEMMA AkinThing ==
  ASSUME NEW p, NEW q, NEW F, F \subseteq Fn \X Fn, NEW o, NEW o2, Akin(p, q, F, o, o2),
         o \notin Fn, o \notin Mutable
  PROVE  o2 = o
BY AkinKinds

\* They are the same, but for what they refer to.
LEMMA OwnSame ==
  ASSUME NEW p \in Program, NEW q \in Program, NEW S, NEW F, NEW G, Kept(p, q, S, {}, F, G),
         NEW x, NEW y, Mated(p, q, S, F, x, y)
  PROVE  Own(p, x[1]) = Own(q, y[1])
<1>1. PICK o, o2 : o = x[1] /\ o2 = y[1] OBVIOUS
<1>2. F \subseteq Fn \X Fn /\ \A r \in S : Own(p, r) = Own(q, r) BY DEF Kept, SeenWell
<1>3. Akin(p, q, F, o, o2) /\ (o2 \in Code \cup Cls \cup Mod => o2 \in S) BY <1>1 DEF Mated
<1>4. /\ o \in Fn => <<o, o2>> \in F /\ o2 \in Fn
      /\ o \in Mutable => o2 \in Mutable /\ TypeOf[o] = TypeOf[o2]
      /\ o \notin Fn \cup Mutable => o2 = o
      /\ o \in Outside => p.version = q.version
  BY <1>2, <1>3, AkinKinds
<1>5. CASE o \in Fn
  <2>1. PICK z \in F : z = <<o, o2>> BY <1>4, <1>5
  <2>2. Paired(p, q, S, F, z[1], z[2]) BY AllPaired
  <2>3. Paired(p, q, S, F, o, o2) BY <2>1, <2>2
  <2>4. CodeOf[o] = CodeOf[o2] /\ DOMAIN p.captures[o] = DOMAIN q.captures[o2] BY <2>3 DEF Paired
  <2>5. p.captures[o] \in Seq(Object) /\ q.captures[o2] \in Seq(Object) BY <1>4, <1>5 DEF Program
  <2>6. Len(p.captures[o]) = Len(q.captures[o2]) BY <2>4, <2>5
  <2>7. Own(p, o) = <<CodeOf[o], Len(p.captures[o])>> /\ Own(q, o2) = <<CodeOf[o2], Len(q.captures[o2])>>
    BY <1>4, <1>5 DEF Own
  <2> QED BY <1>1, <2>4, <2>6, <2>7
<1>6. CASE o \in Mutable
  <2>1. \A m \in Mutable : m \notin Fn \cup Code \cup Cls \cup Mod \cup Outside
    BY HashAssumption DEF Object
  <2>2. \A m \in Mutable : Own(p, m) = <<TypeOf[m]>> /\ Own(q, m) = <<TypeOf[m]>> BY <2>1 DEF Own
  <2> QED BY <1>1, <1>4, <1>6, <2>2
<1>7. CASE o \in Code \cup Cls \cup Mod
  <2>1. o \notin Fn \cup Mutable BY <1>7, KindsApart
  <2>2. o2 = o /\ o \in S BY <1>3, <1>4, <1>7, <2>1
  <2> QED BY <1>1, <1>2, <2>2
<1>8. CASE o \in Outside
  <2>1. o \notin Fn \cup Mutable \cup Code \cup Cls \cup Mod BY <1>8, HashAssumption DEF Object
  <2>2. o2 = o /\ p.version = q.version BY <1>4, <1>8, <2>1
  <2>3. Own(p, o) = <<o, p.version>> /\ Own(q, o) = <<o, q.version>> BY <1>8, <2>1 DEF Own
  <2> QED BY <1>1, <2>2, <2>3
<1>9. CASE o \notin Fn \cup Mutable \cup Code \cup Cls \cup Mod \cup Outside
  <2>1. o2 = o BY <1>4, <1>9
  <2>2. Own(p, o) = <<o>> /\ Own(q, o) = <<o>> BY <1>9 DEF Own
  <2> QED BY <1>1, <2>1, <2>2
<1> QED BY <1>5, <1>6, <1>7, <1>8, <1>9

\* What both are, when it is of no kind that differs.
LEMMA AkinSame ==
  ASSUME NEW p, NEW q, NEW F, NEW o, o \notin Fn, o \notin Outside PROVE Akin(p, q, F, o, o)
BY DEF Akin

LEMMA SaysAkin ==
  ASSUME NEW p, NEW q, NEW F, NEW x, NEW y, NEW i, NEW a, NEW b, NEW ns,
         Kin(p, x)[i] = <<a, ns>>, Kin(q, y)[i] = <<b, ns>>, Akin(p, q, F, a, b)
  PROVE  KinAkin(p, q, F, x, y, i)
BY DEF KinAkin

LEMMA FunctionsKin ==
  ASSUME NEW p \in Program, NEW q \in Program, NEW S, NEW F, NEW G, Kept(p, q, S, {}, F, G),
         NEW x, NEW y, Mated(p, q, S, F, x, y), x[1] \in Fn, NEW i \in DOMAIN Kin(p, x) \cap DOMAIN Kin(q, y)
  PROVE  KinAkin(p, q, F, x, y, i)
<1>1. PICK f, g : f = x[1] /\ g = y[1] OBVIOUS
<1>2. F \subseteq Fn \X Fn /\ Akin(p, q, F, f, g) /\ f \in Fn /\ x \in Pair /\ y \in Pair
  BY <1>1 DEF Kept, Mated
<1>3. <<f, g>> \in F /\ g \in Fn BY <1>2, AkinKinds
<1>4. Paired(p, q, S, F, f, g)
  <2>1. PICK z \in F : z = <<f, g>> BY <1>3
  <2>2. Paired(p, q, S, F, z[1], z[2]) BY AllPaired
  <2> QED BY <2>1, <2>2
<1>5. PICK c : c = CodeOf[f] OBVIOUS
<1>6. CodeOf[g] = c /\ c \in S /\ c \in Code BY <1>2, <1>4, <1>5, HashAssumption DEF Paired
<1>7. p.names[c] = q.names[c]
  <2>1. Own(p, c) = Own(q, c) BY <1>6 DEF Kept, SeenWell
  <2>2. c \notin Fn BY <1>6, KindsApart
  <2>3. /\ Own(p, c) = <<c, p.body[c], p.literal[c], p.signature[c], p.names[c]>>
        /\ Own(q, c) = <<c, q.body[c], q.literal[c], q.signature[c], q.names[c]>>
    BY <1>6, <2>2 DEF Own
  <2>4. <<c, p.body[c], p.literal[c], p.signature[c], p.names[c]>>
          = <<c, q.body[c], q.literal[c], q.signature[c], q.names[c]>>
    BY <2>1, <2>3, Zenon
  <2> QED BY <2>4
<1>8. /\ DOMAIN Kin(p, x) = 1..(1 + Len(p.captures[f])) /\ Len(p.captures[f]) \in Nat
      /\ DOMAIN p.captures[f] = 1..Len(p.captures[f])
      /\ Kin(p, x)[1] = <<c, <<>>>>
      /\ \A n \in DOMAIN p.captures[f] : Kin(p, x)[1 + n] = <<p.captures[f][n], p.names[c]>>
  BY <1>1, <1>2, <1>5, FunctionKin
<1>9. /\ DOMAIN Kin(q, y) = 1..(1 + Len(q.captures[g])) /\ Len(q.captures[g]) \in Nat
      /\ DOMAIN q.captures[g] = 1..Len(q.captures[g])
      /\ Kin(q, y)[1] = <<c, <<>>>>
      /\ \A n \in DOMAIN q.captures[g] : Kin(q, y)[1 + n] = <<q.captures[g][n], q.names[c]>>
  BY <1>1, <1>2, <1>3, <1>6, FunctionKin
<1>10. CASE i = 1
  <2>1. c \notin Fn /\ c \notin Outside BY <1>6, KindsApart
  <2>2. Akin(p, q, F, c, c) BY <2>1, AkinSame
  <2> QED BY <1>8, <1>9, <1>10, <2>2, SaysAkin, Zenon
<1>11. CASE i # 1
  <2>1. PICK n : i = 1 + n /\ n \in 1..Len(p.captures[f]) /\ n \in 1..Len(q.captures[g])
    <3>1. PICK n : n = i - 1 OBVIOUS
    <3>2. i \in 1..(1 + Len(p.captures[f])) /\ i \in 1..(1 + Len(q.captures[g]))
      BY <1>8, <1>9, Zenon
    <3>3. i = 1 + n /\ n \in 1..Len(p.captures[f]) /\ n \in 1..Len(q.captures[g])
      <4>1. Len(p.captures[f]) \in Nat /\ Len(q.captures[g]) \in Nat BY <1>8, <1>9, Zenon
      <4> QED BY <1>11, <3>1, <3>2, <4>1
    <3> QED BY <3>3, Zenon
  <2>2. n \in DOMAIN p.captures[f] /\ n \in DOMAIN q.captures[g] BY <1>8, <1>9, <2>1
  <2>3. Akin(p, q, F, p.captures[f][n], q.captures[g][n]) BY <1>4, <2>2 DEF Paired
  <2>4. Kin(p, x)[i] = <<p.captures[f][n], p.names[c]>> /\ Kin(q, y)[i] = <<q.captures[g][n], p.names[c]>>
    BY <1>7, <1>8, <1>9, <2>1, <2>2
  <2> QED BY <2>3, <2>4, SaysAkin, Zenon
<1> QED BY <1>10, <1>11

LEMMA CodesKin ==
  ASSUME NEW p \in Program, NEW q \in Program, NEW S, NEW F, NEW G, Kept(p, q, S, {}, F, G),
         NEW x, NEW y, Mated(p, q, S, F, x, y), x[1] \in Code, NEW i \in DOMAIN Kin(p, x) \cap DOMAIN Kin(q, y)
  PROVE  KinAkin(p, q, F, x, y, i)
<1>1. PICK c : c = x[1] OBVIOUS
<1>2. /\ F \subseteq Fn \X Fn /\ Akin(p, q, F, c, y[1]) /\ c \in Code /\ x \in Pair /\ y \in Pair
      /\ (y[1] \in Code \cup Cls \cup Mod => y[1] \in S)
  BY <1>1 DEF Kept, Mated
<1>3. c \notin Fn /\ c \notin Mutable BY <1>2, KindsApart
<1>4. y[1] = c /\ c \in S
  <2>1. y[1] = c
    <3>1. c \notin Fn /\ c \notin Mutable BY <1>3
    <3> QED BY <1>2, <3>1, AkinThing, Zenon
  <2> QED BY <1>2, <2>1
<1>5. SeenWell(p, q, {}, F, c) BY <1>4 DEF Kept
<1>6. p.names[c] = q.names[c]
  <2>1. Own(p, c) = Own(q, c) BY <1>5 DEF SeenWell
  <2>2. /\ Own(p, c) = <<c, p.body[c], p.literal[c], p.signature[c], p.names[c]>>
        /\ Own(q, c) = <<c, q.body[c], q.literal[c], q.signature[c], q.names[c]>>
    BY <1>2, <1>3 DEF Own
  <2>3. <<c, p.body[c], p.literal[c], p.signature[c], p.names[c]>>
          = <<c, q.body[c], q.literal[c], q.signature[c], q.names[c]>>
    BY <2>1, <2>2, Zenon
  <2> QED BY <2>3
<1>7. PICK m, ns : m = Len(Inner[c]) /\ ns = p.names[c] OBVIOUS
<1>8. /\ m \in Nat /\ Len(ns) \in Nat /\ DOMAIN ns = 1..Len(ns)
      /\ DOMAIN Kin(p, x) = 1..(m + Len(ns))
      /\ \A n \in 1..m : Inner[c][n] \in Code /\ Kin(p, x)[n] = <<Inner[c][n], <<>>>>
      /\ \A n \in 1..Len(ns) : Kin(p, x)[m + n] = <<p.bound[ns[n]], ns>>
  BY <1>1, <1>2, <1>7, CodeKin
<1>9. /\ \A n \in 1..m : Kin(q, y)[n] = <<Inner[c][n], <<>>>>
      /\ \A n \in 1..Len(ns) : Kin(q, y)[m + n] = <<q.bound[ns[n]], ns>>
  <2>1. y[1] \in Code BY <1>2, <1>4
  <2>2. /\ \A n \in 1..Len(Inner[y[1]]) : Kin(q, y)[n] = <<Inner[y[1]][n], <<>>>>
        /\ \A n \in 1..Len(q.names[y[1]]) :
             Kin(q, y)[Len(Inner[y[1]]) + n] = <<q.bound[q.names[y[1]][n]], q.names[y[1]]>>
    BY <1>2, <2>1, CodeKin
  <2>3. /\ \A n \in 1..Len(Inner[c]) : Kin(q, y)[n] = <<Inner[c][n], <<>>>>
        /\ \A n \in 1..Len(q.names[c]) : Kin(q, y)[Len(Inner[c]) + n] = <<q.bound[q.names[c][n]], q.names[c]>>
    BY <1>4, <2>2, Zenon
  <2> QED BY <1>6, <1>7, <2>3, Zenon
<1>10. CASE i \in 1..m
  <2>1. Inner[c][i] \in Code BY <1>8, <1>10
  <2>2. Inner[c][i] \notin Fn /\ Inner[c][i] \notin Outside BY <2>1, KindsApart
  <2>3. Akin(p, q, F, Inner[c][i], Inner[c][i]) BY <2>2, AkinSame
  <2>4. Kin(p, x)[i] = <<Inner[c][i], <<>>>> /\ Kin(q, y)[i] = <<Inner[c][i], <<>>>>
    BY <1>8, <1>9, <1>10
  <2> QED BY <2>3, <2>4, SaysAkin, Zenon
<1>11. CASE i \notin 1..m
  <2>1. PICK n \in 1..Len(ns) : i = m + n
    <3>1. PICK n : n = i - m OBVIOUS
    <3>2. i \in 1..(m + Len(ns)) BY <1>8
    <3>3. n \in 1..Len(ns) /\ i = m + n BY <1>8, <1>11, <3>1, <3>2
    <3> QED BY <3>3
  <2>2. Pend(p, q, {}, F, p.bound[ns[n]], q.bound[ns[n]])
    BY <1>2, <1>5, <1>7, <1>8, <2>1 DEF SeenWell
  <2>3. Akin(p, q, F, p.bound[ns[n]], q.bound[ns[n]]) BY <2>2, OnlyAkin
  <2>4. Kin(p, x)[i] = <<p.bound[ns[n]], ns>> /\ Kin(q, y)[i] = <<q.bound[ns[n]], ns>>
    BY <1>8, <1>9, <2>1
  <2> QED BY <2>3, <2>4, SaysAkin, Zenon
<1> QED BY <1>10, <1>11

LEMMA ClassesKin ==
  ASSUME NEW p \in Program, NEW q \in Program, NEW S, NEW F, NEW G, Kept(p, q, S, {}, F, G),
         NEW x, NEW y, Mated(p, q, S, F, x, y), x[1] \in Cls, NEW i \in DOMAIN Kin(p, x) \cap DOMAIN Kin(q, y)
  PROVE  KinAkin(p, q, F, x, y, i)
<1>1. PICK k : k = x[1] OBVIOUS
<1>2. /\ F \subseteq Fn \X Fn /\ Akin(p, q, F, k, y[1]) /\ k \in Cls /\ x \in Pair /\ y \in Pair
      /\ (y[1] \in Code \cup Cls \cup Mod => y[1] \in S)
  BY <1>1 DEF Kept, Mated
<1>3. k \notin Fn /\ k \notin Mutable BY <1>2, KindsApart
<1>4. y[1] = k /\ k \in S
  <2>1. y[1] = k
    <3>1. k \notin Fn /\ k \notin Mutable BY <1>3
    <3> QED BY <1>2, <3>1, AkinThing, Zenon
  <2> QED BY <1>2, <2>1
<1>5. SeenWell(p, q, {}, F, k) BY <1>4 DEF Kept
<1>6. Bases[k] = <<>> /\ \A n \in DOMAIN p.methods[k] : Pend(p, q, {}, F, p.methods[k][n][2], q.methods[k][n][2])
  BY <1>2, <1>5 DEF SeenWell
<1>7. /\ DOMAIN Kin(p, x) = DOMAIN p.methods[k]
      /\ \A n \in DOMAIN p.methods[k] : Kin(p, x)[n] = <<p.methods[k][n][2], <<>>>>
  BY <1>1, <1>2, <1>6, ClassKin, Zenon
<1>8. /\ DOMAIN Kin(q, y) = DOMAIN q.methods[k]
      /\ \A n \in DOMAIN q.methods[k] : Kin(q, y)[n] = <<q.methods[k][n][2], <<>>>>
  BY <1>2, <1>4, <1>6, ClassKin, Zenon
<1>9. Akin(p, q, F, p.methods[k][i][2], q.methods[k][i][2]) BY <1>6, <1>7, OnlyAkin
<1>10. Kin(p, x)[i] = <<p.methods[k][i][2], <<>>>> /\ Kin(q, y)[i] = <<q.methods[k][i][2], <<>>>>
  BY <1>7, <1>8
<1> QED BY <1>9, <1>10, SaysAkin, Zenon

LEMMA ModulesKin ==
  ASSUME NEW p \in Program, NEW q \in Program, NEW S, NEW F, NEW G, Kept(p, q, S, {}, F, G),
         NEW x, NEW y, Mated(p, q, S, F, x, y), x[1] \in Mod, NEW i \in DOMAIN Kin(p, x) \cap DOMAIN Kin(q, y)
  PROVE  KinAkin(p, q, F, x, y, i)
<1>1. PICK m, ns : m = x[1] /\ ns = x[2] OBVIOUS
<1>2. /\ F \subseteq Fn \X Fn /\ Akin(p, q, F, m, y[1]) /\ m \in Mod /\ x \in Pair /\ y \in Pair
      /\ y[2] = ns
  BY <1>1 DEF Kept, Mated
<1>3. m \notin Fn /\ m \notin Mutable BY <1>2, KindsApart
<1>4. y[1] = m
  <2>1. m \notin Fn /\ m \notin Mutable BY <1>3
  <2> QED BY <1>2, <2>1, AkinThing, Zenon
<1>5. /\ Kin(p, x) = [j \in DOMAIN x[2] |-> <<Sub[x[1]][x[2][j]], x[2]>>]
      /\ Kin(q, y) = [j \in DOMAIN y[2] |-> <<Sub[y[1]][y[2][j]], y[2]>>]
  BY <1>1, <1>2, <1>4, KinIs, Zenon
<1>6. i \in DOMAIN ns
  <2>1. DOMAIN Kin(p, x) = DOMAIN x[2] BY <1>5
  <2> QED BY <1>1, <2>1
<1>7. Kin(p, x)[i] = <<Sub[m][ns[i]], ns>> /\ Kin(q, y)[i] = <<Sub[m][ns[i]], ns>>
  BY <1>1, <1>2, <1>4, <1>5, <1>6
<1>8. Sub[m][ns[i]] \in Mod \cup {Nothing}
  <2>1. ns \in Seq(Name) BY <1>1, <1>2 DEF Pair
  <2>2. ns[i] \in Name BY <1>6, <2>1
  <2> QED BY <1>2, <2>2, HashAssumption
<1>9. Sub[m][ns[i]] \notin Fn /\ Sub[m][ns[i]] \notin Outside BY <1>8, KindsApart
<1>10. Akin(p, q, F, Sub[m][ns[i]], Sub[m][ns[i]]) BY <1>9, AkinSame
<1> QED BY <1>7, <1>10, SaysAkin, Zenon

LEMMA AllKin ==
  ASSUME NEW p \in Program, NEW q \in Program, NEW S, NEW F, NEW G, Kept(p, q, S, {}, F, G),
         NEW x, NEW y, Mated(p, q, S, F, x, y), NEW i \in DOMAIN Kin(p, x) \cap DOMAIN Kin(q, y)
  PROVE  KinAkin(p, q, F, x, y, i)
<1>1. CASE x[1] \in Fn BY <1>1, FunctionsKin, Zenon
<1>2. CASE x[1] \in Code BY <1>2, CodesKin, Zenon
<1>3. CASE x[1] \in Cls BY <1>3, ClassesKin, Zenon
<1>4. CASE x[1] \in Mod BY <1>4, ModulesKin, Zenon
<1>5. CASE x[1] \notin Fn \cup Code \cup Cls \cup Mod
  <2>1. x \in Pair BY DEF Mated
  <2>2. Kin(p, x) = <<>> BY <1>5, <2>1, KinIs, Zenon
  <2>3. DOMAIN Kin(p, x) = {} BY <2>2
  <2> QED BY <2>3
<1> QED BY <1>1, <1>2, <1>3, <1>4, <1>5

LEMMA NothingAwaited ==
  ASSUME walk.todo = <<>>, NEW x PROVE ~Awaited(x)
<1>1. Todo = {} BY DEF Todo, Elements
<1> QED BY <1>1 DEF Awaited

\* What was looked at when the walk is done is all seen.
LEMMA InSight ==
  ASSUME NEW M, Closed(M), NEW y, LookedAt(M, y)
  PROVE  y[1] \in Code \cup Cls \cup Mod => y[1] \in walk.seen
<1>1. y[1] \in Code \cup Cls => y[1] \in walk.seen BY DEF LookedAt
<1>2. y[1] \in Mod => y \in M BY DEF LookedAt
<1>3. \A x \in M : x[1] \in walk.seen BY DEF Closed
<1> QED BY <1>1, <1>2, <1>3

\* A program that was kept together with this one, to the end of a walk that
\* looked at all it came to, is the same definition.
LEMMA KeptIsSame ==
  ASSUME loaded \in Program, NEW M, Closed(M), walk.todo = <<>>, NEW p \in Program, NEW F, NEW G,
         Kept(p, loaded, walk.seen, {}, F, G)
  PROVE  SameDefinition(p, loaded)
<1> DEFINE root == <<Root, <<>>>>
           C == {z \in Pair \X Pair :
                   Mated(p, loaded, walk.seen, F, z[1], z[2]) /\ LookedAt(M, z[2])}
<1>1. <<root, root>> \in C
  <2>1. root \in Pair BY Kinds DEF Pair
  <2>2. LookedAt(M, root) BY NothingAwaited DEF Closed
  <2>3. Akin(p, loaded, F, Root, Root)
    <3>1. Pend(p, loaded, {}, F, Root, Root) BY DEF Kept
    <3> QED BY <3>1, OnlyAkin
  <2>4. Root \notin Code \cup Cls \cup Mod BY HashAssumption
  <2>5. Mated(p, loaded, walk.seen, F, root, root) BY <2>1, <2>3, <2>4 DEF Mated
  <2>6. PICK z : z = <<root, root>> OBVIOUS
  <2>7. z \in Pair \X Pair /\ z[1] = root /\ z[2] = root BY <2>1, <2>6
  <2>8. z \in C BY <2>2, <2>5, <2>7
  <2> QED BY <2>6, <2>8
<1>2. ASSUME NEW z \in C PROVE Both(p, loaded, z) \subseteq C
  <2>1. PICK x, y : x = z[1] /\ y = z[2] OBVIOUS
  <2>2. x \in Pair /\ y \in Pair /\ Mated(p, loaded, walk.seen, F, x, y) /\ LookedAt(M, y) BY <2>1
  <2>3. ASSUME NEW i \in DOMAIN Kin(p, x) \cap DOMAIN Kin(loaded, y)
        PROVE  <<Kin(p, x)[i], Kin(loaded, y)[i]>> \in C
    <3>1. PICK a, b : a = Kin(p, x)[i] /\ b = Kin(loaded, y)[i] OBVIOUS
    <3>2. a \in Pair /\ b \in Pair
      <4>1. Kin(p, x) \in Seq(Pair) /\ Kin(loaded, y) \in Seq(Pair) BY <2>2, KinInPair
      <4> QED BY <3>1, <4>1
    <3>3. a[2] = b[2] /\ Akin(p, loaded, F, a[1], b[1])
      <4>1. KinAkin(p, loaded, F, x, y, i) BY <2>2, AllKin, Zenon
      <4> QED BY <3>1, <4>1 DEF KinAkin
    <3>4. LookedAt(M, b)
      <4>1. b \in Refers(loaded, y) BY <3>1 DEF Refers
      <4>2. LookedAt(M, b) \/ Awaited(b) BY <2>2, <4>1 DEF Closed
      <4> QED BY <4>2, NothingAwaited
    <3>5. b[1] \in Code \cup Cls \cup Mod => b[1] \in walk.seen BY <3>4, InSight
    <3>6. Mated(p, loaded, walk.seen, F, a, b) BY <3>2, <3>3, <3>5 DEF Mated
    <3>7. PICK w : w = <<a, b>> OBVIOUS
    <3>8. w \in Pair \X Pair /\ w[1] = a /\ w[2] = b BY <3>2, <3>7
    <3>9. w \in C BY <3>4, <3>6, <3>8
    <3> QED BY <3>1, <3>7, <3>9
  <2> HIDE DEF C
  <2> QED BY <2>1, <2>3 DEF Both
<1>3. ASSUME NEW z \in C PROVE Own(p, z[1][1]) = Own(loaded, z[2][1])
  <2>1. Mated(p, loaded, walk.seen, F, z[1], z[2]) OBVIOUS
  <2> HIDE DEF C
  <2> QED BY <2>1, OwnSame
<1> HIDE DEF C
<1>4. Together(p, loaded) \subseteq C BY <1>1, <1>2, TogetherStays
<1> QED BY <1>3, <1>4 DEF SameDefinition

-----------------------------------------------------------------------------
(* A hit is current                                                        *)

LEMMA CourseStarts ==
  ASSUME NEW p \in Program PROVE \E c : Leads(c, p, NewWalk)
<1> DEFINE at == [k \in 0..0 |-> NewWalk]
           c == [of |-> p, steps |-> 0, at |-> at]
<1>1. c.of = p /\ c.steps = 0 /\ c.at = at OBVIOUS
<1>2. \A k \in 0..0 : at[k] = NewWalk OBVIOUS
<1>3. 0 \in 0..0 /\ 0..(0 - 1) = {} /\ 0 \in Nat OBVIOUS
<1> HIDE DEF at, c
<1>4. TypedWalk(NewWalk) BY NewWalkIs
<1>5. c.at[0] = NewWalk /\ (\A k \in 0..c.steps : c.at[k] = NewWalk) /\ 0..(c.steps - 1) = {}
  BY <1>1, <1>2, <1>3
<1>6. Course(c) BY <1>1, <1>3, <1>4, <1>5 DEF Course
<1>7. Leads(c, p, NewWalk) BY <1>1, <1>5, <1>6 DEF Leads
<1> QED BY <1>7

LEMMA CourseGoesOn ==
  ASSUME NEW p, NEW w, NEW v, NEW c, Leads(c, p, w), TypedWalk(v), Step(p, w, v)
  PROVE  \E d : Leads(d, p, v)
<1>1. PICK n \in Nat : n = c.steps BY DEF Leads, Course
<1>2. /\ c.of = p /\ p \in Program /\ c.at[0] = NewWalk /\ c.at[n] = w
      /\ \A k \in 0..n : TypedWalk(c.at[k])
      /\ \A k \in 0..(n - 1) : Step(p, c.at[k], c.at[k + 1])
  BY <1>1 DEF Leads, Course
<1> DEFINE at == [k \in 0..(n + 1) |-> IF k = n + 1 THEN v ELSE c.at[k]]
           d == [of |-> p, steps |-> n + 1, at |-> at]
<1>3. d.of = p /\ d.steps = n + 1 /\ d.at = at OBVIOUS
<1>4. at[n + 1] = v /\ \A k \in 0..n : at[k] = c.at[k] OBVIOUS
<1> HIDE DEF at, d
<1>5. at[0] = NewWalk
  <2>1. 0 \in 0..n OBVIOUS
  <2> QED BY <1>2, <1>4, <2>1
<1>6. \A k \in 0..(n + 1) : TypedWalk(at[k])
  <2>1. \A k \in 0..(n + 1) : k = n + 1 \/ k \in 0..n OBVIOUS
  <2> QED BY <1>2, <1>4, <2>1
<1>7. ASSUME NEW k \in 0..n PROVE Step(p, at[k], at[k + 1])
  <2>1. CASE k = n
    <3>1. at[k] = w /\ at[k + 1] = v BY <1>2, <1>4, <2>1
    <3> QED BY <3>1
  <2>2. CASE k # n
    <3>1. k \in 0..(n - 1) /\ k + 1 \in 0..n BY <2>2
    <3>2. at[k] = c.at[k] /\ at[k + 1] = c.at[k + 1] BY <1>4, <3>1
    <3> QED BY <1>2, <3>1, <3>2
  <2> QED BY <2>1, <2>2
<1>8. Course(d)
  <2>1. d.steps \in Nat /\ d.steps - 1 = n BY <1>3
  <2>2. /\ \A k \in 0..d.steps : TypedWalk(d.at[k])
        /\ \A k \in 0..(d.steps - 1) : Step(d.of, d.at[k], d.at[k + 1])
    BY <1>3, <1>6, <1>7, <2>1
  <2> QED BY <1>2, <1>3, <1>5, <2>1, <2>2 DEF Course
<1>9. Leads(d, p, v) BY <1>3, <1>4, <1>8 DEF Leads
<1> QED BY <1>9

\* The walk of a record of this process.
LEMMA CourseEnds ==
  ASSUME NEW c, Leads(c, loaded, walk), walk.todo = <<>> PROVE Told(c, Record)
<1>1. Finished(c) /\ c.of = loaded /\ Text(c) = walk.frames /\ Notes(c) = walk.unsaid
  BY DEF Leads, Finished, Text, Notes
<1>2. Record.of = loaded /\ Record.frames = walk.frames /\ Record.unsaid = walk.unsaid BY DEF Record
<1> QED BY <1>1, <1>2 DEF Told

LEMMA StaysCoursed == Spec => []Coursed
<1>1. Init => Coursed BY DEF Init, Coursed, IsHit
<1>2. Typed /\ Typed' /\ Coursed /\ [Next]_vars => Coursed'
  <2> SUFFICES ASSUME Typed, Typed', Coursed, [Next]_vars PROVE Coursed' OBVIOUS
  <2>0. /\ \A c : Leads(c, loaded, walk)' <=> Leads(c, loaded', walk')
        /\ \A c, r : Told(c, r)' <=> Told(c, r)
    OBVIOUS
  <2>1. CASE Edit \/ SetBreakpoint \/ UNCHANGED vars
    <3>1. UNCHANGED <<walk, loaded, phase, answer, records>> BY <2>1 DEF Edit, SetBreakpoint, vars
    <3> QED BY <2>0, <3>1 DEF Coursed, IsHit
  <2>2. CASE Start \/ Exit
    <3>1. phase' \notin {"walking", "answered"} /\ records' = records BY <2>2 DEF Start, Exit
    <3> QED BY <2>0, <3>1 DEF Coursed, IsHit
  <2>3. CASE FirstCall
    <3>1. phase' = "walking" /\ walk' = NewWalk /\ loaded' = loaded /\ records' = records
      BY <2>3 DEF FirstCall
    <3>2. \E c : Leads(c, loaded', walk') BY <3>1, CourseStarts DEF Typed
    <3> QED BY <2>0, <3>1, <3>2 DEF Coursed, IsHit
  <2>4. CASE Walk
    <3>1. phase = "walking" /\ phase' = "walking" /\ loaded' = loaded /\ records' = records
      <4>1. UNCHANGED <<loaded, phase, records>> BY <2>4, Zenon DEF Walk
      <4>2. \E does : Doing(does)
        BY <2>4, Zenon DEF Walk, AddGlobal, AddFunction, AddCaptures, AddCode, MeetCodeAgain, AddUserModule,
                           NoSubmodule, AddUserClass, PassOver
      <4> QED BY <4>1, <4>2 DEF Doing
    <3>2. ASSUME walk'.blind = {} PROVE \E c : Leads(c, loaded', walk')
      <4>1. walk.blind = {} BY <2>4, <3>2, WalkNotes
      <4>2. PICK c : Leads(c, loaded, walk) BY <3>1, <4>1 DEF Coursed
      <4>3. Step(loaded, walk, walk') BY <2>4, <3>2, WalkIsStep
      <4>4. TypedWalk(walk')
        <5>1. TypedWalk(walk)' BY DEF Typed
        <5> QED BY <5>1
      <4> QED BY <3>1, <4>2, <4>3, <4>4, CourseGoesOn
    <3> QED BY <2>0, <3>1, <3>2 DEF Coursed, IsHit
  <2>5. CASE RunForced \/ Hit \/ Miss
    <3>1. UNCHANGED <<walk, loaded>> /\ phase = "walking" /\ phase' = "answered" /\ walk.todo = <<>>
      BY <2>5 DEF RunForced, Hit, Miss, Walked, Answers
    <3>2. \A r \in records' : r \in records \/ r = Record BY <2>5 DEF RunForced, Hit, Miss
    <3>3. Record.blind = {} => \E c : Told(c, Record)
      <4>1. Record.blind = walk.blind BY DEF Record
      <4> QED BY <3>1, <4>1, CourseEnds DEF Coursed
    <3>4. \A r \in records' : r.blind = {} => \E c : Told(c, r) BY <3>2, <3>3 DEF Coursed
    <3>5. IsHit' => answer'.of \in records' /\ answer'.of.frames = walk'.frames
      <4>1. CASE RunForced \/ Miss BY <4>1 DEF RunForced, Miss, Answers, IsHit
      <4>2. CASE Hit BY <4>2 DEF Hit, Answers, IsHit, Found
      <4> QED BY <2>5, <4>1, <4>2
    <3>6. walk'.blind = {} => \E c : Leads(c, loaded', walk') BY <3>1 DEF Coursed
    <3> QED BY <2>0, <3>4, <3>5, <3>6 DEF Coursed
  <2> QED BY <2>1, <2>2, <2>3, <2>4, <2>5 DEF Next
<1> QED BY <1>1, <1>2, Typing, PTL DEF Spec

\* A hit whose record and whose walk both looked at all they came to, and
\* noted the same beside equal frames, is of the same definition:
\* HitIsCurrentIfTold, for any program and any edits of it.
THEOREM HitsAreCurrent == Spec => []HitIsCurrentIfTold
<1>1. Typed /\ WalkIsClosed /\ Coursed => HitIsCurrentIfTold
  <2> SUFFICES ASSUME Typed, WalkIsClosed, Coursed, IsHit, answer.of.blind = {}, walk.blind = {},
                      answer.of.unsaid = walk.unsaid
               PROVE  SameDefinition(answer.of.of, loaded)
    BY DEF HitIsCurrentIfTold
  <2>1. phase = "answered" /\ walk.todo = <<>> /\ answer.of \in records /\ answer.of.frames = walk.frames
    BY DEF IsHit, WalkIsClosed, Coursed
  <2>2. PICK M : Closed(M) BY <2>1 DEF WalkIsClosed
  <2>3. PICK c : Told(c, answer.of) BY <2>1 DEF Coursed
  <2>4. PICK d : Leads(d, loaded, walk) BY <2>1 DEF Coursed
  <2>5. Twins(c, d) /\ c.of = answer.of.of /\ d.of = loaded /\ d.at[d.steps] = walk
    BY <2>1, <2>3, <2>4 DEF Told, Leads, Twins, Finished, Text, Notes
  <2>6. PICK F, G : Kept(c.of, d.of, d.at[d.steps].seen, {}, F, G) BY <2>5, KeptToTheEnd
  <2>7. Kept(c.of, loaded, walk.seen, {}, F, G) BY <2>5, <2>6, Zenon
  <2>8. c.of \in Program /\ loaded \in Program BY <2>3 DEF Told, Finished, Course, Typed
  <2>9. SameDefinition(c.of, loaded) BY <2>1, <2>2, <2>7, <2>8, KeptIsSame
  <2> QED BY <2>5, <2>9
<1> QED BY <1>1, Typing, WalkStaysClosed, StaysCoursed, PTL

-----------------------------------------------------------------------------
(* Together is closed                                                      *)

LEMMA LaterRounds ==
  ASSUME NEW p, NEW q, NEW R, Rounds(p, q, R), NEW k \in 0..Longest, NEW l \in 0..Longest, k <= l
  PROVE  R[k].all \subseteq R[l].all
<1> DEFINE Bad == {n \in Nat : k <= n /\ n <= Longest /\ ~(R[k].all \subseteq R[n].all)}
<1> SUFFICES ASSUME Bad # {} PROVE FALSE BY LongestIs
<1>1. PICK n \in Bad : \A m \in Nat : m < n => m \notin Bad
  <2>1. Bad \subseteq Nat OBVIOUS
  <2> QED BY <2>1, Least
<1>2. n # k /\ n - 1 \in Nat /\ n - 1 < n /\ k <= n - 1 /\ n - 1 <= Longest /\ n \in 1..Longest
  BY LongestIs
<1>3. R[k].all \subseteq R[n - 1].all BY <1>1, <1>2
<1>4. R[n].all = R[n - 1].all \cup R[n].new BY <1>2 DEF Rounds
<1> QED BY <1>3, <1>4

\* What came in some round was new in one.
LEMMA OnceNew ==
  ASSUME NEW p, NEW q, NEW R, Rounds(p, q, R), NEW z \in Together(p, q)
  PROVE  \E k \in 0..Longest : z \in R[k].new
<1> DEFINE S == {n \in Nat : n <= Longest /\ z \in R[n].all}
<1>1. Longest \in S BY LongestIs DEF Rounds
<1>2. PICK n \in S : \A k \in Nat : k < n => k \notin S
  <2>1. S \subseteq Nat /\ S # {} BY <1>1
  <2> QED BY <2>1, Least
<1>3. CASE n = 0 BY <1>3, LongestIs DEF Rounds
<1>4. CASE n # 0
  <2>1. n \in 1..Longest /\ n - 1 \in Nat /\ n - 1 < n /\ n - 1 <= Longest BY <1>4, LongestIs
  <2>2. z \notin R[n - 1].all BY <1>2, <2>1
  <2>3. z \in R[n].new /\ n \in 0..Longest BY <2>1, <2>2 DEF Rounds
  <2> QED BY <2>3
<1> QED BY <1>3, <1>4

\* A round ends with what the pairs that are new in it refer to together.
LEMMA RoundFollows ==
  ASSUME NEW p, NEW q, NEW R, Rounds(p, q, R), NEW k \in 1..Longest
  PROVE  /\ k - 1 \in 0..Longest /\ k \in 0..Longest
         /\ \A z \in R[k - 1].new : Both(p, q, z) \subseteq R[k].all
         /\ \A z \in R[k].new : z \notin R[k - 1].all /\ \E y \in R[k - 1].new : z \in Both(p, q, y)
<1>1. R[k].new = Newly(p, q, R[k - 1]) /\ R[k].all = R[k - 1].all \cup R[k].new BY DEF Rounds
<1>2. k - 1 \in 0..Longest /\ k \in 0..Longest BY LongestIs
<1>3. PICK r, s : r = R[k - 1] /\ s = R[k] OBVIOUS
<1>4. s.new = (UNION {Both(p, q, z) : z \in r.new}) \ r.all /\ s.all = r.all \cup s.new
  BY <1>1, <1>3 DEF Newly
<1>5. /\ \A z \in r.new : Both(p, q, z) \subseteq s.all
      /\ \A z \in s.new : z \notin r.all /\ \E y \in r.new : z \in Both(p, q, y)
  <2> DEFINE U == UNION {Both(p, q, z) : z \in r.new}
  <2>1. \A x : x \in U <=> \E y \in r.new : x \in Both(p, q, y) BY Zenon
  <2>2. s.new = U \ r.all BY <1>4
  <2> HIDE DEF U
  <2> QED BY <1>4, <2>1, <2>2
<1> QED BY <1>2, <1>3, <1>5

LEMMA NewIsOf ==
  ASSUME NEW p, NEW q, NEW R, Rounds(p, q, R), NEW k \in 0..Longest
  PROVE  R[k].new \subseteq R[k].all /\ R[k].all \subseteq Together(p, q)
<1>1. R[k].all \subseteq R[Longest].all BY LaterRounds, LongestIs
<1>2. R[k].new \subseteq R[k].all
  <2>1. CASE k = 0 BY <2>1 DEF Rounds
  <2>2. CASE k # 0
    <3>1. k \in 1..Longest BY <2>2, LongestIs
    <3> QED BY <3>1 DEF Rounds
  <2> QED BY <2>1, <2>2
<1> QED BY <1>1, <1>2 DEF Rounds

LEMMA OwnHas ==
  ASSUME NEW p \in Program, NEW o \in Object \cup Code \cup {Nothing} PROVE OwnIs(p, o, Own(p, o))
<1>1. /\ Fn \cap (Code \cup Cls \cup Mod \cup Outside \cup Const \cup Mutable) = {}
      /\ Code \cap (Cls \cup Mod \cup Outside \cup Const \cup Mutable) = {}
      /\ Cls \cap (Mod \cup Outside \cup Const \cup Mutable) = {}
      /\ Mod \cap (Outside \cup Const \cup Mutable) = {}
      /\ Outside \cap (Const \cup Mutable) = {} /\ Const \cap Mutable = {}
      /\ Nothing \notin Fn \cup Cls \cup Mod \cup Outside \cup Const \cup Mutable \cup Code
  BY HashAssumption DEF Object
<1>2. /\ \A a : Len(<<a>>) = 1 /\ <<a>>[1] = a
      /\ \A a, b : Len(<<a, b>>) = 2 /\ <<a, b>>[1] = a /\ <<a, b>>[2] = b
      /\ \A a, b, c, d, e : LET r == <<a, b, c, d, e>>
                            IN  Len(r) = 5 /\ r[1] = a /\ r[2] = b /\ r[3] = c /\ r[5] = e
  OBVIOUS
<1>3. o \in Fn => Own(p, o) = <<CodeOf[o], Len(p.captures[o])>> BY <1>1 DEF Own
<1>4. o \in Code => Own(p, o) = <<o, p.body[o], p.literal[o], p.signature[o], p.names[o]>>
  BY <1>1, Zenon DEF Own
<1>5. o \in Cls => Own(p, o) = <<o, MethodNames(p, o)>> BY <1>1, Zenon DEF Own, MethodNames
<1>6. o \in Mod => Own(p, o) = <<o, p.text[o]>> BY <1>1, Zenon DEF Own
<1>7. o \in Outside => Own(p, o) = <<o, p.version>> BY <1>1, Zenon DEF Own
<1>8. o \in Mutable => Own(p, o) = <<TypeOf[o]>> BY <1>1, Zenon DEF Own
<1>9. o \in Const \cup {Nothing} => Own(p, o) = <<o>> BY <1>1, Zenon DEF Own
<1>10. PICK r : r = Own(p, o) OBVIOUS
<1>11. /\ o \in Fn => Len(r) = 2 /\ r[1] = CodeOf[o] /\ r[2] = Len(p.captures[o])
       /\ o \in Code =>
            Len(r) = 5 /\ r[1] = o /\ r[2] = p.body[o] /\ r[3] = p.literal[o] /\ r[5] = p.names[o]
  BY <1>2, <1>3, <1>4, <1>10
<1>12. /\ o \in Cls => Len(r) = 2 /\ r[1] = o /\ r[2] = MethodNames(p, o)
       /\ o \in Mod => Len(r) = 2 /\ r[1] = o /\ r[2] = p.text[o]
       /\ o \in Outside => Len(r) = 2 /\ r[1] = o /\ r[2] = p.version
  BY <1>2, <1>5, <1>6, <1>7, <1>10
<1>13. /\ o \in Mutable => Len(r) = 1 /\ r[1] = TypeOf[o]
       /\ o \in Const \cup {Nothing} => Len(r) = 1 /\ r[1] = o
  BY <1>2, <1>8, <1>9, <1>10
<1>14. OwnIs(p, o, r) BY <1>11, <1>12, <1>13, Zenon DEF OwnIs
<1> QED BY <1>10, <1>14

LEMMA OwnTells ==
  ASSUME NEW p \in Program, NEW q \in Program,
         NEW o \in Object \cup Code \cup {Nothing}, NEW o2 \in Object \cup Code \cup {Nothing},
         Own(p, o) = Own(q, o2)
  PROVE  SameOwn(p, q, o, o2)
<1>1. /\ o \in Fn \cup Code \cup Cls \cup Mod \cup Outside \cup Mutable \cup Const \cup {Nothing}
      /\ o2 \in Fn \cup Code \cup Cls \cup Mod \cup Outside \cup Mutable \cup Const \cup {Nothing}
  BY DEF Object
<1>2. /\ Fn \cap (Code \cup Cls \cup Mod \cup Outside \cup Const \cup Mutable) = {}
      /\ Code \cap (Cls \cup Mod \cup Outside \cup Const \cup Mutable) = {}
      /\ Cls \cap (Mod \cup Outside \cup Const \cup Mutable) = {}
      /\ Mod \cap (Outside \cup Const \cup Mutable) = {}
      /\ Outside \cap (Const \cup Mutable) = {} /\ Const \cap Mutable = {}
      /\ Nothing \notin Fn \cup Cls \cup Mod \cup Outside \cup Const \cup Mutable \cup Code
      /\ \A f \in Fn : CodeOf[f] \in Code
      /\ \A m \in Mutable : TypeOf[m] \notin Const \cup {Nothing}
  BY HashAssumption DEF Object
<1>3. PICK r : OwnIs(p, o, r) /\ OwnIs(q, o2, r) BY OwnHas
<1>4. o \in Fn => o2 \in Fn
  <2>1. o \in Fn => Len(r) = 2 /\ r[1] \in Code BY <1>2, <1>3 DEF OwnIs
  <2>2. o2 \notin Fn /\ Len(r) = 2 => r[1] = o2 /\ o2 \in Cls \cup Mod \cup Outside
    BY <1>1, <1>3 DEF OwnIs
  <2> QED BY <1>2, <2>1, <2>2
<1>5. o \in Mutable => o2 \in Mutable /\ TypeOf[o] = TypeOf[o2]
  <2>1. ASSUME o \in Mutable
        PROVE  Len(r) = 1 /\ r[1] = TypeOf[o] /\ r[1] \notin Const \cup {Nothing}
    BY <1>2, <1>3, <2>1 DEF OwnIs
  <2>2. Len(r) = 1 => o2 \in Mutable \cup Const \cup {Nothing} BY <1>1, <1>3 DEF OwnIs
  <2>3. o2 \in Const \cup {Nothing} => r[1] = o2 BY <1>3 DEF OwnIs
  <2>4. o2 \in Mutable => r[1] = TypeOf[o2] BY <1>3 DEF OwnIs
  <2> QED BY <2>1, <2>2, <2>3, <2>4
<1>6. o \notin Fn \cup Mutable => o2 = o BY <1>1, <1>2, <1>3 DEF OwnIs
<1> QED BY <1>2, <1>3, <1>4, <1>5, <1>6 DEF OwnIs, SameOwn

LEMMA KeysAre == IsFiniteSet(Keys) /\ Cardinality(Keys) \in Nat /\ Cardinality(Keys) < Longest
<1> DEFINE n(S) == Cardinality(S)
<1>1. \A S, T : IsFiniteSet(S) /\ IsFiniteSet(T) =>
        IsFiniteSet(S \cup T) /\ n(S \cup T) \in Nat /\ n(S \cup T) <= n(S) + n(T)
  <2> SUFFICES ASSUME NEW S, NEW T, IsFiniteSet(S), IsFiniteSet(T)
               PROVE  IsFiniteSet(S \cup T) /\ n(S \cup T) \in Nat /\ n(S \cup T) <= n(S) + n(T)
    OBVIOUS
  <2>1. IsFiniteSet(S \cup T) /\ n(S \cup T) = n(S) + n(T) - n(S \cap T) BY FS_Union
  <2>2. S \cap T \subseteq S OBVIOUS
  <2>3. IsFiniteSet(S \cap T) BY <2>2, FS_Subset
  <2>4. n(S) \in Nat /\ n(T) \in Nat /\ n(S \cap T) \in Nat /\ n(S \cup T) \in Nat
    BY <2>1, <2>3, FS_CardinalityType
  <2> HIDE DEF n
  <2> QED BY <2>1, <2>4
<1>2. /\ IsFiniteSet(Fn) /\ IsFiniteSet(Code) /\ IsFiniteSet(Cls) /\ IsFiniteSet(Mod)
      /\ n(Fn) \in Nat /\ n(Code) \in Nat /\ n(Cls) \in Nat /\ n(Mod) \in Nat
  BY HashAssumption, FS_CardinalityType
<1>3. IsFiniteSet(Fn \X Fn) /\ n(Fn \X Fn) = n(Fn) * n(Fn) BY <1>2, FS_Product
<1> DEFINE C == Code \cup Cls
           D == C \cup Mod
           E == D \X {Nothing}
<1>4. IsFiniteSet({Nothing}) /\ n({Nothing}) = 1 BY FS_Singleton
<1>5. Longest = n(Fn) * n(Fn) + n(Code) + n(Cls) + n(Mod) + 1 BY DEF Longest
<1>6. Keys = (Fn \X Fn) \cup E BY DEF Keys
<1> HIDE DEF n
<1>7. IsFiniteSet(C) /\ n(C) \in Nat /\ n(C) <= n(Code) + n(Cls) BY <1>1, <1>2
<1>8. IsFiniteSet(D) /\ n(D) \in Nat /\ n(D) <= n(C) + n(Mod) BY <1>1, <1>2, <1>7
<1> HIDE DEF C, D
<1>9. IsFiniteSet(E) /\ n(E) = n(D) * n({Nothing}) BY <1>4, <1>8, FS_Product DEF n
<1>10. n(E) = n(D) BY <1>4, <1>8, <1>9
<1> HIDE DEF E
<1>11. IsFiniteSet(Keys) /\ n(Keys) \in Nat /\ n(Keys) <= n(Fn) * n(Fn) + n(E)
  BY <1>1, <1>3, <1>6, <1>9
<1>12. PICK f \in Nat : f = n(Fn) * n(Fn) BY <1>2
<1>13. n(Keys) < Longest BY <1>2, <1>5, <1>7, <1>8, <1>10, <1>11, <1>12
<1> QED BY <1>11, <1>13 DEF n

LEMMA BothInPair ==
  ASSUME NEW p \in Program, NEW q \in Program, NEW z \in Pair \X Pair
  PROVE  Both(p, q, z) \subseteq Pair \X Pair
<1>1. Kin(p, z[1]) \in Seq(Pair) /\ Kin(q, z[2]) \in Seq(Pair) BY KinInPair
<1> QED BY <1>1 DEF Both

LEMMA TogetherInPair ==
  ASSUME NEW p \in Program, NEW q \in Program PROVE Together(p, q) \subseteq Pair \X Pair
<1>1. <<Root, <<>>>> \in Pair BY Kinds DEF Pair
<1>2. <<<<Root, <<>>>>, <<Root, <<>>>>>> \in Pair \X Pair BY <1>1
<1> QED BY <1>2, BothInPair, TogetherStays

\* Two programs that are the same as far as they are reached.
LEMMA SameOnes ==
  ASSUME NEW p \in Program, NEW q \in Program, SameDefinition(p, q), NEW z \in Together(p, q)
  PROVE  z \in Pair \X Pair /\ SameOwn(p, q, z[1][1], z[2][1])
<1>1. z \in Pair \X Pair BY TogetherInPair
<1>2. z[1][1] \in Object \cup Code \cup {Nothing} /\ z[2][1] \in Object \cup Code \cup {Nothing}
  BY <1>1 DEF Pair
<1>3. Own(p, z[1][1]) = Own(q, z[2][1]) BY DEF SameDefinition
<1> QED BY <1>1, <1>2, <1>3, OwnTells

\* Pairs of functions, or of one code object or class, with one key refer to
\* the same pairs.
LEMMA KeyTells ==
  ASSUME NEW p \in Program, NEW q \in Program, NEW z \in Pair \X Pair, NEW y \in Pair \X Pair,
         SameOwn(p, q, z[1][1], z[2][1]), SameOwn(p, q, y[1][1], y[2][1]),
         KeyOf(z) = KeyOf(y), z[1][1] \in Fn \cup Code \cup Cls
  PROVE  Both(p, q, z) = Both(p, q, y)
<1>1. PICK a, b, c, d : a = z[1] /\ b = z[2] /\ c = y[1] /\ d = y[2] OBVIOUS
<1>2. a \in Pair /\ b \in Pair /\ c \in Pair /\ d \in Pair BY <1>1
<1>3. /\ Fn \cap (Code \cup Cls \cup Mutable) = {} /\ (Code \cup Cls) \cap Mutable = {}
      /\ Nothing \notin Fn \cup Code \cup Cls
  BY HashAssumption DEF Object
<1>4. /\ a[1] \in Fn => b[1] \in Fn
      /\ c[1] \in Fn => d[1] \in Fn
      /\ a[1] \in Code \cup Cls => b[1] = a[1]
      /\ c[1] \in Code \cup Cls => d[1] = c[1]
  BY <1>1, <1>3 DEF SameOwn
<1>5. /\ KeyOf(z) = IF a[1] \in Fn THEN <<a[1], b[1]>> ELSE <<a[1], Nothing>>
      /\ KeyOf(y) = IF c[1] \in Fn THEN <<c[1], d[1]>> ELSE <<c[1], Nothing>>
  BY <1>1 DEF KeyOf
<1>6. a[1] = c[1] /\ b[1] = d[1]
  <2>1. PICK k : k = KeyOf(z) /\ k = KeyOf(y) OBVIOUS
  <2>2. k[1] = a[1] /\ (a[1] \in Fn => k[2] = b[1]) BY <1>5, <2>1
  <2>3. k[1] = c[1] /\ (c[1] \in Fn => k[2] = d[1])
    <3>1. k = IF c[1] \in Fn THEN <<c[1], d[1]>> ELSE <<c[1], Nothing>> BY <1>5, <2>1, Zenon
    <3> QED BY <3>1
  <2>4. a[1] \in Fn \cup Code \cup Cls BY <1>1
  <2> QED BY <1>3, <1>4, <2>2, <2>3, <2>4
<1>7. \A r \in Program, u \in Pair, w \in Pair :
        u[1] = w[1] /\ u[1] \in Fn \cup Code \cup Cls => Kin(r, u) = Kin(r, w)
  <2> SUFFICES ASSUME NEW r \in Program, NEW u \in Pair, NEW w \in Pair, u[1] = w[1],
                      u[1] \in Fn \cup Code \cup Cls
               PROVE  Kin(r, u) = Kin(r, w)
    OBVIOUS
  <2>1. PICK o : o = u[1] /\ o = w[1] OBVIOUS
  <2>2. CASE o \in Fn BY <2>1, <2>2 DEF Kin
  <2>3. CASE o \in Code BY <1>3, <2>1, <2>3 DEF Kin
  <2>4. CASE o \in Cls
    <3>1. o \notin Fn \cup Code BY <2>4, HashAssumption
    <3> QED BY <2>1, <2>4, <3>1 DEF Kin
  <2> QED BY <2>1, <2>2, <2>3, <2>4
<1>8. a[1] \in Fn \cup Code \cup Cls /\ b[1] \in Fn \cup Code \cup Cls BY <1>1, <1>4
<1>9. Kin(p, a) = Kin(p, c) /\ Kin(q, b) = Kin(q, d) BY <1>2, <1>6, <1>7, <1>8
<1> QED BY <1>1, <1>9 DEF Both

\* What a pair of one module refers to: modules, under the same names.
LEMMA ModuleNext ==
  ASSUME NEW p \in Program, NEW q \in Program, NEW z \in Pair \X Pair,
         SameOwn(p, q, z[1][1], z[2][1]), z[1][1] \in Mod, NEW y \in Both(p, q, z)
  PROVE  y[1][1] \in Mod \cup {Nothing} /\ y[1][2] = z[1][2] /\ y[2][2] = z[2][2]
<1>1. PICK a, b : a = z[1] /\ b = z[2] OBVIOUS
<1>2. a \in Pair /\ b \in Pair /\ a[1] \in Mod /\ a[2] \in Seq(Name) BY <1>1 DEF Pair
<1>3. b[1] = a[1]
  <2>1. Mod \cap (Fn \cup Mutable) = {} BY HashAssumption
  <2> QED BY <1>1, <1>2, <2>1 DEF SameOwn
<1>4. /\ Kin(p, a) = [i \in DOMAIN a[2] |-> <<Sub[a[1]][a[2][i]], a[2]>>]
      /\ Kin(q, b) = [i \in DOMAIN b[2] |-> <<Sub[b[1]][b[2][i]], b[2]>>]
  BY <1>2, <1>3, KinIs, Zenon
<1>5. PICK i \in DOMAIN Kin(p, a) \cap DOMAIN Kin(q, b) : y = <<Kin(p, a)[i], Kin(q, b)[i]>>
  BY <1>1 DEF Both
<1>6. i \in DOMAIN a[2] /\ Kin(p, a)[i] = <<Sub[a[1]][a[2][i]], a[2]>> BY <1>4, <1>5
<1>7. i \in DOMAIN b[2] /\ Kin(q, b)[i] = <<Sub[b[1]][b[2][i]], b[2]>> BY <1>4, <1>5
<1>8. Sub[a[1]][a[2][i]] \in Mod \cup {Nothing}
  <2>1. a[2][i] \in Name BY <1>2, <1>6
  <2> QED BY <1>2, <2>1, HashAssumption
<1>9. y[1] = <<Sub[a[1]][a[2][i]], a[2]>> /\ y[2] = <<Sub[b[1]][b[2][i]], b[2]>> BY <1>5, <1>6, <1>7
<1> QED BY <1>1, <1>8, <1>9

LEMMA WayTo ==
  ASSUME NEW p, NEW q, NEW R, Rounds(p, q, R), NEW n \in 0..Longest, NEW z \in R[n].new
  PROVE  \E s : IsWay(p, q, R, n, s)
<1> DEFINE Led(m, y) == \E s : IsWay(p, q, R, m, s) /\ s[m] = y
           Bad == {m \in Nat : m <= Longest /\ \E y \in R[m].new : ~Led(m, y)}
<1>1. Bad = {}
  <2> SUFFICES ASSUME Bad # {} PROVE FALSE OBVIOUS
  <2> HIDE DEF Led
  <2>1. PICK m \in Bad : \A k \in Nat : k < m => k \notin Bad
    <3>1. Bad \subseteq Nat OBVIOUS
    <3> QED BY <3>1, Least
  <2>2. PICK y \in R[m].new : ~Led(m, y) OBVIOUS
  <2>3. m # 0
    <3>1. ASSUME m = 0 PROVE Led(m, y)
      <4> DEFINE s == [j \in 0..0 |-> y]
      <4>1. s[0] = y /\ 0..(0 - 1) = {} /\ 0..0 = {0} OBVIOUS
      <4> HIDE DEF s
      <4>2. IsWay(p, q, R, 0, s) BY <3>1, <4>1 DEF IsWay
      <4> QED BY <3>1, <4>1, <4>2 DEF Led
    <3> QED BY <2>2, <3>1
  <2>4. m \in 1..Longest /\ m - 1 \in Nat /\ m - 1 < m /\ m - 1 <= Longest BY <2>3, LongestIs
  <2>5. PICK x \in R[m - 1].new : y \in Both(p, q, x) BY <2>2, <2>4, RoundFollows
  <2>6. Led(m - 1, x) BY <2>1, <2>4, <2>5
  <2>7. PICK s : IsWay(p, q, R, m - 1, s) /\ s[m - 1] = x BY <2>6 DEF Led
  <2> DEFINE t == [j \in 0..m |-> IF j = m THEN y ELSE s[j]]
  <2>8. t[m] = y /\ \A j \in 0..(m - 1) : t[j] = s[j] BY <2>4
  <2> HIDE DEF t
  <2>9. \A j \in 0..m : t[j] \in R[j].new
    <3>1. \A j \in 0..m : j = m \/ j \in 0..(m - 1) BY <2>4
    <3>2. \A j \in 0..(m - 1) : s[j] \in R[j].new BY <2>7 DEF IsWay
    <3> QED BY <2>2, <2>8, <3>1, <3>2
  <2>10. ASSUME NEW j \in 0..(m - 1) PROVE t[j + 1] \in Both(p, q, t[j])
    <3>1. CASE j = m - 1
      <4>1. t[j] = x /\ j + 1 = m BY <2>4, <2>7, <2>8, <3>1
      <4> QED BY <2>5, <2>8, <4>1
    <3>2. CASE j # m - 1
      <4>1. j \in 0..((m - 1) - 1) /\ j + 1 \in 0..(m - 1) BY <2>4, <3>2
      <4>2. s[j + 1] \in Both(p, q, s[j]) BY <2>7, <4>1 DEF IsWay
      <4> QED BY <2>8, <4>1, <4>2
    <3> QED BY <3>1, <3>2
  <2>11. IsWay(p, q, R, m, t) BY <2>9, <2>10 DEF IsWay
  <2>12. Led(m, y) BY <2>8, <2>11 DEF Led
  <2> QED BY <2>2, <2>12
<1>2. n \in Nat /\ n <= Longest BY LongestIs
<1>3. Led(n, z)
  <2> HIDE DEF Led
  <2> QED BY <1>1, <1>2
<1> QED BY <1>3

\* What refers to something is a function, code, a class or a module.
LEMMA BothKinds ==
  ASSUME NEW p \in Program, NEW q, NEW z \in Pair \X Pair, NEW y \in Both(p, q, z)
  PROVE  z[1][1] \in Fn \cup Code \cup Cls \cup Mod
<1>1. PICK a : a = z[1] /\ a \in Pair OBVIOUS
<1>2. DOMAIN Kin(p, a) # {} BY <1>1 DEF Both
<1>3. ASSUME a[1] \notin Fn \cup Code \cup Cls \cup Mod PROVE FALSE
  <2>1. Kin(p, a) = <<>> BY <1>1, <1>3, KinIs, Zenon
  <2> QED BY <1>2, <2>1
<1> QED BY <1>1, <1>3

\* From a module on, all of a way are modules, under the same names.
LEMMA WayOfModules ==
  ASSUME NEW p \in Program, NEW q \in Program, SameDefinition(p, q), NEW R, Rounds(p, q, R),
         NEW n \in 0..Longest, NEW s, IsWay(p, q, R, n, s),
         \A j \in 0..(n - 1) : s[j][1][1] \in Fn \cup Code \cup Cls \cup Mod,
         NEW i \in 0..(n - 1), NEW j \in 0..(n - 1), i <= j, s[i][1][1] \in Mod
  PROVE  s[j][1][1] \in Mod /\ s[j][1][2] = s[i][1][2] /\ s[j][2][2] = s[i][2][2]
<1> DEFINE AsFirst(k) == s[k][1][1] \in Mod /\ s[k][1][2] = s[i][1][2] /\ s[k][2][2] = s[i][2][2]
           Bad == {k \in Nat : i <= k /\ k <= j /\ ~AsFirst(k)}
<1> SUFFICES ASSUME Bad # {} PROVE FALSE OBVIOUS
<1>1. PICK k \in Bad : \A m \in Nat : m < k => m \notin Bad
  <2>1. Bad \subseteq Nat OBVIOUS
  <2> QED BY <2>1, Least
<1>2. /\ k # i /\ k - 1 \in Nat /\ k - 1 < k /\ i <= k - 1 /\ k - 1 <= j
      /\ k \in 0..(n - 1) /\ k - 1 \in 0..(n - 1) /\ k - 1 \in 0..n /\ k - 1 \in 0..Longest /\ (k - 1) + 1 = k
  BY LongestIs
<1>3. AsFirst(k - 1) BY <1>1, <1>2
<1>4. PICK z, y : z = s[k - 1] /\ y = s[k] OBVIOUS
<1>5. y \in Both(p, q, z) /\ z \in R[k - 1].new BY <1>2, <1>4 DEF IsWay
<1>6. z \in Together(p, q) BY <1>2, <1>5, NewIsOf
<1>7. z \in Pair \X Pair /\ SameOwn(p, q, z[1][1], z[2][1]) BY <1>6, SameOnes
<1>8. y[1][1] \in Mod \cup {Nothing} /\ y[1][2] = z[1][2] /\ y[2][2] = z[2][2]
  BY <1>3, <1>4, <1>5, <1>7, ModuleNext
<1>9. y[1][1] \in Mod
  <2>1. y[1][1] \in Fn \cup Code \cup Cls \cup Mod BY <1>2, <1>4
  <2>2. Nothing \notin Fn \cup Code \cup Cls BY HashAssumption DEF Object
  <2> QED BY <1>8, <2>1, <2>2
<1>10. AsFirst(k) BY <1>3, <1>4, <1>8, <1>9
<1> QED BY <1>10

\* No two of a way have one key.
LEMMA KeysDiffer ==
  ASSUME NEW p \in Program, NEW q \in Program, SameDefinition(p, q), NEW R, Rounds(p, q, R),
         NEW n \in 0..Longest, NEW s, IsWay(p, q, R, n, s),
         \A j \in 0..(n - 1) : s[j][1][1] \in Fn \cup Code \cup Cls \cup Mod,
         NEW i \in 0..(n - 1), NEW j \in 0..(n - 1), i < j
  PROVE  KeyOf(s[i]) # KeyOf(s[j])
<1> SUFFICES ASSUME KeyOf(s[i]) = KeyOf(s[j]) PROVE FALSE OBVIOUS
<1>1. PICK z, y : z = s[i] /\ y = s[j] OBVIOUS
<1>2. /\ i \in 0..n /\ j \in 0..n /\ i \in 0..Longest /\ j \in 1..Longest /\ j - 1 \in 0..Longest /\ i <= j - 1
      /\ i + 1 \in 1..Longest /\ j + 1 \in 1..Longest /\ i + 1 <= j /\ j + 1 \in 0..n /\ j \in 0..Longest
      /\ i + 1 \in 0..Longest /\ (j + 1) - 1 = j /\ (i + 1) - 1 = i
  BY LongestIs
<1>3. z \in R[i].new /\ y \in R[j].new BY <1>1, <1>2 DEF IsWay
<1>4. z \in Together(p, q) /\ y \in Together(p, q) BY <1>2, <1>3, NewIsOf
<1>5. /\ z \in Pair \X Pair /\ SameOwn(p, q, z[1][1], z[2][1])
      /\ y \in Pair \X Pair /\ SameOwn(p, q, y[1][1], y[2][1])
  BY <1>4, SameOnes
<1>6. CASE z[1][1] \in Fn \cup Code \cup Cls
  <2>1. Both(p, q, z) = Both(p, q, y) BY <1>1, <1>5, <1>6, KeyTells
  <2>2. s[j + 1] \in Both(p, q, y) /\ s[j + 1] \in R[j + 1].new BY <1>1, <1>2 DEF IsWay
  <2>3. Both(p, q, z) \subseteq R[i + 1].all BY <1>2, <1>3, RoundFollows
  <2>4. R[i + 1].all \subseteq R[j].all BY <1>2, LaterRounds
  <2>5. s[j + 1] \notin R[j].all
    <3>1. \A x \in R[j + 1].new : x \notin R[(j + 1) - 1].all BY <1>2, RoundFollows
    <3> QED BY <1>2, <2>2, <3>1
  <2> QED BY <2>1, <2>2, <2>3, <2>4, <2>5
<1>7. CASE z[1][1] \in Mod
  <2>1. y[1][1] \in Mod /\ y[1][2] = z[1][2] /\ y[2][2] = z[2][2] BY <1>1, <1>7, WayOfModules
  <2>2. Mod \cap (Fn \cup Mutable) = {} BY HashAssumption
  <2>3. z[2][1] = z[1][1] /\ y[2][1] = y[1][1] BY <1>5, <1>7, <2>1, <2>2 DEF SameOwn
  <2>4. KeyOf(z) = <<z[1][1], Nothing>> /\ KeyOf(y) = <<y[1][1], Nothing>>
    BY <1>7, <2>1, <2>2 DEF KeyOf
  <2>5. z[1][1] = y[1][1]
    <3>1. <<z[1][1], Nothing>> = <<y[1][1], Nothing>> BY <1>1, <2>4, Zenon
    <3>2. \A a, b, c : <<a, c>> = <<b, c>> => a = b OBVIOUS
    <3> QED BY <3>1, <3>2, Zenon
  <2>6. z[1] = y[1] /\ z[2] = y[2]
    <3>1. z[1] \in Pair /\ y[1] \in Pair /\ z[2] \in Pair /\ y[2] \in Pair BY <1>5
    <3>2. \A u \in Pair, v \in Pair : u[1] = v[1] /\ u[2] = v[2] => u = v BY DEF Pair
    <3> QED BY <2>1, <2>3, <2>5, <3>1, <3>2
  <2>7. z = y BY <1>5, <2>6
  <2>8. z \in R[j - 1].all
    <3>1. R[i].new \subseteq R[i].all BY <1>2, NewIsOf
    <3>2. R[i].all \subseteq R[j - 1].all BY <1>2, LaterRounds
    <3> QED BY <1>3, <3>1, <3>2
  <2>9. y \notin R[j - 1].all BY <1>2, <1>3, RoundFollows
  <2> QED BY <2>7, <2>8, <2>9
<1> QED BY <1>1, <1>6, <1>7

\* The last round finds nothing new.
LEMMA LastRound ==
  ASSUME NEW p \in Program, NEW q \in Program, SameDefinition(p, q), NEW R, Rounds(p, q, R)
  PROVE  R[Longest].new = {}
<1> SUFFICES ASSUME NEW z \in R[Longest].new PROVE FALSE OBVIOUS
<1>1. Longest \in 0..Longest /\ Longest \in Nat BY LongestIs
<1>2. PICK s : IsWay(p, q, R, Longest, s) BY <1>1, WayTo
<1>3. ASSUME NEW j \in 0..(Longest - 1)
      PROVE  /\ s[j] \in Pair \X Pair /\ SameOwn(p, q, s[j][1][1], s[j][2][1])
             /\ s[j][1][1] \in Fn \cup Code \cup Cls \cup Mod
  <2>1. j \in 0..Longest BY <1>1
  <2>2. s[j] \in R[j].new /\ s[j + 1] \in Both(p, q, s[j]) BY <1>2, <2>1 DEF IsWay
  <2>3. s[j] \in Together(p, q) BY <2>1, <2>2, NewIsOf
  <2>4. s[j] \in Pair \X Pair /\ SameOwn(p, q, s[j][1][1], s[j][2][1]) BY <2>3, SameOnes
  <2> QED BY <2>2, <2>4, BothKinds
<1> DEFINE f == [j \in 0..(Longest - 1) |-> KeyOf(s[j])]
<1>4. f \in [0..(Longest - 1) -> Keys]
  <2>1. ASSUME NEW j \in 0..(Longest - 1) PROVE KeyOf(s[j]) \in Keys
    <3>1. PICK o, o2 : o = s[j][1][1] /\ o2 = s[j][2][1] OBVIOUS
    <3>2. o \in Fn \cup Code \cup Cls \cup Mod /\ (o \in Fn => o2 \in Fn) BY <1>3, <3>1 DEF SameOwn
    <3>3. KeyOf(s[j]) = IF o \in Fn THEN <<o, o2>> ELSE <<o, Nothing>> BY <3>1 DEF KeyOf
    <3> QED BY <3>2, <3>3 DEF Keys
  <2> QED BY <2>1
<1>5. IsFiniteSet(0..(Longest - 1)) /\ Cardinality(0..(Longest - 1)) = Longest
  <2>1. Longest # 0 BY KeysAre, <1>1
  <2>2. 0 \in Int /\ Longest - 1 \in Int /\ ~(0 > Longest - 1) /\ (Longest - 1) - 0 + 1 = Longest
    BY <1>1, <2>1
  <2> QED BY <2>2, FS_Interval
<1>6. PICK i \in 0..(Longest - 1), j \in 0..(Longest - 1) : i # j /\ f[i] = f[j]
  <2> HIDE DEF f
  <2> QED BY <1>4, <1>5, KeysAre, FS_PigeonHole
<1>7. KeyOf(s[i]) = KeyOf(s[j]) BY <1>6
<1>8. i < j \/ j < i BY <1>1, <1>6
<1> QED BY <1>1, <1>2, <1>3, <1>7, <1>8, KeysDiffer

\* All that two programs that are the same reach together is closed under
\* what they refer to.
LEMMA TogetherCloses ==
  ASSUME NEW p \in Program, NEW q \in Program, SameDefinition(p, q), NEW z \in Together(p, q)
  PROVE  Both(p, q, z) \subseteq Together(p, q)
<1>1. PICK R : Rounds(p, q, R) BY TogetherIs
<1>2. PICK k \in 0..Longest : z \in R[k].new BY <1>1, OnceNew
<1>3. k # Longest BY <1>1, <1>2, LastRound
<1>4. k + 1 \in 1..Longest /\ (k + 1) - 1 = k /\ k + 1 \in 0..Longest BY <1>3, LongestIs
<1>5. Both(p, q, z) \subseteq R[k + 1].all
  <2>1. \A y \in R[(k + 1) - 1].new : Both(p, q, y) \subseteq R[k + 1].all
    BY <1>1, <1>4, RoundFollows
  <2> QED BY <1>2, <1>4, <2>1
<1>6. R[k + 1].all \subseteq Together(p, q) BY <1>1, <1>4, NewIsOf
<1> QED BY <1>5, <1>6

LEMMA RootsTogether ==
  ASSUME NEW p, NEW q PROVE <<<<Root, <<>>>>, <<Root, <<>>>>>> \in Together(p, q)
<1>1. PICK R : Rounds(p, q, R) BY TogetherIs
<1>2. 0 \in 0..Longest BY LongestIs
<1>3. R[0].all \subseteq Together(p, q) BY <1>1, <1>2, NewIsOf
<1> QED BY <1>1, <1>3 DEF Rounds, FirstPairs

-----------------------------------------------------------------------------
(* Two walks of one definition                                             *)

LEMMA WalkIsTurn ==
  ASSUME Typed, Walk, "edited" \notin walk'.blind PROVE Turn(loaded, walk, walk')
<1>1. \A tasks, things, fns, frames, notes, unseen :
        Moves(walk, walk', tasks, things, fns, frames, notes, unseen) =>
          "edited" \notin unseen /\ Steps(walk, walk', tasks, things, frames)
  BY DEF Moves, HasParts, Steps
<1>2. Nothing \notin walk.seen /\ Fn \cap Outside = {} /\ \A m \in Mod : m # Nothing
  BY HashAssumption DEF Typed, TypedWalk, Object
<1>3. \A does : Doing(does) => walk.todo # <<>> /\ Now.does = does BY DEF Doing, Now
<1>4. SUFFICES walk.todo # <<>> /\ TurnOf(loaded, walk, walk', Now) BY DEF Turn, Now
<1>5. CASE AddGlobal
  <2>1. Doing("global") BY <1>5 DEF AddGlobal
  <2>2. GlobalFrame(Now.at, Now.label) = FrameOf(loaded, Now.at, Now.label)
    BY DEF GlobalFrame, FrameOf, Marker
  <2>3. Steps(walk, walk', GlobalTasks(Now.at, Now.label, Now.names), {}, FrameOf(loaded, Now.at, Now.label))
    BY <1>1, <1>5, <2>2, AddGlobalDoes
  <2> QED BY <1>3, <2>1, <2>3 DEF TurnOf
<1>6. CASE AddFunction
  <2>1. Doing("function") BY <1>6 DEF AddFunction
  <2>2. CodeOf[Now.at] \notin walk.seen /\ Steps(walk, walk', FunctionTasks(Now.at), {}, <<>>)
    BY <1>1, <1>6, AddFunctionDoes
  <2> QED BY <1>3, <2>1, <2>2 DEF TurnOf, FunctionTurn
<1>7. CASE AddCaptures
  <2>1. Doing("captures") BY <1>7 DEF AddCaptures
  <2>2. CapturesTasks(Now.at, Now.label[1]) = CapturesIn(loaded, Now.at, Now.label[1])
    BY DEF CapturesTasks, CapturesIn
  <2>3. Steps(walk, walk', CapturesTasks(Now.at, Now.label[1]), {}, <<>>)
    BY <1>1, <1>7, AddCapturesDoes
  <2> QED BY <1>3, <2>1, <2>2, <2>3 DEF TurnOf
<1>8. CASE AddCode
  <2>1. Doing("code") BY <1>8, Zenon DEF AddCode
  <2>2. CodeTasks(Now.at) = CodeIn(loaded, Now.at) /\ CodeFrames(Now.at) = CodeFramesIn(loaded, Now.at)
    BY DEF CodeTasks, CodeIn, CodeFrames, CodeFramesIn
  <2>3. Now.at \notin walk.seen /\ Steps(walk, walk', CodeTasks(Now.at), {Now.at}, CodeFrames(Now.at))
    BY <1>1, <1>8, AddCodeDoes
  <2> QED BY <1>3, <2>1, <2>2, <2>3 DEF TurnOf, CodeTurn
<1>9. CASE MeetCodeAgain
  <2>1. CodeNow \in walk.seen /\ Steps(walk, walk', <<>>, {}, <<<<"cycle">>>>)
    BY <1>1, <1>9, MeetCodeAgainDoes
  <2>2. Doing("function") \/ Doing("code") BY <1>9 DEF MeetCodeAgain
  <2> QED BY <1>3, <2>1, <2>2 DEF TurnOf, FunctionTurn, CodeTurn, CodeNow
<1>10. CASE AddUserModule
  <2>1. Doing("module") BY <1>10, Zenon DEF AddUserModule
  <2>2. /\ Now.at \in Mod \ walk.seen /\ "edited" \notin TextMissed(Now.at)
        /\ Steps(walk, walk', ModuleTasks(Now.at, Now.label, Now.names), {Now.at},
                 <<<<"m", Now.label, Now.at, source.text[Now.at]>>>>)
    BY <1>1, <1>10, AddUserModuleDoes
  <2>3. source.text[Now.at] = loaded.text[Now.at] BY <2>2 DEF TextMissed
  <2> QED BY <1>2, <1>3, <2>1, <2>2, <2>3 DEF TurnOf, ModuleTurn
<1>11. CASE NoSubmodule
  <2>1. Doing("module") /\ Now.at = Nothing BY <1>11 DEF NoSubmodule, Now
  <2>2. Steps(walk, walk', <<>>, {}, <<>>) BY <1>1, <1>11, NoSubmoduleDoes
  <2> QED BY <1>3, <2>1, <2>2 DEF TurnOf, ModuleTurn
<1>12. CASE AddUserClass
  <2>1. Doing("class") BY <1>12, Zenon DEF AddUserClass
  <2>2. ClassTasks(Now.at) = ClassIn(loaded, Now.at) BY DEF ClassTasks, ClassIn
  <2>3. /\ Now.at \notin walk.seen
        /\ Steps(walk, walk', ClassTasks(Now.at), {Now.at}, <<<<"cls", Now.label, Now.at>>>>)
    BY <1>1, <1>12, AddUserClassDoes
  <2> QED BY <1>3, <2>1, <2>2, <2>3 DEF TurnOf, ClassTurn
<1>13. CASE PassOver
  <2>1. Now.at \in walk.seen /\ Steps(walk, walk', <<>>, {}, <<>>) BY <1>1, <1>13, PassOverDoes
  <2>2. Doing("module") \/ Doing("class") BY <1>13 DEF PassOver
  <2> QED BY <1>3, <2>1, <2>2 DEF TurnOf, ModuleTurn, ClassTurn
<1> QED BY <1>5, <1>6, <1>7, <1>8, <1>9, <1>10, <1>11, <1>12, <1>13 DEF Walk

LEMMA PeersOn ==
  ASSUME NEW T, NEW s, NEW r, Peers(T, s, r), s # <<>>, NEW a, NEW b, Peers(T, a, b)
  PROVE  r # <<>> /\ Peers(T, a \o Tail(s), b \o Tail(r))
<1>1. PICK S : S = Tasks OBVIOUS
<1>2. s \in Seq(S) /\ r \in Seq(S) /\ a \in Seq(S) /\ b \in Seq(S) /\ Len(s) = Len(r) /\ Len(a) = Len(b)
  BY <1>1 DEF Peers
<1>3. r # <<>> BY <1>2
<1>4. PICK x, y : x = a \o Tail(s) /\ y = b \o Tail(r) OBVIOUS
<1>5. /\ x \in Seq(S) /\ Len(x) = Len(a) + Len(s) - 1 /\ Len(s) \in Nat \ {0} /\ Len(a) \in Nat
      /\ (\A n \in 1..Len(a) : x[n] = a[n]) /\ (\A n \in 2..Len(s) : x[Len(a) + n - 1] = s[n])
  <2>1. s \in Seq(Tasks) /\ a \in Seq(Tasks) /\ x = a \o Tail(s) BY <1>1, <1>2, <1>4
  <2> QED BY <1>1, <2>1, Spliced
<1>6. /\ y \in Seq(S) /\ Len(y) = Len(b) + Len(r) - 1
      /\ (\A n \in 1..Len(b) : y[n] = b[n]) /\ (\A n \in 2..Len(r) : y[Len(b) + n - 1] = r[n])
  BY <1>1, <1>2, <1>3, <1>4, Spliced
<1>7. Len(x) = Len(y) BY <1>2, <1>5, <1>6
<1>8. ASSUME NEW n \in 1..Len(x) PROVE Peer(T, x[n], y[n])
  <2>1. CASE n \in 1..Len(a)
    <3>1. x[n] = a[n] /\ y[n] = b[n] BY <1>2, <1>5, <1>6, <2>1
    <3> QED BY <2>1, <3>1 DEF Peers
  <2>2. CASE n \notin 1..Len(a)
    <3>1. PICK m : m = n - Len(a) + 1 OBVIOUS
    <3>2. m \in 2..Len(s) /\ n = Len(a) + m - 1 /\ m \in 1..Len(s) BY <1>5, <2>2, <3>1
    <3>3. x[n] = s[m] /\ y[n] = r[m] BY <1>2, <1>5, <1>6, <3>2
    <3> QED BY <3>2, <3>3 DEF Peers
  <2> QED BY <2>1, <2>2
<1>9. Peers(T, x, y) BY <1>1, <1>5, <1>6, <1>7, <1>8 DEF Peers
<1> QED BY <1>3, <1>4, <1>9

LEMMA StepsTogether ==
  ASSUME NEW T, NEW w, NEW v, InStep(T, w, v), w.todo # <<>>, NEW w2, NEW v2,
         NEW a, NEW b, Peers(T, a, b), NEW things, NEW frames,
         Steps(w, w2, a, things, frames), Steps(v, v2, b, things, frames)
  PROVE  InStep(T, w2, v2)
<1>1. Peers(T, a \o Tail(w.todo), b \o Tail(v.todo)) BY PeersOn DEF InStep
<1> QED BY <1>1 DEF InStep, Steps

LEMMA NoPeers == \A T : Peers(T, <<>>, <<>>)
<1>1. <<>> \in Seq(Tasks) /\ Len(<<>>) = 0 /\ 1..0 = {} OBVIOUS
<1> QED BY <1>1 DEF Peers

LEMMA OnePeer ==
  ASSUME NEW T, NEW t \in Tasks, NEW u \in Tasks, Peer(T, t, u) PROVE Peers(T, <<t>>, <<u>>)
<1>1. \A x \in Tasks : <<x>> \in Seq(Tasks) /\ Len(<<x>>) = 1 /\ <<x>>[1] = x OBVIOUS
<1>2. 1..1 = {1} OBVIOUS
<1> QED BY <1>1, <1>2 DEF Peers

\* A new task of each walk.
LEMMA PeerIs ==
  ASSUME NEW T, NEW does, does # "captures", NEW o, NEW o2, NEW label, NEW names,
         <<<<o, names>>, <<o2, names>>>> \in T
  PROVE  Peer(T, Task(does, o, label, names), Task(does, o2, label, names))
<1>1. PICK t, u : t = Task(does, o, label, names) /\ u = Task(does, o2, label, names) OBVIOUS
<1>2. /\ t.does = does /\ t.at = o /\ t.label = label /\ t.names = names
      /\ u.does = does /\ u.at = o2 /\ u.label = label /\ u.names = names
  BY <1>1 DEF Task
<1> QED BY <1>1, <1>2 DEF Peer

LEMMA OnesAt ==
  ASSUME NEW p, NEW q, NEW T, Ones(p, q, T), NEW o, NEW a, NEW o2, NEW b, <<<<o, a>>, <<o2, b>>>> \in T
  PROVE  /\ p \in Program /\ q \in Program /\ <<o, a>> \in Pair /\ <<o2, b>> \in Pair /\ SameOwn(p, q, o, o2)
         /\ \A i \in DOMAIN Kin(p, <<o, a>>) \cap DOMAIN Kin(q, <<o2, b>>) :
              <<Kin(p, <<o, a>>)[i], Kin(q, <<o2, b>>)[i]>> \in T
<1>1. PICK x, y : x = <<o, a>> /\ y = <<o2, b>> OBVIOUS
<1>2. PICK z : z = <<x, y>> OBVIOUS
<1>3. z \in Together(p, q) /\ z[1] = x /\ z[2] = y /\ x[1] = o /\ y[1] = o2 BY <1>1, <1>2 DEF Ones
<1>4. z \in Pair \X Pair /\ SameOwn(p, q, z[1][1], z[2][1]) BY <1>3, SameOnes DEF Ones
<1>5. Both(p, q, z) \subseteq Together(p, q) BY <1>3, TogetherCloses DEF Ones
<1>6. \A i \in DOMAIN Kin(p, x) \cap DOMAIN Kin(q, y) : <<Kin(p, x)[i], Kin(q, y)[i]>> \in T
  BY <1>3, <1>5 DEF Ones, Both
<1> QED BY <1>1, <1>3, <1>4, <1>6 DEF Ones

LEMMA FunctionOnes ==
  ASSUME NEW p, NEW q, NEW T, Ones(p, q, T), NEW f \in Fn, NEW g, NEW a, NEW b,
         <<<<f, a>>, <<g, b>>>> \in T
  PROVE  /\ g \in Fn /\ CodeOf[f] = CodeOf[g] /\ DOMAIN p.captures[f] = DOMAIN q.captures[g]
         /\ p.names[CodeOf[f]] = q.names[CodeOf[f]]
         /\ <<<<CodeOf[f], <<>>>>, <<CodeOf[f], <<>>>>>> \in T
         /\ \A i \in DOMAIN p.captures[f] :
              <<<<p.captures[f][i], p.names[CodeOf[f]]>>, <<q.captures[g][i], p.names[CodeOf[f]]>>>> \in T
<1>1. PICK x, y : x = <<f, a>> /\ y = <<g, b>> OBVIOUS
<1>2. x[1] = f /\ y[1] = g BY <1>1
<1>3. /\ p \in Program /\ q \in Program /\ x \in Pair /\ y \in Pair /\ SameOwn(p, q, f, g)
      /\ \A i \in DOMAIN Kin(p, x) \cap DOMAIN Kin(q, y) : <<Kin(p, x)[i], Kin(q, y)[i]>> \in T
  BY <1>1, OnesAt
<1>4. g \in Fn /\ CodeOf[f] = CodeOf[g] /\ Len(p.captures[f]) = Len(q.captures[g])
  BY <1>3 DEF SameOwn
<1>5. PICK c, m, s, r : c = CodeOf[f] /\ m = Len(p.captures[f]) /\ s = p.captures[f] /\ r = q.captures[g]
  OBVIOUS
<1>6. /\ DOMAIN Kin(p, x) = 1..(1 + m) /\ m \in Nat /\ DOMAIN s = 1..m
      /\ Kin(p, x)[1] = <<c, <<>>>> /\ \A n \in 1..m : Kin(p, x)[1 + n] = <<s[n], p.names[c]>>
  BY <1>2, <1>3, <1>5, FunctionKin
<1>7. /\ DOMAIN Kin(q, y) = 1..(1 + m) /\ DOMAIN r = 1..m
      /\ Kin(q, y)[1] = <<c, <<>>>> /\ \A n \in 1..m : Kin(q, y)[1 + n] = <<r[n], q.names[c]>>
  <2>1. y[1] \in Fn /\ CodeOf[y[1]] = c /\ q.captures[y[1]] = r /\ Len(r) = m BY <1>2, <1>4, <1>5
  <2> QED BY <1>3, <2>1, FunctionKin
<1>8. 1 \in 1..(1 + m) /\ \A n \in 1..m : 1 + n \in 1..(1 + m) BY <1>6
<1>9. <<<<c, <<>>>>, <<c, <<>>>>>> \in T BY <1>3, <1>6, <1>7, <1>8
<1>10. c \in Code BY <1>5, HashAssumption
<1>11. p.names[c] = q.names[c]
  <2>1. SameOwn(p, q, c, c) BY <1>9, OnesAt
  <2> QED BY <1>10, <2>1 DEF SameOwn
<1>12. \A n \in 1..m : <<<<s[n], p.names[c]>>, <<r[n], p.names[c]>>>> \in T
  BY <1>3, <1>6, <1>7, <1>8, <1>11
<1> QED BY <1>4, <1>5, <1>6, <1>7, <1>9, <1>11, <1>12

LEMMA CodeOnes ==
  ASSUME NEW p, NEW q, NEW T, Ones(p, q, T), NEW c \in Code, NEW d, NEW a, NEW b,
         <<<<c, a>>, <<d, b>>>> \in T
  PROVE  /\ d = c /\ p.names[c] = q.names[c] /\ p.body[c] = q.body[c] /\ p.literal[c] = q.literal[c]
         /\ \A i \in 1..Len(Inner[c]) : <<<<Inner[c][i], <<>>>>, <<Inner[c][i], <<>>>>>> \in T
         /\ \A n \in 1..Len(p.names[c]) :
              <<<<p.bound[p.names[c][n]], p.names[c]>>, <<q.bound[p.names[c][n]], p.names[c]>>>> \in T
<1>1. PICK x, y : x = <<c, a>> /\ y = <<d, b>> OBVIOUS
<1>2. x[1] = c /\ y[1] = d BY <1>1
<1>3. /\ p \in Program /\ q \in Program /\ x \in Pair /\ y \in Pair /\ SameOwn(p, q, c, d)
      /\ \A i \in DOMAIN Kin(p, x) \cap DOMAIN Kin(q, y) : <<Kin(p, x)[i], Kin(q, y)[i]>> \in T
  BY <1>1, OnesAt
<1>4. d = c /\ p.names[c] = q.names[c] /\ p.body[c] = q.body[c] /\ p.literal[c] = q.literal[c]
  <2>1. c \notin Fn \cup Mutable BY HashAssumption
  <2> QED BY <1>3, <2>1 DEF SameOwn
<1>5. PICK ns, m : ns = p.names[c] /\ m = Len(Inner[c]) OBVIOUS
<1>6. /\ m \in Nat /\ Len(ns) \in Nat /\ DOMAIN Kin(p, x) = 1..(m + Len(ns))
      /\ \A i \in 1..m : Kin(p, x)[i] = <<Inner[c][i], <<>>>>
      /\ \A n \in 1..Len(ns) : Kin(p, x)[m + n] = <<p.bound[ns[n]], ns>>
  BY <1>2, <1>3, <1>5, CodeKin
<1>7. /\ DOMAIN Kin(q, y) = 1..(m + Len(ns))
      /\ \A i \in 1..m : Kin(q, y)[i] = <<Inner[c][i], <<>>>>
      /\ \A n \in 1..Len(ns) : Kin(q, y)[m + n] = <<q.bound[ns[n]], ns>>
  <2>1. y[1] = c /\ q.names[y[1]] = ns /\ Len(Inner[y[1]]) = m BY <1>2, <1>4, <1>5
  <2> QED BY <1>3, <2>1, CodeKin
<1>8. (\A i \in 1..m : i \in 1..(m + Len(ns))) /\ \A n \in 1..Len(ns) : m + n \in 1..(m + Len(ns))
  BY <1>6
<1>9. \A i \in 1..m : <<<<Inner[c][i], <<>>>>, <<Inner[c][i], <<>>>>>> \in T
  BY <1>3, <1>6, <1>7, <1>8
<1>10. \A n \in 1..Len(ns) : <<<<p.bound[ns[n]], ns>>, <<q.bound[ns[n]], ns>>>> \in T
  BY <1>3, <1>6, <1>7, <1>8
<1> QED BY <1>4, <1>5, <1>9, <1>10

LEMMA ModuleOnes ==
  ASSUME NEW p, NEW q, NEW T, Ones(p, q, T), NEW m \in Mod, NEW d, NEW ns,
         <<<<m, ns>>, <<d, ns>>>> \in T
  PROVE  /\ d = m /\ p.text[m] = q.text[m] /\ ns \in Seq(Name)
         /\ \A i \in 1..Len(ns) : <<<<Sub[m][ns[i]], ns>>, <<Sub[m][ns[i]], ns>>>> \in T
<1>1. PICK x, y : x = <<m, ns>> /\ y = <<d, ns>> OBVIOUS
<1>2. x[1] = m /\ y[1] = d /\ x[2] = ns /\ y[2] = ns BY <1>1
<1>3. /\ p \in Program /\ q \in Program /\ x \in Pair /\ y \in Pair /\ SameOwn(p, q, m, d)
      /\ \A i \in DOMAIN Kin(p, x) \cap DOMAIN Kin(q, y) : <<Kin(p, x)[i], Kin(q, y)[i]>> \in T
  BY <1>1, OnesAt
<1>4. d = m /\ p.text[m] = q.text[m]
  <2>1. m \notin Fn \cup Mutable BY HashAssumption
  <2> QED BY <1>3, <2>1 DEF SameOwn
<1>5. ns \in Seq(Name) BY <1>2, <1>3 DEF Pair
<1>6. DOMAIN ns = 1..Len(ns) BY <1>5
<1>7. PICK k : k = [i \in DOMAIN ns |-> <<Sub[m][ns[i]], ns>>] OBVIOUS
<1>8. Kin(p, x) = k BY <1>2, <1>3, <1>7, KinIs, Zenon
<1>9. Kin(q, y) = k
  <2>1. y[1] = m BY <1>2, <1>4
  <2>2. Kin(q, y) = [i \in DOMAIN y[2] |-> <<Sub[y[1]][y[2][i]], y[2]>>] BY <1>3, <2>1, KinIs, Zenon
  <2> QED BY <1>2, <1>7, <2>1, <2>2
<1>10. DOMAIN k = 1..Len(ns) /\ \A i \in 1..Len(ns) : k[i] = <<Sub[m][ns[i]], ns>> BY <1>6, <1>7
<1>11. \A i \in 1..Len(ns) : <<k[i], k[i]>> \in T BY <1>3, <1>8, <1>9, <1>10
<1>12. \A i \in 1..Len(ns) : <<<<Sub[m][ns[i]], ns>>, <<Sub[m][ns[i]], ns>>>> \in T BY <1>10, <1>11
<1> QED BY <1>4, <1>5, <1>12

LEMMA ClassOnes ==
  ASSUME NEW p, NEW q, NEW T, Ones(p, q, T), NEW k \in Cls, NEW d, NEW a, NEW b,
         <<<<k, a>>, <<d, b>>>> \in T
  PROVE  /\ d = k /\ Len(p.methods[k]) = Len(q.methods[k])
         /\ \A n \in 1..Len(p.methods[k]) :
              <<<<p.methods[k][n][2], <<>>>>, <<q.methods[k][n][2], <<>>>>>> \in T
<1>1. PICK x, y : x = <<k, a>> /\ y = <<d, b>> OBVIOUS
<1>2. x[1] = k /\ y[1] = d BY <1>1
<1>3. /\ p \in Program /\ q \in Program /\ x \in Pair /\ y \in Pair /\ SameOwn(p, q, k, d)
      /\ \A i \in DOMAIN Kin(p, x) \cap DOMAIN Kin(q, y) : <<Kin(p, x)[i], Kin(q, y)[i]>> \in T
  BY <1>1, OnesAt
<1>4. d = k /\ MethodNames(p, k) = MethodNames(q, k)
  <2>1. k \notin Fn \cup Mutable BY HashAssumption
  <2> QED BY <1>3, <2>1 DEF SameOwn
<1>5. PICK s, r, u, e, h :
        /\ s = p.methods[k] /\ r = q.methods[k] /\ u = Under(Bases[k], <<>>)
        /\ e = [i \in DOMAIN s |-> <<s[i][2], <<>>>>] /\ h = [i \in DOMAIN r |-> <<r[i][2], <<>>>>]
  OBVIOUS
<1>6. s \in Seq(Name \X Fn) /\ r \in Seq(Name \X Fn) BY <1>3, <1>5, ClassInIs
<1>7. DOMAIN s = DOMAIN r
  <2>1. DOMAIN MethodNames(p, k) = DOMAIN s /\ DOMAIN MethodNames(q, k) = DOMAIN r
    BY <1>5 DEF MethodNames
  <2> QED BY <1>4, <2>1
<1>8. Len(s) = Len(r) /\ Len(s) \in Nat /\ DOMAIN s = 1..Len(s) BY <1>6, <1>7
<1>9. Kin(p, x) = u \o e /\ u \in Seq(Pair) /\ e \in Seq(Pair)
  <2>1. /\ Kin(p, x) = Under(Bases[x[1]], <<>>) \o
             [i \in DOMAIN p.methods[x[1]] |-> <<p.methods[x[1]][i][2], <<>>>>]
        /\ Under(Bases[x[1]], <<>>) \in Seq(Pair)
        /\ [i \in DOMAIN p.methods[x[1]] |-> <<p.methods[x[1]][i][2], <<>>>>] \in Seq(Pair)
    BY <1>2, <1>3, KinIs, Zenon
  <2>2. /\ Under(Bases[x[1]], <<>>) = u
        /\ [i \in DOMAIN p.methods[x[1]] |-> <<p.methods[x[1]][i][2], <<>>>>] = e
    BY <1>2, <1>5
  <2> QED BY <2>1, <2>2, Zenon
<1>10. Kin(q, y) = u \o h /\ h \in Seq(Pair)
  <2>1. y[1] = k BY <1>2, <1>4
  <2>2. /\ Kin(q, y) = Under(Bases[y[1]], <<>>) \o
             [i \in DOMAIN q.methods[y[1]] |-> <<q.methods[y[1]][i][2], <<>>>>]
        /\ [i \in DOMAIN q.methods[y[1]] |-> <<q.methods[y[1]][i][2], <<>>>>] \in Seq(Pair)
    BY <1>3, <2>1, KinIs, Zenon
  <2>3. /\ Under(Bases[y[1]], <<>>) = u
        /\ [i \in DOMAIN q.methods[y[1]] |-> <<q.methods[y[1]][i][2], <<>>>>] = h
    BY <1>5, <2>1
  <2> QED BY <2>2, <2>3, Zenon
<1>11. /\ DOMAIN e = 1..Len(s) /\ DOMAIN h = 1..Len(s)
       /\ \A n \in 1..Len(s) : e[n] = <<s[n][2], <<>>>> /\ h[n] = <<r[n][2], <<>>>>
  BY <1>5, <1>7, <1>8
<1>12. \A n \in 1..Len(s) : /\ Len(u) + n \in DOMAIN Kin(p, x) /\ Kin(p, x)[Len(u) + n] = e[n]
                            /\ Len(u) + n \in DOMAIN Kin(q, y) /\ Kin(q, y)[Len(u) + n] = h[n]
  BY <1>9, <1>10, <1>11, BothElements
<1>13. \A n \in 1..Len(s) : <<e[n], h[n]>> \in T
  <2>1. TAKE n \in 1..Len(s)
  <2>2. Len(u) + n \in DOMAIN Kin(p, x) \cap DOMAIN Kin(q, y) BY <1>12
  <2> QED BY <1>3, <1>12, <2>2
<1>14. \A n \in 1..Len(s) : <<<<s[n][2], <<>>>>, <<r[n][2], <<>>>>>> \in T BY <1>11, <1>13
<1> QED BY <1>4, <1>5, <1>8, <1>14

LEMMA CapturesPeerIs ==
  ASSUME NEW T, NEW f, NEW g, NEW label, NEW ns, <<<<f, ns>>, <<g, ns>>>> \in T
  PROVE  Peer(T, Task("captures", f, label, <<>>), Task("captures", g, label, <<>>))
<1>1. PICK t, u : t = Task("captures", f, label, <<>>) /\ u = Task("captures", g, label, <<>>)
  OBVIOUS
<1>2. /\ t.does = "captures" /\ t.at = f /\ t.label = label /\ t.names = <<>>
      /\ u.does = "captures" /\ u.at = g /\ u.label = label /\ u.names = <<>>
  BY <1>1 DEF Task
<1> QED BY <1>1, <1>2 DEF Peer

LEMMA GlobalPeers ==
  ASSUME NEW p, NEW q, NEW T, Ones(p, q, T), NEW label \in Label, NEW names \in Seq(Name),
         NEW o \in Object \cup {Nothing}, NEW o2 \in Object \cup {Nothing},
         <<<<o, names>>, <<o2, names>>>> \in T
  PROVE  /\ Peers(T, GlobalTasks(o, label, names), GlobalTasks(o2, label, names))
         /\ FrameOf(p, o, label) = FrameOf(q, o2, label)
<1>1. SameOwn(p, q, o, o2) BY OnesAt
<1>2. /\ Fn \cap (Cls \cup Mod \cup Outside \cup Const \cup Mutable) = {}
      /\ Cls \cap (Mod \cup Outside \cup Const \cup Mutable) = {}
      /\ Mod \cap (Outside \cup Const \cup Mutable) = {}
      /\ Outside \cap (Const \cup Mutable) = {} /\ Const \cap Mutable = {}
  BY HashAssumption
<1>3. \A does \in {"function", "module", "class"} :
        Peer(T, Task(does, o, label, names), Task(does, o2, label, names))
  BY PeerIs
<1>4. FrameOf(p, o, label) = FrameOf(q, o2, label)
  <2>1. CASE o \in Fn
    <3>1. o2 \in Fn BY <1>1, <2>1 DEF SameOwn
    <3> QED BY <1>2, <2>1, <3>1 DEF FrameOf
  <2>2. CASE o \in Mutable
    <3>1. o2 \in Mutable /\ TypeOf[o] = TypeOf[o2] BY <1>1, <2>2 DEF SameOwn
    <3> QED BY <1>2, <2>2, <3>1 DEF FrameOf
  <2>3. CASE o \notin Fn \cup Mutable
    <3>1. o2 = o /\ (o \in Outside => p.version = q.version) BY <1>1, <2>3 DEF SameOwn
    <3>2. CASE o \in Outside BY <1>2, <3>1, <3>2 DEF FrameOf
    <3>3. CASE o \notin Outside BY <1>2, <3>1, <2>3, <3>3 DEF FrameOf
    <3> QED BY <3>2, <3>3
  <2> QED BY <2>1, <2>2, <2>3
<1>5. Peers(T, GlobalTasks(o, label, names), GlobalTasks(o2, label, names))
  <2>1. /\ GlobalTasks(o, label, names) \in Seq(Tasks)
        /\ o \in Fn => GlobalTasks(o, label, names) = <<Task("function", o, label, names)>>
        /\ o \in Mod => GlobalTasks(o, label, names) = <<Task("module", o, label, names)>>
        /\ o \in Cls => GlobalTasks(o, label, names) = <<Task("class", o, label, names)>>
        /\ o \notin Fn \cup Mod \cup Cls => GlobalTasks(o, label, names) = <<>>
    BY GlobalTasksIs
  <2>2. /\ o2 \in Fn => GlobalTasks(o2, label, names) = <<Task("function", o2, label, names)>>
        /\ GlobalTasks(o2, label, names) \in Seq(Tasks)
        /\ o2 \in Mod => GlobalTasks(o2, label, names) = <<Task("module", o2, label, names)>>
        /\ o2 \in Cls => GlobalTasks(o2, label, names) = <<Task("class", o2, label, names)>>
        /\ o2 \notin Fn \cup Mod \cup Cls => GlobalTasks(o2, label, names) = <<>>
    BY GlobalTasksIs
  <2>3. \A t : <<t>> \in Seq(Tasks) => t \in Tasks OBVIOUS
  <2>4. \A t, u : <<t>> \in Seq(Tasks) /\ <<u>> \in Seq(Tasks) /\ Peer(T, t, u) => Peers(T, <<t>>, <<u>>)
    BY <2>3, OnePeer
  <2>5. CASE o \in Fn
    <3>1. o2 \in Fn BY <1>1, <2>5 DEF SameOwn
    <3> QED BY <1>3, <2>1, <2>2, <2>4, <2>5, <3>1
  <2>6. CASE o \in Mod
    <3>1. o2 = o BY <1>1, <1>2, <2>6 DEF SameOwn
    <3> QED BY <1>3, <2>1, <2>2, <2>4, <2>6, <3>1
  <2>7. CASE o \in Cls
    <3>1. o2 = o BY <1>1, <1>2, <2>7 DEF SameOwn
    <3> QED BY <1>3, <2>1, <2>2, <2>4, <2>7, <3>1
  <2>8. CASE o \notin Fn \cup Mod \cup Cls
    <3>1. o2 \notin Fn \cup Mod \cup Cls BY <1>1, <1>2, <2>8 DEF SameOwn
    <3> QED BY <2>1, <2>2, <2>8, <3>1, NoPeers
  <2> QED BY <2>5, <2>6, <2>7, <2>8
<1> QED BY <1>4, <1>5

LEMMA CapturesPeers ==
  ASSUME NEW p, NEW q, NEW T, Ones(p, q, T), NEW f \in Fn, NEW g \in Fn, NEW i \in Nat \ {0}, NEW a,
         <<<<f, a>>, <<g, a>>>> \in T
  PROVE  Peers(T, CapturesIn(p, f, i), CapturesIn(q, g, i))
<1>1. /\ CodeOf[f] = CodeOf[g] /\ DOMAIN p.captures[f] = DOMAIN q.captures[g]
      /\ p.names[CodeOf[f]] = q.names[CodeOf[f]]
      /\ <<<<CodeOf[f], <<>>>>, <<CodeOf[f], <<>>>>>> \in T
      /\ \A n \in DOMAIN p.captures[f] :
           <<<<p.captures[f][n], p.names[CodeOf[f]]>>, <<q.captures[g][n], p.names[CodeOf[f]]>>>> \in T
  BY FunctionOnes
<1>2. p \in Program /\ q \in Program BY DEF Ones
<1>3. PICK s, r : s = CapturesIn(p, f, i) /\ r = CapturesIn(q, g, i) OBVIOUS
<1>4. CASE i \in DOMAIN p.captures[f]
  <2>1. PICK ns, o, o2 : ns = p.names[CodeOf[f]] /\ o = p.captures[f][i] /\ o2 = q.captures[g][i]
    OBVIOUS
  <2>2. /\ s \in Seq(Tasks) /\ Len(s) = 2 /\ s[1] = Task("global", o, <<i>>, ns)
        /\ s[2] = Task("captures", f, <<i + 1>>, <<>>)
    BY <1>2, <1>3, <1>4, <2>1, CapturesInIs
  <2>3. /\ r \in Seq(Tasks) /\ Len(r) = 2 /\ r[1] = Task("global", o2, <<i>>, ns)
        /\ r[2] = Task("captures", g, <<i + 1>>, <<>>)
    BY <1>1, <1>2, <1>3, <1>4, <2>1, CapturesInIs
  <2>4. Peer(T, s[1], r[1]) BY <1>1, <1>4, <2>1, <2>2, <2>3, PeerIs
  <2>5. Peer(T, s[2], r[2]) BY <2>2, <2>3, CapturesPeerIs
  <2>6. 1..2 = {1, 2} OBVIOUS
  <2> QED BY <1>3, <2>2, <2>3, <2>4, <2>5, <2>6 DEF Peers
<1>5. CASE i \notin DOMAIN p.captures[f]
  <2>1. s \in Seq(Tasks) /\ Len(s) = 1 /\ s[1] = Task("code", CodeOf[f], <<>>, <<>>)
    <3>1. LET l == CapturesIn(p, f, i)
          IN  l \in Seq(Tasks) /\ Len(l) = 1 /\ l[1] = Task("code", CodeOf[f], <<>>, <<>>)
      BY <1>2, <1>5, CapturesInIs, Zenon
    <3> QED BY <1>3, <3>1
  <2>2. r \in Seq(Tasks) /\ Len(r) = 1 /\ r[1] = Task("code", CodeOf[f], <<>>, <<>>)
    <3>1. i \notin DOMAIN q.captures[g] BY <1>1, <1>5
    <3>2. LET l == CapturesIn(q, g, i)
          IN  l \in Seq(Tasks) /\ Len(l) = 1 /\ l[1] = Task("code", CodeOf[g], <<>>, <<>>)
      BY <1>2, <3>1, CapturesInIs, Zenon
    <3> QED BY <1>1, <1>3, <3>2
  <2>3. Peer(T, s[1], r[1]) BY <1>1, <2>1, <2>2, PeerIs
  <2>4. 1..1 = {1} OBVIOUS
  <2> QED BY <1>3, <2>1, <2>2, <2>3, <2>4 DEF Peers
<1> QED BY <1>4, <1>5

LEMMA CodePeers ==
  ASSUME NEW p, NEW q, NEW T, Ones(p, q, T), NEW c \in Code, NEW a, NEW b, <<<<c, a>>, <<c, b>>>> \in T
  PROVE  Peers(T, CodeIn(p, c), CodeIn(q, c)) /\ CodeFramesIn(p, c) = CodeFramesIn(q, c)
<1>1. PICK ns, m : ns = p.names[c] /\ m = Len(Inner[c]) OBVIOUS
<1>2. /\ q.names[c] = ns /\ p.body[c] = q.body[c] /\ p.literal[c] = q.literal[c]
      /\ \A i \in 1..m : <<<<Inner[c][i], <<>>>>, <<Inner[c][i], <<>>>>>> \in T
      /\ \A n \in 1..Len(ns) : <<<<p.bound[ns[n]], ns>>, <<q.bound[ns[n]], ns>>>> \in T
  BY <1>1, CodeOnes
<1>3. CodeFramesIn(p, c) = CodeFramesIn(q, c) BY <1>1, <1>2 DEF CodeFramesIn
<1>4. p \in Program /\ q \in Program BY DEF Ones
<1>5. PICK s, r : s = CodeIn(p, c) /\ r = CodeIn(q, c) OBVIOUS
<1>6. /\ s \in Seq(Tasks) /\ m \in Nat /\ Len(ns) \in Nat /\ Len(s) = m + Len(ns)
      /\ \A i \in 1..m : s[i] = Task("code", Inner[c][i], <<>>, <<>>)
      /\ \A i \in 1..Len(ns) : s[m + i] = Task("global", p.bound[ns[i]], <<ns[i]>>, ns)
  BY <1>1, <1>4, <1>5, CodeInIs
<1>7. /\ r \in Seq(Tasks) /\ Len(r) = m + Len(ns)
      /\ \A i \in 1..m : r[i] = Task("code", Inner[c][i], <<>>, <<>>)
      /\ \A i \in 1..Len(ns) : r[m + i] = Task("global", q.bound[ns[i]], <<ns[i]>>, ns)
  <2>1. LET l == CodeIn(q, c)
            k == q.names[c]
        IN  /\ l \in Seq(Tasks) /\ Len(l) = m + Len(k)
            /\ \A i \in 1..m : l[i] = Task("code", Inner[c][i], <<>>, <<>>)
            /\ \A i \in 1..Len(k) : l[m + i] = Task("global", q.bound[k[i]], <<k[i]>>, k)
    BY <1>1, <1>4, CodeInIs
  <2> QED BY <1>2, <1>5, <2>1
<1>8. ASSUME NEW k \in 1..Len(s) PROVE Peer(T, s[k], r[k])
  <2>1. CASE k \in 1..m
    <3>1. <<<<Inner[c][k], <<>>>>, <<Inner[c][k], <<>>>>>> \in T BY <1>2, <2>1
    <3>2. Peer(T, Task("code", Inner[c][k], <<>>, <<>>), Task("code", Inner[c][k], <<>>, <<>>))
      BY <3>1, PeerIs
    <3> QED BY <1>6, <1>7, <2>1, <3>2
  <2>2. CASE k \notin 1..m
    <3>1. PICK n : n = k - m OBVIOUS
    <3>2. n \in 1..Len(ns) /\ k = m + n BY <1>6, <2>2, <3>1
    <3>3. s[k] = Task("global", p.bound[ns[n]], <<ns[n]>>, ns) /\ r[k] = Task("global", q.bound[ns[n]], <<ns[n]>>, ns)
      BY <1>6, <1>7, <3>2
    <3> QED BY <1>2, <3>2, <3>3, PeerIs
  <2> QED BY <2>1, <2>2
<1>9. Peers(T, s, r) BY <1>6, <1>7, <1>8 DEF Peers
<1> QED BY <1>3, <1>5, <1>9

LEMMA ModulePeers ==
  ASSUME NEW p, NEW q, NEW T, Ones(p, q, T), NEW m \in Mod, NEW label \in Label, NEW ns \in Seq(Name),
         <<<<m, ns>>, <<m, ns>>>> \in T
  PROVE  Peers(T, ModuleTasks(m, label, ns), ModuleTasks(m, label, ns)) /\ p.text[m] = q.text[m]
<1>1. p.text[m] = q.text[m] /\ \A i \in 1..Len(ns) : <<<<Sub[m][ns[i]], ns>>, <<Sub[m][ns[i]], ns>>>> \in T
  BY ModuleOnes
<1>2. PICK s : s = ModuleTasks(m, label, ns) OBVIOUS
<1>3. /\ s \in Seq(Tasks) /\ Len(s) = Len(ns)
      /\ \A i \in 1..Len(ns) : s[i] = Task("module", Sub[m][ns[i]], Append(label, ns[i]), ns)
  BY <1>2, ModuleTasksIs
<1>4. \A i \in 1..Len(s) : Peer(T, s[i], s[i])
  <2>1. TAKE i \in 1..Len(s)
  <2>2. i \in 1..Len(ns) /\ <<<<Sub[m][ns[i]], ns>>, <<Sub[m][ns[i]], ns>>>> \in T BY <1>1, <1>3
  <2>3. PICK t : t = Task("module", Sub[m][ns[i]], Append(label, ns[i]), ns) OBVIOUS
  <2>4. Peer(T, t, t) BY <2>2, <2>3, PeerIs
  <2> QED BY <1>3, <2>2, <2>3, <2>4
<1>5. Peers(T, s, s) BY <1>3, <1>4 DEF Peers
<1> QED BY <1>1, <1>2, <1>5

LEMMA ClassPeers ==
  ASSUME NEW p, NEW q, NEW T, Ones(p, q, T), NEW k \in Cls, NEW a, NEW b, <<<<k, a>>, <<k, b>>>> \in T
  PROVE  Peers(T, ClassIn(p, k), ClassIn(q, k))
<1>1. PICK ms, ms2, s, r : ms = p.methods[k] /\ ms2 = q.methods[k] /\ s = ClassIn(p, k) /\ r = ClassIn(q, k)
  OBVIOUS
<1>2. Len(ms) = Len(ms2) /\ \A n \in 1..Len(ms) : <<<<ms[n][2], <<>>>>, <<ms2[n][2], <<>>>>>> \in T
  BY <1>1, ClassOnes
<1>3. p \in Program /\ q \in Program BY DEF Ones
<1>4. /\ s \in Seq(Tasks) /\ Len(s) = Len(ms)
      /\ \A i \in 1..Len(ms) : s[i] = Task("function", ms[i][2], <<>>, <<>>)
  BY <1>1, <1>3, ClassInIs
<1>5. /\ r \in Seq(Tasks) /\ Len(r) = Len(ms2)
      /\ \A i \in 1..Len(ms2) : r[i] = Task("function", ms2[i][2], <<>>, <<>>)
  BY <1>1, <1>3, ClassInIs
<1>6. \A i \in 1..Len(s) : Peer(T, s[i], r[i])
  <2>1. TAKE i \in 1..Len(s)
  <2>2. i \in 1..Len(ms) /\ i \in 1..Len(ms2) /\ <<<<ms[i][2], <<>>>>, <<ms2[i][2], <<>>>>>> \in T
    BY <1>2, <1>4
  <2>3. Peer(T, Task("function", ms[i][2], <<>>, <<>>), Task("function", ms2[i][2], <<>>, <<>>))
    BY <2>2, PeerIs
  <2> QED BY <1>4, <1>5, <2>2, <2>3
<1>7. Peers(T, s, r) BY <1>2, <1>4, <1>5, <1>6 DEF Peers
<1> QED BY <1>1, <1>7

\* One turn of each walk.
LEMMA TurnsTogether ==
  ASSUME NEW p, NEW q, NEW T, Ones(p, q, T), NEW w, NEW v, TypedWalk(w), TypedWalk(v), InStep(T, w, v),
         NEW w2, NEW v2, Turn(p, w, w2), Turn(q, v, v2)
  PROVE  InStep(T, w2, v2)
<1>1. PICK t, u : t = w.todo[1] /\ u = v.todo[1] OBVIOUS
<1>2. /\ t \in Tasks /\ t.names \in Seq(Name)
      /\ t.does \in {"function", "code", "class", "global", "module", "captures"}
      /\ t.does = "function" => t.at \in Fn
      /\ t.does = "code" => t.at \in Code
      /\ t.does = "class" => t.at \in Cls /\ t.label \in Label
      /\ t.does = "global" => t.at \in Object \cup {Nothing} /\ t.label \in Label
      /\ t.does = "module" => t.at \in Mod \cup {Nothing} /\ t.label \in Label
      /\ t.does = "captures" => t.at \in Fn /\ \E i \in Nat \ {0} : t.label = <<i>>
  BY <1>1, HeadIs, TaskHas DEF Turn
<1>3. /\ u \in Tasks
      /\ u.does = "function" => u.at \in Fn
      /\ u.does = "global" => u.at \in Object \cup {Nothing}
      /\ u.does = "captures" => u.at \in Fn
  BY <1>1, HeadIs, TaskHas DEF Turn
<1>4. Peer(T, t, u)
  <2>1. w.todo \in Seq(Tasks) /\ w.todo # <<>> BY DEF Turn, TypedWalk
  <2>2. 1 \in 1..Len(w.todo) BY <2>1
  <2> QED BY <1>1, <2>2 DEF InStep, Peers
<1>5. t.does = u.does /\ t.label = u.label /\ t.names = u.names /\ w.seen = v.seen
  BY <1>4 DEF Peer, InStep
<1>6. t.does # "captures" => <<<<t.at, t.names>>, <<u.at, t.names>>>> \in T BY <1>4, <1>5 DEF Peer
<1>7. TurnOf(p, w, w2, t) /\ TurnOf(q, v, v2, u) /\ w.todo # <<>> BY <1>1 DEF Turn
<1>8. \A a, b, things, frames :
        Peers(T, a, b) /\ Steps(w, w2, a, things, frames) /\ Steps(v, v2, b, things, frames) =>
          InStep(T, w2, v2)
  BY <1>7, StepsTogether
<1>9. Peers(T, <<>>, <<>>) BY NoPeers
<1>10. CASE t.does = "global"
  <2>1. /\ Peers(T, GlobalTasks(t.at, t.label, t.names), GlobalTasks(u.at, t.label, t.names))
        /\ FrameOf(p, t.at, t.label) = FrameOf(q, u.at, t.label)
    BY <1>2, <1>3, <1>5, <1>6, <1>10, GlobalPeers
  <2>2. Steps(w, w2, GlobalTasks(t.at, t.label, t.names), {}, FrameOf(p, t.at, t.label))
    BY <1>7, <1>10 DEF TurnOf
  <2>3. Steps(v, v2, GlobalTasks(u.at, t.label, t.names), {}, FrameOf(q, u.at, t.label))
    BY <1>5, <1>7, <1>10 DEF TurnOf
  <2> QED BY <1>8, <2>1, <2>2, <2>3
<1>11. CASE t.does = "function"
  <2>1. t.at \in Fn /\ u.at \in Fn /\ <<<<t.at, t.names>>, <<u.at, t.names>>>> \in T
    BY <1>2, <1>3, <1>5, <1>6, <1>11
  <2>2. CodeOf[t.at] = CodeOf[u.at]
    <3>1. SameOwn(p, q, t.at, u.at) BY <2>1, OnesAt
    <3> QED BY <2>1, <3>1 DEF SameOwn
  <2>3. FunctionTurn(p, w, w2, t) /\ FunctionTurn(q, v, v2, u) BY <1>5, <1>7, <1>11 DEF TurnOf
  <2>4. CASE CodeOf[t.at] \in w.seen
    <3>1. Steps(w, w2, <<>>, {}, <<<<"cycle">>>>) BY <2>3, <2>4 DEF FunctionTurn
    <3>2. Steps(v, v2, <<>>, {}, <<<<"cycle">>>>) BY <1>5, <2>2, <2>3, <2>4 DEF FunctionTurn
    <3> QED BY <1>8, <1>9, <3>1, <3>2
  <2>5. CASE CodeOf[t.at] \notin w.seen
    <3>1. Steps(w, w2, FunctionTasks(t.at), {}, <<>>) BY <2>3, <2>5 DEF FunctionTurn
    <3>2. Steps(v, v2, FunctionTasks(u.at), {}, <<>>) BY <1>5, <2>2, <2>3, <2>5 DEF FunctionTurn
    <3>3. PICK x, y : x = Task("captures", t.at, <<1>>, <<>>) /\ y = Task("captures", u.at, <<1>>, <<>>)
      OBVIOUS
    <3>4. x \in Tasks /\ y \in Tasks
      <4>1. 1 \in Nat \ {0} /\ <<>> \in Seq(Name) OBVIOUS
      <4> QED BY <2>1, <3>3, <4>1 DEF Task, Tasks
    <3>5. Peer(T, x, y) BY <2>1, <3>3, CapturesPeerIs
    <3>6. Peers(T, FunctionTasks(t.at), FunctionTasks(u.at))
      BY <3>3, <3>4, <3>5, OnePeer DEF FunctionTasks
    <3> QED BY <1>8, <3>1, <3>2, <3>6
  <2> QED BY <2>4, <2>5
<1>12. CASE t.does = "captures"
  <2>1. PICK i, ns : i \in Nat \ {0} /\ t.label = <<i>> /\ <<<<t.at, ns>>, <<u.at, ns>>>> \in T
    BY <1>2, <1>4, <1>12 DEF Peer
  <2>2. t.label[1] = i /\ u.label[1] = i /\ t.at \in Fn /\ u.at \in Fn
    BY <1>2, <1>3, <1>5, <1>12, <2>1
  <2>3. Peers(T, CapturesIn(p, t.at, i), CapturesIn(q, u.at, i)) BY <2>1, <2>2, CapturesPeers
  <2>4. Steps(w, w2, CapturesIn(p, t.at, i), {}, <<>>) /\ Steps(v, v2, CapturesIn(q, u.at, i), {}, <<>>)
    BY <1>5, <1>7, <1>12, <2>2 DEF TurnOf
  <2> QED BY <1>8, <2>3, <2>4
<1>13. CASE t.does = "code"
  <2>1. t.at \in Code /\ <<<<t.at, t.names>>, <<u.at, t.names>>>> \in T BY <1>2, <1>6, <1>13
  <2>2. u.at = t.at BY <2>1, CodeOnes
  <2>3. CodeTurn(p, w, w2, t) /\ CodeTurn(q, v, v2, u) BY <1>5, <1>7, <1>13 DEF TurnOf
  <2>4. CASE t.at \in w.seen
    <3>1. Steps(w, w2, <<>>, {}, <<<<"cycle">>>>) /\ Steps(v, v2, <<>>, {}, <<<<"cycle">>>>)
      BY <1>5, <2>2, <2>3, <2>4 DEF CodeTurn
    <3> QED BY <1>8, <1>9, <3>1
  <2>5. CASE t.at \notin w.seen
    <3>1. /\ Steps(w, w2, CodeIn(p, t.at), {t.at}, CodeFramesIn(p, t.at))
          /\ Steps(v, v2, CodeIn(q, t.at), {t.at}, CodeFramesIn(q, t.at))
      BY <1>5, <2>2, <2>3, <2>5 DEF CodeTurn
    <3>2. Peers(T, CodeIn(p, t.at), CodeIn(q, t.at)) /\ CodeFramesIn(p, t.at) = CodeFramesIn(q, t.at)
      BY <2>1, <2>2, CodePeers
    <3> QED BY <1>8, <3>1, <3>2
  <2> QED BY <2>4, <2>5
<1>14. CASE t.does = "module"
  <2>1. t.at \in Mod \cup {Nothing} /\ t.label \in Label /\ <<<<t.at, t.names>>, <<u.at, t.names>>>> \in T
    BY <1>2, <1>6, <1>14
  <2>2. u.at = t.at
    <3>1. SameOwn(p, q, t.at, u.at) BY <2>1, OnesAt
    <3>2. t.at \notin Fn \cup Mutable BY <2>1, HashAssumption DEF Object
    <3> QED BY <3>1, <3>2 DEF SameOwn
  <2>3. ModuleTurn(p, w, w2, t) /\ ModuleTurn(q, v, v2, u) BY <1>5, <1>7, <1>14 DEF TurnOf
  <2>4. CASE t.at = Nothing \/ t.at \in w.seen
    <3>1. Steps(w, w2, <<>>, {}, <<>>) /\ Steps(v, v2, <<>>, {}, <<>>)
      BY <1>5, <2>2, <2>3, <2>4 DEF ModuleTurn
    <3> QED BY <1>8, <1>9, <3>1
  <2>5. CASE t.at # Nothing /\ t.at \notin w.seen
    <3>1. /\ Steps(w, w2, ModuleTasks(t.at, t.label, t.names), {t.at}, <<<<"m", t.label, t.at, p.text[t.at]>>>>)
          /\ Steps(v, v2, ModuleTasks(t.at, t.label, t.names), {t.at}, <<<<"m", t.label, t.at, q.text[t.at]>>>>)
      BY <1>5, <2>2, <2>3, <2>5 DEF ModuleTurn
    <3>2. t.at \in Mod BY <2>1, <2>5
    <3>3. /\ Peers(T, ModuleTasks(t.at, t.label, t.names), ModuleTasks(t.at, t.label, t.names))
          /\ p.text[t.at] = q.text[t.at]
      BY <1>2, <2>1, <2>2, <3>2, ModulePeers
    <3> QED BY <1>8, <3>1, <3>3
  <2> QED BY <2>4, <2>5
<1>15. CASE t.does = "class"
  <2>1. t.at \in Cls /\ <<<<t.at, t.names>>, <<u.at, t.names>>>> \in T BY <1>2, <1>6, <1>15
  <2>2. u.at = t.at BY <2>1, ClassOnes
  <2>3. ClassTurn(p, w, w2, t) /\ ClassTurn(q, v, v2, u) BY <1>5, <1>7, <1>15 DEF TurnOf
  <2>4. CASE t.at \in w.seen
    <3>1. Steps(w, w2, <<>>, {}, <<>>) /\ Steps(v, v2, <<>>, {}, <<>>)
      BY <1>5, <2>2, <2>3, <2>4 DEF ClassTurn
    <3> QED BY <1>8, <1>9, <3>1
  <2>5. CASE t.at \notin w.seen
    <3>1. /\ Steps(w, w2, ClassIn(p, t.at), {t.at}, <<<<"cls", t.label, t.at>>>>)
          /\ Steps(v, v2, ClassIn(q, t.at), {t.at}, <<<<"cls", t.label, t.at>>>>)
      BY <1>5, <2>2, <2>3, <2>5 DEF ClassTurn
    <3>2. Peers(T, ClassIn(p, t.at), ClassIn(q, t.at)) BY <2>1, <2>2, ClassPeers
    <3> QED BY <1>8, <3>1, <3>2
  <2> QED BY <2>4, <2>5
<1> QED BY <1>2, <1>10, <1>11, <1>12, <1>13, <1>14, <1>15

-----------------------------------------------------------------------------
(* The same definition has the same hash                                   *)

LEMMA TrailStarts ==
  ASSUME NEW p \in Program PROVE \E c : TrailTo(c, p, NewWalk)
<1> DEFINE at == [k \in 0..0 |-> NewWalk]
           c == [of |-> p, steps |-> 0, at |-> at]
<1>1. c.of = p /\ c.steps = 0 /\ c.at = at OBVIOUS
<1>2. \A k \in 0..0 : at[k] = NewWalk OBVIOUS
<1>3. 0 \in 0..0 /\ 0..(0 - 1) = {} /\ 0 \in Nat OBVIOUS
<1> HIDE DEF at, c
<1>4. TypedWalk(NewWalk) BY NewWalkIs
<1>5. c.at[0] = NewWalk /\ (\A k \in 0..c.steps : c.at[k] = NewWalk) /\ 0..(c.steps - 1) = {}
  BY <1>1, <1>2, <1>3
<1>6. Trail(c) BY <1>1, <1>3, <1>4, <1>5 DEF Trail
<1>7. TrailTo(c, p, NewWalk) BY <1>1, <1>5, <1>6 DEF TrailTo
<1> QED BY <1>7

LEMMA TrailGoesOn ==
  ASSUME NEW p, NEW w, NEW v, NEW c, TrailTo(c, p, w), TypedWalk(v), Turn(p, w, v)
  PROVE  \E d : TrailTo(d, p, v)
<1>1. PICK n \in Nat : n = c.steps BY DEF TrailTo, Trail
<1>2. /\ c.of = p /\ p \in Program /\ c.at[0] = NewWalk /\ c.at[n] = w
      /\ \A k \in 0..n : TypedWalk(c.at[k])
      /\ \A k \in 0..(n - 1) : Turn(p, c.at[k], c.at[k + 1])
  BY <1>1 DEF TrailTo, Trail
<1> DEFINE at == [k \in 0..(n + 1) |-> IF k = n + 1 THEN v ELSE c.at[k]]
           d == [of |-> p, steps |-> n + 1, at |-> at]
<1>3. d.of = p /\ d.steps = n + 1 /\ d.at = at OBVIOUS
<1>4. at[n + 1] = v /\ \A k \in 0..n : at[k] = c.at[k] OBVIOUS
<1> HIDE DEF at, d
<1>5. at[0] = NewWalk
  <2>1. 0 \in 0..n OBVIOUS
  <2> QED BY <1>2, <1>4, <2>1
<1>6. \A k \in 0..(n + 1) : TypedWalk(at[k])
  <2>1. \A k \in 0..(n + 1) : k = n + 1 \/ k \in 0..n OBVIOUS
  <2> QED BY <1>2, <1>4, <2>1
<1>7. ASSUME NEW k \in 0..n PROVE Turn(p, at[k], at[k + 1])
  <2>1. CASE k = n
    <3>1. at[k] = w /\ at[k + 1] = v BY <1>2, <1>4, <2>1
    <3> QED BY <3>1
  <2>2. CASE k # n
    <3>1. k \in 0..(n - 1) /\ k + 1 \in 0..n BY <2>2
    <3>2. at[k] = c.at[k] /\ at[k + 1] = c.at[k + 1] BY <1>4, <3>1
    <3> QED BY <1>2, <3>1, <3>2
  <2> QED BY <2>1, <2>2
<1>8. Trail(d)
  <2>1. d.steps \in Nat /\ d.steps - 1 = n BY <1>3
  <2>2. /\ \A k \in 0..d.steps : TypedWalk(d.at[k])
        /\ \A k \in 0..(d.steps - 1) : Turn(d.of, d.at[k], d.at[k + 1])
    BY <1>3, <1>6, <1>7, <2>1
  <2> QED BY <1>2, <1>3, <1>5, <2>1, <2>2 DEF Trail
<1>9. TrailTo(d, p, v) BY <1>3, <1>4, <1>8 DEF TrailTo
<1> QED BY <1>9

LEMMA StaysTrailed == Spec => []Trailed
<1>1. Init => Trailed BY DEF Init, Trailed
<1>2. Typed /\ Typed' /\ Trailed /\ [Next]_vars => Trailed'
  <2> SUFFICES ASSUME Typed, Typed', Trailed, [Next]_vars PROVE Trailed' OBVIOUS
  <2>0. /\ \A c : TrailTo(c, loaded, walk)' <=> TrailTo(c, loaded', walk')
        /\ \A c, r : TrailOf(c, r)' <=> TrailOf(c, r)
    OBVIOUS
  <2>1. CASE Edit \/ SetBreakpoint \/ UNCHANGED vars
    <3>1. UNCHANGED <<walk, loaded, phase, records>> BY <2>1 DEF Edit, SetBreakpoint, vars
    <3> QED BY <2>0, <3>1 DEF Trailed
  <2>2. CASE Start \/ Exit
    <3>1. phase' \notin {"walking", "answered"} /\ records' = records BY <2>2 DEF Start, Exit
    <3> QED BY <2>0, <3>1 DEF Trailed
  <2>3. CASE FirstCall
    <3>1. phase' = "walking" /\ walk' = NewWalk /\ loaded' = loaded /\ records' = records
      BY <2>3 DEF FirstCall
    <3>2. \E c : TrailTo(c, loaded', walk') BY <3>1, TrailStarts DEF Typed
    <3> QED BY <2>0, <3>1, <3>2 DEF Trailed
  <2>4. CASE Walk
    <3>1. phase = "walking" /\ phase' = "walking" /\ loaded' = loaded /\ records' = records
      <4>1. UNCHANGED <<loaded, phase, records>> BY <2>4, Zenon DEF Walk
      <4>2. \E does : Doing(does)
        BY <2>4, Zenon DEF Walk, AddGlobal, AddFunction, AddCaptures, AddCode, MeetCodeAgain, AddUserModule,
                           NoSubmodule, AddUserClass, PassOver
      <4> QED BY <4>1, <4>2 DEF Doing
    <3>2. ASSUME "edited" \notin walk'.blind PROVE \E c : TrailTo(c, loaded', walk')
      <4>1. "edited" \notin walk.blind BY <2>4, <3>2, WalkNotes
      <4>2. PICK c : TrailTo(c, loaded, walk) BY <3>1, <4>1 DEF Trailed
      <4>3. Turn(loaded, walk, walk') BY <2>4, <3>2, WalkIsTurn
      <4>4. TypedWalk(walk')
        <5>1. TypedWalk(walk)' BY DEF Typed
        <5> QED BY <5>1
      <4> QED BY <3>1, <4>2, <4>3, <4>4, TrailGoesOn
    <3> QED BY <2>0, <3>1, <3>2 DEF Trailed
  <2>5. CASE RunForced \/ Hit \/ Miss
    <3>1. UNCHANGED <<walk, loaded>> /\ phase = "walking" /\ phase' = "answered" /\ walk.todo = <<>>
      BY <2>5 DEF RunForced, Hit, Miss, Walked, Answers
    <3>2. \A r \in records' : r \in records \/ r = Record BY <2>5 DEF RunForced, Hit, Miss
    <3>3. Record.blind = walk.blind /\ Record.of = loaded /\ Record.frames = walk.frames
      BY DEF Record
    <3>4. "edited" \notin Record.blind => \E c : TrailOf(c, Record)
      <4>1. \A c : TrailTo(c, loaded, walk) => TrailOf(c, Record) BY <3>1, <3>3 DEF TrailTo, TrailOf
      <4> QED BY <3>1, <3>3, <4>1 DEF Trailed
    <3>5. \A r \in records' : "edited" \notin r.blind => \E c : TrailOf(c, r)
      BY <3>2, <3>4 DEF Trailed
    <3>6. "edited" \notin walk'.blind => \E c : TrailTo(c, loaded', walk') BY <3>1 DEF Trailed
    <3> QED BY <2>0, <3>5, <3>6 DEF Trailed
  <2> QED BY <2>1, <2>2, <2>3, <2>4, <2>5 DEF Next
<1> QED BY <1>1, <1>2, Typing, PTL DEF Spec

\* Trails of one definition stay in step as long as both go on.
LEMMA TrailsInStep ==
  ASSUME NEW c, NEW d, Trail(c), Trail(d), NEW T, Ones(c.of, d.of, T),
         NEW n \in Nat, n <= c.steps, n <= d.steps
  PROVE  InStep(T, c.at[n], d.at[n])
<1>1. c.steps \in Nat /\ d.steps \in Nat /\ c.at[0] = NewWalk /\ d.at[0] = NewWalk BY DEF Trail
<1>2. InStep(T, c.at[0], d.at[0])
  <2>1. PICK t : t = Task("function", Root, <<>>, <<>>) OBVIOUS
  <2>2. InStep(T, NewWalk, NewWalk)
    <3>1. NewWalk.todo = <<t>> BY <2>1 DEF NewWalk
    <3>2. t \in Tasks BY <3>1, NewWalkIs DEF TypedWalk
    <3>3. <<<<Root, <<>>>>, <<Root, <<>>>>>> \in T BY RootsTogether DEF Ones
    <3>4. Peer(T, t, t) BY <2>1, <3>3, PeerIs
    <3> QED BY <3>1, <3>2, <3>4, OnePeer DEF InStep
  <2> QED BY <1>1, <2>2
<1>3. ASSUME NEW k \in 0..(n - 1), InStep(T, c.at[k], d.at[k])
      PROVE  InStep(T, c.at[k + 1], d.at[k + 1])
  <2>1. /\ k \in 0..c.steps /\ k \in 0..d.steps
        /\ k \in 0..(c.steps - 1) /\ k \in 0..(d.steps - 1)
    BY <1>1
  <2>2. /\ TypedWalk(c.at[k]) /\ TypedWalk(d.at[k])
        /\ Turn(c.of, c.at[k], c.at[k + 1]) /\ Turn(d.of, d.at[k], d.at[k + 1])
    BY <2>1 DEF Trail
  <2> QED BY <1>3, <2>2, TurnsTogether
<1>4. PICK S : S = {k \in Nat : InStep(T, c.at[k], d.at[k])} OBVIOUS
<1>5. 0 \in S /\ \A k \in 0..(n - 1) : k \in S => k + 1 \in S BY <1>2, <1>3, <1>4
<1>6. n \in S BY <1>5, Upward
<1> QED BY <1>4, <1>6

\* They come to the end together.
LEMMA TrailsEndTogether ==
  ASSUME NEW c, NEW d, Trail(c), Trail(d), SameDefinition(c.of, d.of),
         c.at[c.steps].todo = <<>>, d.at[d.steps].todo = <<>>
  PROVE  c.at[c.steps].frames = d.at[d.steps].frames
<1>1. PICK T : Ones(c.of, d.of, T) BY DEF Ones, Trail
<1>2. c.steps \in Nat /\ d.steps \in Nat BY DEF Trail
<1>3. \A n \in Nat : n <= c.steps /\ n <= d.steps => InStep(T, c.at[n], d.at[n])
  BY <1>1, TrailsInStep
<1>4. \A w, v : InStep(T, w, v) => (w.todo = <<>> <=> v.todo = <<>>) /\ w.frames = v.frames
  <2>1. \A a, b : a \in Seq(Tasks) /\ b \in Seq(Tasks) /\ Len(a) = Len(b) => (a = <<>> <=> b = <<>>)
    OBVIOUS
  <2> QED BY <2>1 DEF InStep, Peers
<1>5. ~(c.steps < d.steps)
  <2> SUFFICES ASSUME c.steps < d.steps PROVE FALSE OBVIOUS
  <2>1. d.at[c.steps].todo = <<>> BY <1>2, <1>3, <1>4
  <2>2. c.steps \in 0..(d.steps - 1) BY <1>2
  <2> QED BY <2>1, <2>2 DEF Trail, Turn
<1>6. ~(d.steps < c.steps)
  <2> SUFFICES ASSUME d.steps < c.steps PROVE FALSE OBVIOUS
  <2>1. c.at[d.steps].todo = <<>> BY <1>2, <1>3, <1>4
  <2>2. d.steps \in 0..(c.steps - 1) BY <1>2
  <2> QED BY <2>1, <2>2 DEF Trail, Turn
<1>7. c.steps = d.steps BY <1>2, <1>5, <1>6
<1> QED BY <1>2, <1>3, <1>4, <1>7

\* A finished walk of a definition that some record is of finds the record,
\* but for a module whose file was edited under one of the two:
\* SameDefinitionHits, for any program and any edits of it.
THEOREM SameDefinitionsHit == Spec => []SameDefinitionHits
<1>1. Typed /\ Trailed => SameDefinitionHits
  <2> SUFFICES ASSUME Typed, Trailed, Walked, "edited" \notin walk.blind, NEW r \in records, r \notin Found,
                      "edited" \notin r.blind, SameDefinition(r.of, loaded)
               PROVE  FALSE
    BY DEF SameDefinitionHits
  <2>1. phase = "walking" /\ walk.todo = <<>> /\ r.frames # walk.frames BY DEF Walked, Found
  <2>2. PICK c : TrailOf(c, r) BY DEF Trailed
  <2>3. PICK d : TrailTo(d, loaded, walk) BY <2>1 DEF Trailed
  <2>4. /\ Trail(c) /\ Trail(d) /\ SameDefinition(c.of, d.of)
        /\ c.at[c.steps].todo = <<>> /\ d.at[d.steps].todo = <<>>
        /\ c.at[c.steps].frames = r.frames /\ d.at[d.steps].frames = walk.frames
    BY <2>1, <2>2, <2>3 DEF TrailOf, TrailTo
  <2> QED BY <2>1, <2>4, TrailsEndTogether
<1> QED BY <1>1, Typing, StaysTrailed, PTL

=============================================================================
