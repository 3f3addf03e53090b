--------------------------- MODULE ChannelProofs ---------------------------
(***************************************************************************)
(* What holds of Channel for any tasks, graph of objects, pipes and bounds *)
(***************************************************************************)
EXTENDS Channel, FiniteSetTheorems, FunctionTheorems, SequenceTheorems,
        WellFoundedInduction, TLAPS

-----------------------------------------------------------------------------
(* Graphs of objects                                                       *)

\* A set of objects that is not empty has one with no child in it.
LEMMA Lowest ==
  ASSUME NEW S \in SUBSET Obj, S # {}
  PROVE  \E o \in S : Kids[o] \cap S = {}
<1>1. S \subseteq Nat
  BY KidsAreBelow
<1>2. PICK o \in S : \A k \in S : ~(<<k, o>> \in OpToRel(<, Nat))
  BY <1>1, NatLessThanWellFounded, WFMin
<1>3. \A k \in S : ~(k < o)
  BY <1>1, <1>2 DEF OpToRel
<1>4. \A k \in Kids[o] : k < o
  BY KidsAreBelow
<1>5. QED
  BY <1>3, <1>4

\* What a walk step from o comes to, given what one from each child does.
Visit(U, o, stop) == IF o \in stop THEN {} ELSE {o} \cup UNION {U[k] : k \in Kids[o]}

\* The function that Under takes exists: the least of those closed under a
\* step, for steps are monotone.
LEMMA WalkExists ==
  ASSUME NEW stop
  PROVE  \E U : U = [o \in Obj |-> Visit(U, o, stop)]
<1> DEFINE Pre(H) == \A o \in Obj : Visit(H, o, stop) \subseteq H[o]
           All == [Obj -> SUBSET Obj]
           G == [o \in Obj |-> {p \in Obj : \A H \in All : Pre(H) => p \in H[o]}]
           B == [o \in Obj |-> Visit(G, o, stop)]
<1>1. ASSUME NEW H, NEW K, NEW o \in Obj, \A k \in Obj : H[k] \subseteq K[k]
      PROVE  Visit(H, o, stop) \subseteq Visit(K, o, stop)
  <2>1. \A k \in Kids[o] : H[k] \subseteq K[k]
    BY <1>1, KidsAreBelow
  <2>2. QED
    BY <2>1 DEF Visit
<1>2. \A H \in All : Pre(H) => \A o \in Obj : G[o] \subseteq H[o]
  OBVIOUS
<1>3. ASSUME NEW o \in Obj
      PROVE  B[o] \subseteq G[o]
  <2>1. B[o] = Visit(G, o, stop)
    OBVIOUS
  <2>2. ASSUME NEW H \in All, Pre(H)
        PROVE  B[o] \subseteq H[o]
    <3> HIDE DEF G, B
    <3>1. \A k \in Obj : G[k] \subseteq H[k]
      BY <1>2, <2>2
    <3>2. Visit(G, o, stop) \subseteq Visit(H, o, stop)
      BY <1>1, <3>1
    <3>3. Visit(H, o, stop) \subseteq H[o]
      BY <2>2
    <3>4. QED
      BY <2>1, <3>2, <3>3
  <2>3. B[o] \subseteq Obj
    <3>1. \A k \in Obj : G[k] \subseteq Obj
      OBVIOUS
    <3> HIDE DEF G, B
    <3>2. \A k \in Kids[o] : G[k] \subseteq Obj
      BY <3>1, KidsAreBelow
    <3>3. QED
      BY <2>1, <3>2 DEF Visit
  <2> HIDE DEF B, Pre
  <2>4. QED
    BY <2>2, <2>3
<1>4. B \in All /\ Pre(B)
  <2>1. B \in All
    BY <1>3
  <2>2. \A o \in Obj : B[o] = Visit(G, o, stop)
    OBVIOUS
  <2> HIDE DEF B, G
  <2>3. \A o \in Obj : Visit(B, o, stop) \subseteq Visit(G, o, stop)
    BY <1>1, <1>3
  <2>4. QED
    BY <2>1, <2>2, <2>3
<1>5. G = B
  <2>1. \A o \in Obj : G[o] \subseteq B[o]
    BY <1>2, <1>4
  <2> HIDE DEF Pre
  <2>2. \A o \in Obj : G[o] = B[o]
    BY <1>3, <2>1
  <2>3. QED
    BY <2>2
<1>6. QED
  BY <1>5

\* Under satisfies its recursion.
LEMMA UnderIs ==
  ASSUME NEW stop
  PROVE  \A v \in Obj :
           Under(v, stop) = IF v \in stop THEN {}
                                          ELSE {v} \cup UNION {Under(k, stop) : k \in Kids[v]}
<1> DEFINE U == CHOOSE U : U = [o \in Obj |-> Visit(U, o, stop)]
<1>1. U = [o \in Obj |-> Visit(U, o, stop)]
  BY WalkExists
<1>2. \A v : Under(v, stop) = U[v]
  BY DEF Under, Visit
<1> HIDE DEF U
<1>3. \A v \in Obj : U[v] = Visit(U, v, stop)
  BY <1>1
<1>4. ASSUME NEW v \in Obj
      PROVE  {Under(k, stop) : k \in Kids[v]} = {U[k] : k \in Kids[v]}
  BY <1>2
<1>5. QED
  BY <1>2, <1>3, <1>4 DEF Visit

\* A walk comes to objects, none above its start and none where it stops,
\* and from each of them it goes as if it had started there.
LEMMA UnderProperties ==
  ASSUME NEW stop, NEW v \in Obj
  PROVE  /\ Under(v, stop) \subseteq Obj \ stop
         /\ \A o \in Under(v, stop) : o <= v /\ Under(o, stop) \subseteq Under(v, stop)
         /\ v \notin stop => v \in Under(v, stop)
<1> DEFINE Good(o) == /\ Under(o, stop) \subseteq Obj \ stop
                      /\ \A p \in Under(o, stop) :
                           p <= o /\ Under(p, stop) \subseteq Under(o, stop)
           Bad == {o \in Obj : ~Good(o)}
<1>1. Bad = {}
  <2> SUFFICES ASSUME Bad # {}
               PROVE  FALSE
    OBVIOUS
  <2>1. PICK o \in Bad : Kids[o] \cap Bad = {}
    BY Lowest
  <2>2. o \in Obj /\ ~Good(o)
    OBVIOUS
  <2>3. \A k \in Kids[o] : k \in Obj /\ k < o /\ Good(k)
    BY <2>1, <2>2, KidsAreBelow
  <2>4. /\ o \in stop => Under(o, stop) = {}
        /\ o \notin stop => Under(o, stop) = {o} \cup UNION {Under(k, stop) : k \in Kids[o]}
    BY <2>2, UnderIs
  <2>5. \A p \in Under(o, stop) : \/ p = o /\ o \notin stop
                                  \/ \E k \in Kids[o] : p \in Under(k, stop)
    BY <2>4
  <2>6. Under(o, stop) \subseteq Obj \ stop
    BY <2>2, <2>3, <2>5
  <2>7. ASSUME NEW p \in Under(o, stop)
        PROVE  p <= o /\ Under(p, stop) \subseteq Under(o, stop)
    <3>1. CASE p = o
      BY <2>2, <3>1, KidsAreBelow
    <3>2. ASSUME NEW k \in Kids[o], p \in Under(k, stop)
          PROVE  p <= o /\ Under(p, stop) \subseteq Under(o, stop)
      <4>1. p <= k /\ Under(p, stop) \subseteq Under(k, stop) /\ k < o
        BY <2>3, <3>2
      <4>2. Under(k, stop) \subseteq Under(o, stop)
        BY <2>4, <2>7
      <4>3. p \in Nat /\ k \in Nat /\ o \in Nat
        BY <2>2, <2>3, <2>6, KidsAreBelow
      <4>4. QED
        BY <4>1, <4>2, <4>3
    <3>3. QED
      BY <2>5, <3>1, <3>2
  <2>8. QED
    BY <2>2, <2>6, <2>7
<1>2. Good(v)
  BY <1>1
<1>3. v \notin stop => v \in Under(v, stop)
  BY UnderIs
<1>4. QED
  BY <1>2, <1>3

LEMMA ClosureProperties ==
  ASSUME NEW v \in Obj
  PROVE  /\ v \in Closure(v) /\ Closure(v) \subseteq Obj
         /\ Closure(v) = {v} \cup UNION {Closure(k) : k \in Kids[v]}
         /\ \A o \in Closure(v) : Closure(o) \subseteq Closure(v)
<1>1. \A o : Under(o, {}) = Closure(o)
  BY DEF Closure
<1>2. Under(v, {}) = {v} \cup UNION {Under(k, {}) : k \in Kids[v]}
  BY UnderIs
<1>3. QED
  BY <1>1, <1>2, UnderProperties

\* What a value is made of is what the peer lacks of it, and what that
\* which the peer has is made of.
LEMMA ClosureSplits ==
  ASSUME NEW have, NEW v \in Obj
  PROVE  /\ Under(v, have) \subseteq Closure(v)
         /\ Closure(v) \subseteq Under(v, have) \cup UNION {Closure(h) : h \in have \cap Obj}
<1> DEFINE Rest == UNION {Closure(h) : h \in have \cap Obj}
           Good(o) == /\ Under(o, have) \subseteq Closure(o)
                      /\ Closure(o) \subseteq Under(o, have) \cup Rest
           Bad == {o \in Obj : ~Good(o)}
<1>1. Bad = {}
  <2> SUFFICES ASSUME Bad # {}
               PROVE  FALSE
    OBVIOUS
  <2>1. PICK o \in Bad : Kids[o] \cap Bad = {}
    BY Lowest
  <2>2. o \in Obj /\ ~Good(o)
    OBVIOUS
  <2>3. \A k \in Kids[o] : Good(k)
    BY <2>1, <2>2, KidsAreBelow
  <2>4. Closure(o) = {o} \cup UNION {Closure(k) : k \in Kids[o]}
    BY <2>2, ClosureProperties
  <2>5. /\ o \in have => Under(o, have) = {}
        /\ o \notin have => Under(o, have) = {o} \cup UNION {Under(k, have) : k \in Kids[o]}
    BY <2>2, UnderIs
  <2>6. CASE o \in have
    <3>1. Closure(o) \subseteq Rest
      BY <2>2, <2>6
    <3>2. QED
      BY <2>2, <2>5, <2>6, <3>1
  <2>7. CASE o \notin have
    <3> HIDE DEF Rest, Bad
    <3>1. QED
      BY <2>2, <2>3, <2>4, <2>5, <2>7
  <2>8. QED
    BY <2>6, <2>7
<1>2. QED
  BY <1>1

\* A value is rebuilt by a side whose fallback has all it is made of.
LEMMA WholeResolves ==
  ASSUME NEW v \in Obj, NEW objects, NEW fallback, Closure(v) \subseteq fallback
  PROVE  Resolves(v, objects, fallback)
<1>1. \A o \in Closure(v) : Closure(o) \subseteq fallback
  BY ClosureProperties
<1>2. ASSUME NEW p \in Under(v, Obj \ objects)
      PROVE  Kids[p] \subseteq Closure(v)
  <2>1. p \in Closure(v) /\ p \in Obj
    BY ClosureSplits, ClosureProperties
  <2>2. Closure(p) \subseteq Closure(v) /\ Kids[p] \subseteq Obj
    BY <2>1, ClosureProperties, KidsAreBelow
  <2>3. \A k \in Kids[p] : k \in Closure(p)
    BY <2>1, <2>2, ClosureProperties
  <2>4. QED
    BY <2>2, <2>3
<1>3. v \in Closure(v)
  BY ClosureProperties
<1>4. QED
  BY <1>1, <1>2, <1>3 DEF Resolves

-----------------------------------------------------------------------------
(* Sequences                                                               *)

\* A finite set of numbers in order is a sequence of all of them, ascending.
LEMMA InOrderIs ==
  ASSUME NEW S \in SUBSET Nat, IsFiniteSet(S)
  PROVE  /\ InOrder(S) \in Seq(S) /\ Range(InOrder(S)) = S
         /\ \A i, j \in DOMAIN InOrder(S) : InOrder(S)[j] <= InOrder(S)[i] => j <= i
         /\ DOMAIN InOrder(S) = 1..Cardinality(S)
         /\ \A i \in 1..Cardinality(S) : /\ InOrder(S)[i] \in S
                                         /\ Cardinality({p \in S : p < InOrder(S)[i]}) = i - 1
         /\ \A o, p \in S : Cardinality({q \in S : q < o}) = Cardinality({q \in S : q < p})
                             => o = p
<1> DEFINE Below(o) == {p \in S : p < o}
           n == Cardinality(S)
           r(o) == Cardinality(Below(o))
           s == InOrder(S)
<1>1. n \in Nat /\ S \subseteq Nat
  BY FS_CardinalityType
<1>2. \A o \in S : IsFiniteSet(Below(o)) /\ r(o) \in Nat
  BY FS_Subset, FS_CardinalityType
<1>3. ASSUME NEW o \in S
      PROVE  r(o) < n
  <2>1. Below(o) \in SUBSET S /\ o \notin Below(o)
    BY <1>1
  <2>2. r(o) <= n /\ r(o) # n
    BY <2>1, FS_Subset
  <2>3. r(o) \in Nat
    BY <1>2
  <2> HIDE DEF r, n
  <2>4. QED
    BY <1>1, <2>2, <2>3
<1>4. ASSUME NEW o \in S, NEW p \in S, p < o
      PROVE  r(p) < r(o)
  <2>1. p \in Nat /\ o \in Nat /\ \A q \in S : q \in Nat
    BY <1>1
  <2>2. Below(p) \in SUBSET Below(o)
    <3>1. \A q \in S : q < p => q < o
      BY <1>4, <2>1
    <3>2. Below(p) \subseteq Below(o)
      BY <3>1
    <3>3. QED
      BY <3>2
  <2>3. p \in Below(o) /\ p \notin Below(p)
    BY <1>4, <2>1
  <2>4. r(p) <= r(o) /\ r(p) # r(o)
    <3> HIDE DEF Below
    <3>1. QED
      BY <1>2, <2>2, <2>3, FS_Subset
  <2>5. r(p) \in Nat /\ r(o) \in Nat
    BY <1>2
  <2> HIDE DEF r
  <2>6. QED
    BY <2>4, <2>5
<1>5. s = [i \in 1..n |-> CHOOSE o \in S : r(o) = i - 1]
  BY DEF InOrder
<1>6. \A o \in S : r(o) \in Nat
  BY <1>2
<1> HIDE DEF r, n, s, Below
<1>7. ASSUME NEW o \in S, NEW p \in S, r(o) = r(p)
      PROVE  o = p
  <2>1. ~(o < p) /\ ~(p < o)
    BY <1>4, <1>6, <1>7
  <2>2. QED
    BY <1>1, <2>1
<1>8. \A i \in 1..n : \E o \in S : r(o) = i - 1
  <2> DEFINE f == [o \in S |-> r(o) + 1]
  <2>1. IsFiniteSet(1..n) /\ Cardinality(1..n) = n /\ n = Cardinality(S)
    BY <1>1, FS_Interval DEF n
  <2>2. \A o \in S : r(o) + 1 \in 1..n
    BY <1>1, <1>3, <1>6
  <2>3. f \in [S -> 1..n]
    BY <2>2
  <2>4. \A o, p \in S : f[o] = f[p] => o = p
    BY <1>6, <1>7
  <2>5. \A o \in S : f[o] = r(o) + 1
    OBVIOUS
  <2> HIDE DEF f
  <2>6. f \in Injection(S, 1..n)
    BY <2>3, <2>4, Fun_IsInj
  <2>7. f \in Surjection(S, 1..n)
    BY <2>1, <2>6, FS_Injection
  <2>8. \A i \in 1..n : \E o \in S : f[o] = i
    BY <2>7, Fun_SurjectionProperties
  <2>9. QED
    BY <1>6, <2>5, <2>8
<1>9. ASSUME NEW i \in 1..n
      PROVE  s[i] \in S /\ r(s[i]) = i - 1
  BY <1>5, <1>8
<1>10. s \in Seq(S) /\ DOMAIN s = 1..n
  <2>1. s \in [1..n -> S]
    BY <1>5, <1>9
  <2>2. QED
    BY <1>1, <2>1
<1>11. ASSUME NEW o \in S
       PROVE  \E i \in DOMAIN s : s[i] = o
  <2>1. r(o) + 1 \in 1..n
    BY <1>1, <1>3, <1>6
  <2>2. s[r(o) + 1] \in S /\ r(s[r(o) + 1]) = r(o)
    BY <1>6, <1>9, <2>1
  <2>3. QED
    BY <1>7, <1>10, <2>1, <2>2
<1>12. \A i \in DOMAIN s : s[i] \in S
  BY <1>9, <1>10
<1>13. Range(s) = S
  BY <1>11, <1>12 DEF Range
<1>14. ASSUME NEW i \in 1..n, NEW j \in 1..n, s[j] <= s[i]
       PROVE  j <= i
  <2>1. s[i] \in S /\ s[j] \in S /\ r(s[i]) = i - 1 /\ r(s[j]) = j - 1
    BY <1>9
  <2>2. s[i] = s[j] \/ s[j] < s[i]
    <3>1. s[i] \in Nat /\ s[j] \in Nat
      BY <1>1, <2>1
    <3>2. QED
      BY <1>14, <3>1
  <2>3. r(s[j]) <= r(s[i])
    <3>1. CASE s[i] = s[j]
      BY <1>6, <2>1, <3>1
    <3>2. CASE s[j] < s[i]
      <4>1. r(s[j]) < r(s[i])
        BY <1>4, <2>1, <3>2
      <4>2. QED
        BY <1>6, <2>1, <4>1
    <3>3. QED
      BY <2>2, <3>1, <3>2
  <2>4. i \in Nat /\ j \in Nat
    BY <1>1
  <2>5. QED
    BY <2>1, <2>3, <2>4
<1>15. \A i \in 1..n : s[i] \in S /\ Cardinality({p \in S : p < s[i]}) = i - 1
  BY <1>9 DEF r, Below
<1>16. \A o, p \in S : Cardinality({q \in S : q < o}) = Cardinality({q \in S : q < p}) => o = p
  BY <1>7 DEF r, Below
<1>17. QED
  BY <1>10, <1>13, <1>14, <1>15, <1>16 DEF s, n

\* What is sent of a value: what the peer lacks of it, the lowest first.
LEMMA PackedIs ==
  ASSUME NEW v \in Obj, NEW have
  PROVE  /\ Packed(v, have) \in Seq(Obj)
         /\ Range(Packed(v, have)) = Under(v, have) /\ Under(v, have) \subseteq Obj
         /\ \A i, j \in DOMAIN Packed(v, have) :
              Packed(v, have)[j] <= Packed(v, have)[i] => j <= i
<1> DEFINE S == Under(v, have)
<1>1. S \in SUBSET Obj /\ \A o \in S : o <= v
  BY UnderProperties
<1>2. S \in SUBSET Nat /\ v \in Nat
  BY <1>1, KidsAreBelow
<1>3. IsFiniteSet(S)
  BY <1>1, <1>2, FS_BoundedSetOfNaturals
<1> HIDE DEF S
<1>4. /\ InOrder(S) \in Seq(S) /\ Range(InOrder(S)) = S
      /\ \A i, j \in DOMAIN InOrder(S) : InOrder(S)[j] <= InOrder(S)[i] => j <= i
  BY <1>2, <1>3, InOrderIs
<1>5. InOrder(S) \in Seq(Obj)
  BY <1>1, <1>4
<1>6. QED
  BY <1>1, <1>4, <1>5 DEF S, Packed

LEMMA SetToSeqIs ==
  ASSUME NEW S, IsFiniteSet(S)
  PROVE  SetToSeq(S) \in Seq(S)
<1>1. Cardinality(S) \in Nat /\ ExistsBijection(1..Cardinality(S), S)
  BY FS_CardinalityType
<1>2. PICK f \in Bijection(1..Cardinality(S), S) : TRUE
  BY <1>1 DEF ExistsBijection
<1>3. f \in [1..Cardinality(S) -> S] /\ IsInjective(f)
  <2> DEFINE D == 1..Cardinality(S)
  <2>1. f \in Bijection(D, S)
    OBVIOUS
  <2> HIDE DEF D
  <2>2. f \in [D -> S] /\ \A a, b \in D : f[a] = f[b] => a = b
    BY <2>1, Fun_BijectionProperties
  <2>3. QED
    BY <2>2 DEF D, IsInjective
<1>4. SetToSeq(S) \in [1..Cardinality(S) -> S]
  BY <1>3 DEF SetToSeq
<1>5. QED
  BY <1>1, <1>4

-----------------------------------------------------------------------------
(* Types                                                                   *)

LEMMA MessagesAre ==
  /\ Message("HELLO", Nil) \in Downward
  /\ \A v \in Obj : Message("OBJECT", v) \in Downward /\ Message("TASK", v) \in Downward
  /\ \A v \in Obj \cup {Nil}, asked \in {"GET_VALUE", "CALL"} : Answer(v, asked) \in Downward
  /\ \A v \in Obj : /\ Message("OBJECT", v) \in Upward /\ Message("RECORD", v) \in Upward
                    /\ Message("GET_VALUE", v) \in Upward /\ Message("CALL", v) \in Upward
  /\ \A v \in Obj \cup {Nil} : Message("RESULT", v) \in Upward
  /\ Message("EXIT", Nil) \in Upward /\ Message("CLOSED", Nil) \in Upward
  /\ \A what \in Prints : [Message("PRINT", Nil) EXCEPT !.to = what] \in Upward
  /\ \A tag \in {"OPEN", "CLOSE", "KILL"}, c \in Chan : Control(tag, c) \in Frames
  /\ \A c \in Chan, m \in Downward : Frame("DATA", c, m) \in Frames
<1>1. \A c \in Chan, m \in Downward, tag \in {"OPEN", "DATA", "CLOSE", "KILL"} :
        Frame(tag, c, m) \in Frames
  BY DEF Frame, Frames
<1>2. \A what \in Prints : [Message("PRINT", Nil) EXCEPT !.to = what]
                             = [tag |-> "PRINT", v |-> Nil, to |-> what]
  BY DEF Message
<1>3. Message("none", Nil) \in Downward
  BY DEF Message, Downward
<1>4. QED
  BY <1>1, <1>2, <1>3 DEF Message, Answer, Control, Downward, Upward

LEMMA ObjectsAre ==
  ASSUME NEW s \in Seq(Obj)
  PROVE  /\ Objects(s) \in Seq(Upward) \cap Seq(Downward)
         /\ Len(Objects(s)) = Len(s)
         /\ \A i \in DOMAIN Objects(s) : Objects(s)[i] = Message("OBJECT", s[i]) /\ s[i] \in Obj
<1>1. \A o \in Obj : Message("OBJECT", o) \in Upward \cap Downward
  BY MessagesAre
<1>2. \A i \in 1..Len(s) : s[i] \in Obj
  OBVIOUS
<1>3. Objects(s) = [i \in 1..Len(s) |-> Message("OBJECT", s[i])]
  BY DEF Objects
<1>4. QED
  BY <1>1, <1>2, <1>3

LEMMA DataIs ==
  ASSUME NEW c \in Chan, NEW s \in Seq(Downward)
  PROVE  /\ Data(c, s) \in Seq(Frames) /\ Len(Data(c, s)) = Len(s)
         /\ \A i \in DOMAIN Data(c, s) : Data(c, s)[i] = Frame("DATA", c, s[i])
<1>1. \A i \in 1..Len(s) : Frame("DATA", c, s[i]) \in Frames
  <2>1. \A i \in 1..Len(s) : s[i] \in Downward
    OBVIOUS
  <2>2. QED
    BY <2>1, MessagesAre
<1>2. Data(c, s) = [i \in 1..Len(s) |-> Frame("DATA", c, s[i])]
  BY DEF Data
<1>3. QED
  BY <1>1, <1>2

LEMMA KillsAre ==
  /\ Kills \in Seq(Frames)
  /\ \A i \in DOMAIN Kills : Kills[i].tag = "KILL" /\ Kills[i].m.tag = "none"
<1> DEFINE cs == SetToSeq(Opened)
<1>1. IsFiniteSet(Opened) /\ Opened \subseteq Chan
  BY Given, FS_Subset DEF Opened
<1>2. cs \in Seq(Chan)
  BY <1>1, SetToSeqIs
<1>3. Kills = [i \in 1..Len(cs) |-> Control("KILL", cs[i])]
  BY <1>2 DEF Kills
<1> HIDE DEF cs
<1>4. \A i \in 1..Len(cs) : cs[i] \in Chan
  BY <1>2
<1>5. \A i \in 1..Len(cs) : Control("KILL", cs[i]) \in Frames /\ Control("KILL", cs[i]).tag = "KILL"
                          /\ Control("KILL", cs[i]).m.tag = "none"
  BY <1>4, MessagesAre DEF Control, Frame, Message
<1>6. QED
  BY <1>2, <1>3, <1>5

LEMMA HandlePart ==
  ASSUME NEW h \in Handles
  PROVE  /\ \A x \in {"none", "open", "dropped"} : [h EXCEPT !.st = x] \in Handles
         /\ \A x \in SUBSET Obj : [h EXCEPT !.objects = x] \in Handles
         /\ \A x \in SUBSET Obj : [h EXCEPT !.seen = x] \in Handles
         /\ \A x \in Obj \cup {None, Nil} : [h EXCEPT !.result = x] \in Handles
         /\ \A x \in {"none", "EXIT", "CLOSED"} : [h EXCEPT !.exit = x] \in Handles
         /\ \A x \in BOOLEAN : [h EXCEPT !.call = x] \in Handles
         /\ \A x \in BOOLEAN : [h EXCEPT !.deaf = x] \in Handles
BY DEF Handles

\* Handles stay handles when a part of one is replaced, and another.
LEMMA HandlePut ==
  ASSUME NEW H \in [Chan -> Handles], NEW c \in Chan
  PROVE  /\ \A x \in {"none", "open", "dropped"} : [H EXCEPT ![c].st = x] \in [Chan -> Handles]
         /\ \A x \in SUBSET Obj : [H EXCEPT ![c].objects = x] \in [Chan -> Handles]
         /\ \A x \in SUBSET Obj : [H EXCEPT ![c].seen = x] \in [Chan -> Handles]
         /\ \A x \in Obj \cup {None, Nil} : [H EXCEPT ![c].result = x] \in [Chan -> Handles]
         /\ \A x \in {"none", "EXIT", "CLOSED"} : [H EXCEPT ![c].exit = x] \in [Chan -> Handles]
         /\ \A x \in BOOLEAN : [H EXCEPT ![c].call = x] \in [Chan -> Handles]
         /\ \A x \in BOOLEAN : [H EXCEPT ![c].deaf = x] \in [Chan -> Handles]
BY HandlePart

PCs == {"none", "starting", "importing", "reading", "running", "asking", "hung", "done",
        "ended", "reaped"}

LEMMA WorkerPart ==
  ASSUME NEW w \in Workers
  PROVE  /\ \A x \in PCs : [w EXCEPT !.pc = x] \in Workers
         /\ \A x \in SUBSET Obj : [w EXCEPT !.objects = x] \in Workers
         /\ \A x \in {"none", "GET_VALUE", "CALL"} : [w EXCEPT !.ask = x] \in Workers
         /\ \A x \in Nat : [w EXCEPT !.asks = x] \in Workers
         /\ \A x \in Seq(Upward) : [w EXCEPT !.todo = x] \in Workers
         /\ \A x \in Obj \cup {None, Nil} : [w EXCEPT !.said = x] \in Workers
         /\ \A x \in BOOLEAN : [w EXCEPT !.eof = x] \in Workers
         /\ \A x \in BOOLEAN : [w EXCEPT !.printed = x] \in Workers
BY DEF Workers, PCs

LEMMA WorkerPut ==
  ASSUME NEW W \in [Chan -> Workers], NEW c \in Chan
  PROVE  /\ \A x \in PCs : [W EXCEPT ![c].pc = x] \in [Chan -> Workers]
         /\ \A x \in SUBSET Obj : [W EXCEPT ![c].objects = x] \in [Chan -> Workers]
         /\ \A x \in {"none", "GET_VALUE", "CALL"} : [W EXCEPT ![c].ask = x] \in [Chan -> Workers]
         /\ \A x \in Nat : [W EXCEPT ![c].asks = x] \in [Chan -> Workers]
         /\ \A x \in Seq(Upward) : [W EXCEPT ![c].todo = x] \in [Chan -> Workers]
         /\ \A x \in Obj \cup {None, Nil} : [W EXCEPT ![c].said = x] \in [Chan -> Workers]
         /\ \A x \in BOOLEAN : [W EXCEPT ![c].eof = x] \in [Chan -> Workers]
         /\ \A x \in BOOLEAN : [W EXCEPT ![c].printed = x] \in [Chan -> Workers]
BY WorkerPart

\* What the types say of one task.
LEMMA PartsTyped ==
  ASSUME TypeOK, NEW c \in Chan
  PROVE  /\ handle[c] \in Handles /\ worker[c] \in Workers
         /\ inbox[c] \in Seq(Upward) /\ stdout[c] \in Seq(Upward) /\ stdin[c] \in Seq(Downward)
         /\ pool[c] \in Seq(Frames)
         /\ handle[c].st \in {"none", "open", "dropped"} /\ handle[c].result \in Obj \cup {None, Nil}
         /\ handle[c].objects \in SUBSET Obj /\ handle[c].seen \in SUBSET Obj
         /\ handle[c].exit \in {"none", "EXIT", "CLOSED"}
         /\ worker[c].pc \in PCs /\ worker[c].objects \in SUBSET Obj /\ worker[c].asks \in Nat
         /\ worker[c].todo \in Seq(Upward) /\ worker[c].said \in Obj \cup {None, Nil}
         /\ worker[c].ask \in {"none", "GET_VALUE", "CALL"}
<1>1. handle[c] \in Handles /\ worker[c] \in Workers
  BY DEF TypeOK
<1>2. QED
  BY <1>1 DEF TypeOK, Handles, Workers, PCs

LEMMA MessageIs ==
  /\ \A m \in Upward : /\ m.v \in Obj \cup {Nil}
                       /\ m.tag \in {"OBJECT", "RECORD", "GET_VALUE", "CALL"} => m.v \in Obj
                       /\ m.tag = "PRINT" => m.v = Nil
  /\ \A m \in Downward : /\ m.v \in Obj \cup {Nil}
                         /\ m.tag \in {"OBJECT", "TASK"} => m.v \in Obj
  /\ \A f \in Frames : f.m \in Downward /\ f.c \in Chan
BY DEF Upward, Downward, Frames

LEMMA OneIs ==
  ASSUME NEW S, NEW s \in Seq(S), s # <<>>
  PROVE  /\ Head(s) \in S /\ Tail(s) \in Seq(S) /\ Head(s) = s[1]
         /\ Len(Tail(s)) = Len(s) - 1 /\ \A i \in 1..Len(Tail(s)) : Tail(s)[i] = s[i + 1]
OBVIOUS

LEMMA EmptyIs ==
  ASSUME NEW S, NEW s \in Seq(S), Len(s) = 0
  PROVE  s = <<>> /\ DOMAIN s = {}
OBVIOUS

\* An object has a walk's worth of its objects sent.
LEMMA ToSendIs ==
  ASSUME TypeOK, NEW c \in Chan, NEW v \in Obj
  PROVE  /\ ToSend(c, v) \in Seq(Obj)
         /\ Range(ToSend(c, v)) = Under(v, handle[c].seen) /\ Range(ToSend(c, v)) \subseteq Obj
BY PackedIs DEF ToSend

LEMMA StartType ==
  ASSUME TypeOK, NEW c \in Chan, Start(c) \/ StartRefused(c)
  PROVE  TypeOK'
<1>1. CASE Start(c)
  <2> DEFINE sent == ToSend(c, Input[c])
             ms == <<Message("HELLO", Nil)>> \o Objects(sent) \o <<Message("TASK", Input[c])>>
  <2>1. Input[c] \in Obj
    BY Given
  <2>2. sent \in Seq(Obj) /\ Range(sent) \subseteq Obj
    BY <2>1, ToSendIs
  <2> HIDE DEF sent
  <2>3. Objects(sent) \in Seq(Downward)
    BY <2>2, ObjectsAre
  <2>4. Message("HELLO", Nil) \in Downward /\ Message("TASK", Input[c]) \in Downward
    BY <2>1, MessagesAre
  <2>5. ms \in Seq(Downward)
    BY <2>3, <2>4
  <2> HIDE DEF ms
  <2>6. Data(c, ms) \in Seq(Frames) /\ Control("OPEN", c) \in Frames
    BY <2>5, DataIs, MessagesAre
  <2>7. sched' = <<Control("OPEN", c)>> \o Data(c, ms)
    BY <1>1 DEF Start, sent, ms
  <2>8. sched' \in Seq(Frames)
    BY <2>6, <2>7
  <2>9. handle' \in [Chan -> Handles]
    <3>1. handle' = [handle EXCEPT ![c].st = "open", ![c].objects = Range(sent),
                                   ![c].seen = Range(sent)]
      BY <1>1 DEF Start, sent
    <3>2. QED
      BY <2>2, <3>1, HandlePut DEF TypeOK
  <2>10. store' \subseteq Obj
    BY <1>1, <2>2 DEF Start, Kept, TypeOK, sent
  <2>11. QED
    BY <1>1, <2>8, <2>9, <2>10 DEF Start, TypeOK, wires, hostVars
<1>2. CASE StartRefused(c)
  <2>1. handle' \in [Chan -> Handles]
    BY <1>2, HandlePut DEF StartRefused, TypeOK
  <2>2. Message("HELLO", Nil) \in Downward
    BY MessagesAre
  <2>3. sched' \in Seq(Frames)
    BY <1>2, <2>2, MessagesAre DEF StartRefused
  <2>4. QED
    BY <1>2, <2>1, <2>3 DEF StartRefused, TypeOK, wires, hostVars, disk
<1>3. QED
  BY <1>1, <1>2

LEMMA FedType ==
  ASSUME TypeOK, NEW c \in Chan, NEW tag, Fed(c, tag)
  PROVE  /\ inbox' \in [Chan -> Seq(Upward)]
         /\ Head(inbox[c]).v \in Obj \cup {Nil}
         /\ tag \in {"OBJECT", "RECORD", "GET_VALUE", "CALL"} => Head(inbox[c]).v \in Obj
<1>1. inbox[c] \in Seq(Upward) /\ inbox[c] # <<>>
  BY DEF TypeOK, Fed
<1>2. Head(inbox[c]) \in Upward /\ Tail(inbox[c]) \in Seq(Upward)
  BY <1>1
<1>3. QED
  BY <1>2, MessageIs DEF TypeOK, Fed

LEMMA EscapesType ==
  ASSUME TypeOK, Escapes
  PROVE  /\ sched' \in Seq(Frames) /\ main' = "closing" /\ verdict' = "CacheMiss"
         /\ UNCHANGED <<pool, handle>>
BY KillsAre DEF Escapes

LEMMA ObjectsThenAnswer ==
  ASSUME NEW s \in Seq(Obj), NEW v \in Obj, NEW asked \in {"GET_VALUE", "CALL"}
  PROVE  LET ms == Objects(s) \o <<Answer(v, asked)>>
         IN  /\ ms \in Seq(Downward) /\ Len(ms) = Len(s) + 1
             /\ \A i \in 1..Len(s) : ms[i] = Message("OBJECT", s[i])
             /\ ms[Len(s) + 1] = Answer(v, asked)
             /\ {m.v : m \in {r \in Range(ms) : r.tag = "OBJECT"}} = Range(s)
<1> DEFINE a == Answer(v, asked)
           os == Objects(s)
           ms == os \o <<a>>
<1>1. os \in Seq(Downward) /\ Len(os) = Len(s)
      /\ \A i \in 1..Len(s) : os[i] = Message("OBJECT", s[i])
  BY ObjectsAre
<1>2. a \in Downward /\ a.tag = "REPLY"
  BY MessagesAre DEF Answer
<1> HIDE DEF a, os
<1>3. ms \in Seq(Downward) /\ Len(ms) = Len(s) + 1
  BY <1>1, <1>2
<1>4. \A i \in 1..Len(s) : ms[i] = Message("OBJECT", s[i])
  BY <1>1
<1>5. ms[Len(s) + 1] = a
  BY <1>1
<1>6. DOMAIN ms = 1..(Len(s) + 1)
  BY <1>3
<1> HIDE DEF ms
<1>7. Range(ms) = {Message("OBJECT", s[i]) : i \in 1..Len(s)} \cup {a}
  <2>1. ASSUME NEW i \in DOMAIN ms
        PROVE  ms[i] \in {Message("OBJECT", s[j]) : j \in 1..Len(s)} \cup {a}
    BY <1>4, <1>5, <1>6
  <2>2. ASSUME NEW i \in 1..Len(s)
        PROVE  \E j \in DOMAIN ms : ms[j] = Message("OBJECT", s[i])
    BY <1>4, <1>6
  <2>3. \E j \in DOMAIN ms : ms[j] = a
    BY <1>5, <1>6
  <2>4. QED
    BY <2>1, <2>2, <2>3 DEF Range
<1>8. \A o : Message("OBJECT", o).tag = "OBJECT" /\ Message("OBJECT", o).v = o
  BY DEF Message
<1>9. {r \in Range(ms) : r.tag = "OBJECT"} = {Message("OBJECT", s[i]) : i \in 1..Len(s)}
  BY <1>2, <1>7, <1>8
<1>10. {m.v : m \in {r \in Range(ms) : r.tag = "OBJECT"}} = {s[i] : i \in 1..Len(s)}
  BY <1>8, <1>9
<1>11. Range(s) = {s[i] : i \in 1..Len(s)}
  BY DEF Range
<1>12. QED
  BY <1>3, <1>4, <1>5, <1>10, <1>11 DEF ms, a, os

LEMMA RepliesAre ==
  ASSUME TypeOK, NEW c \in Chan, NEW v \in Obj
  PROVE  LET rs == RepliesToGet(c, v)
         IN  /\ rs \in Seq(Downward) /\ \A i \in DOMAIN rs : rs[i].tag \in {"OBJECT", "REPLY"}
             /\ {m.v : m \in {r \in Range(rs) : r.tag = "OBJECT"}} \subseteq Obj
<1> DEFINE rs == RepliesToGet(c, v)
<1>1. CASE Closure(v) \subseteq store
  <2>1. rs = Objects(ToSend(c, v)) \o <<Answer(v, "GET_VALUE")>>
    BY <1>1 DEF RepliesToGet
  <2>2. ToSend(c, v) \in Seq(Obj) /\ Range(ToSend(c, v)) \subseteq Obj
    BY ToSendIs
  <2> DEFINE sent == ToSend(c, v)
  <2> HIDE DEF sent
  <2>3. sent \in Seq(Obj) /\ Range(sent) \subseteq Obj /\ rs = Objects(sent) \o <<Answer(v, "GET_VALUE")>>
    BY <2>1, <2>2 DEF sent
  <2> HIDE DEF rs
  <2>4. /\ rs \in Seq(Downward) /\ {m.v : m \in {r \in Range(rs) : r.tag = "OBJECT"}} \subseteq Obj
        /\ Len(rs) = Len(sent) + 1 /\ rs[Len(sent) + 1] = Answer(v, "GET_VALUE")
        /\ \A i \in 1..Len(sent) : rs[i] = Message("OBJECT", sent[i])
    BY <2>3, ObjectsThenAnswer, Zenon
  <2>5. ASSUME NEW i \in DOMAIN rs
        PROVE  rs[i].tag \in {"OBJECT", "REPLY"}
    <3>1. i \in 1..Len(sent) \/ i = Len(sent) + 1
      BY <2>3, <2>4
    <3>2. \A o : Message("OBJECT", o).tag = "OBJECT"
      BY DEF Message
    <3>3. Answer(v, "GET_VALUE").tag = "REPLY"
      BY DEF Answer
    <3>4. QED
      BY <2>4, <3>1, <3>2, <3>3
  <2>6. QED
    BY <2>4, <2>5 DEF rs
<1>2. CASE ~(Closure(v) \subseteq store)
  <2>1. rs = <<Answer(Nil, "GET_VALUE")>>
    BY <1>2 DEF RepliesToGet
  <2>2. Answer(Nil, "GET_VALUE") \in Downward /\ Answer(Nil, "GET_VALUE").tag = "REPLY"
    BY MessagesAre DEF Answer
  <2> HIDE DEF rs
  <2>3. /\ rs \in Seq(Downward) /\ \A r \in Range(rs) : r.tag # "OBJECT"
        /\ \A i \in DOMAIN rs : rs[i].tag \in {"OBJECT", "REPLY"}
    BY <2>1, <2>2 DEF Range
  <2>4. QED
    BY <2>3 DEF rs
<1>3. QED
  BY <1>1, <1>2

LEMMA FeedType ==
  ASSUME TypeOK, NEW c \in Chan, Feed(c)
  PROVE  TypeOK'
<1> USE DEF hostVars, disk, mainVars
<1>1. CASE FeedExit(c)
  <2>1. PICK tag \in {"EXIT", "CLOSED"} :
          Fed(c, tag) /\ handle' = [handle EXCEPT ![c].exit = IF @ = "none" THEN tag ELSE @]
    BY <1>1 DEF FeedExit
  <2>2. handle' \in [Chan -> Handles]
    <3>1. (IF handle[c].exit = "none" THEN tag ELSE handle[c].exit) \in {"none", "EXIT", "CLOSED"}
      BY PartsTyped
    <3>2. QED
      BY <2>1, <3>1, HandlePut DEF TypeOK
  <2>3. inbox' \in [Chan -> Seq(Upward)]
    BY <2>1, FedType
  <2>4. QED
    BY <1>1, <2>2, <2>3 DEF FeedExit, TypeOK
<1>2. CASE FeedLate(c)
  <2>1. inbox' \in [Chan -> Seq(Upward)]
    BY <1>2, FedType DEF FeedLate
  <2>2. UNCHANGED handle \/ handle' = [handle EXCEPT ![c].result = Nil]
    BY <1>2 DEF FeedLate
  <2>3. handle' \in [Chan -> Handles]
    <3>1. handle \in [Chan -> Handles]
      BY DEF TypeOK
    <3>2. [handle EXCEPT ![c].result = Nil] \in [Chan -> Handles]
      BY <3>1, HandlePut
    <3>3. QED
      BY <2>2, <3>1, <3>2
  <2>4. QED
    BY <1>2, <2>1, <2>3 DEF FeedLate, TypeOK
<1>3. CASE FeedPrint(c)
  <2>1. inbox' \in [Chan -> Seq(Upward)]
    BY <1>3, FedType DEF FeedPrint
  <2>2. \/ handle' = [handle EXCEPT ![c].result = Nil]
        \/ handle' = [handle EXCEPT ![c].deaf = TRUE]
    BY <1>3 DEF FeedPrint
  <2>3. handle' \in [Chan -> Handles]
    <3>1. handle \in [Chan -> Handles]
      BY DEF TypeOK
    <3>2. /\ [handle EXCEPT ![c].result = Nil] \in [Chan -> Handles]
          /\ [handle EXCEPT ![c].deaf = TRUE] \in [Chan -> Handles]
      BY <3>1, HandlePut
    <3>3. QED
      BY <2>2, <3>2
  <2>4. QED
    BY <1>3, <2>1, <2>3 DEF FeedPrint, TypeOK
<1>4. CASE FeedObject(c)
  <2> DEFINE o == Head(inbox[c]).v
  <2>1. inbox' \in [Chan -> Seq(Upward)] /\ o \in Obj
    BY <1>4, FedType DEF FeedObject
  <2>2. /\ handle' = [handle EXCEPT ![c].objects = @ \cup {o}, ![c].seen = @ \cup {o}]
        /\ store' = store \cup {o}
    BY <1>4 DEF FeedObject, Kept
  <2> HIDE DEF o
  <2>3. handle' \in [Chan -> Handles]
    <3>1. handle[c].objects \cup {o} \in SUBSET Obj /\ handle[c].seen \cup {o} \in SUBSET Obj
      BY <2>1, PartsTyped
    <3>2. handle' = [handle EXCEPT ![c].objects = handle[c].objects \cup {o},
                                   ![c].seen = handle[c].seen \cup {o}]
      BY <2>2 DEF TypeOK, Handles
    <3>3. QED
      BY <3>1, <3>2, HandlePut DEF TypeOK
  <2>4. QED
    BY <1>4, <2>1, <2>2, <2>3 DEF FeedObject, TypeOK
<1>5. CASE FeedResult(c)
  <2> DEFINE v == Head(inbox[c]).v
  <2>1. inbox' \in [Chan -> Seq(Upward)] /\ v \in Obj \cup {Nil}
    BY <1>5, FedType DEF FeedResult
  <2>2. \/ handle' = [handle EXCEPT ![c].result = v] /\ UNCHANGED <<main, verdict, sched, pool>>
        \/ Escapes
    BY <1>5 DEF FeedResult
  <2> HIDE DEF v
  <2>3. handle' \in [Chan -> Handles]
    <3>1. handle \in [Chan -> Handles]
      BY DEF TypeOK
    <3>2. [handle EXCEPT ![c].result = v] \in [Chan -> Handles]
      BY <2>1, <3>1, HandlePut
    <3>3. QED
      BY <2>2, <3>1, <3>2, EscapesType
  <2>4. QED
    BY <1>5, <2>1, <2>2, <2>3, EscapesType DEF FeedResult, TypeOK
<1>6. CASE FeedRecord(c)
  <2>1. inbox' \in [Chan -> Seq(Upward)] /\ Head(inbox[c]).v \in Obj
    BY <1>6, FedType DEF FeedRecord
  <2>2. QED
    BY <1>6, <2>1 DEF FeedRecord, TypeOK
<1>7. CASE FeedGet(c)
  <2> DEFINE v == Head(inbox[c]).v
             rs == RepliesToGet(c, v)
             sent == {m.v : m \in {r \in Range(rs) : r.tag = "OBJECT"}}
  <2>1. inbox' \in [Chan -> Seq(Upward)] /\ v \in Obj
    BY <1>7, FedType DEF FeedGet
  <2>2. sched' = Data(c, rs) /\ handle' = [handle EXCEPT ![c].seen = @ \cup sent]
    BY <1>7 DEF FeedGet
  <2>3. rs \in Seq(Downward) /\ sent \subseteq Obj
    BY <2>1, RepliesAre
  <2> HIDE DEF rs, sent
  <2>4. sched' \in Seq(Frames)
    BY <2>2, <2>3, DataIs
  <2>5. handle' \in [Chan -> Handles]
    <3>1. handle[c].seen \cup sent \in SUBSET Obj
      BY <2>3, PartsTyped
    <3>2. QED
      BY <2>2, <3>1, HandlePut DEF TypeOK
  <2>6. QED
    BY <1>7, <2>1, <2>4, <2>5 DEF FeedGet, TypeOK
<1>8. CASE FeedCall(c)
  <2>1. inbox' \in [Chan -> Seq(Upward)]
    BY <1>8, FedType DEF FeedCall
  <2>2. \/ handle' = [handle EXCEPT ![c].call = TRUE] /\ UNCHANGED <<main, verdict, sched, pool>>
        \/ Escapes
    BY <1>8 DEF FeedCall
  <2>3. handle' \in [Chan -> Handles]
    <3>1. handle \in [Chan -> Handles]
      BY DEF TypeOK
    <3>2. [handle EXCEPT ![c].call = TRUE] \in [Chan -> Handles]
      BY <3>1, HandlePut
    <3>3. QED
      BY <2>2, <3>1, <3>2, EscapesType
  <2>4. QED
    BY <1>8, <2>1, <2>2, <2>3, EscapesType DEF FeedCall, TypeOK
<1>9. QED
  BY <1>1, <1>2, <1>3, <1>4, <1>5, <1>6, <1>7, <1>8 DEF Feed

LEMMA CallsType ==
  ASSUME TypeOK, NEW c \in Chan, Calls(c)
  PROVE  TypeOK'
<1> USE DEF wires, hostVars, disk
<1>1. CASE RunCall(c)
  <2> DEFINE sent == ToSend(c, Told)
             ms == Objects(sent) \o <<Answer(Told, "CALL")>>
  <2>1. Told \in Obj /\ sent \in Seq(Obj) /\ Range(sent) \subseteq Obj
    BY Given, ToSendIs
  <2>2. ms \in Seq(Downward)
    BY <2>1, ObjectsThenAnswer
  <2>3. \/ handle' = [handle EXCEPT ![c].call = FALSE] /\ UNCHANGED pool
        \/ /\ pool' = [pool EXCEPT ![c] = Data(c, ms)]
           /\ handle' = [handle EXCEPT ![c].call = FALSE, ![c].seen = @ \cup Range(sent)]
    BY <1>1 DEF RunCall
  <2>4. handle[c].seen \cup Range(sent) \in SUBSET Obj
    BY <2>1, PartsTyped
  <2> HIDE DEF sent, ms
  <2>5. handle \in [Chan -> Handles] /\ pool \in [Chan -> Seq(Frames)]
    BY DEF TypeOK
  <2>6. [handle EXCEPT ![c].call = FALSE] \in [Chan -> Handles]
    BY <2>5, HandlePut
  <2>7. [handle EXCEPT ![c].call = FALSE, ![c].seen = @ \cup Range(sent)] \in [Chan -> Handles]
    <3>1. [handle EXCEPT ![c].call = FALSE, ![c].seen = @ \cup Range(sent)]
            = [handle EXCEPT ![c].call = FALSE, ![c].seen = handle[c].seen \cup Range(sent)]
      BY <2>5 DEF Handles
    <3>2. [handle EXCEPT ![c].call = FALSE, ![c].seen = handle[c].seen \cup Range(sent)]
            \in [Chan -> Handles]
      BY <2>4, <2>5, HandlePut
    <3>3. QED
      BY <3>1, <3>2
  <2>8. Data(c, ms) \in Seq(Frames)
    BY <2>2, DataIs
  <2>9. pool' \in [Chan -> Seq(Frames)]
    BY <2>3, <2>5, <2>8
  <2>10. store' \subseteq Obj /\ forced' \in BOOLEAN
    <3>1. PICK force \in Forced : /\ store' = IF force THEN store ELSE Kept(Closure(Told))
                                  /\ forced' = (forced \/ force)
      BY <1>1 DEF RunCall
    <3>2. Closure(Told) \subseteq Obj
      BY <2>1, ClosureProperties
    <3>3. QED
      BY <3>1, <3>2, Given DEF Kept, TypeOK
  <2>11. QED
    BY <1>1, <2>3, <2>6, <2>7, <2>9, <2>10 DEF RunCall, TypeOK
<1>2. CASE RunCallFails(c)
  <2>1. <<Answer(Nil, "CALL")>> \in Seq(Downward)
    BY MessagesAre
  <2>2. Data(c, <<Answer(Nil, "CALL")>>) \in Seq(Frames)
    BY <2>1, DataIs
  <2>3. pool' \in [Chan -> Seq(Frames)]
    BY <1>2, <2>2 DEF RunCallFails, TypeOK
  <2>4. handle' \in [Chan -> Handles]
    BY <1>2, HandlePut DEF RunCallFails, TypeOK
  <2>5. QED
    BY <1>2, <2>3, <2>4 DEF RunCallFails, TypeOK
<1>3. QED
  BY <1>1, <1>2 DEF Calls

LEMMA EndsType ==
  ASSUME TypeOK, NEW c \in Chan, Collect(c) \/ Expire(c)
  PROVE  TypeOK'
<1> USE DEF wires, hostVars, disk
<1>1. \A tag \in {"CLOSE", "KILL"} : Control(tag, c) \in Frames
  BY MessagesAre
<1>2. CASE Collect(c)
  <2>1. handle' \in [Chan -> Handles]
    BY <1>2, HandlePut DEF Collect, TypeOK
  <2>2. Finished(c) \in {"none", "failed", "value", "exit", "closed"}
    BY DEF Finished
  <2>3. QED
    BY <1>1, <1>2, <2>1, <2>2 DEF Collect, TypeOK
<1>3. CASE Expire(c)
  <2>1. handle' \in [Chan -> Handles]
    BY <1>3, HandlePut DEF Expire, TypeOK
  <2>2. QED
    BY <1>1, <1>3, <2>1 DEF Expire, TypeOK
<1>4. QED
  BY <1>2, <1>3

LEMMA FinishType ==
  ASSUME TypeOK, Finish \/ CloseHost \/ Drop \/ ReaderEnds
  PROVE  TypeOK'
<1> USE DEF wires, mainVars, hostVars, disk
<1>1. CASE Finish
  BY <1>1, KillsAre DEF Finish, TypeOK
<1>2. CASE CloseHost
  BY <1>2 DEF CloseHost, TypeOK
<1>3. CASE Drop
  <2>1. PICK n \in 0..Len(down) : down' = SubSeq(down, 1, n)
    BY <1>3 DEF Drop
  <2>2. down' \in Seq(Frames)
    BY <2>1 DEF TypeOK
  <2>3. QED
    BY <1>3, <2>2 DEF Drop, TypeOK
<1>4. CASE ReaderEnds
  <2>1. \A c \in Chan : Append(inbox[c], Message("CLOSED", Nil)) \in Seq(Upward)
                        /\ inbox[c] \in Seq(Upward)
    BY MessagesAre DEF TypeOK
  <2>2. inbox' \in [Chan -> Seq(Upward)]
    BY <1>4, <2>1 DEF ReaderEnds
  <2>3. QED
    BY <1>4, <2>2 DEF ReaderEnds, TypeOK
<1>5. QED
  BY <1>1, <1>2, <1>3, <1>4

LEMMA SentType ==
  ASSUME TypeOK, NEW frame \in Frames, Sent(frame)
  PROVE  down' \in Seq(Frames)
BY DEF Sent, TypeOK

LEMMA WritesDownType ==
  ASSUME TypeOK, SchedWrites \/ \E c \in Chan : PoolWrites(c)
  PROVE  TypeOK'
<1> USE DEF hostVars, disk
<1>1. CASE SchedWrites
  <2>1. Head(sched) \in Frames /\ Tail(sched) \in Seq(Frames)
    BY <1>1, OneIs DEF SchedWrites, TypeOK
  <2>2. down' \in Seq(Frames)
    BY <1>1, <2>1, SentType DEF SchedWrites
  <2>3. QED
    BY <1>1, <2>1, <2>2 DEF SchedWrites, TypeOK
<1>2. ASSUME NEW c \in Chan, PoolWrites(c)
      PROVE  TypeOK'
  <2>1. pool[c] \in Seq(Frames) /\ pool[c] # <<>>
    BY <1>2 DEF PoolWrites, TypeOK
  <2>2. Head(pool[c]) \in Frames /\ Tail(pool[c]) \in Seq(Frames)
    BY <2>1, OneIs
  <2>3. down' \in Seq(Frames)
    BY <1>2, <2>2, SentType DEF PoolWrites
  <2>4. pool' \in [Chan -> Seq(Frames)]
    BY <1>2, <2>2 DEF PoolWrites, TypeOK
  <2>5. QED
    BY <1>2, <2>3, <2>4 DEF PoolWrites, TypeOK
<1>3. QED
  BY <1>1, <1>2

LEMMA EndedType ==
  ASSUME TypeOK, NEW c \in Chan
  PROVE  Ended(c) \in [Chan -> Workers] /\ Ended(c)[c] \in Workers
<1>1. <<>> \in Seq(Upward) /\ "ended" \in PCs
  BY DEF PCs
<1>2. Ended(c) \in [Chan -> Workers]
  BY <1>1, WorkerPut DEF TypeOK, Ended
<1>3. QED
  BY <1>2

LEMMA HostpIs ==
  ASSUME TypeOK
  PROVE  /\ \A S \in SUBSET Chan : [hostp EXCEPT !.workers = S] \in [up : BOOLEAN, workers : SUBSET Chan]
         /\ [hostp EXCEPT !.up = FALSE] \in [up : BOOLEAN, workers : SUBSET Chan]
         /\ hostp.workers \in SUBSET Chan
BY DEF TypeOK

LEMMA HostLoopType ==
  ASSUME TypeOK, HostLoop
  PROVE  TypeOK'
<1> USE DEF mainVars, wires, disk
<1> DEFINE c == Head(down).c
<1>1. ASSUME NEW tag, Takes(tag)
      PROVE  down' \in Seq(Frames) /\ c \in Chan /\ Head(down).m \in Downward
  <2>1. Head(down) \in Frames /\ Tail(down) \in Seq(Frames)
    BY <1>1, OneIs DEF Takes, TypeOK
  <2>2. QED
    BY <1>1, <2>1, MessageIs DEF Takes
<1> HIDE DEF c
<1>2. CASE HostOpens
  <2>1. Takes("OPEN") /\ hostp' = [hostp EXCEPT !.workers = @ \cup {c}]
        /\ worker' = [worker EXCEPT ![c].pc = "starting"]
    BY <1>2 DEF HostOpens, c
  <2>2. down' \in Seq(Frames) /\ c \in Chan
    BY <1>1, <2>1
  <2>3. worker' \in [Chan -> Workers]
    BY <2>1, <2>2, WorkerPut DEF TypeOK, PCs
  <2>4. hostp' \in [up : BOOLEAN, workers : SUBSET Chan]
    BY <2>1, <2>2, HostpIs
  <2>5. QED
    BY <1>2, <2>2, <2>3, <2>4 DEF HostOpens, Takes, TypeOK
<1>3. CASE HostWrites
  <2>1. down' \in Seq(Frames) /\ c \in Chan /\ Head(down).m \in Downward
    BY <1>1, <1>3 DEF HostWrites
  <2>2. stdin' = [stdin EXCEPT ![c] = Append(@, Head(down).m)] \/ UNCHANGED stdin
    BY <1>3 DEF HostWrites, c
  <2>3. stdin' \in [Chan -> Seq(Downward)]
    <3>1. Append(stdin[c], Head(down).m) \in Seq(Downward)
      BY <2>1 DEF TypeOK
    <3>2. QED
      BY <2>1, <2>2, <3>1 DEF TypeOK
  <2>4. QED
    BY <1>3, <2>1, <2>3 DEF HostWrites, Takes, TypeOK
<1>4. CASE HostCloses
  <2>1. down' \in Seq(Frames) /\ c \in Chan
    BY <1>1, <1>4 DEF HostCloses
  <2>2. worker' = [worker EXCEPT ![c].eof = TRUE] \/ UNCHANGED worker
    BY <1>4 DEF HostCloses, c
  <2>3. [worker EXCEPT ![c].eof = TRUE] \in [Chan -> Workers]
    BY <2>1, WorkerPut DEF TypeOK
  <2>4. QED
    BY <1>4, <2>1, <2>2, <2>3 DEF HostCloses, Takes, TypeOK
<1>5. CASE HostKills
  <2>1. down' \in Seq(Frames) /\ c \in Chan
    BY <1>1, <1>5 DEF HostKills
  <2>2. worker' = Ended(c) \/ UNCHANGED worker
    BY <1>5 DEF HostKills, c
  <2>3. hostp' = [hostp EXCEPT !.workers = @ \ {c}]
    BY <1>5 DEF HostKills, c
  <2>4. hostp' \in [up : BOOLEAN, workers : SUBSET Chan]
    BY <2>3, HostpIs
  <2>5. worker' \in [Chan -> Workers]
    BY <2>1, <2>2, EndedType DEF TypeOK
  <2>6. QED
    BY <1>5, <2>1, <2>4, <2>5 DEF HostKills, Takes, TypeOK
<1>6. CASE HostEnds
  <2>1. hostp' \in [up : BOOLEAN, workers : SUBSET Chan]
    BY <1>6, HostpIs DEF HostEnds
  <2>2. \A d \in Chan : Ended(d)[d] \in Workers /\ worker[d] \in Workers
    BY EndedType DEF TypeOK
  <2>3. worker' = [d \in Chan |-> IF d \in hostp.workers /\ Running(d)
                                    THEN Ended(d)[d] ELSE worker[d]]
    BY <1>6 DEF HostEnds
  <2>4. worker' \in [Chan -> Workers]
    BY <2>2, <2>3
  <2>5. QED
    BY <1>6, <2>1, <2>4 DEF HostEnds, TypeOK
<1>7. QED
  BY <1>2, <1>3, <1>4, <1>5, <1>6 DEF HostLoop

LEMMA ForwardType ==
  ASSUME TypeOK, NEW c \in Chan, Forward(c) \/ ForwardExit(c)
  PROVE  TypeOK'
<1> USE DEF mainVars, disk
<1>1. ASSUME NEW m \in Upward, Queued(c, m)
      PROVE  inbox' \in [Chan -> Seq(Upward)]
  <2>1. Append(inbox[c], m) \in Seq(Upward)
    BY DEF TypeOK
  <2>2. QED
    BY <1>1, <2>1 DEF Queued, TypeOK
<1>2. CASE Forward(c)
  <2>1. stdout[c] \in Seq(Upward) /\ stdout[c] # <<>>
    BY <1>2 DEF Forward, TypeOK
  <2>2. Head(stdout[c]) \in Upward /\ Tail(stdout[c]) \in Seq(Upward)
    BY <2>1
  <2>3. inbox' \in [Chan -> Seq(Upward)]
    BY <1>1, <1>2, <2>2 DEF Forward
  <2>4. stdout' \in [Chan -> Seq(Upward)]
    BY <1>2, <2>2 DEF Forward, TypeOK
  <2>5. QED
    BY <1>2, <2>3, <2>4 DEF Forward, TypeOK
<1>3. CASE ForwardExit(c)
  <2>1. inbox' \in [Chan -> Seq(Upward)]
    BY <1>1, <1>3, MessagesAre DEF ForwardExit
  <2>2. worker' \in [Chan -> Workers]
    BY <1>3, WorkerPut DEF ForwardExit, TypeOK, PCs
  <2>3. QED
    BY <1>3, <2>1, <2>2 DEF ForwardExit, TypeOK
<1>4. QED
  BY <1>2, <1>3

\* Steps of a worker leave the rest alone, and a read takes one message.
LEMMA StepsType ==
  ASSUME TypeOK, NEW c \in Chan, NEW from, Steps(c, from)
  PROVE  /\ worker' \in [Chan -> Workers] /\ Inside(c) => TypeOK'
         /\ \A tag : worker' \in [Chan -> Workers] /\ Reads(c, tag) => TypeOK'
         /\ \A tag : Reads(c, tag) => /\ Head(stdin[c]) \in Downward
                                      /\ tag \in {"OBJECT", "TASK"} => Head(stdin[c]).v \in Obj
<1> USE DEF Steps, mainVars, wires
<1>1. worker' \in [Chan -> Workers] /\ Inside(c) => TypeOK'
  BY DEF Inside, TypeOK
<1>2. ASSUME NEW tag, Reads(c, tag)
      PROVE  /\ Head(stdin[c]) \in Downward /\ stdin' \in [Chan -> Seq(Downward)]
             /\ Head(stdin[c]).tag = tag
  <2>1. stdin[c] \in Seq(Downward) /\ stdin[c] # <<>>
    BY <1>2 DEF Reads, TypeOK
  <2>2. Head(stdin[c]) \in Downward /\ Tail(stdin[c]) \in Seq(Downward)
    BY <2>1, OneIs
  <2>3. QED
    BY <1>2, <2>2 DEF Reads, TypeOK
<1>3. ASSUME NEW tag, Reads(c, tag), worker' \in [Chan -> Workers]
      PROVE  TypeOK'
  BY <1>2, <1>3 DEF Reads, TypeOK
<1>4. QED
  BY <1>1, <1>2, <1>3, MessageIs

LEMMA FailsType ==
  ASSUME TypeOK, NEW c \in Chan
  PROVE  Fails(c) \in [Chan -> Workers]
<1> DEFINE todo == Append(worker[c].todo, Message("RESULT", Nil))
<1>1. todo \in Seq(Upward)
  BY PartsTyped, MessagesAre
<1>2. Fails(c) = [worker EXCEPT ![c].pc = "done", ![c].todo = todo]
  BY DEF Fails, TypeOK, Workers
<1> HIDE DEF todo
<1>3. [worker EXCEPT ![c].pc = "done"] \in [Chan -> Workers]
  BY WorkerPut DEF TypeOK, PCs
<1>4. [worker EXCEPT ![c].pc = "done", ![c].todo = todo] \in [Chan -> Workers]
  BY <1>1, <1>3, WorkerPut
<1>5. QED
  BY <1>2, <1>4

LEMMA ToPutIs ==
  ASSUME TypeOK, NEW c \in Chan, NEW v \in Obj
  PROVE  /\ ToPut(c, v) \in Seq(Obj) /\ Range(ToPut(c, v)) \subseteq Obj
         /\ ~direct => Range(ToPut(c, v)) = Under(v, worker[c].objects)
         /\ direct => ToPut(c, v) = <<>>
BY PackedIs DEF ToPut, Range

LEMMA PutType ==
  ASSUME TypeOK, NEW c \in Chan, NEW v \in Obj, NEW more \in Seq(Upward), NEW pc \in PCs,
         Put(c, v, more, pc)
  PROVE  worker' \in [Chan -> Workers]
<1> DEFINE sent == ToPut(c, v)
           todo == Objects(sent) \o more
           has == worker[c].objects \cup Range(sent)
           ask == IF pc = "asking" THEN "CALL" ELSE worker[c].ask
           asks == worker[c].asks + 1
<1>1. sent \in Seq(Obj) /\ Range(sent) \subseteq Obj
  BY ToPutIs
<1>2. todo \in Seq(Upward)
  BY <1>1, ObjectsAre
<1>3. has \in SUBSET Obj /\ ask \in {"none", "GET_VALUE", "CALL"} /\ asks \in Nat
  BY <1>1, PartsTyped
<1> DEFINE w == worker[c]
<1>4. worker' = [worker EXCEPT ![c] = [w EXCEPT !.todo = todo, !.objects = has, !.pc = pc,
                                                !.ask = ask, !.asks = asks]]
  BY DEF Put
<1>5. w \in Workers
  BY PartsTyped
<1> HIDE DEF todo, has, ask, asks, w
<1>6. [w EXCEPT !.todo = todo, !.objects = has, !.pc = pc, !.ask = ask, !.asks = asks] \in Workers
  <2>1. [w EXCEPT !.todo = todo, !.objects = has] \in Workers
    BY <1>2, <1>3, <1>5, WorkerPart
  <2>2. [w EXCEPT !.todo = todo, !.objects = has, !.pc = pc] \in Workers
    BY <2>1, WorkerPart
  <2>3. QED
    BY <1>3, <2>2, WorkerPart
<1>7. QED
  BY <1>4, <1>6 DEF TypeOK

LEMMA ReadsType ==
  ASSUME TypeOK, NEW c \in Chan,
         \/ TakesHello(c) \/ Accepts(c) \/ Refuses(c) \/ TakesObject(c) \/ TakesTask(c)
         \/ Raises(c) \/ TakesReply(c) \/ FindsEnd(c) \/ Exits(c) \/ Crashes(c) \/ Hangs(c)
  PROVE  TypeOK'
<1>1. CASE TakesHello(c)
  <2>1. worker' \in [Chan -> Workers]
    BY <1>1, WorkerPut DEF TakesHello, TypeOK, PCs
  <2>2. QED
    BY <1>1, <2>1, StepsType DEF TakesHello
<1>2. CASE Accepts(c)
  <2>1. worker' \in [Chan -> Workers]
    BY <1>2, WorkerPut DEF Accepts, TypeOK, PCs
  <2>2. QED
    BY <1>2, <2>1, StepsType DEF Accepts
<1>3. CASE Refuses(c) \/ Raises(c)
  BY <1>3, StepsType, FailsType DEF Refuses, Raises
<1>4. CASE TakesObject(c)
  <2> DEFINE o == Head(stdin[c]).v
  <2>1. Steps(c, worker[c].pc) /\ Reads(c, "OBJECT")
        /\ worker' = [worker EXCEPT ![c].objects = @ \cup {o}]
    BY <1>4 DEF TakesObject, Received
  <2>2. o \in Obj
    BY <2>1, StepsType
  <2> HIDE DEF o
  <2>3. worker[c].objects \cup {o} \in SUBSET Obj
    BY <2>2, PartsTyped
  <2>4. worker' \in [Chan -> Workers]
    BY <2>1, <2>3, WorkerPut DEF TypeOK
  <2>5. QED
    BY <2>1, <2>4, StepsType
<1>5. CASE TakesTask(c)
  <2>1. [worker EXCEPT ![c].pc = "running"] \in [Chan -> Workers]
    BY WorkerPut DEF TypeOK, PCs
  <2>2. worker' \in [Chan -> Workers]
    BY <1>5, <2>1, FailsType DEF TakesTask
  <2>3. QED
    BY <1>5, <2>2, StepsType DEF TakesTask
<1>6. CASE TakesReply(c)
  <2>1. worker' \in [Chan -> Workers]
    BY <1>6, WorkerPut DEF TakesReply, TypeOK, PCs
  <2>2. QED
    BY <1>6, <2>1, StepsType DEF TakesReply
<1>7. CASE FindsEnd(c) \/ Exits(c) \/ Crashes(c)
  BY <1>7, StepsType, EndedType DEF FindsEnd, Exits, Crashes
<1>8. CASE Hangs(c)
  <2>1. worker' \in [Chan -> Workers]
    BY <1>8, WorkerPut DEF Hangs, TypeOK, PCs
  <2>2. QED
    BY <1>8, <2>1, StepsType DEF Hangs
<1>9. QED
  BY <1>1, <1>2, <1>3, <1>4, <1>5, <1>6, <1>7, <1>8

LEMMA AsksType ==
  ASSUME TypeOK, NEW c \in Chan, AsksCall(c) \/ \E v \in Looked : AsksValue(c, v)
  PROVE  TypeOK'
<1>1. ASSUME NEW v \in Looked, AsksValue(c, v)
      PROVE  TypeOK'
  <2> DEFINE todo == <<Message("GET_VALUE", v)>>
             asks == worker[c].asks + 1
             w == worker[c]
  <2>1. todo \in Seq(Upward) /\ asks \in Nat /\ w \in Workers /\ "asking" \in PCs
    BY Given, MessagesAre, PartsTyped DEF PCs
  <2>2. worker' = [worker EXCEPT ![c] = [w EXCEPT !.pc = "asking", !.ask = "GET_VALUE",
                                                  !.asks = asks, !.todo = todo]]
    BY <1>1 DEF AsksValue
  <2> HIDE DEF todo, asks, w
  <2>3. [w EXCEPT !.pc = "asking", !.ask = "GET_VALUE"] \in Workers
    BY <2>1, WorkerPart
  <2>4. [w EXCEPT !.pc = "asking", !.ask = "GET_VALUE", !.asks = asks, !.todo = todo] \in Workers
    BY <2>1, <2>3, WorkerPart
  <2>5. worker' \in [Chan -> Workers]
    BY <2>2, <2>4 DEF TypeOK
  <2>6. QED
    BY <1>1, <2>5, StepsType DEF AsksValue, Idle
<1>2. CASE AsksCall(c)
  <2>1. Param \in Obj /\ <<Message("CALL", Param)>> \in Seq(Upward) /\ "asking" \in PCs
    BY Given, MessagesAre DEF PCs
  <2>2. worker' \in [Chan -> Workers]
    BY <1>2, <2>1, PutType DEF AsksCall
  <2>3. store' \subseteq Obj
    BY <1>2, <2>1, ClosureProperties DEF AsksCall, Kept, TypeOK
  <2>4. QED
    BY <1>2, <2>2, <2>3 DEF AsksCall, Idle, Steps, TypeOK, mainVars, wires
<1>3. QED
  BY <1>1, <1>2

LEMMA SaysType ==
  ASSUME TypeOK, NEW c \in Chan, \E v \in Made : Records(c, v) \/ Returns(c, v)
  PROVE  TypeOK'
<1>1. ASSUME NEW v \in Made, Records(c, v)
      PROVE  TypeOK'
  <2> DEFINE more == IF direct THEN <<>> ELSE <<Message("RECORD", v)>>
  <2>1. v \in Obj /\ more \in Seq(Upward) /\ "running" \in PCs
    BY Given, MessagesAre DEF PCs
  <2>2. worker' \in [Chan -> Workers]
    <3>1. Put(c, v, more, "running")
      BY <1>1 DEF Records
    <3> HIDE DEF more
    <3>2. QED
      BY <2>1, <3>1, PutType
  <2>3. store' \subseteq Obj /\ records' \subseteq Obj
    BY <1>1, <2>1, ClosureProperties DEF Records, Kept, TypeOK
  <2>4. QED
    BY <1>1, <2>2, <2>3 DEF Records, Idle, Steps, TypeOK, mainVars, wires
<1>2. ASSUME NEW v \in Made, Returns(c, v)
      PROVE  TypeOK'
  <2>1. v \in Obj /\ <<Message("RESULT", v)>> \in Seq(Upward) /\ "done" \in PCs
    BY Given, MessagesAre DEF PCs
  <2>2. worker' \in [Chan -> Workers]
    BY <1>2, <2>1, PutType DEF Returns
  <2>3. store' \subseteq Obj
    BY <1>2, <2>1, ClosureProperties DEF Returns, Kept, TypeOK
  <2>4. QED
    BY <1>2, <2>2, <2>3 DEF Returns, Steps, TypeOK, mainVars, wires
<1>3. QED
  BY <1>1, <1>2

LEMMA WritesType ==
  ASSUME TypeOK, NEW c \in Chan, Writes(c) \/ PrintsOut(c)
  PROVE  TypeOK'
<1> USE DEF Steps, mainVars, wires
<1>1. CASE Writes(c)
  <2> DEFINE m == Head(worker[c].todo)
             said == IF m.tag = "RESULT" THEN m.v ELSE worker[c].said
             todo == Tail(worker[c].todo)
  <2>1. worker[c].todo \in Seq(Upward) /\ worker[c].todo # <<>>
    BY <1>1, PartsTyped DEF Writes
  <2>2. m \in Upward /\ todo \in Seq(Upward)
    BY <2>1
  <2>3. said \in Obj \cup {None, Nil}
    BY <2>2, MessageIs, PartsTyped
  <2>4. /\ stdout' = [stdout EXCEPT ![c] = Append(@, m)]
        /\ worker' = [worker EXCEPT ![c].todo = todo, ![c].said = said]
    BY <1>1 DEF Writes, TypeOK, Workers
  <2> HIDE DEF m, said, todo
  <2>5. worker' \in [Chan -> Workers]
    BY <2>2, <2>3, <2>4, WorkerPut DEF TypeOK
  <2>6. stdout' \in [Chan -> Seq(Upward)]
    <3>1. Append(stdout[c], m) \in Seq(Upward)
      BY <2>2 DEF TypeOK
    <3>2. QED
      BY <2>4, <3>1 DEF TypeOK
  <2>7. QED
    BY <1>1, <2>5, <2>6 DEF Writes, TypeOK
<1>2. CASE PrintsOut(c)
  <2>1. PICK what \in Prints :
          stdout' = [stdout EXCEPT ![c] = Append(@, [Message("PRINT", Nil) EXCEPT !.to = what])]
    BY <1>2 DEF PrintsOut
  <2>2. [Message("PRINT", Nil) EXCEPT !.to = what] \in Upward
    BY MessagesAre
  <2>3. stdout' \in [Chan -> Seq(Upward)]
    BY <2>1, <2>2 DEF TypeOK
  <2>4. worker' \in [Chan -> Workers]
    BY <1>2, WorkerPut DEF PrintsOut, TypeOK
  <2>5. QED
    BY <1>2, <2>3, <2>4 DEF PrintsOut, TypeOK
<1>3. QED
  BY <1>1, <1>2

LEMMA InitType ==
  ASSUME Init
  PROVE  TypeOK
<1>1. handle \in [Chan -> Handles]
  BY DEF Init, Handles
<1>2. worker \in [Chan -> Workers]
  <2>1. <<>> \in Seq(Upward)
    OBVIOUS
  <2>2. QED
    BY <2>1 DEF Init, Workers
<1>3. store \subseteq Obj
  <2>1. PICK old \in SUBSET Looked : store = UNION {Closure(v) : v \in old}
    BY DEF Init
  <2>2. \A v \in old : Closure(v) \subseteq Obj
    BY Given, ClosureProperties
  <2>3. QED
    BY <2>1, <2>2
<1>4. hostp \in [up : BOOLEAN, workers : SUBSET Chan]
  BY DEF Init
<1>5. /\ sched \in Seq(Frames) /\ down \in Seq(Frames) /\ pool \in [Chan -> Seq(Frames)]
      /\ inbox \in [Chan -> Seq(Upward)] /\ stdout \in [Chan -> Seq(Upward)]
      /\ stdin \in [Chan -> Seq(Downward)]
  BY DEF Init
<1>6. outcome \in [Chan -> {"none", "failed", "value", "exit", "closed", "timeout"}]
  BY DEF Init
<1>7. direct \in BOOLEAN
  BY Given DEF Init
<1>8. QED
  BY <1>1, <1>2, <1>3, <1>4, <1>5, <1>6, <1>7 DEF Init, TypeOK

\* Every variable of the main process, of the connection, of the host
\* process and of the workers keeps its type: every message in every queue
\* and pipe is one that its reader knows, with an object where it needs one.
THEOREM ChannelTyping == Spec => []TypeOK
<1>1. Init => TypeOK
  BY InitType
<1>2. TypeOK /\ [Next]_vars => TypeOK'
  <2> SUFFICES ASSUME TypeOK, [Next]_vars
               PROVE  TypeOK'
    OBVIOUS
  <2>1. ASSUME NEW c \in Chan,
               \/ Start(c) \/ StartRefused(c) \/ Feed(c) \/ Calls(c) \/ Collect(c) \/ Expire(c)
               \/ PoolWrites(c) \/ Forward(c) \/ ForwardExit(c)
        PROVE  TypeOK'
    BY <2>1, StartType, FeedType, CallsType, EndsType, WritesDownType, ForwardType
  <2>2. ASSUME NEW c \in Chan, Worker(c) \/ PrintsOut(c) \/ Crashes(c) \/ Hangs(c)
        PROVE  TypeOK'
    BY <2>2, ReadsType, AsksType, SaysType, WritesType DEF Worker
  <2>3. CASE Finish \/ CloseHost \/ Drop \/ ReaderEnds \/ SchedWrites \/ HostLoop
    BY <2>3, FinishType, WritesDownType, HostLoopType
  <2>4. CASE Clear
    BY <2>4 DEF Clear, TypeOK, mainVars, wires, hostVars
  <2>5. CASE UNCHANGED vars
    BY <2>5 DEF TypeOK, vars, mainVars, wires, hostVars, disk
  <2>6. QED
    BY <2>1, <2>2, <2>3, <2>4, <2>5 DEF Next
<1>3. QED
  BY <1>1, <1>2, PTL DEF Spec

-----------------------------------------------------------------------------
(* The end of a task                                                       *)

Holds(s, tag) == \E i \in DOMAIN s : s[i].tag = tag

OpenAt(s, i, c) == s[i].tag = "OPEN" /\ s[i].c = c

\* The task of c is on its way to the host process.
TaskComes(c) ==
  \E s \in {sched, down} : \E i \in DOMAIN s : s[i].c = c /\ s[i].m.tag = "TASK"

\* A channel is opened once, before anything else that is written on it, and
\* its worker starts then.
OpensOnce(c) ==
  /\ \A i \in DOMAIN sched : sched[i].tag = "OPEN" => i = 1
  /\ \A i, j \in DOMAIN down : OpenAt(down, i, c) /\ OpenAt(down, j, c) => i = j
  /\ \A i \in DOMAIN down : OpenAt(down, i, c) => worker[c].pc = "none" /\ handle[c].st # "none"
  /\ \A i \in DOMAIN sched : OpenAt(sched, i, c) =>
       /\ worker[c].pc = "none" /\ handle[c].st # "none"
       /\ \A j \in DOMAIN down : ~OpenAt(down, j, c)
  /\ \A i \in DOMAIN pool[c] : /\ pool[c][i].tag = "DATA" /\ pool[c][i].c = c
                               /\ pool[c][i].m.tag # "TASK"
  /\ handle[c].st = "none" =>
       worker[c].pc = "none" /\ ~TaskComes(c) /\ ~Holds(stdin[c], "TASK")

\* A worker says one result, and it is the last thing it says.
Word(c) ==
  LET w == worker[c]
  IN  /\ \A i \in DOMAIN w.todo :
           /\ w.todo[i].tag = "RESULT" => w.pc = "done" /\ w.said = None /\ i = Len(w.todo)
           /\ w.todo[i].tag \notin {"EXIT", "CLOSED", "PRINT"}
      /\ w.said # None => w.pc \in {"done", "ended", "reaped"} /\ w.todo = <<>>
      /\ w.pc \in {"ended", "reaped"} => w.todo = <<>>

\* A worker with no task to run says nothing, or that it has failed.
Taskless(c) ==
  /\ handle[c].st # "none" /\ ~TaskComes(c) /\ ~Holds(stdin[c], "TASK")
  /\ worker[c].pc \notin {"running", "asking"} /\ worker[c].said \in {None, Nil}
  /\ \A i \in DOMAIN worker[c].todo :
       worker[c].todo[i].tag = "RESULT" => worker[c].todo[i].v = Nil

\* What is on its way from a worker is what it said.
OnItsWay(c) ==
  \A s \in {inbox[c], stdout[c]} : \A i \in DOMAIN s :
    /\ s[i].tag = "RESULT" => worker[c].said # None /\ s[i].v = worker[c].said
    /\ s[i].tag = "PRINT" => worker[c].printed

\* A worker said how its task ended, to a batch that can still hear it.
IsTold(c) == main = "on" /\ worker[c].said # None /\ ~worker[c].printed

\* The end of a worker comes after what it said.
EndsLast(c) ==
  /\ ~Holds(stdout[c], "EXIT")
  /\ \A i \in DOMAIN inbox[c] : inbox[c][i].tag = "EXIT" =>
       /\ worker[c].pc = "reaped"
       /\ IsTold(c) => \/ handle[c].result # None
                       \/ \E j \in 1..(i - 1) : inbox[c][j].tag = "RESULT"
  /\ handle[c].exit = "EXIT" =>
       worker[c].pc = "reaped" /\ (IsTold(c) => handle[c].result # None)
  /\ IsTold(c) /\ conn = "up" /\ handle[c].st = "open" =>
       handle[c].result # None \/ Holds(inbox[c], "RESULT") \/ Holds(stdout[c], "RESULT")

\* What a handle took a task's result to be is what its worker said.
ResultIsSaid(c) ==
  /\ handle[c].deaf => worker[c].printed
  /\ handle[c].result \notin {None, Nil} => handle[c].result = worker[c].said
  /\ handle[c].result = Nil => worker[c].printed \/ worker[c].said = Nil \/ Taskless(c)

\* What was collected is what the handle had, and has.
IsCollected(c) ==
  /\ outcome[c] = "value"  => handle[c].result \notin {None, Nil}
  /\ outcome[c] = "failed" => handle[c].result = Nil
  /\ outcome[c] = "exit"   => /\ handle[c].exit = "EXIT"
                              /\ worker[c].said = None \/ worker[c].printed
  /\ outcome[c] # "none" => handle[c].st = "dropped"

Truth(c) == OpensOnce(c) /\ Word(c) /\ OnItsWay(c) /\ EndsLast(c) /\ ResultIsSaid(c) /\ IsCollected(c)

\* A step of one worker leaves the others', and the main process, alone.
LEMMA OneWorkerSteps ==
  ASSUME TypeOK, NEW d \in Chan, Worker(d) \/ PrintsOut(d) \/ Crashes(d) \/ Hangs(d)
  PROVE  /\ \A c \in Chan : c # d => /\ worker'[c] = worker[c] /\ stdin'[c] = stdin[c]
                                     /\ stdout'[c] = stdout[c]
         /\ UNCHANGED <<mainVars, wires, hostp, clears, forced, direct>>
<1> USE DEF TypeOK, Steps
<1>1. ASSUME NEW tag, Reads(d, tag)
      PROVE  \A c \in Chan : c # d => stdin'[c] = stdin[c] /\ stdout'[c] = stdout[c]
  BY <1>1 DEF Reads
<1>2. ASSUME Inside(d)
      PROVE  \A c \in Chan : c # d => stdin'[c] = stdin[c] /\ stdout'[c] = stdout[c]
  BY <1>2 DEF Inside
<1>3. \A c \in Chan : c # d => Ended(d)[c] = worker[c] /\ Fails(d)[c] = worker[c]
  BY DEF Ended, Fails
<1>4. ASSUME NEW v, NEW more, NEW pc, Put(d, v, more, pc)
      PROVE  \A c \in Chan : c # d => worker'[c] = worker[c]
  BY <1>4 DEF Put
<1>5. CASE TakesHello(d)
  BY <1>1, <1>5 DEF TakesHello
<1>6. CASE Accepts(d) \/ Hangs(d)
  BY <1>2, <1>6 DEF Accepts, Hangs
<1>7. CASE Refuses(d) \/ Raises(d) \/ FindsEnd(d) \/ Exits(d) \/ Crashes(d)
  BY <1>2, <1>3, <1>7 DEF Refuses, Raises, FindsEnd, Exits, Crashes
<1>8. CASE TakesObject(d)
  BY <1>1, <1>8 DEF TakesObject, Received
<1>9. CASE TakesTask(d)
  BY <1>1, <1>3, <1>9 DEF TakesTask
<1>10. CASE TakesReply(d)
  BY <1>1, <1>10 DEF TakesReply
<1>11. ASSUME NEW v, AsksValue(d, v)
       PROVE  /\ \A c \in Chan : c # d => /\ worker'[c] = worker[c] /\ stdin'[c] = stdin[c]
                                          /\ stdout'[c] = stdout[c]
              /\ UNCHANGED <<mainVars, wires, hostp, clears, forced, direct>>
  BY <1>2, <1>11 DEF AsksValue, Idle
<1>12. CASE AsksCall(d)
  BY <1>4, <1>12 DEF AsksCall, Idle
<1>13. ASSUME NEW v, Records(d, v) \/ Returns(d, v)
       PROVE  /\ \A c \in Chan : c # d => /\ worker'[c] = worker[c] /\ stdin'[c] = stdin[c]
                                          /\ stdout'[c] = stdout[c]
              /\ UNCHANGED <<mainVars, wires, hostp, clears, forced, direct>>
  BY <1>4, <1>13 DEF Records, Returns, Idle
<1>14. CASE Writes(d) \/ PrintsOut(d)
  <2>1. \A c \in Chan : c # d => worker'[c] = worker[c] /\ stdout'[c] = stdout[c]
    BY <1>14 DEF Writes, PrintsOut
  <2>2. QED
    BY <1>14, <2>1 DEF Writes, PrintsOut
<1>15. QED
  BY <1>5, <1>6, <1>7, <1>8, <1>9, <1>10, <1>11, <1>12, <1>13, <1>14 DEF Worker

\* Of a step that adds nothing to what a task's worker said and its handle
\* heard, what is left to show.
LEMMA UndisturbedIsTrue ==
  ASSUME NEW c \in Chan, Truth(c),
         inbox'[c] = inbox[c], stdout'[c] = stdout[c], outcome'[c] = outcome[c],
         handle'[c].st = handle[c].st, handle'[c].result = handle[c].result,
         handle'[c].exit = handle[c].exit, handle'[c].deaf = handle[c].deaf,
         worker'[c].said = worker[c].said, worker'[c].printed = worker[c].printed,
         main' = "on" => main = "on", conn' = "up" => conn = "up",
         worker'[c].pc = worker[c].pc \/ worker[c].pc # "reaped",
         OpensOnce(c)', Word(c)', Taskless(c) => Taskless(c)'
  PROVE  Truth(c)'
<1> USE DEF Truth
<1>1. OnItsWay(c)'
  BY DEF OnItsWay
<1>2. EndsLast(c)'
  BY DEF EndsLast, Holds, IsTold
<1>3. ResultIsSaid(c)'
  BY DEF ResultIsSaid
<1>4. IsCollected(c)'
  BY DEF IsCollected
<1>5. QED
  BY <1>1, <1>2, <1>3, <1>4

\* What is the same of a task, but for what is on its way to the worker.
Same(c) ==
  /\ worker'[c].pc = worker[c].pc /\ worker'[c].todo = worker[c].todo
  /\ worker'[c].said = worker[c].said /\ worker'[c].printed = worker[c].printed
  /\ stdin'[c] = stdin[c] /\ stdout'[c] = stdout[c] /\ inbox'[c] = inbox[c]
  /\ handle'[c].st = handle[c].st /\ handle'[c].result = handle[c].result
  /\ handle'[c].exit = handle[c].exit /\ handle'[c].deaf = handle[c].deaf
  /\ outcome'[c] = outcome[c]

LEMMA FramesAreTrue ==
  ASSUME NEW c \in Chan, Truth(c), Same(c),
         main' = "on" => main = "on", conn' = "up" => conn = "up",
         OpensOnce(c)', TaskComes(c)' => TaskComes(c)
  PROVE  Truth(c)'
<1> USE DEF Same
<1>1. Word(c)'
  BY DEF Truth, Word
<1>2. Taskless(c) => Taskless(c)'
  BY DEF Taskless, Holds
<1>3. QED
  BY <1>1, <1>2, UndisturbedIsTrue

LEMMA SameIsTrue ==
  ASSUME NEW c \in Chan, Truth(c), Same(c), pool'[c] = pool[c],
         UNCHANGED <<main, sched, conn, down>>
  PROVE  Truth(c)'
<1>1. TaskComes(c)' <=> TaskComes(c)
  BY DEF TaskComes
<1>2. OpensOnce(c)'
  BY <1>1 DEF Truth, OpensOnce, OpenAt, Same, Holds
<1>3. QED
  BY <1>1, <1>2, FramesAreTrue

\* Of a worker's step that writes nothing, what is left to show.
LEMMA QuietIsTrue ==
  ASSUME NEW c \in Chan, Truth(c), UNCHANGED <<mainVars, wires>>,
         stdout'[c] = stdout[c], worker'[c].said = worker[c].said,
         worker'[c].printed = worker[c].printed,
         worker[c].pc \notin {"none", "reaped"},
         Word(c)', Taskless(c) => Taskless(c)'
  PROVE  Truth(c)'
<1>1. OpensOnce(c)'
  BY DEF Truth, OpensOnce, OpenAt, mainVars, wires
<1>2. QED
  BY <1>1, UndisturbedIsTrue DEF mainVars, wires

\* Where a worker is, what it has to say and what is left for it to read
\* decide whether its word is one, and whether it has a task.
LEMMA MoveIsTrue ==
  ASSUME TypeOK, NEW c \in Chan, Truth(c), UNCHANGED <<mainVars, wires>>,
         stdout'[c] = stdout[c], worker'[c].said = worker[c].said,
         worker'[c].printed = worker[c].printed, stdin'[c] \in Seq(Downward),
         worker[c].pc \notin {"none", "done", "ended", "reaped"},
         worker'[c].todo = worker[c].todo /\ worker'[c].pc \notin {"ended", "reaped"},
         \A i \in DOMAIN stdin'[c] : stdin'[c][i].tag = "TASK" => Holds(stdin[c], "TASK"),
         worker'[c].pc \in {"running", "asking"} =>
            worker[c].pc \in {"running", "asking"} \/ Holds(stdin[c], "TASK")
  PROVE  Truth(c)'
<1>1. Word(c)'
  BY DEF Truth, Word
<1>2. Taskless(c) => Taskless(c)'
  BY DEF Taskless, TaskComes, Holds, mainVars, wires
<1>3. QED
  BY <1>1, <1>2, QuietIsTrue

LEMMA EndedIsTrue ==
  ASSUME TypeOK, NEW c \in Chan, Truth(c), UNCHANGED <<mainVars, wires>>,
         stdout'[c] = stdout[c], stdin'[c] = stdin[c], worker'[c] = Ended(c)[c],
         worker[c].pc \notin {"none", "reaped"}
  PROVE  Truth(c)'
<1>1. /\ worker'[c].pc = "ended" /\ worker'[c].todo = <<>>
      /\ worker'[c].said = worker[c].said /\ worker'[c].printed = worker[c].printed
  BY DEF Ended, TypeOK, Workers
<1>2. Word(c)'
  BY <1>1 DEF Word
<1>3. Taskless(c) => Taskless(c)'
  BY <1>1 DEF Taskless, TaskComes, Holds, mainVars, wires
<1>4. QED
  BY <1>1, <1>2, <1>3, QuietIsTrue

LEMMA RestHolds ==
  ASSUME NEW S, NEW s \in Seq(S), NEW r, NEW tag, r = s \/ (s # <<>> /\ r = Tail(s))
  PROVE  \A i \in DOMAIN r : r[i].tag = tag => Holds(s, tag)
<1>1. CASE r = s
  BY <1>1 DEF Holds
<1>2. CASE s # <<>> /\ r = Tail(s)
  <2>1. \A i \in DOMAIN r : i + 1 \in DOMAIN s /\ r[i] = s[i + 1]
    BY <1>2
  <2>2. QED
    BY <2>1 DEF Holds
<1>3. QED
  BY <1>1, <1>2

LEMMA FailsIsTrue ==
  ASSUME TypeOK, NEW c \in Chan, Truth(c), UNCHANGED <<mainVars, wires>>,
         stdout'[c] = stdout[c],
         stdin'[c] = stdin[c] \/ (stdin[c] # <<>> /\ stdin'[c] = Tail(stdin[c])),
         worker' = Fails(c), worker[c].pc \in {"importing", "reading", "running"}
  PROVE  Truth(c)'
<1>1. worker[c].todo \in Seq(Upward) /\ Message("RESULT", Nil) \in Upward
  BY PartsTyped, MessagesAre
<1>2. /\ worker'[c].pc = "done" /\ worker'[c].todo = Append(worker[c].todo, Message("RESULT", Nil))
      /\ worker'[c].said = worker[c].said /\ worker'[c].printed = worker[c].printed
  BY DEF Fails, TypeOK, Workers
<1>3. Message("RESULT", Nil).tag = "RESULT" /\ Message("RESULT", Nil).v = Nil
  BY DEF Message
<1> DEFINE m == Message("RESULT", Nil)
           todo == worker[c].todo
<1> HIDE DEF m
<1>4. /\ worker'[c].todo \in Seq(Upward) /\ Len(worker'[c].todo) = Len(todo) + 1
      /\ worker'[c].todo[Len(todo) + 1] = m /\ \A i \in 1..Len(todo) : worker'[c].todo[i] = todo[i]
  BY <1>1, <1>2 DEF m
<1>5. Word(c)'
  BY <1>1, <1>2, <1>3, <1>4 DEF Word, Truth, m
<1>6. \A i \in DOMAIN stdin'[c] : stdin'[c][i].tag = "TASK" => Holds(stdin[c], "TASK")
  BY PartsTyped, RestHolds
<1>7. Taskless(c) => Taskless(c)'
  <2> SUFFICES ASSUME Taskless(c)
               PROVE  Taskless(c)'
    OBVIOUS
  <2>1. ~Holds(stdin[c], "TASK")'
    BY <1>6 DEF Taskless, Holds
  <2>2. ASSUME NEW i \in DOMAIN worker'[c].todo, worker'[c].todo[i].tag = "RESULT"
        PROVE  worker'[c].todo[i].v = Nil
    <3>1. i \in 1..Len(todo) \/ i = Len(todo) + 1
      BY <1>1, <1>4
    <3>2. CASE i \in 1..Len(todo)
      BY <1>1, <1>4, <2>2, <3>2 DEF Taskless
    <3>3. CASE i = Len(todo) + 1
      BY <1>3, <1>4, <3>3 DEF m
    <3>4. QED
      BY <3>1, <3>2, <3>3
  <2>3. QED
    BY <1>2, <2>1, <2>2 DEF Taskless, TaskComes, mainVars, wires
<1>8. QED
  BY <1>2, <1>5, <1>7, QuietIsTrue

\* A worker that puts a value is one with a task.
LEMMA PutIsTrue ==
  ASSUME TypeOK, NEW c \in Chan, Truth(c), UNCHANGED <<mainVars, wires>>,
         stdout'[c] = stdout[c], worker[c].pc = "running",
         NEW v \in Obj, NEW more \in Seq(Upward), NEW pc \in {"running", "asking", "done"},
         Put(c, v, more, pc), Len(more) <= 1,
         \A i \in DOMAIN more : /\ more[i].tag \in {"RECORD", "CALL", "RESULT"}
                                /\ more[i].tag = "RESULT" => pc = "done"
  PROVE  Truth(c)'
<1> DEFINE os == Objects(ToPut(c, v))
           todo == os \o more
<1>1. /\ worker'[c].pc = pc /\ worker'[c].todo = todo
      /\ worker'[c].said = worker[c].said /\ worker'[c].printed = worker[c].printed
  BY DEF Put, TypeOK, Workers
<1>2. os \in Seq(Upward) /\ \A i \in DOMAIN os : os[i].tag = "OBJECT"
  BY ToPutIs, ObjectsAre DEF Message
<1> HIDE DEF os
<1>3. /\ Len(todo) = Len(os) + Len(more) /\ DOMAIN todo = 1..(Len(os) + Len(more))
      /\ \A i \in 1..Len(os) : todo[i] = os[i]
      /\ \A i \in (Len(os) + 1)..Len(todo) : todo[i] = more[i - Len(os)]
  BY <1>2
<1> HIDE DEF todo
<1>4. worker[c].said = None
  BY DEF Truth, Word
<1>5. Word(c)'
  <2>1. ASSUME NEW i \in DOMAIN todo
        PROVE  /\ todo[i].tag \in {"OBJECT", "RECORD", "CALL", "RESULT"}
               /\ todo[i].tag = "RESULT" => pc = "done" /\ i = Len(todo)
    <3>1. CASE i \in 1..Len(os)
      BY <1>2, <1>3, <3>1
    <3>2. CASE i \in (Len(os) + 1)..Len(todo)
      <4>1. i - Len(os) \in DOMAIN more /\ i - Len(os) = Len(more) /\ i = Len(todo)
        BY <1>2, <1>3, <3>2
      <4>2. todo[i] = more[i - Len(os)]
        BY <1>3, <3>2
      <4>3. QED
        BY <4>1, <4>2
    <3>3. QED
      BY <1>2, <1>3, <3>1, <3>2
  <2>2. QED
    BY <1>1, <1>4, <2>1 DEF Word
<1>6. ~Taskless(c)
  BY DEF Taskless
<1>7. QED
  BY <1>1, <1>5, <1>6, QuietIsTrue

LEMMA ReadsOne ==
  ASSUME TypeOK, NEW c \in Chan, NEW tag, Reads(c, tag)
  PROVE  /\ stdout'[c] = stdout[c] /\ stdin[c] # <<>> /\ stdin'[c] = Tail(stdin[c])
         /\ stdin'[c] \in Seq(Downward)
         /\ \A i \in DOMAIN stdin'[c] : stdin'[c][i].tag = "TASK" => Holds(stdin[c], "TASK")
         /\ tag = "TASK" => Holds(stdin[c], "TASK")
<1>1. /\ stdout' = stdout /\ stdin' = [stdin EXCEPT ![c] = Tail(@)]
      /\ stdin[c] # <<>> /\ Head(stdin[c]).tag = tag
  BY DEF Reads
<1>2. stdin'[c] = Tail(stdin[c])
  BY <1>1 DEF TypeOK
<1> DEFINE s == stdin[c]
           r == stdin'[c]
<1>3. s \in Seq(Downward) /\ s # <<>> /\ r = Tail(s)
  BY <1>1, <1>2, PartsTyped
<1> HIDE DEF s, r
<1>4. r \in Seq(Downward) /\ s[1] = Head(s)
  BY <1>3
<1>5. \A i \in DOMAIN r : i + 1 \in DOMAIN s /\ r[i] = s[i + 1]
  BY <1>3
<1>6. 1 \in DOMAIN s
  BY <1>3
<1>7. QED
  BY <1>1, <1>2, <1>4, <1>5, <1>6 DEF Holds, s, r

\* A worker reading, running and ending says what is so of it.
LEMMA ReadingIsTrue ==
  ASSUME TypeOK, TypeOK', NEW c \in Chan, Truth(c),
         \/ TakesHello(c) \/ Accepts(c) \/ Refuses(c) \/ TakesObject(c) \/ TakesTask(c)
         \/ Raises(c) \/ TakesReply(c) \/ FindsEnd(c) \/ Exits(c) \/ Crashes(c) \/ Hangs(c)
  PROVE  Truth(c)'
<1> USE DEF Steps, Inside
<1>1. ASSUME NEW pc, worker' = [worker EXCEPT ![c].pc = pc]
      PROVE  /\ worker'[c].pc = pc /\ worker'[c].todo = worker[c].todo
             /\ worker'[c].said = worker[c].said /\ worker'[c].printed = worker[c].printed
  BY <1>1 DEF TypeOK, Workers
<1>2. CASE TakesHello(c)
  BY <1>1, <1>2, ReadsOne, MoveIsTrue DEF TakesHello
<1>3. CASE Accepts(c) \/ Hangs(c)
  <2>1. \A i \in DOMAIN stdin[c] : stdin[c][i].tag = "TASK" => Holds(stdin[c], "TASK")
    BY DEF Holds
  <2>2. stdin[c] \in Seq(Downward) /\ stdin' = stdin /\ stdout' = stdout
    BY <1>3, PartsTyped DEF Accepts, Hangs
  <2>3. QED
    BY <1>1, <1>3, <2>1, <2>2, MoveIsTrue DEF Accepts, Hangs
<1>4. CASE Refuses(c) \/ Raises(c)
  BY <1>4, FailsIsTrue DEF Refuses, Raises
<1>5. CASE TakesObject(c)
  <2>1. Reads(c, "OBJECT") /\ worker[c].pc \in {"reading", "asking"} /\ UNCHANGED <<mainVars, wires>>
    BY <1>5 DEF TakesObject
  <2>2. /\ worker'[c].pc = worker[c].pc /\ worker'[c].todo = worker[c].todo
        /\ worker'[c].said = worker[c].said /\ worker'[c].printed = worker[c].printed
    BY <1>5 DEF TakesObject, Received, TypeOK, Workers
  <2>3. QED
    BY <2>1, <2>2, ReadsOne, MoveIsTrue
<1>6. CASE TakesTask(c)
  <2>1. CASE worker' = Fails(c)
    BY <1>6, <2>1, ReadsOne, FailsIsTrue DEF TakesTask
  <2>2. CASE worker' = [worker EXCEPT ![c].pc = "running"]
    <3>1. Reads(c, "TASK") /\ worker[c].pc = "reading" /\ UNCHANGED <<mainVars, wires>>
      BY <1>6 DEF TakesTask
    <3>2. QED
      BY <1>1, <2>2, <3>1, ReadsOne, MoveIsTrue
  <2>3. QED
    BY <1>6, <2>1, <2>2 DEF TakesTask
<1>7. CASE TakesReply(c)
  <2>1. Reads(c, "REPLY") /\ worker[c].pc = "asking" /\ UNCHANGED <<mainVars, wires>>
    BY <1>7 DEF TakesReply
  <2>2. /\ worker'[c].pc = "running" /\ worker'[c].todo = worker[c].todo
        /\ worker'[c].said = worker[c].said /\ worker'[c].printed = worker[c].printed
    BY <1>7 DEF TakesReply, TypeOK, Workers
  <2>3. QED
    BY <2>1, <2>2, ReadsOne, MoveIsTrue
<1>8. CASE FindsEnd(c) \/ Exits(c) \/ Crashes(c)
  BY <1>8, EndedIsTrue DEF FindsEnd, Exits, Crashes, Running
<1>9. QED
  BY <1>2, <1>3, <1>4, <1>5, <1>6, <1>7, <1>8

LEMMA AskingIsTrue ==
  ASSUME TypeOK, NEW c \in Chan, Truth(c),
         \/ \E v \in Looked : AsksValue(c, v)
         \/ AsksCall(c)
         \/ \E v \in Made : Records(c, v) \/ Returns(c, v)
  PROVE  Truth(c)'
<1> USE DEF Steps
<1>1. ASSUME NEW v \in Looked, AsksValue(c, v)
      PROVE  Truth(c)'
  <2>1. /\ worker'[c].pc = "asking" /\ worker'[c].todo = <<Message("GET_VALUE", v)>>
        /\ worker'[c].said = worker[c].said /\ worker'[c].printed = worker[c].printed
    <3> DEFINE w == worker[c]
    <3>1. worker' = [worker EXCEPT ![c] = [w EXCEPT !.pc = "asking", !.ask = "GET_VALUE",
                       !.asks = w.asks + 1, !.todo = <<Message("GET_VALUE", v)>>]]
      BY <1>1 DEF AsksValue
    <3>2. w \in Workers
      BY PartsTyped
    <3> HIDE DEF w
    <3>3. worker'[c] = [w EXCEPT !.pc = "asking", !.ask = "GET_VALUE",
                          !.asks = w.asks + 1, !.todo = <<Message("GET_VALUE", v)>>]
      BY <3>1 DEF TypeOK
    <3>4. QED
      BY <3>2, <3>3 DEF w, Workers
  <2>2. worker[c].pc = "running" /\ UNCHANGED <<mainVars, wires, stdout, stdin>>
    BY <1>1 DEF AsksValue, Idle, Inside
  <2>3. Word(c)'
    BY <2>1, <2>2 DEF Word, Truth, Message
  <2>4. ~Taskless(c)
    BY <2>2 DEF Taskless
  <2>5. QED
    BY <2>1, <2>2, <2>3, <2>4, QuietIsTrue
<1>2. CASE AsksCall(c)
  <2> DEFINE more == <<Message("CALL", Param)>>
  <2>1. Param \in Obj /\ more \in Seq(Upward)
    BY Given, MessagesAre
  <2>2. Len(more) <= 1 /\ \A i \in DOMAIN more : more[i].tag = "CALL"
    BY DEF Message
  <2>3. Put(c, Param, more, "asking") /\ worker[c].pc = "running"
        /\ UNCHANGED <<mainVars, wires, stdout>>
    BY <1>2 DEF AsksCall, Idle
  <2> HIDE DEF more
  <2>4. QED
    BY <2>1, <2>2, <2>3, PutIsTrue
<1>3. ASSUME NEW v \in Made, Records(c, v)
      PROVE  Truth(c)'
  <2> DEFINE more == IF direct THEN <<>> ELSE <<Message("RECORD", v)>>
  <2>1. v \in Obj /\ more \in Seq(Upward)
    BY Given, MessagesAre
  <2>2. Len(more) <= 1 /\ \A i \in DOMAIN more : more[i].tag = "RECORD"
    BY DEF Message
  <2>3. Put(c, v, more, "running") /\ worker[c].pc = "running"
        /\ UNCHANGED <<mainVars, wires, stdout>>
    BY <1>3 DEF Records, Idle
  <2> HIDE DEF more
  <2>4. QED
    BY <2>1, <2>2, <2>3, PutIsTrue
<1>4. ASSUME NEW v \in Made, Returns(c, v)
      PROVE  Truth(c)'
  <2> DEFINE more == <<Message("RESULT", v)>>
  <2>1. v \in Obj /\ more \in Seq(Upward)
    BY Given, MessagesAre
  <2>2. Len(more) <= 1 /\ \A i \in DOMAIN more : more[i].tag = "RESULT"
    BY DEF Message
  <2>3. Put(c, v, more, "done") /\ worker[c].pc = "running"
        /\ UNCHANGED <<mainVars, wires, stdout>>
    BY <1>4 DEF Returns
  <2> HIDE DEF more
  <2>4. QED
    BY <2>1, <2>2, <2>3, PutIsTrue
<1>5. QED
  BY <1>1, <1>2, <1>3, <1>4

LEMMA WritesIsTrue ==
  ASSUME TypeOK, NEW c \in Chan, Truth(c), Writes(c)
  PROVE  Truth(c)'
<1> DEFINE w == worker[c]
           m == Head(w.todo)
           out == stdout[c]
<1>1. /\ w.todo \in Seq(Upward) /\ w.todo # <<>> /\ out \in Seq(Upward)
      /\ inbox[c] \in Seq(Upward)
  BY PartsTyped DEF Writes
<1>2. m \in Upward /\ m = w.todo[1] /\ 1 \in DOMAIN w.todo /\ m.v # None
  <2>1. m \in Upward /\ m = w.todo[1] /\ 1 \in DOMAIN w.todo
    BY <1>1
  <2>2. QED
    BY <2>1, MessageIs, KidsAreBelow DEF None, Nil
<1>3. UNCHANGED <<mainVars, wires, stdin>>
  BY DEF Writes, Steps
<1>4. /\ worker'[c].pc = w.pc /\ worker'[c].todo = Tail(w.todo) /\ worker'[c].printed = w.printed
      /\ m.tag = "RESULT" => worker'[c].said = m.v
      /\ m.tag # "RESULT" => worker'[c].said = w.said
      /\ stdout'[c] = Append(out, m)
  BY DEF Writes, TypeOK, Workers
<1>5. /\ w.said = None /\ m.tag \notin {"EXIT", "CLOSED", "PRINT"}
      /\ w.pc \notin {"ended", "reaped"}
      /\ m.tag = "RESULT" => w.pc = "done" /\ Len(w.todo) = 1
  BY <1>1, <1>2 DEF Truth, Word
<1> HIDE DEF m, w, out
<1>6. /\ Len(stdout'[c]) = Len(out) + 1 /\ stdout'[c][Len(out) + 1] = m
      /\ DOMAIN stdout'[c] = 1..(Len(out) + 1)
      /\ \A i \in 1..Len(out) : stdout'[c][i] = out[i]
  BY <1>1, <1>2, <1>4
<1>7. DOMAIN out = 1..Len(out)
  BY <1>1
<1>8. \A i \in DOMAIN worker'[c].todo :
        i + 1 \in DOMAIN w.todo /\ worker'[c].todo[i] = w.todo[i + 1]
        /\ (i + 1 = Len(w.todo) => i = Len(worker'[c].todo))
  BY <1>1, <1>4
<1>9. OpensOnce(c)'
  BY <1>3, <1>4 DEF Truth, OpensOnce, OpenAt, TaskComes, Holds, mainVars, wires, w
<1>10. Word(c)'
  <2>1. CASE m.tag = "RESULT"
    <3>1. Tail(w.todo) \in Seq(Upward) /\ Len(Tail(w.todo)) = 0
      BY <1>1, <1>5, <2>1
    <3>2. worker'[c].todo = <<>> /\ worker'[c].pc = "done"
      BY <1>4, <1>5, <2>1, <3>1, EmptyIs
    <3>3. DOMAIN worker'[c].todo = {}
      BY <3>2
    <3>4. QED
      BY <3>2, <3>3 DEF Word
  <2>2. CASE m.tag # "RESULT"
    BY <1>4, <1>5, <1>8, <2>2 DEF Truth, Word, w
  <2>3. QED
    BY <2>1, <2>2
<1>11. \A i \in DOMAIN inbox[c] : inbox[c][i].tag \notin {"RESULT", "EXIT"}
  BY <1>5 DEF Truth, OnItsWay, EndsLast, w
<1>12. \A i \in DOMAIN out : out[i].tag \notin {"RESULT", "EXIT"}
  BY <1>5 DEF Truth, OnItsWay, EndsLast, Holds, w, out
<1>13. OnItsWay(c)'
  <2>1. ASSUME NEW i \in DOMAIN inbox'[c]
        PROVE  inbox'[c][i].tag # "RESULT"
               /\ (inbox'[c][i].tag = "PRINT" => worker'[c].printed)
    BY <1>3, <1>4, <1>11 DEF Truth, OnItsWay, wires, w
  <2>2. ASSUME NEW i \in DOMAIN stdout'[c]
        PROVE  /\ stdout'[c][i].tag = "RESULT" =>
                     worker'[c].said # None /\ stdout'[c][i].v = worker'[c].said
               /\ stdout'[c][i].tag = "PRINT" => worker'[c].printed
    <3>1. CASE i \in 1..Len(out)
      <4>1. stdout'[c][i] = out[i] /\ out[i].tag # "RESULT"
        BY <1>6, <1>7, <1>12, <3>1
      <4>2. out[i].tag = "PRINT" => w.printed
        BY <1>7, <3>1 DEF Truth, OnItsWay, w, out
      <4>3. QED
        BY <1>4, <4>1, <4>2
    <3>2. CASE i = Len(out) + 1
      <4>1. stdout'[c][i] = m
        BY <1>6, <3>2
      <4>2. QED
        BY <1>2, <1>4, <1>5, <4>1
    <3>3. i \in 1..Len(out) \/ i = Len(out) + 1
      BY <1>1, <1>6, <2>2
    <3>4. QED
      BY <3>1, <3>2, <3>3
  <2>3. QED
    BY <2>1, <2>2 DEF OnItsWay
<1>14. EndsLast(c)'
  <2>1. ~Holds(stdout'[c], "EXIT")
    BY <1>1, <1>5, <1>6, <1>7, <1>12 DEF Holds
  <2>2. handle[c].exit # "EXIT"
    BY <1>5 DEF Truth, EndsLast, w
  <2>3. IsTold(c)' => Holds(stdout'[c], "RESULT")
    BY <1>1, <1>4, <1>5, <1>6 DEF IsTold, Holds
  <2>4. QED
    BY <1>3, <1>11, <2>1, <2>2, <2>3 DEF EndsLast, Holds, mainVars, wires
<1>15. Taskless(c) => Taskless(c)'
  BY <1>2, <1>3, <1>4, <1>8 DEF Taskless, TaskComes, Holds, mainVars, wires, w
<1>16. ResultIsSaid(c)'
  <2>1. handle[c].result \notin {None, Nil} => FALSE
    BY <1>5 DEF Truth, ResultIsSaid, w
  <2>2. handle[c].result = Nil => worker'[c].printed \/ Taskless(c)'
    BY <1>4, <1>5, <1>15 DEF Truth, ResultIsSaid, w, None, Nil
  <2>3. QED
    BY <1>3, <1>4, <2>1, <2>2 DEF Truth, ResultIsSaid, mainVars, w
<1>17. IsCollected(c)'
  <2>1. handle[c].exit # "EXIT"
    BY <1>5 DEF Truth, EndsLast, w
  <2>2. QED
    BY <1>3, <2>1 DEF Truth, IsCollected, mainVars
<1>18. QED
  BY <1>9, <1>10, <1>13, <1>14, <1>16, <1>17 DEF Truth

LEMMA PrintingIsTrue ==
  ASSUME TypeOK, NEW c \in Chan, Truth(c), PrintsOut(c)
  PROVE  Truth(c)'
<1> DEFINE w == worker[c]
           out == stdout[c]
<1>1. PICK what \in Prints :
        stdout' = [stdout EXCEPT ![c] = Append(@, [Message("PRINT", Nil) EXCEPT !.to = what])]
  BY DEF PrintsOut
<1> DEFINE m == [Message("PRINT", Nil) EXCEPT !.to = what]
<1>2. m \in Upward /\ m.tag = "PRINT" /\ out \in Seq(Upward) /\ stdout'[c] = Append(out, m)
  BY <1>1, MessagesAre, PartsTyped DEF Message, TypeOK
<1>3. UNCHANGED <<mainVars, wires, stdin>> /\ w.pc = "running" /\ w.todo = <<>>
  BY DEF PrintsOut, Steps
<1>4. /\ worker'[c].pc = w.pc /\ worker'[c].todo = w.todo /\ worker'[c].printed = TRUE
      /\ worker'[c].said = w.said
  BY DEF PrintsOut, TypeOK, Workers
<1> HIDE DEF m, w, out
<1>5. /\ stdout'[c][Len(out) + 1] = m /\ DOMAIN stdout'[c] = 1..(Len(out) + 1)
      /\ \A i \in 1..Len(out) : stdout'[c][i] = out[i]
  BY <1>2
<1>6. DOMAIN out = 1..Len(out) /\ \A i \in DOMAIN stdout'[c] : i \in DOMAIN out \/ i = Len(out) + 1
  BY <1>2, <1>5
<1>7. w.said = None
  BY <1>3 DEF Truth, Word, w
<1>8. OpensOnce(c)' /\ Word(c)'
  BY <1>3, <1>4 DEF Truth, OpensOnce, OpenAt, TaskComes, Holds, Word, mainVars, wires, w
<1>9. OnItsWay(c)'
  <2>1. ASSUME NEW s \in {inbox[c], out}, NEW i \in DOMAIN s
        PROVE  s[i].tag = "RESULT" => w.said # None /\ s[i].v = w.said
    BY DEF Truth, OnItsWay, w, out
  <2>2. ASSUME NEW i \in DOMAIN stdout'[c], stdout'[c][i].tag = "RESULT"
        PROVE  i \in DOMAIN out /\ stdout'[c][i] = out[i]
    BY <1>2, <1>5, <1>6, <2>2
  <2>3. inbox'[c] = inbox[c]
    BY <1>3 DEF wires
  <2>4. QED
    BY <1>4, <2>1, <2>2, <2>3 DEF OnItsWay
<1>10. ~IsTold(c)' /\ ~Holds(stdout'[c], "EXIT")
  BY <1>2, <1>4, <1>5, <1>6 DEF Truth, EndsLast, IsTold, Holds, out
<1>11. EndsLast(c)'
  BY <1>3, <1>4, <1>10 DEF Truth, EndsLast, mainVars, wires, w
<1>12. ResultIsSaid(c)' /\ IsCollected(c)'
  BY <1>3, <1>4 DEF Truth, ResultIsSaid, IsCollected, mainVars, w
<1>13. QED
  BY <1>8, <1>9, <1>11, <1>12 DEF Truth

LEMMA WorkerIsTrue ==
  ASSUME TypeOK, TypeOK', NEW c \in Chan, Truth(c),
         NEW d \in Chan, Worker(d) \/ PrintsOut(d) \/ Crashes(d) \/ Hangs(d)
  PROVE  Truth(c)'
<1>1. CASE c = d
  BY <1>1, ReadingIsTrue, AskingIsTrue, WritesIsTrue, PrintingIsTrue DEF Worker
<1>2. CASE c # d
  <2>1. Same(c) /\ pool'[c] = pool[c] /\ UNCHANGED <<main, sched, conn, down>>
    BY <1>2, OneWorkerSteps DEF Same, mainVars, wires, Worker, PrintsOut, Crashes, Hangs, Steps
  <2>2. QED
    BY <2>1, SameIsTrue
<1>3. QED
  BY <1>1, <1>2

\* Frames that the scheduler's thread is to write open no other channel, and
\* bring no other task.
LEMMA NewFrames ==
  ASSUME NEW c \in Chan, Truth(c), sched = <<>>, UNCHANGED down, pool'[c] = pool[c],
         worker'[c].pc = worker[c].pc, stdin'[c] = stdin[c],
         handle'[c].st = "none" <=> handle[c].st = "none",
         \A i \in DOMAIN sched' :
           /\ sched'[i].tag = "OPEN" => i = 1 /\ sched'[i].c # c
           /\ sched'[i].c = c => sched'[i].m.tag # "TASK"
  PROVE  OpensOnce(c)' /\ (TaskComes(c)' => TaskComes(c))
<1>1. TaskComes(c)' => TaskComes(c)
  BY DEF TaskComes
<1>2. OpensOnce(c)'
  BY <1>1 DEF Truth, OpensOnce, OpenAt, Holds
<1>3. QED
  BY <1>1, <1>2

\* What the serving of an item does to its handle.
Heard(c) ==
  LET h  == handle[c]
      hh == handle'[c]
      m  == Head(inbox[c])
  IN  /\ hh.st = h.st
      /\ hh.exit = h.exit \/ (h.exit = "none" /\ hh.exit = m.tag /\ m.tag \in {"EXIT", "CLOSED"})
      /\ hh.deaf = h.deaf \/ m.tag = "PRINT"
      /\ \/ hh.result = h.result
         \/ h.result = None /\ hh.result = Nil /\ (h.deaf \/ m.tag = "PRINT")
         \/ h.result = None /\ hh.result = m.v /\ m.tag = "RESULT"
      /\ m.tag = "RESULT" => hh.result # None \/ main' # "on" \/ h.deaf

LEMMA FeedIs ==
  ASSUME TypeOK, NEW d \in Chan, Feed(d)
  PROVE  /\ sched = <<>> /\ main = "on" /\ UNCHANGED <<pool, outcome, conn, down, hostVars>>
         /\ \A i \in DOMAIN sched' : sched'[i].tag # "OPEN" /\ sched'[i].m.tag # "TASK"
         /\ \A c \in Chan : c # d => handle'[c] = handle[c] /\ inbox'[c] = inbox[c]
         /\ inbox[d] # <<>> /\ inbox'[d] = Tail(inbox[d])
         /\ Heard(d)
<1> DEFINE m == Head(inbox[d])
           h == handle[d]
<1>1. ASSUME NEW tag, Fed(d, tag)
      PROVE  /\ sched = <<>> /\ main = "on" /\ inbox[d] # <<>> /\ m.tag = tag
             /\ inbox'[d] = Tail(inbox[d]) /\ \A c \in Chan : c # d => inbox'[c] = inbox[c]
  BY <1>1 DEF Fed, Free, TypeOK
<1>2. handle \in [Chan -> Handles] /\ m.v # None
  <2>1. inbox[d] # <<>> /\ inbox[d] \in Seq(Upward)
    BY PartsTyped DEF Feed, FeedExit, FeedLate, FeedObject, FeedResult, FeedRecord, FeedGet,
                      FeedCall, FeedPrint, Fed
  <2>2. m \in Upward
    BY <2>1
  <2>3. QED
    BY <2>2, MessageIs, KidsAreBelow DEF TypeOK, None, Nil
<1>3. ASSUME UNCHANGED sched, sched = <<>>
      PROVE  \A i \in DOMAIN sched' : sched'[i].tag # "OPEN" /\ sched'[i].m.tag # "TASK"
  BY <1>3
<1>4. CASE FeedExit(d)
  <2>1. PICK tag \in {"EXIT", "CLOSED"} :
          Fed(d, tag) /\ handle' = [handle EXCEPT ![d].exit = IF @ = "none" THEN tag ELSE @]
    BY <1>4 DEF FeedExit
  <2>2. Heard(d) /\ \A c \in Chan : c # d => handle'[c] = handle[c]
    BY <1>1, <1>2, <2>1 DEF Heard, Handles
  <2>3. QED
    BY <1>1, <1>3, <1>4, <2>1, <2>2 DEF FeedExit
<1>5. CASE FeedLate(d)
  <2>1. PICK tag \in {"OBJECT", "RESULT", "RECORD", "GET_VALUE", "CALL", "PRINT"} : Fed(d, tag)
    BY <1>5 DEF FeedLate
  <2>2. ~(h.result = None /\ ~h.deaf)
    BY <1>5 DEF FeedLate, Parses
  <2>3. UNCHANGED handle \/ (h.result = None /\ handle' = [handle EXCEPT ![d].result = Nil])
    BY <1>5 DEF FeedLate
  <2>4. Heard(d) /\ \A c \in Chan : c # d => handle'[c] = handle[c]
    BY <1>1, <1>2, <2>1, <2>2, <2>3 DEF Heard, Handles
  <2>5. QED
    BY <1>1, <1>3, <1>5, <2>1, <2>4 DEF FeedLate
<1>6. CASE FeedPrint(d)
  <2>1. Fed(d, "PRINT") /\ h.result = None
        /\ \/ handle' = [handle EXCEPT ![d].result = Nil]
           \/ handle' = [handle EXCEPT ![d].deaf = TRUE]
    BY <1>6 DEF FeedPrint, Parses
  <2>2. Heard(d) /\ \A c \in Chan : c # d => handle'[c] = handle[c]
    BY <1>1, <1>2, <2>1 DEF Heard, Handles
  <2>3. QED
    BY <1>1, <1>3, <1>6, <2>1, <2>2 DEF FeedPrint
<1>7. CASE FeedObject(d)
  <2>1. Fed(d, "OBJECT") /\ UNCHANGED <<main, sched, pool, outcome, conn, down, hostVars>>
    BY <1>7 DEF FeedObject
  <2>2. \A c \in Chan : c # d => handle'[c] = handle[c]
    BY <1>2, <1>7 DEF FeedObject
  <2>3. /\ handle'[d].st = h.st /\ handle'[d].exit = h.exit /\ handle'[d].deaf = h.deaf
        /\ handle'[d].result = h.result
    BY <1>2, <1>7 DEF FeedObject, Handles
  <2>4. QED
    BY <1>1, <1>3, <2>1, <2>2, <2>3 DEF Heard
<1>8. ASSUME Escapes
      PROVE  /\ main' # "on" /\ UNCHANGED <<pool, handle>>
             /\ \A i \in DOMAIN sched' : sched'[i].tag # "OPEN" /\ sched'[i].m.tag # "TASK"
  BY <1>8, KillsAre DEF Escapes
<1>9. CASE FeedResult(d)
  <2>1. Fed(d, "RESULT") /\ h.result = None
    BY <1>9 DEF FeedResult, Parses
  <2>2. \/ handle' = [handle EXCEPT ![d].result = m.v] /\ UNCHANGED <<main, verdict, sched, pool>>
        \/ Escapes
    BY <1>9 DEF FeedResult
  <2>3. Heard(d) /\ \A c \in Chan : c # d => handle'[c] = handle[c]
    BY <1>1, <1>2, <1>8, <2>1, <2>2 DEF Heard, Handles
  <2>4. QED
    BY <1>1, <1>3, <1>8, <1>9, <2>1, <2>2, <2>3 DEF FeedResult
<1>10. CASE FeedRecord(d)
  BY <1>1, <1>3, <1>10 DEF FeedRecord, Heard, mainVars
<1>11. CASE FeedGet(d)
  <2> DEFINE rs == RepliesToGet(d, m.v)
             sent == {r.v : r \in {q \in Range(rs) : q.tag = "OBJECT"}}
  <2>1. Fed(d, "GET_VALUE") /\ sched' = Data(d, rs)
    BY <1>11 DEF FeedGet
  <2>2. m.v \in Obj
    BY <2>1, FedType
  <2>3. rs \in Seq(Downward) /\ \A i \in DOMAIN rs : rs[i].tag \in {"OBJECT", "REPLY"}
    BY <2>2, RepliesAre
  <2>4. handle' = [handle EXCEPT ![d].seen = @ \cup sent]
    BY <1>11 DEF FeedGet
  <2> HIDE DEF rs, sent
  <2>5. /\ Len(Data(d, rs)) = Len(rs) /\ Data(d, rs) \in Seq(Frames)
        /\ \A i \in DOMAIN Data(d, rs) : Data(d, rs)[i] = Frame("DATA", d, rs[i])
    BY <2>3, DataIs
  <2>6. ASSUME NEW i \in DOMAIN sched'
        PROVE  sched'[i].tag # "OPEN" /\ sched'[i].m.tag # "TASK"
    <3>1. i \in DOMAIN rs
      BY <2>1, <2>3, <2>5
    <3>2. QED
      BY <2>1, <2>3, <2>5, <3>1 DEF Frame
  <2>7. /\ handle'[d].st = h.st /\ handle'[d].exit = h.exit /\ handle'[d].deaf = h.deaf
        /\ handle'[d].result = h.result
        /\ \A c \in Chan : c # d => handle'[c] = handle[c]
    BY <1>2, <2>4 DEF Handles
  <2>8. QED
    BY <1>1, <1>11, <2>1, <2>6, <2>7 DEF FeedGet, Heard
<1>12. CASE FeedCall(d)
  <2>1. Fed(d, "CALL")
    BY <1>12 DEF FeedCall
  <2>2. \/ handle' = [handle EXCEPT ![d].call = TRUE] /\ UNCHANGED <<main, verdict, sched, pool>>
        \/ Escapes
    BY <1>12 DEF FeedCall
  <2>3. Heard(d) /\ \A c \in Chan : c # d => handle'[c] = handle[c]
    BY <1>1, <1>2, <1>8, <2>1, <2>2 DEF Heard, Handles
  <2>4. QED
    BY <1>1, <1>3, <1>8, <1>12, <2>1, <2>2, <2>3 DEF FeedCall
<1>13. QED
  BY <1>4, <1>5, <1>6, <1>7, <1>9, <1>10, <1>11, <1>12 DEF Feed

\* What a handle hears is the first of what was queued for it.
LEMMA HeardIsTrue ==
  ASSUME TypeOK, NEW c \in Chan, Truth(c), Feed(c)
  PROVE  Truth(c)'
<1> DEFINE h == handle[c]
           hh == handle'[c]
           w == worker[c]
           in == inbox[c]
           m == Head(in)
<1>1. /\ sched = <<>> /\ main = "on" /\ UNCHANGED <<pool, outcome, conn, down, hostVars>>
      /\ \A i \in DOMAIN sched' : sched'[i].tag # "OPEN" /\ sched'[i].m.tag # "TASK"
      /\ in # <<>> /\ inbox'[c] = Tail(in) /\ Heard(c)
  BY FeedIs
<1>2. in \in Seq(Upward)
  BY PartsTyped
<1>3. 1 \in DOMAIN in /\ m = in[1] /\ m \in Upward
  BY <1>1, <1>2
<1>4. \A i \in DOMAIN inbox'[c] : /\ i \in Nat \ {0} /\ i + 1 \in DOMAIN in
                                 /\ inbox'[c][i] = in[i + 1]
  BY <1>1, <1>2
<1>5. \A i \in DOMAIN in : i = 1 \/ (i - 1 \in DOMAIN inbox'[c] /\ inbox'[c][i - 1] = in[i])
  <2> DEFINE rest == Tail(in)
  <2>1. rest \in Seq(Upward) /\ DOMAIN rest = 1..(Len(in) - 1) /\ DOMAIN in = 1..Len(in)
        /\ \A i \in 1..(Len(in) - 1) : rest[i] = in[i + 1]
    BY <1>1, <1>2
  <2> HIDE DEF rest, in
  <2>2. ASSUME NEW i \in DOMAIN in, i # 1
        PROVE  i - 1 \in DOMAIN rest /\ rest[i - 1] = in[i]
    <3>1. i - 1 \in 1..(Len(in) - 1) /\ (i - 1) + 1 = i
      BY <1>2, <2>1, <2>2
    <3>2. QED
      BY <2>1, <3>1
  <2>3. QED
    BY <1>1, <2>2 DEF rest
<1>6. /\ m.tag = "RESULT" => w.said # None /\ m.v = w.said
      /\ m.tag = "PRINT" => w.printed
      /\ h.deaf => w.printed
  BY <1>3 DEF Truth, OnItsWay, ResultIsSaid
<1>7. OpensOnce(c)' /\ (TaskComes(c)' => TaskComes(c))
  BY <1>1, NewFrames DEF Heard, hostVars
<1>8. UNCHANGED <<worker, stdin, stdout>>
  BY <1>1 DEF hostVars
<1>9. /\ hh.st = h.st
      /\ hh.deaf => w.printed
      /\ h.result # None => hh.result = h.result
      /\ hh.result \in {h.result, Nil, m.v}
      /\ hh.exit # h.exit => hh.exit = m.tag /\ h.exit = "none"
      /\ m.tag = "RESULT" /\ IsTold(c)' => hh.result # None
  BY <1>1, <1>6, <1>8 DEF Heard, IsTold
<1>10. Word(c)' /\ OnItsWay(c)'
  BY <1>4, <1>8 DEF Truth, Word, OnItsWay
<1>11. IsTold(c)' => IsTold(c)
  BY <1>1, <1>8 DEF IsTold
<1>12. EndsLast(c)'
  <2>1. ~Holds(stdout'[c], "EXIT")
    BY <1>8 DEF Truth, EndsLast, Holds
  <2>2. ASSUME NEW i \in DOMAIN inbox'[c], inbox'[c][i].tag = "EXIT", IsTold(c)'
        PROVE  hh.result # None \/ \E j \in 1..(i - 1) : inbox'[c][j].tag = "RESULT"
    <3>1. CASE h.result # None
      BY <1>9, <3>1
    <3>2. ASSUME NEW j \in 1..i, in[j].tag = "RESULT", j \in DOMAIN in
          PROVE  hh.result # None \/ \E k \in 1..(i - 1) : inbox'[c][k].tag = "RESULT"
      <4>1. CASE j = 1
        BY <1>3, <1>9, <2>2, <3>2, <4>1
      <4>2. CASE j # 1
        <5>1. j - 1 \in 1..(i - 1)
          BY <1>4, <3>2, <4>2
        <5>2. QED
          BY <1>5, <3>2, <4>2, <5>1
      <4>3. QED
        BY <4>1, <4>2
    <3>3. h.result # None \/ \E j \in 1..i : in[j].tag = "RESULT"
      <4>1. i + 1 \in DOMAIN in /\ in[i + 1].tag = "EXIT" /\ (i + 1) - 1 = i
        BY <1>4, <2>2
      <4>2. QED
        BY <1>11, <2>2, <4>1 DEF Truth, EndsLast
    <3>4. 1..i \subseteq DOMAIN in
      BY <1>2, <1>4, <2>2
    <3>5. QED
      BY <3>1, <3>2, <3>3, <3>4
  <2>3. \A i \in DOMAIN inbox'[c] : inbox'[c][i].tag = "EXIT" => w.pc = "reaped"
    BY <1>4 DEF Truth, EndsLast
  <2>4. ASSUME hh.exit = "EXIT"
        PROVE  w.pc = "reaped" /\ (IsTold(c)' => hh.result # None)
    <3>1. CASE h.exit = "EXIT"
      BY <1>9, <1>11, <3>1 DEF Truth, EndsLast
    <3>2. CASE h.exit # "EXIT"
      <4>1. in[1].tag = "EXIT" /\ ~(\E j \in 1..(1 - 1) : in[j].tag = "RESULT")
        BY <1>3, <1>9, <2>4, <3>2
      <4>2. w.pc = "reaped" /\ (IsTold(c) => h.result # None)
        BY <1>3, <4>1 DEF Truth, EndsLast
      <4>3. QED
        BY <1>9, <1>11, <4>2
    <3>3. QED
      BY <3>1, <3>2
  <2>5. ASSUME IsTold(c)', conn = "up", h.st = "open"
        PROVE  hh.result # None \/ Holds(inbox'[c], "RESULT") \/ Holds(stdout[c], "RESULT")
    <3>1. h.result # None \/ Holds(in, "RESULT") \/ Holds(stdout[c], "RESULT")
      BY <1>11, <2>5 DEF Truth, EndsLast
    <3>2. Holds(in, "RESULT") => m.tag = "RESULT" \/ Holds(inbox'[c], "RESULT")
      BY <1>3, <1>5 DEF Holds
    <3>3. QED
      BY <1>9, <2>5, <3>1, <3>2
  <2>6. QED
    BY <1>1, <1>8, <1>9, <2>1, <2>2, <2>3, <2>4, <2>5 DEF EndsLast, Holds
<1>13. ResultIsSaid(c)'
  <2>1. Taskless(c) => Taskless(c)'
    BY <1>7, <1>8, <1>9 DEF Taskless, Holds
  <2>2. CASE hh.result = h.result
    BY <1>8, <1>9, <2>1, <2>2 DEF Truth, ResultIsSaid
  <2>3. CASE hh.result = Nil /\ (h.deaf \/ m.tag = "PRINT")
    BY <1>6, <1>8, <1>9, <2>3 DEF ResultIsSaid
  <2>4. CASE hh.result = m.v /\ m.tag = "RESULT"
    BY <1>6, <1>8, <1>9, <2>4 DEF ResultIsSaid
  <2>5. QED
    BY <1>1, <2>2, <2>3, <2>4 DEF Heard
<1>14. IsCollected(c)'
  <2>1. UNCHANGED outcome
    BY <1>1
  <2>2. h.exit = "EXIT" => hh.exit = "EXIT"
    BY <1>9
  <2>3. QED
    BY <1>8, <1>9, <2>1, <2>2 DEF Truth, IsCollected, None, Nil
<1>15. QED
  BY <1>7, <1>10, <1>12, <1>13, <1>14 DEF Truth

LEMMA FeedIsTrue ==
  ASSUME TypeOK, NEW c \in Chan, Truth(c), NEW d \in Chan, Feed(d)
  PROVE  Truth(c)'
<1>1. CASE c = d
  BY <1>1, HeardIsTrue
<1>2. CASE c # d
  <2>1. /\ sched = <<>> /\ main = "on" /\ UNCHANGED <<pool, outcome, conn, down, hostVars>>
        /\ \A i \in DOMAIN sched' : sched'[i].tag # "OPEN" /\ sched'[i].m.tag # "TASK"
        /\ handle'[c] = handle[c] /\ inbox'[c] = inbox[c]
    BY <1>2, FeedIs
  <2>2. OpensOnce(c)' /\ (TaskComes(c)' => TaskComes(c))
    BY <2>1, NewFrames DEF hostVars
  <2>3. Same(c)
    BY <2>1 DEF Same, hostVars
  <2>4. QED
    BY <2>1, <2>2, <2>3, FramesAreTrue
<1>3. QED
  BY <1>1, <1>2

LEMMA StartIsTrue ==
  ASSUME TypeOK, NEW c \in Chan, Truth(c), NEW d \in Chan, Start(d) \/ StartRefused(d)
  PROVE  Truth(c)'
<1> DEFINE sent == ToSend(d, Input[d])
           hello == <<Message("HELLO", Nil)>>
           os == Objects(sent)
           task == <<Message("TASK", Input[d])>>
           ms == hello \o os \o task
           open == <<Control("OPEN", d)>>
<1>1. /\ sched = <<>> /\ main = "on" /\ handle[d].st = "none"
      /\ UNCHANGED <<main, verdict, pool, outcome, wires, hostVars>>
  BY DEF Start, StartRefused, Free
<1>2. ms \in Seq(Downward)
  <2>1. Input[d] \in Obj
    BY Given
  <2>2. sent \in Seq(Obj)
    BY <2>1, ToSendIs
  <2> HIDE DEF sent
  <2>3. os \in Seq(Downward)
    BY <2>2, ObjectsAre
  <2>4. hello \in Seq(Downward) /\ task \in Seq(Downward)
    BY <2>1, MessagesAre
  <2> HIDE DEF hello, os, task
  <2>5. QED
    BY <2>3, <2>4
<1>3. Start(d) => sched' = open \o Data(d, ms)
  BY DEF Start
<1> HIDE DEF ms
<1>4. \A i \in DOMAIN sched' : sched'[i].c = d /\ (sched'[i].tag = "OPEN" => i = 1)
  <2>1. CASE sched' = open \o Data(d, ms)
    <3> DEFINE data == Data(d, ms)
    <3>1. /\ data \in Seq(Frames)
          /\ \A i \in DOMAIN data : data[i].c = d /\ data[i].tag = "DATA"
      BY <1>2, DataIs DEF Frame
    <3>2. sched' = open \o data /\ Control("OPEN", d).c = d
      BY <2>1 DEF Control, Frame
    <3> HIDE DEF data
    <3>3. QED
      BY <3>1, <3>2
  <2>2. CASE sched' = <<Control("OPEN", d), Frame("DATA", d, Message("HELLO", Nil)), Control("KILL", d)>>
    BY <2>2 DEF Control, Frame
  <2>3. QED
    BY <1>3, <2>1, <2>2 DEF StartRefused
<1>5. /\ \A e \in Chan : e # d => handle'[e] = handle[e]
      /\ handle'[d].st = "open" /\ handle'[d].deaf = handle[d].deaf
      /\ handle'[d].exit = handle[d].exit
      /\ handle'[d].result = handle[d].result \/ (StartRefused(d) /\ handle'[d].result = Nil)
  <2>1. CASE Start(d)
    <3> HIDE DEF sent
    <3>1. handle' = [handle EXCEPT ![d].st = "open", ![d].objects = Range(sent),
                                   ![d].seen = Range(sent)]
      BY <2>1 DEF Start, sent
    <3>2. QED
      BY <3>1 DEF TypeOK, Handles
  <2>2. CASE StartRefused(d)
    BY <2>2 DEF StartRefused, TypeOK, Handles
  <2>3. QED
    BY <2>1, <2>2
<1>6. CASE c # d
  <2>1. OpensOnce(c)' /\ (TaskComes(c)' => TaskComes(c))
    BY <1>1, <1>4, <1>5, <1>6, NewFrames DEF wires, hostVars
  <2>2. Same(c)
    BY <1>1, <1>5, <1>6 DEF Same, wires, hostVars
  <2>3. QED
    BY <1>1, <2>1, <2>2, FramesAreTrue DEF wires
<1>7. CASE c = d
  <2>1. /\ worker[c].pc = "none" /\ ~TaskComes(c) /\ ~Holds(stdin[c], "TASK")
        /\ \A i \in DOMAIN down : ~OpenAt(down, i, c)
    BY <1>1, <1>7 DEF Truth, OpensOnce
  <2>2. worker[c].said = None /\ outcome[c] = "none"
        /\ \A i \in DOMAIN worker[c].todo : worker[c].todo[i].tag # "RESULT"
    BY <1>1, <1>7, <2>1 DEF Truth, Word, IsCollected
  <2>3. OpensOnce(c)'
    BY <1>1, <1>4, <1>5, <1>7, <2>1 DEF Truth, OpensOnce, OpenAt, wires, hostVars
  <2>4. Word(c)' /\ OnItsWay(c)'
    BY <1>1 DEF Truth, Word, OnItsWay, wires, hostVars
  <2>5. EndsLast(c)'
    <3>1. ~IsTold(c)'
      BY <1>1, <2>2 DEF IsTold, hostVars
    <3>2. QED
      BY <1>1, <1>5, <1>7, <3>1 DEF Truth, EndsLast, Holds, wires, hostVars
  <2>6. ResultIsSaid(c)'
    <3>1. CASE handle'[c].result = handle[c].result
      <4>1. handle[c].result = Nil => worker[c].printed
        BY <1>1, <1>7, <2>2 DEF Truth, ResultIsSaid, Taskless, None, Nil
      <4>2. QED
        BY <1>1, <1>5, <1>7, <3>1, <4>1 DEF Truth, ResultIsSaid, hostVars
    <3>2. CASE StartRefused(c) /\ handle'[c].result = Nil
      <4>1. \A i \in DOMAIN sched' : sched'[i].m.tag # "TASK"
        <5>1. sched' = <<Control("OPEN", c), Frame("DATA", c, Message("HELLO", Nil)), Control("KILL", c)>>
          BY <3>2 DEF StartRefused
        <5>2. QED
          BY <5>1 DEF Control, Frame, Message
      <4>2. ~TaskComes(c)'
        BY <1>1, <2>1, <4>1 DEF TaskComes, wires
      <4>3. Taskless(c)'
        BY <1>1, <1>5, <1>7, <2>1, <2>2, <4>2 DEF Taskless, Holds, hostVars
      <4>4. QED
        BY <1>1, <1>5, <1>7, <3>2, <4>3 DEF Truth, ResultIsSaid, hostVars
    <3>3. QED
      BY <1>5, <1>7, <3>1, <3>2
  <2>7. IsCollected(c)'
    BY <1>1, <2>2 DEF IsCollected
  <2>8. QED
    BY <2>3, <2>4, <2>5, <2>6, <2>7 DEF Truth
<1>8. QED
  BY <1>6, <1>7

LEMMA FinishedIs ==
  ASSUME NEW c \in Chan
  PROVE  /\ Finished(c) = "failed" => handle[c].result = Nil
         /\ Finished(c) = "value" => handle[c].result \notin {None, Nil}
         /\ Finished(c) = "exit" => handle[c].result = None /\ handle[c].exit = "EXIT"
BY DEF Finished

LEMMA EndsAreTrue ==
  ASSUME TypeOK, NEW c \in Chan, Truth(c), NEW d \in Chan, Collect(d) \/ Expire(d)
  PROVE  Truth(c)'
<1>1. /\ sched = <<>> /\ main = "on" /\ handle[d].st = "open"
      /\ UNCHANGED <<main, verdict, pool, wires, hostVars>>
      /\ handle' = [handle EXCEPT ![d].st = "dropped"]
  BY DEF Collect, Expire, Free
<1>2. \A i \in DOMAIN sched' : sched'[i].tag # "OPEN" /\ sched'[i].m.tag # "TASK"
  BY DEF Collect, Expire, Control, Frame, Message
<1>3. /\ \A e \in Chan : e # d => handle'[e] = handle[e] /\ outcome'[e] = outcome[e]
      /\ handle'[d].st = "dropped" /\ handle'[d].deaf = handle[d].deaf
      /\ handle'[d].exit = handle[d].exit /\ handle'[d].result = handle[d].result
  BY <1>1 DEF Collect, Expire, TypeOK, Handles
<1>4. OpensOnce(c)' /\ (TaskComes(c)' => TaskComes(c))
  BY <1>1, <1>2, <1>3, NewFrames DEF wires, hostVars
<1>5. CASE c # d
  <2>1. Same(c)
    BY <1>1, <1>3, <1>5 DEF Same, wires, hostVars
  <2>2. QED
    BY <1>1, <1>4, <2>1, FramesAreTrue DEF wires
<1>6. CASE c = d
  <2>1. Word(c)' /\ OnItsWay(c)'
    BY <1>1 DEF Truth, Word, OnItsWay, wires, hostVars
  <2>2. EndsLast(c)'
    BY <1>1, <1>3, <1>6 DEF Truth, EndsLast, Holds, IsTold, wires, hostVars
  <2>3. Taskless(c) => Taskless(c)'
    BY <1>1, <1>3, <1>4, <1>6 DEF Taskless, Holds, hostVars
  <2>4. ResultIsSaid(c)'
    BY <1>1, <1>3, <1>6, <2>3 DEF Truth, ResultIsSaid, hostVars
  <2>5. IsCollected(c)'
    <3>1. CASE Expire(c)
      <4>1. outcome'[c] = "timeout"
        BY <3>1 DEF Expire, TypeOK
      <4>2. QED
        BY <1>3, <1>6, <4>1 DEF IsCollected
    <3>2. CASE Collect(c)
      <4>1. outcome'[c] = Finished(c)
        BY <3>2 DEF Collect, TypeOK
      <4>2. Finished(c) = "exit" => worker[c].said = None \/ worker[c].printed
        BY <1>1, FinishedIs DEF Truth, EndsLast, IsTold
      <4>3. QED
        BY <1>1, <1>3, <1>6, <4>1, <4>2, FinishedIs DEF IsCollected, hostVars
    <3>3. QED
      BY <1>6, <3>1, <3>2
  <2>6. QED
    BY <1>4, <2>1, <2>2, <2>4, <2>5 DEF Truth
<1>7. QED
  BY <1>5, <1>6

LEMMA CallsAreTrue ==
  ASSUME TypeOK, NEW c \in Chan, Truth(c), NEW d \in Chan, Calls(d)
  PROVE  Truth(c)'
<1> DEFINE sent == ToSend(d, Told)
           ms == Objects(sent) \o <<Answer(Told, "CALL")>>
           failed == <<Answer(Nil, "CALL")>>
<1>1. /\ \A i \in DOMAIN Data(d, ms) : LET f == Data(d, ms)[i]
                                     IN  f.tag = "DATA" /\ f.c = d /\ f.m.tag # "TASK"
      /\ \A i \in DOMAIN Data(d, failed) : LET f == Data(d, failed)[i]
                                         IN  f.tag = "DATA" /\ f.c = d /\ f.m.tag # "TASK"
  <2>1. Told \in Obj /\ sent \in Seq(Obj)
    BY Given, ToSendIs
  <2> HIDE DEF sent
  <2>2. /\ ms \in Seq(Downward) /\ Len(ms) = Len(sent) + 1
        /\ \A i \in 1..Len(sent) : ms[i] = Message("OBJECT", sent[i])
        /\ ms[Len(sent) + 1] = Answer(Told, "CALL")
    BY <2>1, ObjectsThenAnswer
  <2>3. failed \in Seq(Downward) /\ \A i \in DOMAIN failed : failed[i].tag # "TASK"
    <3> DEFINE a == Answer(Nil, "CALL")
    <3>1. a \in Downward /\ a.tag = "REPLY"
      BY MessagesAre DEF Answer
    <3> HIDE DEF a
    <3>2. <<a>> \in Seq(Downward) /\ \A i \in DOMAIN <<a>> : <<a>>[i].tag # "TASK"
      BY <3>1
    <3>3. QED
      BY <3>2 DEF a
  <2> HIDE DEF ms, failed
  <2>4. \A i \in DOMAIN ms : ms[i].tag # "TASK"
    <3>1. \A o : Message("OBJECT", o).tag # "TASK"
      BY DEF Message
    <3>2. Answer(Told, "CALL").tag # "TASK"
      BY DEF Answer
    <3>3. \A i \in DOMAIN ms : i \in 1..Len(sent) \/ i = Len(sent) + 1
      BY <2>1, <2>2
    <3>4. QED
      BY <2>2, <3>1, <3>2, <3>3
  <2>5. ASSUME NEW s \in Seq(Downward), \A i \in DOMAIN s : s[i].tag # "TASK",
               NEW i \in DOMAIN Data(d, s)
        PROVE  Data(d, s)[i].tag = "DATA" /\ Data(d, s)[i].c = d /\ Data(d, s)[i].m.tag # "TASK"
    <3>1. i \in DOMAIN s /\ Data(d, s)[i] = Frame("DATA", d, s[i])
      BY DataIs
    <3>2. QED
      BY <2>5, <3>1 DEF Frame
  <2>6. QED
    BY <2>2, <2>3, <2>4, <2>5
<1>2. /\ UNCHANGED <<main, verdict, sched, outcome, wires, hostVars>>
      /\ UNCHANGED pool \/ pool' = [pool EXCEPT ![d] = Data(d, ms)]
         \/ pool' = [pool EXCEPT ![d] = Data(d, failed)]
  BY DEF Calls, RunCall, RunCallFails
<1> HIDE DEF ms, failed
<1>3. /\ handle'[c].st = handle[c].st /\ handle'[c].result = handle[c].result
      /\ handle'[c].exit = handle[c].exit /\ handle'[c].deaf = handle[c].deaf
  <2>1. \/ handle' = [handle EXCEPT ![d].call = FALSE]
        \/ \E seen : handle' = [handle EXCEPT ![d].call = FALSE, ![d].seen = seen]
    <3> DEFINE has == handle[d].seen \cup Range(sent)
    <3>1. CASE RunCall(d)
      <4>1. \/ handle' = [handle EXCEPT ![d].call = FALSE]
            \/ handle' = [handle EXCEPT ![d].call = FALSE, ![d].seen = @ \cup Range(sent)]
        BY <3>1 DEF RunCall
      <4> HIDE DEF sent
      <4>2. [handle EXCEPT ![d].call = FALSE, ![d].seen = @ \cup Range(sent)]
              = [handle EXCEPT ![d].call = FALSE, ![d].seen = has]
        BY DEF TypeOK, Handles
      <4> HIDE DEF has
      <4>3. QED
        BY <4>1, <4>2
    <3>2. CASE RunCallFails(d)
      BY <3>2 DEF RunCallFails
    <3>3. QED
      BY <3>1, <3>2 DEF Calls
  <2>2. CASE handle' = [handle EXCEPT ![d].call = FALSE]
    BY <2>2 DEF TypeOK, Handles
  <2>3. ASSUME NEW seen, handle' = [handle EXCEPT ![d].call = FALSE, ![d].seen = seen]
        PROVE  /\ handle'[c].st = handle[c].st /\ handle'[c].result = handle[c].result
               /\ handle'[c].exit = handle[c].exit /\ handle'[c].deaf = handle[c].deaf
    BY <2>3 DEF TypeOK, Handles
  <2>4. QED
    BY <2>1, <2>2, <2>3
<1>4. TaskComes(c)' <=> TaskComes(c)
  BY <1>2 DEF TaskComes, wires
<1>5. \A i \in DOMAIN pool'[c] : LET f == pool'[c][i]
                                IN  f.tag = "DATA" /\ f.c = c /\ f.m.tag # "TASK"
  <2>1. \/ pool'[c] = pool[c]
        \/ c = d /\ (pool'[c] = Data(d, ms) \/ pool'[c] = Data(d, failed))
    BY <1>2 DEF TypeOK
  <2>2. CASE pool'[c] = pool[c]
    BY <2>2 DEF Truth, OpensOnce
  <2>3. CASE c = d /\ (pool'[c] = Data(d, ms) \/ pool'[c] = Data(d, failed))
    BY <1>1, <2>3
  <2>4. QED
    BY <2>1, <2>2, <2>3
<1>6. OpensOnce(c)'
  BY <1>2, <1>3, <1>4, <1>5 DEF Truth, OpensOnce, OpenAt, wires, hostVars
<1>7. Same(c)
  BY <1>2, <1>3 DEF Same, wires, hostVars
<1>8. QED
  BY <1>2, <1>4, <1>6, <1>7, FramesAreTrue DEF wires

\* A frame that is written is the last of those on their way.
LEMMA SentIs ==
  ASSUME TypeOK, NEW frame \in Frames, Sent(frame)
  PROVE  /\ \A i \in DOMAIN down' : (i \in DOMAIN down /\ down'[i] = down[i])
                                  \/ (i = Len(down) + 1 /\ down'[i] = frame)
         /\ Len(down) + 1 \notin DOMAIN down
<1>1. down \in Seq(Frames) /\ (down' = down \/ down' = Append(down, frame))
  BY DEF Sent, TypeOK
<1>2. CASE down' = Append(down, frame)
  BY <1>1, <1>2
<1>3. QED
  BY <1>1, <1>2

LEMMA WritesDownIsTrue ==
  ASSUME TypeOK, NEW c \in Chan, \A e \in Chan : Truth(e),
         SchedWrites \/ \E d \in Chan : PoolWrites(d)
  PROVE  Truth(c)'
<1>1. CASE SchedWrites
  <2> DEFINE f == Head(sched)
             rest == Tail(sched)
  <2>1. /\ sched \in Seq(Frames) /\ sched # <<>> /\ Sent(f) /\ sched' = rest
        /\ UNCHANGED <<main, verdict, pool, handle, outcome, conn, inbox, hostVars>>
    BY <1>1 DEF SchedWrites, TypeOK
  <2>2. f \in Frames /\ f = sched[1] /\ 1 \in DOMAIN sched
    BY <2>1
  <2>3. \A i \in DOMAIN rest : i + 1 \in DOMAIN sched /\ rest[i] = sched[i + 1] /\ i + 1 # 1
    BY <2>1
  <2> HIDE DEF f, rest
  <2>4. /\ \A i \in DOMAIN down' : (i \in DOMAIN down /\ down'[i] = down[i])
                                 \/ (i = Len(down) + 1 /\ down'[i] = f)
        /\ Len(down) + 1 \notin DOMAIN down
    BY <2>1, <2>2, SentIs
  <2>5. TaskComes(c)' => TaskComes(c)
    BY <2>1, <2>2, <2>3, <2>4 DEF TaskComes
  <2>6. \A i \in DOMAIN rest : rest[i].tag # "OPEN"
    BY <2>3 DEF Truth, OpensOnce
  <2>7. OpensOnce(c)'
    <3>1. \A i, j \in DOMAIN down' : OpenAt(down', i, c) /\ OpenAt(down', j, c) => i = j
      BY <2>2, <2>4 DEF Truth, OpensOnce, OpenAt
    <3>2. \A i \in DOMAIN down' : OpenAt(down', i, c) => worker[c].pc = "none" /\ handle[c].st # "none"
      BY <2>2, <2>4 DEF Truth, OpensOnce, OpenAt
    <3>3. QED
      BY <2>1, <2>5, <2>6, <3>1, <3>2 DEF Truth, OpensOnce, OpenAt, hostVars
  <2>8. Same(c)
    BY <2>1 DEF Same, hostVars
  <2>9. QED
    BY <2>1, <2>5, <2>7, <2>8, FramesAreTrue
<1>2. ASSUME NEW d \in Chan, PoolWrites(d)
      PROVE  Truth(c)'
  <2> DEFINE f == Head(pool[d])
             rest == Tail(pool[d])
  <2>1. /\ pool[d] \in Seq(Frames) /\ pool[d] # <<>> /\ Sent(f)
        /\ pool' = [pool EXCEPT ![d] = rest] /\ pool \in [Chan -> Seq(Frames)]
        /\ UNCHANGED <<main, verdict, sched, handle, outcome, conn, inbox, hostVars>>
    BY <1>2 DEF PoolWrites, TypeOK
  <2>2. f \in Frames /\ f = pool[d][1] /\ 1 \in DOMAIN pool[d]
    BY <2>1
  <2>3. \A i \in DOMAIN rest : i + 1 \in DOMAIN pool[d] /\ rest[i] = pool[d][i + 1]
    BY <2>1
  <2> HIDE DEF f, rest
  <2>4. /\ \A i \in DOMAIN down' : (i \in DOMAIN down /\ down'[i] = down[i])
                                 \/ (i = Len(down) + 1 /\ down'[i] = f)
    BY <2>1, <2>2, SentIs
  <2>5. f.tag = "DATA" /\ f.m.tag # "TASK"
    BY <2>2 DEF Truth, OpensOnce
  <2>6. TaskComes(c)' => TaskComes(c)
    BY <2>1, <2>4, <2>5 DEF TaskComes
  <2>7. \A i \in DOMAIN pool'[c] : LET g == pool'[c][i]
                                  IN  g.tag = "DATA" /\ g.c = c /\ g.m.tag # "TASK"
    BY <2>1, <2>3 DEF Truth, OpensOnce
  <2>8. \A i \in DOMAIN down' : OpenAt(down', i, c) => i \in DOMAIN down /\ OpenAt(down, i, c)
    BY <2>4, <2>5 DEF OpenAt
  <2>9. OpensOnce(c)'
    BY <2>1, <2>6, <2>7, <2>8 DEF Truth, OpensOnce, OpenAt, hostVars
  <2>10. Same(c)
    BY <2>1 DEF Same, hostVars
  <2>11. QED
    BY <2>1, <2>6, <2>9, <2>10, FramesAreTrue
<1>3. QED
  BY <1>1, <1>2

LEMMA ClosingIsTrue ==
  ASSUME TypeOK, NEW c \in Chan, Truth(c), Finish \/ CloseHost \/ Drop \/ ReaderEnds
  PROVE  Truth(c)'
<1> USE DEF wires, mainVars, hostVars
<1>1. CASE Finish
  <2>1. \A i \in DOMAIN sched' : sched'[i].tag # "OPEN" /\ sched'[i].m.tag # "TASK"
    BY <1>1, KillsAre DEF Finish
  <2>2. OpensOnce(c)' /\ (TaskComes(c)' => TaskComes(c))
    BY <1>1, <2>1, NewFrames DEF Finish, Free
  <2>3. Same(c) /\ main = "on" /\ UNCHANGED conn
    BY <1>1 DEF Same, Finish, Free
  <2>4. QED
    BY <2>2, <2>3, FramesAreTrue
<1>2. CASE CloseHost
  <2>1. OpensOnce(c)' /\ (TaskComes(c)' => TaskComes(c))
    BY <1>2 DEF CloseHost, Truth, OpensOnce, OpenAt, TaskComes, Holds
  <2>2. Same(c) /\ main' # "on" /\ conn' # "up"
    BY <1>2 DEF Same, CloseHost
  <2>3. QED
    BY <2>1, <2>2, FramesAreTrue
<1>3. CASE Drop
  <2>1. \A i \in DOMAIN down' : i \in DOMAIN down /\ down'[i] = down[i]
    <3>1. PICK n \in 0..Len(down) : down' = SubSeq(down, 1, n)
      BY <1>3 DEF Drop
    <3>2. QED
      BY <3>1 DEF TypeOK
  <2>2. TaskComes(c)' => TaskComes(c)
    BY <1>3, <2>1 DEF Drop, TaskComes
  <2>3. OpensOnce(c)'
    BY <1>3, <2>1, <2>2 DEF Drop, Truth, OpensOnce, OpenAt, Holds
  <2>4. Same(c) /\ main' = main /\ conn' # "up"
    BY <1>3 DEF Same, Drop
  <2>5. QED
    BY <2>2, <2>3, <2>4, FramesAreTrue
<1>4. CASE ReaderEnds
  <2> DEFINE in == inbox[c]
             m == Message("CLOSED", Nil)
  <2>1. in \in Seq(Upward) /\ m \in Upward /\ m.tag = "CLOSED"
    BY PartsTyped, MessagesAre DEF Message
  <2>2. inbox'[c] = in \/ inbox'[c] = Append(in, m)
    BY <1>4 DEF ReaderEnds
  <2> HIDE DEF m
  <2>3. \A i \in DOMAIN inbox'[c] : (i \in DOMAIN in /\ inbox'[c][i] = in[i])
                                  \/ inbox'[c][i].tag = "CLOSED"
    <3>1. CASE inbox'[c] = Append(in, m)
      BY <2>1, <3>1
    <3>2. QED
      BY <2>2, <3>1
  <2>4. \A i \in DOMAIN in : i \in DOMAIN inbox'[c] /\ inbox'[c][i] = in[i]
    BY <2>1, <2>2
  <2>5. DOMAIN in = 1..Len(in)
    BY <2>1
  <2> HIDE DEF in
  <2>6. /\ conn' # "up" /\ UNCHANGED <<mainVars, down, hostVars>>
    BY <1>4 DEF ReaderEnds
  <2>7. TaskComes(c)' <=> TaskComes(c)
    BY <2>6 DEF TaskComes
  <2>8. OpensOnce(c)' /\ Word(c)'
    BY <2>6, <2>7 DEF Truth, OpensOnce, OpenAt, Holds, Word
  <2>9. OnItsWay(c)'
    BY <2>3, <2>6 DEF Truth, OnItsWay, in
  <2>10. EndsLast(c)'
    <3>1. ASSUME NEW i \in DOMAIN inbox'[c], inbox'[c][i].tag = "EXIT"
          PROVE  /\ worker[c].pc = "reaped"
                 /\ IsTold(c) => \/ handle[c].result # None
                                 \/ \E j \in 1..(i - 1) : inbox'[c][j].tag = "RESULT"
      <4>1. i \in DOMAIN in /\ in[i].tag = "EXIT"
        BY <2>3, <3>1
      <4>2. 1..(i - 1) \subseteq DOMAIN in
        BY <2>1, <2>5, <4>1
      <4>3. QED
        BY <2>4, <4>1, <4>2 DEF Truth, EndsLast, in
    <3>2. QED
      BY <2>6, <3>1 DEF Truth, EndsLast, Holds, IsTold
  <2>11. ResultIsSaid(c)' /\ IsCollected(c)'
    BY <2>6, <2>7 DEF Truth, ResultIsSaid, IsCollected, Taskless, Holds
  <2>12. QED
    BY <2>8, <2>9, <2>10, <2>11 DEF Truth
<1>5. QED
  BY <1>1, <1>2, <1>3, <1>4

\* The host process ends a worker, or not: its word is none, or as it was.
LEMMA KilledIsTrue ==
  ASSUME TypeOK, NEW c \in Chan, Truth(c),
         worker'[c] = worker[c] \/ (Running(c) /\ worker'[c] = Ended(c)[c]),
         UNCHANGED <<mainVars, conn, inbox, stdin, stdout>>,
         \A i \in DOMAIN down' : \E j \in DOMAIN down : down'[i] = down[j],
         \A i, j \in DOMAIN down' : OpenAt(down', i, c) /\ OpenAt(down', j, c) => i = j
  PROVE  Truth(c)'
<1> USE DEF mainVars
<1>1. CASE worker'[c] = worker[c]
  <2>1. TaskComes(c)' => TaskComes(c)
    BY DEF TaskComes
  <2>2. OpensOnce(c)'
    BY <1>1, <2>1 DEF Truth, OpensOnce, OpenAt
  <2>3. Same(c)
    BY <1>1 DEF Same
  <2>4. QED
    BY <2>1, <2>2, <2>3, FramesAreTrue
<1>2. CASE Running(c) /\ worker'[c] = Ended(c)[c]
  <2>1. /\ worker'[c].pc = "ended" /\ worker'[c].todo = <<>>
        /\ worker'[c].said = worker[c].said /\ worker'[c].printed = worker[c].printed
    BY <1>2 DEF Ended, TypeOK, Workers
  <2>2. worker[c].pc \notin {"none", "reaped"}
    BY <1>2 DEF Running
  <2>3. TaskComes(c)' => TaskComes(c)
    BY DEF TaskComes
  <2>4. OpensOnce(c)'
    BY <2>2, <2>3 DEF Truth, OpensOnce, OpenAt
  <2>5. Word(c)'
    BY <2>1 DEF Word
  <2>6. Taskless(c) => Taskless(c)'
    BY <2>1, <2>3 DEF Taskless, Holds
  <2>7. QED
    BY <2>1, <2>2, <2>4, <2>5, <2>6, UndisturbedIsTrue
<1>3. QED
  BY <1>1, <1>2

\* The frame the host process takes is the first.
LEMMA TakesIs ==
  ASSUME TypeOK, NEW tag, Takes(tag)
  PROVE  LET f == Head(down)
         IN  /\ f \in Frames /\ f.c \in Chan /\ f.m \in Downward /\ f.tag = tag
             /\ 1 \in DOMAIN down /\ f = down[1]
             /\ \A i \in DOMAIN down' : /\ i + 1 \in DOMAIN down /\ i + 1 # 1
                                      /\ down'[i] = down[i + 1] /\ i \in Nat
             /\ UNCHANGED <<mainVars, conn, inbox, disk, direct>>
<1>1. down \in Seq(Frames) /\ down # <<>> /\ down' = Tail(down)
  BY DEF Takes, TypeOK
<1>2. Head(down) \in Frames /\ 1 \in DOMAIN down /\ Head(down) = down[1]
  BY <1>1
<1>3. \A i \in DOMAIN down' : /\ i + 1 \in DOMAIN down /\ i + 1 # 1
                            /\ down'[i] = down[i + 1] /\ i \in Nat
  BY <1>1
<1>4. QED
  BY <1>2, <1>3, MessageIs DEF Takes

LEMMA HostLoopIsTrue ==
  ASSUME TypeOK, NEW c \in Chan, Truth(c), HostLoop
  PROVE  Truth(c)'
<1> DEFINE f == Head(down)
<1>1. ASSUME NEW tag, Takes(tag)
      PROVE  /\ \A i \in DOMAIN down' : \E j \in DOMAIN down : down'[i] = down[j]
             /\ \A i, j \in DOMAIN down' : OpenAt(down', i, c) /\ OpenAt(down', j, c) => i = j
             /\ TaskComes(c)' => TaskComes(c)
  <2>1. \A i \in DOMAIN down' : i + 1 \in DOMAIN down /\ down'[i] = down[i + 1] /\ i \in Nat
    BY <1>1, TakesIs
  <2>2. ASSUME NEW i \in DOMAIN down', NEW j \in DOMAIN down', OpenAt(down', i, c), OpenAt(down', j, c)
        PROVE  i = j
    <3>1. i + 1 = j + 1
      BY <2>1, <2>2 DEF Truth, OpensOnce, OpenAt
    <3>2. QED
      BY <2>1, <3>1
  <2>3. UNCHANGED sched
    BY <1>1 DEF Takes, mainVars
  <2>4. QED
    BY <2>1, <2>2, <2>3 DEF TaskComes
<1>2. CASE HostOpens
  <2>1. /\ Takes("OPEN") /\ worker' = [worker EXCEPT ![f.c].pc = "starting"]
        /\ UNCHANGED <<stdin, stdout>>
    BY <1>2 DEF HostOpens
  <2>2. /\ f.c \in Chan /\ f.tag = "OPEN" /\ 1 \in DOMAIN down /\ f = down[1]
        /\ UNCHANGED <<mainVars, conn, inbox>>
        /\ \A i \in DOMAIN down' : i + 1 \in DOMAIN down /\ i + 1 # 1 /\ down'[i] = down[i + 1]
    BY <2>1, TakesIs
  <2>3. CASE f.c = c
    <3>1. /\ worker'[c].pc = "starting" /\ worker'[c].todo = worker[c].todo
          /\ worker'[c].said = worker[c].said /\ worker'[c].printed = worker[c].printed
      BY <2>1, <2>3 DEF TypeOK, Workers
    <3> HIDE DEF f
    <3>2. OpenAt(down, 1, c)
      BY <2>2, <2>3 DEF OpenAt
    <3>3. worker[c].pc = "none" /\ handle[c].st # "none"
      BY <2>2, <3>2 DEF Truth, OpensOnce
    <3>4. \A i \in DOMAIN down' : ~OpenAt(down', i, c)
      BY <2>2, <3>2 DEF Truth, OpensOnce, OpenAt
    <3>5. \A i \in DOMAIN sched : ~OpenAt(sched, i, c)
      BY <2>2, <3>2 DEF Truth, OpensOnce
    <3>6. OpensOnce(c)'
      BY <2>2, <3>3, <3>4, <3>5 DEF Truth, OpensOnce, OpenAt, mainVars
    <3>7. Word(c)'
      BY <3>1, <3>3 DEF Truth, Word
    <3>8. Taskless(c) => Taskless(c)'
      BY <1>1, <2>1, <2>2, <3>1 DEF Taskless, Holds, mainVars
    <3>9. QED
      BY <2>1, <2>2, <3>1, <3>3, <3>6, <3>7, <3>8, UndisturbedIsTrue DEF mainVars
  <2>4. CASE f.c # c
    <3>1. worker'[c] = worker[c]
      BY <2>1, <2>4 DEF TypeOK
    <3>2. QED
      BY <1>1, <2>1, <2>2, <3>1, KilledIsTrue
  <2>5. QED
    BY <2>3, <2>4
<1>3. CASE HostWrites
  <2>1. /\ Takes("DATA") /\ UNCHANGED <<stdout, worker>>
        /\ UNCHANGED stdin \/ stdin' = [stdin EXCEPT ![f.c] = Append(@, f.m)]
    BY <1>3 DEF HostWrites
  <2>2. /\ f.c \in Chan /\ f.m \in Downward /\ 1 \in DOMAIN down /\ f = down[1]
        /\ UNCHANGED <<mainVars, conn, inbox>>
    BY <2>1, TakesIs
  <2> DEFINE s == stdin[c]
  <2>3. stdin'[c] = s \/ (f.c = c /\ stdin'[c] = Append(s, f.m))
    BY <2>1 DEF TypeOK
  <2>4. s \in Seq(Downward)
    BY PartsTyped
  <2> HIDE DEF f, s
  <2>5. \A i \in DOMAIN stdin'[c] : \/ i \in DOMAIN s /\ stdin'[c][i] = s[i]
                                    \/ f.c = c /\ stdin'[c][i] = f.m
    <3>1. CASE stdin'[c] = Append(s, f.m) /\ f.c = c
      BY <2>2, <2>4, <3>1
    <3>2. QED
      BY <2>3, <3>1
  <2>6. Holds(stdin'[c], "TASK") => Holds(s, "TASK") \/ TaskComes(c)
    BY <2>2, <2>5 DEF Holds, TaskComes
  <2>7. OpensOnce(c)'
    BY <1>1, <2>1, <2>2, <2>6 DEF Truth, OpensOnce, OpenAt, Holds, mainVars, s
  <2>8. Word(c)'
    BY <2>1 DEF Truth, Word
  <2>9. Taskless(c) => Taskless(c)'
    BY <1>1, <2>1, <2>2, <2>6 DEF Taskless, Holds, mainVars, s
  <2>10. QED
    BY <2>1, <2>2, <2>7, <2>8, <2>9, UndisturbedIsTrue DEF mainVars
<1>4. CASE HostCloses
  <2>1. /\ Takes("CLOSE") /\ UNCHANGED <<stdin, stdout>>
        /\ UNCHANGED worker \/ worker' = [worker EXCEPT ![f.c].eof = TRUE]
    BY <1>4 DEF HostCloses
  <2>2. UNCHANGED <<mainVars, conn, inbox>>
    BY <2>1, TakesIs
  <2>3. /\ worker'[c].pc = worker[c].pc /\ worker'[c].todo = worker[c].todo
        /\ worker'[c].said = worker[c].said /\ worker'[c].printed = worker[c].printed
    <3>1. CASE UNCHANGED worker
      BY <3>1
    <3>2. CASE worker' = [worker EXCEPT ![f.c].eof = TRUE]
      <4> HIDE DEF f
      <4>1. QED
        BY <3>2 DEF TypeOK, Workers
    <3>3. QED
      BY <2>1, <3>1, <3>2
  <2>4. OpensOnce(c)'
    BY <1>1, <2>1, <2>2, <2>3 DEF Truth, OpensOnce, OpenAt, Holds, mainVars
  <2>5. Same(c)
    BY <2>1, <2>2, <2>3 DEF Same, mainVars
  <2>6. QED
    BY <1>1, <2>1, <2>2, <2>4, <2>5, FramesAreTrue DEF mainVars
<1>5. CASE HostKills
  <2>1. /\ Takes("KILL") /\ UNCHANGED <<stdin, stdout>>
        /\ worker' = worker \/ (Running(f.c) /\ worker' = Ended(f.c))
    BY <1>5 DEF HostKills
  <2>2. UNCHANGED <<mainVars, conn, inbox>> /\ f.c \in Chan
    BY <2>1, TakesIs
  <2>3. worker'[c] = worker[c] \/ (Running(c) /\ worker'[c] = Ended(c)[c])
    <3>1. CASE f.c # c
      BY <2>1, <2>2, <3>1 DEF Ended, TypeOK
    <3>2. CASE f.c = c
      BY <2>1, <3>2
    <3>3. QED
      BY <3>1, <3>2
  <2>4. QED
    BY <1>1, <2>1, <2>2, <2>3, KilledIsTrue
<1>6. CASE HostEnds
  <2>1. UNCHANGED <<mainVars, wires, stdin, stdout>>
    BY <1>6 DEF HostEnds
  <2>2. worker'[c] = worker[c] \/ (Running(c) /\ worker'[c] = Ended(c)[c])
    BY <1>6 DEF HostEnds
  <2>3. \A i, j \in DOMAIN down' : OpenAt(down', i, c) /\ OpenAt(down', j, c) => i = j
    BY <2>1 DEF Truth, OpensOnce, OpenAt, wires
  <2>4. QED
    BY <2>1, <2>2, <2>3, KilledIsTrue DEF wires
<1>7. QED
  BY <1>2, <1>3, <1>4, <1>5, <1>6 DEF HostLoop

\* What a forwarder read is queued last, if the task can still be told.
LEMMA QueuedIs ==
  ASSUME TypeOK, NEW c \in Chan, NEW m \in Upward, Queued(c, m)
  PROVE  /\ \A e \in Chan : e # c => inbox'[e] = inbox[e]
         /\ \A i \in DOMAIN inbox'[c] : \/ i \in DOMAIN inbox[c] /\ inbox'[c][i] = inbox[c][i]
                                        \/ i = Len(inbox[c]) + 1 /\ inbox'[c][i] = m
         /\ \A i \in DOMAIN inbox[c] : i \in DOMAIN inbox'[c] /\ inbox'[c][i] = inbox[c][i]
         /\ DOMAIN inbox[c] = 1..Len(inbox[c]) /\ Len(inbox[c]) \in Nat
         /\ conn = "up" /\ handle[c].st = "open" =>
              \E i \in DOMAIN inbox'[c] : inbox'[c][i] = m
<1> DEFINE in == inbox[c]
           up == conn = "up" /\ handle[c].st = "open"
<1>1. in \in Seq(Upward)
  BY PartsTyped
<1>2. \A e \in Chan : e # c => inbox'[e] = inbox[e]
  BY DEF Queued, TypeOK
<1>3. inbox'[c] = IF up THEN Append(in, m) ELSE in
  BY DEF Queued, TypeOK
<1> HIDE DEF in, up
<1>4. CASE up
  <2>1. inbox'[c] = Append(in, m)
    BY <1>3, <1>4
  <2>2. /\ DOMAIN inbox'[c] = 1..(Len(in) + 1) /\ inbox'[c][Len(in) + 1] = m
        /\ DOMAIN in = 1..Len(in) /\ Len(in) \in Nat
        /\ \A i \in 1..Len(in) : inbox'[c][i] = in[i]
    BY <1>1, <2>1
  <2>3. QED
    BY <1>2, <2>2 DEF in
<1>5. CASE ~up
  BY <1>1, <1>2, <1>3, <1>5 DEF in, up
<1>6. QED
  BY <1>4, <1>5

\* What is queued after the rest leaves an exit after what came before it.
LEMMA ForwardIsTrue ==
  ASSUME TypeOK, NEW c \in Chan, Truth(c), Forward(c)
  PROVE  Truth(c)'
<1> DEFINE out == stdout[c]
           m == Head(out)
           in == inbox[c]
<1>1. out \in Seq(Upward) /\ out # <<>> /\ stdout'[c] = Tail(out) /\ Queued(c, m)
      /\ UNCHANGED <<mainVars, conn, down, hostp, stdin, worker, disk, direct>>
  BY PartsTyped DEF Forward, TypeOK
<1>2. m \in Upward /\ m = out[1] /\ 1 \in DOMAIN out
  BY <1>1
<1>3. \A i \in DOMAIN stdout'[c] : i + 1 \in DOMAIN out /\ stdout'[c][i] = out[i + 1]
  BY <1>1
<1>4. \A i \in DOMAIN out : i = 1 \/ \E j \in DOMAIN stdout'[c] : stdout'[c][j] = out[i]
  <2> DEFINE rest == Tail(out)
  <2>1. DOMAIN rest = 1..(Len(out) - 1) /\ DOMAIN out = 1..Len(out) /\ Len(out) \in Nat
        /\ \A i \in 1..(Len(out) - 1) : rest[i] = out[i + 1]
    BY <1>1
  <2> HIDE DEF rest, out
  <2>2. ASSUME NEW i \in DOMAIN out, i # 1
        PROVE  \E j \in DOMAIN rest : rest[j] = out[i]
    <3>1. i - 1 \in 1..(Len(out) - 1) /\ (i - 1) + 1 = i
      BY <2>1, <2>2
    <3>2. QED
      BY <2>1, <3>1
  <2>3. QED
    BY <1>1, <2>2 DEF rest
<1> HIDE DEF m, out
<1>5. /\ \A i \in DOMAIN inbox'[c] : \/ i \in DOMAIN in /\ inbox'[c][i] = in[i]
                                     \/ i = Len(in) + 1 /\ inbox'[c][i] = m
      /\ \A i \in DOMAIN in : i \in DOMAIN inbox'[c] /\ inbox'[c][i] = in[i]
      /\ DOMAIN in = 1..Len(in) /\ Len(in) \in Nat
      /\ conn = "up" /\ handle[c].st = "open" => \E i \in DOMAIN inbox'[c] : inbox'[c][i] = m
  BY <1>1, <1>2, QueuedIs
<1> HIDE DEF in
<1>6. m.tag # "EXIT"
  BY <1>2 DEF Truth, EndsLast, Holds, out
<1>7. TaskComes(c)' <=> TaskComes(c)
  BY <1>1 DEF TaskComes, mainVars
<1>8. OpensOnce(c)' /\ Word(c)' /\ ResultIsSaid(c)' /\ IsCollected(c)'
  <2>1. OpensOnce(c)'
    BY <1>1, <1>7 DEF Truth, OpensOnce, OpenAt, Holds, mainVars
  <2>2. Word(c)' /\ IsCollected(c)'
    BY <1>1 DEF Truth, Word, IsCollected, mainVars
  <2>3. Taskless(c) => Taskless(c)'
    BY <1>1, <1>7 DEF Taskless, Holds, mainVars
  <2>4. ResultIsSaid(c)'
    BY <1>1, <2>3 DEF Truth, ResultIsSaid, mainVars
  <2>5. QED
    BY <2>1, <2>2, <2>4
<1>9. OnItsWay(c)'
  <2>1. /\ m.tag = "RESULT" => worker[c].said # None /\ m.v = worker[c].said
        /\ m.tag = "PRINT" => worker[c].printed
    BY <1>2 DEF Truth, OnItsWay, out
  <2>2. ASSUME NEW i \in DOMAIN inbox'[c]
        PROVE  /\ inbox'[c][i].tag = "RESULT" =>
                    worker[c].said # None /\ inbox'[c][i].v = worker[c].said
               /\ inbox'[c][i].tag = "PRINT" => worker[c].printed
    BY <1>5, <2>1 DEF Truth, OnItsWay, in
  <2>3. ASSUME NEW i \in DOMAIN stdout'[c]
        PROVE  /\ stdout'[c][i].tag = "RESULT" =>
                    worker[c].said # None /\ stdout'[c][i].v = worker[c].said
               /\ stdout'[c][i].tag = "PRINT" => worker[c].printed
    BY <1>3 DEF Truth, OnItsWay, out
  <2>4. UNCHANGED worker
    BY <1>1
  <2>5. QED
    BY <2>2, <2>3, <2>4 DEF OnItsWay
<1>10. EndsLast(c)'
  <2>1. ~Holds(stdout'[c], "EXIT")
    BY <1>3 DEF Truth, EndsLast, Holds, out
  <2>2. ASSUME NEW i \in DOMAIN inbox'[c], inbox'[c][i].tag = "EXIT"
        PROVE  /\ worker[c].pc = "reaped"
               /\ IsTold(c) => \/ handle[c].result # None
                               \/ \E j \in 1..(i - 1) : inbox'[c][j].tag = "RESULT"
    <3>1. i \in DOMAIN in /\ in[i].tag = "EXIT"
      BY <1>5, <1>6, <2>2
    <3>2. 1..(i - 1) \subseteq DOMAIN in
      BY <1>5, <3>1
    <3>3. QED
      BY <1>5, <3>1, <3>2 DEF Truth, EndsLast, in
  <2>3. ASSUME IsTold(c), conn = "up", handle[c].st = "open"
        PROVE  handle[c].result # None \/ Holds(inbox'[c], "RESULT") \/ Holds(stdout'[c], "RESULT")
    <3>1. handle[c].result # None \/ Holds(in, "RESULT") \/ Holds(out, "RESULT")
      BY <2>3 DEF Truth, EndsLast, in, out
    <3>2. Holds(in, "RESULT") => Holds(inbox'[c], "RESULT")
      BY <1>5 DEF Holds
    <3>3. Holds(out, "RESULT") => m.tag = "RESULT" \/ Holds(stdout'[c], "RESULT")
      BY <1>2, <1>4 DEF Holds
    <3>4. m.tag = "RESULT" => Holds(inbox'[c], "RESULT")
      BY <1>5, <2>3 DEF Holds
    <3>5. QED
      BY <3>1, <3>2, <3>3, <3>4
  <2>4. IsTold(c)' <=> IsTold(c)
    BY <1>1 DEF IsTold, mainVars
  <2>5. QED
    BY <1>1, <2>1, <2>2, <2>3, <2>4 DEF Truth, EndsLast, mainVars
<1>11. QED
  BY <1>8, <1>9, <1>10 DEF Truth

LEMMA ForwardExitIsTrue ==
  ASSUME TypeOK, NEW c \in Chan, Truth(c), ForwardExit(c)
  PROVE  Truth(c)'
<1> DEFINE in == inbox[c]
           m == Message("EXIT", Nil)
<1>1. /\ stdout[c] = <<>> /\ worker[c].pc = "ended" /\ Queued(c, m)
      /\ UNCHANGED <<mainVars, conn, down, hostp, stdin, stdout, disk, direct>>
  BY DEF ForwardExit
<1>2. /\ worker'[c].pc = "reaped" /\ worker'[c].todo = worker[c].todo
      /\ worker'[c].said = worker[c].said /\ worker'[c].printed = worker[c].printed
  BY DEF ForwardExit, TypeOK, Workers
<1>3. m \in Upward /\ m.tag = "EXIT"
  BY MessagesAre DEF Message
<1> HIDE DEF m
<1>4. /\ \A i \in DOMAIN inbox'[c] : \/ i \in DOMAIN in /\ inbox'[c][i] = in[i]
                                     \/ i = Len(in) + 1 /\ inbox'[c][i] = m
      /\ \A i \in DOMAIN in : i \in DOMAIN inbox'[c] /\ inbox'[c][i] = in[i]
      /\ DOMAIN in = 1..Len(in) /\ Len(in) \in Nat
  BY <1>1, <1>3, QueuedIs
<1> HIDE DEF in
<1>5. TaskComes(c)' <=> TaskComes(c)
  BY <1>1 DEF TaskComes, mainVars
<1>6. OpensOnce(c)'
  BY <1>1, <1>5 DEF Truth, OpensOnce, OpenAt, Holds, mainVars
<1>7. Word(c)' /\ IsCollected(c)'
  BY <1>1, <1>2 DEF Truth, Word, IsCollected, mainVars
<1>8. OnItsWay(c)'
  BY <1>1, <1>2, <1>3, <1>4 DEF Truth, OnItsWay, in
<1>9. EndsLast(c)'
  <2>1. \A i \in DOMAIN inbox[c] : inbox[c][i].tag # "EXIT"
    BY <1>1 DEF Truth, EndsLast
  <2>2. handle[c].exit # "EXIT" /\ ~Holds(stdout[c], "EXIT") /\ ~Holds(stdout[c], "RESULT")
    BY <1>1 DEF Truth, EndsLast, Holds
  <2>3. ASSUME NEW i \in DOMAIN inbox'[c], inbox'[c][i].tag = "EXIT", IsTold(c)
        PROVE  \/ handle[c].result # None
               \/ \E j \in 1..(i - 1) : inbox'[c][j].tag = "RESULT"
    <3>1. i = Len(in) + 1 /\ i \notin DOMAIN in
      BY <1>4, <2>1, <2>3 DEF in
    <3>2. conn = "up" /\ handle[c].st = "open"
      <4>1. inbox'[c] # inbox[c]
        BY <2>3, <3>1 DEF in
      <4>2. QED
        BY <1>1, <4>1 DEF Queued
    <3>3. handle[c].result # None \/ Holds(in, "RESULT")
      BY <2>2, <2>3, <3>2 DEF Truth, EndsLast, in
    <3>4. (i - 1) = Len(in)
      BY <1>4, <3>1
    <3>5. QED
      BY <1>4, <3>3, <3>4 DEF Holds
  <2>4. Holds(in, "RESULT") => Holds(inbox'[c], "RESULT")
    BY <1>4 DEF Holds
  <2>5. IsTold(c)' <=> IsTold(c)
    BY <1>1, <1>2 DEF IsTold, mainVars
  <2>6. QED
    BY <1>1, <1>2, <2>2, <2>3, <2>4, <2>5 DEF Truth, EndsLast, mainVars, in
<1>10. ResultIsSaid(c)'
  <2>1. Taskless(c) => Taskless(c)'
    BY <1>1, <1>2, <1>5 DEF Taskless, Holds, mainVars
  <2>2. QED
    BY <1>1, <1>2, <2>1 DEF Truth, ResultIsSaid, mainVars
<1>11. QED
  BY <1>6, <1>7, <1>8, <1>9, <1>10 DEF Truth

LEMMA ForwardedIsTrue ==
  ASSUME TypeOK, NEW c \in Chan, Truth(c), NEW d \in Chan, Forward(d) \/ ForwardExit(d)
  PROVE  Truth(c)'
<1>1. CASE c = d
  BY <1>1, ForwardIsTrue, ForwardExitIsTrue
<1>2. CASE c # d
  <2>1. /\ stdout'[c] = stdout[c] /\ worker'[c] = worker[c]
        /\ UNCHANGED <<mainVars, conn, down, hostp, stdin, disk, direct>>
    BY <1>2 DEF Forward, ForwardExit, TypeOK
  <2>2. inbox'[c] = inbox[c]
    BY <1>2 DEF Forward, ForwardExit, Queued, TypeOK
  <2>3. QED
    BY <2>1, <2>2, SameIsTrue DEF Same, mainVars
<1>3. QED
  BY <1>1, <1>2

LEMMA InitIsTrue ==
  ASSUME Init, NEW c \in Chan
  PROVE  Truth(c)
<1> USE DEF Init
<1>1. OpensOnce(c)
  BY DEF OpensOnce, OpenAt, TaskComes, Holds
<1>2. Word(c) /\ OnItsWay(c) /\ ResultIsSaid(c) /\ IsCollected(c)
  BY DEF Word, OnItsWay, ResultIsSaid, IsCollected, None, Nil
<1>3. EndsLast(c)
  BY DEF EndsLast, Holds, IsTold
<1>4. QED
  BY <1>1, <1>2, <1>3 DEF Truth

LEMMA StepIsTrue ==
  ASSUME TypeOK, TypeOK', \A e \in Chan : Truth(e), [Next]_vars, NEW c \in Chan
  PROVE  Truth(c)'
<1>1. ASSUME NEW d \in Chan,
             \/ Start(d) \/ StartRefused(d) \/ Feed(d) \/ Calls(d) \/ Collect(d) \/ Expire(d)
             \/ PoolWrites(d) \/ Forward(d) \/ ForwardExit(d)
      PROVE  Truth(c)'
  BY <1>1, StartIsTrue, FeedIsTrue, CallsAreTrue, EndsAreTrue, WritesDownIsTrue, ForwardedIsTrue
<1>2. ASSUME NEW d \in Chan, Worker(d) \/ PrintsOut(d) \/ Crashes(d) \/ Hangs(d)
      PROVE  Truth(c)'
  BY <1>2, WorkerIsTrue
<1>3. CASE Finish \/ CloseHost \/ Drop \/ ReaderEnds \/ SchedWrites \/ HostLoop
  BY <1>3, ClosingIsTrue, WritesDownIsTrue, HostLoopIsTrue
<1>4. CASE Clear \/ UNCHANGED vars
  BY <1>4, SameIsTrue DEF Clear, Same, vars, mainVars, wires, hostVars
<1>5. QED
  BY <1>1, <1>2, <1>3, <1>4 DEF Next

\* What the scheduler takes the end of a task to be is what its worker said,
\* for any tasks, graph and bounds, whatever crashes, kills, drops of the
\* connection and deadlines come between: a value is the value the worker
\* returned; a failure is one unless the function printed; and an exit is
\* reported of no worker that had said how its task ended.  That a worker's
\* end is queued after all it wrote (EndsLast) and a channel opened once
\* (OpensOnce) make it so.
THEOREM OutcomeHolds == Spec => []OutcomeIsTrue
<1> DEFINE Inv == \A c \in Chan : Truth(c)
<1>1. Init => Inv
  BY InitIsTrue
<1>2. TypeOK /\ TypeOK' /\ Inv /\ [Next]_vars => Inv'
  BY StepIsTrue
<1>3. TypeOK /\ Inv => OutcomeIsTrue
  BY DEF Truth, ResultIsSaid, IsCollected, Taskless, OutcomeIsTrue, None, Nil
<1>4. Spec => []TypeOK
  BY ChannelTyping
<1> HIDE DEF Inv
<1>5. QED
  BY <1>1, <1>2, <1>3, <1>4, PTL DEF Spec

-----------------------------------------------------------------------------
(* What a side says is made of what the other has                          *)

\* The objects among the first messages of a stream, and among all of them.
Before(s, n) == {s[j].v : j \in {k \in 1..n : s[k].tag = "OBJECT"}}
Brought(s)   == Before(s, Len(s))

\* A value that a message names is made of what is had, and of what came
\* before it, itself included.
Names(m) == m.tag \in {"OBJECT", "RECORD", "RESULT", "CALL", "TASK", "REPLY"} /\ m.v # Nil

Carries(s, had) ==
  \A i \in DOMAIN s : Names(s[i]) => Closure(s[i].v) \subseteq had \cup Before(s, i)

\* Of one stream after another.
LEMMA BeforeCat ==
  ASSUME NEW S, NEW s \in Seq(S), NEW t \in Seq(S)
  PROVE  /\ \A i \in 1..Len(s) : (s \o t)[i] = s[i] /\ Before(s \o t, i) = Before(s, i)
         /\ \A i \in 1..Len(t) : /\ (s \o t)[Len(s) + i] = t[i]
                                 /\ Before(s \o t, Len(s) + i) = Brought(s) \cup Before(t, i)
         /\ Brought(s \o t) = Brought(s) \cup Brought(t)
         /\ Len(s \o t) = Len(s) + Len(t)
<1> DEFINE u == s \o t
           n == Len(s)
<1>1. /\ n \in Nat /\ Len(t) \in Nat /\ Len(u) = n + Len(t)
      /\ \A i \in 1..n : u[i] = s[i]
      /\ \A i \in 1..Len(t) : u[n + i] = t[i]
  OBVIOUS
<1> HIDE DEF u
<1>2. ASSUME NEW i \in 0..n
      PROVE  Before(u, i) = Before(s, i)
  <2>1. \A k \in 1..i : u[k] = s[k]
    BY <1>1
  <2> HIDE DEF n
  <2>2. QED
    BY <2>1 DEF Before
<1>3. ASSUME NEW i \in 0..Len(t)
      PROVE  Before(u, n + i) = Brought(s) \cup Before(t, i)
  <2>1. ASSUME NEW k \in 1..(n + i)
        PROVE  (k \in 1..n /\ u[k] = s[k]) \/ (k - n \in 1..i /\ u[k] = t[k - n])
    <3>1. CASE k <= n
      BY <1>1, <3>1
    <3>2. CASE k > n
      <4>1. k - n \in 1..i /\ k - n \in 1..Len(t) /\ n + (k - n) = k
        BY <1>1, <3>2
      <4>2. QED
        BY <1>1, <4>1
    <3>3. QED
      BY <1>1, <3>1, <3>2
  <2>2. \A k \in 1..n : k \in 1..(n + i) /\ u[k] = s[k]
    BY <1>1
  <2>3. \A k \in 1..i : n + k \in 1..(n + i) /\ u[n + k] = t[k]
    BY <1>1
  <2> HIDE DEF n
  <2>4. Before(u, n + i) \subseteq Before(s, n) \cup Before(t, i)
    BY <2>1 DEF Before
  <2>5. Before(s, n) \subseteq Before(u, n + i)
    BY <2>2 DEF Before
  <2>6. Before(t, i) \subseteq Before(u, n + i)
    BY <2>3 DEF Before
  <2>7. QED
    BY <2>4, <2>5, <2>6 DEF Brought, n
<1>4. Brought(u) = Brought(s) \cup Brought(t)
  <2>1. Len(t) \in 0..Len(t)
    BY <1>1
  <2>2. Before(u, n + Len(t)) = Brought(s) \cup Before(t, Len(t))
    BY <1>3, <2>1
  <2>3. QED
    BY <1>1, <2>2 DEF Brought
<1>5. \A i \in 1..n : i \in 0..n
  BY <1>1
<1>6. \A i \in 1..Len(t) : i \in 0..Len(t)
  BY <1>1
<1>7. QED
  BY <1>1, <1>2, <1>3, <1>4, <1>5, <1>6 DEF u

LEMMA CarriesCat ==
  ASSUME NEW S, NEW s \in Seq(S), NEW t \in Seq(S), NEW had
  PROVE  Carries(s \o t, had) <=> Carries(s, had) /\ Carries(t, had \cup Brought(s))
<1> DEFINE u == s \o t
           n == Len(s)
<1>1. /\ \A i \in 1..n : u[i] = s[i] /\ Before(u, i) = Before(s, i)
      /\ \A i \in 1..Len(t) : u[n + i] = t[i] /\ Before(u, n + i) = Brought(s) \cup Before(t, i)
      /\ Len(u) = n + Len(t)
  BY BeforeCat
<1>2. /\ DOMAIN s = 1..n /\ DOMAIN t = 1..Len(t) /\ n \in Nat /\ Len(t) \in Nat
      /\ DOMAIN u = 1..Len(u)
  OBVIOUS
<1> HIDE DEF u, n
<1>3. ASSUME Carries(u, had)
      PROVE  Carries(s, had)
  <2>1. \A i \in 1..n : i \in DOMAIN u
    BY <1>1, <1>2
  <2>2. QED
    BY <1>1, <1>2, <1>3, <2>1 DEF Carries
<1>4. ASSUME Carries(u, had)
      PROVE  Carries(t, had \cup Brought(s))
  <2>1. \A i \in 1..Len(t) : n + i \in DOMAIN u
    BY <1>1, <1>2
  <2>2. QED
    BY <1>1, <1>2, <1>4, <2>1 DEF Carries
<1>5. ASSUME Carries(s, had), Carries(t, had \cup Brought(s))
      PROVE  Carries(u, had)
  <2> SUFFICES ASSUME NEW i \in DOMAIN u, Names(u[i])
               PROVE  Closure(u[i].v) \subseteq had \cup Before(u, i)
    BY DEF Carries
  <2>1. CASE i <= n
    <3>1. i \in 1..n
      BY <1>1, <1>2, <2>1
    <3>2. QED
      BY <1>1, <1>2, <1>5, <3>1 DEF Carries
  <2>2. CASE i > n
    <3>1. i - n \in 1..Len(t) /\ n + (i - n) = i
      BY <1>1, <1>2, <2>2
    <3>2. u[i] = t[i - n] /\ Before(u, i) = Brought(s) \cup Before(t, i - n)
      BY <1>1, <3>1
    <3>3. QED
      BY <1>2, <1>5, <3>1, <3>2 DEF Carries
  <2>3. QED
    BY <1>1, <1>2, <2>1, <2>2
<1>6. QED
  BY <1>3, <1>4, <1>5 DEF u

LEMMA CarriesMore ==
  ASSUME NEW s, NEW had, NEW more, had \subseteq more, Carries(s, had)
  PROVE  Carries(s, more)
BY DEF Carries

LEMMA CarriesOne ==
  ASSUME NEW m
  PROVE  /\ Brought(<<m>>) = IF m.tag = "OBJECT" THEN {m.v} ELSE {}
         /\ \A had : Carries(<<m>>, had)
                       <=> (Names(m) => Closure(m.v) \subseteq had \cup Brought(<<m>>))
<1>1. Len(<<m>>) = 1 /\ <<m>>[1] = m /\ DOMAIN <<m>> = {1}
  OBVIOUS
<1>2. Brought(<<m>>) = Before(<<m>>, 1)
  BY <1>1 DEF Brought
<1>3. Before(<<m>>, 1) = IF m.tag = "OBJECT" THEN {m.v} ELSE {}
  <2>1. 1..1 = {1}
    OBVIOUS
  <2>2. {k \in 1..1 : <<m>>[k].tag = "OBJECT"} = IF m.tag = "OBJECT" THEN {1} ELSE {}
    BY <2>1
  <2>3. QED
    BY <2>2 DEF Before
<1>4. QED
  BY <1>1, <1>2, <1>3 DEF Carries

LEMMA CarriesNone ==
  /\ Brought(<<>>) = {}
  /\ \A had : Carries(<<>>, had)
BY DEF Brought, Before, Carries

\* What is put of a value, to a side that has what the rest of it is made of.
LEMMA CarriesPacked ==
  ASSUME NEW v \in Obj, NEW have, NEW had, \A h \in have \cap Obj : Closure(h) \subseteq had
  PROVE  LET s == Objects(Packed(v, have))
         IN  /\ s \in Seq(Upward) /\ Carries(s, had)
             /\ Brought(s) = Under(v, have)
             /\ \A o \in {v} \cup Under(v, have) : Closure(o) \subseteq had \cup Brought(s)
<1> DEFINE p == Packed(v, have)
           s == Objects(p)
           U == Under(v, have)
<1>1. /\ p \in Seq(Obj) /\ Range(p) = U /\ U \subseteq Obj
      /\ \A i, j \in DOMAIN p : p[j] <= p[i] => j <= i
  BY PackedIs
<1>2. /\ s \in Seq(Upward) /\ Len(s) = Len(p)
      /\ \A i \in DOMAIN s : s[i] = Message("OBJECT", p[i]) /\ p[i] \in Obj
  BY <1>1, ObjectsAre
<1>3. \A i \in DOMAIN s : s[i].tag = "OBJECT" /\ s[i].v = p[i] /\ p[i] \in U
  <2>1. DOMAIN s = DOMAIN p
    BY <1>1, <1>2
  <2>2. \A o : Message("OBJECT", o).tag = "OBJECT" /\ Message("OBJECT", o).v = o
    BY DEF Message
  <2>3. \A i \in DOMAIN p : p[i] \in U
    BY <1>1 DEF Range
  <2> HIDE DEF s, p, U
  <2>4. QED
    BY <1>2, <2>1, <2>2, <2>3
<1>4. \A o \in Obj : Closure(o) \subseteq Under(o, have) \cup had
  BY ClosureSplits
<1>5. DOMAIN s = 1..Len(s) /\ DOMAIN p = 1..Len(s) /\ Len(s) \in Nat
  BY <1>1, <1>2
<1>6. \A o \in U : \E i \in DOMAIN s : p[i] = o
  BY <1>1, <1>5 DEF Range
<1>7. \A o \in U : \A q \in Under(o, have) : q \in U /\ q <= o
  BY UnderProperties
<1>8. U \subseteq Nat
  BY <1>1, KidsAreBelow
<1> HIDE DEF s, p, U
<1>9. Brought(s) = U
  BY <1>3, <1>5, <1>6 DEF Brought, Before
<1>10. ASSUME NEW i \in DOMAIN s
       PROVE  Closure(s[i].v) \subseteq had \cup Before(s, i)
  <2>1. s[i].v = p[i] /\ p[i] \in U
    BY <1>3
  <2>2. ASSUME NEW q \in Under(p[i], have)
        PROVE  q \in Before(s, i)
    <3>1. q \in U /\ q <= p[i]
      BY <1>7, <2>1
    <3>2. PICK j \in DOMAIN s : p[j] = q
      BY <1>6, <3>1
    <3>3. j <= i /\ j \in 1..i
      BY <1>1, <1>5, <3>1, <3>2
    <3>4. s[j].tag = "OBJECT" /\ s[j].v = q
      BY <1>3, <3>2
    <3>5. QED
      BY <3>3, <3>4 DEF Before
  <2>3. QED
    BY <1>1, <1>4, <2>1, <2>2
<1>11. Carries(s, had)
  BY <1>10 DEF Carries
<1>12. ASSUME NEW o \in {v} \cup U
       PROVE  Closure(o) \subseteq had \cup U
  <2>1. o \in Obj /\ Under(o, have) \subseteq U
    BY <1>1, <1>7 DEF U
  <2>2. QED
    BY <1>4, <2>1
<1>13. QED
  BY <1>2, <1>9, <1>11, <1>12 DEF s, p, U

-----------------------------------------------------------------------------
(* The invariant                                                           *)

\* The store holds all that was ever put in it, whatever a call put.
Intact == clears = 0 /\ ~forced

AllStored(objects) == \A o \in objects : Closure(o) \subseteq store

\* What is sent to a worker is in the store, with all it is made of.
IsStored(m, objects) == m.tag = "OBJECT" => Closure(m.v) \subseteq objects

SentIsStored ==
  /\ \A i \in DOMAIN sched : IsStored(sched[i].m, store)
  /\ \A i \in DOMAIN down : IsStored(down[i].m, store)
  /\ \A c \in Chan : /\ \A i \in DOMAIN pool[c] : IsStored(pool[c][i].m, store)
                     /\ \A i \in DOMAIN stdin[c] : IsStored(stdin[c][i], store)

\* The messages of a worker reach a handle.
Live(c) == conn = "up" /\ handle[c].st = "open"

\* What a worker names, the store has by the time the handle hears the name;
\* what the worker has, the store has by the time the handle heard it all.
HeardWhole(c) ==
  /\ Carries(inbox[c], store)
  /\ Live(c) =>
       /\ Carries(ToMain(c), store)
       /\ Running(c) => \A o \in worker[c].objects : Closure(o) \subseteq store \cup Brought(ToMain(c))

AllWhole ==
  /\ verdict = "none" /\ AllStored(records) /\ SentIsStored
  /\ \A c \in Chan : Parses(c) => HeardWhole(c)

\* A task that was not started, and a worker that was not, have no trace.
Fresh(c) ==
  /\ handle[c].st = "none" => handle[c].seen = {} /\ ~handle[c].call /\ inbox[c] = <<>>
  /\ worker[c].pc = "none" => worker[c].objects = {} /\ worker[c].todo = <<>> /\ stdout[c] = <<>>

LEMMA ToMainIs ==
  ASSUME TypeOK, NEW c \in Chan
  PROVE  /\ ToMain(c) \in Seq(Upward) /\ inbox[c] \o stdout[c] \in Seq(Upward)
         /\ ToMain(c) = inbox[c] \o (stdout[c] \o worker[c].todo)
         /\ inbox[c] \in Seq(Upward) /\ stdout[c] \in Seq(Upward) /\ worker[c].todo \in Seq(Upward)
<1>1. inbox[c] \in Seq(Upward) /\ stdout[c] \in Seq(Upward) /\ worker[c].todo \in Seq(Upward)
  BY PartsTyped
<1> DEFINE i == inbox[c]
           o == stdout[c]
           w == worker[c].todo
<1> HIDE DEF i, o, w
<1>2. i \in Seq(Upward) /\ o \in Seq(Upward) /\ w \in Seq(Upward)
  BY <1>1 DEF i, o, w
<1>3. (i \o o) \o w = i \o (o \o w)
  BY <1>2, ConcatAssociative
<1>4. i \o o \in Seq(Upward) /\ (i \o o) \o w \in Seq(Upward)
  BY <1>2
<1>5. QED
  BY <1>1, <1>3, <1>4 DEF ToMain, i, o, w

\* Of a step after which a worker's stream is longer, or the same.
LEMMA GrowsIsWhole ==
  ASSUME TypeOK, NEW c \in Chan, Parses(c) => HeardWhole(c), Parses(c)' => Parses(c),
         Live(c)' => Live(c), store \subseteq store',
         Parses(c) => Carries(inbox'[c], store'),
         NEW t \in Seq(Upward), Live(c)' => ToMain(c)' = ToMain(c) \o t,
         Parses(c) /\ Live(c)' => Carries(t, store' \cup Brought(ToMain(c))),
         Running(c)' => \A o \in worker'[c].objects :
            \/ Running(c) /\ o \in worker[c].objects
            \/ Closure(o) \subseteq store' \cup (Brought(ToMain(c)) \cup Brought(t))
  PROVE  (Parses(c) => HeardWhole(c))'
<1> SUFFICES ASSUME Parses(c)', Parses(c), HeardWhole(c), Carries(inbox'[c], store')
             PROVE  HeardWhole(c)'
  OBVIOUS
<1> SUFFICES ASSUME Live(c)', Live(c)
             PROVE  /\ Carries(ToMain(c)', store')
                    /\ Running(c)' => \A o \in worker'[c].objects :
                                        Closure(o) \subseteq store' \cup Brought(ToMain(c)')
  BY DEF HeardWhole
<1>1. ToMain(c) \in Seq(Upward)
  BY ToMainIs
<1> DEFINE s == ToMain(c)
<1>2. /\ Carries(s, store)
      /\ Running(c) => \A o \in worker[c].objects : Closure(o) \subseteq store \cup Brought(s)
  BY DEF HeardWhole
<1> HIDE DEF s
<1>3. Carries(s, store')
  BY <1>2, CarriesMore
<1>4. Carries(t, store' \cup Brought(s))
  BY DEF s
<1>5. s \in Seq(Upward) /\ ToMain(c)' = s \o t
  BY <1>1 DEF s
<1>6. Carries(s \o t, store')
  BY <1>3, <1>4, <1>5, CarriesCat
<1>7. Brought(s \o t) = Brought(s) \cup Brought(t)
  BY <1>5, BeforeCat
<1>8. ASSUME Running(c)', NEW o \in worker'[c].objects
      PROVE  Closure(o) \subseteq store' \cup (Brought(s) \cup Brought(t))
  <2>1. CASE Running(c) /\ o \in worker[c].objects
    BY <1>2, <2>1
  <2>2. CASE Closure(o) \subseteq store' \cup (Brought(s) \cup Brought(t))
    BY <2>2
  <2>3. QED
    BY <1>8, <2>1, <2>2 DEF s
<1>9. QED
  BY <1>5, <1>6, <1>7, <1>8

\* Of a step after which a worker's stream is the same.
LEMMA SameIsWhole ==
  ASSUME TypeOK, NEW c \in Chan, Parses(c) => HeardWhole(c), Parses(c)' => Parses(c),
         Live(c)' => Live(c), store \subseteq store',
         inbox'[c] = inbox[c], stdout'[c] = stdout[c], worker'[c].todo = worker[c].todo,
         Running(c)' => \A o \in worker'[c].objects :
            \/ Running(c) /\ o \in worker[c].objects
            \/ Closure(o) \subseteq store'
  PROVE  (Parses(c) => HeardWhole(c))'
<1>1. ToMain(c) \in Seq(Upward) /\ ToMain(c)' = ToMain(c)
  BY ToMainIs DEF ToMain
<1> DEFINE s == ToMain(c)
<1>2. s \o <<>> = s
  <2> HIDE DEF s
  <2>1. s \in Seq(Upward)
    BY <1>1 DEF s
  <2>2. QED
    BY <2>1
<1>3. Parses(c) => Carries(inbox'[c], store')
  <2>1. Parses(c) => Carries(inbox[c], store)
    BY DEF HeardWhole
  <2>2. QED
    BY <2>1, CarriesMore
<1>4. Carries(<<>>, store' \cup Brought(s)) /\ <<>> \in Seq(Upward) /\ Brought(<<>>) = {}
  BY CarriesNone
<1>5. ToMain(c)' = ToMain(c) \o <<>>
  BY <1>1, <1>2
<1>6. QED
  BY <1>3, <1>4, <1>5, GrowsIsWhole

\* Of a step that ends a worker.
LEMMA EndedIsWhole ==
  ASSUME TypeOK, NEW c \in Chan, Parses(c) => HeardWhole(c), Parses(c)' => Parses(c),
         Live(c)' => Live(c), store \subseteq store',
         inbox'[c] = inbox[c], stdout'[c] = stdout[c], worker'[c] = Ended(c)[c]
  PROVE  (Parses(c) => HeardWhole(c))'
<1>1. worker'[c].pc = "ended" /\ worker'[c].todo = <<>>
  BY DEF Ended, TypeOK, Workers
<1>2. /\ inbox[c] \o stdout[c] \in Seq(Upward) /\ worker[c].todo \in Seq(Upward)
      /\ ToMain(c) = (inbox[c] \o stdout[c]) \o worker[c].todo
  BY ToMainIs DEF ToMain
<1> DEFINE s == inbox[c] \o stdout[c]
<1> HIDE DEF s
<1>3. ToMain(c)' = s
  <2>1. ToMain(c)' = s \o <<>>
    BY <1>1 DEF ToMain, s
  <2>2. s \in Seq(Upward)
    BY <1>2 DEF s
  <2>3. QED
    BY <2>1, <2>2
<1>4. ~Running(c)'
  BY <1>1 DEF Running
<1>5. Parses(c) => Carries(inbox'[c], store')
  <2>1. Parses(c) => Carries(inbox[c], store)
    BY DEF HeardWhole
  <2>2. QED
    BY <2>1, CarriesMore
<1>6. Parses(c) /\ Live(c) => Carries(s, store')
  <2>1. Parses(c) /\ Live(c) => Carries(s \o worker[c].todo, store)
    BY <1>2 DEF HeardWhole, s
  <2>2. s \in Seq(Upward) /\ worker[c].todo \in Seq(Upward)
    BY <1>2 DEF s
  <2>3. Parses(c) /\ Live(c) => Carries(s, store)
    BY <2>1, <2>2, CarriesCat
  <2>4. QED
    BY <2>3, CarriesMore
<1>7. QED
  BY <1>3, <1>4, <1>5, <1>6 DEF HeardWhole

-----------------------------------------------------------------------------
(* A worker's steps                                                        *)

\* Of two streams, one after the other: the head of the second may go to the
\* end of the first, and what is added to either when the second is empty is
\* added to both.
LEMMA StreamsMove ==
  ASSUME NEW S, NEW s \in Seq(S), NEW t \in Seq(S), NEW m \in S, NEW u \in Seq(S)
  PROVE  /\ t # <<>> => Append(s, Head(t)) \o Tail(t) = s \o t
         /\ s \o Append(t, m) = (s \o t) \o <<m>>
         /\ s \o u = (s \o <<>>) \o u
         /\ Append(s, m) \o <<>> = (s \o <<>>) \o <<m>>
         /\ (s \o t) \o <<>> = s \o t
<1>1. Append(s, m) = s \o <<m>> /\ s \o <<>> = s /\ <<m>> \in Seq(S)
  OBVIOUS
<1>2. s \o Append(t, m) = (s \o t) \o <<m>>
  <2>1. Append(t, m) = t \o <<m>>
    OBVIOUS
  <2>2. QED
    BY <1>1, <2>1, ConcatAssociative
<1>3. ASSUME t # <<>>
      PROVE  Append(s, Head(t)) \o Tail(t) = s \o t
  <2> DEFINE h == Head(t)
             r == Tail(t)
  <2>1. h \in S /\ r \in Seq(S) /\ t = <<h>> \o r
    BY <1>3
  <2> HIDE DEF h, r
  <2>2. Append(s, h) = s \o <<h>> /\ <<h>> \in Seq(S)
    BY <2>1
  <2>3. (s \o <<h>>) \o r = s \o (<<h>> \o r)
    BY <2>1, <2>2, ConcatAssociative
  <2>4. QED
    BY <2>1, <2>2, <2>3 DEF h, r
<1>4. (s \o t) \o <<>> = s \o t
  OBVIOUS
<1>5. s \o <<m>> \in Seq(S)
  BY <1>1
<1>6. (s \o <<m>>) \o <<>> = s \o <<m>>
  BY <1>5
<1>7. QED
  BY <1>1, <1>2, <1>3, <1>4, <1>6

LEMMA ToMainGrows ==
  ASSUME TypeOK, NEW c \in Chan, NEW o \in Seq(Upward), NEW w \in Seq(Upward),
         NEW t \in Seq(Upward)
  PROVE  o \o w = (stdout[c] \o worker[c].todo) \o t => (inbox[c] \o o) \o w = ToMain(c) \o t
<1> DEFINE i == inbox[c]
           old == stdout[c] \o worker[c].todo
<1>1. /\ i \in Seq(Upward) /\ stdout[c] \in Seq(Upward) /\ worker[c].todo \in Seq(Upward)
      /\ ToMain(c) = i \o old
  BY ToMainIs
<1>2. old \in Seq(Upward) /\ i \in Seq(Upward)
  BY <1>1
<1> HIDE DEF i, old
<1>3. (i \o o) \o w = i \o (o \o w)
  BY <1>2, SMTT(20)
<1>4. (i \o old) \o t = i \o (old \o t)
  BY <1>2, SMTT(20)
<1>5. o \o w = old \o t => (i \o o) \o w = ToMain(c) \o t
  BY <1>1, <1>3, <1>4, Zenon
<1>6. QED
  BY <1>5 DEF i, old

LEMMA HeardSame ==
  ASSUME NEW c \in Chan, Parses(c) => HeardWhole(c), UNCHANGED <<mainVars, wires>>,
         store \subseteq store'
  PROVE  /\ Parses(c)' <=> Parses(c)
         /\ Live(c)' <=> Live(c)
         /\ inbox'[c] = inbox[c]
         /\ Parses(c) => Carries(inbox'[c], store')
<1>1. UNCHANGED <<handle, inbox, conn>>
  BY DEF mainVars, wires
<1>2. Parses(c) => Carries(inbox[c], store')
  BY CarriesMore DEF HeardWhole
<1>3. QED
  BY <1>1, <1>2 DEF Parses, Live

\* Of a worker's step that adds to what it has to say, or says.
LEMMA SaysIsWhole ==
  ASSUME TypeOK, NEW c \in Chan, Parses(c) => HeardWhole(c), UNCHANGED <<mainVars, wires>>,
         store \subseteq store', NEW t \in Seq(Upward),
         stdout'[c] \in Seq(Upward), worker'[c].todo \in Seq(Upward),
         stdout'[c] \o worker'[c].todo = (stdout[c] \o worker[c].todo) \o t,
         Parses(c) /\ Live(c) => Carries(t, store' \cup Brought(ToMain(c))),
         Running(c)' => \A o \in worker'[c].objects :
            \/ Running(c) /\ o \in worker[c].objects
            \/ Parses(c) /\ Live(c) =>
                 Closure(o) \subseteq store' \cup (Brought(ToMain(c)) \cup Brought(t))
  PROVE  (Parses(c) => HeardWhole(c))'
<1>5. ToMain(c)' = ToMain(c) \o t
  <2>1. inbox'[c] = inbox[c]
    BY HeardSame
  <2>2. (inbox[c] \o stdout'[c]) \o worker'[c].todo = ToMain(c) \o t
    BY ToMainGrows
  <2>3. QED
    BY <2>1, <2>2 DEF ToMain
<1>6. /\ Parses(c)' <=> Parses(c)
      /\ Live(c)' <=> Live(c)
      /\ Parses(c) => Carries(inbox'[c], store')
  BY HeardSame
<1>7. CASE Parses(c) /\ Live(c)
  BY <1>5, <1>6, <1>7, GrowsIsWhole
<1>8. CASE ~(Parses(c) /\ Live(c))
  BY <1>6, <1>8 DEF HeardWhole
<1>9. QED
  BY <1>7, <1>8

LEMMA FailsIsWhole ==
  ASSUME TypeOK, NEW c \in Chan, Parses(c) => HeardWhole(c), UNCHANGED <<mainVars, wires, store>>,
         stdout'[c] = stdout[c], worker' = Fails(c), Running(c)
  PROVE  (Parses(c) => HeardWhole(c))'
<1> DEFINE m == Message("RESULT", Nil)
           t == <<m>>
<1>1. m \in Upward /\ ~Names(m)
  BY MessagesAre DEF Names, Message
<1> HIDE DEF m
<1>2. t \in Seq(Upward)
  BY <1>1
<1>3. \A had : Carries(t, had)
  BY <1>1, CarriesOne
<1>4. worker'[c].todo = Append(worker[c].todo, m) /\ worker'[c].objects = worker[c].objects
  BY DEF Fails, TypeOK, Workers, m
<1>5. stdout[c] \in Seq(Upward) /\ worker[c].todo \in Seq(Upward)
  BY ToMainIs
<1>6. stdout[c] \o worker'[c].todo = (stdout[c] \o worker[c].todo) \o t
  <2>1. stdout[c] \o Append(worker[c].todo, m) = (stdout[c] \o worker[c].todo) \o t
    <3> DEFINE out == stdout[c]
               todo == worker[c].todo
    <3>1. out \in Seq(Upward) /\ todo \in Seq(Upward)
      BY <1>5
    <3> HIDE DEF out, todo
    <3>2. out \o Append(todo, m) = (out \o todo) \o <<m>>
      BY <1>1, <3>1, StreamsMove
    <3>3. QED
      BY <3>2 DEF out, todo
  <2>2. QED
    BY <1>4, <2>1
<1>7. worker'[c].todo \in Seq(Upward)
  BY <1>1, <1>4, <1>5
<1> HIDE DEF t
<1>8. QED
  BY <1>2, <1>3, <1>4, <1>5, <1>6, <1>7, SaysIsWhole

\* What a worker puts is made of what it had, and of what it puts.
LEMMA PutIsWhole ==
  ASSUME TypeOK, NEW c \in Chan, Parses(c) => HeardWhole(c), UNCHANGED <<mainVars, wires>>,
         stdout'[c] = stdout[c], worker[c].pc = "running", worker[c].todo = <<>>,
         NEW v \in Obj, NEW more \in Seq(Upward), NEW pc, Put(c, v, more, pc),
         more = <<>> \/ \E m \in Upward : more = <<m>> /\ m.tag # "OBJECT" /\ m.v = v,
         store' = IF direct THEN store \cup Closure(v) ELSE store
  PROVE  (Parses(c) => HeardWhole(c))'
<1> DEFINE p == Objects(ToPut(c, v))
           t == p \o more
           seen == Brought(ToMain(c))
           had == store' \cup seen
           objects == worker[c].objects
<1>1. worker'[c].todo = t /\ worker'[c].objects = objects \cup Range(ToPut(c, v))
  BY DEF Put, TypeOK, Workers
<1>2. /\ p \in Seq(Upward)
      /\ ~direct => p = Objects(Packed(v, objects)) /\ Range(ToPut(c, v)) = Under(v, objects)
      /\ direct => p = <<>> /\ Range(ToPut(c, v)) = {}
  <2>1. p \in Seq(Upward)
    BY ToPutIs, ObjectsAre
  <2>2. ~direct => p = Objects(Packed(v, objects)) /\ Range(ToPut(c, v)) = Under(v, objects)
    BY ToPutIs DEF ToPut
  <2>3. direct => p = <<>> /\ Range(ToPut(c, v)) = {}
    BY DEF ToPut, Objects, Range
  <2>4. QED
    BY <2>1, <2>2, <2>3
<1>3. t \in Seq(Upward)
  BY <1>2
<1>4. Running(c) /\ store \subseteq store' /\ objects \subseteq Obj
  BY PartsTyped DEF Running
<1>5. stdout[c] \in Seq(Upward) /\ stdout'[c] \o t = (stdout[c] \o worker[c].todo) \o t
  <2>1. stdout[c] \in Seq(Upward)
    BY ToMainIs
  <2> HIDE DEF t
  <2>2. QED
    BY <2>1
<1>6. Parses(c) /\ Live(c) => \A o \in objects : Closure(o) \subseteq had
  BY <1>4 DEF HeardWhole
<1> HIDE DEF p, had, objects
<1>7. ASSUME Parses(c), Live(c)
      PROVE  /\ Carries(p, had)
             /\ \A o \in {v} \cup Range(ToPut(c, v)) : Closure(o) \subseteq had \cup Brought(p)
  <2>1. CASE direct
    <3>1. Closure(v) \subseteq had /\ p = <<>> /\ Range(ToPut(c, v)) = {}
      BY <1>2, <2>1 DEF had
    <3>2. QED
      BY <3>1, CarriesNone
  <2>2. CASE ~direct
    <3>1. \A h \in objects \cap Obj : Closure(h) \subseteq had
      BY <1>6, <1>7
    <3>2. QED
      BY <1>2, <2>2, <3>1, CarriesPacked
  <2>3. QED
    BY <2>1, <2>2
<1>8. ASSUME Parses(c), Live(c)
      PROVE  Carries(more, had \cup Brought(p)) /\ Brought(more) = {}
  <2>1. ASSUME NEW m \in Upward, more = <<m>>, m.tag # "OBJECT", m.v = v
        PROVE  Carries(more, had \cup Brought(p)) /\ Brought(more) = {}
    BY <1>7, <1>8, <2>1, CarriesOne
  <2>2. QED
    BY <2>1, CarriesNone
<1>9. ASSUME Parses(c), Live(c)
      PROVE  /\ Carries(t, had)
             /\ Brought(t) = Brought(p)
  <2>1. Carries(p, had) /\ Carries(more, had \cup Brought(p)) /\ Brought(more) = {}
    BY <1>7, <1>8, <1>9
  <2>2. p \in Seq(Upward) /\ more \in Seq(Upward)
    BY <1>2
  <2>3. Carries(t, had)
    BY <2>1, <2>2, CarriesCat
  <2>4. Brought(t) = Brought(p) \cup Brought(more)
    BY <2>2, BeforeCat
  <2>5. QED
    BY <2>1, <2>3, <2>4
<1> HIDE DEF t
<1>10. ASSUME NEW o \in worker'[c].objects
       PROVE  \/ Running(c) /\ o \in worker[c].objects
              \/ Parses(c) /\ Live(c) =>
                   Closure(o) \subseteq store' \cup (Brought(ToMain(c)) \cup Brought(t))
  BY <1>1, <1>4, <1>7, <1>9 DEF objects, had
<1>11. Parses(c) /\ Live(c) => Carries(t, store' \cup Brought(ToMain(c)))
  BY <1>9 DEF had
<1>12. QED
  BY <1>1, <1>3, <1>4, <1>5, <1>10, <1>11, SaysIsWhole

\* A worker reading, running and ending: it has nothing to say, or a failure.
LEMMA ReadingIsWhole ==
  ASSUME TypeOK, NEW c \in Chan, Parses(c) => HeardWhole(c), SentIsStored,
         \/ TakesHello(c) \/ Accepts(c) \/ Refuses(c) \/ TakesObject(c) \/ TakesTask(c)
         \/ Raises(c) \/ TakesReply(c) \/ FindsEnd(c) \/ Exits(c) \/ Crashes(c) \/ Hangs(c)
  PROVE  (Parses(c) => HeardWhole(c))'
<1>1. ASSUME NEW from, Steps(c, from), Inside(c) \/ \E tag : Reads(c, tag)
      PROVE  UNCHANGED <<mainVars, wires, store, stdout>>
  BY <1>1 DEF Steps, Inside, Reads
<1>2. ASSUME UNCHANGED <<mainVars, wires, store, stdout>>, Running(c),
             worker'[c].todo = worker[c].todo,
             \A o \in worker'[c].objects : o \in worker[c].objects \/ Closure(o) \subseteq store
      PROVE  (Parses(c) => HeardWhole(c))'
  <2>1. /\ Parses(c)' <=> Parses(c)
        /\ Live(c)' <=> Live(c)
        /\ inbox'[c] = inbox[c]
    BY <1>2, HeardSame
  <2>2. QED
    BY <1>2, <2>1, SameIsWhole
<1>3. ASSUME NEW pc, worker' = [worker EXCEPT ![c].pc = pc]
      PROVE  worker'[c].todo = worker[c].todo /\ worker'[c].objects = worker[c].objects
  BY <1>3 DEF TypeOK, Workers
<1>4. CASE TakesHello(c)
  <2>1. UNCHANGED <<mainVars, wires, store, stdout>> /\ Running(c)
    BY <1>1, <1>4 DEF TakesHello, Steps, Running
  <2>2. QED
    BY <1>2, <1>3, <1>4, <2>1 DEF TakesHello
<1>5. CASE Accepts(c)
  <2>1. UNCHANGED <<mainVars, wires, store, stdout>> /\ Running(c)
    BY <1>1, <1>5 DEF Accepts, Steps, Running
  <2>2. QED
    BY <1>2, <1>3, <1>5, <2>1 DEF Accepts
<1>6. CASE Hangs(c)
  <2>1. UNCHANGED <<mainVars, wires, store, stdout>> /\ Running(c)
    BY <1>1, <1>6 DEF Hangs, Steps, Running
  <2>2. QED
    BY <1>2, <1>3, <1>6, <2>1 DEF Hangs
<1>7. CASE Refuses(c) \/ Raises(c)
  <2>1. UNCHANGED <<mainVars, wires, store, stdout>> /\ Running(c)
    BY <1>1, <1>7 DEF Refuses, Raises, Steps, Running
  <2>2. QED
    BY <1>7, <2>1, FailsIsWhole DEF Refuses, Raises
<1>8. CASE TakesObject(c)
  <2> DEFINE o == Head(stdin[c]).v
  <2>1. /\ UNCHANGED <<mainVars, wires, store, stdout>> /\ Running(c)
        /\ worker' = [worker EXCEPT ![c].objects = @ \cup {o}]
        /\ stdin[c] # <<>> /\ Head(stdin[c]).tag = "OBJECT"
    BY <1>1, <1>8 DEF TakesObject, Received, Reads, Running
  <2>2. stdin[c] \in Seq(Downward)
    BY PartsTyped
  <2>3. Head(stdin[c]) = stdin[c][1] /\ 1 \in DOMAIN stdin[c]
    BY <2>1, <2>2
  <2>4. Closure(o) \subseteq store
    BY <2>1, <2>3 DEF SentIsStored, IsStored
  <2> HIDE DEF o
  <2>5. worker'[c].todo = worker[c].todo /\ worker'[c].objects = worker[c].objects \cup {o}
    BY <2>1 DEF TypeOK, Workers
  <2>6. QED
    BY <1>2, <2>1, <2>4, <2>5
<1>9. CASE TakesTask(c)
  <2>1. UNCHANGED <<mainVars, wires, store, stdout>> /\ Running(c)
    BY <1>1, <1>9 DEF TakesTask, Steps, Running
  <2>2. CASE worker' = Fails(c)
    BY <2>1, <2>2, FailsIsWhole
  <2>3. CASE worker' = [worker EXCEPT ![c].pc = "running"]
    BY <1>2, <1>3, <2>1, <2>3
  <2>4. QED
    BY <1>9, <2>2, <2>3 DEF TakesTask
<1>10. CASE TakesReply(c)
  <2>1. UNCHANGED <<mainVars, wires, store, stdout>> /\ Running(c)
    BY <1>1, <1>10 DEF TakesReply, Steps, Running
  <2>2. worker'[c].todo = worker[c].todo /\ worker'[c].objects = worker[c].objects
    BY <1>10 DEF TakesReply, TypeOK, Workers
  <2>3. QED
    BY <1>2, <2>1, <2>2
<1>11. CASE FindsEnd(c) \/ Exits(c) \/ Crashes(c)
  <2>1. UNCHANGED <<mainVars, wires, store, stdout>> /\ worker' = Ended(c)
    BY <1>1, <1>11 DEF FindsEnd, Exits, Crashes
  <2>2. /\ Parses(c)' <=> Parses(c)
        /\ Live(c)' <=> Live(c)
        /\ inbox'[c] = inbox[c]
    BY <2>1, HeardSame
  <2>3. QED
    BY <2>1, <2>2, EndedIsWhole
<1>12. QED
  BY <1>4, <1>5, <1>6, <1>7, <1>8, <1>9, <1>10, <1>11

LEMMA AskingIsWhole ==
  ASSUME TypeOK, NEW c \in Chan, Parses(c) => HeardWhole(c),
         \/ \E v \in Looked : AsksValue(c, v)
         \/ AsksCall(c)
         \/ \E v \in Made : Records(c, v) \/ Returns(c, v)
  PROVE  (Parses(c) => HeardWhole(c))'
<1> USE DEF Steps
<1>1. ASSUME NEW v \in Looked, AsksValue(c, v)
      PROVE  (Parses(c) => HeardWhole(c))'
  <2> DEFINE m == Message("GET_VALUE", v)
             t == <<m>>
  <2>1. worker'[c].todo = t /\ worker'[c].objects = worker[c].objects
    <3> DEFINE w == worker[c]
    <3>1. worker' = [worker EXCEPT ![c] = [w EXCEPT !.pc = "asking", !.ask = "GET_VALUE",
                       !.asks = w.asks + 1, !.todo = t]]
      BY <1>1 DEF AsksValue
    <3>2. w \in Workers
      BY PartsTyped
    <3> HIDE DEF w, t
    <3>3. worker'[c] = [w EXCEPT !.pc = "asking", !.ask = "GET_VALUE",
                          !.asks = w.asks + 1, !.todo = t]
      BY <3>1 DEF TypeOK
    <3>4. QED
      BY <3>2, <3>3 DEF w, Workers
  <2>2. /\ worker[c].pc = "running" /\ worker[c].todo = <<>>
        /\ UNCHANGED <<mainVars, wires, store, stdout>>
    BY <1>1 DEF AsksValue, Idle, Inside
  <2>3. m \in Upward /\ ~Names(m)
    BY Given, MessagesAre DEF Names, Message
  <2> HIDE DEF m
  <2>4. t \in Seq(Upward) /\ \A had : Carries(t, had)
    <3>1. t \in Seq(Upward)
      BY <2>3
    <3>2. \A had : Carries(t, had)
      BY <2>3, CarriesOne
    <3>3. QED
      BY <3>1, <3>2
  <2>5. stdout[c] \in Seq(Upward)
    BY ToMainIs
  <2> HIDE DEF t
  <2>6. stdout[c] \o t = (stdout[c] \o <<>>) \o t
    BY <2>5
  <2>7. Running(c)
    BY <2>2 DEF Running
  <2>8. QED
    BY <2>1, <2>2, <2>4, <2>5, <2>6, <2>7, SaysIsWhole
<1>2. ASSUME NEW v \in Obj, NEW tag \in {"RECORD", "CALL", "RESULT"}
      PROVE  LET m == Message(tag, v)
             IN  m \in Upward /\ <<m>> \in Seq(Upward) /\ m.tag # "OBJECT" /\ m.v = v
  <2> DEFINE m == Message(tag, v)
  <2>1. m.tag = tag /\ m.v = v
    BY DEF Message
  <2>2. m \in Upward
    <3>1. CASE tag = "RECORD"
      BY <3>1, MessagesAre
    <3>2. CASE tag = "CALL"
      BY <3>2, MessagesAre
    <3>3. CASE tag = "RESULT"
      BY <3>3, MessagesAre
    <3>4. QED
      BY <3>1, <3>2, <3>3
  <2> HIDE DEF m
  <2>3. <<m>> \in Seq(Upward)
    BY <2>2
  <2>4. QED
    BY <2>1, <2>2, <2>3 DEF m
<1>3. CASE AsksCall(c)
  <2> DEFINE m == Message("CALL", Param)
  <2>1. Param \in Obj /\ m \in Upward /\ <<m>> \in Seq(Upward) /\ m.tag # "OBJECT" /\ m.v = Param
    BY <1>2, Given
  <2>2. /\ Put(c, Param, <<m>>, "asking") /\ worker[c].pc = "running" /\ worker[c].todo = <<>>
        /\ UNCHANGED <<mainVars, wires, stdout>>
        /\ store' = IF direct THEN store \cup Closure(Param) ELSE store
    BY <1>3 DEF AsksCall, Idle, Kept
  <2> HIDE DEF m
  <2>3. QED
    BY <2>1, <2>2, PutIsWhole
<1>4. ASSUME NEW v \in Made, Records(c, v)
      PROVE  (Parses(c) => HeardWhole(c))'
  <2> DEFINE m == Message("RECORD", v)
             more == IF direct THEN <<>> ELSE <<m>>
  <2>1. v \in Obj /\ m \in Upward /\ <<m>> \in Seq(Upward) /\ m.tag # "OBJECT" /\ m.v = v
    BY <1>2, Given
  <2>2. /\ Put(c, v, more, "running") /\ worker[c].pc = "running" /\ worker[c].todo = <<>>
        /\ UNCHANGED <<mainVars, wires, stdout>>
        /\ store' = IF direct THEN store \cup Closure(v) ELSE store
    BY <1>4 DEF Records, Idle, Kept
  <2> HIDE DEF m
  <2>3. more \in Seq(Upward) /\ (more = <<>> \/ more = <<m>>)
    BY <2>1
  <2> HIDE DEF more
  <2>4. QED
    BY <2>1, <2>2, <2>3, PutIsWhole
<1>5. ASSUME NEW v \in Made, Returns(c, v)
      PROVE  (Parses(c) => HeardWhole(c))'
  <2> DEFINE m == Message("RESULT", v)
  <2>1. v \in Obj /\ m \in Upward /\ <<m>> \in Seq(Upward) /\ m.tag # "OBJECT" /\ m.v = v
    BY <1>2, Given
  <2>2. /\ Put(c, v, <<m>>, "done") /\ worker[c].pc = "running" /\ worker[c].todo = <<>>
        /\ UNCHANGED <<mainVars, wires, stdout>>
        /\ store' = IF direct THEN store \cup Closure(v) ELSE store
    BY <1>5 DEF Returns, Kept
  <2> HIDE DEF m
  <2>3. QED
    BY <2>1, <2>2, PutIsWhole
<1>6. QED
  BY <1>1, <1>3, <1>4, <1>5

\* What is written, and what is printed.
LEMMA WritingIsWhole ==
  ASSUME TypeOK, NEW c \in Chan, Parses(c) => HeardWhole(c), Truth(c),
         Writes(c) \/ PrintsOut(c)
  PROVE  (Parses(c) => HeardWhole(c))'
<1> USE DEF Steps
<1> DEFINE out == stdout[c]
           todo == worker[c].todo
<1>1. out \in Seq(Upward) /\ todo \in Seq(Upward)
  BY ToMainIs
<1>2. CASE Writes(c)
  <2>1. todo # <<>> /\ UNCHANGED <<mainVars, wires, store>>
    BY <1>2 DEF Writes
  <2>2. /\ worker'[c].todo = Tail(todo) /\ worker'[c].objects = worker[c].objects
        /\ worker'[c].pc = worker[c].pc /\ stdout'[c] = Append(out, Head(todo))
    BY <1>2 DEF Writes, TypeOK, Workers
  <2> HIDE DEF out, todo
  <2>3. Head(todo) \in Upward /\ Tail(todo) \in Seq(Upward)
    BY <1>1, <2>1
  <2>4. Append(out, Head(todo)) \in Seq(Upward)
    BY <1>1, <2>3
  <2>5. Append(out, Head(todo)) \o Tail(todo) = out \o todo
    BY <1>1, <2>1, <2>3, StreamsMove
  <2>6. (out \o todo) \o <<>> = out \o todo /\ <<>> \in Seq(Upward)
    BY <1>1, <2>3, StreamsMove
  <2>7. stdout'[c] \o worker'[c].todo = (stdout[c] \o worker[c].todo) \o <<>>
    BY <2>2, <2>5, <2>6 DEF out, todo
  <2>8. stdout'[c] \in Seq(Upward) /\ worker'[c].todo \in Seq(Upward)
    BY <2>2, <2>3, <2>4
  <2>9. Running(c)' <=> Running(c)
    BY <2>2 DEF Running
  <2>10. QED
    BY <2>1, <2>2, <2>6, <2>7, <2>8, <2>9, CarriesNone, SaysIsWhole
<1>3. CASE PrintsOut(c)
  <2>1. PICK what \in Prints :
          stdout' = [stdout EXCEPT ![c] = Append(@, [Message("PRINT", Nil) EXCEPT !.to = what])]
    BY <1>3 DEF PrintsOut
  <2> DEFINE m == [Message("PRINT", Nil) EXCEPT !.to = what]
             t == <<m>>
  <2>2. m \in Upward /\ m.tag = "PRINT"
    BY MessagesAre DEF Message
  <2> HIDE DEF m
  <2>3. /\ todo = <<>> /\ UNCHANGED <<mainVars, wires, store>> /\ Running(c)
        /\ worker'[c].todo = todo /\ worker'[c].objects = worker[c].objects
        /\ stdout'[c] = Append(out, m)
    BY <1>3, <2>1 DEF PrintsOut, TypeOK, Workers, Running, m
  <2>4. t \in Seq(Upward) /\ \A had : Carries(t, had)
    <3>1. t \in Seq(Upward)
      BY <2>2
    <3>2. ~Names(m)
      BY <2>2 DEF Names
    <3>3. \A had : Carries(t, had)
      BY <3>2, CarriesOne
    <3>4. QED
      BY <3>1, <3>3
  <2> HIDE DEF out, todo
  <2>5. Append(out, m) \o <<>> = (out \o <<>>) \o t /\ Append(out, m) \in Seq(Upward)
    BY <1>1, <2>2, StreamsMove
  <2>6. stdout'[c] \o worker'[c].todo = (stdout[c] \o worker[c].todo) \o t
    BY <2>3, <2>5 DEF out, todo
  <2>7. stdout'[c] \in Seq(Upward) /\ worker'[c].todo \in Seq(Upward)
    BY <1>1, <2>3, <2>5
  <2> HIDE DEF t
  <2>8. QED
    BY <2>3, <2>4, <2>6, <2>7, SaysIsWhole
<1>4. QED
  BY <1>2, <1>3

\* A step of a worker keeps what is stored, sends nothing to one, and stores
\* a record after what its value is made of.
LEMMA WorkerKeeps ==
  ASSUME TypeOK, NEW d \in Chan, Worker(d) \/ PrintsOut(d) \/ Crashes(d) \/ Hangs(d)
  PROVE  /\ store \subseteq store'
         /\ \A v \in records' : v \in records \/ Closure(v) \subseteq store'
         /\ stdin'[d] = stdin[d] \/ (stdin[d] # <<>> /\ stdin'[d] = Tail(stdin[d]))
<1>1. ASSUME Inside(d)
      PROVE  UNCHANGED <<stdin, store, records>>
  BY <1>1 DEF Inside
<1>2. ASSUME NEW tag, Reads(d, tag)
      PROVE  /\ UNCHANGED <<store, records>>
             /\ stdin[d] # <<>> /\ stdin'[d] = Tail(stdin[d])
  BY <1>2 DEF Reads, TypeOK
<1>3. CASE TakesHello(d) \/ TakesObject(d) \/ TakesTask(d) \/ TakesReply(d)
  BY <1>2, <1>3 DEF TakesHello, TakesObject, TakesTask, TakesReply
<1>4. CASE \/ Accepts(d) \/ Refuses(d) \/ Raises(d) \/ FindsEnd(d) \/ Exits(d)
           \/ Crashes(d) \/ Hangs(d) \/ \E v \in Looked : AsksValue(d, v)
  BY <1>1, <1>4 DEF Accepts, Refuses, Raises, FindsEnd, Exits, Crashes, Hangs, AsksValue
<1>5. CASE Writes(d) \/ PrintsOut(d)
  BY <1>5 DEF Writes, PrintsOut
<1>6. CASE AsksCall(d)
  BY <1>6 DEF AsksCall, Kept
<1>7. ASSUME NEW v \in Made, Records(d, v) \/ Returns(d, v)
      PROVE  /\ UNCHANGED stdin /\ store \subseteq store'
             /\ \A u \in records' : u \in records \/ Closure(u) \subseteq store'
  <2>1. CASE Records(d, v)
    BY <2>1 DEF Records, Kept
  <2>2. CASE Returns(d, v)
    <3>1. UNCHANGED <<stdin, records>>
      BY <2>2 DEF Returns
    <3>2. store \subseteq store'
      BY <2>2 DEF Returns, Kept
    <3>3. QED
      BY <3>1, <3>2
  <2>3. QED
    BY <1>7, <2>1, <2>2
<1>8. QED
  BY <1>3, <1>4, <1>5, <1>6, <1>7 DEF Worker

LEMMA WorkerHeard ==
  ASSUME TypeOK, NEW c \in Chan, Parses(c) => HeardWhole(c), SentIsStored, Truth(c),
         NEW d \in Chan, Worker(d) \/ PrintsOut(d) \/ Crashes(d) \/ Hangs(d)
  PROVE  (Parses(c) => HeardWhole(c))'
<1>1. CASE c = d
  BY <1>1, ReadingIsWhole, AskingIsWhole, WritingIsWhole DEF Worker
<1>2. CASE c # d
  <2>1. /\ worker'[c] = worker[c] /\ stdout'[c] = stdout[c]
        /\ UNCHANGED <<mainVars, wires>>
    BY <1>2, OneWorkerSteps
  <2>2. store \subseteq store'
    BY WorkerKeeps
  <2>3. /\ Parses(c)' <=> Parses(c)
        /\ Live(c)' <=> Live(c)
        /\ inbox'[c] = inbox[c]
    BY <2>1, <2>2, HeardSame
  <2>4. Running(c)' <=> Running(c)
    BY <2>1 DEF Running
  <2>5. QED
    BY <2>1, <2>2, <2>3, <2>4, SameIsWhole
<1>3. QED
  BY <1>1, <1>2

\* Of a step that keeps what is stored: nothing new is on its way to a worker
\* but what is stored by then.
LEMMA SentStays ==
  ASSUME SentIsStored, store \subseteq store',
         \A i \in DOMAIN sched' : \/ IsStored(sched'[i].m, store')
                                  \/ \E j \in DOMAIN sched : sched'[i] = sched[j],
         \A i \in DOMAIN down' : \/ IsStored(down'[i].m, store')
                                 \/ \E j \in DOMAIN down : down'[i] = down[j],
         \A c \in Chan : \A i \in DOMAIN pool'[c] :
            \/ IsStored(pool'[c][i].m, store')
            \/ \E j \in DOMAIN pool[c] : pool'[c][i] = pool[c][j],
         \A c \in Chan : \A i \in DOMAIN stdin'[c] :
            \/ IsStored(stdin'[c][i], store')
            \/ \E j \in DOMAIN stdin[c] : stdin'[c][i] = stdin[c][j]
  PROVE  SentIsStored'
<1>1. \A m : IsStored(m, store) => IsStored(m, store')
  BY DEF IsStored
<1>2. QED
  BY <1>1 DEF SentIsStored

LEMMA WorkerIsWhole ==
  ASSUME TypeOK, AllWhole, \A c \in Chan : Truth(c),
         NEW d \in Chan, Worker(d) \/ PrintsOut(d) \/ Crashes(d) \/ Hangs(d)
  PROVE  AllWhole'
<1>1. UNCHANGED <<mainVars, wires>> /\ \A c \in Chan : c # d => stdin'[c] = stdin[c]
  BY OneWorkerSteps
<1>2. /\ store \subseteq store'
      /\ \A v \in records' : v \in records \/ Closure(v) \subseteq store'
      /\ stdin'[d] = stdin[d] \/ (stdin[d] # <<>> /\ stdin'[d] = Tail(stdin[d]))
  BY WorkerKeeps
<1>3. \A c \in Chan : (Parses(c) => HeardWhole(c))'
  BY WorkerHeard DEF AllWhole
<1>4. \A c \in Chan : \A i \in DOMAIN stdin'[c] :
        \E j \in DOMAIN stdin[c] : stdin'[c][i] = stdin[c][j]
  <2>1. stdin[d] \in Seq(Downward)
    BY PartsTyped
  <2>2. CASE stdin[d] # <<>> /\ stdin'[d] = Tail(stdin[d])
    <3>1. \A i \in DOMAIN stdin'[d] : i + 1 \in DOMAIN stdin[d] /\ stdin'[d][i] = stdin[d][i + 1]
      BY <2>1, <2>2
    <3>2. QED
      BY <1>1, <3>1
  <2>3. QED
    BY <1>1, <1>2, <2>2
<1>5. SentIsStored'
  <2>1. UNCHANGED <<sched, down, pool>>
    BY <1>1 DEF mainVars, wires
  <2>2. QED
    BY <1>2, <1>4, <2>1, SentStays DEF AllWhole
<1>6. verdict' = "none" /\ AllStored(records)'
  <2>1. verdict' = "none"
    BY <1>1 DEF AllWhole, mainVars
  <2>2. QED
    BY <1>2, <2>1 DEF AllWhole, AllStored
<1>7. QED
  BY <1>3, <1>5, <1>6 DEF AllWhole
-----------------------------------------------------------------------------
(* What a handle hears                                                     *)

LEMMA CarriesRest ==
  ASSUME NEW S, NEW s \in Seq(S), NEW m \in S, NEW had, NEW more,
         Carries(<<m>> \o s, had), had \cup Brought(<<m>>) \subseteq more
  PROVE  /\ Carries(s, more) /\ Brought(<<m>> \o s) \subseteq more \cup Brought(s)
         /\ Names(m) => Closure(m.v) \subseteq more
<1> DEFINE one == <<m>>
<1>1. one \in Seq(S)
  OBVIOUS
<1> HIDE DEF one
<1>2. Carries(one \o s, had) /\ had \cup Brought(one) \subseteq more
  BY DEF one
<1>3. Carries(one, had) /\ Carries(s, had \cup Brought(one))
  BY <1>1, <1>2, CarriesCat
<1>4. Brought(one \o s) = Brought(one) \cup Brought(s)
  BY <1>1, BeforeCat
<1>5. Carries(s, more)
  BY <1>2, <1>3, CarriesMore
<1>6. Names(m) => Closure(m.v) \subseteq more
  <2>1. Names(m) => Closure(m.v) \subseteq had \cup Brought(one)
    BY <1>3, CarriesOne DEF one
  <2>2. QED
    BY <1>2, <2>1
<1>7. QED
  BY <1>2, <1>4, <1>5, <1>6 DEF one

LEMMA HeadFirst ==
  ASSUME NEW S, NEW s \in Seq(S), NEW t \in Seq(S), NEW u \in Seq(S), s # <<>>
  PROVE  (s \o t) \o u = <<Head(s)>> \o ((Tail(s) \o t) \o u)
<1> DEFINE one == <<Head(s)>>
           r == Tail(s)
           v == r \o t
<1>1. one \in Seq(S) /\ r \in Seq(S) /\ v \in Seq(S)
  OBVIOUS
<1>2. s = one \o r
  OBVIOUS
<1> HIDE DEF one, r
<1>4. (one \o r) \o t = one \o v
  BY <1>1, SMTT(20)
<1> HIDE DEF v
<1>5. (one \o v) \o u = one \o (v \o u)
  BY <1>1, SMTT(20)
<1>6. QED
  BY <1>2, <1>4, <1>5 DEF one, r, v

\* Of a handle that heard the first of what was queued for it.
LEMMA HeardRest ==
  ASSUME TypeOK, NEW c \in Chan, Parses(c) => HeardWhole(c), Parses(c)' => Parses(c),
         inbox[c] # <<>>, inbox'[c] = Tail(inbox[c]), UNCHANGED <<stdout, worker, conn>>,
         handle'[c].st = handle[c].st, store \subseteq store',
         Parses(c) /\ Head(inbox[c]).tag = "OBJECT" => Head(inbox[c]).v \in store'
  PROVE  /\ (Parses(c) => HeardWhole(c))'
         /\ Parses(c) /\ Names(Head(inbox[c])) => Closure(Head(inbox[c]).v) \subseteq store'
<1> SUFFICES ASSUME Parses(c)
             PROVE  HeardWhole(c)' /\ (Names(Head(inbox[c])) => Closure(Head(inbox[c]).v) \subseteq store')
  OBVIOUS
<1> DEFINE m == Head(inbox[c])
           rest == Tail(inbox[c])
           out == stdout[c]
           todo == worker[c].todo
           all == (rest \o out) \o todo
<1>1. /\ inbox[c] \in Seq(Upward) /\ out \in Seq(Upward) /\ todo \in Seq(Upward)
      /\ ToMain(c) = (inbox[c] \o out) \o todo
  BY ToMainIs DEF ToMain
<1>2. m \in Upward /\ rest \in Seq(Upward) /\ inbox[c] = <<m>> \o rest
  BY <1>1
<1>3. HeardWhole(c)
  OBVIOUS
<1>4. m.tag = "OBJECT" => m.v \in store'
  OBVIOUS
<1>5. inbox'[c] = rest
  OBVIOUS
<1> HIDE DEF m, rest, out, todo, all
<1>6. store \cup Brought(<<m>>) \subseteq store'
  BY <1>4, CarriesOne
<1>7. Carries(rest, store') /\ (Names(m) => Closure(m.v) \subseteq store')
  <2>1. Carries(<<m>> \o rest, store)
    BY <1>2, <1>3 DEF HeardWhole
  <2>2. QED
    BY <1>2, <1>6, <2>1, CarriesRest
<1>8. all \in Seq(Upward) /\ ToMain(c)' = all
  <2>1. rest \o out \in Seq(Upward)
    BY <1>1, <1>2
  <2>2. (rest \o out) \o todo \in Seq(Upward)
    BY <1>1, <2>1
  <2>3. QED
    BY <1>5, <2>2 DEF ToMain, all, out, todo
<1>9. ToMain(c) = <<m>> \o all
  <2> DEFINE in == inbox[c]
             one == <<Head(in)>>
             left == Tail(in)
  <2>1. in \in Seq(Upward) /\ in # <<>>
    BY <1>1
  <2>2. (in \o out) \o todo = one \o ((left \o out) \o todo)
    <3> HIDE DEF in
    <3>1. QED
      BY <1>1, <2>1, HeadFirst
  <2> HIDE DEF left, one
  <2>3. QED
    BY <1>1, <2>2 DEF m, all, rest, left, one
<1>10. ASSUME Live(c)'
       PROVE  /\ Carries(all, store')
              /\ Running(c)' => \A o \in worker'[c].objects : Closure(o) \subseteq store' \cup Brought(all)
  <2>1. Live(c)
    BY <1>10 DEF Live
  <2>2. /\ Carries(<<m>> \o all, store)
        /\ Running(c) => \A o \in worker[c].objects : Closure(o) \subseteq store \cup Brought(<<m>> \o all)
    BY <1>3, <1>9, <2>1 DEF HeardWhole
  <2>3. Carries(all, store') /\ Brought(<<m>> \o all) \subseteq store' \cup Brought(all)
    <3>1. Carries(<<m>> \o all, store)
      BY <2>2
    <3>2. m \in Upward /\ all \in Seq(Upward)
      BY <1>2, <1>8
    <3>3. QED
      BY <1>6, <3>1, <3>2, CarriesRest
  <2>4. Running(c)' <=> Running(c)
    BY DEF Running
  <2>5. QED
    BY <2>2, <2>3, <2>4
<1>11. QED
  BY <1>5, <1>7, <1>8, <1>10 DEF HeardWhole, m

LEMMA HeardFirst ==
  ASSUME TypeOK, NEW c \in Chan, HeardWhole(c), inbox[c] # <<>>, Head(inbox[c]).tag # "OBJECT",
         Names(Head(inbox[c]))
  PROVE  Closure(Head(inbox[c]).v) \subseteq store
<1> DEFINE m == Head(inbox[c])
           rest == Tail(inbox[c])
<1>1. inbox[c] \in Seq(Upward) /\ Carries(inbox[c], store)
  BY PartsTyped DEF HeardWhole
<1>2. m \in Upward /\ rest \in Seq(Upward) /\ inbox[c] = <<m>> \o rest
  BY <1>1
<1>3. m.tag # "OBJECT" /\ Names(m)
  OBVIOUS
<1> HIDE DEF m, rest
<1>4. Carries(<<m>> \o rest, store) /\ Brought(<<m>>) = {}
  BY <1>1, <1>2, <1>3, CarriesOne
<1>5. QED
  BY <1>2, <1>3, <1>4, CarriesRest DEF m

\* What is sent of a value that is stored whole is.
LEMMA SentOfStored ==
  ASSUME NEW v \in Obj, NEW have, NEW S, Closure(v) \subseteq S
  PROVE  \A o \in Under(v, have) : Closure(o) \subseteq S
<1>1. Under(v, have) \subseteq Closure(v)
  BY ClosureSplits
<1>2. QED
  BY <1>1, ClosureProperties

LEMMA ObjectsThenAnswerStored ==
  ASSUME TypeOK, NEW c \in Chan, NEW v \in Obj, NEW asked \in {"GET_VALUE", "CALL"}, NEW S,
         Closure(v) \subseteq S
  PROVE  LET fs == Data(c, Objects(ToSend(c, v)) \o <<Answer(v, asked)>>)
         IN  \A i \in DOMAIN fs : IsStored(fs[i].m, S)
<1> DEFINE sent == ToSend(c, v)
           ms == Objects(sent) \o <<Answer(v, asked)>>
           fs == Data(c, ms)
<1>1. sent \in Seq(Obj) /\ Range(sent) = Under(v, handle[c].seen)
  BY ToSendIs
<1>2. \A o \in Range(sent) : Closure(o) \subseteq S
  BY <1>1, SentOfStored
<1> HIDE DEF sent
<1>3. /\ ms \in Seq(Downward) /\ Len(ms) = Len(sent) + 1
      /\ \A i \in 1..Len(sent) : ms[i] = Message("OBJECT", sent[i])
      /\ ms[Len(sent) + 1] = Answer(v, asked)
  BY <1>1, ObjectsThenAnswer
<1> HIDE DEF ms
<1>4. Len(fs) = Len(ms) /\ fs \in Seq(Frames) /\ \A i \in DOMAIN fs : fs[i] = Frame("DATA", c, ms[i])
  BY <1>3, DataIs
<1> HIDE DEF fs
<1>5. ASSUME NEW i \in DOMAIN fs
      PROVE  IsStored(fs[i].m, S)
  <2>1. fs[i].m = ms[i] /\ (i \in 1..Len(sent) \/ i = Len(sent) + 1)
    BY <1>1, <1>3, <1>4 DEF Frame
  <2>2. CASE i \in 1..Len(sent)
    <3>1. sent[i] \in Range(sent)
      BY <1>1, <2>2 DEF Range
    <3>2. \A o : Message("OBJECT", o).v = o
      BY DEF Message
    <3>3. fs[i].m.v = sent[i]
      BY <1>3, <2>1, <2>2, <3>2
    <3>4. QED
      BY <1>2, <3>1, <3>3 DEF IsStored
  <2>3. CASE i = Len(sent) + 1
    <3>1. ms[i] = Answer(v, asked)
      BY <1>3, <2>3
    <3>2. QED
      BY <2>1, <3>1 DEF IsStored, Answer
  <2>4. QED
    BY <2>1, <2>2, <2>3
<1>6. QED
  BY <1>5 DEF fs, ms, sent
LEMMA OneAnswerStored ==
  ASSUME NEW c \in Chan, NEW asked \in {"GET_VALUE", "CALL"}, NEW S
  PROVE  LET fs == Data(c, <<Answer(Nil, asked)>>)
         IN  \A i \in DOMAIN fs : IsStored(fs[i].m, S)
<1> DEFINE a == Answer(Nil, asked)
           s == <<a>>
<1>1. a \in Downward /\ a.tag = "REPLY"
  BY MessagesAre DEF Answer
<1> HIDE DEF a
<1>2. s \in Seq(Downward) /\ Len(s) = 1 /\ s[1] = a
  BY <1>1
<1> HIDE DEF s
<1>3. /\ Data(c, s) \in Seq(Frames) /\ Len(Data(c, s)) = 1
      /\ \A i \in DOMAIN Data(c, s) : Data(c, s)[i] = Frame("DATA", c, s[i])
  BY <1>2, DataIs
<1>4. \A i \in DOMAIN Data(c, s) : i = 1
  BY <1>3
<1>5. \A i \in DOMAIN Data(c, s) : Data(c, s)[i].m = a
  BY <1>2, <1>3, <1>4 DEF Frame
<1>6. QED
  BY <1>1, <1>5 DEF IsStored, s, a

\* Serving a worker's message raises nothing, and sends and stores nothing
\* that is not stored whole.
LEMMA FeedKeeps ==
  ASSUME TypeOK, AllWhole, NEW d \in Chan, Feed(d)
  PROVE  /\ (Parses(d) => HeardWhole(d))' /\ store \subseteq store' /\ verdict' = "none"
         /\ \A v \in records' : v \in records \/ Closure(v) \subseteq store'
         /\ \A i \in DOMAIN sched' : IsStored(sched'[i].m, store')
<1> DEFINE m == Head(inbox[d])
           h == handle[d]
           Quiet == verdict' = "none" /\ \A i \in DOMAIN sched' : IsStored(sched'[i].m, store')
<1>1. /\ inbox[d] # <<>> /\ inbox'[d] = Tail(inbox[d]) /\ sched = <<>>
      /\ UNCHANGED <<stdout, worker, conn>> /\ handle'[d].st = handle[d].st
  BY FeedIs DEF hostVars, Heard
<1>2. m \in Upward
  <2>1. inbox[d] \in Seq(Upward)
    BY PartsTyped
  <2>2. QED
    BY <1>1, <2>1
<1>3. (Parses(d) => HeardWhole(d)) /\ verdict = "none" /\ handle \in [Chan -> Handles]
  BY DEF AllWhole, TypeOK
<1>4. ASSUME Parses(d)' => Parses(d), store \subseteq store',
             Parses(d) /\ m.tag = "OBJECT" => m.v \in store'
      PROVE  /\ (Parses(d) => HeardWhole(d))'
             /\ Parses(d) /\ Names(m) => Closure(m.v) \subseteq store'
  BY <1>1, <1>3, <1>4, HeardRest
<1>5. ASSUME UNCHANGED <<sched, verdict>>
      PROVE  Quiet
  BY <1>1, <1>3, <1>5
<1>6. ASSUME NEW tag, Fed(d, tag)
      PROVE  m.tag = tag
  BY <1>6 DEF Fed
<1>7. CASE FeedExit(d)
  <2>1. Parses(d)' <=> Parses(d)
    BY <1>3, <1>7 DEF FeedExit, Parses, Handles
  <2>2. m.tag # "OBJECT" /\ UNCHANGED <<sched, verdict, store, records>>
    BY <1>6, <1>7 DEF FeedExit, disk
  <2> HIDE DEF m
  <2>3. QED
    BY <1>4, <1>5, <2>1, <2>2
<1>8. CASE FeedLate(d)
  <2>1. ~Parses(d)' /\ ~Parses(d)
    BY <1>3, <1>8 DEF FeedLate, Parses, Handles, Nil, None
  <2>2. UNCHANGED <<sched, verdict, store, records>>
    BY <1>8 DEF FeedLate, disk
  <2> HIDE DEF m
  <2>3. QED
    BY <1>4, <1>5, <2>1, <2>2
<1>9. CASE FeedPrint(d)
  <2>1. ~Parses(d)'
    BY <1>3, <1>9 DEF FeedPrint, Parses, Handles, Nil, None
  <2>2. UNCHANGED <<sched, verdict, store, records>>
    BY <1>9 DEF FeedPrint, disk
  <2> HIDE DEF m
  <2>3. QED
    BY <1>5, <2>1, <2>2
<1>10. CASE FeedObject(d)
  <2>1. Parses(d) /\ (Parses(d)' <=> Parses(d))
    BY <1>3, <1>10 DEF FeedObject, Parses, Handles
  <2>2. UNCHANGED <<sched, verdict, records>> /\ store' = store \cup {m.v}
    BY <1>10 DEF FeedObject, Kept
  <2> HIDE DEF m
  <2>3. QED
    BY <1>4, <1>5, <2>1, <2>2
<1>11. CASE FeedRecord(d)
  <2>1. /\ Parses(d) /\ m.tag = "RECORD" /\ UNCHANGED <<sched, verdict, store, handle>>
        /\ records' = records \cup {m.v}
    BY <1>6, <1>11 DEF FeedRecord, mainVars
  <2>2. Parses(d)' <=> Parses(d)
    BY <2>1 DEF Parses
  <2> HIDE DEF m
  <2>3. Names(m)
    <3>1. m.v \in Obj
      BY <1>2, <2>1, MessageIs
    <3>2. QED
      BY <2>1, <3>1, KidsAreBelow DEF Names, Nil
  <2>4. QED
    BY <1>4, <1>5, <2>1, <2>2, <2>3
<1>12. CASE FeedResult(d)
  <2>1. Parses(d) /\ m.tag = "RESULT" /\ UNCHANGED <<store, records>>
    BY <1>6, <1>12 DEF FeedResult, disk
  <2>2. m.v # Nil => Closure(m.v) \subseteq store
    BY <1>1, <1>3, <2>1, HeardFirst DEF Names
  <2>3. m.v = Nil \/ Resolves(m.v, handle[d].objects, store)
    <3>1. m.v \in Obj \cup {Nil}
      BY <1>2, MessageIs
    <3>2. QED
      BY <2>2, <3>1, WholeResolves
  <2>4. UNCHANGED <<sched, verdict>>
    BY <1>12, <2>3 DEF FeedResult
  <2> HIDE DEF m
  <2>5. QED
    BY <1>4, <1>5, <2>1, <2>4
<1>13. CASE FeedCall(d)
  <2>1. Parses(d) /\ m.tag = "CALL" /\ UNCHANGED <<store, records>> /\ m.v \in Obj
    BY <1>2, <1>6, <1>13, MessageIs DEF FeedCall, disk
  <2>2. Closure(m.v) \subseteq store
    BY <1>1, <1>3, <2>1, HeardFirst, KidsAreBelow DEF Names, Nil
  <2>3. Resolves(m.v, handle[d].objects, store)
    BY <2>1, <2>2, WholeResolves
  <2>4. UNCHANGED <<sched, verdict>> /\ handle' = [handle EXCEPT ![d].call = TRUE]
    BY <1>13, <2>3 DEF FeedCall
  <2>5. Parses(d)' <=> Parses(d)
    BY <1>3, <2>4 DEF Parses, Handles
  <2> HIDE DEF m
  <2>6. QED
    BY <1>4, <1>5, <2>1, <2>4, <2>5
<1>14. CASE FeedGet(d)
  <2>1. /\ Parses(d) /\ m.tag = "GET_VALUE" /\ UNCHANGED <<store, records, verdict>>
        /\ sched' = Data(d, RepliesToGet(d, m.v)) /\ m.v \in Obj
    BY <1>2, <1>6, <1>14, MessageIs DEF FeedGet, disk
  <2> DEFINE rs == RepliesToGet(d, m.v)
             sent == {r.v : r \in {q \in Range(rs) : q.tag = "OBJECT"}}
  <2>2. handle' = [handle EXCEPT ![d].seen = @ \cup sent]
    BY <1>14 DEF FeedGet
  <2> HIDE DEF m
  <2>3. Parses(d)' <=> Parses(d)
    <3> HIDE DEF sent
    <3>1. QED
      BY <1>3, <2>2 DEF Parses, Handles
  <2>4. \A i \in DOMAIN sched' : IsStored(sched'[i].m, store)
    <3>1. CASE Closure(m.v) \subseteq store
      <4>1. sched' = Data(d, Objects(ToSend(d, m.v)) \o <<Answer(m.v, "GET_VALUE")>>)
        BY <2>1, <3>1 DEF RepliesToGet
      <4>2. QED
        BY <2>1, <3>1, <4>1, ObjectsThenAnswerStored
    <3>2. CASE ~(Closure(m.v) \subseteq store)
      <4>1. sched' = Data(d, <<Answer(Nil, "GET_VALUE")>>)
        BY <2>1, <3>2 DEF RepliesToGet
      <4>2. QED
        BY <4>1, OneAnswerStored
    <3>3. QED
      BY <3>1, <3>2
  <2>5. QED
    BY <1>3, <1>4, <2>1, <2>3, <2>4
<1>15. QED
  BY <1>7, <1>8, <1>9, <1>10, <1>11, <1>12, <1>13, <1>14 DEF Feed
LEMMA FeedIsWhole ==
  ASSUME TypeOK, AllWhole, NEW d \in Chan, Feed(d)
  PROVE  AllWhole'
<1>1. /\ \A c \in Chan : c # d => handle'[c] = handle[c] /\ inbox'[c] = inbox[c]
      /\ UNCHANGED <<pool, conn, down, hostVars>>
  BY FeedIs
<1>2. /\ (Parses(d) => HeardWhole(d))' /\ store \subseteq store' /\ verdict' = "none"
      /\ \A v \in records' : v \in records \/ Closure(v) \subseteq store'
      /\ \A i \in DOMAIN sched' : IsStored(sched'[i].m, store')
  BY FeedKeeps
<1>3. AllStored(records)' /\ SentIsStored /\ \A c \in Chan : Parses(c) => HeardWhole(c)
  BY <1>2 DEF AllWhole, AllStored
<1>4. SentIsStored'
  <2>1. UNCHANGED <<down, pool, stdin>>
    BY <1>1 DEF hostVars
  <2>2. QED
    BY <1>2, <1>3, <2>1, SentStays
<1>5. ASSUME NEW c \in Chan, c # d
      PROVE  (Parses(c) => HeardWhole(c))'
  <2>1. (Parses(c)' <=> Parses(c)) /\ (Live(c)' <=> Live(c)) /\ (Running(c)' <=> Running(c))
    BY <1>1, <1>5 DEF Parses, Live, Running, hostVars
  <2>2. UNCHANGED <<stdout, worker>> /\ inbox'[c] = inbox[c]
    BY <1>1, <1>5 DEF hostVars
  <2>3. QED
    BY <1>2, <1>3, <2>1, <2>2, SameIsWhole
<1>6. QED
  BY <1>2, <1>3, <1>4, <1>5 DEF AllWhole

-----------------------------------------------------------------------------
(* Tasks started                                                           *)

LEMMA CatRange ==
  ASSUME NEW S, NEW s \in Seq(S), NEW t \in Seq(S)
  PROVE  Range(s \o t) = Range(s) \cup Range(t)
<1> DEFINE u == s \o t
<1>1. /\ DOMAIN u = 1..(Len(s) + Len(t)) /\ DOMAIN s = 1..Len(s) /\ DOMAIN t = 1..Len(t)
      /\ Len(s) \in Nat /\ Len(t) \in Nat
  OBVIOUS
<1>2. /\ \A i \in 1..Len(s) : i \in DOMAIN u /\ u[i] = s[i]
      /\ \A i \in 1..Len(t) : Len(s) + i \in DOMAIN u /\ u[Len(s) + i] = t[i]
  OBVIOUS
<1>3. ASSUME NEW i \in DOMAIN u
      PROVE  (i \in 1..Len(s) /\ u[i] = s[i]) \/ (i - Len(s) \in 1..Len(t) /\ u[i] = t[i - Len(s)])
  OBVIOUS
<1> HIDE DEF u
<1>4. \A x : x \in Range(u) <=> x \in Range(s) \/ x \in Range(t)
  <2>1. ASSUME NEW i \in DOMAIN u
        PROVE  u[i] \in Range(s) \/ u[i] \in Range(t)
    BY <1>1, <1>3 DEF Range
  <2>2. ASSUME NEW i \in DOMAIN s
        PROVE  s[i] \in Range(u)
    BY <1>1, <1>2 DEF Range
  <2>3. ASSUME NEW i \in DOMAIN t
        PROVE  t[i] \in Range(u)
    BY <1>1, <1>2 DEF Range
  <2>4. QED
    BY <2>1, <2>2, <2>3 DEF Range
<1>5. Range(u) = Range(s) \cup Range(t)
  BY <1>4
<1>6. QED
  BY <1>5 DEF u

\* A task that was not started has a worker that was not, and nothing queued.
LEMMA StartKeeps ==
  ASSUME TypeOK, AllWhole, NEW d \in Chan, Fresh(d), Truth(d), Start(d) \/ StartRefused(d)
  PROVE  /\ (Parses(d) => HeardWhole(d))' /\ store \subseteq store'
         /\ \A i \in DOMAIN sched' : IsStored(sched'[i].m, store')
         /\ \A c \in Chan : c # d => handle'[c] = handle[c]
         /\ UNCHANGED <<verdict, pool, wires, hostVars, records>>
<1>1. /\ handle[d].st = "none" /\ handle \in [Chan -> Handles]
      /\ UNCHANGED <<verdict, pool, wires, hostVars, records>>
      /\ \A c \in Chan : c # d => handle'[c] = handle[c]
  BY DEF Start, StartRefused, disk, TypeOK
<1>2. /\ worker[d].pc = "none" /\ worker[d].todo = <<>> /\ stdout[d] = <<>> /\ inbox[d] = <<>>
      /\ handle[d].seen = {}
  BY <1>1 DEF Fresh, Truth, OpensOnce
<1>3. HeardWhole(d)'
  <2>1. /\ inbox'[d] = <<>> /\ stdout'[d] = <<>> /\ worker'[d].todo = <<>>
        /\ worker'[d].pc = "none"
    BY <1>1, <1>2 DEF wires, hostVars
  <2>2. ToMain(d)' = <<>>
    BY <2>1 DEF ToMain
  <2>3. Carries(<<>>, store') /\ ~Running(d)'
    BY <2>1, CarriesNone DEF Running
  <2>4. QED
    BY <2>1, <2>2, <2>3 DEF HeardWhole
<1>4. \A tag, c : Control(tag, c).m.tag = "none"
  BY DEF Control, Frame, Message
<1>5. CASE Start(d)
  <2> DEFINE sent == ToSend(d, Input[d])
             os == Objects(sent)
             ms == <<Message("HELLO", Nil)>> \o os \o <<Message("TASK", Input[d])>>
  <2>1. sent \in Seq(Obj) /\ Range(sent) = Closure(Input[d]) /\ Input[d] \in Obj
    BY <1>2, Given, ToSendIs DEF Closure
  <2>2. store' = store \cup Range(sent) /\ sched' = <<Control("OPEN", d)>> \o Data(d, ms)
    BY <1>5 DEF Start, Kept
  <2>3. \A o \in Range(sent) : Closure(o) \subseteq store'
    BY <2>1, <2>2, ClosureProperties
  <2> HIDE DEF sent
  <2>4. /\ os \in Seq(Downward) /\ Len(os) = Len(sent)
        /\ \A i \in DOMAIN os : os[i] = Message("OBJECT", sent[i])
    BY <2>1, ObjectsAre
  <2>5. \A i \in DOMAIN os : IsStored(os[i], store')
    <3>1. \A i \in DOMAIN os : sent[i] \in Range(sent)
      BY <2>1, <2>4 DEF Range
    <3>2. \A o : Message("OBJECT", o).v = o
      BY DEF Message
    <3> HIDE DEF os
    <3>3. \A i \in DOMAIN os : os[i].v = sent[i]
      BY <2>4, <3>2
    <3>4. QED
      BY <2>3, <3>1, <3>3 DEF IsStored
  <2> DEFINE hello == Message("HELLO", Nil)
             task == Message("TASK", Input[d])
  <2>6. hello \in Downward /\ task \in Downward /\ hello.tag = "HELLO" /\ task.tag = "TASK"
    BY <2>1, MessagesAre DEF Message
  <2> HIDE DEF hello, task, os
  <2>7. ms = <<hello>> \o os \o <<task>>
    BY DEF hello, task
  <2>8. ms \in Seq(Downward) /\ \A i \in DOMAIN ms : ms[i] \in {hello, task} \cup Range(os)
    <3>1. ms \in Seq(Downward)
      BY <2>4, <2>6, <2>7
    <3> DEFINE one == <<hello>>
               u == one \o os
               last == <<task>>
    <3>2. /\ one \in Seq(Downward) /\ last \in Seq(Downward) /\ Range(one) = {hello}
          /\ Range(last) = {task} /\ u \in Seq(Downward)
      <4>1. one \in Seq(Downward) /\ last \in Seq(Downward)
        BY <2>6
      <4>2. /\ DOMAIN one = {1} /\ one[1] = hello
            /\ DOMAIN last = {1} /\ last[1] = task
        OBVIOUS
      <4> HIDE DEF one, last
      <4>3. Range(one) = {hello} /\ Range(last) = {task}
        BY <4>2 DEF Range
      <4>4. u \in Seq(Downward)
        BY <2>4, <4>1
      <4>5. QED
        BY <4>1, <4>3, <4>4
    <3> HIDE DEF one, last
    <3>3. Range(u) = Range(one) \cup Range(os)
      <4> HIDE DEF os
      <4>1. QED
        BY <2>4, <3>2, CatRange
    <3> HIDE DEF u
    <3>4. Range(ms) = Range(u) \cup Range(last)
      <4>1. ms = u \o last
        BY <2>7 DEF one, u, last
      <4>2. Range(u \o last) = Range(u) \cup Range(last)
        BY <3>2, CatRange
      <4>3. QED
        BY <4>1, <4>2
    <3>5. \A i \in DOMAIN ms : ms[i] \in Range(ms)
      BY DEF Range
    <3>6. QED
      BY <3>1, <3>2, <3>3, <3>4, <3>5
  <2> HIDE DEF ms
  <2>9. \A i \in DOMAIN ms : IsStored(ms[i], store')
    <3>1. IsStored(hello, store') /\ IsStored(task, store')
      BY <2>6 DEF IsStored
    <3>2. \A m \in Range(os) : IsStored(m, store')
      BY <2>5 DEF Range
    <3>3. QED
      BY <2>8, <3>1, <3>2
  <2> DEFINE fs == Data(d, ms)
             first == Control("OPEN", d)
  <2>10. /\ fs \in Seq(Frames) /\ Len(fs) = Len(ms)
         /\ \A i \in DOMAIN fs : fs[i] = Frame("DATA", d, ms[i])
    BY <2>8, DataIs
  <2> HIDE DEF fs, first
  <2>11. \A i \in DOMAIN fs : IsStored(fs[i].m, store')
    <3>1. \A i \in DOMAIN fs : i \in DOMAIN ms /\ fs[i].m = ms[i]
      BY <2>8, <2>10 DEF Frame
    <3>2. QED
      BY <2>9, <3>1
  <2>12. IsStored(first.m, store')
    BY <1>4 DEF first, IsStored
  <2>13. \A i \in DOMAIN sched' : \/ sched'[i] = first
                                  \/ i - 1 \in DOMAIN fs /\ sched'[i] = fs[i - 1]
    <3>1. sched' = <<first>> \o fs
      BY <2>2 DEF first, fs
    <3>2. QED
      BY <2>10, <3>1
  <2>14. \A i \in DOMAIN sched' : IsStored(sched'[i].m, store')
    BY <2>11, <2>12, <2>13
  <2>15. QED
    BY <1>1, <1>3, <2>2, <2>14
<1>6. CASE StartRefused(d)
  <2>1. /\ handle' = [handle EXCEPT ![d].st = "open", ![d].result = Nil] /\ UNCHANGED store
        /\ sched' = <<Control("OPEN", d), Frame("DATA", d, Message("HELLO", Nil)), Control("KILL", d)>>
    BY <1>6 DEF StartRefused, disk
  <2>2. \A i \in DOMAIN sched' : sched'[i].m.tag # "OBJECT"
    <3> DEFINE f == Control("OPEN", d)
               g == Frame("DATA", d, Message("HELLO", Nil))
               k == Control("KILL", d)
    <3>1. f.m.tag = "none" /\ g.m.tag = "HELLO" /\ k.m.tag = "none"
      BY <1>4 DEF Frame, Message
    <3> HIDE DEF f, g, k
    <3>2. sched' = <<f, g, k>>
      BY <2>1 DEF f, g, k
    <3>3. QED
      BY <3>1, <3>2
  <2>3. QED
    BY <1>1, <1>3, <2>1, <2>2 DEF IsStored
<1>7. QED
  BY <1>5, <1>6

LEMMA StartIsWhole ==
  ASSUME TypeOK, AllWhole, NEW d \in Chan, Fresh(d), Truth(d), Start(d) \/ StartRefused(d)
  PROVE  AllWhole'
<1>1. /\ (Parses(d) => HeardWhole(d))' /\ store \subseteq store'
      /\ \A i \in DOMAIN sched' : IsStored(sched'[i].m, store')
      /\ \A c \in Chan : c # d => handle'[c] = handle[c]
      /\ UNCHANGED <<verdict, pool, wires, hostVars, records>>
  BY StartKeeps
<1>2. UNCHANGED <<verdict, pool, conn, down, inbox, stdin, stdout, worker, records>>
  BY <1>1 DEF wires, hostVars
<1>3. /\ SentIsStored /\ \A c \in Chan : Parses(c) => HeardWhole(c)
      /\ verdict' = "none" /\ AllStored(records)'
  BY <1>1, <1>2 DEF AllWhole, AllStored
<1>4. SentIsStored'
  BY <1>1, <1>2, <1>3, SentStays
<1>5. ASSUME NEW c \in Chan, c # d
      PROVE  (Parses(c) => HeardWhole(c))'
  <2>1. (Parses(c)' <=> Parses(c)) /\ (Live(c)' <=> Live(c)) /\ (Running(c)' <=> Running(c))
    BY <1>1, <1>2, <1>5 DEF Parses, Live, Running
  <2>2. QED
    BY <1>1, <1>2, <1>3, <2>1, SameIsWhole
<1>6. QED
  BY <1>1, <1>3, <1>4, <1>5 DEF AllWhole
-----------------------------------------------------------------------------
(* Frames and handles                                                      *)

\* Of a step that says nothing new for any worker, and ends none.
LEMMA QuietIsWhole ==
  ASSUME TypeOK, AllWhole, store \subseteq store', UNCHANGED <<verdict, inbox, stdout, worker, records>>,
         \A c \in Chan : (Parses(c)' => Parses(c)) /\ (Live(c)' => Live(c)),
         \A i \in DOMAIN sched' : \/ IsStored(sched'[i].m, store')
                                  \/ \E j \in DOMAIN sched : sched'[i] = sched[j],
         \A i \in DOMAIN down' : \/ IsStored(down'[i].m, store')
                                 \/ \E j \in DOMAIN down : down'[i] = down[j],
         \A c \in Chan : \A i \in DOMAIN pool'[c] :
            \/ IsStored(pool'[c][i].m, store')
            \/ \E j \in DOMAIN pool[c] : pool'[c][i] = pool[c][j],
         \A c \in Chan : \A i \in DOMAIN stdin'[c] :
            \/ IsStored(stdin'[c][i], store')
            \/ \E j \in DOMAIN stdin[c] : stdin'[c][i] = stdin[c][j]
  PROVE  AllWhole'
<1>1. SentIsStored /\ verdict' = "none" /\ AllStored(records)'
  BY DEF AllWhole, AllStored
<1>2. SentIsStored'
  BY <1>1, SentStays
<1>3. ASSUME NEW c \in Chan
      PROVE  (Parses(c) => HeardWhole(c))'
  <2>1. Parses(c) => HeardWhole(c)
    BY DEF AllWhole
  <2>2. Running(c)' <=> Running(c)
    BY DEF Running
  <2>3. QED
    BY <2>1, <2>2, SameIsWhole
<1>4. QED
  BY <1>1, <1>2, <1>3 DEF AllWhole

LEMMA CalledIs ==
  ASSUME TypeOK, NEW d \in Chan, Calls(d)
  PROVE  /\ \A c \in Chan : handle'[c].st = handle[c].st /\ handle'[c].result = handle[c].result
                            /\ handle'[c].deaf = handle[c].deaf
         /\ \A c \in Chan : c # d => handle'[c] = handle[c]
         /\ handle[d].call
<1> DEFINE sent == Range(ToSend(d, Told))
<1> HIDE DEF sent
<1>1. handle \in [Chan -> Handles]
  BY DEF TypeOK
<1>2. ASSUME handle' = [handle EXCEPT ![d].call = FALSE, ![d].seen = @ \cup sent]
      PROVE  /\ \A c \in Chan : handle'[c].st = handle[c].st /\ handle'[c].result = handle[c].result
                                /\ handle'[c].deaf = handle[c].deaf
             /\ \A c \in Chan : c # d => handle'[c] = handle[c]
  BY <1>1, <1>2 DEF Handles
<1>3. ASSUME handle' = [handle EXCEPT ![d].call = FALSE]
      PROVE  /\ \A c \in Chan : handle'[c].st = handle[c].st /\ handle'[c].result = handle[c].result
                                /\ handle'[c].deaf = handle[c].deaf
             /\ \A c \in Chan : c # d => handle'[c] = handle[c]
  BY <1>1, <1>3 DEF Handles
<1>4. handle[d].call
  BY DEF Calls, RunCall, RunCallFails
<1>5. \/ handle' = [handle EXCEPT ![d].call = FALSE]
      \/ handle' = [handle EXCEPT ![d].call = FALSE, ![d].seen = @ \cup sent]
  BY DEF Calls, RunCall, RunCallFails, sent
<1>6. QED
  BY <1>2, <1>3, <1>4, <1>5

\* The value of a @pure_local call is in the store before it is sent, unless
\* a breakpoint forced it.
LEMMA CallsIsWhole ==
  ASSUME TypeOK, AllWhole, NEW d \in Chan, Calls(d), ~forced'
  PROVE  AllWhole'
<1> DEFINE sent == ToSend(d, Told)
           ms == Objects(sent) \o <<Answer(Told, "CALL")>>
           failed == <<Answer(Nil, "CALL")>>
<1>1. Told \in Obj /\ handle \in [Chan -> Handles] /\ DOMAIN pool = Chan
  BY Given DEF TypeOK
<1>2. UNCHANGED <<main, verdict, sched, outcome, wires, hostVars, records>>
  BY DEF Calls, RunCall, RunCallFails, disk
<1>3. /\ store \subseteq store'
      /\ RunCall(d) => Closure(Told) \subseteq store'
  <2>1. CASE RunCall(d)
    <3>1. PICK force \in Forced : /\ store' = IF force THEN store ELSE Kept(Closure(Told))
                                  /\ forced' = (forced \/ force)
      BY <2>1 DEF RunCall
    <3>2. force \in BOOLEAN /\ forced \in BOOLEAN
      BY <3>1, Given DEF TypeOK
    <3>3. ~force
      BY <3>1, <3>2
    <3>4. QED
      BY <3>1, <3>3 DEF Kept
  <2>2. CASE RunCallFails(d)
    BY <2>2, <2>1 DEF RunCallFails, disk
  <2>3. QED
    BY <2>1, <2>2 DEF Calls
<1>4. \A c \in Chan : handle'[c].st = handle[c].st /\ handle'[c].result = handle[c].result
                    /\ handle'[c].deaf = handle[c].deaf
  BY CalledIs
<1>5. \A c \in Chan : (Parses(c)' <=> Parses(c)) /\ (Live(c)' <=> Live(c))
  BY <1>2, <1>4 DEF Parses, Live, wires
<1>6. \/ UNCHANGED pool
      \/ pool' = [pool EXCEPT ![d] = Data(d, ms)] /\ RunCall(d)
      \/ pool' = [pool EXCEPT ![d] = Data(d, failed)]
  BY DEF Calls, RunCall, RunCallFails
<1>7. RunCall(d) => \A i \in DOMAIN Data(d, ms) : IsStored(Data(d, ms)[i].m, store')
  BY <1>1, <1>3, ObjectsThenAnswerStored
<1>8. \A i \in DOMAIN Data(d, failed) : IsStored(Data(d, failed)[i].m, store')
  BY OneAnswerStored
<1> HIDE DEF ms, failed
<1>9. \A c \in Chan : \A i \in DOMAIN pool'[c] :
            \/ IsStored(pool'[c][i].m, store')
            \/ \E j \in DOMAIN pool[c] : pool'[c][i] = pool[c][j]
  BY <1>1, <1>6, <1>7, <1>8
<1>10. UNCHANGED <<verdict, inbox, stdout, worker, records, sched, down, stdin>>
  BY <1>2 DEF wires, hostVars
<1>11. QED
  BY <1>3, <1>5, <1>9, <1>10, QuietIsWhole

LEMMA EndsIsWhole ==
  ASSUME TypeOK, AllWhole, NEW d \in Chan, Collect(d) \/ Expire(d)
  PROVE  AllWhole'
<1>1. \A tag, c : Control(tag, c).m.tag = "none"
  BY DEF Control, Frame, Message
<1>2. /\ UNCHANGED <<verdict, pool, wires, hostVars, store, records>>
      /\ handle' = [handle EXCEPT ![d].st = "dropped"]
  BY DEF Collect, Expire, disk
<1>3. \A i \in DOMAIN sched' : sched'[i].m.tag # "OBJECT"
  <2>1. CASE Collect(d)
    <3> DEFINE f == Control("CLOSE", d)
    <3>1. f.m.tag = "none"
      BY <1>1
    <3>2. sched' = <<f>>
      BY <2>1 DEF Collect
    <3> HIDE DEF f
    <3>3. QED
      BY <3>1, <3>2
  <2>2. CASE Expire(d)
    <3> DEFINE f == Control("KILL", d)
               g == Control("CLOSE", d)
    <3>1. f.m.tag = "none" /\ g.m.tag = "none"
      BY <1>1
    <3>2. sched' = <<f, g>>
      BY <2>2 DEF Expire
    <3> HIDE DEF f, g
    <3>3. QED
      BY <3>1, <3>2
  <2>3. QED
    BY <2>1, <2>2
<1>4. UNCHANGED <<verdict, inbox, stdout, worker, store, records, down, stdin, conn, pool>>
  BY <1>2 DEF wires, hostVars
<1>5. \A c \in Chan : (Parses(c)' => Parses(c)) /\ (Live(c)' => Live(c))
  BY <1>2, <1>4 DEF Parses, Live, TypeOK, Handles
<1>6. \A i \in DOMAIN sched' : IsStored(sched'[i].m, store')
  BY <1>3 DEF IsStored
<1>7. QED
  BY <1>4, <1>5, <1>6, QuietIsWhole

LEMMA ClosingIsWhole ==
  ASSUME TypeOK, AllWhole, Finish \/ CloseHost \/ Drop
  PROVE  AllWhole'
<1>1. /\ UNCHANGED <<verdict, pool, handle, inbox, stdin, stdout, worker, store, records>>
      /\ conn' = "up" => conn = "up"
  BY DEF Finish, CloseHost, Drop, wires, hostVars, disk, mainVars
<1>2. \A c \in Chan : (Parses(c)' => Parses(c)) /\ (Live(c)' => Live(c))
  BY <1>1 DEF Parses, Live
<1>3. CASE Finish
  <2>1. \A i \in DOMAIN sched' : IsStored(sched'[i].m, store')
    BY <1>3, KillsAre DEF Finish, IsStored
  <2>2. UNCHANGED down
    BY <1>3 DEF Finish, wires
  <2>3. QED
    BY <1>1, <1>2, <2>1, <2>2, QuietIsWhole
<1>4. CASE CloseHost
  <2>1. UNCHANGED <<sched, down>>
    BY <1>4 DEF CloseHost
  <2>2. QED
    BY <1>1, <1>2, <2>1, QuietIsWhole
<1>5. CASE Drop
  <2>1. PICK n \in 0..Len(down) : down' = SubSeq(down, 1, n)
    BY <1>5 DEF Drop
  <2>2. \A i \in DOMAIN down' : i \in DOMAIN down /\ down'[i] = down[i]
    BY <2>1 DEF TypeOK
  <2>3. UNCHANGED sched
    BY <1>5 DEF Drop, mainVars
  <2>4. QED
    BY <1>1, <1>2, <2>2, <2>3, QuietIsWhole
<1>6. QED
  BY <1>3, <1>4, <1>5

\* The reader's last word to a handle is that there is no more to hear.
LEMMA ReaderIsWhole ==
  ASSUME TypeOK, AllWhole, ReaderEnds
  PROVE  AllWhole'
<1> DEFINE m == Message("CLOSED", Nil)
<1>1. /\ UNCHANGED <<verdict, sched, pool, handle, down, stdin, store, records>> /\ conn' = "gone"
      /\ \A c \in Chan : inbox'[c] = inbox[c] \/ inbox'[c] = Append(inbox[c], m)
  BY DEF ReaderEnds, mainVars, hostVars, disk
<1>2. SentIsStored /\ verdict' = "none" /\ AllStored(records)'
  BY <1>1 DEF AllWhole, AllStored
<1>3. SentIsStored'
  BY <1>1, <1>2, SentStays
<1>4. m \in Upward /\ ~Names(m)
  BY MessagesAre DEF Names, Message
<1> HIDE DEF m
<1>5. ASSUME NEW c \in Chan
      PROVE  (Parses(c) => HeardWhole(c))'
  <2> DEFINE in == inbox[c]
             one == <<m>>
  <2>1. (Parses(c)' <=> Parses(c)) /\ ~Live(c)'
    BY <1>1 DEF Parses, Live
  <2>2. in \in Seq(Upward) /\ one \in Seq(Upward) /\ (inbox'[c] = in \/ inbox'[c] = in \o one)
    <3>1. in \in Seq(Upward)
      BY PartsTyped
    <3>2. Append(in, m) = in \o one
      BY <1>4, <3>1
    <3>3. QED
      BY <1>1, <1>4, <3>1, <3>2
  <2>3. Parses(c) => Carries(in, store)
    BY DEF AllWhole, HeardWhole
  <2>4. \A had : Carries(one, had)
    BY <1>4, CarriesOne
  <2> HIDE DEF in, one
  <2>5. Parses(c) => Carries(in \o one, store)
    BY <2>2, <2>3, <2>4, CarriesCat
  <2>6. QED
    BY <1>1, <2>1, <2>2, <2>3, <2>5 DEF HeardWhole
<1>6. QED
  BY <1>2, <1>3, <1>5 DEF AllWhole

LEMMA WritesDownIsWhole ==
  ASSUME TypeOK, AllWhole, SchedWrites \/ \E d \in Chan : PoolWrites(d)
  PROVE  AllWhole'
<1>1. ASSUME NEW s \in Seq(Frames), s # <<>>
      PROVE  /\ Head(s) \in Frames /\ 1 \in DOMAIN s /\ Head(s) = s[1]
             /\ \A i \in DOMAIN Tail(s) : i + 1 \in DOMAIN s /\ Tail(s)[i] = s[i + 1]
  BY <1>1
<1>2. UNCHANGED <<verdict, handle, conn, inbox, stdin, stdout, worker, store, records>>
  BY DEF SchedWrites, PoolWrites, hostVars, disk
<1>3. \A c \in Chan : (Parses(c)' => Parses(c)) /\ (Live(c)' => Live(c))
  BY <1>2 DEF Parses, Live
<1>4. ASSUME NEW f \in Frames, Sent(f), IsStored(f.m, store)
      PROVE  \A i \in DOMAIN down' : \/ IsStored(down'[i].m, store)
                                     \/ \E j \in DOMAIN down : down'[i] = down[j]
  BY <1>4, SentIs
<1>5. CASE SchedWrites
  <2>1. sched \in Seq(Frames) /\ sched # <<>> /\ Sent(Head(sched)) /\ sched' = Tail(sched)
        /\ UNCHANGED pool
    BY <1>5 DEF SchedWrites, TypeOK
  <2> DEFINE f == Head(sched)
  <2>2. /\ f \in Frames /\ 1 \in DOMAIN sched /\ f = sched[1]
        /\ \A i \in DOMAIN sched' : i + 1 \in DOMAIN sched /\ sched'[i] = sched[i + 1]
    BY <1>1, <2>1
  <2> HIDE DEF f
  <2>3. IsStored(f.m, store)
    BY <2>2 DEF AllWhole, SentIsStored
  <2>4. \A i \in DOMAIN down' : \/ IsStored(down'[i].m, store)
                                \/ \E j \in DOMAIN down : down'[i] = down[j]
    BY <1>4, <2>1, <2>2, <2>3 DEF f
  <2>5. QED
    BY <1>2, <1>3, <2>1, <2>2, <2>4, QuietIsWhole
<1>6. ASSUME NEW d \in Chan, PoolWrites(d)
      PROVE  AllWhole'
  <2>1. /\ pool[d] \in Seq(Frames) /\ pool[d] # <<>> /\ Sent(Head(pool[d])) /\ UNCHANGED sched
        /\ pool'[d] = Tail(pool[d]) /\ \A c \in Chan : c # d => pool'[c] = pool[c]
    BY <1>6 DEF PoolWrites, TypeOK
  <2> DEFINE s == pool[d]
             f == Head(s)
  <2>2. /\ f \in Frames /\ 1 \in DOMAIN s /\ f = s[1]
        /\ \A i \in DOMAIN pool'[d] : i + 1 \in DOMAIN s /\ pool'[d][i] = s[i + 1]
    BY <1>1, <2>1
  <2> HIDE DEF f
  <2>3. IsStored(f.m, store)
    BY <2>2 DEF AllWhole, SentIsStored
  <2>4. \A i \in DOMAIN down' : \/ IsStored(down'[i].m, store)
                                \/ \E j \in DOMAIN down : down'[i] = down[j]
    BY <1>4, <2>1, <2>2, <2>3 DEF f
  <2>5. \A c \in Chan : \A i \in DOMAIN pool'[c] : \E j \in DOMAIN pool[c] : pool'[c][i] = pool[c][j]
    BY <2>1, <2>2
  <2>6. QED
    BY <1>2, <1>3, <2>1, <2>4, <2>5, QuietIsWhole
<1>7. QED
  BY <1>5, <1>6
-----------------------------------------------------------------------------
(* The host process                                                        *)

\* Of a step of the host process: workers end, or say and have what they did.
LEMMA HostKeeps ==
  ASSUME TypeOK, AllWhole, UNCHANGED <<mainVars, conn, inbox, stdout, store, records>>,
         \A i \in DOMAIN down' : \E j \in DOMAIN down : down'[i] = down[j],
         \A c \in Chan : \A i \in DOMAIN stdin'[c] :
            \/ IsStored(stdin'[c][i], store)
            \/ \E j \in DOMAIN stdin[c] : stdin'[c][i] = stdin[c][j],
         \A c \in Chan :
            \/ worker'[c] = Ended(c)[c]
            \/ /\ worker'[c].todo = worker[c].todo
               /\ Running(c)' => \A o \in worker'[c].objects : Running(c) /\ o \in worker[c].objects
  PROVE  AllWhole'
<1>1. UNCHANGED <<verdict, sched, pool, handle>>
  BY DEF mainVars
<1>2. SentIsStored /\ verdict' = "none" /\ AllStored(records)'
  BY <1>1 DEF AllWhole, AllStored
<1>3. SentIsStored'
  BY <1>1, <1>2, SentStays
<1>4. ASSUME NEW c \in Chan
      PROVE  (Parses(c) => HeardWhole(c))'
  <2>1. Parses(c) => HeardWhole(c)
    BY DEF AllWhole
  <2>2. (Parses(c)' <=> Parses(c)) /\ (Live(c)' <=> Live(c))
    BY <1>1 DEF Parses, Live
  <2>3. CASE worker'[c] = Ended(c)[c]
    BY <2>1, <2>2, <2>3, EndedIsWhole
  <2>4. CASE /\ worker'[c].todo = worker[c].todo
             /\ Running(c)' => \A o \in worker'[c].objects : Running(c) /\ o \in worker[c].objects
    BY <2>1, <2>2, <2>4, SameIsWhole
  <2>5. QED
    BY <2>3, <2>4
<1>5. QED
  BY <1>2, <1>3, <1>4 DEF AllWhole

LEMMA HostLoopIsWhole ==
  ASSUME TypeOK, AllWhole, \A c \in Chan : Truth(c) /\ Fresh(c), HostLoop
  PROVE  AllWhole'
<1> DEFINE f == Head(down)
<1>1. ASSUME NEW tag, Takes(tag)
      PROVE  /\ f \in Frames /\ f.c \in Chan /\ f.tag = tag /\ IsStored(f.m, store)
             /\ 1 \in DOMAIN down /\ f = down[1]
             /\ \A i \in DOMAIN down' : \E j \in DOMAIN down : down'[i] = down[j]
             /\ UNCHANGED <<mainVars, conn, inbox, store, records>>
  <2>1. /\ f \in Frames /\ f.c \in Chan /\ f.tag = tag /\ 1 \in DOMAIN down /\ f = down[1]
        /\ \A i \in DOMAIN down' : i + 1 \in DOMAIN down /\ down'[i] = down[i + 1]
        /\ UNCHANGED <<mainVars, conn, inbox, disk>>
    BY <1>1, TakesIs
  <2> HIDE DEF f
  <2>2. IsStored(f.m, store)
    BY <2>1 DEF AllWhole, SentIsStored
  <2>3. QED
    BY <2>1, <2>2 DEF disk
<1>2. ASSUME NEW c \in Chan, worker'[c] = worker[c]
      PROVE  /\ worker'[c].todo = worker[c].todo
             /\ Running(c)' => \A o \in worker'[c].objects : Running(c) /\ o \in worker[c].objects
  BY <1>2 DEF Running
<1>3. CASE HostOpens
  <2>1. Takes("OPEN") /\ UNCHANGED <<stdin, stdout>> /\ worker' = [worker EXCEPT ![f.c].pc = "starting"]
    BY <1>3 DEF HostOpens
  <2>2. /\ f.c \in Chan /\ f.tag = "OPEN" /\ 1 \in DOMAIN down /\ f = down[1]
        /\ \A i \in DOMAIN down' : \E j \in DOMAIN down : down'[i] = down[j]
        /\ UNCHANGED <<mainVars, conn, inbox, store, records>>
    BY <1>1, <2>1
  <2> HIDE DEF f
  <2>3. worker[f.c].objects = {}
    BY <2>2 DEF Truth, OpensOnce, OpenAt, Fresh
  <2>4. ASSUME NEW c \in Chan
        PROVE  /\ worker'[c].todo = worker[c].todo
               /\ Running(c)' => \A o \in worker'[c].objects : Running(c) /\ o \in worker[c].objects
    <3>1. CASE c = f.c
      <4>1. worker'[c].todo = worker[c].todo /\ worker'[c].objects = worker[c].objects
        BY <2>1, <3>1 DEF TypeOK, Workers
      <4>2. QED
        BY <2>3, <3>1, <4>1
    <3>2. CASE c # f.c
      BY <1>2, <2>1, <3>2 DEF TypeOK
    <3>3. QED
      BY <3>1, <3>2
  <2>5. QED
    BY <2>1, <2>2, <2>4, HostKeeps
<1>4. CASE HostWrites
  <2>1. /\ Takes("DATA") /\ UNCHANGED <<stdout, worker>>
        /\ UNCHANGED stdin \/ stdin' = [stdin EXCEPT ![f.c] = Append(@, f.m)]
    BY <1>4 DEF HostWrites
  <2>2. /\ f \in Frames /\ f.c \in Chan /\ IsStored(f.m, store)
        /\ \A i \in DOMAIN down' : \E j \in DOMAIN down : down'[i] = down[j]
        /\ UNCHANGED <<mainVars, conn, inbox, store, records>>
    BY <1>1, <2>1
  <2> HIDE DEF f
  <2>3. ASSUME NEW c \in Chan, NEW i \in DOMAIN stdin'[c]
        PROVE  \/ IsStored(stdin'[c][i], store)
               \/ \E j \in DOMAIN stdin[c] : stdin'[c][i] = stdin[c][j]
    <3> DEFINE s == stdin[c]
    <3>1. s \in Seq(Downward)
      BY PartsTyped
    <3>2. stdin'[c] = s \/ stdin'[c] = Append(s, f.m)
      BY <2>1 DEF TypeOK
    <3> HIDE DEF s
    <3>3. stdin'[c][i] = f.m \/ (i \in DOMAIN s /\ stdin'[c][i] = s[i])
      <4>1. CASE stdin'[c] = Append(s, f.m)
        BY <2>3, <3>1, <4>1
      <4>2. QED
        BY <2>3, <3>2, <4>1
    <3>4. QED
      BY <2>2, <3>3 DEF s
  <2>4. \A c \in Chan : /\ worker'[c].todo = worker[c].todo
                        /\ Running(c)' => \A o \in worker'[c].objects :
                                            Running(c) /\ o \in worker[c].objects
    BY <1>2, <2>1
  <2>5. QED
    BY <2>1, <2>2, <2>3, <2>4, HostKeeps
<1>5. CASE HostCloses
  <2>1. /\ Takes("CLOSE") /\ UNCHANGED <<stdin, stdout>>
        /\ UNCHANGED worker \/ worker' = [worker EXCEPT ![f.c].eof = TRUE]
    BY <1>5 DEF HostCloses
  <2>2. /\ f.c \in Chan
        /\ \A i \in DOMAIN down' : \E j \in DOMAIN down : down'[i] = down[j]
        /\ UNCHANGED <<mainVars, conn, inbox, store, records>>
    BY <1>1, <2>1
  <2> HIDE DEF f
  <2>3. ASSUME NEW c \in Chan
        PROVE  /\ worker'[c].todo = worker[c].todo
               /\ Running(c)' => \A o \in worker'[c].objects : Running(c) /\ o \in worker[c].objects
    <3>1. CASE worker' = [worker EXCEPT ![f.c].eof = TRUE]
      <4>1. worker'[c].todo = worker[c].todo /\ worker'[c].objects = worker[c].objects
            /\ worker'[c].pc = worker[c].pc
        BY <3>1 DEF TypeOK, Workers
      <4>2. QED
        BY <4>1 DEF Running
    <3>2. CASE UNCHANGED worker
      BY <1>2, <3>2
    <3>3. QED
      BY <2>1, <3>1, <3>2
  <2>4. QED
    BY <2>1, <2>2, <2>3, HostKeeps
<1>6. CASE HostKills
  <2>1. /\ Takes("KILL") /\ UNCHANGED <<stdin, stdout>>
        /\ worker' = worker \/ worker' = Ended(f.c)
    BY <1>6 DEF HostKills
  <2>2. /\ f.c \in Chan
        /\ \A i \in DOMAIN down' : \E j \in DOMAIN down : down'[i] = down[j]
        /\ UNCHANGED <<mainVars, conn, inbox, store, records>>
    BY <1>1, <2>1
  <2> HIDE DEF f
  <2>3. \A c \in Chan : worker'[c] = worker[c] \/ worker'[c] = Ended(c)[c]
    <3>1. \A c \in Chan : c # f.c => Ended(f.c)[c] = worker[c]
      BY DEF Ended, TypeOK
    <3>2. QED
      BY <2>1, <3>1
  <2>4. \A c \in Chan : \/ worker'[c] = Ended(c)[c]
                        \/ /\ worker'[c].todo = worker[c].todo
                           /\ Running(c)' => \A o \in worker'[c].objects :
                                               Running(c) /\ o \in worker[c].objects
    BY <1>2, <2>3
  <2>5. QED
    BY <2>1, <2>2, <2>4, HostKeeps
<1>7. CASE HostEnds
  <2>1. UNCHANGED <<mainVars, conn, down, inbox, stdin, stdout, store, records>>
    BY <1>7 DEF HostEnds, wires, disk
  <2>2. \A c \in Chan : worker'[c] = worker[c] \/ worker'[c] = Ended(c)[c]
    BY <1>7 DEF HostEnds
  <2>3. \A c \in Chan : \/ worker'[c] = Ended(c)[c]
                        \/ /\ worker'[c].todo = worker[c].todo
                           /\ Running(c)' => \A o \in worker'[c].objects :
                                               Running(c) /\ o \in worker[c].objects
    BY <1>2, <2>2
  <2>4. QED
    BY <2>1, <2>3, HostKeeps
<1>8. QED
  BY <1>3, <1>4, <1>5, <1>6, <1>7 DEF HostLoop

LEMMA AppendIs ==
  ASSUME NEW S, NEW s \in Seq(S), NEW m \in S
  PROVE  Append(s, m) = s \o <<m>>
OBVIOUS

LEMMA HeadThenTail ==
  ASSUME NEW S, NEW s \in Seq(S), s # <<>>
  PROVE  s = <<Head(s)>> \o Tail(s)
OBVIOUS

\* What the forwarder reads is queued, if the task can still be told.
LEMMA ForwardHeard ==
  ASSUME TypeOK, NEW c \in Chan, Parses(c) => HeardWhole(c), Truth(c), Forward(c) \/ ForwardExit(c)
  PROVE  (Parses(c) => HeardWhole(c))'
<1> DEFINE in == inbox[c]
           out == stdout[c]
           todo == worker[c].todo
<1>1. in \in Seq(Upward) /\ out \in Seq(Upward) /\ todo \in Seq(Upward)
      /\ ToMain(c) = (in \o out) \o todo
  BY ToMainIs DEF ToMain
<1>2. UNCHANGED <<handle, conn, store>>
  BY DEF Forward, ForwardExit, mainVars, disk
<1>3. (Parses(c)' <=> Parses(c)) /\ (Live(c)' <=> Live(c))
  BY <1>2 DEF Parses, Live
<1>4. CASE Forward(c) /\ Live(c)
  <2>1. /\ out # <<>> /\ inbox'[c] = Append(in, Head(out)) /\ stdout'[c] = Tail(out)
        /\ worker'[c] = worker[c]
    BY <1>4 DEF Forward, Queued, Live, TypeOK
  <2> DEFINE m == Head(out)
             rest == Tail(out)
             one == <<m>>
  <2>2. m \in Upward /\ rest \in Seq(Upward) /\ one \in Seq(Upward)
    BY <1>1, <2>1
  <2>3. (in \o one) \o rest = in \o out /\ Append(in, m) = in \o one
    <3>1. out = <<Head(out)>> \o Tail(out)
      <4> HIDE DEF out
      <4>1. QED
        BY <1>1, <2>1, HeadThenTail
    <3>2. Append(in, m) = in \o one
      <4> HIDE DEF in, m
      <4>1. QED
        BY <1>1, <2>2
    <3> HIDE DEF in, out, m, rest, one
    <3>3. (in \o one) \o rest = in \o (one \o rest)
      BY <1>1, <2>2
    <3>4. QED
      BY <3>1, <3>2, <3>3 DEF one, m, rest
  <2>4. ToMain(c)' = ToMain(c)
    <3>1. ToMain(c)' = (Append(in, m) \o rest) \o todo
      BY <2>1 DEF ToMain
    <3> HIDE DEF in, out, todo, m, rest, one
    <3>2. QED
      BY <1>1, <2>3, <3>1
  <2>5. Parses(c) => Carries(inbox'[c], store)
    <3>1. Parses(c) => Carries((in \o out) \o todo, store)
      BY <1>1, <1>4 DEF HeardWhole
    <3> HIDE DEF in, out, todo, m, rest
    <3>2. in \o one \in Seq(Upward) /\ in \o out \in Seq(Upward)
      BY <1>1, <2>2
    <3> DEFINE first == in \o one
               all == in \o out
    <3>3. first \in Seq(Upward) /\ all \in Seq(Upward) /\ all = first \o rest
      BY <2>3, <3>2
    <3>4. inbox'[c] = first
      BY <2>1, <2>3 DEF m
    <3> HIDE DEF first, all, one
    <3>5. Parses(c) => Carries(all, store)
      BY <1>1, <3>1, <3>3, CarriesCat DEF all
    <3>6. Parses(c) => Carries(first, store)
      BY <2>2, <3>3, <3>5, CarriesCat
    <3>7. QED
      BY <3>4, <3>6
  <2>6. Running(c)' <=> Running(c)
    BY <2>1 DEF Running
  <2> HIDE DEF in, out, todo
  <2>7. QED
    BY <1>2, <1>3, <2>1, <2>4, <2>5, <2>6 DEF HeardWhole
<1>5. CASE ForwardExit(c) /\ Live(c)
  <2> DEFINE m == Message("EXIT", Nil)
             one == <<m>>
  <2>1. m \in Upward /\ ~Names(m)
    BY MessagesAre DEF Names, Message
  <2>2. /\ out = <<>> /\ worker[c].pc = "ended" /\ inbox'[c] = Append(in, m) /\ stdout'[c] = <<>>
    BY <1>5 DEF ForwardExit, Queued, Live, TypeOK
  <2>3. worker'[c].todo = todo /\ worker'[c].pc = "reaped"
    BY <1>5 DEF ForwardExit, TypeOK, Workers
  <2>4. todo = <<>>
    BY <2>2 DEF Truth, Word
  <2> HIDE DEF m
  <2>5. one \in Seq(Upward) /\ Append(in, m) = in \o one
    <3>1. one \in Seq(Upward)
      BY <2>1
    <3> HIDE DEF in
    <3>2. Append(in, m) = in \o one
      BY <1>1, <2>1, AppendIs
    <3>3. QED
      BY <3>1, <3>2
  <2>6. \A had : Carries(one, had)
    BY <2>1, CarriesOne
  <2>7. inbox'[c] = in \o one
    BY <2>2, <2>5
  <2>8. ToMain(c)' = in \o one
    <3> DEFINE s == in \o one
    <3>1. s \in Seq(Upward)
      BY <1>1, <2>5
    <3>2. ToMain(c)' = (s \o <<>>) \o <<>>
      BY <2>2, <2>3, <2>4, <2>7 DEF ToMain
    <3> HIDE DEF s
    <3>3. QED
      BY <3>1, <3>2 DEF s
  <2>9. Parses(c) => Carries(in, store)
    BY DEF HeardWhole
  <2> HIDE DEF in, out, todo, one
  <2>10. Parses(c) => Carries(in \o one, store)
    BY <1>1, <2>5, <2>6, <2>9, CarriesCat
  <2>11. ~Running(c)'
    BY <2>3 DEF Running
  <2>12. QED
    BY <1>2, <1>3, <2>7, <2>8, <2>10, <2>11 DEF HeardWhole
<1>6. CASE ~Live(c)
  <2>1. UNCHANGED inbox
    BY <1>6 DEF Forward, ForwardExit, Queued, Live
  <2>2. QED
    BY <1>2, <1>3, <1>6, <2>1 DEF HeardWhole
<1>7. QED
  BY <1>4, <1>5, <1>6

LEMMA ForwardedIsWhole ==
  ASSUME TypeOK, AllWhole, \A c \in Chan : Truth(c), NEW d \in Chan, Forward(d) \/ ForwardExit(d)
  PROVE  AllWhole'
<1>1. UNCHANGED <<verdict, sched, pool, handle, conn, down, stdin, store, records>>
  BY DEF Forward, ForwardExit, mainVars, disk
<1>2. SentIsStored /\ verdict' = "none" /\ AllStored(records)'
  BY <1>1 DEF AllWhole, AllStored
<1>3. SentIsStored'
  BY <1>1, <1>2, SentStays
<1>4. \A c \in Chan : Parses(c) => HeardWhole(c)
  BY DEF AllWhole
<1>5. (Parses(d) => HeardWhole(d))'
  BY <1>4, ForwardHeard
<1>6. ASSUME NEW c \in Chan, c # d
      PROVE  (Parses(c) => HeardWhole(c))'
  <2>1. stdout'[c] = stdout[c] /\ worker'[c] = worker[c] /\ inbox'[c] = inbox[c]
    BY <1>6 DEF Forward, ForwardExit, Queued, TypeOK
  <2>2. (Parses(c)' <=> Parses(c)) /\ (Live(c)' <=> Live(c)) /\ (Running(c)' <=> Running(c))
    BY <1>1, <2>1 DEF Parses, Live, Running
  <2>3. QED
    BY <1>1, <1>4, <2>1, <2>2, SameIsWhole
<1>7. QED
  BY <1>2, <1>3, <1>5, <1>6 DEF AllWhole
-----------------------------------------------------------------------------
(* What has not begun, and all of it                                       *)

\* A worker that takes a step has been started.
LEMMA WorkerStarted ==
  ASSUME TypeOK, NEW d \in Chan, Fresh(d), Worker(d) \/ PrintsOut(d) \/ Crashes(d) \/ Hangs(d)
  PROVE  worker'[d].pc # "none"
<1> USE DEF Steps
<1>1. worker \in [Chan -> Workers]
  BY DEF TypeOK
<1>2. Ended(d)[d].pc # "none" /\ Fails(d)[d].pc # "none"
  BY <1>1 DEF Ended, Fails, Workers
<1>3. ASSUME NEW v, NEW more, NEW pc, Put(d, v, more, pc)
      PROVE  worker'[d].pc = pc
  BY <1>1, <1>3 DEF Put, Workers
<1>4. CASE TakesHello(d) \/ Accepts(d) \/ Hangs(d)
  BY <1>1, <1>4 DEF TakesHello, Accepts, Hangs, Workers
<1>5. CASE Refuses(d) \/ Raises(d) \/ FindsEnd(d) \/ Exits(d) \/ Crashes(d)
  BY <1>2, <1>5 DEF Refuses, Raises, FindsEnd, Exits, Crashes
<1>6. CASE TakesObject(d)
  BY <1>1, <1>6 DEF TakesObject, Received, Workers
<1>7. CASE TakesTask(d)
  BY <1>1, <1>2, <1>7 DEF TakesTask, Workers
<1>8. CASE TakesReply(d)
  BY <1>1, <1>8 DEF TakesReply, Workers
<1>9. CASE AsksCall(d) \/ \E v \in Made : Records(d, v) \/ Returns(d, v)
  BY <1>3, <1>9 DEF AsksCall, Records, Returns
<1>10. ASSUME NEW v \in Looked, AsksValue(d, v)
       PROVE  worker'[d].pc # "none"
  <2> DEFINE w == worker[d]
             t == <<Message("GET_VALUE", v)>>
  <2>1. w \in Workers
    BY <1>1
  <2>2. worker'[d] = [w EXCEPT !.pc = "asking", !.ask = "GET_VALUE", !.asks = w.asks + 1, !.todo = t]
    BY <1>1, <1>10 DEF AsksValue
  <2> HIDE DEF w, t
  <2>3. QED
    BY <2>1, <2>2 DEF Workers
<1>11. CASE Writes(d) \/ PrintsOut(d)
  <2>1. worker'[d].pc = worker[d].pc
    BY <1>1, <1>11 DEF Writes, PrintsOut, Workers
  <2>2. worker[d].pc # "none"
    BY <1>11 DEF Writes, PrintsOut, Fresh
  <2>3. QED
    BY <2>1, <2>2
<1>12. QED
  BY <1>4, <1>5, <1>6, <1>7, <1>8, <1>9, <1>10, <1>11 DEF Worker

LEMMA FreshStays ==
  ASSUME TypeOK, NEW c \in Chan, Fresh(c), [Next]_vars
  PROVE  Fresh(c)'
<1> DEFINE TaskStays == \/ handle'[c].st # "none"
                        \/ handle'[c] = handle[c] /\ inbox'[c] = inbox[c]
           WorkerStays == \/ worker'[c].pc # "none"
                          \/ /\ worker'[c].pc = worker[c].pc /\ worker'[c].todo = worker[c].todo
                             /\ worker'[c].objects = worker[c].objects /\ stdout'[c] = stdout[c]
<1>1. handle \in [Chan -> Handles] /\ worker \in [Chan -> Workers]
  BY DEF TypeOK
<1>2. ASSUME UNCHANGED <<stdout, worker>>
      PROVE  WorkerStays
  BY <1>2
<1>3. ASSUME UNCHANGED <<handle, inbox>>
      PROVE  TaskStays
  BY <1>3
<1>4. ASSUME NEW d \in Chan, Start(d) \/ StartRefused(d) \/ Collect(d) \/ Expire(d)
      PROVE  TaskStays /\ WorkerStays
  <2>1. UNCHANGED <<stdout, worker, inbox>>
    BY <1>4 DEF Start, StartRefused, Collect, Expire, hostVars, wires
  <2>2. TaskStays
    BY <1>1, <1>4, <2>1 DEF Start, StartRefused, Collect, Expire, Handles
  <2>3. QED
    BY <1>2, <2>1, <2>2
<1>5. ASSUME NEW d \in Chan, Feed(d)
      PROVE  TaskStays /\ WorkerStays
  <2>1. /\ UNCHANGED <<stdout, worker>> /\ inbox[d] # <<>> /\ handle'[d].st = handle[d].st
        /\ c # d => handle'[c] = handle[c] /\ inbox'[c] = inbox[c]
    BY <1>5, FeedIs DEF hostVars, Heard
  <2>2. TaskStays
    BY <2>1 DEF Fresh
  <2>3. QED
    BY <1>2, <2>1, <2>2
<1>6. ASSUME NEW d \in Chan, Calls(d)
      PROVE  TaskStays /\ WorkerStays
  <2>1. UNCHANGED <<stdout, worker, inbox>>
    BY <1>6 DEF Calls, RunCall, RunCallFails, hostVars, wires
  <2>2. /\ handle'[c].st = handle[c].st /\ handle[d].call
        /\ c # d => handle'[c] = handle[c]
    BY <1>6, CalledIs
  <2>3. TaskStays
    BY <2>1, <2>2 DEF Fresh
  <2>4. QED
    BY <1>2, <2>1, <2>3
<1>7. ASSUME NEW d \in Chan, Forward(d) \/ ForwardExit(d)
      PROVE  TaskStays /\ WorkerStays
  <2>1. /\ UNCHANGED handle
        /\ inbox'[c] = inbox[c] \/ handle[c].st = "open"
    BY <1>7 DEF Forward, ForwardExit, Queued, mainVars, TypeOK
  <2>2. WorkerStays
    <3>1. CASE c = d /\ Forward(d)
      BY <3>1 DEF Forward, Fresh
    <3>2. CASE c = d /\ ForwardExit(d)
      BY <1>1, <3>2 DEF ForwardExit, Workers
    <3>3. CASE c # d
      BY <1>7, <3>3 DEF Forward, ForwardExit, TypeOK
    <3>4. QED
      BY <1>7, <3>1, <3>2, <3>3
  <2>3. QED
    BY <2>1, <2>2
<1>8. ASSUME NEW d \in Chan, Worker(d) \/ PrintsOut(d) \/ Crashes(d) \/ Hangs(d)
      PROVE  TaskStays /\ WorkerStays
  <2>1. /\ UNCHANGED <<mainVars, wires>>
        /\ c # d => worker'[c] = worker[c] /\ stdout'[c] = stdout[c]
    BY <1>8, OneWorkerSteps
  <2>2. c = d => worker'[c].pc # "none"
    BY <1>8, WorkerStarted
  <2>3. UNCHANGED <<handle, inbox>>
    BY <2>1 DEF mainVars, wires
  <2>4. QED
    BY <1>3, <2>1, <2>2, <2>3
<1>9. ASSUME HostLoop
      PROVE  TaskStays /\ WorkerStays
  <2>1. UNCHANGED <<handle, inbox, stdout>>
    BY <1>9 DEF HostLoop, HostOpens, HostWrites, HostCloses, HostKills, HostEnds, Takes, mainVars,
                wires
  <2>2. Ended(c)[c].pc = "ended"
    BY <1>1 DEF Ended, Workers
  <2>3. \/ worker'[c] = worker[c] \/ worker'[c].pc # "none"
        \/ worker'[c] = [worker[c] EXCEPT !.eof = TRUE]
    <3>1. CASE HostOpens
      <4>1. \E d : worker' = [worker EXCEPT ![d].pc = "starting"]
        BY <3>1 DEF HostOpens
      <4>2. QED
        BY <1>1, <4>1 DEF Workers
    <3>2. CASE HostWrites
      BY <3>2 DEF HostWrites
    <3>3. CASE HostCloses
      <4>1. UNCHANGED worker \/ \E d : worker' = [worker EXCEPT ![d].eof = TRUE]
        BY <3>3 DEF HostCloses
      <4>2. QED
        BY <1>1, <4>1 DEF Workers
    <3>4. CASE HostKills
      <4>1. UNCHANGED worker \/ \E d : worker' = Ended(d)
        BY <3>4 DEF HostKills
      <4>2. ASSUME NEW d, worker' = Ended(d)
            PROVE  worker'[c] = worker[c] \/ worker'[c].pc # "none"
        BY <1>1, <4>2 DEF Ended, Workers
      <4>3. QED
        BY <4>1, <4>2
    <3>5. CASE HostEnds
      <4>1. worker'[c] = worker[c] \/ worker'[c] = Ended(c)[c]
        BY <3>5 DEF HostEnds
      <4>2. QED
        BY <2>2, <4>1
    <3>6. QED
      BY <1>9, <3>1, <3>2, <3>3, <3>4, <3>5 DEF HostLoop
  <2>4. WorkerStays
    BY <1>1, <2>1, <2>3 DEF Workers
  <2>5. QED
    BY <1>3, <2>1, <2>4
<1>10. ASSUME ReaderEnds
       PROVE  TaskStays /\ WorkerStays
  <2>1. UNCHANGED <<handle, stdout, worker>> /\ (inbox'[c] = inbox[c] \/ handle[c].st = "open")
    BY <1>10 DEF ReaderEnds, mainVars, hostVars
  <2>2. WorkerStays
    BY <1>2, <2>1
  <2>3. TaskStays
    BY <2>1
  <2>4. QED
    BY <2>2, <2>3
<1>11. ASSUME \/ Finish \/ CloseHost \/ Drop \/ SchedWrites \/ Clear \/ UNCHANGED vars
              \/ \E d \in Chan : PoolWrites(d)
       PROVE  TaskStays /\ WorkerStays
  <2>1. UNCHANGED <<handle, inbox, stdout, worker>>
    BY <1>11 DEF Finish, CloseHost, Drop, SchedWrites, Clear, vars, PoolWrites, mainVars, wires,
                 hostVars
  <2>2. WorkerStays
    BY <1>2, <2>1
  <2>3. TaskStays
    BY <1>3, <2>1
  <2>4. QED
    BY <2>2, <2>3
<1> HIDE DEF TaskStays, WorkerStays
<1>12. TaskStays /\ WorkerStays
  BY <1>4, <1>5, <1>6, <1>7, <1>8, <1>9, <1>10, <1>11 DEF Next
<1>13. QED
  BY <1>12 DEF Fresh, TaskStays, WorkerStays

\* The store loses nothing that a step does not clear.
LEMMA IntactWas ==
  ASSUME TypeOK, [Next]_vars, Intact'
  PROVE  Intact /\ ~Clear
<1>1. clears \in Nat /\ forced \in BOOLEAN
  BY DEF TypeOK
<1>2. ASSUME NEW d \in Chan, Calls(d)
      PROVE  clears' = clears /\ (forced => forced')
  <2>1. CASE RunCall(d)
    BY <2>1 DEF RunCall
  <2>2. CASE RunCallFails(d)
    BY <2>2 DEF RunCallFails, disk
  <2>3. QED
    BY <1>2, <2>1, <2>2 DEF Calls
<1>3. ASSUME NEW d \in Chan, Feed(d)
      PROVE  UNCHANGED <<clears, forced>>
  BY <1>3 DEF Feed, FeedExit, FeedLate, FeedObject, FeedResult, FeedRecord, FeedGet, FeedCall,
              FeedPrint, disk
<1>4. ASSUME NEW d \in Chan, Worker(d) \/ PrintsOut(d) \/ Crashes(d) \/ Hangs(d)
      PROVE  UNCHANGED <<clears, forced>>
  BY <1>4, OneWorkerSteps
<1>5. ASSUME NEW d \in Chan,
             \/ Start(d) \/ StartRefused(d) \/ Collect(d) \/ Expire(d)
             \/ PoolWrites(d) \/ Forward(d) \/ ForwardExit(d)
      PROVE  UNCHANGED <<clears, forced>>
  BY <1>5 DEF Start, StartRefused, Collect, Expire, PoolWrites, Forward, ForwardExit, disk
<1>6. ASSUME Finish \/ CloseHost \/ Drop \/ ReaderEnds \/ SchedWrites \/ HostLoop
      PROVE  UNCHANGED <<clears, forced>>
  BY <1>6 DEF Finish, CloseHost, Drop, ReaderEnds, SchedWrites, HostLoop, HostOpens, HostWrites,
              HostCloses, HostKills, HostEnds, Takes, disk
<1>7. ~Clear
  BY <1>1 DEF Clear, Intact
<1>8. ASSUME UNCHANGED vars
      PROVE  UNCHANGED <<clears, forced>>
  BY <1>8 DEF vars, disk
<1>9. clears' = clears /\ (forced => forced')
  BY <1>2, <1>3, <1>4, <1>5, <1>6, <1>7, <1>8 DEF Next
<1>10. QED
  BY <1>7, <1>9 DEF Intact

LEMMA StepIsWhole ==
  ASSUME TypeOK, AllWhole, \A c \in Chan : Truth(c) /\ Fresh(c), [Next]_vars, Intact'
  PROVE  AllWhole'
<1>1. ~Clear /\ ~forced'
  BY IntactWas DEF Intact
<1>2. ASSUME NEW d \in Chan,
             \/ Start(d) \/ StartRefused(d) \/ Feed(d) \/ Calls(d) \/ Collect(d) \/ Expire(d)
             \/ PoolWrites(d) \/ Forward(d) \/ ForwardExit(d)
      PROVE  AllWhole'
  <2>1. CASE Start(d) \/ StartRefused(d)
    BY <2>1, StartIsWhole
  <2>2. CASE Feed(d)
    BY <2>2, FeedIsWhole
  <2>3. CASE Calls(d)
    BY <1>1, <2>3, CallsIsWhole
  <2>4. CASE Collect(d) \/ Expire(d)
    BY <2>4, EndsIsWhole
  <2>5. CASE PoolWrites(d)
    BY <2>5, WritesDownIsWhole
  <2>6. CASE Forward(d) \/ ForwardExit(d)
    BY <2>6, ForwardedIsWhole
  <2>7. QED
    BY <1>2, <2>1, <2>2, <2>3, <2>4, <2>5, <2>6
<1>3. ASSUME NEW d \in Chan, Worker(d) \/ PrintsOut(d) \/ Crashes(d) \/ Hangs(d)
      PROVE  AllWhole'
  BY <1>3, WorkerIsWhole
<1>4. CASE Finish \/ CloseHost \/ Drop \/ ReaderEnds
  BY <1>4, ClosingIsWhole, ReaderIsWhole
<1>5. CASE SchedWrites \/ HostLoop
  BY <1>5, WritesDownIsWhole, HostLoopIsWhole
<1>6. CASE UNCHANGED vars
  <2>1. \A c \in Chan : (Parses(c)' => Parses(c)) /\ (Live(c)' => Live(c))
    BY <1>6 DEF vars, mainVars, wires, Parses, Live
  <2>2. UNCHANGED <<verdict, sched, pool, down, inbox, stdin, stdout, worker, store, records>>
    BY <1>6 DEF vars, mainVars, wires, hostVars, disk
  <2>3. QED
    BY <2>1, <2>2, QuietIsWhole
<1>7. QED
  BY <1>1, <1>2, <1>3, <1>4, <1>5, <1>6 DEF Next

LEMMA InitIsWhole ==
  ASSUME Init
  PROVE  AllWhole /\ \A c \in Chan : Fresh(c)
<1> USE DEF Init
<1>1. \A c \in Chan : Fresh(c)
  BY DEF Fresh
<1>2. SentIsStored /\ verdict = "none" /\ AllStored(records)
  BY DEF SentIsStored, AllStored
<1>3. ASSUME NEW c \in Chan
      PROVE  HeardWhole(c)
  <2>1. inbox[c] = <<>> /\ ~Live(c)
    BY DEF Live
  <2>2. QED
    BY <2>1, CarriesNone DEF HeardWhole
<1>4. QED
  BY <1>1, <1>2, <1>3 DEF AllWhole

\* What the next two theorems rest on, as long as the store was not cleared
\* and no breakpoint forced a call.
LEMMA WholeHolds == Spec => [](Intact => verdict = "none" /\ AllStored(records))
<1> DEFINE Inv == (Intact => AllWhole) /\ \A c \in Chan : Truth(c) /\ Fresh(c)
<1>1. Init => Inv
  BY InitIsTrue, InitIsWhole
<1>2. TypeOK /\ TypeOK' /\ Inv /\ [Next]_vars => Inv'
  <2> SUFFICES ASSUME TypeOK, TypeOK', Inv, [Next]_vars
               PROVE  Inv'
    OBVIOUS
  <2>1. \A c \in Chan : Truth(c)'
    BY StepIsTrue
  <2>2. \A c \in Chan : Fresh(c)'
    BY FreshStays
  <2>3. Intact' => AllWhole'
    BY IntactWas, StepIsWhole
  <2>4. QED
    BY <2>1, <2>2, <2>3
<1>3. Inv => (Intact => verdict = "none" /\ AllStored(records))
  BY DEF AllWhole
<1>4. Spec => []TypeOK
  BY ChannelTyping
<1> HIDE DEF Inv
<1>5. QED
  BY <1>1, <1>2, <1>3, <1>4, PTL DEF Spec

\* A record that a worker sends, for any tasks, graph and bounds, is stored
\* after all that its value is made of, though the worker sends only what the
\* main process has neither sent nor received (put_value, _handle_record):
\* as long as the store was not cleared and no breakpoint forced a call.
\* What a worker has is then in the store or on its way to it, ahead of what
\* names it (HeardWhole), which is why what it leaves out is there.
THEOREM RecordsHold == Spec => []RecordsAreWhole
<1>1. Spec => [](Intact => verdict = "none" /\ AllStored(records))
  BY WholeHolds
<1>2. (Intact => verdict = "none" /\ AllStored(records)) => RecordsAreWhole
  BY DEF Intact, AllStored, RecordsAreWhole
<1>3. QED
  BY <1>1, <1>2, PTL

\* No worker's message makes run_all raise (feed, _handle_result, _handle_call):
\* what a worker names, the handle or the store has, for any tasks, graph and
\* bounds, whatever ends workers, as long as the store was not cleared and
\* no breakpoint forced a call.
THEOREM NothingEscapesHolds == Spec => []NothingEscapes
<1>1. Spec => [](Intact => verdict = "none" /\ AllStored(records))
  BY WholeHolds
<1>2. (Intact => verdict = "none" /\ AllStored(records)) => NothingEscapes
  BY DEF Intact, NothingEscapes
<1>3. QED
  BY <1>1, <1>2, PTL
=============================================================================
