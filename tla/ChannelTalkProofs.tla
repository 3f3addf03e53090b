-------------------------- MODULE ChannelTalkProofs --------------------------
(***************************************************************************)
(* What holds of a task's conversation for any tasks, graph and bounds: that *)
(* what one side names the other can rebuild, that an object crosses once, *)
(* and that a request has one reply.  Each is of what is on its way, which *)
(* several threads write: the messages of a task's streams are therefore   *)
(* described first (Up, Down), then what each side knows of the other      *)
(* (Exchanges, Crosses), then which thread writes when (Wired); all of it  *)
(* together is kept by every step.                                         *)
(***************************************************************************)
EXTENDS ChannelProofs

-----------------------------------------------------------------------------
(* What is on its way to a worker                                          *)

\* Numbers shifted are as many.
LEMMA ShiftIs ==
  ASSUME NEW B \in SUBSET Nat, IsFiniteSet(B), NEW n \in Nat
  PROVE  LET C == {n + b : b \in B}
         IN  IsFiniteSet(C) /\ Cardinality(C) = Cardinality(B)
<1> DEFINE C == {n + b : b \in B}
           f == [b \in B |-> n + b]
<1>1. \A b \in B : b \in Nat
  OBVIOUS
<1>2. f \in [B -> C]
  OBVIOUS
<1>3. \A a, b \in B : f[a] = f[b] => a = b
  <2>1. \A a, b \in Nat : n + a = n + b => a = b
    OBVIOUS
  <2>2. \A b \in B : f[b] = n + b
    OBVIOUS
  <2> HIDE DEF f
  <2>3. QED
    BY <1>1, <2>1, <2>2
<1>4. \A x \in C : \E b \in B : f[b] = x
  OBVIOUS
<1> HIDE DEF C, f
<1>5. f \in Bijection(B, C)
  BY <1>2, <1>3, <1>4, Fun_IsInj, Fun_IsSurj, Fun_IsBij
<1>6. ExistsBijection(B, C)
  BY <1>5 DEF ExistsBijection
<1>7. QED
  BY <1>6, FS_Bijection DEF C

\* Where the messages to c are among frames.
Mine(frames, c) == {i \in DOMAIN frames : frames[i].tag = "DATA" /\ frames[i].c = c}

LEMMA OnDownIs ==
  ASSUME NEW s \in Seq(Frames), NEW c
  PROVE  LET A == Mine(s, c)
         IN  /\ A \in SUBSET Nat /\ IsFiniteSet(A) /\ Cardinality(A) \in Nat
             /\ \A i \in A : i \in 1..Len(s)
             /\ OnDown(s, c) = [k \in 1..Cardinality(A) |-> s[InOrder(A)[k]].m]
             /\ OnDown(s, c) \in Seq(Downward) /\ Len(OnDown(s, c)) = Cardinality(A)
             /\ \A k \in 1..Cardinality(A) : InOrder(A)[k] \in A
<1> DEFINE A == Mine(s, c)
<1>1. A \in SUBSET (1..Len(s)) /\ Len(s) \in Nat
  BY DEF Mine
<1>2. A \in SUBSET Nat /\ IsFiniteSet(A) /\ Cardinality(A) \in Nat
  <2>1. IsFiniteSet(1..Len(s))
    BY <1>1, FS_Interval
  <2>2. IsFiniteSet(A)
    BY <1>1, <2>1, FS_Subset
  <2> HIDE DEF A
  <2>3. QED
    BY <1>1, <2>2, FS_CardinalityType
<1>3. OnDown(s, c) = [k \in DOMAIN InOrder(A) |-> s[InOrder(A)[k]].m]
  BY DEF OnDown, Mine
<1> HIDE DEF A
<1>4. /\ DOMAIN InOrder(A) = 1..Cardinality(A)
      /\ \A k \in 1..Cardinality(A) : InOrder(A)[k] \in A
  BY <1>2, InOrderIs
<1>5. \A i \in 1..Len(s) : s[i].m \in Downward
  <2>1. \A i \in 1..Len(s) : s[i] \in Frames
    OBVIOUS
  <2>2. QED
    BY <2>1, MessageIs
<1>6. \A k \in 1..Cardinality(A) : s[InOrder(A)[k]].m \in Downward
  BY <1>1, <1>4, <1>5
<1>7. OnDown(s, c) = [k \in 1..Cardinality(A) |-> s[InOrder(A)[k]].m]
  BY <1>3, <1>4
<1>8. OnDown(s, c) \in Seq(Downward) /\ Len(OnDown(s, c)) = Cardinality(A)
  BY <1>2, <1>6, <1>7
<1>9. QED
  BY <1>1, <1>2, <1>4, <1>7, <1>8 DEF A

\* Frames that follow others bring what they bring after it.
LEMMA OnDownCat ==
  ASSUME NEW s \in Seq(Frames), NEW t \in Seq(Frames), NEW c
  PROVE  OnDown(s \o t, c) = OnDown(s, c) \o OnDown(t, c)
<1> DEFINE n == Len(s)
           A == Mine(s, c)
           B == Mine(t, c)
           D == {n + b : b \in B}
           C == Mine(s \o t, c)
           a == Cardinality(A)
           b == Cardinality(B)
<1>1. s \o t \in Seq(Frames) /\ n \in Nat /\ Len(t) \in Nat
  OBVIOUS
<1>2. /\ A \in SUBSET Nat /\ IsFiniteSet(A) /\ a \in Nat /\ \A i \in A : i \in 1..n
      /\ OnDown(s, c) = [k \in 1..a |-> s[InOrder(A)[k]].m]
      /\ \A k \in 1..a : InOrder(A)[k] \in A
      /\ OnDown(s, c) \in Seq(Downward) /\ Len(OnDown(s, c)) = a
  BY OnDownIs
<1>3. /\ B \in SUBSET Nat /\ IsFiniteSet(B) /\ b \in Nat /\ \A i \in B : i \in 1..Len(t)
      /\ OnDown(t, c) = [k \in 1..b |-> t[InOrder(B)[k]].m]
      /\ \A k \in 1..b : InOrder(B)[k] \in B
      /\ OnDown(t, c) \in Seq(Downward) /\ Len(OnDown(t, c)) = b
  BY OnDownIs
<1>4. /\ C \in SUBSET Nat /\ IsFiniteSet(C) /\ Cardinality(C) \in Nat
      /\ OnDown(s \o t, c) = [k \in 1..Cardinality(C) |-> (s \o t)[InOrder(C)[k]].m]
      /\ \A k \in 1..Cardinality(C) : InOrder(C)[k] \in C
  BY <1>1, OnDownIs
<1>5. C = A \cup D
  <2>1. /\ DOMAIN (s \o t) = 1..(n + Len(t)) /\ DOMAIN s = 1..n /\ DOMAIN t = 1..Len(t)
        /\ \A i \in 1..n : (s \o t)[i] = s[i]
        /\ \A i \in 1..Len(t) : (s \o t)[n + i] = t[i]
    OBVIOUS
  <2> DEFINE u == s \o t
  <2> HIDE DEF u, n
  <2>2. ASSUME NEW i \in Mine(u, c)
        PROVE  i \in Mine(s, c) \/ \E j \in Mine(t, c) : i = n + j
    <3>1. i \in 1..(n + Len(t)) /\ u[i].tag = "DATA" /\ u[i].c = c
      BY <2>1, <2>2 DEF Mine, u
    <3>2. CASE i <= n
      <4>1. i \in 1..n
        BY <1>1, <3>1, <3>2
      <4>2. QED
        BY <2>1, <3>1, <4>1 DEF Mine, u
    <3>3. CASE i > n
      <4>1. i - n \in 1..Len(t) /\ n + (i - n) = i
        BY <1>1, <3>1, <3>3
      <4>2. i - n \in Mine(t, c)
        BY <2>1, <3>1, <4>1 DEF Mine, u
      <4>3. QED
        BY <4>1, <4>2
    <3>4. QED
      BY <1>1, <3>1, <3>2, <3>3
  <2>3. ASSUME NEW i \in Mine(s, c)
        PROVE  i \in Mine(u, c)
    <3>1. i \in 1..n /\ i \in 1..(n + Len(t))
      BY <1>1, <2>1, <2>3 DEF Mine
    <3>2. QED
      BY <2>1, <2>3, <3>1 DEF Mine, u
  <2>4. ASSUME NEW i \in Mine(t, c)
        PROVE  n + i \in Mine(u, c)
    <3>1. i \in 1..Len(t) /\ n + i \in 1..(n + Len(t))
      BY <1>1, <2>1, <2>4 DEF Mine
    <3>2. QED
      BY <2>1, <2>4, <3>1 DEF Mine, u
  <2>5. QED
    BY <2>2, <2>3, <2>4 DEF u
<1>6. IsFiniteSet(D) /\ Cardinality(D) = b /\ D \in SUBSET Nat
  <2>1. IsFiniteSet(D) /\ Cardinality(D) = Cardinality(B)
    BY <1>1, <1>3, ShiftIs
  <2>2. \A x \in B : n + x \in Nat
    BY <1>1, <1>3
  <2>3. QED
    BY <2>1, <2>2
<1>7. ASSUME NEW X \in SUBSET A, NEW Y \in SUBSET D
      PROVE  Cardinality(X \cup Y) = Cardinality(X) + Cardinality(Y)
  <2>1. IsFiniteSet(X) /\ IsFiniteSet(Y)
    BY <1>2, <1>6, FS_Subset
  <2>2. X \cap Y = {}
    <3>1. \A x \in A : x <= n
      BY <1>1, <1>2
    <3>2. \A y \in D : ~(y <= n)
      BY <1>1, <1>3
    <3>3. QED
      BY <3>1, <3>2
  <2>3. Cardinality(X \cup Y) = Cardinality(X) + Cardinality(Y) - Cardinality({})
    BY <2>1, <2>2, FS_Union
  <2>4. Cardinality(X) \in Nat /\ Cardinality(Y) \in Nat /\ Cardinality({}) = 0
    BY <2>1, FS_CardinalityType, FS_EmptySet
  <2>5. QED
    BY <2>3, <2>4
<1>8. Cardinality(C) = a + b
  BY <1>5, <1>6, <1>7
<1>9. \A o, p \in C : Cardinality({q \in C : q < o}) = Cardinality({q \in C : q < p}) => o = p
  BY <1>4, InOrderIs
<1>10. \A k \in 1..Cardinality(C) : Cardinality({q \in C : q < InOrder(C)[k]}) = k - 1
  BY <1>4, InOrderIs
<1>11. ASSUME NEW k \in 1..a
       PROVE  InOrder(C)[k] = InOrder(A)[k]
  <2> DEFINE o == InOrder(A)[k]
  <2>1. o \in A /\ Cardinality({q \in A : q < o}) = k - 1
    BY <1>2, InOrderIs
  <2> HIDE DEF o
  <2>2. {q \in C : q < o} = {q \in A : q < o}
    <3>1. o <= n /\ o \in Nat
      BY <1>1, <1>2, <2>1
    <3>2. \A y \in D : ~(y < o)
      BY <1>1, <1>3, <3>1
    <3>3. QED
      BY <1>5, <3>2
  <2>3. k \in 1..Cardinality(C)
    BY <1>2, <1>3, <1>8
  <2>4. o \in C
    BY <1>5, <2>1
  <2> HIDE DEF A, B, C, D, a, b, n
  <2>5. InOrder(C)[k] \in C /\ Cardinality({q \in C : q < InOrder(C)[k]}) = k - 1
    BY <1>4, <1>10, <2>3
  <2>6. QED
    BY <1>9, <2>1, <2>2, <2>4, <2>5 DEF o
<1>12. ASSUME NEW k \in 1..b
       PROVE  InOrder(C)[a + k] = n + InOrder(B)[k]
  <2> DEFINE o == InOrder(B)[k]
             Y == {n + q : q \in {x \in B : x < o}}
  <2>1. o \in B /\ Cardinality({q \in B : q < o}) = k - 1
    BY <1>3, InOrderIs
  <2> HIDE DEF o
  <2>2. o \in Nat /\ n + o \in D
    BY <1>3, <2>1
  <2>3. {q \in C : q < n + o} = A \cup Y
    <3>1. \A x \in A : x < n + o
      BY <1>1, <1>2, <1>3, <2>1
    <3>2. \A x \in B : n + x < n + o <=> x < o
      BY <1>1, <1>3, <2>2
    <3>3. QED
      BY <1>5, <3>1, <3>2
  <2>4. Y \in SUBSET D /\ Cardinality(Y) = k - 1
    <3> DEFINE Z == {x \in B : x < o}
    <3>1. Z \in SUBSET B
      OBVIOUS
    <3>2. Z \in SUBSET Nat /\ IsFiniteSet(Z)
      BY <1>3, <3>1, FS_Subset
    <3>3. Cardinality({n + q : q \in Z}) = Cardinality(Z)
      <4> HIDE DEF Z
      <4>1. QED
        BY <1>1, <3>2, ShiftIs
    <3>4. QED
      BY <2>1, <3>1, <3>3
  <2> HIDE DEF Y
  <2>5. Cardinality(A \cup Y) = a + (k - 1)
    BY <1>7, <2>4
  <2>6. a + k \in 1..Cardinality(C) /\ a + (k - 1) = (a + k) - 1
    BY <1>2, <1>3, <1>8
  <2>7. n + o \in C
    BY <1>5, <2>2
  <2> HIDE DEF A, B, C, D, a, b, n
  <2>8. InOrder(C)[a + k] \in C /\ Cardinality({q \in C : q < InOrder(C)[a + k]}) = (a + k) - 1
    BY <1>4, <1>10, <2>6
  <2>9. QED
    BY <1>9, <2>3, <2>5, <2>6, <2>7, <2>8 DEF o
<1>13. ASSUME NEW k \in 1..a
       PROVE  OnDown(s \o t, c)[k] = OnDown(s, c)[k]
  <2>1. k \in 1..Cardinality(C)
    BY <1>2, <1>3, <1>8
  <2>2. InOrder(A)[k] \in 1..n
    BY <1>2
  <2>3. (s \o t)[InOrder(A)[k]] = s[InOrder(A)[k]]
    BY <2>2
  <2> HIDE DEF A, B, C, D, a, b, n
  <2>4. OnDown(s, c)[k] = s[InOrder(A)[k]].m
    BY <1>2
  <2>5. OnDown(s \o t, c)[k] = (s \o t)[InOrder(C)[k]].m
    BY <1>4, <2>1
  <2>6. InOrder(C)[k] = InOrder(A)[k]
    BY <1>11
  <2>7. QED
    BY <2>3, <2>4, <2>5, <2>6, Zenon
<1>14. ASSUME NEW k \in 1..b
       PROVE  OnDown(s \o t, c)[a + k] = OnDown(t, c)[k]
  <2>1. a + k \in 1..Cardinality(C)
    BY <1>2, <1>3, <1>8
  <2>2. InOrder(B)[k] \in 1..Len(t)
    BY <1>3
  <2>3. (s \o t)[n + InOrder(B)[k]] = t[InOrder(B)[k]]
    BY <2>2
  <2> HIDE DEF A, B, C, D, a, b, n
  <2>4. OnDown(t, c)[k] = t[InOrder(B)[k]].m
    BY <1>3
  <2>5. OnDown(s \o t, c)[a + k] = (s \o t)[InOrder(C)[a + k]].m
    BY <1>4, <2>1
  <2>6. InOrder(C)[a + k] = n + InOrder(B)[k]
    BY <1>12
  <2>7. QED
    BY <2>3, <2>4, <2>5, <2>6, Zenon
<1> DEFINE x == OnDown(s, c)
           y == OnDown(t, c)
           z == OnDown(s \o t, c)
<1>15. z \in Seq(Downward) /\ Len(z) = a + b
  BY <1>1, <1>8, OnDownIs
<1> HIDE DEF A, B, C, D, a, b, n, x, y, z
<1>16. x \in Seq(Downward) /\ y \in Seq(Downward) /\ Len(x) = a /\ Len(y) = b /\ a \in Nat /\ b \in Nat
  BY <1>2, <1>3 DEF x, y
<1>17. /\ \A k \in 1..a : z[k] = x[k]
       /\ \A k \in 1..b : z[a + k] = y[k]
  BY <1>13, <1>14 DEF x, y, z
<1>18. z = x \o y
  <2>1. x \o y \in Seq(Downward) /\ Len(x \o y) = a + b
    BY <1>16, SMTT(30)
  <2>2. ASSUME NEW k \in 1..(a + b)
        PROVE  z[k] = (x \o y)[k]
    <3>1. CASE k <= a
      <4>1. k \in 1..a
        BY <1>16, <3>1
      <4>2. QED
        BY <1>16, <1>17, <4>1
    <3>2. CASE k > a
      <4>1. k - a \in 1..b /\ a + (k - a) = k
        BY <1>16, <3>2
      <4>2. z[k] = y[k - a]
        BY <1>17, <4>1
      <4>3. (x \o y)[k] = y[k - a]
        BY <1>16, <4>1
      <4>4. QED
        BY <4>2, <4>3
    <3>3. QED
      BY <1>16, <3>1, <3>2
  <2>3. QED
    BY <1>15, <2>1, <2>2
<1>19. QED
  BY <1>18 DEF x, y, z

LEMMA OnDownHead ==
  ASSUME NEW s \in Seq(Frames), s # <<>>, NEW c
  PROVE  OnDown(s, c) = OnDown(<<Head(s)>>, c) \o OnDown(Tail(s), c)
<1>1. Head(s) \in Frames /\ Tail(s) \in Seq(Frames) /\ s = <<Head(s)>> \o Tail(s)
  OBVIOUS
<1>2. <<Head(s)>> \in Seq(Frames)
  BY <1>1
<1>3. OnDown(<<Head(s)>> \o Tail(s), c) = OnDown(<<Head(s)>>, c) \o OnDown(Tail(s), c)
  BY <1>1, <1>2, OnDownCat
<1>4. QED
  BY <1>1, <1>3

LEMMA OnDownNone ==
  ASSUME NEW s \in Seq(Frames), NEW c, \A i \in DOMAIN s : ~(s[i].tag = "DATA" /\ s[i].c = c)
  PROVE  OnDown(s, c) = <<>>
<1>1. Mine(s, c) = {}
  BY DEF Mine
<1>2. Len(OnDown(s, c)) = 0 /\ OnDown(s, c) \in Seq(Downward)
  BY <1>1, OnDownIs, FS_EmptySet
<1>3. QED
  BY <1>2, EmptyIs

LEMMA FirstCount ==
  ASSUME NEW n \in Nat
  PROVE  Cardinality(1..n) = n
BY FS_Interval

\* Frames that are all of c's bring it what they are made of.
LEMMA OnDownAll ==
  ASSUME NEW s \in Seq(Frames), NEW c, \A i \in DOMAIN s : s[i].tag = "DATA" /\ s[i].c = c
  PROVE  /\ OnDown(s, c) \in Seq(Downward) /\ Len(OnDown(s, c)) = Len(s)
         /\ \A i \in DOMAIN s : OnDown(s, c)[i] = s[i].m
<1> DEFINE A == Mine(s, c)
           n == Len(s)
<1>1. n \in Nat /\ DOMAIN s = 1..n /\ A = 1..n
  BY DEF Mine
<1>2. Cardinality(A) = n
  BY <1>1, FirstCount
<1>3. /\ OnDown(s, c) = [k \in 1..Cardinality(A) |-> s[InOrder(A)[k]].m]
      /\ A \in SUBSET Nat /\ IsFiniteSet(A)
      /\ OnDown(s, c) \in Seq(Downward) /\ Len(OnDown(s, c)) = Cardinality(A)
  BY OnDownIs
<1> HIDE DEF A, n
<1>4. ASSUME NEW k \in 1..n
      PROVE  InOrder(A)[k] = k
  <2>1. InOrder(A)[k] \in A /\ Cardinality({q \in A : q < InOrder(A)[k]}) = k - 1
    BY <1>2, <1>3, InOrderIs
  <2>2. {q \in A : q < k} = 1..(k - 1)
    BY <1>1
  <2>3. Cardinality({q \in A : q < k}) = k - 1
    <3>1. k - 1 \in Nat
      BY <1>1
    <3>2. QED
      BY <2>2, <3>1, FirstCount
  <2>4. k \in A
    BY <1>1
  <2>5. \A o, p \in A : Cardinality({q \in A : q < o}) = Cardinality({q \in A : q < p}) => o = p
    BY <1>3, InOrderIs
  <2>6. QED
    BY <2>1, <2>3, <2>4, <2>5
<1>5. ASSUME NEW i \in DOMAIN s
      PROVE  OnDown(s, c)[i] = s[i].m
  <2>1. i \in 1..Cardinality(A) /\ InOrder(A)[i] = i
    BY <1>1, <1>2, <1>4
  <2>2. OnDown(s, c)[i] = s[InOrder(A)[i]].m
    BY <1>3, <2>1
  <2>3. QED
    BY <2>1, <2>2
<1>6. QED
  BY <1>2, <1>3, <1>5 DEF n

LEMMA OnDownData ==
  ASSUME NEW c \in Chan, NEW s \in Seq(Downward)
  PROVE  /\ OnDown(Data(c, s), c) = s
         /\ \A e \in Chan : e # c => OnDown(Data(c, s), e) = <<>>
<1> DEFINE d == Data(c, s)
           o == OnDown(d, c)
<1>1. d \in Seq(Frames) /\ Len(d) = Len(s) /\ \A i \in DOMAIN d : d[i] = Frame("DATA", c, s[i])
  BY DataIs
<1>2. \A i \in DOMAIN d : d[i].tag = "DATA" /\ d[i].c = c /\ d[i].m = s[i]
  BY <1>1 DEF Frame
<1> HIDE DEF d
<1>3. o \in Seq(Downward) /\ Len(o) = Len(d) /\ \A i \in DOMAIN d : o[i] = d[i].m
  BY <1>1, <1>2, OnDownAll
<1> HIDE DEF o
<1>4. \A i \in DOMAIN d : o[i] = s[i]
  BY <1>2, <1>3
<1>5. o = s
  BY <1>1, <1>3, <1>4
<1>6. ASSUME NEW e \in Chan, e # c
      PROVE  OnDown(d, e) = <<>>
  BY <1>1, <1>2, <1>6, OnDownNone
<1>7. QED
  BY <1>5, <1>6 DEF d, o

\* One frame brings its message, to the worker it is for.
LEMMA OnDownOne ==
  ASSUME NEW f \in Frames, NEW c
  PROVE  OnDown(<<f>>, c) = IF f.tag = "DATA" /\ f.c = c THEN <<f.m>> ELSE <<>>
<1>1. <<f>> \in Seq(Frames) /\ DOMAIN <<f>> = {1} /\ <<f>>[1] = f /\ Len(<<f>>) = 1
  OBVIOUS
<1>2. CASE f.tag = "DATA" /\ f.c = c
  <2> DEFINE o == OnDown(<<f>>, c)
           s == <<f>>
  <2> HIDE DEF s
  <2>1. s \in Seq(Frames) /\ 1 \in DOMAIN s /\ Len(s) = 1 /\ s[1] = f
        /\ \A i \in DOMAIN s : s[i].tag = "DATA" /\ s[i].c = c
    BY <1>1, <1>2 DEF s
  <2>2. /\ OnDown(s, c) \in Seq(Downward) /\ Len(OnDown(s, c)) = Len(s)
        /\ \A i \in DOMAIN s : OnDown(s, c)[i] = s[i].m
    BY <2>1, OnDownAll
  <2>3. o \in Seq(Downward) /\ Len(o) = 1 /\ o[1] = f.m
    BY <2>1, <2>2 DEF s
  <2> HIDE DEF o
  <2>4. o = <<f.m>>
    BY <2>3
  <2>5. QED
    BY <1>2, <2>4 DEF o
<1>3. CASE ~(f.tag = "DATA" /\ f.c = c)
  BY <1>1, <1>3, OnDownNone
<1>4. QED
  BY <1>2, <1>3

-----------------------------------------------------------------------------
(* Streams of messages                                                     *)

\* A request, which a reply answers.
Asks(m)   == m.tag \in {"GET_VALUE", "CALL"}
Asked(s)  == \E i \in DOMAIN s : Asks(s[i])
Begins(s) == Holds(s, "HELLO") \/ Holds(s, "TASK")
Ends(s)   == Holds(s, "TASK") \/ Holds(s, "REPLY")

Distinct(s) ==
  \A i, j \in DOMAIN s :
    s[i].tag = "OBJECT" /\ s[j].tag = "OBJECT" /\ s[i].v = s[j].v => i = j

\* What a worker says: an object once, and one request, after the objects.
Up(s) ==
  /\ Distinct(s)
  /\ \A i, j \in DOMAIN s : Asks(s[i]) /\ Asks(s[j]) => i = j
  /\ \A i, j \in DOMAIN s : Asks(s[i]) /\ s[j].tag = "OBJECT" => j < i

\* What it is told: an object once, and a task or a reply last.
Down(s) ==
  /\ Distinct(s)
  /\ \A i \in DOMAIN s : s[i].tag \in {"TASK", "REPLY"} => i = Len(s)

\* Where a message of two streams is.
LEMMA CatAt ==
  ASSUME NEW S, NEW s \in Seq(S), NEW t \in Seq(S)
  PROVE  /\ Len(s) \in Nat /\ DOMAIN s = 1..Len(s) /\ DOMAIN t = 1..Len(t) /\ Len(t) \in Nat
         /\ Len(s \o t) = Len(s) + Len(t)
         /\ \A i \in DOMAIN s : i \in DOMAIN (s \o t) /\ (s \o t)[i] = s[i]
         /\ \A i \in DOMAIN t : Len(s) + i \in DOMAIN (s \o t) /\ (s \o t)[Len(s) + i] = t[i]
         /\ \A i \in DOMAIN (s \o t) :
              i \in DOMAIN s \/ \E j \in DOMAIN t : i = Len(s) + j
<1> DEFINE u == s \o t
           n == Len(s)
<1>1. /\ n \in Nat /\ Len(t) \in Nat /\ Len(u) = n + Len(t) /\ DOMAIN u = 1..Len(u)
      /\ DOMAIN s = 1..n /\ DOMAIN t = 1..Len(t)
      /\ \A i \in 1..n : u[i] = s[i]
      /\ \A i \in 1..Len(t) : u[n + i] = t[i]
  OBVIOUS
<1> HIDE DEF u, n
<1>2. \A i \in 1..n : i \in 1..Len(u)
  BY <1>1
<1>3. \A i \in 1..Len(t) : n + i \in 1..Len(u)
  BY <1>1
<1>4. ASSUME NEW i \in 1..Len(u), ~(i \in 1..n)
      PROVE  i - n \in 1..Len(t) /\ i = n + (i - n)
  BY <1>1, <1>4
<1>5. QED
  BY <1>1, <1>2, <1>3, <1>4 DEF u, n

LEMMA BroughtIs ==
  ASSUME NEW S, NEW s \in Seq(S)
  PROVE  Brought(s) = {s[i].v : i \in {j \in DOMAIN s : s[j].tag = "OBJECT"}}
BY DEF Brought, Before

LEMMA HoldsCat ==
  ASSUME NEW S, NEW s \in Seq(S), NEW t \in Seq(S)
  PROVE  /\ \A tag : Holds(s \o t, tag) <=> Holds(s, tag) \/ Holds(t, tag)
         /\ Asked(s \o t) <=> Asked(s) \/ Asked(t)
         /\ Begins(s \o t) <=> Begins(s) \/ Begins(t)
         /\ Ends(s \o t) <=> Ends(s) \/ Ends(t)
<1> DEFINE u == s \o t
<1>1. /\ \A i \in DOMAIN s : i \in DOMAIN u /\ u[i] = s[i]
      /\ \A i \in DOMAIN t : Len(s) + i \in DOMAIN u /\ u[Len(s) + i] = t[i]
      /\ \A i \in DOMAIN u : i \in DOMAIN s \/ \E j \in DOMAIN t : i = Len(s) + j
  BY CatAt
<1> HIDE DEF u
<1>2. \A tag : Holds(u, tag) <=> Holds(s, tag) \/ Holds(t, tag)
  BY <1>1 DEF Holds
<1>3. Asked(u) <=> Asked(s) \/ Asked(t)
  BY <1>1 DEF Asked
<1>4. QED
  BY <1>2, <1>3 DEF u, Begins, Ends

LEMMA DistinctCat ==
  ASSUME NEW S, NEW s \in Seq(S), NEW t \in Seq(S)
  PROVE  Distinct(s \o t) <=> Distinct(s) /\ Distinct(t) /\ Brought(s) \cap Brought(t) = {}
<1> DEFINE u == s \o t
           n == Len(s)
<1>1. /\ \A i \in DOMAIN s : i \in DOMAIN u /\ u[i] = s[i]
      /\ \A i \in DOMAIN t : n + i \in DOMAIN u /\ u[n + i] = t[i]
      /\ \A i \in DOMAIN u : i \in DOMAIN s \/ \E j \in DOMAIN t : i = n + j
      /\ n \in Nat /\ DOMAIN s = 1..n /\ DOMAIN t = 1..Len(t)
  BY CatAt
<1>2. /\ Brought(s) = {s[i].v : i \in {j \in DOMAIN s : s[j].tag = "OBJECT"}}
      /\ Brought(t) = {t[i].v : i \in {j \in DOMAIN t : t[j].tag = "OBJECT"}}
  BY BroughtIs
<1> HIDE DEF u, n
<1>3. ASSUME Distinct(u)
      PROVE  Distinct(s)
  BY <1>1, <1>3 DEF Distinct
<1>4. ASSUME Distinct(u)
      PROVE  Distinct(t)
  <2>1. \A i, j \in DOMAIN t : n + i = n + j => i = j
    BY <1>1
  <2>2. QED
    BY <1>1, <1>4, <2>1 DEF Distinct
<1>5. \A i \in DOMAIN s, j \in DOMAIN t : i # n + j
  BY <1>1
<1>6. ASSUME Distinct(u)
      PROVE  Brought(s) \cap Brought(t) = {}
  <2>1. ASSUME NEW i \in DOMAIN s, NEW j \in DOMAIN t, s[i].tag = "OBJECT", t[j].tag = "OBJECT",
               s[i].v = t[j].v
        PROVE  FALSE
    <3>1. i \in DOMAIN u /\ n + j \in DOMAIN u /\ u[i] = s[i] /\ u[n + j] = t[j]
      BY <1>1
    <3>2. i = n + j
      BY <1>6, <2>1, <3>1 DEF Distinct
    <3>3. QED
      BY <1>5, <3>2
  <2>2. QED
    BY <1>2, <2>1
<1>7. ASSUME Distinct(s), Distinct(t), Brought(s) \cap Brought(t) = {}
      PROVE  Distinct(u)
  <2>1. \A i \in DOMAIN s, j \in DOMAIN t :
          s[i].tag = "OBJECT" /\ t[j].tag = "OBJECT" => s[i].v # t[j].v
    BY <1>2, <1>7
  <2>2. SUFFICES ASSUME NEW i \in DOMAIN u, NEW j \in DOMAIN u, u[i].tag = "OBJECT",
                        u[j].tag = "OBJECT", u[i].v = u[j].v
                 PROVE  i = j
    BY DEF Distinct
  <2>3. CASE i \in DOMAIN s /\ j \in DOMAIN s
    BY <1>1, <1>7, <2>2, <2>3 DEF Distinct
  <2>4. ASSUME NEW k \in DOMAIN t, i = n + k, j \in DOMAIN s
        PROVE  FALSE
    BY <1>1, <2>1, <2>2, <2>4
  <2>5. ASSUME NEW k \in DOMAIN t, j = n + k, i \in DOMAIN s
        PROVE  FALSE
    BY <1>1, <2>1, <2>2, <2>5
  <2>6. ASSUME NEW k \in DOMAIN t, i = n + k, NEW l \in DOMAIN t, j = n + l
        PROVE  i = j
    <3>1. u[i] = t[k] /\ u[j] = t[l]
      BY <1>1, <2>6
    <3>2. k = l
      BY <1>7, <2>2, <3>1 DEF Distinct
    <3>3. QED
      BY <2>6, <3>2
  <2>7. QED
    BY <1>1, <2>3, <2>4, <2>5, <2>6
<1>8. QED
  BY <1>3, <1>4, <1>6, <1>7 DEF u

LEMMA UpCat ==
  ASSUME NEW S, NEW s \in Seq(S), NEW t \in Seq(S)
  PROVE  Up(s \o t) <=> /\ Up(s) /\ Up(t) /\ Brought(s) \cap Brought(t) = {}
                        /\ Asked(s) => ~Asked(t) /\ Brought(t) = {}
<1> DEFINE u == s \o t
           n == Len(s)
<1>1. /\ \A i \in DOMAIN s : i \in DOMAIN u /\ u[i] = s[i]
      /\ \A i \in DOMAIN t : n + i \in DOMAIN u /\ u[n + i] = t[i]
      /\ \A i \in DOMAIN u : i \in DOMAIN s \/ \E j \in DOMAIN t : i = n + j
      /\ n \in Nat /\ DOMAIN s = 1..n /\ DOMAIN t = 1..Len(t)
  BY CatAt
<1>2. Brought(t) = {t[i].v : i \in {j \in DOMAIN t : t[j].tag = "OBJECT"}}
  BY BroughtIs
<1>3. Distinct(u) <=> Distinct(s) /\ Distinct(t) /\ Brought(s) \cap Brought(t) = {}
  BY DistinctCat
<1> HIDE DEF u, n
<1>4. /\ \A i \in DOMAIN s, j \in DOMAIN t : i # n + j /\ ~(n + j < i)
      /\ \A i \in DOMAIN s, j \in DOMAIN t : i < n + j
      /\ \A i, j \in DOMAIN t : (n + i = n + j => i = j) /\ (i < j <=> n + i < n + j)
  BY <1>1
<1>5. ASSUME Up(u)
      PROVE  Up(s)
  BY <1>1, <1>3, <1>5 DEF Up
<1>6. ASSUME Up(u)
      PROVE  Up(t)
  <2>1. \A i, j \in DOMAIN t : Asks(t[i]) /\ Asks(t[j]) => i = j
    <3> SUFFICES ASSUME NEW i \in DOMAIN t, NEW j \in DOMAIN t, Asks(t[i]), Asks(t[j])
                 PROVE  i = j
      OBVIOUS
    <3>1. n + i \in DOMAIN u /\ n + j \in DOMAIN u /\ Asks(u[n + i]) /\ Asks(u[n + j])
      BY <1>1
    <3>2. n + i = n + j
      BY <1>6, <3>1 DEF Up
    <3>3. QED
      BY <1>4, <3>2
  <2>2. \A i, j \in DOMAIN t : Asks(t[i]) /\ t[j].tag = "OBJECT" => j < i
    <3> SUFFICES ASSUME NEW i \in DOMAIN t, NEW j \in DOMAIN t, Asks(t[i]), t[j].tag = "OBJECT"
                 PROVE  j < i
      OBVIOUS
    <3>1. n + i \in DOMAIN u /\ n + j \in DOMAIN u /\ Asks(u[n + i]) /\ u[n + j].tag = "OBJECT"
      BY <1>1
    <3>2. n + j < n + i
      BY <1>6, <3>1 DEF Up
    <3>3. QED
      BY <1>4, <3>2
  <2>3. QED
    BY <1>3, <1>6, <2>1, <2>2 DEF Up
<1>7. ASSUME Up(u), Asked(s)
      PROVE  ~Asked(t) /\ Brought(t) = {}
  <2>1. PICK i \in DOMAIN s : Asks(s[i])
    BY <1>7 DEF Asked
  <2>2. i \in DOMAIN u /\ Asks(u[i])
    BY <1>1, <2>1
  <2>3. ASSUME NEW j \in DOMAIN t
        PROVE  ~Asks(t[j]) /\ t[j].tag # "OBJECT"
    <3>1. n + j \in DOMAIN u /\ u[n + j] = t[j] /\ i # n + j /\ ~(n + j < i)
      BY <1>1, <1>4
    <3>2. QED
      BY <1>7, <2>2, <3>1 DEF Up
  <2>4. QED
    BY <1>2, <2>3 DEF Asked
<1>8. ASSUME Up(s), Up(t), Brought(s) \cap Brought(t) = {},
             Asked(s) => ~Asked(t) /\ Brought(t) = {}
      PROVE  Up(u)
  <2>1. Distinct(u)
    BY <1>3, <1>8 DEF Up
  <2>2. ASSUME NEW i \in DOMAIN s, NEW j \in DOMAIN t, Asks(s[i])
        PROVE  ~Asks(t[j]) /\ t[j].tag # "OBJECT"
    BY <1>2, <1>8, <2>2 DEF Asked
  <2>3. \A i, j \in DOMAIN u : Asks(u[i]) /\ Asks(u[j]) => i = j
    <3> SUFFICES ASSUME NEW i \in DOMAIN u, NEW j \in DOMAIN u, Asks(u[i]), Asks(u[j])
                 PROVE  i = j
      OBVIOUS
    <3>1. CASE i \in DOMAIN s /\ j \in DOMAIN s
      BY <1>1, <1>8, <3>1 DEF Up
    <3>2. CASE i \notin DOMAIN s /\ j \notin DOMAIN s
      <4>1. PICK k \in DOMAIN t, l \in DOMAIN t : i = n + k /\ j = n + l
        BY <1>1, <3>2
      <4>2. Asks(t[k]) /\ Asks(t[l])
        BY <1>1, <4>1
      <4>3. k = l
        BY <1>8, <4>2 DEF Up
      <4>4. QED
        BY <4>1, <4>3
    <3>3. QED
      BY <1>1, <2>2, <3>1, <3>2
  <2>4. \A i, j \in DOMAIN u : Asks(u[i]) /\ u[j].tag = "OBJECT" => j < i
    <3> SUFFICES ASSUME NEW i \in DOMAIN u, NEW j \in DOMAIN u, Asks(u[i]), u[j].tag = "OBJECT"
                 PROVE  j < i
      OBVIOUS
    <3>1. CASE i \in DOMAIN s /\ j \in DOMAIN s
      BY <1>1, <1>8, <3>1 DEF Up
    <3>2. CASE i \notin DOMAIN s /\ j \notin DOMAIN s
      <4>1. PICK k \in DOMAIN t, l \in DOMAIN t : i = n + k /\ j = n + l
        BY <1>1, <3>2
      <4>2. Asks(t[k]) /\ t[l].tag = "OBJECT"
        BY <1>1, <4>1
      <4>3. l < k
        BY <1>8, <4>2 DEF Up
      <4>4. QED
        BY <1>4, <4>1, <4>3
    <3>3. QED
      BY <1>1, <1>4, <2>2, <3>1, <3>2
  <2>5. QED
    BY <2>1, <2>3, <2>4 DEF Up
<1>9. QED
  BY <1>5, <1>6, <1>7, <1>8, <1>3 DEF u, Up

LEMMA DownCat ==
  ASSUME NEW S, NEW s \in Seq(S), NEW t \in Seq(S)
  PROVE  Down(s \o t) <=> /\ Down(s) /\ Down(t) /\ Brought(s) \cap Brought(t) = {}
                          /\ Ends(s) => t = <<>>
<1> DEFINE u == s \o t
           n == Len(s)
           e(m) == m.tag \in {"TASK", "REPLY"}
<1>1. /\ \A i \in DOMAIN s : i \in DOMAIN u /\ u[i] = s[i]
      /\ \A i \in DOMAIN t : n + i \in DOMAIN u /\ u[n + i] = t[i]
      /\ \A i \in DOMAIN u : i \in DOMAIN s \/ \E j \in DOMAIN t : i = n + j
      /\ n \in Nat /\ DOMAIN s = 1..n /\ DOMAIN t = 1..Len(t) /\ Len(t) \in Nat
      /\ Len(u) = n + Len(t)
  BY CatAt
<1>2. Distinct(u) <=> Distinct(s) /\ Distinct(t) /\ Brought(s) \cap Brought(t) = {}
  BY DistinctCat
<1>3. t = <<>> <=> Len(t) = 0
  OBVIOUS
<1>4. Ends(s) <=> \E i \in DOMAIN s : e(s[i])
  BY DEF Ends, Holds
<1>5. \A x : Down(x) <=> Distinct(x) /\ \A i \in DOMAIN x : e(x[i]) => i = Len(x)
  BY DEF Down
<1> HIDE DEF u, n, e
<1>6. ASSUME \A i \in DOMAIN u : e(u[i]) => i = Len(u)
      PROVE  /\ \A i \in DOMAIN s : e(s[i]) => i = Len(s) /\ Len(t) = 0
             /\ \A i \in DOMAIN t : e(t[i]) => i = Len(t)
  <2>1. ASSUME NEW i \in DOMAIN s, e(s[i])
        PROVE  i = Len(s) /\ Len(t) = 0
    <3>1. i = n + Len(t)
      BY <1>1, <1>6, <2>1
    <3>2. i = n /\ Len(t) = 0
      BY <1>1, <3>1
    <3>3. QED
      BY <3>2 DEF n
  <2>2. ASSUME NEW i \in DOMAIN t, e(t[i])
        PROVE  i = Len(t)
    <3>1. n + i = n + Len(t)
      BY <1>1, <1>6, <2>2
    <3>2. QED
      BY <1>1, <3>1
  <2>3. QED
    BY <2>1, <2>2
<1>7. ASSUME \A i \in DOMAIN s : e(s[i]) => i = Len(s) /\ Len(t) = 0,
             \A i \in DOMAIN t : e(t[i]) => i = Len(t),
             NEW i \in DOMAIN u, e(u[i])
      PROVE  i = Len(u)
  <2>1. CASE i \in DOMAIN s
    <3>1. i = n /\ Len(t) = 0
      BY <1>1, <1>7, <2>1 DEF n
    <3>2. QED
      BY <1>1, <3>1
  <2>2. ASSUME NEW j \in DOMAIN t, i = n + j
        PROVE  i = Len(u)
    BY <1>1, <1>7, <2>2
  <2>3. QED
    BY <1>1, <2>1, <2>2
<1>8. QED
  BY <1>2, <1>3, <1>4, <1>5, <1>6, <1>7 DEF u

\* One message, and none.
LEMMA OneMessage ==
  ASSUME NEW m
  PROVE  /\ \A tag : Holds(<<m>>, tag) <=> m.tag = tag
         /\ Asked(<<m>>) <=> Asks(m)
         /\ Begins(<<m>>) <=> m.tag \in {"HELLO", "TASK"}
         /\ Ends(<<m>>) <=> m.tag \in {"TASK", "REPLY"}
         /\ Up(<<m>>) /\ Down(<<m>>)
         /\ Brought(<<m>>) = IF m.tag = "OBJECT" THEN {m.v} ELSE {}
<1>1. Len(<<m>>) = 1 /\ <<m>>[1] = m /\ DOMAIN <<m>> = {1}
  OBVIOUS
<1>2. \A tag : Holds(<<m>>, tag) <=> m.tag = tag
  BY <1>1 DEF Holds
<1>3. Asked(<<m>>) <=> Asks(m)
  BY <1>1 DEF Asked
<1>4. Brought(<<m>>) = IF m.tag = "OBJECT" THEN {m.v} ELSE {}
  BY CarriesOne
<1>5. Down(<<m>>) /\ Distinct(<<m>>)
  BY <1>1 DEF Down, Distinct
<1>6. Up(<<m>>)
  <2>1. Asks(m) => m.tag # "OBJECT"
    BY DEF Asks
  <2>2. QED
    BY <1>1, <1>5, <2>1 DEF Up
<1>7. QED
  BY <1>2, <1>3, <1>4, <1>5, <1>6 DEF Begins, Ends

LEMMA NoMessage ==
  /\ \A tag : ~Holds(<<>>, tag)
  /\ ~Asked(<<>>) /\ ~Begins(<<>>) /\ ~Ends(<<>>) /\ Up(<<>>) /\ Down(<<>>)
  /\ Brought(<<>>) = {} /\ \A had : Carries(<<>>, had)
BY CarriesNone DEF Holds, Asked, Begins, Ends, Up, Down, Distinct

\* Messages that are no objects, no requests and no replies.
LEMMA ObjectsOnly ==
  ASSUME NEW s, \A i \in DOMAIN s : s[i].tag = "OBJECT"
  PROVE  /\ \A tag \in {"HELLO", "TASK", "REPLY", "GET_VALUE", "CALL"} : ~Holds(s, tag)
         /\ ~Asked(s) /\ ~Begins(s) /\ ~Ends(s)
         /\ Distinct(s) => Up(s) /\ Down(s)
BY DEF Holds, Asked, Asks, Begins, Ends, Up, Down

-----------------------------------------------------------------------------
(* The invariant of a task's talk                                          *)

Alive(c) == worker[c].pc \notin {"ended", "reaped"}

\* One request, its call or its reply, while the worker waits for it; and
\* none before its task has come to it.
Exchanges(c) ==
  LET asked   == Asked(ToMain(c))
      called  == handle[c].call
      replied == Holds(ToWorker(c), "REPLY")
  IN  /\ ~(asked /\ called) /\ ~(asked /\ replied) /\ ~(called /\ replied)
      /\ Begins(ToWorker(c)) => /\ ~asked /\ ~called /\ ~replied /\ pool[c] = <<>>
                                /\ worker[c].pc \notin {"running", "asking"}
      /\ Alive(c) /\ (asked \/ called \/ replied) => worker[c].pc = "asking"
      /\ worker[c].pc = "none" => ~asked /\ ~called /\ ~replied /\ pool[c] = <<>>
      /\ Alive(c) =>
           /\ called => worker[c].ask = "CALL"
           /\ \A m \in Range(ToMain(c)) : Asks(m) => m.tag = worker[c].ask
           /\ \A m \in Range(ToWorker(c)) : m.tag = "REPLY" => m.to = worker[c].ask

\* What the worker has, its handle has seen or is to.
Known(c) == worker[c].objects \subseteq handle[c].seen \cup Brought(ToMain(c))

\* What each side thinks that the other has.  What the handle has seen the
\* worker has or is to have, when it is to hear of it by name; and the other
\* way round, when the handle is to serve a request.
Crosses(c) ==
  LET had   == worker[c].objects
      seen  == handle[c].seen
      there == Brought(ToWorker(c))
      back  == Brought(ToMain(c))
  IN  /\ \A o \in had : Closure(o) \subseteq had
      /\ Alive(c) => Carries(ToWorker(c), had)
      /\ Alive(c) /\ (conn = "up" \/ worker[c].pc = "running" \/ Ends(ToWorker(c)))
           => seen \subseteq had \cup there
      /\ back \subseteq had /\ there \subseteq seen
      /\ worker[c].pc = "running" => there = {}
      /\ there \cap had = {} /\ there \cap back = {}
      /\ handle[c].result = None => back \cap seen = {}
      /\ handle[c].call => back = {} /\ Known(c)
      /\ Parses(c) /\ Asked(inbox[c]) => Known(c)
      /\ Parses(c) /\ Live(c) /\ (Alive(c) \/ Asked(ToMain(c))) => Known(c)

Talks(c) == Up(ToMain(c)) /\ Down(ToWorker(c)) /\ Exchanges(c) /\ Crosses(c)

\* Of a step that brings no more to a worker, and of one that lives takes
\* away what it has read, or the last of it.
Narrows(c) ==
  LET s == ToWorker(c)
      t == ToWorker(c)'
  IN  /\ Down(t) /\ Brought(t) \subseteq Brought(s) /\ Range(t) \subseteq Range(s)
      /\ Alive(c)' => \A had : Carries(s, had) => Carries(t, had)
      /\ Alive(c)' /\ (conn' = "up" \/ Ends(t)) => Brought(s) \subseteq Brought(t)

\* Of one that brings no more to a handle, and takes away nothing that it has
\* yet to know of.
Lessens(c) ==
  LET s == ToMain(c)
      t == ToMain(c)'
  IN  /\ Up(t) /\ Brought(t) \subseteq Brought(s)
      /\ \A m \in Range(t) : Asks(m) => m \in Range(s)
      /\ Parses(c)' =>
           /\ Asked(inbox'[c]) => Asked(inbox[c]) \/ Live(c)
           /\ Asked(inbox'[c]) \/ (Live(c)' /\ (Asked(t) \/ Alive(c)')) => Brought(s) \subseteq Brought(t)

\* Of one that leaves a worker where it is, or moves it on, or ends it.
MovesOn(c) ==
  LET from == worker[c].pc
      to   == worker'[c].pc
  IN  /\ worker'[c].objects = worker[c].objects /\ worker'[c].ask = worker[c].ask
      /\ to = from \/ (/\ to \notin {"none", "running", "asking"}
                       /\ from = "asking" => to \in {"ended", "reaped"}
                       /\ from \in {"ended", "reaped"} => to \in {"ended", "reaped"})

\* Of one that has a handle know, and listen to, no more.
HeedsLess(c) ==
  /\ handle'[c].seen = handle[c].seen /\ (handle'[c].call => handle[c].call)
  /\ handle'[c].result = None => handle[c].result = None
  /\ Parses(c)' => Parses(c)
  /\ conn' = "up" => conn = "up"
  /\ Live(c)' => Live(c)
  /\ pool[c] = <<>> => pool'[c] = <<>>

LEMMA RangeIs ==
  ASSUME NEW s
  PROVE  /\ Asked(s) <=> \E m \in Range(s) : Asks(m)
         /\ \A tag : Holds(s, tag) <=> \E m \in Range(s) : m.tag = tag
BY DEF Asked, Holds, Range

LEMMA InFirst ==
  ASSUME NEW S, NEW i \in Seq(S), NEW s \in Seq(S), NEW t \in Seq(S)
  PROVE  /\ Asked(i) => Asked((i \o s) \o t)
         /\ Brought(i) \subseteq Brought((i \o s) \o t)
<1> DEFINE u == i \o s
<1>1. u \in Seq(S)
  OBVIOUS
<1>2. Asked(u) <=> Asked(i) \/ Asked(s)
  BY HoldsCat
<1>3. Brought(u) = Brought(i) \cup Brought(s)
  BY BeforeCat
<1> HIDE DEF u
<1>4. Asked(u \o t) <=> Asked(u) \/ Asked(t)
  BY <1>1, HoldsCat
<1>5. Brought(u \o t) = Brought(u) \cup Brought(t)
  BY <1>1, BeforeCat
<1>6. QED
  BY <1>2, <1>3, <1>4, <1>5 DEF u

LEMMA WeakerTalks ==
  ASSUME TypeOK', NEW c \in Chan, Talks(c), Narrows(c), Lessens(c), MovesOn(c), HeedsLess(c)
  PROVE  Talks(c)'
<1> DEFINE s == ToWorker(c)
           t == ToWorker(c)'
           m == ToMain(c)
           n == ToMain(c)'
<1>1. /\ Asked(n) => Asked(m)
      /\ Holds(t, "REPLY") => Holds(s, "REPLY")
      /\ Begins(t) => Begins(s)
      /\ Ends(t) => Ends(s)
  BY RangeIs DEF Narrows, Lessens, Begins, Ends
<1>2. /\ worker'[c].pc \in {"none", "running", "asking"} => worker'[c].pc = worker[c].pc
      /\ Alive(c)' => Alive(c)
      /\ worker[c].pc = "asking" /\ Alive(c)' => worker'[c].pc = "asking"
  BY DEF MovesOn, Alive
<1>3. Up(n) /\ Down(t)
  BY DEF Narrows, Lessens
<1>4. Exchanges(c)'
  <2>1. /\ handle'[c].call => handle[c].call
        /\ pool[c] = <<>> => pool'[c] = <<>>
        /\ worker'[c].ask = worker[c].ask
        /\ Range(t) \subseteq Range(s)
        /\ \A x \in Range(n) : Asks(x) => x \in Range(m)
    BY DEF HeedsLess, MovesOn, Narrows, Lessens
  <2>2. Exchanges(c)
    BY DEF Talks
  <2> HIDE DEF s, t, m, n
  <2>3. ~(Asked(n) /\ handle'[c].call) /\ ~(Asked(n) /\ Holds(t, "REPLY"))
        /\ ~(handle'[c].call /\ Holds(t, "REPLY"))
    BY <1>1, <2>1, <2>2 DEF Exchanges, s, m
  <2>4. Begins(t) => /\ ~Asked(n) /\ ~handle'[c].call /\ ~Holds(t, "REPLY") /\ pool'[c] = <<>>
                     /\ worker'[c].pc \notin {"running", "asking"}
    BY <1>1, <1>2, <2>1, <2>2 DEF Exchanges, s, m
  <2>5. Alive(c)' /\ (Asked(n) \/ handle'[c].call \/ Holds(t, "REPLY")) => worker'[c].pc = "asking"
    BY <1>1, <1>2, <2>1, <2>2 DEF Exchanges, s, m
  <2>6. worker'[c].pc = "none" =>
          ~Asked(n) /\ ~handle'[c].call /\ ~Holds(t, "REPLY") /\ pool'[c] = <<>>
    BY <1>1, <1>2, <2>1, <2>2 DEF Exchanges, s, m
  <2>7. Alive(c)' => /\ handle'[c].call => worker'[c].ask = "CALL"
                     /\ \A x \in Range(n) : Asks(x) => x.tag = worker'[c].ask
                     /\ \A x \in Range(t) : x.tag = "REPLY" => x.to = worker'[c].ask
    BY <1>2, <2>1, <2>2 DEF Exchanges, s, m
  <2>8. QED
    BY <2>3, <2>4, <2>5, <2>6, <2>7 DEF Exchanges, t, n
<1>5. Crosses(c)'
  <2>1. /\ handle'[c].call => handle[c].call
        /\ handle'[c].seen = handle[c].seen
        /\ handle'[c].result = None => handle[c].result = None
        /\ Parses(c)' => Parses(c)
        /\ conn' = "up" => conn = "up"
        /\ Live(c)' => Live(c)
        /\ worker'[c].objects = worker[c].objects
    BY DEF HeedsLess, MovesOn
  <2>2. /\ Brought(t) \subseteq Brought(s)
        /\ Alive(c)' => \A had : Carries(s, had) => Carries(t, had)
        /\ Alive(c)' /\ (conn' = "up" \/ Ends(t)) => Brought(s) \subseteq Brought(t)
    BY DEF Narrows
  <2>3. /\ Brought(n) \subseteq Brought(m)
        /\ Parses(c)' =>
             /\ Asked(inbox'[c]) => Asked(inbox[c]) \/ Live(c)
             /\ Asked(inbox'[c]) \/ (Live(c)' /\ (Asked(n) \/ Alive(c)')) => Brought(m) \subseteq Brought(n)
    BY DEF Lessens
  <2>4. Crosses(c)
    BY DEF Talks
  <2>5. Asked(inbox'[c]) => Asked(n)
    <3>1. inbox'[c] \in Seq(Upward) /\ stdout'[c] \in Seq(Upward) /\ worker'[c].todo \in Seq(Upward)
      BY DEF TypeOK, Workers
    <3>2. n = (inbox'[c] \o stdout'[c]) \o worker'[c].todo
      BY DEF ToMain
    <3> HIDE DEF n
    <3>3. QED
      BY <3>1, <3>2, InFirst
  <2> DEFINE had == worker[c].objects
             seen == handle[c].seen
  <2> HIDE DEF s, t, m, n, had, seen
  <2>6. /\ \A o \in had : Closure(o) \subseteq had
        /\ Alive(c) => Carries(s, had)
        /\ Alive(c) /\ (conn = "up" \/ worker[c].pc = "running" \/ Ends(s)) => seen \subseteq had \cup Brought(s)
        /\ Brought(m) \subseteq had /\ Brought(s) \subseteq seen
        /\ worker[c].pc = "running" => Brought(s) = {}
        /\ Brought(s) \cap had = {} /\ Brought(s) \cap Brought(m) = {}
        /\ handle[c].result = None => Brought(m) \cap seen = {}
        /\ handle[c].call => Brought(m) = {} /\ had \subseteq seen \cup Brought(m)
        /\ Parses(c) /\ Asked(inbox[c]) => had \subseteq seen \cup Brought(m)
        /\ Parses(c) /\ Live(c) /\ (Alive(c) \/ Asked(m)) => had \subseteq seen \cup Brought(m)
    BY <2>4 DEF Crosses, Known, s, m, had, seen
  <2>7. Alive(c)' => Carries(t, had)
    BY <1>2, <2>2, <2>6
  <2>8. Alive(c)' /\ (conn' = "up" \/ worker'[c].pc = "running" \/ Ends(t)) => seen \subseteq had \cup Brought(t)
    BY <1>1, <1>2, <2>1, <2>2, <2>6
  <2>9. /\ Brought(n) \subseteq had /\ Brought(t) \subseteq seen
        /\ worker'[c].pc = "running" => Brought(t) = {}
        /\ Brought(t) \cap had = {} /\ Brought(t) \cap Brought(n) = {}
        /\ handle'[c].result = None => Brought(n) \cap seen = {}
        /\ handle'[c].call => Brought(n) = {} /\ had \subseteq seen \cup Brought(n)
    BY <1>2, <2>1, <2>2, <2>3, <2>6
  <2>10. Parses(c)' /\ Asked(inbox'[c]) => had \subseteq seen \cup Brought(n)
    BY <1>1, <2>1, <2>3, <2>5, <2>6
  <2>11. Parses(c)' /\ Live(c)' /\ (Alive(c)' \/ Asked(n)) => had \subseteq seen \cup Brought(n)
    BY <1>1, <1>2, <2>1, <2>3, <2>6
  <2>12. QED
    BY <2>1, <2>6, <2>7, <2>8, <2>9, <2>10, <2>11 DEF Crosses, Known, t, n, had, seen
<1>6. QED
  BY <1>3, <1>4, <1>5 DEF Talks

\* Of a handle that was sent an object.
LEMMA ObjectHeard ==
  ASSUME NEW c \in Chan, Talks(c), NEW o,
         Up(ToMain(c))', Brought(ToMain(c)) = {o} \cup Brought(ToMain(c)'), o \notin Brought(ToMain(c)'),
         Range(ToMain(c)') \subseteq Range(ToMain(c)), Asked(inbox'[c]) => Asked(inbox[c]),
         ToWorker(c)' = ToWorker(c), worker'[c] = worker[c], pool'[c] = pool[c], conn' = conn,
         handle'[c].seen = handle[c].seen \cup {o}, handle'[c].call = handle[c].call,
         handle'[c].result = handle[c].result, handle'[c].deaf = handle[c].deaf,
         handle'[c].st = handle[c].st
  PROVE  Talks(c)'
<1> DEFINE s == ToWorker(c)
           m == ToMain(c)
           n == ToMain(c)'
           had == worker[c].objects
           seen == handle[c].seen
<1>1. Asked(n) => Asked(m)
  BY RangeIs
<1>2. (Parses(c)' <=> Parses(c)) /\ (Live(c)' <=> Live(c)) /\ (Alive(c)' <=> Alive(c))
  BY DEF Parses, Live, Alive
<1>3. Exchanges(c)'
  <2>1. Exchanges(c)
    BY DEF Talks
  <2>2. \A x \in Range(n) : x \in Range(m)
    OBVIOUS
  <2> HIDE DEF s, m, n
  <2>3. /\ ~(Asked(n) /\ handle'[c].call) /\ ~(Asked(n) /\ Holds(s, "REPLY"))
        /\ ~(handle'[c].call /\ Holds(s, "REPLY"))
        /\ Begins(s) => /\ ~Asked(n) /\ ~handle'[c].call /\ ~Holds(s, "REPLY") /\ pool'[c] = <<>>
                        /\ worker'[c].pc \notin {"running", "asking"}
        /\ Alive(c)' /\ (Asked(n) \/ handle'[c].call \/ Holds(s, "REPLY")) => worker'[c].pc = "asking"
        /\ worker'[c].pc = "none" =>
             ~Asked(n) /\ ~handle'[c].call /\ ~Holds(s, "REPLY") /\ pool'[c] = <<>>
    BY <1>1, <1>2, <2>1 DEF Exchanges, s, m
  <2>4. Alive(c)' => /\ handle'[c].call => worker'[c].ask = "CALL"
                     /\ \A x \in Range(n) : Asks(x) => x.tag = worker'[c].ask
                     /\ \A x \in Range(s) : x.tag = "REPLY" => x.to = worker'[c].ask
    BY <1>2, <2>1, <2>2 DEF Exchanges, s, m
  <2>5. QED
    BY <2>3, <2>4 DEF Exchanges, s, n
<1>4. Crosses(c)'
  <2>1. Crosses(c)
    BY DEF Talks
  <2> HIDE DEF s, m, n, had, seen
  <2>2. /\ \A x \in had : Closure(x) \subseteq had
        /\ Alive(c) => Carries(s, had)
        /\ Alive(c) /\ (conn = "up" \/ worker[c].pc = "running" \/ Ends(s)) => seen \subseteq had \cup Brought(s)
        /\ Brought(m) \subseteq had /\ Brought(s) \subseteq seen
        /\ worker[c].pc = "running" => Brought(s) = {}
        /\ Brought(s) \cap had = {} /\ Brought(s) \cap Brought(m) = {}
        /\ handle[c].result = None => Brought(m) \cap seen = {}
        /\ handle[c].call => Brought(m) = {} /\ had \subseteq seen \cup Brought(m)
        /\ Parses(c) /\ Asked(inbox[c]) => had \subseteq seen \cup Brought(m)
        /\ Parses(c) /\ Live(c) /\ (Alive(c) \/ Asked(m)) => had \subseteq seen \cup Brought(m)
    BY <2>1 DEF Crosses, Known, s, m, had, seen
  <2>3. o \in had /\ Brought(m) = {o} \cup Brought(n) /\ o \notin Brought(n) /\ ~handle[c].call
    BY <2>2 DEF m, n
  <2>4. /\ Brought(n) \subseteq had /\ Brought(s) \subseteq seen \cup {o}
        /\ Brought(s) \cap Brought(n) = {}
        /\ handle'[c].result = None => Brought(n) \cap (seen \cup {o}) = {}
    BY <2>2, <2>3
  <2>5. Alive(c) /\ (conn = "up" \/ worker[c].pc = "running" \/ Ends(s))
          => seen \cup {o} \subseteq had \cup Brought(s)
    BY <2>2, <2>3
  <2>6. /\ Parses(c) /\ Asked(inbox'[c]) => had \subseteq (seen \cup {o}) \cup Brought(n)
        /\ Parses(c) /\ Live(c) /\ (Alive(c) \/ Asked(n)) => had \subseteq (seen \cup {o}) \cup Brought(n)
    BY <1>1, <2>2, <2>3
  <2>7. /\ worker'[c].objects = had /\ handle'[c].seen = seen \cup {o} /\ ToWorker(c)' = s /\ ToMain(c)' = n
        /\ worker'[c].pc = worker[c].pc /\ ~handle'[c].call
    BY <2>3 DEF had, seen, s, n
  <2>8. QED
    BY <1>2, <2>2, <2>4, <2>5, <2>6, <2>7 DEF Crosses, Known
<1>5. QED
  BY <1>3, <1>4 DEF Talks

\* Of a handle that has the call of a request to make.
LEMMA CallHeard ==
  ASSUME NEW c \in Chan, Talks(c), NEW q, q \in Range(ToMain(c)), q.tag = "CALL",
         Up(ToMain(c))', Brought(ToMain(c)) = {}, Brought(ToMain(c)') = {}, ~Asked(ToMain(c)'),
         Range(ToMain(c)') \subseteq Range(ToMain(c)), Asked(inbox[c]), Parses(c), ~Asked(inbox'[c]),
         ToWorker(c)' = ToWorker(c), worker'[c] = worker[c], pool'[c] = pool[c], conn' = conn,
         handle'[c].seen = handle[c].seen,
         handle'[c].result = handle[c].result, handle'[c].deaf = handle[c].deaf,
         handle'[c].st = handle[c].st
  PROVE  Talks(c)'
<1> DEFINE s == ToWorker(c)
           m == ToMain(c)
           n == ToMain(c)'
           had == worker[c].objects
           seen == handle[c].seen
<1>1. Asked(m) /\ Asks(q)
  BY RangeIs DEF Asks
<1>2. (Parses(c)' <=> Parses(c)) /\ (Live(c)' <=> Live(c)) /\ (Alive(c)' <=> Alive(c))
  BY DEF Parses, Live, Alive
<1>3. \A x \in Range(n) : ~Asks(x)
  BY RangeIs
<1>4. Exchanges(c)'
  <2>1. Exchanges(c)
    BY DEF Talks
  <2> HIDE DEF s, m, n
  <2>2. /\ ~Asked(n) /\ ~Holds(s, "REPLY") /\ ~Begins(s)
        /\ Alive(c) => worker[c].pc = "asking" /\ worker[c].ask = "CALL"
        /\ worker[c].pc # "none"
    BY <1>1, <2>1 DEF Exchanges, s, m, n
  <2>3. Alive(c) => \A x \in Range(s) : x.tag = "REPLY" => x.to = worker[c].ask
    BY <2>1 DEF Exchanges, s
  <2>4. QED
    BY <1>2, <1>3, <2>2, <2>3 DEF Exchanges, s, n
<1>5. Crosses(c)'
  <2>1. Crosses(c)
    BY DEF Talks
  <2> HIDE DEF s, m, n, had, seen
  <2>2. /\ \A x \in had : Closure(x) \subseteq had
        /\ Alive(c) => Carries(s, had)
        /\ Alive(c) /\ (conn = "up" \/ worker[c].pc = "running" \/ Ends(s)) => seen \subseteq had \cup Brought(s)
        /\ Brought(s) \subseteq seen
        /\ worker[c].pc = "running" => Brought(s) = {}
        /\ Brought(s) \cap had = {}
        /\ Parses(c) /\ Asked(inbox[c]) => had \subseteq seen \cup Brought(m)
    BY <2>1 DEF Crosses, Known, s, m, had, seen
  <2>3. had \subseteq seen /\ Brought(n) = {}
    BY <2>2 DEF m, n
  <2>4. /\ worker'[c].objects = had /\ handle'[c].seen = seen /\ ToWorker(c)' = s /\ ToMain(c)' = n
        /\ worker'[c].pc = worker[c].pc
    BY DEF had, seen, s, n
  <2>5. QED
    BY <1>2, <2>2, <2>3, <2>4 DEF Crosses, Known
<1>6. QED
  BY <1>4, <1>5 DEF Talks

\* An object on its way comes after what it is made of, or to a side that has it.
LEMMA CarriedIs ==
  ASSUME NEW s \in Seq(Downward), NEW had, Carries(s, had)
  PROVE  \A o \in Brought(s) : Closure(o) \subseteq had \cup Brought(s)
<1> SUFFICES ASSUME NEW i \in DOMAIN s, s[i].tag = "OBJECT"
             PROVE  Closure(s[i].v) \subseteq had \cup Brought(s)
  BY BroughtIs
<1>1. s[i] \in Downward /\ i \in 1..Len(s)
  OBVIOUS
<1>2. s[i].v # Nil
  BY <1>1, MessageIs, KidsAreBelow DEF Nil
<1>3. Closure(s[i].v) \subseteq had \cup Before(s, i)
  BY <1>2 DEF Carries, Names
<1>4. Before(s, i) \subseteq Brought(s)
  <2>1. \A k \in 1..i : k \in 1..Len(s)
    BY <1>1
  <2>2. QED
    BY <2>1 DEF Before, Brought
<1>5. QED
  BY <1>3, <1>4

\* Of a request that is replied to.
LEMMA Replied ==
  ASSUME NEW c \in Chan, Talks(c), NEW x \in Seq(Downward), NEW asked,
         ToWorker(c) \in Seq(Downward), ~Begins(ToWorker(c)), ~Ends(ToWorker(c)),
         Alive(c) => worker[c].pc = "asking" /\ worker[c].ask = asked, worker[c].pc # "none",
         worker[c].objects \subseteq handle[c].seen,
         Up(ToMain(c))', Brought(ToMain(c)') = {}, ~Asked(ToMain(c)'),
         ToWorker(c)' = IF conn = "up" THEN ToWorker(c) \o x ELSE ToWorker(c),
         handle'[c].seen = handle[c].seen \cup Brought(x), ~handle'[c].call,
         worker'[c] = worker[c], conn' = conn,
         Down(x), ~Begins(x), \A m \in Range(x) : m.tag = "REPLY" => m.to = asked,
         Brought(x) \cap handle[c].seen = {},
         \A h : (\A o \in handle[c].seen : Closure(o) \subseteq h) => Carries(x, h)
  PROVE  Talks(c)'
<1> DEFINE s == ToWorker(c)
           t == ToWorker(c)'
           n == ToMain(c)'
           had == worker[c].objects
           seen == handle[c].seen
<1>1. /\ \A tag : Holds(s \o x, tag) <=> Holds(s, tag) \/ Holds(x, tag)
      /\ Begins(s \o x) <=> Begins(s) \/ Begins(x)
      /\ Brought(s \o x) = Brought(s) \cup Brought(x)
      /\ Range(s \o x) = Range(s) \cup Range(x)
      /\ Down(s \o x) <=> Down(s) /\ Down(x) /\ Brought(s) \cap Brought(x) = {} /\ (Ends(s) => x = <<>>)
      /\ Carries(s \o x, had) <=> Carries(s, had) /\ Carries(x, had \cup Brought(s))
  <2> s \in Seq(Downward)
    OBVIOUS
  <2> HIDE DEF s, had
  <2>1. \A tag : Holds(s \o x, tag) <=> Holds(s, tag) \/ Holds(x, tag)
    BY HoldsCat
  <2>2. Begins(s \o x) <=> Begins(s) \/ Begins(x)
    BY HoldsCat
  <2>3. Brought(s \o x) = Brought(s) \cup Brought(x)
    BY BeforeCat
  <2>4. Range(s \o x) = Range(s) \cup Range(x)
    BY CatRange
  <2>5. Down(s \o x) <=> Down(s) /\ Down(x) /\ Brought(s) \cap Brought(x) = {} /\ (Ends(s) => x = <<>>)
    BY DownCat
  <2>6. Carries(s \o x, had) <=> Carries(s, had) /\ Carries(x, had \cup Brought(s))
    BY CarriesCat
  <2>7. QED
    BY <2>1, <2>2, <2>3, <2>4, <2>5, <2>6
<1>2. Exchanges(c) /\ Crosses(c) /\ Down(s)
  BY DEF Talks
<1>3. (Alive(c)' <=> Alive(c))
  BY DEF Alive
<1>4. \A y \in Range(n) : ~Asks(y)
  BY RangeIs
<1> HIDE DEF s, t, n, had, seen
<1>5. /\ \A o \in had : Closure(o) \subseteq had
      /\ Alive(c) => Carries(s, had)
      /\ Alive(c) /\ (conn = "up" \/ worker[c].pc = "running" \/ Ends(s)) => seen \subseteq had \cup Brought(s)
      /\ Brought(s) \subseteq seen
      /\ worker[c].pc = "running" => Brought(s) = {}
      /\ Brought(s) \cap had = {}
  BY <1>2 DEF Crosses, s, had, seen
<1>6. ~Holds(s, "REPLY") /\ ~Begins(s) /\ ~Ends(s)
  BY DEF s, Ends
<1>7. /\ t = IF conn = "up" THEN s \o x ELSE s
      /\ \A m \in Range(x) : m.tag = "REPLY" => m.to = asked
      /\ Brought(x) \cap seen = {} /\ Down(x) /\ ~Begins(x)
      /\ had \subseteq seen
  BY DEF s, t, seen, had
<1>8. Down(t)
  BY <1>1, <1>2, <1>5, <1>6, <1>7
<1>9. ~Begins(t)
  BY <1>1, <1>6, <1>7
<1>10. \A m \in Range(t) : m.tag = "REPLY" => m.to = asked
  <2>1. \A m \in Range(s) : m.tag # "REPLY"
    BY <1>6, RangeIs
  <2>2. QED
    BY <1>1, <1>7, <2>1
<1>11. Exchanges(c)'
  <2>1. /\ worker'[c].pc = worker[c].pc /\ worker'[c].ask = worker[c].ask /\ ~handle'[c].call
        /\ Alive(c) => worker[c].pc = "asking" /\ worker[c].ask = asked
        /\ worker[c].pc # "none" /\ ~Asked(n) /\ ToWorker(c)' = t /\ ToMain(c)' = n
    BY DEF n, t
  <2>2. QED
    BY <1>3, <1>4, <1>9, <1>10, <2>1 DEF Exchanges
<1>12. Alive(c) => Carries(t, had)
  <2>1. CASE conn = "up" /\ Alive(c)
    <3>1. \A o \in Brought(s) : Closure(o) \subseteq had \cup Brought(s)
      BY <1>5, <2>1, CarriedIs DEF s
    <3>2. \A o \in seen : Closure(o) \subseteq had \cup Brought(s)
      BY <1>5, <2>1, <3>1
    <3>3. Carries(x, had \cup Brought(s))
      BY <3>2 DEF seen
    <3>4. QED
      BY <1>1, <1>5, <1>7, <2>1, <3>3
  <2>2. CASE conn # "up"
    BY <1>5, <1>7, <2>2
  <2>3. QED
    BY <2>1, <2>2
<1>13. /\ Brought(t) \subseteq seen \cup Brought(x) /\ Brought(t) \cap had = {}
       /\ conn = "up" => Brought(t) = Brought(s) \cup Brought(x)
       /\ conn # "up" => t = s
  BY <1>1, <1>5, <1>7
<1>14. Alive(c) => worker[c].pc # "running"
  OBVIOUS
<1>15. worker[c].pc = "running" => Alive(c)
  BY DEF Alive
<1>16. Crosses(c)'
  <2>1. /\ worker'[c].objects = had /\ handle'[c].seen = seen \cup Brought(x) /\ ~handle'[c].call
        /\ worker'[c].pc = worker[c].pc /\ Brought(n) = {} /\ ToWorker(c)' = t /\ ToMain(c)' = n
    BY DEF n, t, had, seen
  <2>2. Alive(c) /\ (conn = "up" \/ worker[c].pc = "running" \/ Ends(t)) => seen \cup Brought(x) \subseteq had \cup Brought(t)
    BY <1>5, <1>6, <1>13, <1>14
  <2>3. QED
    BY <1>3, <1>5, <1>7, <1>12, <1>13, <1>14, <1>15, <2>1, <2>2 DEF Crosses, Known
<1>17. QED
  BY <1>8, <1>11, <1>16 DEF Talks, t

\* Of a task that is started.
LEMMA Started ==
  ASSUME NEW c \in Chan, NEW x \in Seq(Downward), worker[c].pc = "none", worker[c].objects = {},
         worker'[c] = worker[c], ToMain(c)' = <<>>, ~handle'[c].call, pool'[c] = <<>>,
         conn' = conn, inbox'[c] = <<>>,
         ToWorker(c)' = IF conn = "up" THEN x ELSE <<>>,
         Brought(x) = handle'[c].seen, Down(x), ~Holds(x, "REPLY"), Carries(x, {})
  PROVE  Talks(c)'
<1> DEFINE t == ToWorker(c)'
<1>1. ~Holds(t, "REPLY") /\ Down(t) /\ Carries(t, {}) /\ Brought(t) \subseteq handle'[c].seen
  BY NoMessage
<1>2. conn # "up" => ~Ends(t)
  BY NoMessage
<1>3. conn = "up" => Brought(t) = handle'[c].seen
  OBVIOUS
<1>4. Up(ToMain(c)') /\ ~Asked(ToMain(c)') /\ Brought(ToMain(c)') = {}
  BY NoMessage
<1>5. /\ \A m \in Range(ToMain(c)') : ~Asks(m)
      /\ \A m \in Range(t) : m.tag # "REPLY"
  BY <1>1, <1>4, RangeIs
<1>6. ~Asked(inbox'[c])
  BY NoMessage
<1> HIDE DEF t
<1>7. worker'[c].pc = "none" /\ worker'[c].objects = {} /\ ToWorker(c)' = t /\ ~handle'[c].call /\ pool'[c] = <<>>
  BY DEF t
<1>8. Exchanges(c)'
  BY <1>1, <1>4, <1>5, <1>7 DEF Exchanges
<1>9. Crosses(c)'
  BY <1>1, <1>2, <1>3, <1>4, <1>6, <1>7 DEF Crosses, Known
<1>10. QED
  BY <1>1, <1>4, <1>7, <1>8, <1>9 DEF Talks

\* Of a worker that puts a value, or asks.
LEMMA Said ==
  ASSUME TypeOK, NEW c \in Chan, Talks(c), NEW x \in Seq(Upward), worker[c].pc = "running",
         ToMain(c)' = ToMain(c) \o x, ToWorker(c)' = ToWorker(c), handle'[c] = handle[c],
         inbox'[c] = inbox[c], conn' = conn, pool'[c] = pool[c],
         worker'[c].objects = worker[c].objects \cup Brought(x),
         worker'[c].pc \in {"running", "asking", "done"}, Asked(x) => worker'[c].pc = "asking",
         \A m \in Range(x) : Asks(m) => m.tag = worker'[c].ask,
         Up(x), Brought(x) \cap worker[c].objects = {},
         \A o \in Brought(x) : Closure(o) \subseteq worker[c].objects \cup Brought(x)
  PROVE  Talks(c)'
<1> DEFINE s == ToWorker(c)
           m == ToMain(c)
           had == worker[c].objects
           seen == handle[c].seen
           all == had \cup Brought(x)
<1>1. m \in Seq(Upward)
  BY ToMainIs
<1>2. Exchanges(c) /\ Crosses(c) /\ Up(m) /\ Down(s)
  BY DEF Talks
<1>3. Alive(c) /\ Alive(c)' /\ (Parses(c)' <=> Parses(c)) /\ (Live(c)' <=> Live(c))
  BY DEF Alive, Parses, Live
<1>4. Asked(inbox[c]) => Asked(m)
  <2>1. inbox[c] \in Seq(Upward) /\ stdout[c] \in Seq(Upward) /\ worker[c].todo \in Seq(Upward)
    BY ToMainIs
  <2>2. m = (inbox[c] \o stdout[c]) \o worker[c].todo
    BY DEF ToMain
  <2> HIDE DEF m
  <2>3. QED
    BY <2>1, <2>2, InFirst
<1> HIDE DEF s, m, had, seen
<1>5. /\ Asked(m \o x) <=> Asked(m) \/ Asked(x)
      /\ Brought(m \o x) = Brought(m) \cup Brought(x)
      /\ Range(m \o x) = Range(m) \cup Range(x)
      /\ Up(m \o x) <=> /\ Up(m) /\ Up(x) /\ Brought(m) \cap Brought(x) = {}
                        /\ Asked(m) => ~Asked(x) /\ Brought(x) = {}
  BY <1>1, HoldsCat, BeforeCat, CatRange, UpCat
<1>6. ~Asked(m) /\ ~handle[c].call /\ ~Holds(s, "REPLY") /\ ~Begins(s)
  BY <1>2, <1>3 DEF Exchanges, s, m
<1>7. /\ \A o \in had : Closure(o) \subseteq had
      /\ Carries(s, had) /\ seen \subseteq had /\ Brought(s) = {} /\ Brought(m) \subseteq had
      /\ handle[c].result = None => Brought(m) \cap seen = {}
      /\ Parses(c) /\ Live(c) => had \subseteq seen \cup Brought(m)
  BY <1>2, <1>3 DEF Crosses, Known, s, m, had, seen
<1>8. /\ Brought(x) \cap had = {} /\ Up(x)
      /\ \A o \in Brought(x) : Closure(o) \subseteq all
      /\ \A o \in all : Closure(o) \subseteq all
  BY <1>7 DEF had
<1>9. Up(m \o x)
  BY <1>2, <1>5, <1>6, <1>7, <1>8
<1>10. /\ ToMain(c)' = m \o x /\ ToWorker(c)' = s /\ worker'[c].objects = all
       /\ handle'[c].seen = seen /\ ~handle'[c].call /\ ~Asked(inbox'[c])
       /\ handle'[c].result = handle[c].result
  BY <1>4, <1>6 DEF s, m, had, seen
<1>11. \A y \in Range(m) : ~Asks(y)
  BY <1>6, RangeIs
<1>12. \A y \in Range(s) : y.tag # "REPLY"
  BY <1>6, RangeIs
<1>13. Exchanges(c)'
  <2>1. worker'[c].pc # "none" /\ (Asked(x) => worker'[c].pc = "asking")
        /\ \A y \in Range(x) : Asks(y) => y.tag = worker'[c].ask
    OBVIOUS
  <2>2. \A y \in Range(m \o x) : Asks(y) => y.tag = worker'[c].ask
    BY <1>5, <1>11, <2>1
  <2>3. QED
    BY <1>5, <1>6, <1>10, <1>12, <2>1, <2>2 DEF Exchanges
<1>14. Crosses(c)'
  <2>1. Carries(s, all)
    BY <1>7, CarriesMore
  <2>2. /\ Brought(m \o x) \subseteq all
        /\ handle[c].result = None => Brought(m \o x) \cap seen = {}
        /\ Parses(c) /\ Live(c) => all \subseteq seen \cup Brought(m \o x)
    BY <1>5, <1>7, <1>8
  <2> HIDE DEF all
  <2>3. seen \subseteq all
    BY <1>7 DEF all
  <2>4. QED
    BY <1>3, <1>7, <1>8, <1>10, <2>1, <2>2, <2>3 DEF Crosses, Known
<1>15. QED
  BY <1>2, <1>9, <1>10, <1>13, <1>14 DEF Talks

\* The object that a message is.
Bears(m) == IF m.tag = "OBJECT" THEN {m.v} ELSE {}

\* Of a stream and what comes after the first of it.
LEMMA HeadOff ==
  ASSUME NEW S, NEW q \in S, NEW t \in Seq(S)
  PROVE  /\ \A tag : Holds(<<q>> \o t, tag) <=> q.tag = tag \/ Holds(t, tag)
         /\ Begins(<<q>> \o t) <=> q.tag \in {"HELLO", "TASK"} \/ Begins(t)
         /\ Ends(<<q>> \o t) <=> q.tag \in {"TASK", "REPLY"} \/ Ends(t)
         /\ Asked(<<q>> \o t) <=> Asks(q) \/ Asked(t)
         /\ Brought(<<q>> \o t) = Bears(q) \cup Brought(t)
         /\ Range(<<q>> \o t) = {q} \cup Range(t)
         /\ Down(<<q>> \o t) => /\ Down(t) /\ Bears(q) \cap Brought(t) = {}
                                /\ q.tag \in {"TASK", "REPLY"} => t = <<>>
         /\ Up(<<q>> \o t) => /\ Up(t) /\ Bears(q) \cap Brought(t) = {}
                              /\ Asks(q) => ~Asked(t) /\ Brought(t) = {}
         /\ \A had : Carries(<<q>> \o t, had) =>
              Carries(t, had \cup Bears(q)) /\ (Names(q) => Closure(q.v) \subseteq had \cup Bears(q))
<1> DEFINE h == <<q>>
           s == h \o t
           b == Bears(q)
<1>1. h \in Seq(S) /\ Range(h) = {q}
  BY DEF Range
<1>2. /\ \A tag : Holds(h, tag) <=> q.tag = tag
      /\ Begins(h) <=> q.tag \in {"HELLO", "TASK"}
      /\ Ends(h) <=> q.tag \in {"TASK", "REPLY"}
      /\ Asked(h) <=> Asks(q)
      /\ Brought(h) = b
  BY OneMessage DEF Bears
<1>3. \A had : Carries(h, had) => (Names(q) => Closure(q.v) \subseteq had \cup b)
  BY <1>2, CarriesOne
<1> HIDE DEF h
<1>4. /\ \A tag : Holds(s, tag) <=> Holds(h, tag) \/ Holds(t, tag)
      /\ Asked(s) <=> Asked(h) \/ Asked(t)
      /\ Begins(s) <=> Begins(h) \/ Begins(t)
      /\ Ends(s) <=> Ends(h) \/ Ends(t)
  BY <1>1, HoldsCat
<1>5. Brought(s) = Brought(h) \cup Brought(t)
  BY <1>1, BeforeCat
<1>6. Range(s) = Range(h) \cup Range(t)
  BY <1>1, CatRange
<1>7. Down(s) <=> Down(h) /\ Down(t) /\ Brought(h) \cap Brought(t) = {} /\ (Ends(h) => t = <<>>)
  BY <1>1, DownCat
<1>8. Up(s) <=> /\ Up(h) /\ Up(t) /\ Brought(h) \cap Brought(t) = {}
                /\ Asked(h) => ~Asked(t) /\ Brought(t) = {}
  BY <1>1, UpCat
<1>9. \A had : Carries(s, had) <=> Carries(h, had) /\ Carries(t, had \cup Brought(h))
  BY <1>1, CarriesCat
<1> HIDE DEF s, b
<1>10. /\ \A tag : Holds(s, tag) <=> q.tag = tag \/ Holds(t, tag)
       /\ Begins(s) <=> q.tag \in {"HELLO", "TASK"} \/ Begins(t)
       /\ Ends(s) <=> q.tag \in {"TASK", "REPLY"} \/ Ends(t)
       /\ Asked(s) <=> Asks(q) \/ Asked(t)
       /\ Brought(s) = b \cup Brought(t)
       /\ Range(s) = {q} \cup Range(t)
  BY <1>1, <1>2, <1>4, <1>5, <1>6
<1>11. Down(s) => Down(t) /\ b \cap Brought(t) = {} /\ (q.tag \in {"TASK", "REPLY"} => t = <<>>)
  BY <1>2, <1>7
<1>12. Up(s) => Up(t) /\ b \cap Brought(t) = {} /\ (Asks(q) => ~Asked(t) /\ Brought(t) = {})
  BY <1>2, <1>8
<1>13. \A had : Carries(s, had) => Carries(t, had \cup b) /\ (Names(q) => Closure(q.v) \subseteq had \cup b)
  BY <1>2, <1>3, <1>9
<1>14. QED
  BY <1>10, <1>11, <1>12, <1>13 DEF s, h, b

\* Of a worker that takes an object.
LEMMA ObjectTaken ==
  ASSUME NEW c \in Chan, Talks(c), NEW q \in Downward, q.tag = "OBJECT", NEW t \in Seq(Downward),
         ToWorker(c) = <<q>> \o t, ToWorker(c)' = t, ToMain(c)' = ToMain(c),
         handle'[c] = handle[c], inbox'[c] = inbox[c], conn' = conn, pool'[c] = pool[c],
         worker[c].pc \in {"reading", "asking"}, worker'[c].pc = worker[c].pc,
         worker'[c].ask = worker[c].ask, worker'[c].objects = worker[c].objects \cup {q.v}
  PROVE  Talks(c)'
<1> DEFINE s == ToWorker(c)
           m == ToMain(c)
           had == worker[c].objects
           seen == handle[c].seen
           o == q.v
           all == had \cup {o}
<1>1. /\ \A tag : Holds(<<q>> \o t, tag) <=> q.tag = tag \/ Holds(t, tag)
      /\ Begins(<<q>> \o t) <=> q.tag \in {"HELLO", "TASK"} \/ Begins(t)
      /\ Ends(<<q>> \o t) <=> q.tag \in {"TASK", "REPLY"} \/ Ends(t)
      /\ Brought(<<q>> \o t) = Bears(q) \cup Brought(t)
      /\ Range(<<q>> \o t) = {q} \cup Range(t)
      /\ Down(<<q>> \o t) => Down(t) /\ Bears(q) \cap Brought(t) = {}
      /\ \A x : Carries(<<q>> \o t, x) =>
           Carries(t, x \cup Bears(q)) /\ (Names(q) => Closure(q.v) \subseteq x \cup Bears(q))
  BY HeadOff
<1>2. /\ \A tag : Holds(s, tag) <=> q.tag = tag \/ Holds(t, tag)
      /\ Begins(s) <=> Begins(t)
      /\ Ends(s) <=> Ends(t)
      /\ Range(t) \subseteq Range(s)
  BY <1>1
<1>3. Brought(s) = {o} \cup Brought(t)
  BY <1>1 DEF Bears
<1>4. Down(s) => Down(t) /\ {o} \cap Brought(t) = {}
  BY <1>1 DEF Bears
<1>5. Names(q)
  BY MessageIs, KidsAreBelow DEF Names, Nil
<1>6. Carries(s, had) => Carries(t, all) /\ Closure(o) \subseteq all
  BY <1>1, <1>5 DEF Bears
<1>7. Exchanges(c) /\ Crosses(c) /\ Up(m) /\ Down(s)
  BY DEF Talks
<1>8. (Parses(c)' <=> Parses(c)) /\ (Live(c)' <=> Live(c)) /\ (Alive(c)' <=> Alive(c)) /\ Alive(c)
  BY DEF Alive, Parses, Live
<1>9. /\ worker'[c].objects = all /\ handle'[c].seen = seen /\ ToWorker(c)' = t /\ ToMain(c)' = m
      /\ handle'[c].result = handle[c].result /\ handle'[c].call = handle[c].call
      /\ worker'[c].pc = worker[c].pc /\ worker'[c].ask = worker[c].ask /\ worker[c].pc # "running"
  OBVIOUS
<1>10. q.tag # "REPLY"
  OBVIOUS
<1> HIDE DEF s, m, had, seen, o
<1>11. Exchanges(c)'
  <2>1. \A y \in Range(t) : y \in Range(s)
    BY <1>2
  <2>2. Holds(t, "REPLY") => Holds(s, "REPLY")
    BY <1>2
  <2>3. QED
    BY <1>2, <1>7, <1>8, <1>9, <2>1, <2>2 DEF Exchanges, s, m
<1>12. /\ \A x \in had : Closure(x) \subseteq had
       /\ Carries(s, had)
       /\ conn = "up" \/ Ends(s) => seen \subseteq had \cup Brought(s)
       /\ Brought(m) \subseteq had /\ Brought(s) \subseteq seen
       /\ Brought(s) \cap had = {} /\ Brought(s) \cap Brought(m) = {}
       /\ handle[c].result = None => Brought(m) \cap seen = {}
       /\ handle[c].call => Brought(m) = {} /\ had \subseteq seen \cup Brought(m)
       /\ Parses(c) /\ Asked(inbox[c]) => had \subseteq seen \cup Brought(m)
       /\ Parses(c) /\ Live(c) => had \subseteq seen \cup Brought(m)
  BY <1>7, <1>8 DEF Crosses, Known, s, m, had, seen
<1>13. Crosses(c)'
  <2>1. \A x \in all : Closure(x) \subseteq all
    BY <1>6, <1>12
  <2>2. /\ conn = "up" \/ Ends(t) => seen \subseteq all \cup Brought(t)
        /\ Brought(m) \subseteq all /\ Brought(t) \subseteq seen
        /\ Brought(t) \cap all = {} /\ Brought(t) \cap Brought(m) = {}
    BY <1>2, <1>3, <1>4, <1>7, <1>12
  <2>3. o \in seen
    BY <1>3, <1>12
  <2> HIDE DEF all
  <2>4. /\ had \subseteq seen \cup Brought(m) => all \subseteq seen \cup Brought(m)
        /\ Carries(t, all)
    BY <1>6, <1>12, <2>3 DEF all
  <2>5. QED
    BY <1>8, <1>9, <1>12, <2>1, <2>2, <2>4 DEF Crosses, Known
<1>14. QED
  BY <1>4, <1>7, <1>9, <1>11, <1>13 DEF Talks

\* Of a worker that takes its task or a reply, the last that it was sent.
LEMMA Resumed ==
  ASSUME NEW c \in Chan, Talks(c), NEW q \in Downward, q.tag \in {"TASK", "REPLY"},
         NEW t \in Seq(Downward),
         ToWorker(c) = <<q>> \o t, ToWorker(c)' = t, ToMain(c)' = ToMain(c),
         handle'[c] = handle[c], inbox'[c] = inbox[c], conn' = conn, pool'[c] = pool[c],
         worker[c].pc \in {"reading", "asking"}, worker'[c].pc = "running",
         worker'[c].objects = worker[c].objects
  PROVE  Talks(c)'
<1> DEFINE s == ToWorker(c)
           m == ToMain(c)
           had == worker[c].objects
           seen == handle[c].seen
<1>1. /\ \A tag : Holds(<<q>> \o t, tag) <=> q.tag = tag \/ Holds(t, tag)
      /\ Begins(<<q>> \o t) <=> q.tag \in {"HELLO", "TASK"} \/ Begins(t)
      /\ Ends(<<q>> \o t) <=> q.tag \in {"TASK", "REPLY"} \/ Ends(t)
      /\ Brought(<<q>> \o t) = Bears(q) \cup Brought(t)
      /\ Down(<<q>> \o t) => (q.tag \in {"TASK", "REPLY"} => t = <<>>)
  BY HeadOff
<1>2. Exchanges(c) /\ Crosses(c) /\ Up(m) /\ Down(s)
  BY DEF Talks
<1>3. t = <<>>
  BY <1>1, <1>2
<1>4. Brought(s) = {}
  BY <1>1, <1>3, NoMessage DEF Bears
<1>5. (Holds(s, "REPLY") \/ Begins(s)) /\ Ends(s)
  BY <1>1
<1>6. (Parses(c)' <=> Parses(c)) /\ (Live(c)' <=> Live(c)) /\ Alive(c)' /\ Alive(c)
  BY DEF Alive, Parses, Live
<1>7. /\ worker'[c].objects = had /\ handle'[c].seen = seen /\ ToWorker(c)' = t /\ ToMain(c)' = m
      /\ handle'[c].result = handle[c].result /\ handle'[c].call = handle[c].call
      /\ worker'[c].pc = "running"
  OBVIOUS
<1>8. /\ ~Holds(t, "REPLY") /\ ~Begins(t) /\ Brought(t) = {} /\ Down(t)
      /\ \A h : Carries(t, h)
  BY <1>3, NoMessage
<1>9. \A y \in Range(t) : y.tag # "REPLY"
  BY <1>8, RangeIs
<1> HIDE DEF s, m, had, seen
<1>10. ~Asked(m) /\ ~handle[c].call
  BY <1>2, <1>5, <1>6 DEF Exchanges, s, m
<1>11. \A y \in Range(m) : ~Asks(y)
  BY <1>10, RangeIs
<1>12. Exchanges(c)'
  BY <1>7, <1>8, <1>9, <1>10, <1>11 DEF Exchanges
<1>13. /\ \A x \in had : Closure(x) \subseteq had
       /\ seen \subseteq had
       /\ Brought(m) \subseteq had
       /\ handle[c].result = None => Brought(m) \cap seen = {}
       /\ Parses(c) /\ Asked(inbox[c]) => had \subseteq seen \cup Brought(m)
       /\ Parses(c) /\ Live(c) => had \subseteq seen \cup Brought(m)
  BY <1>2, <1>4, <1>5, <1>6 DEF Crosses, Known, s, m, had, seen
<1>14. Crosses(c)'
  BY <1>6, <1>7, <1>8, <1>10, <1>13 DEF Crosses, Known
<1>15. QED
  BY <1>2, <1>7, <1>8, <1>12, <1>14 DEF Talks

-----------------------------------------------------------------------------
(* The wires                                                               *)

\* What comes to a worker after the frames on the connection.
Rest(c) == IF conn = "up" THEN OnDown(sched, c) \o OnDown(pool[c], c) ELSE <<>>

\* A channel's frames follow the one that opens it.
OpenFirst(c) ==
  /\ \A i \in DOMAIN down : down[i].tag = "DATA" /\ down[i].c = c =>
       \E j \in 1..(i - 1) : OpenAt(down, j, c)
  /\ conn = "up" => \A i \in DOMAIN sched : sched[i].tag = "DATA" /\ sched[i].c = c =>
       \/ \E j \in 1..(i - 1) : OpenAt(sched, j, c)
       \/ \E j \in DOMAIN down : OpenAt(down, j, c)

\* The last of some messages is a reply, or what a task begins with.
Closes(s) == s[Len(s)].tag \in {"HELLO", "TASK", "REPLY"}

\* The host process knows the workers that run; a task not started has
\* nothing on its way; and a pool's thread writes a reply after what the
\* scheduler's thread wrote.
Wired(c) ==
  /\ Running(c) => c \in hostp.workers
  /\ handle[c].st = "none" =>
       stdin[c] = <<>> /\ OnDown(down, c) = <<>> /\ OnDown(sched, c) = <<>> /\ pool[c] = <<>>
  /\ worker[c].pc = "none" => stdin[c] = <<>> /\ OpenFirst(c)
  /\ conn = "up" /\ pool[c] # <<>> =>
       pool[c][Len(pool[c])].m.tag = "REPLY" /\ OnDown(sched, c) = <<>>
  /\ OnDown(sched, c) # <<>> => Closes(OnDown(sched, c))

\* All that is known of a task.
Sound(c) == Talks(c) /\ Wired(c) /\ Truth(c) /\ Fresh(c)

\* Streams in a row are a stream.
LEMMA RowIs ==
  ASSUME NEW S, NEW i \in Seq(S), NEW d \in Seq(S), NEW r \in Seq(S)
  PROVE  /\ d \o r \in Seq(S) /\ i \o (d \o r) \in Seq(S) /\ i \o d \in Seq(S)
         /\ d \o <<>> = d /\ <<>> \o d = d
<1> DEFINE x == d \o r
<1>1. x \in Seq(S)
  OBVIOUS
<1> HIDE DEF x
<1>2. i \o x \in Seq(S)
  BY <1>1
<1>3. QED
  BY <1>1, <1>2 DEF x

LEMMA ToWorkerIs ==
  ASSUME TypeOK, NEW c \in Chan
  PROVE  /\ ToWorker(c) = stdin[c] \o (OnDown(down, c) \o Rest(c))
         /\ ToWorker(c) \in Seq(Downward) /\ stdin[c] \in Seq(Downward)
         /\ OnDown(down, c) \in Seq(Downward) /\ Rest(c) \in Seq(Downward)
         /\ OnDown(sched, c) \in Seq(Downward) /\ OnDown(pool[c], c) \in Seq(Downward)
         /\ sched \in Seq(Frames) /\ down \in Seq(Frames) /\ pool[c] \in Seq(Frames)
<1> DEFINE i == stdin[c]
           d == down
           s == sched
           p == pool[c]
           x == OnDown(d, c)
           y == OnDown(s, c) \o OnDown(p, c)
           r == Rest(c)
           w == ToWorker(c)
<1>1. i \in Seq(Downward) /\ d \in Seq(Frames) /\ s \in Seq(Frames) /\ p \in Seq(Frames)
  BY DEF TypeOK
<1>2. /\ r = IF conn = "up" THEN y ELSE <<>>
      /\ w = i \o OnDown(IF conn = "up" THEN d \o s \o p ELSE d, c)
  BY DEF Rest, ToWorker
<1> HIDE DEF i, d, s, p, x, y, r, w
<1>3. OnDown(s, c) \in Seq(Downward) /\ OnDown(p, c) \in Seq(Downward)
  BY <1>1, OnDownIs
<1>4. OnDown(d \o s \o p, c) = x \o y /\ x \in Seq(Downward) /\ y \in Seq(Downward)
  <2> DEFINE a == OnDown(s, c)
             b == OnDown(p, c)
  <2>1. d \o s \in Seq(Frames) /\ OnDown(d \o s, c) = x \o a /\ x \in Seq(Downward)
    BY <1>1, OnDownCat, OnDownIs, SMTT(30) DEF x
  <2>2. OnDown((d \o s) \o p, c) = OnDown(d \o s, c) \o b
    BY <1>1, <2>1, OnDownCat, ZenonT(40)
  <2>3. a \in Seq(Downward) /\ b \in Seq(Downward)
    BY <1>3
  <2> HIDE DEF a, b
  <2>4. (x \o a) \o b = x \o (a \o b) /\ a \o b \in Seq(Downward)
    BY <2>1, <2>3, SMTT(20)
  <2>5. QED
    BY <2>1, <2>2, <2>4, Zenon DEF a, b, y
<1>5. r \in Seq(Downward)
  BY <1>2, <1>4
<1>6. OnDown(IF conn = "up" THEN d \o s \o p ELSE d, c) = x \o r
  <2>1. x \o <<>> = x
    BY <1>4
  <2>2. OnDown(d, c) = x
    BY DEF x
  <2>3. QED
    BY <1>2, <1>4, <2>1, <2>2
<1>7. w = i \o (x \o r)
  BY <1>2, <1>6
<1>8. i \o (x \o r) \in Seq(Downward)
  BY <1>1, <1>4, <1>5, RowIs
<1>9. QED
  BY <1>1, <1>3, <1>4, <1>5, <1>7, <1>8 DEF i, d, s, p, x, r, w

LEMMA ToWorkerThen ==
  ASSUME TypeOK', NEW c \in Chan
  PROVE  /\ ToWorker(c)' = stdin'[c] \o (OnDown(down', c) \o Rest(c)')
         /\ ToWorker(c)' \in Seq(Downward) /\ stdin'[c] \in Seq(Downward)
         /\ OnDown(down', c) \in Seq(Downward) /\ Rest(c)' \in Seq(Downward)
         /\ OnDown(sched', c) \in Seq(Downward) /\ OnDown(pool'[c], c) \in Seq(Downward)
         /\ sched' \in Seq(Frames) /\ down' \in Seq(Frames) /\ pool'[c] \in Seq(Frames)
<1> DEFINE i == stdin'[c]
           d == down'
           s == sched'
           p == pool'[c]
           x == OnDown(d, c)
           y == OnDown(s, c) \o OnDown(p, c)
           r == Rest(c)'
           w == ToWorker(c)'
<1>1. i \in Seq(Downward) /\ d \in Seq(Frames) /\ s \in Seq(Frames) /\ p \in Seq(Frames)
  BY DEF TypeOK
<1>2. /\ r = IF conn' = "up" THEN y ELSE <<>>
      /\ w = i \o OnDown(IF conn' = "up" THEN d \o s \o p ELSE d, c)
  BY DEF Rest, ToWorker
<1> HIDE DEF i, d, s, p, x, y, r, w
<1>3. OnDown(s, c) \in Seq(Downward) /\ OnDown(p, c) \in Seq(Downward)
  BY <1>1, OnDownIs
<1>4. OnDown(d \o s \o p, c) = x \o y /\ x \in Seq(Downward) /\ y \in Seq(Downward)
  <2> DEFINE a == OnDown(s, c)
             b == OnDown(p, c)
  <2>1. d \o s \in Seq(Frames) /\ OnDown(d \o s, c) = x \o a /\ x \in Seq(Downward)
    BY <1>1, OnDownCat, OnDownIs, SMTT(30) DEF x
  <2>2. OnDown((d \o s) \o p, c) = OnDown(d \o s, c) \o b
    BY <1>1, <2>1, OnDownCat, ZenonT(40)
  <2>3. a \in Seq(Downward) /\ b \in Seq(Downward)
    BY <1>3
  <2> HIDE DEF a, b
  <2>4. (x \o a) \o b = x \o (a \o b) /\ a \o b \in Seq(Downward)
    BY <2>1, <2>3, SMTT(20)
  <2>5. QED
    BY <2>1, <2>2, <2>4, Zenon DEF a, b, y
<1>5. r \in Seq(Downward)
  BY <1>2, <1>4
<1>6. OnDown(IF conn' = "up" THEN d \o s \o p ELSE d, c) = x \o r
  <2>1. x \o <<>> = x
    BY <1>4
  <2>2. OnDown(d, c) = x
    BY DEF x
  <2>3. QED
    BY <1>2, <1>4, <2>1, <2>2
<1>7. w = i \o (x \o r)
  BY <1>2, <1>6
<1>8. i \o (x \o r) \in Seq(Downward)
  BY <1>1, <1>4, <1>5, RowIs
<1>9. QED
  BY <1>1, <1>3, <1>4, <1>5, <1>7, <1>8 DEF i, d, s, p, x, r, w

\* Of a step that writes and reads nothing for a worker.
LEMMA ToWorkerSame ==
  ASSUME TypeOK, TypeOK', NEW c \in Chan, stdin'[c] = stdin[c], down' = down, conn' = conn,
         conn = "up" => OnDown(sched', c) = OnDown(sched, c) /\ OnDown(pool'[c], c) = OnDown(pool[c], c)
  PROVE  ToWorker(c)' = ToWorker(c)
<1>1. Rest(c)' = Rest(c)
  BY DEF Rest
<1>2. QED
  BY <1>1, ToWorkerIs, ToWorkerThen

\* Of one that says more to it.
LEMMA ToWorkerMore ==
  ASSUME TypeOK, TypeOK', NEW c \in Chan, stdin'[c] = stdin[c], down' = down, conn' = conn,
         NEW x \in Seq(Downward),
         conn = "up" => OnDown(sched', c) \o OnDown(pool'[c], c)
                          = (OnDown(sched, c) \o OnDown(pool[c], c)) \o x
  PROVE  ToWorker(c)' = IF conn = "up" THEN ToWorker(c) \o x ELSE ToWorker(c)
<1> DEFINE i == stdin[c]
           d == OnDown(down, c)
           r == Rest(c)
           w == ToWorker(c)
           v == ToWorker(c)'
           q == Rest(c)'
<1>1. /\ i \in Seq(Downward) /\ d \in Seq(Downward) /\ r \in Seq(Downward)
      /\ w = i \o (d \o r)
  BY ToWorkerIs
<1>2. v = i \o (d \o q)
  BY ToWorkerThen
<1>3. q = IF conn = "up" THEN r \o x ELSE r
  BY DEF Rest
<1> HIDE DEF i, d, r, w, v, q
<1>4. (d \o r) \o x = d \o (r \o x)
  BY <1>1, SMTT(20)
<1>5. d \o r \in Seq(Downward)
  BY <1>1
<1>6. (i \o (d \o r)) \o x = i \o ((d \o r) \o x)
  <2> DEFINE y == d \o r
  <2>1. y \in Seq(Downward)
    BY <1>5
  <2> HIDE DEF y
  <2>2. (i \o y) \o x = i \o (y \o x)
    BY <1>1, <2>1, SMTT(20)
  <2>3. QED
    BY <2>2 DEF y
<1>7. CASE conn = "up"
  <2>1. v = i \o (d \o (r \o x))
    BY <1>2, <1>3, <1>7, Zenon
  <2>2. v = w \o x
    BY <1>1, <1>4, <1>6, <2>1, Zenon
  <2>3. QED
    BY <1>7, <2>2 DEF v, w
<1>8. CASE conn # "up"
  <2>1. v = w
    BY <1>1, <1>2, <1>3, <1>8, Zenon
  <2>2. QED
    BY <1>8, <2>1 DEF v, w
<1>9. QED
  BY <1>7, <1>8

\* Of what a step takes from, or leaves of, what is on its way to a worker.
LEMMA EvenNarrows ==
  ASSUME NEW c \in Chan, Talks(c), ToWorker(c)' = ToWorker(c)
  PROVE  Narrows(c)
BY DEF Narrows, Talks

\* Of what was to come last, and is lost with the connection.
LEMMA CutNarrows ==
  ASSUME TypeOK', NEW c \in Chan, Talks(c), NEW x \in Seq(Downward),
         ToWorker(c) = ToWorker(c)' \o x, conn' # "up"
  PROVE  Narrows(c)
<1> DEFINE s == ToWorker(c)
           t == ToWorker(c)'
<1>1. t \in Seq(Downward)
  BY ToWorkerThen
<1>2. Down(s) /\ s = t \o x
  BY DEF Talks
<1> HIDE DEF s, t
<1>3. Down(t \o x) <=> Down(t) /\ Down(x) /\ Brought(t) \cap Brought(x) = {} /\ (Ends(t) => x = <<>>)
  BY <1>1, DownCat
<1>4. Brought(t \o x) = Brought(t) \cup Brought(x)
  BY <1>1, BeforeCat
<1>5. \A had : Carries(t \o x, had) <=> Carries(t, had) /\ Carries(x, had \cup Brought(t))
  BY <1>1, CarriesCat
<1>6. Range(t \o x) = Range(t) \cup Range(x)
  BY <1>1, CatRange
<1>7. Ends(t) => Brought(x) = {}
  BY <1>2, <1>3, NoMessage
<1>8. /\ Down(t) /\ Brought(t) \subseteq Brought(s) /\ Range(t) \subseteq Range(s)
      /\ \A had : Carries(s, had) => Carries(t, had)
      /\ Ends(t) => Brought(s) \subseteq Brought(t)
  BY <1>2, <1>3, <1>4, <1>5, <1>6, <1>7
<1>9. QED
  BY <1>8 DEF Narrows, s, t

\* Of a worker that reads a message that is no object.
LEMMA ReadNarrows ==
  ASSUME TypeOK', NEW c \in Chan, Talks(c), NEW q \in Downward, q.tag # "OBJECT",
         ToWorker(c) = <<q>> \o ToWorker(c)'
  PROVE  Narrows(c)
<1> DEFINE s == ToWorker(c)
           t == ToWorker(c)'
<1>1. t \in Seq(Downward)
  BY ToWorkerThen
<1>2. Down(s) /\ s = <<q>> \o t
  BY DEF Talks
<1> HIDE DEF s, t
<1>3. /\ Brought(<<q>> \o t) = Bears(q) \cup Brought(t)
      /\ Range(<<q>> \o t) = {q} \cup Range(t)
      /\ Down(<<q>> \o t) => Down(t)
      /\ \A had : Carries(<<q>> \o t, had) => Carries(t, had \cup Bears(q))
  BY <1>1, HeadOff
<1>4. Bears(q) = {}
  BY DEF Bears
<1>5. \A had : had \cup {} = had
  OBVIOUS
<1>6. /\ Down(t) /\ Brought(t) = Brought(s) /\ Range(t) \subseteq Range(s)
      /\ \A had : Carries(s, had) => Carries(t, had)
  BY <1>2, <1>3, <1>4, <1>5
<1>7. QED
  BY <1>6 DEF Narrows, s, t

\* Of a message that does not come to a worker, which has ended.
LEMMA DeadNarrows ==
  ASSUME NEW c \in Chan, Talks(c), ~Alive(c)', NEW q \in Downward, NEW a \in Seq(Downward),
         NEW b \in Seq(Downward), ToWorker(c) = a \o (<<q>> \o b), ToWorker(c)' = a \o b
  PROVE  Narrows(c)
<1> DEFINE s == ToWorker(c)
           t == ToWorker(c)'
           e == <<q>> \o b
<1>1. Down(s) /\ s = a \o e /\ t = a \o b
  BY DEF Talks
<1>2. e \in Seq(Downward)
  OBVIOUS
<1>3. /\ Brought(e) = Bears(q) \cup Brought(b)
      /\ Range(e) = {q} \cup Range(b)
      /\ Down(e) => Down(b)
  BY HeadOff
<1>4. e # <<>>
  OBVIOUS
<1> HIDE DEF s, t, e
<1>5. /\ Down(a \o e) <=> Down(a) /\ Down(e) /\ Brought(a) \cap Brought(e) = {} /\ (Ends(a) => e = <<>>)
      /\ Brought(a \o e) = Brought(a) \cup Brought(e)
      /\ Range(a \o e) = Range(a) \cup Range(e)
  BY <1>2, DownCat, BeforeCat, CatRange
<1>6. /\ Down(a \o b) <=> Down(a) /\ Down(b) /\ Brought(a) \cap Brought(b) = {} /\ (Ends(a) => b = <<>>)
      /\ Brought(a \o b) = Brought(a) \cup Brought(b)
      /\ Range(a \o b) = Range(a) \cup Range(b)
  BY DownCat, BeforeCat, CatRange
<1>7. /\ Brought(t) \subseteq Brought(s) /\ Range(t) \subseteq Range(s)
  BY <1>1, <1>3, <1>5, <1>6
<1>8. Down(t)
  BY <1>1, <1>3, <1>4, <1>5, <1>6
<1>9. QED
  BY <1>7, <1>8 DEF Narrows, s, t

\* Of what a step takes from, or leaves of, what is on its way to a handle.
LEMMA EvenLessens ==
  ASSUME NEW c \in Chan, Talks(c), ToMain(c)' = ToMain(c),
         Asked(inbox'[c]) => Asked(inbox[c]) \/ Live(c)
  PROVE  Lessens(c)
BY DEF Lessens, Talks

\* Of a handle that is fed what is no object, or that it does not look at.
LEMMA FedLessens ==
  ASSUME NEW c \in Chan, Talks(c), NEW q \in Upward, NEW t \in Seq(Upward),
         ToMain(c) = <<q>> \o t, ToMain(c)' = t, q.tag # "OBJECT" \/ ~Parses(c)',
         Asked(inbox'[c]) => Asked(inbox[c])
  PROVE  Lessens(c)
<1> DEFINE s == ToMain(c)
<1>1. Up(s) /\ s = <<q>> \o t
  BY DEF Talks
<1> HIDE DEF s
<1>2. /\ Brought(<<q>> \o t) = Bears(q) \cup Brought(t)
      /\ Range(<<q>> \o t) = {q} \cup Range(t)
      /\ Up(<<q>> \o t) => Up(t)
  BY HeadOff
<1>3. q.tag # "OBJECT" => Bears(q) = {}
  BY DEF Bears
<1>4. /\ Up(t) /\ Brought(t) \subseteq Brought(s) /\ Range(t) \subseteq Range(s)
      /\ Parses(c)' => Brought(s) \subseteq Brought(t)
  BY <1>1, <1>2, <1>3
<1>5. QED
  BY <1>4 DEF Lessens, s

\* A message that says nothing of an object and asks for nothing.
Dull(m) == m.tag \notin {"OBJECT", "GET_VALUE", "CALL"}

\* Of one that comes among what is on its way.
LEMMA DullLessens ==
  ASSUME NEW c \in Chan, Talks(c), NEW q \in Upward, Dull(q), NEW a \in Seq(Upward),
         NEW b \in Seq(Upward), ToMain(c) = a \o b, ToMain(c)' = a \o (<<q>> \o b),
         Asked(inbox'[c]) => Asked(inbox[c])
  PROVE  Lessens(c)
<1> DEFINE s == ToMain(c)
           t == ToMain(c)'
           e == <<q>> \o b
           h == <<q>>
<1>1. Up(s) /\ s = a \o b /\ t = a \o e
  BY DEF Talks
<1>2. h \in Seq(Upward) /\ Range(h) = {q}
  BY DEF Range
<1>3. Up(h) /\ ~Asked(h) /\ Brought(h) = {}
  BY OneMessage DEF Dull, Asks
<1>4. e = h \o b
  OBVIOUS
<1> HIDE DEF s, t, e, h
<1>5. /\ Up(h \o b) <=> /\ Up(h) /\ Up(b) /\ Brought(h) \cap Brought(b) = {}
                        /\ Asked(h) => ~Asked(b) /\ Brought(b) = {}
      /\ Brought(h \o b) = Brought(h) \cup Brought(b)
      /\ Asked(h \o b) <=> Asked(h) \/ Asked(b)
      /\ Range(h \o b) = Range(h) \cup Range(b)
      /\ h \o b \in Seq(Upward)
  BY <1>2, UpCat, BeforeCat, HoldsCat, CatRange
<1>6. /\ Up(e) <=> Up(b)
      /\ Brought(e) = Brought(b) /\ (Asked(e) <=> Asked(b)) /\ Range(e) = {q} \cup Range(b)
      /\ e \in Seq(Upward)
  BY <1>2, <1>3, <1>4, <1>5
<1>7. /\ Up(a \o b) <=> /\ Up(a) /\ Up(b) /\ Brought(a) \cap Brought(b) = {}
                        /\ Asked(a) => ~Asked(b) /\ Brought(b) = {}
      /\ Brought(a \o b) = Brought(a) \cup Brought(b)
      /\ Range(a \o b) = Range(a) \cup Range(b)
  BY UpCat, BeforeCat, CatRange
<1>8. /\ Up(a \o e) <=> /\ Up(a) /\ Up(e) /\ Brought(a) \cap Brought(e) = {}
                        /\ Asked(a) => ~Asked(e) /\ Brought(e) = {}
      /\ Brought(a \o e) = Brought(a) \cup Brought(e)
      /\ Range(a \o e) = Range(a) \cup Range(e)
  BY <1>6, UpCat, BeforeCat, CatRange
<1>9. Up(t) /\ Brought(t) = Brought(s)
  BY <1>1, <1>6, <1>7, <1>8
<1>10. \A m \in Range(t) : Asks(m) => m \in Range(s)
  BY <1>1, <1>6, <1>7, <1>8 DEF Asks, Dull
<1>11. QED
  BY <1>9, <1>10 DEF Lessens, s, t

\* Of what was to come last, and is lost with the worker.
LEMMA CutLessens ==
  ASSUME NEW c \in Chan, Talks(c), ~Alive(c)', NEW t \in Seq(Upward), NEW x \in Seq(Upward),
         ToMain(c) = t \o x, ToMain(c)' = t, inbox'[c] = inbox[c],
         Asked(inbox[c]) => Asked(t)
  PROVE  Lessens(c)
<1> DEFINE s == ToMain(c)
<1>1. Up(s) /\ s = t \o x
  BY DEF Talks
<1> HIDE DEF s
<1>2. /\ Up(t \o x) <=> /\ Up(t) /\ Up(x) /\ Brought(t) \cap Brought(x) = {}
                        /\ Asked(t) => ~Asked(x) /\ Brought(x) = {}
      /\ Brought(t \o x) = Brought(t) \cup Brought(x)
      /\ Range(t \o x) = Range(t) \cup Range(x)
  BY UpCat, BeforeCat, CatRange
<1>3. /\ Up(t) /\ Brought(t) \subseteq Brought(s) /\ Range(t) \subseteq Range(s)
      /\ Asked(t) => Brought(s) \subseteq Brought(t)
  BY <1>1, <1>2
<1>4. QED
  BY <1>3 DEF Lessens, s

\* Of a message that goes to no handle.
LEMMA LostLessens ==
  ASSUME NEW c \in Chan, Talks(c), ~Live(c)', NEW q \in Upward, NEW a \in Seq(Upward),
         NEW b \in Seq(Upward), inbox[c] = a, inbox'[c] = a,
         ToMain(c) = a \o (<<q>> \o b), ToMain(c)' = a \o b
  PROVE  Lessens(c)
<1> DEFINE s == ToMain(c)
           t == ToMain(c)'
           e == <<q>> \o b
<1>1. Up(s) /\ s = a \o e /\ t = a \o b
  BY DEF Talks
<1>2. e \in Seq(Upward)
  OBVIOUS
<1>3. /\ Brought(e) = Bears(q) \cup Brought(b)
      /\ Range(e) = {q} \cup Range(b)
      /\ Up(e) => Up(b)
      /\ Asked(e) <=> Asks(q) \/ Asked(b)
  BY HeadOff
<1> HIDE DEF s, t, e
<1>4. /\ Up(a \o e) <=> /\ Up(a) /\ Up(e) /\ Brought(a) \cap Brought(e) = {}
                        /\ Asked(a) => ~Asked(e) /\ Brought(e) = {}
      /\ Brought(a \o e) = Brought(a) \cup Brought(e)
      /\ Range(a \o e) = Range(a) \cup Range(e)
  BY <1>2, UpCat, BeforeCat, CatRange
<1>5. /\ Up(a \o b) <=> /\ Up(a) /\ Up(b) /\ Brought(a) \cap Brought(b) = {}
                        /\ Asked(a) => ~Asked(b) /\ Brought(b) = {}
      /\ Brought(a \o b) = Brought(a) \cup Brought(b)
      /\ Range(a \o b) = Range(a) \cup Range(b)
  BY UpCat, BeforeCat, CatRange
<1>6. Up(t)
  BY <1>1, <1>3, <1>4, <1>5
<1>7. Brought(t) \subseteq Brought(s) /\ Range(t) \subseteq Range(s)
  BY <1>1, <1>3, <1>4, <1>5
<1>8. Asked(a) => Brought(s) \subseteq Brought(t)
  BY <1>1, <1>3, <1>4, <1>5
<1>9. QED
  BY <1>6, <1>7, <1>8 DEF Lessens, s, t

\* Of a thread of the main process that has no messages to c to write.
LEMMA MainEven ==
  ASSUME TypeOK, TypeOK', NEW c \in Chan, stdin'[c] = stdin[c], UNCHANGED <<down, conn>>,
         pool'[c] = pool[c],
         OnDown(sched', c) = OnDown(sched, c)
  PROVE  ToWorker(c)' = ToWorker(c)
BY ToWorkerSame

LEMMA NoDataIs ==
  ASSUME NEW s \in Seq(Frames), NEW c, \A i \in DOMAIN s : s[i].tag # "DATA"
  PROVE  OnDown(s, c) = <<>>
BY OnDownNone

LEMMA SchedWritesEven ==
  ASSUME TypeOK, TypeOK', NEW c \in Chan, SchedWrites
  PROVE  ToWorker(c)' = ToWorker(c)
<1> DEFINE f == Head(sched)
           rest == Tail(sched)
           i == stdin[c]
           d == OnDown(down, c)
           x == OnDown(<<f>>, c)
           y == OnDown(rest, c)
           p == OnDown(pool[c], c)
           w == ToWorker(c)
           v == ToWorker(c)'
<1>1. /\ sched # <<>> /\ sched' = rest /\ conn' = conn /\ pool' = pool
      /\ down' = IF conn = "up" THEN Append(down, f) ELSE down
      /\ stdin'[c] = i
  BY DEF SchedWrites, Sent, hostVars
<1>2. /\ sched \in Seq(Frames) /\ down \in Seq(Frames) /\ i \in Seq(Downward) /\ d \in Seq(Downward)
      /\ p \in Seq(Downward) /\ pool[c] \in Seq(Frames)
  BY ToWorkerIs
<1>3. f \in Frames /\ rest \in Seq(Frames) /\ <<f>> \in Seq(Frames) /\ Append(down, f) = down \o <<f>>
  <2>1. f \in Frames /\ rest \in Seq(Frames)
    BY <1>1, <1>2
  <2> HIDE DEF f, rest
  <2>2. QED
    BY <1>2, <2>1
<1>4. OnDown(sched, c) = x \o y
  BY <1>1, <1>2, OnDownHead
<1>5. OnDown(down \o <<f>>, c) = d \o x
  BY <1>2, <1>3, OnDownCat, ZenonT(40)
<1>6. x \in Seq(Downward) /\ y \in Seq(Downward)
  BY <1>3, OnDownIs
<1>7. CASE conn = "up"
  <2>1. Rest(c) = (x \o y) \o p /\ Rest(c)' = y \o p
    BY <1>1, <1>4, <1>7 DEF Rest
  <2>2. down' = down \o <<f>>
    BY <1>1, <1>3, <1>7
  <2>3. v = i \o ((d \o x) \o (y \o p))
    <3>1. v = stdin'[c] \o (OnDown(down', c) \o Rest(c)')
      BY ToWorkerThen
    <3>2. OnDown(down', c) = d \o x
      BY <1>5, <2>2
    <3>3. QED
      BY <1>1, <2>1, <3>1, <3>2
  <2>4. w = i \o (d \o ((x \o y) \o p))
    BY <2>1, ToWorkerIs
  <2> HIDE DEF i, d, x, y, p, w, v
  <2>5. (x \o y) \o p = x \o (y \o p) /\ y \o p \in Seq(Downward)
    BY <1>2, <1>6, SMTT(20)
  <2>6. i \o ((d \o x) \o (y \o p)) = i \o (d \o (x \o (y \o p)))
    <3> DEFINE r == y \o p
    <3>1. r \in Seq(Downward)
      BY <2>5
    <3> HIDE DEF r
    <3>2. (d \o x) \o r = d \o (x \o r)
      BY <1>2, <1>6, <3>1, SMTT(20)
    <3>3. QED
      BY <3>2 DEF r
  <2>7. v = w
    BY <2>3, <2>4, <2>5, <2>6, Zenon
  <2>8. QED
    BY <2>7 DEF v, w
<1>8. CASE conn # "up"
  BY <1>1, <1>8, ToWorkerIs, ToWorkerThen DEF Rest
<1>9. QED
  BY <1>7, <1>8

LEMMA PoolWritesEven ==
  ASSUME TypeOK, TypeOK', NEW c \in Chan, NEW e \in Chan, PoolWrites(e), OpensOnce(e), Wired(c)
  PROVE  ToWorker(c)' = ToWorker(c)
<1> DEFINE f == Head(pool[e])
           rest == Tail(pool[e])
           i == stdin[c]
           d == OnDown(down, c)
           x == OnDown(<<f>>, c)
           s == OnDown(sched, c)
           p == OnDown(pool[c], c)
           q == OnDown(pool'[c], c)
           w == ToWorker(c)
           v == ToWorker(c)'
<1>1. /\ pool[e] # <<>> /\ pool'[e] = rest /\ conn' = conn /\ sched' = sched
      /\ c # e => pool'[c] = pool[c]
      /\ down' = IF conn = "up" THEN Append(down, f) ELSE down
      /\ stdin'[c] = i
  BY DEF PoolWrites, Sent, hostVars, TypeOK
<1>2. /\ sched \in Seq(Frames) /\ down \in Seq(Frames) /\ i \in Seq(Downward) /\ d \in Seq(Downward)
      /\ p \in Seq(Downward) /\ pool[e] \in Seq(Frames) /\ s \in Seq(Downward)
  BY ToWorkerIs
<1>3. f \in Frames /\ rest \in Seq(Frames) /\ <<f>> \in Seq(Frames) /\ Append(down, f) = down \o <<f>>
      /\ f = pool[e][1] /\ 1 \in DOMAIN pool[e]
  <2>1. f \in Frames /\ rest \in Seq(Frames) /\ f = pool[e][1] /\ 1 \in DOMAIN pool[e]
    BY <1>1, <1>2
  <2>2. f \in Frames
    BY <2>1
  <2> HIDE DEF f, rest
  <2>3. <<f>> \in Seq(Frames) /\ Append(down, f) = down \o <<f>>
    BY <1>2, <2>2
  <2>4. QED
    BY <2>1, <2>3
<1>4. f.tag = "DATA" /\ f.c = e
  BY <1>3 DEF OpensOnce
<1>5. OnDown(down \o <<f>>, c) = d \o x
  BY <1>2, <1>3, OnDownCat, ZenonT(40)
<1>6. x \in Seq(Downward) /\ q \in Seq(Downward)
  BY <1>3, OnDownIs, ToWorkerThen
<1>7. p = x \o q
  <2>1. CASE c = e
    BY <1>1, <1>2, <2>1, OnDownHead
  <2>2. CASE c # e
    <3>1. x = <<>> /\ p = q
      BY <1>1, <1>3, <1>4, <2>2, OnDownOne
    <3> HIDE DEF x, p, q
    <3>2. QED
      BY <1>2, <1>6, <3>1
  <2>3. QED
    BY <2>1, <2>2
<1>8. conn = "up" => c # e \/ s = <<>>
  BY <1>1 DEF Wired
<1>9. s \o (x \o q) = x \o (s \o q) \/ conn # "up"
  <2>1. CASE conn = "up" /\ c = e
    <3>1. s = <<>>
      BY <1>8, <2>1
    <3> HIDE DEF s, x, q
    <3>2. <<>> \o (x \o q) = x \o q /\ <<>> \o q = q
      BY <1>6
    <3>3. QED
      BY <3>1, <3>2
  <2>2. CASE c # e
    <3>1. x = <<>>
      BY <1>3, <1>4, <2>2, OnDownOne
    <3> HIDE DEF s, x, q
    <3>2. <<>> \o (s \o q) = s \o q /\ <<>> \o q = q
      BY <1>2, <1>6
    <3>3. QED
      BY <3>1, <3>2
  <2>3. QED
    BY <2>1, <2>2
<1>10. CASE conn = "up"
  <2>1. Rest(c) = s \o p /\ Rest(c)' = s \o q
    BY <1>1, <1>10 DEF Rest
  <2>2. down' = down \o <<f>>
    BY <1>1, <1>3, <1>10
  <2>3. v = i \o ((d \o x) \o (s \o q))
    <3>1. v = stdin'[c] \o (OnDown(down', c) \o Rest(c)')
      BY ToWorkerThen
    <3>2. OnDown(down', c) = d \o x
      BY <1>5, <2>2
    <3>3. QED
      BY <1>1, <2>1, <3>1, <3>2
  <2>4. w = i \o (d \o (s \o p))
    BY <2>1, ToWorkerIs
  <2> HIDE DEF i, d, x, s, p, q, w, v
  <2>5. s \o q \in Seq(Downward)
    BY <1>2, <1>6
  <2>6. i \o ((d \o x) \o (s \o q)) = i \o (d \o (x \o (s \o q)))
    <3> DEFINE r == s \o q
    <3>1. r \in Seq(Downward)
      BY <2>5
    <3> HIDE DEF r
    <3>2. (d \o x) \o r = d \o (x \o r)
      BY <1>2, <1>6, <3>1, SMTT(20)
    <3>3. QED
      BY <3>2 DEF r
  <2>7. v = w
    BY <1>7, <1>9, <1>10, <2>3, <2>4, <2>6, Zenon
  <2>8. QED
    BY <2>7 DEF v, w
<1>11. CASE conn # "up"
  BY <1>1, <1>11, ToWorkerIs, ToWorkerThen DEF Rest
<1>12. QED
  BY <1>10, <1>11

\* The connection ends with all written, or some of it: what is lost is what
\* was to come last.
LEMMA EndsCut ==
  ASSUME TypeOK, TypeOK', NEW c \in Chan, conn' # "up", stdin'[c] = stdin[c],
         NEW e \in Seq(Frames), down = down' \o e
  PROVE  \E x \in Seq(Downward) : ToWorker(c) = ToWorker(c)' \o x
<1> DEFINE i == stdin[c]
           d == OnDown(down', c)
           l == OnDown(e, c)
           r == Rest(c)
           w == ToWorker(c)
           v == ToWorker(c)'
<1>1. i \in Seq(Downward) /\ r \in Seq(Downward) /\ w = i \o (OnDown(down, c) \o r)
  BY ToWorkerIs
<1>2. d \in Seq(Downward) /\ v = i \o (d \o Rest(c)') /\ Rest(c)' = <<>> /\ down' \in Seq(Frames)
  BY ToWorkerThen DEF Rest
<1>3. OnDown(down' \o e, c) = d \o l
  BY <1>2, OnDownCat
<1>4. l \in Seq(Downward)
  BY OnDownIs
<1>5. w = i \o ((d \o l) \o r)
  BY <1>1, <1>3
<1> HIDE DEF i, d, l, r, w, v
<1>6. v = i \o d
  <2>1. d \o <<>> = d
    BY <1>2
  <2>2. QED
    BY <1>2, <2>1
<1>7. (d \o l) \o r = d \o (l \o r) /\ l \o r \in Seq(Downward)
  BY <1>1, <1>2, <1>4, SMTT(20)
<1> DEFINE x == l \o r
<1>8. x \in Seq(Downward)
  BY <1>7
<1>9. w = i \o (d \o x)
  BY <1>5, <1>7
<1> HIDE DEF x
<1>10. (i \o d) \o x = i \o (d \o x)
  BY <1>1, <1>2, <1>8, SMTT(20)
<1>11. w = v \o x
  BY <1>6, <1>9, <1>10, Zenon
<1>12. QED
  BY <1>8, <1>11 DEF w, v

LEMMA ClosingNarrows ==
  ASSUME TypeOK, TypeOK', NEW c \in Chan, Talks(c), CloseHost \/ Drop
  PROVE  Narrows(c)
<1>1. down \in Seq(Frames) /\ conn \in {"up", "lost", "gone"}
  BY DEF TypeOK
<1>2. \E e \in Seq(Frames) : down = down' \o e
  <2>1. CASE CloseHost
    <3>1. down' = down /\ <<>> \in Seq(Frames)
      BY <2>1 DEF CloseHost
    <3>2. down = down \o <<>>
      BY <1>1
    <3>3. QED
      BY <3>1, <3>2
  <2>2. CASE Drop
    <3>1. PICK n \in 0..Len(down) : down' = SubSeq(down, 1, n)
      BY <2>2 DEF Drop
    <3> DEFINE e == SubSeq(down, n + 1, Len(down))
    <3>2. Len(down) \in Nat /\ n \in 0..Len(down)
      BY <1>1
    <3>3. SubSeq(down, 1, n) \o e = SubSeq(down, 1, Len(down))
      <4>1. 1 \in 1..(Len(down) + 1) /\ n \in (1 - 1)..Len(down) /\ Len(down) \in n..Len(down)
        BY <3>2
      <4>2. QED
        BY <1>1, <4>1, ConcatAdjacentSubSeq
    <3>4. SubSeq(down, 1, Len(down)) = down
      BY <1>1, SubSeqFull
    <3>5. e \in Seq(Frames)
      <4>1. n + 1 \in Int /\ Len(down) \in Int /\ \A i \in (n + 1)..Len(down) : i \in 1..Len(down)
        BY <3>2
      <4>2. \A i \in 1..Len(down) : down[i] \in Frames
        BY <1>1
      <4>3. \A i \in (n + 1)..Len(down) : down[i] \in Frames
        BY <4>1, <4>2
      <4>4. QED
        BY <4>1, <4>3, SubSeqProperties
    <3>6. QED
      BY <3>1, <3>3, <3>4, <3>5
  <2>3. QED
    BY <2>1, <2>2
<1>3. conn' # "up" /\ stdin'[c] = stdin[c]
  BY <1>1 DEF CloseHost, Drop, hostVars
<1>4. PICK x \in Seq(Downward) : ToWorker(c) = ToWorker(c)' \o x
  BY <1>2, <1>3, EndsCut
<1>5. QED
  BY <1>3, <1>4, CutNarrows

\* Of a worker that reads.
LEMMA ReadsHead ==
  ASSUME TypeOK, TypeOK', NEW c \in Chan, NEW tag, Reads(c, tag), UNCHANGED <<mainVars, wires>>
  PROVE  /\ Head(stdin[c]) \in Downward /\ Head(stdin[c]).tag = tag
         /\ ToWorker(c)' \in Seq(Downward) /\ ToWorker(c) = <<Head(stdin[c])>> \o ToWorker(c)'
<1> DEFINE i == stdin[c]
           q == Head(i)
           j == Tail(i)
           z == OnDown(down, c) \o Rest(c)
           w == ToWorker(c)
           v == ToWorker(c)'
<1>1. i \in Seq(Downward) /\ i # <<>> /\ q.tag = tag /\ stdin'[c] = j
  BY ToWorkerIs DEF Reads, TypeOK
<1>2. q \in Downward /\ j \in Seq(Downward) /\ i = <<q>> \o j
  BY <1>1
<1>3. OnDown(down, c) \in Seq(Downward) /\ Rest(c) \in Seq(Downward) /\ w = i \o z
  BY ToWorkerIs
<1>4. v = j \o z /\ v \in Seq(Downward)
  <2>1. down' = down /\ Rest(c)' = Rest(c)
    BY DEF Rest, mainVars, wires
  <2>2. QED
    BY <1>1, <2>1, ToWorkerThen
<1>5. z \in Seq(Downward)
  BY <1>3
<1>6. <<q>> \in Seq(Downward)
  BY <1>2
<1> DEFINE h == <<q>>
<1> HIDE DEF q, j, z, w, v, h
<1>7. (h \o j) \o z = h \o (j \o z)
  BY <1>2, <1>5, <1>6, SMTT(20) DEF h
<1>8. w = h \o v
  BY <1>2, <1>3, <1>4, <1>7, Zenon DEF h
<1>9. QED
  BY <1>1, <1>2, <1>4, <1>8 DEF q, w, v, h

\* Of frames that bring no message.
LEMMA TakesEven ==
  ASSUME TypeOK, TypeOK', NEW c \in Chan, NEW tag, Takes(tag), tag # "DATA", stdin'[c] = stdin[c]
  PROVE  ToWorker(c)' = ToWorker(c)
<1>1. down # <<>> /\ Head(down).tag # "DATA" /\ down' = Tail(down) /\ Head(down) \in Frames
  BY ToWorkerIs, OneIs DEF Takes
<1>2. OnDown(down, c) = OnDown(<<Head(down)>>, c) \o OnDown(down', c)
  BY <1>1, ToWorkerIs, OnDownHead
<1>3. OnDown(<<Head(down)>>, c) = <<>>
  BY <1>1, OnDownOne
<1>4. OnDown(down', c) \in Seq(Downward)
  BY ToWorkerThen
<1>5. OnDown(down, c) = OnDown(down', c)
  BY <1>2, <1>3, <1>4
<1>6. Rest(c)' = Rest(c)
  BY DEF Takes, Rest, mainVars
<1>7. QED
  BY <1>5, <1>6, ToWorkerIs, ToWorkerThen

\* Of one that brings a message to a worker, or to one that has ended.
LEMMA WritesNarrows ==
  ASSUME TypeOK, TypeOK', NEW c \in Chan, Talks(c), Wired(c), HostWrites
  PROVE  Narrows(c)
<1> DEFINE f == Head(down)
           m == f.m
           i == stdin[c]
           d == OnDown(down', c)
           r == Rest(c)
           w == ToWorker(c)
           v == ToWorker(c)'
<1>1. /\ down # <<>> /\ f.tag = "DATA" /\ down' = Tail(down) /\ worker' = worker
      /\ UNCHANGED <<mainVars, conn>>
      /\ \/ c = f.c /\ Running(c) /\ stdin'[c] = Append(i, m)
         \/ (c # f.c \/ c \notin hostp.workers \/ ~Running(c)) /\ stdin'[c] = i
  <2>1. /\ down # <<>> /\ f.tag = "DATA" /\ down' = Tail(down) /\ worker' = worker
        /\ UNCHANGED <<mainVars, conn>>
    BY DEF HostWrites, Takes
  <2>2. \/ f.c \in hostp.workers /\ Running(f.c) /\ stdin' = [stdin EXCEPT ![f.c] = Append(@, m)]
        \/ ~(f.c \in hostp.workers /\ Running(f.c)) /\ stdin' = stdin
    BY DEF HostWrites
  <2>3. c \in DOMAIN stdin
    BY DEF TypeOK
  <2> HIDE DEF f, m
  <2>4. CASE f.c \in hostp.workers /\ Running(f.c) /\ stdin' = [stdin EXCEPT ![f.c] = Append(@, m)]
    <3>1. c = f.c => stdin'[c] = Append(i, m)
      BY <2>3, <2>4
    <3>2. c # f.c => stdin'[c] = i
      BY <2>3, <2>4
    <3>3. QED
      BY <2>1, <2>4, <3>1, <3>2
  <2>5. QED
    BY <2>1, <2>2, <2>4
<1>2. f \in Frames /\ m \in Downward /\ 1 \in DOMAIN down /\ down[1] = f
  <2>1. down \in Seq(Frames)
    BY DEF TypeOK
  <2>2. f \in Frames /\ 1 \in DOMAIN down /\ down[1] = f
    BY <1>1, <2>1
  <2> HIDE DEF f
  <2>3. QED
    BY <2>2, MessageIs
<1>3. OnDown(down, c) = OnDown(<<f>>, c) \o d
  BY <1>1, ToWorkerIs, OnDownHead
<1>4. OnDown(<<f>>, c) = IF f.c = c THEN <<m>> ELSE <<>>
  BY <1>1, <1>2, OnDownOne
<1>5. Rest(c)' = r
  BY <1>1 DEF Rest, mainVars
<1>6. d \in Seq(Downward) /\ r \in Seq(Downward) /\ i \in Seq(Downward)
  BY ToWorkerIs, ToWorkerThen
<1>7. w = i \o ((OnDown(<<f>>, c) \o d) \o r)
  BY <1>3, ToWorkerIs
<1>8. v = stdin'[c] \o (d \o r)
  BY <1>5, ToWorkerThen
<1> DEFINE h == <<m>>
<1>9. h \in Seq(Downward)
  BY <1>2
<1>10. CASE f.c # c
  <2>1. stdin'[c] = i
    BY <1>1, <1>10
  <2>2. OnDown(<<f>>, c) = <<>>
    BY <1>4, <1>10
  <2> HIDE DEF d, r, i, w, v
  <2>3. <<>> \o d = d
    BY <1>6
  <2>4. v = w
    BY <1>7, <1>8, <2>1, <2>2, <2>3
  <2>5. QED
    BY <2>4, EvenNarrows DEF v, w
<1>11. CASE f.c = c /\ stdin'[c] = Append(i, m)
  <2> HIDE DEF d, r, i, w, v, h, m, f
  <2>1. Append(i, m) = i \o h
    BY <1>2, <1>6 DEF h
  <2>2. w = i \o ((h \o d) \o r)
    BY <1>4, <1>7, <1>11 DEF h
  <2>3. v = (i \o h) \o (d \o r)
    BY <1>8, <1>11, <2>1
  <2>4. (h \o d) \o r = h \o (d \o r) /\ d \o r \in Seq(Downward)
    BY <1>6, <1>9, SMTT(20)
  <2>5. (i \o h) \o (d \o r) = i \o (h \o (d \o r))
    <3> DEFINE z == d \o r
    <3>1. z \in Seq(Downward)
      BY <2>4
    <3> HIDE DEF z
    <3>2. (i \o h) \o z = i \o (h \o z)
      BY <1>6, <1>9, <3>1, SMTT(20)
    <3>3. QED
      BY <3>2 DEF z
  <2>6. v = w
    BY <2>2, <2>3, <2>4, <2>5, Zenon
  <2>7. QED
    BY <2>6, EvenNarrows DEF v, w
<1>12. CASE f.c = c /\ stdin'[c] = i /\ (c \notin hostp.workers \/ ~Running(c))
  <2>1. ~Running(c)
    BY <1>12 DEF Wired
  <2>2. worker[c].pc # "none"
    <3>1. ASSUME worker[c].pc = "none"
          PROVE  \E j \in 1..(1 - 1) : OpenAt(down, j, c)
      BY <1>1, <1>2, <1>12, <3>1 DEF Wired, OpenFirst
    <3>2. 1..(1 - 1) = {}
      OBVIOUS
    <3>3. QED
      BY <3>1, <3>2
  <2>3. ~Alive(c)'
    BY <1>1, <2>1, <2>2 DEF Alive, Running
  <2> HIDE DEF d, r, i, w, v, h, m, f
  <2>4. w = i \o ((h \o d) \o r)
    BY <1>4, <1>7, <1>12 DEF h
  <2>5. v = i \o (d \o r) /\ d \o r \in Seq(Downward)
    BY <1>6, <1>8, <1>12
  <2>6. (h \o d) \o r = h \o (d \o r)
    BY <1>6, <1>9, SMTT(20)
  <2>7. w = i \o (h \o (d \o r))
    BY <2>4, <2>6
  <2>8. QED
    BY <1>2, <1>6, <2>3, <2>5, <2>7, DeadNarrows DEF w, v, h
<1>13. QED
  BY <1>1, <1>10, <1>11, <1>12

-----------------------------------------------------------------------------
(* Every step leaves a task's talk as it should be                         *)

\* Of a step that changes nothing on the way to c, or from it.
LEMMA QuietTalks ==
  ASSUME TypeOK, TypeOK', NEW c \in Chan, Talks(c), ToWorker(c)' = ToWorker(c),
         inbox'[c] = inbox[c], stdout'[c] = stdout[c], worker'[c].todo = worker[c].todo,
         MovesOn(c), HeedsLess(c)
  PROVE  Talks(c)'
<1>1. ToMain(c)' = ToMain(c)
  BY DEF ToMain
<1>2. Lessens(c)
  BY <1>1, EvenLessens
<1>3. Narrows(c)
  BY EvenNarrows
<1>4. QED
  BY <1>2, <1>3, WeakerTalks

\* What the scheduler's thread, which wrote it all, is to write next is no
\* message to c.
LEMMA SchedEven ==
  ASSUME TypeOK, TypeOK', NEW c \in Chan, sched = <<>>, UNCHANGED <<down, conn>>, stdin'[c] = stdin[c],
         pool'[c] = pool[c], \A i \in DOMAIN sched' : sched'[i].tag = "DATA" => sched'[i].c # c
  PROVE  ToWorker(c)' = ToWorker(c)
<1>1. sched \in Seq(Frames) /\ sched' \in Seq(Frames)
  BY ToWorkerIs, ToWorkerThen
<1>2. \A i \in DOMAIN sched : FALSE
  OBVIOUS
<1>3. OnDown(sched, c) = <<>>
  BY <1>1, <1>2, OnDownNone
<1>4. OnDown(sched', c) = <<>>
  BY <1>1, OnDownNone
<1>5. QED
  BY <1>3, <1>4, MainEven

LEMMA DispatchTalks ==
  ASSUME TypeOK, TypeOK', NEW c \in Chan, Talks(c), Wired(c), \A e \in Chan : OpensOnce(e),
         \/ Finish \/ Clear \/ UNCHANGED vars \/ SchedWrites
         \/ \E d \in Chan : Collect(d) \/ Expire(d) \/ PoolWrites(d)
  PROVE  Talks(c)'
<1>1. /\ UNCHANGED <<conn, inbox, hostVars>>
      /\ \A e \in Chan : pool[e] = <<>> => pool'[e] = <<>>
  <2>1. CASE \E d \in Chan : PoolWrites(d)
    BY <2>1 DEF PoolWrites, TypeOK
  <2>2. CASE \/ Finish \/ Clear \/ UNCHANGED vars \/ SchedWrites
             \/ \E d \in Chan : Collect(d) \/ Expire(d)
    BY <2>2 DEF Finish, Clear, vars, SchedWrites, Collect, Expire, wires, mainVars
  <2>3. QED
    BY <2>1, <2>2
<1>2. /\ handle'[c].seen = handle[c].seen /\ handle'[c].call = handle[c].call
      /\ handle'[c].result = handle[c].result /\ handle'[c].deaf = handle[c].deaf
      /\ handle'[c].st = "open" => handle[c].st = "open"
  <2>1. handle \in [Chan -> Handles]
    BY DEF TypeOK
  <2>2. ASSUME NEW d \in Chan, handle' = [handle EXCEPT ![d].st = "dropped"]
        PROVE  /\ handle'[c].seen = handle[c].seen /\ handle'[c].call = handle[c].call
               /\ handle'[c].result = handle[c].result /\ handle'[c].deaf = handle[c].deaf
               /\ handle'[c].st = "open" => handle[c].st = "open"
    BY <2>1, <2>2 DEF Handles
  <2>3. handle' = handle \/ \E d \in Chan : handle' = [handle EXCEPT ![d].st = "dropped"]
    BY DEF Finish, Clear, vars, SchedWrites, PoolWrites, Collect, Expire, mainVars
  <2>4. QED
    BY <2>2, <2>3
<1>3. HeedsLess(c) /\ MovesOn(c)
  BY <1>1, <1>2 DEF HeedsLess, MovesOn, Parses, Live, hostVars
<1>4. ToWorker(c)' = ToWorker(c)
  <2>1. CASE SchedWrites
    BY <2>1, SchedWritesEven
  <2>2. CASE \E d \in Chan : PoolWrites(d)
    BY <2>2, PoolWritesEven
  <2>3. CASE Clear \/ UNCHANGED vars
    BY <2>3, MainEven DEF Clear, vars, mainVars, wires, hostVars
  <2>4. CASE Finish \/ \E d \in Chan : Collect(d) \/ Expire(d)
    <3>1. sched = <<>> /\ UNCHANGED <<down, conn, pool, stdin>>
      BY <2>4 DEF Finish, Collect, Expire, Free, wires, hostVars
    <3>2. \A i \in DOMAIN sched' : sched'[i].tag # "DATA"
      <4>1. CASE Finish
        BY <4>1, KillsAre DEF Finish
      <4>2. ASSUME NEW d \in Chan, Collect(d) \/ Expire(d)
            PROVE  \A i \in DOMAIN sched' : sched'[i].tag # "DATA"
        BY <4>2 DEF Collect, Expire, Control, Frame
      <4>3. QED
        BY <2>4, <4>1, <4>2
    <3>3. QED
      BY <3>1, <3>2, SchedEven
  <2>5. QED
    BY <2>1, <2>2, <2>3, <2>4
<1>5. QED
  BY <1>1, <1>3, <1>4, QuietTalks DEF hostVars

LEMMA ClosingTalks ==
  ASSUME TypeOK, TypeOK', NEW c \in Chan, Talks(c), CloseHost \/ Drop
  PROVE  Talks(c)'
<1>1. Narrows(c)
  BY ClosingNarrows
<1>2. /\ UNCHANGED <<handle, pool, inbox, hostVars>> /\ conn' # "up"
  BY DEF CloseHost, Drop, mainVars, TypeOK
<1>3. ToMain(c)' = ToMain(c)
  BY <1>2 DEF ToMain, hostVars
<1>4. Lessens(c)
  BY <1>2, <1>3, EvenLessens
<1>5. HeedsLess(c) /\ MovesOn(c)
  BY <1>2 DEF HeedsLess, MovesOn, Parses, Live, hostVars
<1>6. QED
  BY <1>1, <1>4, <1>5, WeakerTalks

LEMMA ReaderTalks ==
  ASSUME TypeOK, TypeOK', NEW c \in Chan, Talks(c), ReaderEnds
  PROVE  Talks(c)'
<1> DEFINE m == Message("CLOSED", Nil)
           i == inbox[c]
           o == stdout[c]
           w == worker[c].todo
<1>1. /\ UNCHANGED <<handle, pool, sched, down, hostVars>> /\ conn # "up" /\ conn' # "up"
      /\ inbox'[c] = i \/ inbox'[c] = Append(i, m)
  BY DEF ReaderEnds, mainVars
<1>2. ToWorker(c)' = ToWorker(c)
  <2>1. Rest(c)' = Rest(c)
    BY <1>1 DEF Rest
  <2>2. QED
    BY <1>1, <2>1, ToWorkerIs, ToWorkerThen DEF hostVars
<1>3. Narrows(c)
  BY <1>2, EvenNarrows
<1>4. HeedsLess(c) /\ MovesOn(c)
  BY <1>1 DEF HeedsLess, MovesOn, Parses, Live, hostVars
<1>5. /\ i \in Seq(Upward) /\ o \in Seq(Upward) /\ w \in Seq(Upward)
      /\ ToMain(c) = i \o (o \o w) /\ ToMain(c)' = (inbox'[c] \o o) \o w
  BY <1>1, ToMainIs DEF ToMain, hostVars
<1>6. m \in Upward /\ Dull(m) /\ ~Asks(m)
  BY DEF Message, Upward, Dull, Asks
<1>7. Lessens(c)
  <2>1. CASE inbox'[c] = i
    <3>1. ToMain(c)' = ToMain(c)
      BY <1>1, <2>1 DEF ToMain, hostVars
    <3>2. QED
      BY <2>1, <3>1, EvenLessens
  <2>2. CASE inbox'[c] = Append(i, m)
    <3> DEFINE h == <<m>>
               b == o \o w
               s == ToMain(c)
               t == ToMain(c)'
    <3>1. ASSUME Asked(inbox'[c])
          PROVE  Asked(inbox[c])
      <4>1. inbox'[c] = i \o h
        BY <1>5, <1>6, <2>2, AppendIs
      <4>2. Asked(h) <=> Asks(m)
        BY OneMessage
      <4>3. h \in Seq(Upward)
        BY <1>6
      <4> HIDE DEF h, m, i
      <4>4. Asked(i \o h) <=> Asked(i) \/ Asked(h)
        BY <1>5, <4>3, HoldsCat
      <4>5. QED
        BY <1>6, <3>1, <4>1, <4>2, <4>4 DEF i
    <3> HIDE DEF m, i
    <3>2. h \in Seq(Upward) /\ Append(i, m) = i \o h
      <4>1. h \in Seq(Upward)
        BY <1>6
      <4>2. Append(i, m) = i \o h
        BY <1>5, <1>6, AppendIs
      <4>3. QED
        BY <4>1, <4>2
    <3>3. t = ((i \o h) \o o) \o w
      BY <1>5, <2>2, <3>2
    <3> HIDE DEF o, w, h, s, t
    <3>4. (i \o h) \o o = i \o (h \o o) /\ h \o o \in Seq(Upward)
      BY <1>5, <3>2, SMTT(20)
    <3>5. (i \o (h \o o)) \o w = i \o ((h \o o) \o w)
      <4> DEFINE z == h \o o
      <4>1. z \in Seq(Upward)
        BY <3>4
      <4> HIDE DEF z
      <4>2. (i \o z) \o w = i \o (z \o w)
        BY <1>5, <4>1, SMTT(20)
      <4>3. QED
        BY <4>2 DEF z
    <3>6. (h \o o) \o w = h \o b /\ b \in Seq(Upward)
      BY <1>5, <3>2, SMTT(20)
    <3> HIDE DEF b
    <3>7. t = i \o (h \o b)
      BY <3>3, <3>4, <3>5, <3>6, Zenon
    <3>8. s = i \o b
      BY <1>5 DEF s, b
    <3>9. QED
      BY <1>5, <1>6, <3>1, <3>6, <3>7, <3>8, DullLessens DEF s, t, h
  <2>3. QED
    BY <1>1, <2>1, <2>2
<1>8. QED
  BY <1>3, <1>4, <1>7, WeakerTalks

\* A frame that the host process takes leaves a worker alone, or starts it,
\* ends it, or tells it that no more is to come.
LEMMA HostMoves ==
  ASSUME TypeOK, NEW c \in Chan, HostLoop
  PROVE  /\ UNCHANGED <<mainVars, inbox, stdout>>
         /\ worker'[c].objects = worker[c].objects /\ worker'[c].ask = worker[c].ask
         /\ \/ worker'[c].pc = worker[c].pc /\ worker'[c].todo = worker[c].todo
            \/ /\ worker'[c].pc = "starting" /\ worker'[c].todo = worker[c].todo
               /\ down # <<>> /\ OpenAt(down, 1, c)
            \/ /\ worker'[c].pc = "ended" /\ worker'[c].todo = <<>> /\ Running(c)
<1> DEFINE Left == \/ worker'[c].pc = worker[c].pc /\ worker'[c].todo = worker[c].todo
                   \/ /\ worker'[c].pc = "starting" /\ worker'[c].todo = worker[c].todo
                      /\ down # <<>> /\ OpenAt(down, 1, c)
                   \/ /\ worker'[c].pc = "ended" /\ worker'[c].todo = <<>> /\ Running(c)
           Kept_ == worker'[c].objects = worker[c].objects /\ worker'[c].ask = worker[c].ask
<1>1. UNCHANGED <<mainVars, inbox, stdout>>
  BY DEF HostLoop, HostOpens, HostWrites, HostCloses, HostKills, HostEnds, Takes, mainVars, wires
<1>2. worker \in [Chan -> Workers] /\ down \in Seq(Frames)
  BY DEF TypeOK
<1>3. ASSUME NEW d, worker' = Ended(d), Running(d)
      PROVE  Left /\ Kept_
  BY <1>2, <1>3 DEF Ended, Workers
<1>4. CASE HostOpens
  <2>1. down # <<>> /\ Head(down).tag = "OPEN" /\ worker' = [worker EXCEPT ![Head(down).c].pc = "starting"]
    BY <1>4 DEF HostOpens, Takes
  <2>2. Head(down) = down[1]
    BY <1>2, <2>1
  <2>3. CASE Head(down).c = c
    <3>1. worker'[c] = [worker[c] EXCEPT !.pc = "starting"]
      BY <1>2, <2>1, <2>3
    <3>2. OpenAt(down, 1, c)
      BY <2>1, <2>2, <2>3 DEF OpenAt
    <3>3. worker[c] \in Workers
      BY <1>2
    <3>4. Left /\ Kept_
      BY <2>1, <3>1, <3>2, <3>3 DEF Workers
    <3>5. QED
      BY <1>1, <3>4
  <2>4. CASE Head(down).c # c
    <3>1. worker'[c] = worker[c]
      BY <1>2, <2>1, <2>4
    <3>2. QED
      BY <1>1, <3>1
  <2>5. QED
    BY <2>3, <2>4
<1>5. CASE HostWrites
  BY <1>1, <1>5 DEF HostWrites
<1>6. CASE HostCloses
  <2>1. UNCHANGED worker \/ \E d : worker' = [worker EXCEPT ![d].eof = TRUE]
    BY <1>6 DEF HostCloses
  <2>2. ASSUME NEW d, worker' = [worker EXCEPT ![d].eof = TRUE]
        PROVE  Left /\ Kept_
    BY <1>2, <2>2 DEF Workers
  <2>3. QED
    BY <1>1, <2>1, <2>2
<1>7. CASE HostKills
  <2>1. UNCHANGED worker \/ \E d : worker' = Ended(d) /\ Running(d)
    BY <1>7 DEF HostKills
  <2>2. QED
    BY <1>1, <1>3, <2>1
<1>8. CASE HostEnds
  <2>1. worker'[c] = worker[c] \/ (worker'[c] = Ended(c)[c] /\ Running(c))
    BY <1>8 DEF HostEnds
  <2>2. Ended(c)[c].pc = "ended" /\ Ended(c)[c].todo = <<>> /\ Ended(c)[c].objects = worker[c].objects
        /\ Ended(c)[c].ask = worker[c].ask
    BY <1>2 DEF Ended, Workers
  <2>3. QED
    BY <1>1, <2>1, <2>2
<1>9. QED
  BY <1>4, <1>5, <1>6, <1>7, <1>8 DEF HostLoop

LEMMA HostNarrows ==
  ASSUME TypeOK, TypeOK', NEW c \in Chan, Talks(c), Wired(c), HostLoop
  PROVE  Narrows(c)
<1>1. CASE HostWrites
  BY <1>1, WritesNarrows
<1>2. CASE HostOpens \/ HostCloses \/ HostKills
  <2>1. ToWorker(c)' = ToWorker(c)
    BY <1>2, TakesEven DEF HostOpens, HostCloses, HostKills
  <2>2. QED
    BY <2>1, EvenNarrows
<1>3. CASE HostEnds
  <2>1. UNCHANGED <<sched, pool, down, conn, stdin>>
    BY <1>3 DEF HostEnds, mainVars, wires
  <2>2. ToWorker(c)' = ToWorker(c)
    BY <2>1, MainEven
  <2>3. QED
    BY <2>2, EvenNarrows
<1>4. QED
  BY <1>1, <1>2, <1>3 DEF HostLoop

\* Of a worker that ends with messages to write.
LEMMA EndedLessens ==
  ASSUME TypeOK, NEW c \in Chan, Talks(c), worker'[c].pc = "ended", worker'[c].todo = <<>>,
         UNCHANGED <<inbox, stdout>>
  PROVE  Lessens(c)
<1> DEFINE i == inbox[c]
           o == stdout[c]
           w == worker[c].todo
           a == i \o o
<1>1. i \in Seq(Upward) /\ o \in Seq(Upward) /\ w \in Seq(Upward) /\ ToMain(c) = a \o w
      /\ a \in Seq(Upward)
  BY ToMainIs DEF ToMain
<1>2. ToMain(c)' = a \o <<>>
  BY DEF ToMain
<1>3. Asked(a) <=> Asked(i) \/ Asked(o)
  BY <1>1, HoldsCat
<1>4. ~Alive(c)'
  BY DEF Alive
<1> HIDE DEF a
<1>5. ToMain(c)' = a
  BY <1>1, <1>2
<1>6. QED
  BY <1>1, <1>3, <1>4, <1>5, CutLessens

LEMMA HostTalks ==
  ASSUME TypeOK, TypeOK', NEW c \in Chan, Talks(c), Wired(c), Truth(c), HostLoop
  PROVE  Talks(c)'
<1>1. Narrows(c)
  BY HostNarrows
<1>2. /\ UNCHANGED <<mainVars, inbox, stdout>>
      /\ worker'[c].objects = worker[c].objects /\ worker'[c].ask = worker[c].ask
      /\ \/ worker'[c].pc = worker[c].pc /\ worker'[c].todo = worker[c].todo
         \/ /\ worker'[c].pc = "starting" /\ worker'[c].todo = worker[c].todo
            /\ down # <<>> /\ OpenAt(down, 1, c)
         \/ /\ worker'[c].pc = "ended" /\ worker'[c].todo = <<>> /\ Running(c)
  BY HostMoves
<1>3. down # <<>> /\ OpenAt(down, 1, c) => worker[c].pc = "none"
  <2>1. down # <<>> => 1 \in DOMAIN down
    BY DEF TypeOK
  <2>2. QED
    BY <2>1 DEF Truth, OpensOnce
<1>4. MovesOn(c)
  BY <1>2, <1>3 DEF MovesOn, Running
<1>5. conn' = conn
  BY DEF HostLoop, HostOpens, HostWrites, HostCloses, HostKills, HostEnds, Takes, wires
<1>6. HeedsLess(c)
  BY <1>2, <1>5 DEF HeedsLess, Parses, Live, mainVars
<1>7. CASE worker'[c].todo = worker[c].todo
  <2>1. ToMain(c)' = ToMain(c)
    BY <1>2, <1>7 DEF ToMain
  <2>2. Lessens(c)
    BY <1>2, <2>1, EvenLessens
  <2>3. QED
    BY <1>1, <1>4, <1>6, <2>2, WeakerTalks
<1>8. CASE worker'[c].pc = "ended" /\ worker'[c].todo = <<>>
  <2>1. Lessens(c)
    BY <1>2, <1>8, EndedLessens
  <2>2. QED
    BY <1>1, <1>4, <1>6, <2>1, WeakerTalks
<1>9. QED
  BY <1>2, <1>7, <1>8

\* What the forwarder reads goes to the handle, or nowhere.
LEMMA ForwardTalks ==
  ASSUME TypeOK, TypeOK', NEW c \in Chan, Talks(c), NEW d \in Chan, Forward(d)
  PROVE  Talks(c)'
<1> DEFINE i == inbox[c]
           o == stdout[c]
           w == worker[c].todo
           q == Head(o)
           r == Tail(o)
<1>1. UNCHANGED <<mainVars, conn, down, stdin, worker>>
  BY DEF Forward
<1>2. ToWorker(c)' = ToWorker(c)
  BY <1>1, MainEven DEF mainVars
<1>3. HeedsLess(c) /\ MovesOn(c)
  BY <1>1 DEF HeedsLess, MovesOn, Parses, Live, mainVars
<1>4. CASE c # d
  <2>1. inbox'[c] = inbox[c] /\ stdout'[c] = stdout[c]
    BY <1>4 DEF Forward, Queued, TypeOK
  <2>2. QED
    BY <1>1, <1>2, <1>3, <2>1, QuietTalks
<1>5. CASE c = d
  <2>1. /\ o # <<>> /\ stdout'[c] = r
        /\ inbox'[c] = IF Live(c) THEN Append(i, q) ELSE i
    BY <1>5 DEF Forward, Queued, Live, TypeOK
  <2>2. /\ i \in Seq(Upward) /\ o \in Seq(Upward) /\ w \in Seq(Upward)
        /\ ToMain(c) = (i \o o) \o w /\ ToMain(c)' = (inbox'[c] \o r) \o w
        /\ ToMain(c) = i \o (o \o w)
    BY <1>1, <2>1, ToMainIs DEF ToMain
  <2>3. q \in Upward /\ r \in Seq(Upward) /\ o = <<q>> \o r
    BY <2>1, <2>2
  <2>4. Lessens(c)
    <3>1. CASE Live(c)
      <4> DEFINE h == <<q>>
      <4>1. h \in Seq(Upward) /\ Append(i, q) = i \o h /\ o = h \o r
        BY <2>2, <2>3
      <4>2. ToMain(c)' = (Append(i, q) \o r) \o w
        BY <2>1, <2>2, <3>1
      <4>3. ToMain(c) = (i \o o) \o w
        BY <2>2
      <4> HIDE DEF h, i, o, q, r, w
      <4>4. (i \o h) \o r = i \o (h \o r)
        BY <2>2, <2>3, <4>1, SMTT(20)
      <4>5. ToMain(c)' = ToMain(c)
        BY <4>1, <4>2, <4>3, <4>4, Zenon
      <4>6. QED
        BY <3>1, <4>5, EvenLessens
    <3>2. CASE ~Live(c)
      <4>1. ~Live(c)' /\ inbox'[c] = i
        BY <1>1, <2>1, <3>2 DEF Live, mainVars
      <4> DEFINE h == <<q>>
                 b == r \o w
                 s == ToMain(c)
                 t == ToMain(c)'
      <4>2. h \in Seq(Upward)
        BY <2>3
      <4>3. t = (i \o r) \o w
        BY <2>2, <4>1
      <4> HIDE DEF q, r, h, s, t
      <4>4. s = i \o ((h \o r) \o w)
        BY <2>2, <2>3 DEF s, h
      <4> HIDE DEF i, o, w
      <4>5. (h \o r) \o w = h \o (r \o w) /\ (i \o r) \o w = i \o (r \o w) /\ r \o w \in Seq(Upward)
        BY <2>2, <2>3, <4>2, SMTT(40)
      <4> HIDE DEF b
      <4>6. s = i \o (h \o b) /\ t = i \o b /\ b \in Seq(Upward)
        BY <4>3, <4>4, <4>5 DEF b
      <4>7. inbox[c] = i
        BY DEF i
      <4>8. QED
        BY <2>2, <2>3, <4>1, <4>6, <4>7, LostLessens DEF s, t, h
    <3>3. QED
      BY <3>1, <3>2
  <2>5. Narrows(c)
    BY <1>2, EvenNarrows
  <2>6. QED
    BY <1>3, <2>4, <2>5, WeakerTalks
<1>6. QED
  BY <1>4, <1>5

\* Of a message that comes last, to no one who would hear an object by it or
\* be asked.
LEMMA DullLast ==
  ASSUME NEW c \in Chan, Talks(c), ToMain(c) \in Seq(Upward), NEW q \in Upward, Dull(q),
         ToMain(c)' = ToMain(c) \o <<q>>, Asked(inbox'[c]) => Asked(inbox[c])
  PROVE  Lessens(c)
<1> DEFINE s == ToMain(c)
           t == ToMain(c)'
           h == <<q>>
<1>1. s \in Seq(Upward) /\ h \in Seq(Upward) /\ t = s \o h
  OBVIOUS
<1> HIDE DEF s, t, h
<1>2. s = s \o <<>> /\ h \o <<>> = h /\ <<>> \in Seq(Upward)
  BY <1>1
<1> DEFINE e == <<>>
<1>3. e \in Seq(Upward)
  BY <1>2
<1>4. s = s \o e /\ t = s \o (h \o e)
  BY <1>1, <1>2
<1> HIDE DEF e
<1>5. QED
  BY <1>1, <1>3, <1>4, DullLessens DEF s, t, h

\* The end of a worker's output.
LEMMA ExitTalks ==
  ASSUME TypeOK, TypeOK', NEW c \in Chan, Talks(c), Word(c), NEW d \in Chan, ForwardExit(d)
  PROVE  Talks(c)'
<1> DEFINE m == Message("EXIT", Nil)
           i == inbox[c]
<1>1. UNCHANGED <<mainVars, conn, down, stdin, stdout>>
  BY DEF ForwardExit
<1>2. ToWorker(c)' = ToWorker(c)
  BY <1>1, MainEven DEF mainVars
<1>3. HeedsLess(c)
  BY <1>1 DEF HeedsLess, Parses, Live, mainVars
<1>4. CASE c # d
  <2>1. inbox'[c] = inbox[c] /\ worker'[c] = worker[c]
    BY <1>4 DEF ForwardExit, Queued, TypeOK
  <2>2. MovesOn(c)
    BY <2>1 DEF MovesOn
  <2>3. QED
    BY <1>1, <1>2, <1>3, <2>1, <2>2, QuietTalks
<1>5. CASE c = d
  <2>1. /\ stdout[c] = <<>> /\ worker[c].pc = "ended" /\ stdout'[c] = <<>>
        /\ inbox'[c] = i \/ inbox'[c] = Append(i, m)
    BY <1>1, <1>5 DEF ForwardExit, Queued, TypeOK
  <2>2. worker'[c].pc = "reaped" /\ worker'[c].objects = worker[c].objects
        /\ worker'[c].ask = worker[c].ask /\ worker'[c].todo = worker[c].todo
    BY <1>5 DEF ForwardExit, TypeOK, Workers
  <2>3. worker[c].todo = <<>>
    BY <2>1 DEF Word
  <2>4. MovesOn(c)
    BY <2>1, <2>2 DEF MovesOn
  <2>5. i \in Seq(Upward) /\ ToMain(c) = (i \o <<>>) \o <<>> /\ ToMain(c)' = (inbox'[c] \o <<>>) \o <<>>
    BY <2>1, <2>2, <2>3, ToMainIs DEF ToMain
  <2>6. m \in Upward /\ Dull(m) /\ ~Asks(m)
    BY DEF Message, Upward, Dull, Asks
  <2> HIDE DEF m, i
  <2>7. ToMain(c) = i /\ ToMain(c) \in Seq(Upward)
    BY <2>5
  <2>8. inbox'[c] \in Seq(Upward)
    BY <2>1, <2>5, <2>6
  <2>9. ToMain(c)' = inbox'[c]
    <3> DEFINE x == inbox'[c]
    <3> HIDE DEF x
    <3>1. x \in Seq(Upward) => (x \o <<>>) \o <<>> = x
      OBVIOUS
    <3>2. QED
      BY <2>5, <2>8, <3>1 DEF x
  <2>10. CASE inbox'[c] = i
    <3>1. Lessens(c)
      BY <2>7, <2>9, <2>10, EvenLessens DEF i
    <3>2. Narrows(c)
      BY <1>2, EvenNarrows
    <3>3. QED
      BY <1>3, <2>4, <3>1, <3>2, WeakerTalks
  <2>11. CASE inbox'[c] = Append(i, m)
    <3> DEFINE h == <<m>>
    <3>1. h \in Seq(Upward) /\ Append(i, m) = i \o h
      BY <2>5, <2>6
    <3>2. Asked(h) <=> Asks(m)
      BY OneMessage
    <3> HIDE DEF h
    <3>3. Asked(i \o h) <=> Asked(i) \/ Asked(h)
      BY <2>5, <3>1, HoldsCat
    <3>4. Asked(inbox'[c]) => Asked(inbox[c])
      BY <2>6, <2>11, <3>1, <3>2, <3>3 DEF i
    <3>5. ToMain(c)' = ToMain(c) \o h
      BY <2>7, <2>9, <2>11, <3>1
    <3>6. Lessens(c)
      BY <2>6, <2>7, <3>4, <3>5, DullLast DEF h
    <3>7. Narrows(c)
      BY <1>2, EvenNarrows
    <3>8. QED
      BY <1>3, <2>4, <3>6, <3>7, WeakerTalks
  <2>12. QED
    BY <2>1, <2>10, <2>11
<1>6. QED
  BY <1>4, <1>5

-----------------------------------------------------------------------------
(* The handle is fed, and replies                                          *)

\* A value packed for a peer that has some objects.
LEMMA PackIs ==
  ASSUME NEW v \in Obj, NEW have
  PROVE  LET s == Objects(Packed(v, have))
         IN  /\ s \in Seq(Upward) /\ s \in Seq(Downward) /\ Up(s) /\ Down(s)
             /\ ~Asked(s) /\ ~Begins(s) /\ ~Ends(s) /\ ~Holds(s, "REPLY")
             /\ Brought(s) = Under(v, have) /\ Brought(s) \cap have = {}
             /\ \A had : (\A h \in have \cap Obj : Closure(h) \subseteq had) =>
                   /\ Carries(s, had) /\ Closure(v) \subseteq had \cup Brought(s)
                   /\ \A o \in Brought(s) : Closure(o) \subseteq had \cup Brought(s)
<1> DEFINE p == Packed(v, have)
           s == Objects(p)
<1>1. /\ p \in Seq(Obj) /\ Under(v, have) \subseteq Obj
      /\ \A i, j \in DOMAIN p : p[j] <= p[i] => j <= i
  BY PackedIs
<1>2. Under(v, have) \cap have = {}
  BY UnderProperties
<1> HIDE DEF p
<1>3. /\ s \in Seq(Upward) /\ s \in Seq(Downward) /\ Len(s) = Len(p)
      /\ \A i \in DOMAIN s : s[i] = Message("OBJECT", p[i]) /\ p[i] \in Obj
  BY <1>1, ObjectsAre
<1> HIDE DEF s
<1>4. \A i \in DOMAIN s : s[i].tag = "OBJECT" /\ s[i].v = p[i]
  BY <1>3 DEF Message
<1>5. Distinct(s)
  <2> SUFFICES ASSUME NEW i \in DOMAIN s, NEW j \in DOMAIN s, s[i].v = s[j].v
               PROVE  i = j
    BY DEF Distinct
  <2>1. i \in 1..Len(p) /\ j \in 1..Len(p) /\ p[i] = p[j] /\ p[i] \in Obj
    BY <1>3, <1>4
  <2>2. p[i] \in Nat
    BY <2>1, KidsAreBelow
  <2>3. i \in DOMAIN p /\ j \in DOMAIN p
    BY <1>1, <2>1
  <2>4. p[i] <= p[j] /\ p[j] <= p[i]
    BY <2>1, <2>2
  <2>5. i <= j /\ j <= i
    BY <1>1, <2>3, <2>4
  <2>6. QED
    BY <2>1, <2>5
<1>6. /\ \A tag \in {"HELLO", "TASK", "REPLY", "GET_VALUE", "CALL"} : ~Holds(s, tag)
      /\ ~Asked(s) /\ ~Begins(s) /\ ~Ends(s) /\ Up(s) /\ Down(s)
  BY <1>4, <1>5, ObjectsOnly
<1>7. ASSUME NEW had, \A h \in have \cap Obj : Closure(h) \subseteq had
      PROVE  /\ Carries(s, had) /\ Brought(s) = Under(v, have)
             /\ \A o \in {v} \cup Under(v, have) : Closure(o) \subseteq had \cup Brought(s)
  BY <1>7, CarriesPacked DEF s, p
<1>8. Brought(s) = Under(v, have)
  <2>1. \A h \in have \cap Obj : Closure(h) \subseteq Obj
    BY ClosureProperties
  <2>2. QED
    BY <1>7, <2>1
<1>9. QED
  BY <1>2, <1>3, <1>6, <1>7, <1>8 DEF s, p

\* Objects, and then an answer.
LEMMA ThenAnswer ==
  ASSUME NEW s \in Seq(Downward), Down(s), ~Begins(s), ~Ends(s), ~Holds(s, "REPLY"),
         NEW m \in Downward, m.tag = "REPLY"
  PROVE  LET u == s \o <<m>>
         IN  /\ u \in Seq(Downward) /\ Down(u) /\ ~Begins(u) /\ u # <<>> /\ u[Len(u)] = m
             /\ \A r \in Range(u) : r.tag = "REPLY" => r = m
             /\ Brought(u) = Brought(s) /\ Len(u) = Len(s) + 1
             /\ \A h : Carries(u, h)
                   <=> Carries(s, h) /\ (Names(m) => Closure(m.v) \subseteq h \cup Brought(s))
<1> DEFINE a == <<m>>
           u == s \o a
<1>0. a \in Seq(Downward)
  OBVIOUS
<1>1. Len(a) = 1 /\ a[1] = m /\ DOMAIN a = {1}
  OBVIOUS
<1>2. Down(a) /\ ~Begins(a) /\ Brought(a) = {}
  BY OneMessage
<1>3. \A h : Carries(a, h) <=> (Names(m) => Closure(m.v) \subseteq h \cup Brought(a))
  BY CarriesOne
<1> HIDE DEF a
<1>4. Range(a) = {m}
  BY <1>1 DEF Range
<1>5. Down(u)
  BY <1>0, <1>2, DownCat
<1>6. Begins(u) <=> Begins(s) \/ Begins(a)
  BY <1>0, HoldsCat
<1>7. Brought(u) = Brought(s) \cup Brought(a)
  BY <1>0, BeforeCat
<1>8. Range(u) = Range(s) \cup Range(a)
  BY <1>0, CatRange
<1>9. \A h : Carries(u, h) <=> Carries(s, h) /\ Carries(a, h \cup Brought(s))
  BY <1>0, CarriesCat
<1>10. u \in Seq(Downward) /\ Len(u) = Len(s) + 1 /\ u[Len(u)] = a[1]
  <2>1. u \in Seq(Downward) /\ Len(u) = Len(s) + Len(a)
    BY <1>0
  <2>2. \A i \in 1..Len(a) : (s \o a)[Len(s) + i] = a[i]
    BY <1>0, BeforeCat
  <2>3. 1 \in 1..Len(a)
    BY <1>1
  <2>4. QED
    BY <1>1, <2>1, <2>2, <2>3
<1>11. u # <<>>
  BY <1>10
<1>12. \A r \in Range(s) : r.tag # "REPLY"
  BY RangeIs
<1> HIDE DEF u
<1>13. \A h : Carries(u, h)
                <=> Carries(s, h) /\ (Names(m) => Closure(m.v) \subseteq h \cup Brought(s))
  <2>1. \A h : (h \cup Brought(s)) \cup Brought(a) = h \cup Brought(s)
    BY <1>2
  <2>2. QED
    BY <1>3, <1>9, <2>1
<1>14. \A r \in Range(u) : r.tag = "REPLY" => r = m
  BY <1>4, <1>8, <1>12
<1>15. Down(u) /\ ~Begins(u) /\ Brought(u) = Brought(s) /\ u[Len(u)] = m
  BY <1>1, <1>2, <1>5, <1>6, <1>7, <1>10
<1>16. QED
  BY <1>10, <1>11, <1>13, <1>14, <1>15 DEF u, a

\* What answers a request: a value's objects and its name, or no value.
LEMMA AnswerIs ==
  ASSUME TypeOK, NEW c \in Chan, NEW v \in Obj, NEW asked \in {"GET_VALUE", "CALL"}
  PROVE  LET x == Objects(ToSend(c, v)) \o <<Answer(v, asked)>>
         IN  /\ x \in Seq(Downward) /\ Down(x) /\ ~Begins(x) /\ x # <<>> /\ x[Len(x)].tag = "REPLY"
             /\ \A m \in Range(x) : m.tag = "REPLY" => m.to = asked
             /\ Brought(x) \cap handle[c].seen = {} /\ Brought(x) = Range(ToSend(c, v))
             /\ \A h : (\A o \in handle[c].seen : Closure(o) \subseteq h) => Carries(x, h)
<1> DEFINE seen == handle[c].seen
           s == Objects(ToSend(c, v))
           m == Answer(v, asked)
           x == s \o <<m>>
<1>1. Range(ToSend(c, v)) = Under(v, seen)
  BY ToSendIs
<1>2. m \in Downward /\ m.tag = "REPLY" /\ m.to = asked /\ m.v = v
  BY MessagesAre DEF Answer
<1>3. s = Objects(Packed(v, seen))
  BY DEF ToSend
<1> HIDE DEF s, seen, m
<1>4. /\ s \in Seq(Downward) /\ Down(s) /\ ~Begins(s) /\ ~Ends(s) /\ ~Holds(s, "REPLY")
      /\ Brought(s) = Under(v, seen) /\ Brought(s) \cap seen = {}
  BY <1>3, PackIs
<1>5. ASSUME NEW had, \A h \in seen : Closure(h) \subseteq had
      PROVE  Carries(s, had) /\ Closure(v) \subseteq had \cup Brought(s)
  BY <1>3, <1>5, CarriesPacked
<1>6. /\ x \in Seq(Downward) /\ Down(x) /\ ~Begins(x) /\ x # <<>> /\ x[Len(x)] = m
      /\ \A r \in Range(x) : r.tag = "REPLY" => r = m
      /\ Brought(x) = Brought(s)
      /\ \A h : Carries(x, h)
            <=> Carries(s, h) /\ (Names(m) => Closure(m.v) \subseteq h \cup Brought(s))
  BY <1>2, <1>4, ThenAnswer
<1> HIDE DEF x
<1>7. \A h : (\A o \in seen : Closure(o) \subseteq h) => Carries(x, h)
  BY <1>2, <1>5, <1>6
<1>8. QED
  BY <1>1, <1>2, <1>4, <1>6, <1>7 DEF x, s, seen, m

LEMMA NoAnswerIs ==
  ASSUME NEW asked \in {"GET_VALUE", "CALL"}
  PROVE  LET x == <<Answer(Nil, asked)>>
         IN  /\ x \in Seq(Downward) /\ Down(x) /\ ~Begins(x) /\ x # <<>> /\ x[Len(x)].tag = "REPLY"
             /\ \A m \in Range(x) : m.tag = "REPLY" => m.to = asked
             /\ Brought(x) = {} /\ \A h : Carries(x, h)
<1> DEFINE m == Answer(Nil, asked)
           x == <<m>>
<1>1. m \in Downward /\ m.tag = "REPLY" /\ m.to = asked /\ m.v = Nil
  BY MessagesAre DEF Answer
<1> HIDE DEF m
<1>2. x \in Seq(Downward) /\ Len(x) = 1 /\ x[1] = m /\ x # <<>> /\ DOMAIN x = {1}
  BY <1>1
<1>3. Down(x) /\ ~Begins(x) /\ Brought(x) = {}
  BY <1>1, OneMessage
<1>4. \A h : Carries(x, h) <=> (Names(m) => Closure(m.v) \subseteq h \cup Brought(x))
  BY CarriesOne
<1>5. ~Names(m)
  BY <1>1 DEF Names
<1> HIDE DEF x
<1>6. Range(x) = {m}
  BY <1>2 DEF Range
<1>7. QED
  BY <1>1, <1>2, <1>3, <1>4, <1>5, <1>6 DEF x, m

\* The message a handle is fed was the first on its way.
LEMMA FedFirst ==
  ASSUME TypeOK, NEW c \in Chan, Feed(c)
  PROVE  /\ Head(inbox[c]) \in Upward /\ ToMain(c)' \in Seq(Upward)
         /\ ToMain(c) = <<Head(inbox[c])>> \o ToMain(c)'
         /\ Asked(inbox[c]) <=> Asks(Head(inbox[c])) \/ Asked(inbox'[c])
         /\ Asked(inbox'[c]) => Asked(ToMain(c)')
<1> DEFINE i == inbox[c]
           o == stdout[c]
           w == worker[c].todo
           q == Head(i)
           j == Tail(i)
<1>1. i # <<>> /\ inbox'[c] = j /\ UNCHANGED hostVars
  BY FeedIs
<1>2. i \in Seq(Upward) /\ o \in Seq(Upward) /\ w \in Seq(Upward) /\ ToMain(c) = (i \o o) \o w
  BY ToMainIs DEF ToMain
<1>3. ToMain(c)' = (j \o o) \o w
  BY <1>1 DEF ToMain, hostVars
<1> HIDE DEF i, o, w
<1>4. q \in Upward /\ j \in Seq(Upward)
  BY <1>1, <1>2
<1>5. i = <<q>> \o j
  BY <1>1, <1>2, HeadThenTail
<1>6. (i \o o) \o w = <<q>> \o ((j \o o) \o w)
  BY <1>1, <1>2, HeadFirst, SMTT(30)
<1> HIDE DEF q, j
<1>7. (j \o o) \o w \in Seq(Upward)
  <2>1. j \o o \in Seq(Upward)
    BY <1>2, <1>4
  <2> DEFINE u == j \o o
  <2> HIDE DEF u
  <2>2. u \in Seq(Upward) => u \o w \in Seq(Upward)
    BY <1>2
  <2>3. QED
    BY <2>1, <2>2 DEF u
<1>8. Asked(<<q>> \o j) <=> Asks(q) \/ Asked(j)
  BY <1>4, HeadOff
<1>9. Asked(j) => Asked((j \o o) \o w)
  BY <1>2, <1>4, InFirst
<1>10. QED
  BY <1>1, <1>2, <1>3, <1>4, <1>5, <1>6, <1>7, <1>8, <1>9 DEF i, q

\* Only a request for a value is answered by the scheduler's thread.
LEMMA FeedSends ==
  ASSUME TypeOK, NEW d \in Chan, Feed(d)
  PROVE  /\ \A i \in DOMAIN sched' : sched'[i].tag = "DATA" => sched'[i].c = d
         /\ ~FeedGet(d) => \A i \in DOMAIN sched' : sched'[i].tag # "DATA"
<1>1. sched = <<>>
  BY FeedIs
<1>2. Escapes => \A i \in DOMAIN sched' : sched'[i].tag # "DATA"
  BY KillsAre DEF Escapes
<1>3. UNCHANGED sched => \A i \in DOMAIN sched' : sched'[i].tag # "DATA"
  BY <1>1
<1>4. CASE FeedGet(d)
  <2>1. Head(inbox[d]).v \in Obj
    BY <1>4, FedType DEF FeedGet
  <2>2. RepliesToGet(d, Head(inbox[d]).v) \in Seq(Downward)
    BY <2>1, RepliesAre
  <2>3. sched' = Data(d, RepliesToGet(d, Head(inbox[d]).v))
    BY <1>4 DEF FeedGet
  <2>4. QED
    BY <1>4, <2>2, <2>3, DataIs DEF Frame
<1>5. CASE ~FeedGet(d)
  <2>1. Escapes \/ UNCHANGED sched
    BY <1>5 DEF Feed, FeedExit, FeedLate, FeedObject, FeedResult, FeedRecord, FeedCall, FeedPrint, mainVars
  <2>2. QED
    BY <1>2, <1>3, <1>5, <2>1
<1>6. QED
  BY <1>4, <1>5

\* Of the handles that are not fed.
LEMMA UnfedTalks ==
  ASSUME TypeOK, TypeOK', NEW c \in Chan, Talks(c), NEW d \in Chan, c # d, Feed(d)
  PROVE  Talks(c)'
<1>1. /\ sched = <<>> /\ UNCHANGED <<pool, conn, down, hostVars>>
      /\ handle'[c] = handle[c] /\ inbox'[c] = inbox[c]
  BY FeedIs
<1>2. ToWorker(c)' = ToWorker(c)
  BY <1>1, FeedSends, SchedEven DEF hostVars
<1>3. HeedsLess(c) /\ MovesOn(c)
  BY <1>1 DEF HeedsLess, MovesOn, Parses, Live, hostVars
<1>4. QED
  BY <1>1, <1>2, <1>3, QuietTalks DEF hostVars

\* Of a handle that is fed what is neither an object nor a request, or that
\* it does not look at.
LEMMA FeedMild ==
  ASSUME TypeOK, TypeOK', NEW c \in Chan, Talks(c), Feed(c), ~FeedObject(c), ~FeedGet(c),
         handle'[c].call => handle[c].call
  PROVE  Talks(c)'
<1> DEFINE q == Head(inbox[c])
<1>1. /\ sched = <<>> /\ UNCHANGED <<pool, conn, down, hostVars>>
  BY FeedIs
<1>2. ToWorker(c)' = ToWorker(c)
  BY <1>1, FeedSends, SchedEven DEF hostVars
<1>3. Narrows(c)
  BY <1>2, EvenNarrows
<1>4. MovesOn(c)
  BY <1>1 DEF MovesOn, hostVars
<1>5. /\ handle'[c].seen = handle[c].seen /\ handle'[c].st = handle[c].st
      /\ handle'[c].result = None => handle[c].result = None
      /\ handle'[c].deaf \in BOOLEAN /\ (handle[c].deaf => handle'[c].deaf)
      /\ q.tag = "OBJECT" => ~Parses(c)
  <2>1. handle \in [Chan -> Handles] /\ handle[c].deaf \in BOOLEAN
    BY DEF TypeOK, Handles
  <2>2. CASE FeedExit(c)
    BY <2>1, <2>2 DEF FeedExit, Fed, Handles
  <2>3. CASE FeedLate(c)
    BY <2>1, <2>3 DEF FeedLate, Fed, Handles, None, Nil
  <2>4. CASE FeedPrint(c)
    BY <2>1, <2>4 DEF FeedPrint, Fed, Handles, None, Nil, Parses
  <2>5. CASE FeedResult(c)
    BY <2>1, <2>5 DEF FeedResult, Fed, Handles, Escapes, Parses
  <2>6. CASE FeedRecord(c)
    BY <2>1, <2>6 DEF FeedRecord, Fed, mainVars
  <2>7. CASE FeedCall(c)
    BY <2>1, <2>7 DEF FeedCall, Fed, Handles, Escapes
  <2>8. QED
    BY <2>2, <2>3, <2>4, <2>5, <2>6, <2>7 DEF Feed
<1>6. Parses(c)' => Parses(c)
  BY <1>5 DEF Parses
<1>7. HeedsLess(c)
  BY <1>1, <1>5, <1>6 DEF HeedsLess, Live
<1>8. Lessens(c)
  <2>1. /\ q \in Upward /\ ToMain(c)' \in Seq(Upward) /\ ToMain(c) = <<q>> \o ToMain(c)'
        /\ Asked(inbox'[c]) => Asked(inbox[c])
    BY FedFirst
  <2>2. q.tag # "OBJECT" \/ ~Parses(c)'
    BY <1>5, <1>6
  <2> HIDE DEF q
  <2>3. QED
    BY <2>1, <2>2, FedLessens
<1>9. QED
  BY <1>3, <1>4, <1>7, <1>8, WeakerTalks

LEMMA FeedObjectTalks ==
  ASSUME TypeOK, TypeOK', NEW c \in Chan, Talks(c), FeedObject(c)
  PROVE  Talks(c)'
<1> DEFINE q == Head(inbox[c])
<1>0. Feed(c)
  BY DEF Feed
<1>1. /\ sched = <<>> /\ UNCHANGED <<pool, conn, down, hostVars>>
  BY <1>0, FeedIs
<1>2. ~FeedGet(c)
  BY DEF FeedObject, FeedGet, Fed
<1>3. ToWorker(c)' = ToWorker(c)
  BY <1>0, <1>1, <1>2, FeedSends, SchedEven DEF hostVars
<1>4. /\ q.tag = "OBJECT" /\ handle'[c].seen = handle[c].seen \cup {q.v}
      /\ handle'[c].call = handle[c].call /\ handle'[c].result = handle[c].result
      /\ handle'[c].deaf = handle[c].deaf /\ handle'[c].st = handle[c].st
  BY DEF FeedObject, Fed, TypeOK, Handles
<1>5. /\ q \in Upward /\ ToMain(c)' \in Seq(Upward) /\ ToMain(c) = <<q>> \o ToMain(c)'
      /\ Asked(inbox'[c]) => Asked(inbox[c])
  BY <1>0, FedFirst
<1> HIDE DEF q
<1> DEFINE t == ToMain(c)'
<1>6. Up(ToMain(c))
  BY DEF Talks
<1>7. /\ Brought(<<q>> \o t) = Bears(q) \cup Brought(t)
      /\ Range(<<q>> \o t) = {q} \cup Range(t)
      /\ Up(<<q>> \o t) => Up(t) /\ Bears(q) \cap Brought(t) = {}
  BY <1>5, HeadOff
<1>8. Bears(q) = {q.v}
  BY <1>4 DEF Bears
<1>9. QED
  BY <1>1, <1>3, <1>4, <1>5, <1>6, <1>7, <1>8, ObjectHeard DEF hostVars

LEMMA FeedCallTalks ==
  ASSUME TypeOK, TypeOK', NEW c \in Chan, Talks(c), FeedCall(c), ~handle[c].call, handle'[c].call
  PROVE  Talks(c)'
<1> DEFINE q == Head(inbox[c])
<1>0. Feed(c)
  BY DEF Feed
<1>1. /\ sched = <<>> /\ UNCHANGED <<pool, conn, down, hostVars>>
  BY <1>0, FeedIs
<1>2. ~FeedGet(c)
  BY DEF FeedCall, FeedGet, Fed
<1>3. ToWorker(c)' = ToWorker(c)
  BY <1>0, <1>1, <1>2, FeedSends, SchedEven DEF hostVars
<1>4. /\ q.tag = "CALL" /\ Parses(c) /\ handle'[c].seen = handle[c].seen
      /\ handle'[c].result = handle[c].result
      /\ handle'[c].deaf = handle[c].deaf /\ handle'[c].st = handle[c].st
  BY DEF FeedCall, Fed, TypeOK, Handles, Escapes
<1>5. /\ q \in Upward /\ ToMain(c)' \in Seq(Upward) /\ ToMain(c) = <<q>> \o ToMain(c)'
      /\ Asked(inbox[c]) <=> Asks(q) \/ Asked(inbox'[c])
      /\ Asked(inbox'[c]) => Asked(ToMain(c)')
  BY <1>0, FedFirst
<1> HIDE DEF q
<1> DEFINE t == ToMain(c)'
<1>6. Up(ToMain(c))
  BY DEF Talks
<1>7. /\ Brought(<<q>> \o t) = Bears(q) \cup Brought(t)
      /\ Range(<<q>> \o t) = {q} \cup Range(t)
      /\ Up(<<q>> \o t) => /\ Up(t)
                           /\ Asks(q) => ~Asked(t) /\ Brought(t) = {}
  BY <1>5, HeadOff
<1>8. Bears(q) = {} /\ Asks(q)
  BY <1>4 DEF Bears, Asks
<1>9. /\ Up(t) /\ ~Asked(t) /\ Brought(t) = {} /\ Brought(ToMain(c)) = {}
      /\ Range(t) \subseteq Range(ToMain(c)) /\ q \in Range(ToMain(c))
      /\ Asked(inbox[c]) /\ ~Asked(inbox'[c])
  BY <1>5, <1>6, <1>7, <1>8
<1>10. QED
  BY <1>1, <1>3, <1>4, <1>9, CallHeard DEF hostVars

\* A pool's thread has nothing to write when there is no reply of its own.
LEMMA PoolIsEmpty ==
  ASSUME TypeOK, NEW c \in Chan, Wired(c), OpensOnce(c), conn = "up", ~Holds(ToWorker(c), "REPLY")
  PROVE  pool[c] = <<>> /\ OnDown(pool[c], c) = <<>>
<1> DEFINE p == pool[c]
           o == OnDown(p, c)
           i == stdin[c]
           d == OnDown(down, c)
           s == OnDown(sched, c)
<1>1. /\ ToWorker(c) = i \o (d \o Rest(c)) /\ i \in Seq(Downward) /\ d \in Seq(Downward)
      /\ Rest(c) \in Seq(Downward) /\ s \in Seq(Downward) /\ o \in Seq(Downward) /\ p \in Seq(Frames)
  BY ToWorkerIs
<1>2. Rest(c) = s \o o
  BY DEF Rest
<1>3. /\ \A k \in DOMAIN p : p[k].tag = "DATA" /\ p[k].c = c
      /\ p # <<>> => p[Len(p)].m.tag = "REPLY"
  BY DEF Wired, OpensOnce
<1> HIDE DEF p
<1>4. Len(o) = Len(p) /\ \A k \in DOMAIN p : o[k] = p[k].m
  BY <1>1, <1>3, OnDownAll
<1> HIDE DEF o, i, d, s
<1>5. ASSUME p # <<>>
      PROVE  FALSE
  <2>1. Len(p) \in DOMAIN p
    BY <1>1, <1>5
  <2>2. Len(p) \in DOMAIN o /\ o[Len(p)].tag = "REPLY"
    <3>1. DOMAIN o = 1..Len(o) /\ DOMAIN p = 1..Len(p)
      BY <1>1
    <3>2. o[Len(p)] = p[Len(p)].m
      BY <1>4, <2>1
    <3>3. QED
      BY <1>3, <1>4, <1>5, <2>1, <3>1, <3>2
  <2>3. Holds(o, "REPLY")
    BY <2>2 DEF Holds
  <2>4. Holds(s \o o, "REPLY")
    BY <1>1, <2>3, HoldsCat
  <2> DEFINE r == s \o o
  <2>5. r \in Seq(Downward)
    BY <1>1, <1>2
  <2> HIDE DEF r
  <2>6. Holds(d \o r, "REPLY") /\ d \o r \in Seq(Downward)
    <3>1. Holds(r, "REPLY")
      BY <2>4 DEF r
    <3>2. \A tag : Holds(d \o r, tag) <=> Holds(d, tag) \/ Holds(r, tag)
      BY <1>1, <2>5, HoldsCat
    <3>3. d \o r \in Seq(Downward)
      BY <1>1, <2>5
    <3>4. QED
      BY <3>1, <3>2, <3>3
  <2> DEFINE x == d \o r
  <2> HIDE DEF x
  <2>7. \A tag : Holds(i \o x, tag) <=> Holds(i, tag) \/ Holds(x, tag)
    BY <1>1, <2>6, HoldsCat, ZenonT(40) DEF x
  <2>8. QED
    BY <1>1, <1>2, <2>6, <2>7 DEF x, r
<1>6. Len(p) = 0
  BY <1>5
<1>7. p = <<>> /\ o = <<>>
  BY <1>1, <1>4, <1>6, EmptyIs
<1>8. QED
  BY <1>7 DEF p, o

\* What answers a request for a value.
LEMMA RepliesTalk ==
  ASSUME TypeOK, NEW c \in Chan, NEW v \in Obj
  PROVE  LET x == RepliesToGet(c, v)
         IN  /\ x \in Seq(Downward) /\ Down(x) /\ ~Begins(x) /\ x # <<>> /\ x[Len(x)].tag = "REPLY"
             /\ \A m \in Range(x) : m.tag = "REPLY" => m.to = "GET_VALUE"
             /\ Brought(x) \cap handle[c].seen = {}
             /\ \A h : (\A o \in handle[c].seen : Closure(o) \subseteq h) => Carries(x, h)
             /\ Brought(x) = {m.v : m \in {r \in Range(x) : r.tag = "OBJECT"}}
<1> DEFINE x == RepliesToGet(c, v)
<1>1. CASE Closure(v) \subseteq store
  <2>1. x = Objects(ToSend(c, v)) \o <<Answer(v, "GET_VALUE")>>
    BY <1>1 DEF RepliesToGet
  <2> HIDE DEF x
  <2>2. x \in Seq(Downward)
    BY <2>1, AnswerIs
  <2>3. Brought(x) = {m.v : m \in {r \in Range(x) : r.tag = "OBJECT"}}
    BY <2>2, BroughtIs DEF Range
  <2>4. /\ Down(x) /\ ~Begins(x) /\ x # <<>> /\ x[Len(x)].tag = "REPLY"
        /\ \A m \in Range(x) : m.tag = "REPLY" => m.to = "GET_VALUE"
        /\ Brought(x) \cap handle[c].seen = {}
        /\ \A h : (\A o \in handle[c].seen : Closure(o) \subseteq h) => Carries(x, h)
    BY <2>1, AnswerIs
  <2>5. QED
    BY <2>2, <2>3, <2>4 DEF x
<1>2. CASE ~(Closure(v) \subseteq store)
  <2>1. x = <<Answer(Nil, "GET_VALUE")>>
    BY <1>2 DEF RepliesToGet
  <2> HIDE DEF x
  <2>2. x \in Seq(Downward)
    BY <2>1, NoAnswerIs
  <2>3. Brought(x) = {m.v : m \in {r \in Range(x) : r.tag = "OBJECT"}}
    BY <2>2, BroughtIs DEF Range
  <2>4. /\ Down(x) /\ ~Begins(x) /\ x # <<>> /\ x[Len(x)].tag = "REPLY"
        /\ \A m \in Range(x) : m.tag = "REPLY" => m.to = "GET_VALUE"
        /\ Brought(x) = {} /\ \A h : Carries(x, h)
    BY <2>1, NoAnswerIs
  <2>5. QED
    BY <2>2, <2>3, <2>4 DEF x
<1>3. QED
  BY <1>1, <1>2

LEMMA FeedGetTalks ==
  ASSUME TypeOK, TypeOK', NEW c \in Chan, Talks(c), Wired(c), OpensOnce(c), FeedGet(c)
  PROVE  Talks(c)'
<1> DEFINE q == Head(inbox[c])
           x == RepliesToGet(c, q.v)
           t == ToMain(c)'
<1>1. Feed(c)
  BY DEF Feed
<1>2. /\ sched = <<>> /\ UNCHANGED <<pool, conn, down, hostVars>>
  BY <1>1, FeedIs
<1>3. /\ q.tag = "GET_VALUE" /\ Parses(c) /\ sched' = Data(c, x) /\ handle'[c].call = handle[c].call
      /\ handle'[c].seen = handle[c].seen \cup {m.v : m \in {r \in Range(x) : r.tag = "OBJECT"}}
  BY DEF FeedGet, Fed, TypeOK, Handles
<1>4. /\ q \in Upward /\ t \in Seq(Upward) /\ ToMain(c) = <<q>> \o t
      /\ Asked(inbox[c]) <=> Asks(q) \/ Asked(inbox'[c])
  BY <1>1, FedFirst
<1>5. q.v \in Obj
  BY <1>3, <1>4, MessageIs
<1> HIDE DEF q
<1>6. /\ x \in Seq(Downward) /\ Down(x) /\ ~Begins(x)
      /\ \A m \in Range(x) : m.tag = "REPLY" => m.to = "GET_VALUE"
      /\ Brought(x) \cap handle[c].seen = {}
      /\ \A h : (\A o \in handle[c].seen : Closure(o) \subseteq h) => Carries(x, h)
      /\ handle'[c].seen = handle[c].seen \cup Brought(x)
  BY <1>3, <1>5, RepliesTalk
<1> HIDE DEF x, t
<1>7. Asks(q) /\ Bears(q) = {}
  BY <1>3 DEF Asks, Bears
<1>8. /\ Up(t) /\ ~Asked(t) /\ Brought(t) = {} /\ Brought(ToMain(c)) = {}
      /\ Asked(ToMain(c)) /\ q \in Range(ToMain(c)) /\ Asked(inbox[c])
  <2>1. /\ Brought(<<q>> \o t) = Bears(q) \cup Brought(t)
        /\ Asked(<<q>> \o t) <=> Asks(q) \/ Asked(t)
        /\ Range(<<q>> \o t) = {q} \cup Range(t)
        /\ Up(<<q>> \o t) => /\ Up(t)
                             /\ Asks(q) => ~Asked(t) /\ Brought(t) = {}
    BY <1>4, HeadOff
  <2>2. Up(ToMain(c))
    BY DEF Talks
  <2>3. QED
    BY <1>4, <1>7, <2>1, <2>2
<1>9. Exchanges(c) /\ Crosses(c)
  BY DEF Talks
<1>10. /\ ~handle[c].call /\ ~Holds(ToWorker(c), "REPLY") /\ ~Begins(ToWorker(c))
       /\ Alive(c) => worker[c].pc = "asking" /\ worker[c].ask = "GET_VALUE"
       /\ worker[c].pc # "none"
  BY <1>3, <1>7, <1>8, <1>9 DEF Exchanges
<1>11. ~Ends(ToWorker(c))
  BY <1>10 DEF Begins, Ends
<1>12. worker[c].objects \subseteq handle[c].seen
  BY <1>3, <1>8, <1>9 DEF Crosses, Known
<1>13. ToWorker(c)' = IF conn = "up" THEN ToWorker(c) \o x ELSE ToWorker(c)
  <2>1. stdin'[c] = stdin[c] /\ down' = down /\ conn' = conn /\ pool' = pool
    BY <1>2 DEF hostVars
  <2>2. OnDown(sched', c) = x
    BY <1>3, <1>6, OnDownData
  <2>3. OnDown(sched, c) = <<>>
    <3>1. sched \in Seq(Frames) /\ \A i \in DOMAIN sched : FALSE
      BY <1>2 DEF TypeOK
    <3>2. QED
      BY <3>1, OnDownNone
  <2>4. conn = "up" => OnDown(pool[c], c) = <<>>
    BY <1>10, PoolIsEmpty
  <2>5. x \o <<>> = x /\ (<<>> \o <<>>) \o x = x
    BY <1>6
  <2>6. conn = "up" => OnDown(sched', c) \o OnDown(pool'[c], c)
                         = (OnDown(sched, c) \o OnDown(pool[c], c)) \o x
    BY <2>1, <2>2, <2>3, <2>4, <2>5
  <2>7. QED
    BY <1>6, <2>1, <2>6, ToWorkerMore
<1>14. ToWorker(c) \in Seq(Downward)
  BY ToWorkerIs
<1>15. worker'[c] = worker[c] /\ conn' = conn
  BY <1>2 DEF hostVars
<1>16. Up(ToMain(c))' /\ Brought(ToMain(c)') = {} /\ ~Asked(ToMain(c)')
  BY <1>8 DEF t
<1>17. ~handle'[c].call
  BY <1>3, <1>10
<1>18. QED
  BY <1>6, <1>10, <1>11, <1>12, <1>13, <1>14, <1>15, <1>16, <1>17, Replied

\* Whatever a handle is fed.
LEMMA FeedTalks ==
  ASSUME TypeOK, TypeOK', NEW c \in Chan, Talks(c), Wired(c), OpensOnce(c), NEW d \in Chan, Feed(d)
  PROVE  Talks(c)'
<1>1. CASE c # d
  BY <1>1, UnfedTalks
<1>2. CASE c = d /\ FeedObject(c)
  BY <1>2, FeedObjectTalks
<1>3. CASE c = d /\ FeedGet(c)
  BY <1>3, FeedGetTalks
<1>4. CASE c = d /\ ~FeedObject(c) /\ ~FeedGet(c) /\ (handle'[c].call => handle[c].call)
  BY <1>4, FeedMild
<1>5. CASE c = d /\ ~(handle'[c].call => handle[c].call)
  <2>1. handle \in [Chan -> Handles]
    BY DEF TypeOK
  <2>2. FeedCall(c)
    BY <1>5, <2>1 DEF Feed, FeedExit, FeedLate, FeedObject, FeedResult, FeedRecord, FeedGet, FeedPrint,
                      Handles, Escapes, mainVars
  <2>3. QED
    BY <1>5, <2>2, FeedCallTalks
<1>6. QED
  BY <1>1, <1>2, <1>3, <1>4, <1>5

\* A call that is answered, by its value or without one.
LEMMA CalledTalks ==
  ASSUME TypeOK, TypeOK', NEW c \in Chan, Talks(c), Wired(c), OpensOnce(c), handle[c].call,
         NEW x \in Seq(Downward), Down(x), ~Begins(x),
         \A m \in Range(x) : m.tag = "REPLY" => m.to = "CALL",
         Brought(x) \cap handle[c].seen = {},
         \A h : (\A o \in handle[c].seen : Closure(o) \subseteq h) => Carries(x, h),
         pool'[c] = Data(c, x), ~handle'[c].call, handle'[c].seen = handle[c].seen \cup Brought(x),
         UNCHANGED <<sched, wires, hostVars>>
  PROVE  Talks(c)'
<1>1. Exchanges(c) /\ Crosses(c) /\ Up(ToMain(c))
  BY DEF Talks
<1>2. /\ ~Holds(ToWorker(c), "REPLY") /\ ~Begins(ToWorker(c)) /\ ~Asked(ToMain(c))
      /\ Alive(c) => worker[c].pc = "asking" /\ worker[c].ask = "CALL"
      /\ worker[c].pc # "none"
  BY <1>1 DEF Exchanges
<1>3. ~Ends(ToWorker(c))
  BY <1>2 DEF Begins, Ends
<1>4. Brought(ToMain(c)) = {} /\ worker[c].objects \subseteq handle[c].seen
  BY <1>1 DEF Crosses, Known
<1>5. stdin'[c] = stdin[c] /\ down' = down /\ conn' = conn /\ worker'[c] = worker[c] /\ inbox'[c] = inbox[c]
      /\ stdout'[c] = stdout[c]
  BY DEF wires, hostVars
<1>6. ToMain(c)' = ToMain(c)
  BY <1>5 DEF ToMain
<1>7. ToWorker(c)' = IF conn = "up" THEN ToWorker(c) \o x ELSE ToWorker(c)
  <2>1. OnDown(pool'[c], c) = x
    BY OnDownData
  <2>2. conn = "up" => OnDown(pool[c], c) = <<>>
    BY <1>2, PoolIsEmpty
  <2> DEFINE s == OnDown(sched, c)
  <2>3. s \in Seq(Downward) /\ OnDown(sched', c) = s
    BY ToWorkerIs
  <2> HIDE DEF s
  <2>4. s \o x = (s \o <<>>) \o x
    BY <2>3
  <2>5. conn = "up" => OnDown(sched', c) \o OnDown(pool'[c], c)
                         = (OnDown(sched, c) \o OnDown(pool[c], c)) \o x
    BY <2>1, <2>2, <2>3, <2>4 DEF s
  <2>6. QED
    BY <1>5, <2>5, ToWorkerMore
<1>8. ToWorker(c) \in Seq(Downward)
  BY ToWorkerIs
<1>9. Up(ToMain(c))' /\ Brought(ToMain(c)') = {} /\ ~Asked(ToMain(c)')
  BY <1>1, <1>2, <1>4, <1>6
<1>10. QED
  BY <1>2, <1>3, <1>4, <1>5, <1>7, <1>8, <1>9, Replied

LEMMA CallsTalk ==
  ASSUME TypeOK, TypeOK', NEW c \in Chan, Talks(c), Wired(c), OpensOnce(c), NEW d \in Chan, Calls(d)
  PROVE  Talks(c)'
<1>1. UNCHANGED <<main, sched, outcome, wires, hostVars>>
  BY DEF Calls, RunCall, RunCallFails, disk
<1>2. /\ \A e \in Chan : handle'[e].st = handle[e].st /\ handle'[e].result = handle[e].result
                         /\ handle'[e].deaf = handle[e].deaf
      /\ c # d => handle'[c] = handle[c]
      /\ handle[d].call
  BY CalledIs
<1>3. ASSUME pool'[c] = pool[c], handle'[c].seen = handle[c].seen, handle'[c].call => handle[c].call
      PROVE  Talks(c)'
  <2>1. ToWorker(c)' = ToWorker(c)
    BY <1>1, <1>3, MainEven DEF wires, hostVars
  <2>2. HeedsLess(c) /\ MovesOn(c)
    BY <1>1, <1>2, <1>3 DEF HeedsLess, MovesOn, Parses, Live, wires, hostVars
  <2>3. QED
    BY <1>1, <2>1, <2>2, QuietTalks DEF wires, hostVars
<1>4. CASE c # d
  <2>1. pool'[c] = pool[c]
    BY <1>4 DEF Calls, RunCall, RunCallFails, TypeOK
  <2>2. QED
    BY <1>2, <1>3, <1>4, <2>1
<1>5. CASE c = d /\ RunCall(c)
  <2>1. CASE Told \in Uncarried
    <3>1. pool' = pool /\ handle' = [handle EXCEPT ![c].call = FALSE]
      BY <1>5, <2>1 DEF RunCall
    <3>2. handle'[c].seen = handle[c].seen /\ ~handle'[c].call
      BY <3>1 DEF TypeOK, Handles
    <3>3. QED
      BY <1>3, <3>1, <3>2
  <2>2. CASE Told \notin Uncarried
    <3> DEFINE x == Objects(ToSend(c, Told)) \o <<Answer(Told, "CALL")>>
    <3>1. /\ pool' = [pool EXCEPT ![c] = Data(c, x)]
          /\ handle' = [handle EXCEPT ![c].call = FALSE, ![c].seen = @ \cup Range(ToSend(c, Told))]
      BY <1>5, <2>2 DEF RunCall
    <3> HIDE DEF x
    <3>2. /\ pool'[c] = Data(c, x) /\ ~handle'[c].call
          /\ handle'[c].seen = handle[c].seen \cup Range(ToSend(c, Told))
      BY <3>1 DEF TypeOK, Handles
    <3>3. Told \in Obj
      BY Given
    <3>4. /\ x \in Seq(Downward) /\ Down(x) /\ ~Begins(x)
          /\ \A m \in Range(x) : m.tag = "REPLY" => m.to = "CALL"
          /\ Brought(x) \cap handle[c].seen = {} /\ Brought(x) = Range(ToSend(c, Told))
          /\ \A h : (\A o \in handle[c].seen : Closure(o) \subseteq h) => Carries(x, h)
      BY <3>3, AnswerIs DEF x
    <3>5. QED
      BY <1>1, <1>2, <1>5, <3>2, <3>4, CalledTalks
  <2>3. QED
    BY <2>1, <2>2
<1>6. CASE c = d /\ RunCallFails(c)
  <2> DEFINE x == <<Answer(Nil, "CALL")>>
  <2>1. pool' = [pool EXCEPT ![c] = Data(c, x)] /\ handle' = [handle EXCEPT ![c].call = FALSE]
    BY <1>6 DEF RunCallFails
  <2>2. /\ x \in Seq(Downward) /\ Down(x) /\ ~Begins(x)
        /\ \A m \in Range(x) : m.tag = "REPLY" => m.to = "CALL"
        /\ Brought(x) = {} /\ \A h : Carries(x, h)
    BY NoAnswerIs
  <2> HIDE DEF x
  <2>3. /\ pool'[c] = Data(c, x) /\ ~handle'[c].call /\ handle'[c].seen = handle[c].seen
    BY <2>1 DEF TypeOK, Handles
  <2>4. Brought(x) \cap handle[c].seen = {} /\ handle'[c].seen = handle[c].seen \cup Brought(x)
    BY <2>2, <2>3
  <2>5. QED
    BY <1>1, <1>2, <1>6, <2>2, <2>3, <2>4, CalledTalks
<1>7. QED
  BY <1>4, <1>5, <1>6 DEF Calls

-----------------------------------------------------------------------------
(* A task starts                                                           *)

\* What a task is begun with: its input's objects, and its name.
LEMMA GreetIs ==
  ASSUME NEW v \in Obj
  PROVE  LET x == <<Message("HELLO", Nil)>> \o Objects(Packed(v, {})) \o <<Message("TASK", v)>>
         IN  /\ x \in Seq(Downward) /\ Down(x) /\ ~Holds(x, "REPLY") /\ Carries(x, {})
             /\ Brought(x) = Range(Packed(v, {})) /\ x # <<>> /\ x[Len(x)].tag = "TASK"
<1> DEFINE g == Message("HELLO", Nil)
           m == Message("TASK", v)
           s == Objects(Packed(v, {}))
           h == <<g>>
           a == <<m>>
           y == h \o s
           x == y \o a
<1>1. g \in Downward /\ m \in Downward /\ g.tag = "HELLO" /\ m.tag = "TASK" /\ m.v = v /\ ~Names(g)
  BY MessagesAre DEF Message, Names
<1>2. /\ s \in Seq(Downward) /\ Down(s) /\ ~Ends(s) /\ ~Holds(s, "REPLY")
      /\ Brought(s) = Under(v, {})
  BY PackIs
<1>3. Carries(s, {}) /\ Closure(v) \subseteq {} \cup Brought(s)
  BY CarriesPacked
<1>4. Range(Packed(v, {})) = Under(v, {})
  BY PackedIs
<1> HIDE DEF g, m, s
<1>5. h \in Seq(Downward) /\ a \in Seq(Downward)
  BY <1>1
<1>6. Len(a) = 1 /\ a[1] = m
  OBVIOUS
<1>7. /\ Down(h) /\ ~Ends(h) /\ Brought(h) = {} /\ ~Holds(h, "REPLY")
      /\ Down(a) /\ Brought(a) = {} /\ ~Holds(a, "REPLY")
  BY <1>1, OneMessage
<1>8. /\ Carries(h, {}) <=> (Names(g) => Closure(g.v) \subseteq {} \cup Brought(h))
      /\ Carries(a, {} \cup Brought(s))
           <=> (Names(m) => Closure(m.v) \subseteq ({} \cup Brought(s)) \cup Brought(a))
  BY CarriesOne
<1> HIDE DEF h, a
<1>9. y \in Seq(Downward)
  BY <1>2, <1>5
<1>10. Down(y)
  BY <1>2, <1>5, <1>7, DownCat
<1>11. /\ Holds(y, "REPLY") <=> Holds(h, "REPLY") \/ Holds(s, "REPLY")
       /\ Ends(y) <=> Ends(h) \/ Ends(s)
  BY <1>2, <1>5, HoldsCat
<1>12. Brought(y) = Brought(h) \cup Brought(s)
  BY <1>2, <1>5, BeforeCat
<1>13. Carries(y, {}) <=> Carries(h, {}) /\ Carries(s, {} \cup Brought(h))
  BY <1>2, <1>5, CarriesCat
<1> HIDE DEF y
<1>14. ~Ends(y) /\ ~Holds(y, "REPLY") /\ Brought(y) = Brought(s)
  BY <1>2, <1>7, <1>11, <1>12
<1>15. Carries(y, {})
  <2>1. {} \cup Brought(h) = {}
    BY <1>7
  <2>2. QED
    BY <1>1, <1>3, <1>8, <1>13, <2>1
<1>16. x \in Seq(Downward) /\ Len(x) = Len(y) + Len(a)
  BY <1>5, <1>9
<1>17. Down(x)
  BY <1>5, <1>7, <1>9, <1>10, <1>14, DownCat
<1>18. Holds(x, "REPLY") <=> Holds(y, "REPLY") \/ Holds(a, "REPLY")
  BY <1>5, <1>9, HoldsCat
<1>19. Brought(x) = Brought(y) \cup Brought(a)
  BY <1>5, <1>9, BeforeCat
<1>20. Carries(x, {}) <=> Carries(y, {}) /\ Carries(a, {} \cup Brought(y))
  BY <1>5, <1>9, CarriesCat
<1>21. \A i \in 1..Len(a) : x[Len(y) + i] = a[i]
  BY <1>5, <1>9, BeforeCat
<1> HIDE DEF x
<1>22. Carries(a, {} \cup Brought(s))
  BY <1>1, <1>3, <1>8
<1>23. Carries(x, {}) /\ ~Holds(x, "REPLY") /\ Brought(x) = Under(v, {})
  BY <1>2, <1>7, <1>14, <1>15, <1>18, <1>19, <1>20, <1>22
<1>24. x[Len(x)].tag = "TASK" /\ x # <<>>
  <2>1. 1 \in 1..Len(a)
    BY <1>6
  <2>2. x[Len(x)] = m
    BY <1>6, <1>16, <1>21, <2>1
  <2>3. Len(x) # 0
    BY <1>6, <1>9, <1>16
  <2>4. QED
    BY <1>1, <1>16, <2>2, <2>3
<1>25. QED
  BY <1>4, <1>16, <1>17, <1>23, <1>24 DEF x, y, h, a, g, m, s

LEMMA ThenOne ==
  ASSUME NEW S, NEW s \in Seq(S), NEW m \in S
  PROVE  /\ s \o <<m>> \in Seq(S) /\ Len(s \o <<m>>) = Len(s) + 1
         /\ \A i \in 1..Len(s) : (s \o <<m>>)[i] = s[i]
         /\ (s \o <<m>>)[Len(s) + 1] = m
<1> DEFINE a == <<m>>
<1>1. a \in Seq(S)
  OBVIOUS
<1>2. Len(a) = 1 /\ a[1] = m
  OBVIOUS
<1> HIDE DEF a
<1>3. /\ \A i \in 1..Len(s) : (s \o a)[i] = s[i]
      /\ \A i \in 1..Len(a) : (s \o a)[Len(s) + i] = a[i]
      /\ Len(s \o a) = Len(s) + Len(a)
  BY <1>1, BeforeCat
<1>4. s \o a \in Seq(S)
  BY <1>1
<1>5. 1 \in 1..Len(a)
  BY <1>2
<1>6. QED
  BY <1>2, <1>3, <1>4, <1>5 DEF a

LEMMA ThreeAre ==
  ASSUME NEW S, NEW o \in S, NEW f \in S, NEW k \in S
  PROVE  <<o>> \o <<f>> \in Seq(S) /\ <<o, f, k>> = (<<o>> \o <<f>>) \o <<k>>
<1> DEFINE a == <<o>>
           w == <<o, f, k>>
<1>1. a \in Seq(S) /\ Len(a) = 1 /\ a[1] = o
  OBVIOUS
<1>2. w \in Seq(S) /\ Len(w) = 3 /\ w[1] = o /\ w[2] = f /\ w[3] = k
  OBVIOUS
<1> HIDE DEF a, w
<1> DEFINE u == a \o <<f>>
<1>3. /\ u \in Seq(S) /\ Len(u) = Len(a) + 1
      /\ \A i \in 1..Len(a) : u[i] = a[i]
      /\ u[Len(a) + 1] = f
  BY <1>1, ThenOne
<1> HIDE DEF u
<1> DEFINE v == u \o <<k>>
<1>4. /\ v \in Seq(S) /\ Len(v) = Len(u) + 1
      /\ \A i \in 1..Len(u) : v[i] = u[i]
      /\ v[Len(u) + 1] = k
  BY <1>3, ThenOne
<1> HIDE DEF v
<1>5. Len(u) = 2 /\ u[1] = o /\ u[2] = f
  BY <1>1, <1>3
<1>6. Len(v) = 3 /\ v[1] = o /\ v[2] = f /\ v[3] = k
  BY <1>4, <1>5
<1>7. \A i \in 1..3 : v[i] = w[i]
  <2>1. \A i \in 1..3 : i = 1 \/ i = 2 \/ i = 3
    OBVIOUS
  <2>2. QED
    BY <1>2, <1>6, <2>1
<1>8. v = w
  BY <1>2, <1>4, <1>6, <1>7
<1>9. QED
  BY <1>3, <1>8 DEF v, u, w, a

\* What the scheduler's thread is to write to a task that it starts.
LEMMA StartWrites ==
  ASSUME TypeOK, TypeOK', NEW c \in Chan, handle[c].seen = {}, Start(c) \/ StartRefused(c)
  PROVE  \E x \in Seq(Downward) :
           /\ OnDown(sched', c) = x /\ Brought(x) = handle'[c].seen /\ Down(x) /\ ~Holds(x, "REPLY")
           /\ Carries(x, {}) /\ x # <<>> /\ Closes(x)
           /\ sched'[1] = Control("OPEN", c)
           /\ \A i \in DOMAIN sched' : sched'[i].c = c
<1> DEFINE o == Control("OPEN", c)
<1>1. o \in Frames /\ o.tag = "OPEN" /\ o.c = c
  BY MessagesAre DEF Control, Frame
<1>2. CASE Start(c)
  <2> DEFINE p == Packed(Input[c], {})
             x == <<Message("HELLO", Nil)>> \o Objects(p) \o <<Message("TASK", Input[c])>>
             d == Data(c, x)
  <2>1. Input[c] \in Obj
    BY Given
  <2>2. ToSend(c, Input[c]) = p
    BY DEF ToSend
  <2>3. sched' = <<o>> \o d /\ handle'[c].seen = Range(p)
    BY <1>2, <2>2 DEF Start, TypeOK, Handles
  <2>4. /\ x \in Seq(Downward) /\ Down(x) /\ ~Holds(x, "REPLY") /\ Carries(x, {})
        /\ Brought(x) = Range(p) /\ x # <<>> /\ x[Len(x)].tag = "TASK"
    BY <2>1, GreetIs
  <2> HIDE DEF p, x
  <2>5. OnDown(d, c) = x /\ d \in Seq(Frames) /\ \A i \in DOMAIN d : d[i].c = c
    BY <2>4, OnDownData, DataIs DEF Frame
  <2> HIDE DEF d, o
  <2>6. OnDown(<<o>>, c) = <<>>
    BY <1>1, OnDownOne
  <2>7. <<o>> \in Seq(Frames) /\ <<>> \o x = x
    BY <1>1, <2>4
  <2>8. OnDown(<<o>> \o d, c) = OnDown(<<o>>, c) \o OnDown(d, c)
    BY <2>5, <2>7, OnDownCat
  <2>9. (<<o>> \o d)[1] = o
    BY <1>1, <2>5
  <2>10. \A i \in DOMAIN (<<o>> \o d) : (<<o>> \o d)[i].c = c
    <3>1. \A i \in DOMAIN (<<o>> \o d) : i = 1 \/ \E j \in DOMAIN d : (<<o>> \o d)[i] = d[j]
      BY <1>1, <2>5
    <3>2. QED
      BY <1>1, <2>5, <2>9, <3>1
  <2>11. QED
    BY <2>3, <2>4, <2>5, <2>6, <2>7, <2>8, <2>9, <2>10 DEF o, Closes
<1>3. CASE StartRefused(c)
  <2> DEFINE g == Message("HELLO", Nil)
             f == Frame("DATA", c, g)
             k == Control("KILL", c)
             x == <<g>>
  <2>1. sched' = <<o, f, k>> /\ handle'[c].seen = {}
    BY <1>3 DEF StartRefused, TypeOK, Handles
  <2>2. g \in Downward /\ g.tag = "HELLO" /\ ~Names(g)
    BY MessagesAre DEF Message, Names
  <2>3. f \in Frames /\ k \in Frames /\ f.tag = "DATA" /\ f.c = c /\ f.m = g /\ k.tag = "KILL" /\ k.c = c
    BY <2>2, MessagesAre DEF Control, Frame
  <2> HIDE DEF g, f, k, o
  <2>4. x \in Seq(Downward) /\ x # <<>> /\ Len(x) = 1 /\ x[1] = g
    BY <2>2
  <2>5. Down(x) /\ ~Holds(x, "REPLY") /\ Brought(x) = {} /\ Carries(x, {})
    BY <2>2, OneMessage, CarriesOne
  <2>6. /\ OnDown(<<o>>, c) = <<>> /\ OnDown(<<f>>, c) = x /\ OnDown(<<k>>, c) = <<>>
    BY <1>1, <2>3, OnDownOne
  <2>7. <<o>> \in Seq(Frames) /\ <<f>> \in Seq(Frames) /\ <<k>> \in Seq(Frames)
    BY <1>1, <2>3
  <2>8. <<o>> \o <<f>> \in Seq(Frames) /\ <<o, f, k>> = (<<o>> \o <<f>>) \o <<k>>
    BY <1>1, <2>3, ThreeAre
  <2>9. OnDown(<<o>> \o <<f>>, c) = x
    <3>1. OnDown(<<o>> \o <<f>>, c) = OnDown(<<o>>, c) \o OnDown(<<f>>, c)
      BY <2>7, OnDownCat, ZenonT(40)
    <3>2. <<>> \o x = x
      BY <2>4
    <3>3. QED
      BY <2>6, <3>1, <3>2
  <2> DEFINE of == <<o>> \o <<f>>
  <2> HIDE DEF of, x
  <2>10. OnDown(of \o <<k>>, c) = x
    <3>1. OnDown(of \o <<k>>, c) = OnDown(of, c) \o OnDown(<<k>>, c)
      BY <2>7, <2>8, OnDownCat DEF of
    <3>2. x \o <<>> = x
      BY <2>4
    <3>3. QED
      BY <2>6, <2>9, <3>1, <3>2 DEF of
  <2>11. OnDown(sched', c) = x
    BY <2>1, <2>8, <2>10 DEF of
  <2>12. sched'[1] = o /\ \A i \in DOMAIN sched' : sched'[i].c = c
    <3>1. DOMAIN sched' = {1, 2, 3} /\ sched'[1] = o /\ sched'[2] = f /\ sched'[3] = k
      BY <2>1
    <3>2. QED
      BY <1>1, <2>3, <3>1
  <2>13. Closes(x)
    BY <2>2, <2>4 DEF Closes
  <2>14. QED
    BY <2>1, <2>4, <2>5, <2>11, <2>12, <2>13 DEF o
<1>4. QED
  BY <1>2, <1>3

LEMMA NoFrames ==
  ASSUME NEW c
  PROVE  OnDown(<<>>, c) = <<>>
<1>1. <<>> \in Seq(Frames) /\ \A i \in DOMAIN <<>> : FALSE
  OBVIOUS
<1>2. \A i \in DOMAIN <<>> : ~(<<>>[i].tag = "DATA" /\ <<>>[i].c = c)
  BY <1>1
<1> DEFINE s == <<>>
<1>3. s \in Seq(Frames) /\ \A i \in DOMAIN s : ~(s[i].tag = "DATA" /\ s[i].c = c)
  BY <1>1, <1>2
<1> HIDE DEF s
<1>4. OnDown(s, c) = <<>>
  BY <1>3, OnDownNone
<1>5. QED
  BY <1>4 DEF s

LEMMA StartTalks ==
  ASSUME TypeOK, TypeOK', NEW c \in Chan, Talks(c), Wired(c), OpensOnce(c), Fresh(c),
         NEW d \in Chan, Start(d) \/ StartRefused(d)
  PROVE  Talks(c)'
<1>1. /\ sched = <<>> /\ handle[d].st = "none" /\ UNCHANGED <<pool, wires, hostVars>>
      /\ c # d => handle'[c] = handle[c]
      /\ handle'[d].call = handle[d].call
  <2>1. handle \in [Chan -> Handles]
    BY DEF TypeOK
  <2>2. CASE Start(d)
    BY <2>1, <2>2 DEF Start, Free, Handles
  <2>3. CASE StartRefused(d)
    BY <2>1, <2>3 DEF StartRefused, Free, Handles
  <2>4. QED
    BY <2>2, <2>3
<1>2. CASE c # d
  <2>1. \A i \in DOMAIN sched' : sched'[i].c = d
    <3>1. CASE StartRefused(d)
      <4>1. DOMAIN sched' = {1, 2, 3} /\ sched'[1].c = d /\ sched'[2].c = d /\ sched'[3].c = d
        BY <3>1 DEF StartRefused, Control, Frame
      <4>2. QED
        BY <4>1
    <3>2. CASE Start(d)
      <4> DEFINE o == Control("OPEN", d)
                 s == Objects(ToSend(d, Input[d]))
                 y == <<Message("HELLO", Nil)>> \o s \o <<Message("TASK", Input[d])>>
                 e == Data(d, y)
      <4>1. Input[d] \in Obj
        BY Given
      <4>2. s \in Seq(Downward)
        BY <4>1, ToSendIs, ObjectsAre
      <4>3. Message("HELLO", Nil) \in Downward /\ Message("TASK", Input[d]) \in Downward
        BY <4>1, MessagesAre
      <4>4. y \in Seq(Downward)
        <5> DEFINE a == <<Message("HELLO", Nil)>>
                   b == <<Message("TASK", Input[d])>>
        <5>1. a \in Seq(Downward) /\ b \in Seq(Downward)
          BY <4>3
        <5> HIDE DEF a, b, s
        <5>2. a \o s \in Seq(Downward)
          BY <4>2, <5>1
        <5> DEFINE z == a \o s
        <5> HIDE DEF z
        <5>3. z \in Seq(Downward) => z \o b \in Seq(Downward)
          BY <5>1
        <5>4. QED
          BY <5>2, <5>3 DEF z, a, b
      <4>5. sched' = <<o>> \o e
        BY <3>2 DEF Start
      <4> HIDE DEF y
      <4>6. e \in Seq(Frames) /\ \A i \in DOMAIN e : e[i].c = d
        BY <4>4, DataIs DEF Frame
      <4>7. o \in Frames /\ o.c = d
        BY MessagesAre DEF Control, Frame
      <4> HIDE DEF e, o
      <4>8. \A i \in DOMAIN (<<o>> \o e) : (<<o>> \o e)[i] = o \/ \E j \in DOMAIN e : (<<o>> \o e)[i] = e[j]
        BY <4>6, <4>7
      <4>9. QED
        BY <4>5, <4>6, <4>7, <4>8
    <3>3. QED
      BY <3>1, <3>2
  <2>2. ToWorker(c)' = ToWorker(c)
    BY <1>1, <1>2, <2>1, SchedEven DEF wires, hostVars
  <2>3. HeedsLess(c) /\ MovesOn(c)
    BY <1>1, <1>2 DEF HeedsLess, MovesOn, Parses, Live, wires, hostVars
  <2>4. QED
    BY <1>1, <2>2, <2>3, QuietTalks DEF wires, hostVars
<1>3. CASE c = d
  <2>1. /\ handle[c].seen = {} /\ ~handle[c].call /\ inbox[c] = <<>> /\ worker[c].pc = "none"
        /\ worker[c].objects = {} /\ worker[c].todo = <<>> /\ stdout[c] = <<>>
        /\ stdin[c] = <<>> /\ OnDown(down, c) = <<>> /\ pool[c] = <<>>
    BY <1>1, <1>3 DEF Fresh, OpensOnce, Wired
  <2>2. PICK x \in Seq(Downward) :
           /\ OnDown(sched', c) = x /\ Brought(x) = handle'[c].seen /\ Down(x) /\ ~Holds(x, "REPLY")
           /\ Carries(x, {})
    BY <1>3, <2>1, StartWrites
  <2>3. OnDown(pool'[c], c) = <<>>
    <3>1. pool'[c] = <<>>
      BY <1>1, <2>1
    <3>2. QED
      BY <3>1, NoFrames
  <2>4. ToWorker(c)' = IF conn = "up" THEN x ELSE <<>>
    <3>1. ToWorker(c)' = stdin'[c] \o (OnDown(down', c) \o Rest(c)')
      BY ToWorkerThen
    <3>2. stdin'[c] = <<>> /\ OnDown(down', c) = <<>> /\ conn' = conn
      BY <1>1, <2>1 DEF wires, hostVars
    <3>3. x \o <<>> = x /\ <<>> \o (<<>> \o x) = x /\ <<>> \o (<<>> \o <<>>) = <<>>
      BY <2>2
    <3>4. Rest(c)' = IF conn = "up" THEN x ELSE <<>>
      BY <2>2, <2>3, <3>2, <3>3 DEF Rest
    <3>5. QED
      BY <3>1, <3>2, <3>3, <3>4
  <2>5. ToMain(c)' = <<>> /\ inbox'[c] = <<>>
    <3>1. inbox'[c] = <<>> /\ stdout'[c] = <<>> /\ worker'[c].todo = <<>>
      BY <1>1, <2>1 DEF wires, hostVars
    <3>2. (<<>> \o <<>>) \o <<>> = <<>>
      OBVIOUS
    <3>3. QED
      BY <3>1, <3>2 DEF ToMain
  <2>6. worker'[c] = worker[c] /\ ~handle'[c].call /\ pool'[c] = <<>> /\ conn' = conn
    BY <1>1, <1>3, <2>1 DEF wires, hostVars
  <2>7. QED
    BY <2>1, <2>2, <2>4, <2>5, <2>6, Started
<1>4. QED
  BY <1>2, <1>3

-----------------------------------------------------------------------------
(* A worker's steps                                                        *)

LEMMA OthersTalk ==
  ASSUME TypeOK, TypeOK', NEW c \in Chan, Talks(c), NEW d \in Chan, c # d,
         Worker(d) \/ PrintsOut(d) \/ Crashes(d) \/ Hangs(d)
  PROVE  Talks(c)'
<1>1. /\ worker'[c] = worker[c] /\ stdin'[c] = stdin[c] /\ stdout'[c] = stdout[c]
      /\ UNCHANGED <<mainVars, wires>>
  BY OneWorkerSteps
<1>2. ToWorker(c)' = ToWorker(c)
  BY <1>1, MainEven DEF mainVars, wires
<1>3. HeedsLess(c) /\ MovesOn(c)
  BY <1>1 DEF HeedsLess, MovesOn, Parses, Live, mainVars, wires
<1>4. QED
  BY <1>1, <1>2, <1>3, QuietTalks DEF wires

\* Of a step of a worker that moves it on, or ends it.
LEMMA MovedTalks ==
  ASSUME TypeOK, TypeOK', NEW c \in Chan, Talks(c), UNCHANGED <<mainVars, wires>>,
         MovesOn(c), Narrows(c), Lessens(c)
  PROVE  Talks(c)'
<1>1. HeedsLess(c)
  BY DEF HeedsLess, Parses, Live, mainVars, wires
<1>2. QED
  BY <1>1, WeakerTalks

\* What a worker says last comes last.
LEMMA SaysLast ==
  ASSUME TypeOK, NEW c \in Chan, UNCHANGED wires, NEW x \in Seq(Upward),
         \/ stdout'[c] = stdout[c] /\ worker'[c].todo = worker[c].todo \o x
         \/ stdout'[c] = stdout[c] \o x /\ worker[c].todo = <<>> /\ worker'[c].todo = <<>>
  PROVE  ToMain(c)' = ToMain(c) \o x
<1> DEFINE i == inbox[c]
           o == stdout[c]
           w == worker[c].todo
           a == i \o o
<1>1. /\ ToMain(c) = a \o w /\ i \in Seq(Upward) /\ o \in Seq(Upward) /\ w \in Seq(Upward)
      /\ a \in Seq(Upward)
  BY ToMainIs DEF ToMain
<1>2. ToMain(c)' = (i \o stdout'[c]) \o worker'[c].todo
  BY DEF ToMain, wires
<1>3. CASE stdout'[c] = o /\ worker'[c].todo = w \o x
  <2> HIDE DEF a, w
  <2>1. (a \o w) \o x = a \o (w \o x)
    BY <1>1, SMTT(20)
  <2>2. ToMain(c)' = a \o (w \o x)
    BY <1>2, <1>3 DEF a
  <2>3. QED
    BY <1>1, <2>1, <2>2
<1>4. CASE stdout'[c] = o \o x /\ w = <<>> /\ worker'[c].todo = <<>>
  <2> HIDE DEF i, o, w
  <2>1. (i \o o) \o x = i \o (o \o x) /\ o \o x \in Seq(Upward)
    BY <1>1, SMTT(20)
  <2> DEFINE y == o \o x
  <2> HIDE DEF y
  <2>2. i \o y \in Seq(Upward)
    BY <1>1, <2>1 DEF y
  <2> DEFINE z == i \o y
  <2> HIDE DEF z
  <2>3. z \o <<>> = z
    BY <2>2 DEF z
  <2>4. ToMain(c)' = z
    BY <1>2, <1>4, <2>3 DEF z, y
  <2> HIDE DEF a
  <2>5. a \o <<>> = a
    BY <1>1
  <2>6. QED
    BY <1>1, <1>4, <2>1, <2>4, <2>5 DEF a, z, y
<1>5. QED
  BY <1>3, <1>4

\* A worker that reads what is no object, and goes on; or fails; or stops.
LEMMA MildTalks ==
  ASSUME TypeOK, TypeOK', NEW c \in Chan, Talks(c),
         \/ TakesHello(c) \/ Accepts(c) \/ Hangs(c) \/ FindsEnd(c) \/ Exits(c) \/ Crashes(c)
  PROVE  Talks(c)'
<1>1. worker \in [Chan -> Workers] /\ worker[c] \in Workers
  BY DEF TypeOK
<1>2. CASE TakesHello(c)
  <2>1. UNCHANGED <<mainVars, wires>> /\ Reads(c, "HELLO") /\ worker[c].pc = "starting"
        /\ worker' = [worker EXCEPT ![c].pc = "importing"]
    BY <1>2 DEF TakesHello, Steps
  <2> DEFINE q == Head(stdin[c])
  <2>2. q \in Downward /\ q.tag = "HELLO" /\ ToWorker(c) = <<q>> \o ToWorker(c)'
    BY <2>1, ReadsHead
  <2> HIDE DEF q
  <2>3. Narrows(c)
    BY <2>2, ReadNarrows
  <2>4. worker'[c] = [worker[c] EXCEPT !.pc = "importing"]
    BY <1>1, <2>1
  <2>5. MovesOn(c) /\ worker'[c].todo = worker[c].todo
    BY <1>1, <2>1, <2>4 DEF MovesOn, Workers
  <2>6. ToMain(c)' = ToMain(c)
    BY <2>1, <2>5 DEF ToMain, Reads, wires
  <2>7. Lessens(c)
    BY <2>1, <2>6, EvenLessens DEF wires
  <2>8. QED
    BY <2>1, <2>3, <2>5, <2>7, MovedTalks
<1>3. CASE Accepts(c) \/ Hangs(c)
  <2>1. /\ UNCHANGED <<mainVars, wires, stdin, stdout>>
        /\ worker[c].pc \in {"importing", "running"}
        /\ \E to \in {"reading", "hung"} : worker' = [worker EXCEPT ![c].pc = to]
    BY <1>3 DEF Accepts, Hangs, Steps, Inside
  <2>2. \E to \in {"reading", "hung"} : worker'[c] = [worker[c] EXCEPT !.pc = to]
    BY <1>1, <2>1
  <2>3. MovesOn(c) /\ worker'[c].todo = worker[c].todo
    BY <1>1, <2>1, <2>2 DEF MovesOn, Workers
  <2>4. ToWorker(c)' = ToWorker(c)
    BY <2>1, MainEven DEF mainVars, wires
  <2>5. HeedsLess(c)
    BY <2>1 DEF HeedsLess, Parses, Live, mainVars, wires
  <2>6. QED
    BY <2>1, <2>3, <2>4, <2>5, QuietTalks DEF wires
<1>4. CASE FindsEnd(c) \/ Exits(c) \/ Crashes(c)
  <2>1. UNCHANGED <<mainVars, wires, stdin, stdout>> /\ worker' = Ended(c)
        /\ worker[c].pc \notin {"ended", "reaped"}
    BY <1>4 DEF FindsEnd, Exits, Crashes, Running, Steps, Inside
  <2>2. worker'[c] = [worker[c] EXCEPT !.pc = "ended", !.todo = <<>>]
    BY <1>1, <2>1 DEF Ended
  <2>3. MovesOn(c) /\ worker'[c].todo = <<>> /\ worker'[c].pc = "ended"
    BY <1>1, <2>1, <2>2 DEF MovesOn, Workers
  <2>4. Lessens(c)
    BY <2>1, <2>3, EndedLessens DEF wires
  <2>5. ToWorker(c)' = ToWorker(c)
    BY <2>1, MainEven DEF mainVars, wires
  <2>6. Narrows(c)
    BY <2>5, EvenNarrows
  <2>7. QED
    BY <2>1, <2>3, <2>4, <2>6, MovedTalks
<1>5. QED
  BY <1>2, <1>3, <1>4

\* A worker that fails says so last.
LEMMA FailsTalks ==
  ASSUME TypeOK, TypeOK', NEW c \in Chan, Talks(c), UNCHANGED <<mainVars, wires, stdout>>,
         worker' = Fails(c), worker[c].pc \in {"importing", "reading", "running"}, Narrows(c)
  PROVE  Talks(c)'
<1> DEFINE m == Message("RESULT", Nil)
<1>1. worker \in [Chan -> Workers] /\ worker[c] \in Workers /\ worker[c].todo \in Seq(Upward)
  BY DEF TypeOK, Workers
<1>2. m \in Upward /\ Dull(m)
  BY MessagesAre DEF Message, Dull
<1> HIDE DEF m
<1>3. /\ worker'[c].todo = Append(worker[c].todo, m) /\ worker'[c].pc = "done"
      /\ worker'[c].objects = worker[c].objects /\ worker'[c].ask = worker[c].ask
  BY <1>1 DEF Fails, Workers, m
<1>4. Append(worker[c].todo, m) = worker[c].todo \o <<m>>
  BY <1>1, <1>2, AppendIs
<1>5. <<m>> \in Seq(Upward)
  BY <1>2
<1>6. ToMain(c)' = ToMain(c) \o <<m>>
  BY <1>3, <1>4, <1>5, SaysLast
<1>7. Lessens(c)
  BY <1>2, <1>6, ToMainIs, DullLast DEF wires
<1>8. MovesOn(c)
  BY <1>3 DEF MovesOn
<1>9. QED
  BY <1>7, <1>8, MovedTalks

\* A worker that takes an object, a task, or a reply; or gives up.
LEMMA TakingTalks ==
  ASSUME TypeOK, TypeOK', NEW c \in Chan, Talks(c),
         TakesObject(c) \/ TakesTask(c) \/ TakesReply(c) \/ Refuses(c) \/ Raises(c)
  PROVE  Talks(c)'
<1> DEFINE q == Head(stdin[c])
           t == ToWorker(c)'
<1>0. worker \in [Chan -> Workers] /\ worker[c] \in Workers
  BY DEF TypeOK
<1>1. UNCHANGED <<mainVars, wires, stdout>>
  BY DEF TakesObject, TakesTask, TakesReply, Refuses, Raises, Steps, Reads, Inside
<1>2. ASSUME NEW tag, Reads(c, tag)
      PROVE  q \in Downward /\ q.tag = tag /\ t \in Seq(Downward) /\ ToWorker(c) = <<q>> \o t
  BY <1>1, <1>2, ReadsHead
<1>3. handle'[c] = handle[c] /\ inbox'[c] = inbox[c] /\ conn' = conn /\ pool'[c] = pool[c]
  BY <1>1 DEF mainVars, wires
<1>4. CASE TakesObject(c)
  <2>1. /\ Reads(c, "OBJECT") /\ worker[c].pc \in {"reading", "asking"}
        /\ worker' = [worker EXCEPT ![c].objects = @ \cup {q.v}]
    BY <1>4 DEF TakesObject, Received, Steps
  <2>2. q \in Downward /\ q.tag = "OBJECT" /\ t \in Seq(Downward) /\ ToWorker(c) = <<q>> \o t
    BY <1>2, <2>1
  <2>3. worker'[c] = [worker[c] EXCEPT !.objects = @ \cup {q.v}]
    BY <1>0, <2>1
  <2> HIDE DEF q
  <2>4. /\ worker'[c].pc = worker[c].pc /\ worker'[c].ask = worker[c].ask
        /\ worker'[c].objects = worker[c].objects \cup {q.v} /\ worker'[c].todo = worker[c].todo
    BY <1>0, <2>3 DEF Workers
  <2>5. ToMain(c)' = ToMain(c)
    BY <1>1, <2>4 DEF ToMain, wires
  <2>6. ToWorker(c)' = t
    OBVIOUS
  <2> HIDE DEF t
  <2>7. QED
    BY <1>3, <2>1, <2>2, <2>4, <2>5, <2>6, ObjectTaken
<1>5. ASSUME NEW tag \in {"TASK", "REPLY"}, Reads(c, tag), worker[c].pc \in {"reading", "asking"},
             worker'[c].pc = "running", worker'[c].objects = worker[c].objects,
             worker'[c].todo = worker[c].todo
      PROVE  Talks(c)'
  <2>1. q \in Downward /\ q.tag = tag /\ t \in Seq(Downward) /\ ToWorker(c) = <<q>> \o t
    BY <1>2, <1>5
  <2>2. ToMain(c)' = ToMain(c)
    BY <1>1, <1>5 DEF ToMain, wires
  <2>3. ToWorker(c)' = t
    OBVIOUS
  <2> HIDE DEF q, t
  <2>4. QED
    BY <1>3, <1>5, <2>1, <2>2, <2>3, Resumed
<1>6. CASE TakesTask(c)
  <2>1. Reads(c, "TASK") /\ worker[c].pc = "reading"
    BY <1>6 DEF TakesTask, Steps
  <2>2. CASE worker' = Fails(c)
    <3>1. q \in Downward /\ q.tag = "TASK" /\ ToWorker(c) = <<q>> \o t
      BY <1>2, <2>1
    <3> HIDE DEF q
    <3>2. Narrows(c)
      BY <3>1, ReadNarrows
    <3>3. QED
      BY <1>1, <2>1, <2>2, <3>2, FailsTalks
  <2>3. CASE worker' = [worker EXCEPT ![c].pc = "running"]
    <3>1. worker'[c] = [worker[c] EXCEPT !.pc = "running"]
      BY <1>0, <2>3
    <3>2. worker'[c].pc = "running" /\ worker'[c].objects = worker[c].objects
          /\ worker'[c].todo = worker[c].todo
      BY <1>0, <3>1 DEF Workers
    <3>3. QED
      BY <1>5, <2>1, <3>2
  <2>4. QED
    BY <1>6, <2>2, <2>3 DEF TakesTask
<1>7. CASE TakesReply(c)
  <2>1. /\ Reads(c, "REPLY") /\ worker[c].pc = "asking"
        /\ worker' = [worker EXCEPT ![c].pc = "running", ![c].ask = "none"]
    BY <1>7 DEF TakesReply, Steps
  <2>2. worker'[c] = [worker[c] EXCEPT !.pc = "running", !.ask = "none"]
    BY <1>0, <2>1
  <2>3. worker'[c].pc = "running" /\ worker'[c].objects = worker[c].objects
        /\ worker'[c].todo = worker[c].todo
    BY <1>0, <2>2 DEF Workers
  <2>4. QED
    BY <1>5, <2>1, <2>3
<1>8. CASE Refuses(c) \/ Raises(c)
  <2>1. worker' = Fails(c) /\ worker[c].pc \in {"importing", "running"} /\ stdin' = stdin
    BY <1>8 DEF Refuses, Raises, Steps, Inside
  <2>2. ToWorker(c)' = ToWorker(c)
    BY <1>1, <2>1, MainEven DEF mainVars, wires
  <2>3. Narrows(c)
    BY <2>2, EvenNarrows
  <2>4. QED
    BY <1>1, <2>1, <2>3, FailsTalks
<1>9. QED
  BY <1>4, <1>6, <1>7, <1>8

\* A worker that writes what it is to say; or a function that prints.
LEMMA WritingTalks ==
  ASSUME TypeOK, TypeOK', NEW c \in Chan, Talks(c), Writes(c) \/ PrintsOut(c)
  PROVE  Talks(c)'
<1> DEFINE i == inbox[c]
           o == stdout[c]
           w == worker[c].todo
<1>0. worker \in [Chan -> Workers] /\ worker[c] \in Workers
  BY DEF TypeOK
<1>1. UNCHANGED <<mainVars, wires, stdin>>
  BY DEF Writes, PrintsOut, Steps
<1>2. /\ ToMain(c) = (i \o o) \o w /\ i \in Seq(Upward) /\ o \in Seq(Upward) /\ w \in Seq(Upward)
      /\ ToMain(c)' = (i \o stdout'[c]) \o worker'[c].todo
  BY <1>1, ToMainIs DEF ToMain, wires
<1>3. ToWorker(c)' = ToWorker(c)
  BY <1>1, MainEven DEF mainVars, wires
<1>4. Narrows(c)
  BY <1>3, EvenNarrows
<1>5. CASE Writes(c)
  <2> DEFINE m == Head(w)
             r == Tail(w)
  <2>1. /\ w # <<>> /\ stdout' = [stdout EXCEPT ![c] = Append(@, m)]
        /\ \E said : worker' = [worker EXCEPT ![c].todo = Tail(@), ![c].said = said]
    BY <1>5 DEF Writes
  <2>2. stdout'[c] = Append(o, m)
    BY <2>1 DEF TypeOK
  <2>3. \E said : worker'[c] = [worker[c] EXCEPT !.todo = Tail(@), !.said = said]
    BY <1>0, <2>1
  <2>4. MovesOn(c) /\ worker'[c].todo = r
    BY <1>0, <2>3 DEF MovesOn, Workers
  <2>5. m \in Upward /\ r \in Seq(Upward) /\ w = <<m>> \o r
    BY <1>2, <2>1, HeadThenTail
  <2> DEFINE h == <<m>>
  <2>6. h \in Seq(Upward) /\ Append(o, m) = o \o h
    <3>1. h \in Seq(Upward)
      BY <2>5
    <3>2. Append(o, m) = o \o h
      BY <1>2, <2>5, AppendIs
    <3>3. QED
      BY <3>1, <3>2
  <2>7. ToMain(c)' = (i \o (o \o h)) \o r /\ ToMain(c) = (i \o o) \o (h \o r)
    BY <1>2, <2>2, <2>4, <2>5, <2>6
  <2> HIDE DEF i, o, h, r, m, w
  <2>8. i \o (o \o h) = (i \o o) \o h /\ i \o o \in Seq(Upward)
    BY <1>2, <2>6, SMTT(20)
  <2> DEFINE a == i \o o
  <2>9. a \in Seq(Upward)
    BY <2>8
  <2> HIDE DEF a
  <2>10. (a \o h) \o r = a \o (h \o r)
    BY <2>5, <2>6, <2>9, SMTT(20)
  <2>11. ToMain(c)' = ToMain(c)
    BY <2>7, <2>8, <2>10, Zenon DEF a
  <2>12. Lessens(c)
    BY <1>1, <2>11, EvenLessens DEF wires
  <2>13. QED
    BY <1>1, <1>4, <2>4, <2>12, MovedTalks
<1>6. CASE PrintsOut(c)
  <2>1. PICK what \in Prints :
          stdout' = [stdout EXCEPT ![c] = Append(@, [Message("PRINT", Nil) EXCEPT !.to = what])]
    BY <1>6 DEF PrintsOut
  <2> DEFINE m == [Message("PRINT", Nil) EXCEPT !.to = what]
  <2>2. m \in Upward /\ m.tag = "PRINT"
    BY MessagesAre DEF Message
  <2>3. Dull(m)
    BY <2>2 DEF Dull
  <2>4. stdout'[c] = Append(o, m)
    BY <2>1 DEF TypeOK
  <2>5. w = <<>> /\ worker' = [worker EXCEPT ![c].printed = TRUE]
    BY <1>6 DEF PrintsOut
  <2>6. worker'[c] = [worker[c] EXCEPT !.printed = TRUE]
    BY <1>0, <2>5
  <2>7. MovesOn(c) /\ worker'[c].todo = w
    BY <1>0, <2>6 DEF MovesOn, Workers
  <2> HIDE DEF m
  <2>8. Append(o, m) = o \o <<m>>
    BY <1>2, <2>2, AppendIs
  <2>9. <<m>> \in Seq(Upward)
    BY <2>2
  <2>10. ToMain(c)' = ToMain(c) \o <<m>>
    BY <1>1, <2>4, <2>5, <2>7, <2>8, <2>9, SaysLast
  <2>11. Lessens(c)
    BY <1>1, <2>2, <2>3, <2>10, ToMainIs, DullLast DEF wires
  <2>12. QED
    BY <1>1, <1>4, <2>7, <2>11, MovedTalks
<1>7. QED
  BY <1>5, <1>6

\* What a worker puts, and what it says of it.
LEMMA SaysIs ==
  ASSUME TypeOK, NEW c \in Chan, NEW v \in Obj, NEW more \in Seq(Upward),
         \A o \in worker[c].objects : Closure(o) \subseteq worker[c].objects,
         more = <<>> \/ \E m \in Upward : more = <<m>> /\ m.tag # "OBJECT"
  PROVE  LET x == Objects(ToPut(c, v)) \o more
         IN  /\ x \in Seq(Upward) /\ Up(x) /\ (Asked(x) <=> Asked(more))
             /\ \A m \in Range(x) : Asks(m) => m \in Range(more)
             /\ Brought(x) = Range(ToPut(c, v)) /\ Brought(x) \cap worker[c].objects = {}
             /\ \A o \in Brought(x) : Closure(o) \subseteq worker[c].objects \cup Brought(x)
<1> DEFINE had == worker[c].objects
           p == ToPut(c, v)
           s == Objects(p)
           x == s \o more
<1>1. /\ s \in Seq(Upward) /\ Up(s) /\ ~Asked(s) /\ Brought(s) = Range(p) /\ Brought(s) \cap had = {}
      /\ \A o \in Brought(s) : Closure(o) \subseteq had \cup Brought(s)
  <2>1. CASE direct
    <3>1. p = <<>> /\ s = <<>>
      BY <2>1 DEF ToPut, Objects
    <3>2. Range(<<>>) = {}
      BY DEF Range
    <3>3. <<>> \in Seq(Upward)
      OBVIOUS
    <3>4. Up(<<>>) /\ ~Asked(<<>>) /\ Brought(<<>>) = {}
      BY NoMessage
    <3> HIDE DEF p, s
    <3>5. QED
      BY <3>1, <3>2, <3>3, <3>4
  <2>2. CASE ~direct
    <3>1. p = Packed(v, had)
      BY <2>2 DEF ToPut
    <3>2. s = Objects(Packed(v, had)) /\ Range(p) = Under(v, had)
      BY <3>1, PackedIs
    <3> HIDE DEF p, s, had
    <3>3. s \in Seq(Upward) /\ Up(s) /\ ~Asked(s) /\ Brought(s) = Under(v, had) /\ Brought(s) \cap had = {}
      BY <3>2, PackIs
    <3>4. \A h \in had \cap Obj : Closure(h) \subseteq had
      BY DEF had
    <3>5. \A o \in {v} \cup Under(v, had) : Closure(o) \subseteq had \cup Brought(s)
      BY <3>2, <3>4, CarriesPacked
    <3>6. QED
      BY <3>2, <3>3, <3>5
  <2>3. QED
    BY <2>1, <2>2
<1>2. Up(more) /\ Brought(more) = {} /\ more \in Seq(Upward)
  BY OneMessage, NoMessage
<1> HIDE DEF s
<1>3. Up(x) <=> /\ Up(s) /\ Up(more) /\ Brought(s) \cap Brought(more) = {}
                /\ Asked(s) => ~Asked(more) /\ Brought(more) = {}
  BY <1>1, UpCat
<1>4. Asked(x) <=> Asked(s) \/ Asked(more)
  BY <1>1, HoldsCat
<1>5. Brought(x) = Brought(s) \cup Brought(more)
  BY <1>1, BeforeCat
<1>6. Range(x) = Range(s) \cup Range(more)
  BY <1>1, CatRange
<1>7. \A m \in Range(s) : ~Asks(m)
  BY <1>1, RangeIs
<1>8. x \in Seq(Upward)
  BY <1>1
<1> HIDE DEF x, p, had
<1>9. QED
  BY <1>1, <1>2, <1>3, <1>4, <1>5, <1>6, <1>7, <1>8 DEF x, s, p, had

\* A worker that puts a value and says so.
LEMMA PutTalks ==
  ASSUME TypeOK, TypeOK', NEW c \in Chan, Talks(c), UNCHANGED <<mainVars, wires, stdin, stdout>>,
         worker[c].pc = "running", worker[c].todo = <<>>, NEW v \in Obj, NEW more \in Seq(Upward), NEW pc,
         Put(c, v, more, pc), pc \in {"running", "asking", "done"},
         more = <<>> \/ \E m \in Upward : more = <<m>> /\ m.tag \in {"CALL", "RECORD", "RESULT"},
         Asked(more) => pc = "asking"
  PROVE  Talks(c)'
<1> DEFINE x == Objects(ToPut(c, v)) \o more
           w == worker[c]
<1>1. Crosses(c)
  BY DEF Talks
<1>2. \A o \in w.objects : Closure(o) \subseteq w.objects
  BY <1>1 DEF Crosses
<1>3. more = <<>> \/ \E m \in Upward : more = <<m>> /\ m.tag # "OBJECT"
  OBVIOUS
<1>4. /\ x \in Seq(Upward) /\ Up(x) /\ (Asked(x) <=> Asked(more))
      /\ \A m \in Range(x) : Asks(m) => m \in Range(more)
      /\ Brought(x) = Range(ToPut(c, v)) /\ Brought(x) \cap w.objects = {}
      /\ \A o \in Brought(x) : Closure(o) \subseteq w.objects \cup Brought(x)
  BY <1>2, <1>3, SaysIs
<1>5. \A m \in Range(more) : Asks(m) => m.tag = "CALL"
  <2>1. CASE more = <<>>
    BY <2>1 DEF Range
  <2>2. CASE \E m \in Upward : more = <<m>> /\ m.tag \in {"CALL", "RECORD", "RESULT"}
    <3>1. PICK m \in Upward : more = <<m>> /\ m.tag \in {"CALL", "RECORD", "RESULT"}
      BY <2>2
    <3>2. DOMAIN more = {1} /\ more[1] = m
      BY <3>1
    <3>3. Range(more) = {m}
      BY <3>2 DEF Range
    <3>4. QED
      BY <3>1, <3>3 DEF Asks
  <2>3. QED
    BY <2>1, <2>2
<1> HIDE DEF x
<1>6. w \in Workers
  BY DEF TypeOK
<1>7. /\ worker'[c].todo = x /\ worker'[c].objects = w.objects \cup Brought(x) /\ worker'[c].pc = pc
      /\ pc = "asking" => worker'[c].ask = "CALL"
  <2>1. worker'[c] = [w EXCEPT !.todo = x, !.objects = w.objects \cup Range(ToPut(c, v)), !.pc = pc,
                               !.ask = IF pc = "asking" THEN "CALL" ELSE w.ask, !.asks = w.asks + 1]
    BY DEF Put, TypeOK, x
  <2>2. QED
    BY <1>4, <1>6, <2>1 DEF Workers
<1>8. ToMain(c)' = ToMain(c) \o x
  <2>1. <<>> \o x = x
    BY <1>4
  <2>2. QED
    BY <1>4, <1>7, <2>1, SaysLast
<1>9. ToWorker(c)' = ToWorker(c)
  BY MainEven DEF mainVars, wires
<1>10. /\ Asked(x) => worker'[c].pc = "asking"
       /\ \A m \in Range(x) : Asks(m) => m.tag = worker'[c].ask
  <2>1. ASSUME NEW m \in Range(x), Asks(m)
        PROVE  m.tag = worker'[c].ask
    <3>1. Asked(x)
      BY <2>1, RangeIs
    <3>2. QED
      BY <1>4, <1>5, <1>7, <2>1, <3>1
  <2>2. QED
    BY <1>4, <1>7, <2>1
<1>11. handle'[c] = handle[c] /\ inbox'[c] = inbox[c] /\ conn' = conn /\ pool'[c] = pool[c]
  BY DEF mainVars, wires
<1>12. worker'[c].pc \in {"running", "asking", "done"}
  BY <1>7
<1>13. QED
  BY <1>4, <1>7, <1>8, <1>9, <1>10, <1>11, <1>12, Said

LEMMA SayingTalks ==
  ASSUME TypeOK, TypeOK', NEW c \in Chan, Talks(c),
         \/ \E v \in Looked : AsksValue(c, v)
         \/ AsksCall(c)
         \/ \E v \in Made : Records(c, v) \/ Returns(c, v)
  PROVE  Talks(c)'
<1>0. worker \in [Chan -> Workers] /\ worker[c] \in Workers
  BY DEF TypeOK
<1>1. UNCHANGED <<mainVars, wires, stdin, stdout>> /\ worker[c].pc = "running" /\ worker[c].todo = <<>>
  BY DEF AsksValue, AsksCall, Records, Returns, Idle, Steps, Inside
<1>2. ASSUME NEW m \in Upward, m.tag \in {"CALL", "RECORD", "RESULT"}
      PROVE  /\ <<m>> \in Seq(Upward)
             /\ Asked(<<m>>) <=> m.tag = "CALL"
  <2>1. Asked(<<m>>) <=> Asks(m)
    BY OneMessage
  <2>2. QED
    BY <1>2, <2>1 DEF Asks
<1>3. CASE \E v \in Looked : AsksValue(c, v)
  <2>1. PICK v \in Looked : AsksValue(c, v)
    BY <1>3
  <2> DEFINE m == Message("GET_VALUE", v)
             x == <<m>>
  <2>2. v \in Obj
    BY Given
  <2>3. m \in Upward /\ m.tag = "GET_VALUE"
    BY <2>2, MessagesAre DEF Message
  <2> HIDE DEF m
  <2>4. x \in Seq(Upward) /\ DOMAIN x = {1} /\ x[1] = m
    BY <2>3
  <2>5. Up(x) /\ Brought(x) = {}
    BY <2>3, OneMessage
  <2> HIDE DEF x
  <2>6. Range(x) = {m}
    BY <2>4 DEF Range
  <2>7. worker'[c] = [worker[c] EXCEPT !.pc = "asking", !.ask = "GET_VALUE", !.asks = worker[c].asks + 1,
                                       !.todo = x]
    BY <1>0, <2>1 DEF AsksValue, x, m
  <2>8. /\ worker'[c].pc = "asking" /\ worker'[c].ask = "GET_VALUE" /\ worker'[c].todo = x
        /\ worker'[c].objects = worker[c].objects
    BY <1>0, <2>7 DEF Workers
  <2>9. ToMain(c)' = ToMain(c) \o x
    <3>1. <<>> \o x = x
      BY <2>4
    <3>2. QED
      BY <1>1, <2>4, <2>8, <3>1, SaysLast
  <2>10. ToWorker(c)' = ToWorker(c)
    BY <1>1, MainEven DEF mainVars, wires
  <2>11. handle'[c] = handle[c] /\ inbox'[c] = inbox[c] /\ conn' = conn /\ pool'[c] = pool[c]
    BY <1>1 DEF mainVars, wires
  <2>12. \A n \in Range(x) : Asks(n) => n.tag = worker'[c].ask
    BY <2>3, <2>6, <2>8
  <2>13. /\ worker'[c].objects = worker[c].objects \cup Brought(x)
         /\ Brought(x) \cap worker[c].objects = {}
         /\ \A o \in Brought(x) : Closure(o) \subseteq worker[c].objects \cup Brought(x)
         /\ worker'[c].pc \in {"running", "asking", "done"}
    BY <2>5, <2>8
  <2>14. QED
    BY <1>1, <2>4, <2>5, <2>8, <2>9, <2>10, <2>11, <2>12, <2>13, Said
<1>4. CASE AsksCall(c)
  <2> DEFINE m == Message("CALL", Param)
  <2>1. Put(c, Param, <<m>>, "asking")
    BY <1>4 DEF AsksCall
  <2>2. m \in Upward /\ m.tag = "CALL" /\ Param \in Obj
    BY Given, MessagesAre DEF Message
  <2> HIDE DEF m
  <2>3. QED
    BY <1>1, <1>2, <2>1, <2>2, PutTalks
<1>5. CASE \E v \in Made : Records(c, v)
  <2>1. PICK v \in Made : Records(c, v)
    BY <1>5
  <2> DEFINE m == Message("RECORD", v)
             more == IF direct THEN <<>> ELSE <<m>>
  <2>2. Put(c, v, more, "running")
    BY <2>1 DEF Records
  <2>3. v \in Obj
    BY Given
  <2>4. m \in Upward /\ m.tag = "RECORD"
    BY <2>3, MessagesAre DEF Message
  <2> HIDE DEF m
  <2>5. more \in Seq(Upward) /\ ~Asked(more) /\ (more = <<>> \/ more = <<m>>)
    BY <1>2, <2>4, NoMessage
  <2> HIDE DEF more
  <2>6. QED
    BY <1>1, <2>2, <2>3, <2>4, <2>5, PutTalks
<1>6. CASE \E v \in Made : Returns(c, v)
  <2>1. PICK v \in Made : Returns(c, v)
    BY <1>6
  <2> DEFINE m == Message("RESULT", v)
  <2>2. Put(c, v, <<m>>, "done")
    BY <2>1 DEF Returns
  <2>3. v \in Obj
    BY Given
  <2>4. m \in Upward /\ m.tag = "RESULT"
    BY <2>3, MessagesAre DEF Message
  <2> HIDE DEF m
  <2>5. QED
    BY <1>1, <1>2, <2>2, <2>3, <2>4, PutTalks
<1>7. QED
  BY <1>3, <1>4, <1>5, <1>6

\* Whatever a worker does.
LEMMA WorkerTalks ==
  ASSUME TypeOK, TypeOK', NEW c \in Chan, Talks(c), NEW d \in Chan,
         Worker(d) \/ PrintsOut(d) \/ Crashes(d) \/ Hangs(d)
  PROVE  Talks(c)'
<1>1. CASE c # d
  BY <1>1, OthersTalk
<1>2. CASE c = d
  <2>1. CASE \/ TakesHello(c) \/ Accepts(c) \/ Hangs(c) \/ FindsEnd(c) \/ Exits(c) \/ Crashes(c)
    BY <2>1, MildTalks
  <2>2. CASE TakesObject(c) \/ TakesTask(c) \/ TakesReply(c) \/ Refuses(c) \/ Raises(c)
    BY <2>2, TakingTalks
  <2>3. CASE Writes(c) \/ PrintsOut(c)
    BY <2>3, WritingTalks
  <2>4. CASE \/ \E v \in Looked : AsksValue(c, v)
             \/ AsksCall(c)
             \/ \E v \in Made : Records(c, v) \/ Returns(c, v)
    BY <2>4, SayingTalks
  <2>5. QED
    BY <1>2, <2>1, <2>2, <2>3, <2>4 DEF Worker
<1>3. QED
  BY <1>1, <1>2

-----------------------------------------------------------------------------
(* Every step keeps to the wires                                           *)

LEMMA OnDownEmpty ==
  ASSUME NEW s \in Seq(Frames), NEW c, OnDown(s, c) = <<>>
  PROVE  \A i \in DOMAIN s : ~(s[i].tag = "DATA" /\ s[i].c = c)
<1>1. IsFiniteSet(Mine(s, c)) /\ Len(OnDown(s, c)) = Cardinality(Mine(s, c))
  BY OnDownIs
<1>2. Cardinality(Mine(s, c)) = 0
  BY <1>1
<1>3. Mine(s, c) = {}
  BY <1>1, <1>2, FS_EmptySet
<1>4. QED
  BY <1>3 DEF Mine

\* Of a step that neither writes to a worker nor starts one.
LEMMA WiredStays ==
  ASSUME NEW c \in Chan, Wired(c),
         Running(c)' => c \in hostp'.workers,
         handle'[c].st = "none" => handle[c].st = "none",
         worker'[c].pc = "none" => worker[c].pc = "none",
         stdin[c] = <<>> => stdin'[c] = <<>>,
         conn' = "up" => conn = "up",
         down' = down, sched' = sched, pool'[c] = pool[c]
  PROVE  Wired(c)'
<1>1. OpenFirst(c) => OpenFirst(c)'
  BY DEF OpenFirst, OpenAt
<1>2. QED
  BY <1>1 DEF Wired, Closes

\* Of one of the scheduler's thread that says nothing to the worker.
LEMMA WiredUnsaid ==
  ASSUME TypeOK, TypeOK', NEW c \in Chan, Wired(c), sched = <<>>,
         UNCHANGED <<pool, conn, down, hostVars>>,
         handle'[c].st = "none" => handle[c].st = "none",
         \A i \in DOMAIN sched' : sched'[i].tag = "DATA" => sched'[i].c # c
  PROVE  Wired(c)'
<1>1. sched' \in Seq(Frames)
  BY DEF TypeOK
<1>2. OnDown(sched', c) = <<>>
  BY <1>1, OnDownNone
<1>3. OpenFirst(c) => OpenFirst(c)'
  BY DEF OpenFirst, OpenAt
<1>4. Running(c)' <=> Running(c)
  BY DEF Running, hostVars
<1>5. QED
  BY <1>2, <1>3, <1>4 DEF Wired, hostVars

LEMMA EndsWired ==
  ASSUME TypeOK, TypeOK', NEW c \in Chan, Wired(c),
         Finish \/ \E d \in Chan : Collect(d) \/ Expire(d)
  PROVE  Wired(c)'
<1>1. sched = <<>> /\ UNCHANGED <<pool, conn, down, hostVars>>
  BY DEF Finish, Collect, Expire, Free, wires
<1>2. handle'[c].st = "none" => handle[c].st = "none"
  <2>1. handle \in [Chan -> Handles]
    BY DEF TypeOK
  <2>2. CASE Finish
    BY <2>2 DEF Finish
  <2>3. ASSUME NEW d \in Chan, Collect(d) \/ Expire(d)
        PROVE  handle'[c].st = "none" => handle[c].st = "none"
    BY <2>1, <2>3 DEF Collect, Expire, Handles
  <2>4. QED
    BY <2>2, <2>3
<1>3. \A i \in DOMAIN sched' : sched'[i].tag # "DATA"
  <2>1. CASE Finish
    BY <2>1, KillsAre DEF Finish
  <2>2. ASSUME NEW d \in Chan, Collect(d) \/ Expire(d)
        PROVE  \A i \in DOMAIN sched' : sched'[i].tag # "DATA"
    BY <2>2 DEF Collect, Expire, Control, Frame
  <2>3. QED
    BY <2>1, <2>2
<1>4. QED
  BY <1>1, <1>2, <1>3, WiredUnsaid

\* Of what ends the connection and the reader, and forwards what a worker says.
LEMMA ReadsWired ==
  ASSUME TypeOK, NEW c \in Chan, Wired(c),
         \/ CloseHost \/ ReaderEnds \/ Clear \/ UNCHANGED vars
         \/ \E d \in Chan : Forward(d) \/ ForwardExit(d)
  PROVE  Wired(c)'
<1>1. /\ UNCHANGED <<down, sched, pool, handle, hostp, stdin>> /\ (conn' = "up" => conn = "up")
      /\ worker' = worker \/ \E d \in Chan : ForwardExit(d)
  BY DEF CloseHost, ReaderEnds, Clear, vars, Forward, ForwardExit, mainVars, wires, hostVars
<1>2. worker'[c].pc = worker[c].pc \/ (worker[c].pc = "ended" /\ worker'[c].pc = "reaped")
  <2>1. worker \in [Chan -> Workers]
    BY DEF TypeOK
  <2>2. ASSUME NEW d \in Chan, ForwardExit(d)
        PROVE  worker'[c].pc = worker[c].pc \/ (worker[c].pc = "ended" /\ worker'[c].pc = "reaped")
    BY <2>1, <2>2 DEF ForwardExit, Workers
  <2>3. QED
    BY <1>1, <2>2
<1>3. Running(c)' => c \in hostp'.workers
  BY <1>1, <1>2 DEF Running, Wired
<1>4. QED
  BY <1>1, <1>2, <1>3, WiredStays

\* Of a worker's.
LEMMA WorkerWired ==
  ASSUME TypeOK, TypeOK', NEW c \in Chan, Wired(c), Fresh(c), NEW d \in Chan,
         Worker(d) \/ PrintsOut(d) \/ Crashes(d) \/ Hangs(d)
  PROVE  Wired(c)'
<1>1. /\ c # d => worker'[c] = worker[c] /\ stdin'[c] = stdin[c]
      /\ UNCHANGED <<mainVars, wires, hostp>>
  BY OneWorkerSteps
<1>2. stdin[c] = <<>> => stdin'[c] = <<>>
  BY <1>1 DEF Worker, PrintsOut, Crashes, Hangs, TakesHello, Accepts, Refuses, TakesObject, TakesTask, AsksValue,
              AsksCall, Records, Returns, Raises, TakesReply, FindsEnd, Writes, Exits, Reads, Inside
<1>3. CASE c = d
  <2>1. ASSUME Writes(c) \/ PrintsOut(c)
        PROVE  Running(c)' => Running(c)
    <3>1. worker \in [Chan -> Workers]
      BY DEF TypeOK
    <3>2. worker'[c].pc = worker[c].pc
      BY <2>1, <3>1 DEF Writes, PrintsOut, Workers
    <3>3. QED
      BY <3>2 DEF Running
  <2>2. ASSUME ~Writes(c), ~PrintsOut(c)
        PROVE  Running(c)
    BY <1>3, <2>2 DEF Worker, Crashes, Hangs, TakesHello, Accepts, Refuses, TakesObject, TakesTask, AsksValue,
              AsksCall, Records, Returns, Raises, TakesReply, FindsEnd, Exits, Steps, Idle, Running
  <2>3. worker'[c].pc # "none" /\ (Running(c)' => Running(c))
    BY <1>3, <2>1, <2>2, WorkerStarted
  <2>4. QED
    BY <1>1, <1>2, <2>3, WiredStays DEF Wired, mainVars, wires
<1>4. CASE c # d
  <2>1. worker'[c] = worker[c]
    BY <1>1, <1>4
  <2>2. Running(c)' => Running(c)
    BY <2>1 DEF Running
  <2>3. QED
    BY <1>1, <1>2, <2>1, <2>2, WiredStays DEF Wired, mainVars, wires
<1>5. QED
  BY <1>3, <1>4

\* Of a handle's that is fed.
LEMMA FeedWired ==
  ASSUME TypeOK, TypeOK', NEW c \in Chan, Talks(c), Wired(c), OpensOnce(c), Fresh(c),
         NEW d \in Chan, Feed(d)
  PROVE  Wired(c)'
<1>1. /\ sched = <<>> /\ UNCHANGED <<pool, conn, down, hostVars>>
      /\ c # d => handle'[c] = handle[c]
      /\ inbox[d] # <<>> /\ handle'[d].st = handle[d].st
  BY FeedIs DEF Heard
<1>2. CASE c # d \/ ~FeedGet(d)
  BY <1>1, <1>2, FeedSends, WiredUnsaid
<1>3. CASE c = d /\ FeedGet(c)
  <2> DEFINE q == Head(inbox[c])
             x == RepliesToGet(c, q.v)
             t == ToMain(c)'
  <2>1. q.tag = "GET_VALUE" /\ Parses(c) /\ sched' = Data(c, x)
    BY <1>3 DEF FeedGet, Fed
  <2>2. q \in Upward /\ t \in Seq(Upward) /\ ToMain(c) = <<q>> \o t
    BY <1>3, FedFirst DEF Feed
  <2>3. q.v \in Obj
    BY <2>1, <2>2, MessageIs
  <2> HIDE DEF q
  <2>4. x \in Seq(Downward) /\ x # <<>> /\ x[Len(x)].tag = "REPLY"
    BY <2>3, RepliesTalk
  <2> HIDE DEF x, t
  <2>5. Asked(ToMain(c))
    <3>1. Asked(<<q>> \o t) <=> Asks(q) \/ Asked(t)
      BY <2>2, HeadOff
    <3>2. QED
      BY <2>1, <2>2, <3>1 DEF Asks
  <2>6. ~Holds(ToWorker(c), "REPLY") /\ worker[c].pc # "none"
    BY <2>5 DEF Talks, Exchanges
  <2>7. conn = "up" => pool[c] = <<>>
    BY <2>6, PoolIsEmpty
  <2>8. OnDown(sched', c) = x /\ Closes(x)
    BY <2>1, <2>4, OnDownData DEF Closes
  <2>9. handle'[c].st # "none"
    BY <1>1, <1>3 DEF Fresh
  <2>10. Running(c)' <=> Running(c)
    BY <1>1 DEF Running, hostVars
  <2>11. QED
    BY <1>1, <2>6, <2>7, <2>8, <2>9, <2>10 DEF Wired, hostVars
<1>4. QED
  BY <1>2, <1>3

\* What holds of the last of some messages is on its way with them.
LEMMA SchedSays ==
  ASSUME TypeOK, NEW c \in Chan, Wired(c), conn = "up", OnDown(sched, c) # <<>>
  PROVE  Begins(ToWorker(c)) \/ Holds(ToWorker(c), "REPLY")
<1> DEFINE s == OnDown(sched, c)
           p == OnDown(pool[c], c)
           i == stdin[c]
           d == OnDown(down, c)
           r == Rest(c)
           z == d \o r
<1>1. /\ ToWorker(c) = i \o z /\ r = s \o p /\ i \in Seq(Downward) /\ d \in Seq(Downward)
      /\ r \in Seq(Downward) /\ s \in Seq(Downward) /\ p \in Seq(Downward)
  BY ToWorkerIs DEF Rest
<1>2. s[Len(s)].tag \in {"HELLO", "TASK", "REPLY"} /\ s # <<>>
  BY DEF Wired, Closes
<1> HIDE DEF s, p, i, d, r
<1>3. z \in Seq(Downward) /\ Len(s) \in DOMAIN s
  BY <1>1, <1>2
<1>4. PICK tag \in {"HELLO", "TASK", "REPLY"} : Holds(s, tag)
  BY <1>2, <1>3 DEF Holds
<1>5. Holds(r, tag)
  BY <1>1, <1>4, HoldsCat
<1>6. Holds(z, tag)
  BY <1>1, <1>5, HoldsCat
<1> HIDE DEF z
<1>7. Holds(i \o z, tag)
  BY <1>1, <1>3, <1>6, HoldsCat
<1>8. QED
  BY <1>1, <1>4, <1>7 DEF Begins

\* Of a call's thread, that answers it.
LEMMA CalledWired ==
  ASSUME TypeOK, NEW c \in Chan, Talks(c), Wired(c), Fresh(c), handle[c].call,
         NEW x \in Seq(Downward), x # <<>>, x[Len(x)].tag = "REPLY", pool'[c] = Data(c, x),
         handle'[c].st = handle[c].st, UNCHANGED <<sched, wires, hostVars>>
  PROVE  Wired(c)'
<1>1. ~Holds(ToWorker(c), "REPLY") /\ ~Begins(ToWorker(c)) /\ worker[c].pc # "none"
  BY DEF Talks, Exchanges
<1>2. conn = "up" => OnDown(sched, c) = <<>>
  BY <1>1, SchedSays
<1>3. pool'[c][Len(pool'[c])].m.tag = "REPLY"
  <2>1. /\ Data(c, x) \in Seq(Frames) /\ Len(Data(c, x)) = Len(x)
        /\ \A i \in DOMAIN Data(c, x) : Data(c, x)[i] = Frame("DATA", c, x[i])
    BY DataIs
  <2>2. Len(x) \in DOMAIN Data(c, x)
    BY <2>1
  <2>3. QED
    BY <2>1, <2>2 DEF Frame
<1>4. handle'[c].st # "none"
  BY DEF Fresh
<1>5. Running(c)' <=> Running(c)
  BY DEF Running, hostVars
<1>6. OpenFirst(c) => OpenFirst(c)'
  BY DEF OpenFirst, wires
<1>7. QED
  BY <1>1, <1>2, <1>3, <1>4, <1>5, <1>6 DEF Wired, wires, hostVars

LEMMA CallsWired ==
  ASSUME TypeOK, TypeOK', NEW c \in Chan, Talks(c), Wired(c), Fresh(c), NEW d \in Chan, Calls(d)
  PROVE  Wired(c)'
<1>1. UNCHANGED <<main, sched, outcome, wires, hostVars>>
  BY DEF Calls, RunCall, RunCallFails, disk
<1>2. handle'[c].st = handle[c].st /\ handle[d].call
  BY CalledIs
<1>3. ASSUME pool'[c] = pool[c]
      PROVE  Wired(c)'
  <2>1. Running(c)' <=> Running(c)
    BY <1>1 DEF Running, hostVars
  <2>2. Running(c)' => c \in hostp'.workers
    BY <1>1, <2>1 DEF Wired, hostVars
  <2>3. QED
    BY <1>1, <1>2, <1>3, <2>2, WiredStays DEF wires, hostVars
<1>4. CASE c # d
  <2>1. pool'[c] = pool[c]
    BY <1>4 DEF Calls, RunCall, RunCallFails, TypeOK
  <2>2. QED
    BY <1>3, <2>1
<1>5. CASE c = d /\ RunCall(c)
  <2>1. CASE Told \in Uncarried
    BY <1>3, <1>5, <2>1 DEF RunCall
  <2>2. CASE Told \notin Uncarried
    <3> DEFINE x == Objects(ToSend(c, Told)) \o <<Answer(Told, "CALL")>>
    <3>1. pool' = [pool EXCEPT ![c] = Data(c, x)]
      BY <1>5, <2>2 DEF RunCall
    <3>2. Told \in Obj
      BY Given
    <3>3. x \in Seq(Downward) /\ x # <<>> /\ x[Len(x)].tag = "REPLY"
      BY <3>2, AnswerIs
    <3> HIDE DEF x
    <3>4. pool'[c] = Data(c, x)
      BY <3>1 DEF TypeOK
    <3>5. QED
      BY <1>1, <1>2, <1>5, <3>3, <3>4, CalledWired
  <2>3. QED
    BY <2>1, <2>2
<1>6. CASE c = d /\ RunCallFails(c)
  <2> DEFINE x == <<Answer(Nil, "CALL")>>
  <2>1. pool' = [pool EXCEPT ![c] = Data(c, x)]
    BY <1>6 DEF RunCallFails
  <2>2. x \in Seq(Downward) /\ x # <<>> /\ x[Len(x)].tag = "REPLY"
    BY NoAnswerIs
  <2> HIDE DEF x
  <2>3. pool'[c] = Data(c, x)
    BY <2>1 DEF TypeOK
  <2>4. QED
    BY <1>1, <1>2, <1>6, <2>2, <2>3, CalledWired
<1>7. QED
  BY <1>4, <1>5, <1>6 DEF Calls

\* Of one that starts a task.
LEMMA StartWired ==
  ASSUME TypeOK, TypeOK', NEW c \in Chan, Wired(c), OpensOnce(c),
         NEW d \in Chan, Fresh(d), Start(d) \/ StartRefused(d)
  PROVE  Wired(c)'
<1>1. /\ sched = <<>> /\ handle[d].st = "none" /\ UNCHANGED <<pool, wires, hostVars>>
      /\ c # d => handle'[c] = handle[c]
      /\ handle'[d].st = "open"
  <2>1. handle \in [Chan -> Handles]
    BY DEF TypeOK
  <2>2. CASE Start(d)
    BY <2>1, <2>2 DEF Start, Free, Handles
  <2>3. CASE StartRefused(d)
    BY <2>1, <2>3 DEF StartRefused, Free, Handles
  <2>4. QED
    BY <2>2, <2>3
<1>2. PICK x \in Seq(Downward) :
        /\ OnDown(sched', d) = x /\ x # <<>> /\ Closes(x)
        /\ sched'[1] = Control("OPEN", d)
        /\ \A i \in DOMAIN sched' : sched'[i].c = d
  <2>1. handle[d].seen = {}
    BY <1>1 DEF Fresh
  <2>2. QED
    BY <2>1, StartWrites
<1>3. CASE c # d
  BY <1>1, <1>2, <1>3, WiredUnsaid DEF wires
<1>4. CASE c = d
  <2>1. pool[c] = <<>> /\ stdin[c] = <<>>
    BY <1>1, <1>4 DEF Wired
  <2>2. worker[c].pc = "none"
    BY <1>1, <1>4 DEF OpensOnce
  <2>3. OpenFirst(c)'
    <3>1. OpenFirst(c) /\ sched' \in Seq(Frames)
      BY <2>2 DEF Wired, TypeOK
    <3>2. OpenAt(sched', 1, c) /\ sched'[1].tag # "DATA"
      BY <1>2, <1>4 DEF OpenAt, Control, Frame
    <3>3. \A i \in DOMAIN sched' : sched'[i].tag = "DATA" => 1 \in 1..(i - 1)
      BY <3>1, <3>2
    <3>4. QED
      BY <1>1, <3>1, <3>2, <3>3 DEF OpenFirst, OpenAt, wires
  <2>4. Running(c)' <=> Running(c)
    BY <1>1 DEF Running, hostVars
  <2>5. QED
    BY <1>1, <1>2, <1>4, <2>1, <2>3, <2>4 DEF Wired, wires, hostVars
<1>5. QED
  BY <1>3, <1>4

\* Of frames from one end to the other: what is not c's leaves its order be.
LEMMA OpenAfter ==
  ASSUME TypeOK, NEW c \in Chan, OpenFirst(c), NEW f \in Frames, ~(f.tag = "DATA" /\ f.c = c),
         down' = down \/ down' = Append(down, f), sched' = sched, conn' = conn
  PROVE  OpenFirst(c)'
<1>1. down \in Seq(Frames)
  BY DEF TypeOK
<1>2. /\ DOMAIN down \subseteq DOMAIN down'
      /\ \A i \in DOMAIN down : down'[i] = down[i] /\ \A j \in 1..(i - 1) : j \in DOMAIN down
      /\ \A i \in DOMAIN down' : i \in DOMAIN down \/ down'[i] = f
  BY <1>1
<1>3. ASSUME NEW i \in DOMAIN down', down'[i].tag = "DATA", down'[i].c = c
      PROVE  \E j \in 1..(i - 1) : OpenAt(down', j, c)
  <2>1. i \in DOMAIN down
    BY <1>2, <1>3
  <2>2. PICK j \in 1..(i - 1) : OpenAt(down, j, c)
    BY <1>2, <1>3, <2>1 DEF OpenFirst
  <2>3. j \in DOMAIN down
    BY <1>2, <2>1
  <2>4. QED
    BY <1>2, <2>2, <2>3 DEF OpenAt
<1>4. \A j \in DOMAIN down : OpenAt(down, j, c) => j \in DOMAIN down' /\ OpenAt(down', j, c)
  BY <1>2 DEF OpenAt
<1>5. QED
  BY <1>3, <1>4 DEF OpenFirst, OpenAt

LEMMA OpenMoves ==
  ASSUME TypeOK, NEW c \in Chan, OpenFirst(c), SchedWrites
  PROVE  OpenFirst(c)'
<1> DEFINE f == Head(sched)
           n == Len(down)
<1>1. down \in Seq(Frames) /\ sched \in Seq(Frames) /\ sched # <<>> /\ sched' = Tail(sched)
      /\ down' = (IF conn = "up" THEN Append(down, f) ELSE down) /\ conn' = conn
  BY DEF TypeOK, SchedWrites, Sent
<1>2. CASE conn # "up"
  BY <1>1, <1>2 DEF OpenFirst, OpenAt
<1>3. CASE conn = "up"
  <2>1. /\ n \in Nat /\ DOMAIN down = 1..n /\ DOMAIN down' = 1..(n + 1)
        /\ \A i \in 1..n : down'[i] = down[i]
        /\ down'[n + 1] = f /\ f = sched[1] /\ 1 \in DOMAIN sched
    BY <1>1, <1>3
  <2>2. /\ \A i \in DOMAIN sched' : i \in Nat \ {0} /\ i + 1 \in DOMAIN sched /\ sched'[i] = sched[i + 1]
        /\ \A i \in DOMAIN sched' : \A j \in 1..i : j # 1 => j - 1 \in 1..(i - 1) /\ sched'[j - 1] = sched[j]
    BY <1>1
  <2> HIDE DEF f, n
  <2>3. \A j \in DOMAIN down : OpenAt(down, j, c) => j \in DOMAIN down' /\ OpenAt(down', j, c)
    BY <2>1 DEF OpenAt
  <2>4. ASSUME NEW i \in DOMAIN down', down'[i].tag = "DATA", down'[i].c = c
        PROVE  \E j \in 1..(i - 1) : OpenAt(down', j, c)
    <3>1. CASE i \in DOMAIN down
      <4>1. PICK j \in 1..(i - 1) : OpenAt(down, j, c)
        BY <2>1, <2>4, <3>1 DEF OpenFirst
      <4>2. j \in DOMAIN down
        BY <2>1, <3>1
      <4>3. QED
        BY <2>3, <4>1, <4>2
    <3>2. CASE i = n + 1
      <4>1. \/ \E j \in 1..(1 - 1) : OpenAt(sched, j, c)
            \/ \E j \in DOMAIN down : OpenAt(down, j, c)
        BY <1>3, <2>1, <2>4, <3>2 DEF OpenFirst
      <4>2. 1..(1 - 1) = {} /\ i - 1 = n
        BY <2>1, <3>2
      <4>3. PICK j \in DOMAIN down : OpenAt(down, j, c)
        BY <4>1, <4>2
      <4>4. j \in 1..(i - 1)
        BY <2>1, <4>2
      <4>5. QED
        BY <2>3, <4>3, <4>4
    <3>3. QED
      BY <2>1, <3>1, <3>2
  <2>5. ASSUME NEW i \in DOMAIN sched', sched'[i].tag = "DATA", sched'[i].c = c
        PROVE  \/ \E j \in 1..(i - 1) : OpenAt(sched', j, c)
               \/ \E j \in DOMAIN down' : OpenAt(down', j, c)
    <3>1. \/ \E j \in 1..((i + 1) - 1) : OpenAt(sched, j, c)
          \/ \E j \in DOMAIN down : OpenAt(down, j, c)
      BY <1>3, <2>2, <2>5 DEF OpenFirst
    <3>2. (i + 1) - 1 = i
      BY <2>2
    <3>3. CASE \E j \in DOMAIN down : OpenAt(down, j, c)
      BY <2>3, <3>3
    <3>4. ASSUME NEW j \in 1..i, OpenAt(sched, j, c)
          PROVE  \/ \E k \in 1..(i - 1) : OpenAt(sched', k, c)
                 \/ \E k \in DOMAIN down' : OpenAt(down', k, c)
      <4>1. CASE j = 1
        <5>1. n + 1 \in DOMAIN down' /\ OpenAt(down', n + 1, c)
          BY <2>1, <3>4, <4>1 DEF OpenAt
        <5>2. QED
          BY <5>1
      <4>2. CASE j # 1
        <5>1. j - 1 \in 1..(i - 1) /\ OpenAt(sched', j - 1, c)
          BY <2>2, <3>4, <4>2 DEF OpenAt
        <5>2. QED
          BY <5>1
      <4>3. QED
        BY <4>1, <4>2
    <3>5. QED
      BY <3>1, <3>2, <3>3, <3>4
  <2>6. QED
    BY <2>4, <2>5 DEF OpenFirst
<1>4. QED
  BY <1>2, <1>3

\* The host process takes the first frame.
LEMMA OpenTaken ==
  ASSUME TypeOK, NEW c \in Chan, OpenFirst(c), down # <<>>, down' = Tail(down), ~OpenAt(down, 1, c),
         sched' = sched, conn' = conn
  PROVE  OpenFirst(c)'
<1>1. /\ \A i \in DOMAIN down' : i \in Nat \ {0} /\ i + 1 \in DOMAIN down /\ down'[i] = down[i + 1]
      /\ \A i \in DOMAIN down' : \A j \in 1..i : j # 1 => j - 1 \in 1..(i - 1) /\ down'[j - 1] = down[j]
      /\ \A j \in DOMAIN down : j # 1 => j - 1 \in DOMAIN down' /\ down'[j - 1] = down[j]
  BY DEF TypeOK
<1>2. ASSUME NEW i \in DOMAIN down', down'[i].tag = "DATA", down'[i].c = c
      PROVE  \E j \in 1..(i - 1) : OpenAt(down', j, c)
  <2>1. \E j \in 1..((i + 1) - 1) : OpenAt(down, j, c)
    BY <1>1, <1>2 DEF OpenFirst
  <2>2. (i + 1) - 1 = i
    BY <1>1
  <2>3. PICK j \in 1..i : OpenAt(down, j, c)
    BY <2>1, <2>2
  <2>4. j - 1 \in 1..(i - 1) /\ OpenAt(down', j - 1, c)
    BY <1>1, <2>3 DEF OpenAt
  <2>5. QED
    BY <2>4
<1>3. \A j \in DOMAIN down : OpenAt(down, j, c) => j - 1 \in DOMAIN down' /\ OpenAt(down', j - 1, c)
  BY <1>1 DEF OpenAt
<1>4. \A j \in DOMAIN down : OpenAt(down, j, c) => \E k \in DOMAIN down' : OpenAt(down', k, c)
  BY <1>3
<1>5. QED
  BY <1>2, <1>4 DEF OpenFirst, OpenAt

\* Of what is left of frames with none of c's.
LEMMA NoneLeft ==
  ASSUME NEW s \in Seq(Frames), NEW c, s # <<>>, OnDown(s, c) = <<>>
  PROVE  OnDown(Tail(s), c) = <<>> /\ ~(Head(s).tag = "DATA" /\ Head(s).c = c)
<1>1. \A i \in DOMAIN s : ~(s[i].tag = "DATA" /\ s[i].c = c)
  BY OnDownEmpty
<1>2. Tail(s) \in Seq(Frames) /\ \A i \in DOMAIN Tail(s) : \E j \in DOMAIN s : Tail(s)[i] = s[j]
  <2>1. \A i \in DOMAIN Tail(s) : i + 1 \in DOMAIN s /\ Tail(s)[i] = s[i + 1]
    OBVIOUS
  <2>2. QED
    BY <2>1
<1>3. Head(s) = s[1] /\ 1 \in DOMAIN s
  OBVIOUS
<1>4. QED
  BY <1>1, <1>2, <1>3, OnDownNone

LEMMA NoneMore ==
  ASSUME NEW s \in Seq(Frames), NEW f \in Frames, NEW c, OnDown(s, c) = <<>>, ~(f.tag = "DATA" /\ f.c = c)
  PROVE  OnDown(Append(s, f), c) = <<>>
<1>1. \A i \in DOMAIN s : ~(s[i].tag = "DATA" /\ s[i].c = c)
  BY OnDownEmpty
<1>2. Append(s, f) \in Seq(Frames)
      /\ \A i \in DOMAIN Append(s, f) : Append(s, f)[i] = f \/ (i \in DOMAIN s /\ Append(s, f)[i] = s[i])
  OBVIOUS
<1>3. QED
  BY <1>1, <1>2, OnDownNone

\* The scheduler's thread writes a frame.
LEMMA SchedWired ==
  ASSUME TypeOK, TypeOK', NEW c \in Chan, Wired(c), SchedWrites
  PROVE  Wired(c)'
<1> DEFINE f == Head(sched)
           x == OnDown(<<f>>, c)
           y == OnDown(Tail(sched), c)
<1>1. /\ down \in Seq(Frames) /\ sched \in Seq(Frames) /\ sched # <<>> /\ sched' = Tail(sched)
      /\ down' = (IF conn = "up" THEN Append(down, f) ELSE down) /\ conn' = conn
      /\ UNCHANGED <<pool, handle, hostVars>>
  BY DEF TypeOK, SchedWrites, Sent
<1>2. f \in Frames /\ Tail(sched) \in Seq(Frames) /\ <<f>> \in Seq(Frames)
  <2>1. f \in Frames /\ Tail(sched) \in Seq(Frames)
    BY <1>1
  <2> HIDE DEF f
  <2>2. QED
    BY <2>1
<1>3. OpenFirst(c) => OpenFirst(c)'
  BY OpenMoves
<1>4. OnDown(sched, c) = <<>> => y = <<>> /\ ~(f.tag = "DATA" /\ f.c = c)
  BY <1>1, NoneLeft
<1>5. OnDown(sched, c) = <<>> /\ OnDown(down, c) = <<>> => OnDown(down', c) = <<>>
  BY <1>1, <1>2, <1>4, NoneMore
<1>6. OnDown(sched, c) = x \o y /\ x \in Seq(Downward) /\ y \in Seq(Downward)
  BY <1>1, <1>2, OnDownHead, OnDownIs
<1>7. y # <<>> /\ Closes(OnDown(sched, c)) => Closes(y)
  <2> DEFINE z == x \o y
  <2> HIDE DEF x, y
  <2>1. y # <<>> => z[Len(z)] = y[Len(y)]
    BY <1>6
  <2>2. QED
    BY <1>6, <2>1 DEF Closes
<1>8. Running(c)' <=> Running(c)
  BY <1>1 DEF Running, hostVars
<1>9. OnDown(sched', c) = y
  BY <1>1
<1> HIDE DEF x, y, f
<1>10. y # <<>> => OnDown(sched, c) # <<>>
  BY <1>4
<1>11. QED
  BY <1>1, <1>3, <1>4, <1>5, <1>7, <1>8, <1>9, <1>10 DEF Wired, hostVars

\* And a thread of the pool.
LEMMA PoolWired ==
  ASSUME TypeOK, TypeOK', NEW c \in Chan, Talks(c), Wired(c), NEW d \in Chan, OpensOnce(d), PoolWrites(d)
  PROVE  Wired(c)'
<1> DEFINE f == Head(pool[d])
<1>1. /\ down \in Seq(Frames) /\ pool[d] \in Seq(Frames) /\ pool[d] # <<>> /\ pool'[d] = Tail(pool[d])
      /\ down' = (IF conn = "up" THEN Append(down, f) ELSE down)
      /\ c # d => pool'[c] = pool[c]
      /\ UNCHANGED <<conn, sched, handle, hostVars>>
  BY DEF TypeOK, PoolWrites, Sent
<1>2. f \in Frames /\ f.tag = "DATA" /\ f.c = d
  <2>1. f = pool[d][1] /\ 1 \in DOMAIN pool[d] /\ f \in Frames
    BY <1>1
  <2>2. QED
    BY <2>1 DEF OpensOnce
<1>3. Running(c)' <=> Running(c)
  BY <1>1 DEF Running, hostVars
<1> HIDE DEF f
<1>4. CASE c # d
  <2>1. OpenFirst(c) => OpenFirst(c)'
    BY <1>1, <1>2, <1>4, OpenAfter
  <2>2. OnDown(down, c) = <<>> => OnDown(down', c) = <<>>
    BY <1>1, <1>2, <1>4, NoneMore
  <2>3. QED
    BY <1>1, <1>3, <1>4, <2>1, <2>2 DEF Wired, hostVars
<1>5. CASE c = d
  <2>1. handle[c].st # "none" /\ worker[c].pc # "none"
    BY <1>1, <1>5 DEF Wired, Talks, Exchanges
  <2>2. pool'[c] # <<>> => pool'[c][Len(pool'[c])] = pool[c][Len(pool[c])]
    <3> DEFINE p == pool[c]
               q == pool'[c]
    <3>1. p \in Seq(Frames) /\ p # <<>> /\ q = Tail(p)
      BY <1>1, <1>5
    <3> HIDE DEF p, q
    <3>2. q # <<>> => q[Len(q)] = p[Len(p)]
      BY <3>1
    <3>3. QED
      BY <3>2 DEF p, q
  <2>3. QED
    BY <1>1, <1>3, <1>5, <2>1, <2>2 DEF Wired, hostVars
<1>6. QED
  BY <1>4, <1>5

\* The connection drops.
LEMMA DropWired ==
  ASSUME TypeOK, TypeOK', NEW c \in Chan, Wired(c), Drop
  PROVE  Wired(c)'
<1>1. PICK n \in 0..Len(down) : down' = SubSeq(down, 1, n)
  BY DEF Drop
<1>2. conn' # "up" /\ UNCHANGED <<mainVars, hostVars>> /\ down \in Seq(Frames) /\ down' \in Seq(Frames)
  BY DEF Drop, TypeOK
<1>3. /\ \A i \in DOMAIN down' : i \in DOMAIN down /\ down'[i] = down[i]
      /\ \A i \in DOMAIN down' : \A j \in 1..(i - 1) : j \in DOMAIN down'
  BY <1>1, <1>2
<1>4. OpenFirst(c) => OpenFirst(c)'
  <2>1. ASSUME OpenFirst(c), NEW i \in DOMAIN down', down'[i].tag = "DATA", down'[i].c = c
        PROVE  \E j \in 1..(i - 1) : OpenAt(down', j, c)
    <3>1. PICK j \in 1..(i - 1) : OpenAt(down, j, c)
      BY <1>3, <2>1 DEF OpenFirst
    <3>2. QED
      BY <1>3, <3>1 DEF OpenAt
  <2>2. QED
    BY <1>2, <2>1 DEF OpenFirst
<1>5. OnDown(down, c) = <<>> => OnDown(down', c) = <<>>
  <2>1. ASSUME OnDown(down, c) = <<>>
        PROVE  \A i \in DOMAIN down' : ~(down'[i].tag = "DATA" /\ down'[i].c = c)
    BY <1>2, <1>3, <2>1, OnDownEmpty
  <2>2. QED
    BY <1>2, <2>1, OnDownNone
<1>6. Running(c)' <=> Running(c)
  BY <1>2 DEF Running, hostVars
<1>7. QED
  BY <1>2, <1>4, <1>5, <1>6 DEF Wired, mainVars, hostVars

\* The host process knows the workers that run.
LEMMA HostRuns ==
  ASSUME TypeOK, NEW c \in Chan, Wired(c), HostLoop, Running(c)'
  PROVE  c \in hostp'.workers
<1>1. /\ worker \in [Chan -> Workers] /\ hostp \in [up : BOOLEAN, workers : SUBSET Chan]
      /\ worker[c] \in Workers
  BY DEF TypeOK
<1>2. Running(c) => c \in hostp.workers
  BY DEF Wired
<1>3. CASE HostOpens
  <2> DEFINE d == Head(down).c
  <2>1. worker' = [worker EXCEPT ![d].pc = "starting"] /\ hostp'.workers = hostp.workers \cup {d}
    BY <1>1, <1>3 DEF HostOpens
  <2> HIDE DEF d
  <2>2. CASE c = d
    BY <2>1, <2>2
  <2>3. CASE c # d
    <3>1. worker'[c] = worker[c]
      BY <1>1, <2>1, <2>3
    <3>2. QED
      BY <1>2, <2>1, <3>1 DEF Running
  <2>4. QED
    BY <2>2, <2>3
<1>4. CASE HostWrites
  BY <1>2, <1>4 DEF HostWrites, Running
<1>5. CASE HostCloses
  <2>1. hostp' = hostp /\ (UNCHANGED worker \/ \E d : worker' = [worker EXCEPT ![d].eof = TRUE])
    BY <1>5 DEF HostCloses
  <2>2. worker'[c].pc = worker[c].pc
    <3>1. ASSUME NEW d, worker' = [worker EXCEPT ![d].eof = TRUE]
          PROVE  worker'[c].pc = worker[c].pc
      BY <1>1, <3>1 DEF Workers
    <3>2. QED
      BY <2>1, <3>1
  <2>3. QED
    BY <1>2, <2>1, <2>2 DEF Running
<1>6. CASE HostKills
  <2> DEFINE d == Head(down).c
  <2>1. /\ hostp'.workers = hostp.workers \ {d}
        /\ worker' = IF d \in hostp.workers /\ Running(d) THEN Ended(d) ELSE worker
    BY <1>1, <1>6 DEF HostKills
  <2> HIDE DEF d
  <2>2. CASE c # d
    <3>1. worker'[c] = worker[c]
      BY <1>1, <2>1, <2>2 DEF Ended
    <3>2. QED
      BY <1>2, <2>1, <2>2, <3>1 DEF Running
  <2>3. CASE c = d
    <3>1. Ended(c)[c].pc = "ended"
      BY <1>1 DEF Ended, Workers
    <3>2. FALSE
      BY <1>2, <2>1, <2>3, <3>1 DEF Running
    <3>3. QED
      BY <3>2
  <2>4. QED
    BY <2>2, <2>3
<1>7. CASE HostEnds
  <2>1. hostp'.workers = hostp.workers
        /\ worker'[c] = (IF c \in hostp.workers /\ Running(c) THEN Ended(c)[c] ELSE worker[c])
    BY <1>1, <1>7 DEF HostEnds
  <2>2. Ended(c)[c].pc = "ended"
    BY <1>1 DEF Ended, Workers
  <2>3. QED
    BY <1>2, <2>1, <2>2 DEF Running
<1>8. QED
  BY <1>3, <1>4, <1>5, <1>6, <1>7 DEF HostLoop

LEMMA HostWired ==
  ASSUME TypeOK, TypeOK', NEW c \in Chan, Wired(c), OpensOnce(c), HostLoop
  PROVE  Wired(c)'
<1>1. Running(c)' => c \in hostp'.workers
  BY HostRuns
<1>2. /\ UNCHANGED <<mainVars, inbox, stdout>>
      /\ \/ worker'[c].pc = worker[c].pc
         \/ /\ worker'[c].pc = "starting" /\ down # <<>> /\ OpenAt(down, 1, c)
         \/ worker'[c].pc = "ended" /\ Running(c)
  BY HostMoves
<1>3. conn' = conn /\ down \in Seq(Frames)
  BY DEF HostLoop, HostOpens, HostWrites, HostCloses, HostKills, HostEnds, Takes, wires, TypeOK
<1>4. CASE HostEnds
  <2>1. down' = down /\ stdin' = stdin
    BY <1>4 DEF HostEnds, wires
  <2>2. QED
    BY <1>1, <1>2, <1>3, <2>1, WiredStays DEF mainVars
<1>5. CASE ~HostEnds
  <2>1. down # <<>> /\ down' = Tail(down) /\ Head(down) = down[1] /\ 1 \in DOMAIN down
    <3>1. down # <<>> /\ down' = Tail(down)
      BY <1>5 DEF HostLoop, HostOpens, HostWrites, HostCloses, HostKills, Takes
    <3>2. QED
      BY <1>3, <3>1
  <2>2. OnDown(down, c) = <<>> => OnDown(down', c) = <<>> /\ ~(Head(down).tag = "DATA" /\ Head(down).c = c)
    BY <1>3, <2>1, NoneLeft
  <2>3. stdin'[c] = stdin[c] \/ (Head(down).tag = "DATA" /\ Head(down).c = c /\ Running(c) /\ worker' = worker)
    BY <1>5 DEF HostLoop, HostOpens, HostWrites, HostCloses, HostKills, Takes, TypeOK
  <2>4. OpenAt(down, 1, c) => worker'[c].pc # "none"
    <3>1. OpenAt(down, 1, c) => HostOpens /\ Head(down).c = c
      BY <1>5, <2>1 DEF HostLoop, HostOpens, HostWrites, HostCloses, HostKills, Takes, OpenAt
    <3>2. HostOpens /\ Head(down).c = c => worker'[c].pc = "starting"
      BY DEF HostOpens, TypeOK, Workers
    <3>3. QED
      BY <3>1, <3>2
  <2>5. worker'[c].pc = "none" => worker[c].pc = "none"
    BY <1>2
  <2>6. worker'[c].pc = "none" /\ OpenFirst(c) => OpenFirst(c)'
    BY <1>2, <1>3, <2>1, <2>4, OpenTaken DEF mainVars
  <2>7. worker'[c].pc = "none" => stdin'[c] = <<>> /\ OpenFirst(c)'
    BY <2>3, <2>5, <2>6 DEF Wired, Running
  <2>8. handle'[c].st = "none" => stdin'[c] = <<>> /\ OnDown(down', c) = <<>>
    BY <1>2, <2>2, <2>3 DEF Wired, mainVars
  <2>9. QED
    BY <1>1, <1>2, <1>3, <2>7, <2>8 DEF Wired, mainVars
<1>6. QED
  BY <1>4, <1>5

-----------------------------------------------------------------------------
(* All of it                                                               *)

LEMMA StepIsWired ==
  ASSUME TypeOK, TypeOK', NEW c \in Chan, \A e \in Chan : Sound(e), [Next]_vars
  PROVE  Wired(c)'
<1>1. /\ Talks(c) /\ Wired(c) /\ Fresh(c) /\ OpensOnce(c)
      /\ \A e \in Chan : Fresh(e) /\ OpensOnce(e)
  BY DEF Sound, Truth
<1>2. ASSUME NEW d \in Chan,
             \/ Start(d) \/ StartRefused(d) \/ Feed(d) \/ Calls(d) \/ Collect(d) \/ Expire(d)
             \/ PoolWrites(d) \/ Forward(d) \/ ForwardExit(d)
      PROVE  Wired(c)'
  BY <1>1, <1>2, StartWired, FeedWired, CallsWired, EndsWired, PoolWired, ReadsWired
<1>3. ASSUME NEW d \in Chan, Worker(d) \/ PrintsOut(d) \/ Crashes(d) \/ Hangs(d)
      PROVE  Wired(c)'
  BY <1>1, <1>3, WorkerWired
<1>4. CASE Finish \/ CloseHost \/ Drop \/ ReaderEnds \/ SchedWrites \/ HostLoop \/ Clear \/ UNCHANGED vars
  BY <1>1, <1>4, EndsWired, ReadsWired, DropWired, SchedWired, HostWired
<1>5. QED
  BY <1>2, <1>3, <1>4 DEF Next

LEMMA StepTalks ==
  ASSUME TypeOK, TypeOK', NEW c \in Chan, \A e \in Chan : Sound(e), [Next]_vars
  PROVE  Talks(c)'
<1>1. /\ Talks(c) /\ Wired(c) /\ Truth(c) /\ Fresh(c) /\ OpensOnce(c) /\ Word(c)
      /\ \A e \in Chan : OpensOnce(e)
  BY DEF Sound, Truth
<1>2. ASSUME NEW d \in Chan,
             \/ Start(d) \/ StartRefused(d) \/ Feed(d) \/ Calls(d) \/ Collect(d) \/ Expire(d)
             \/ PoolWrites(d) \/ Forward(d) \/ ForwardExit(d)
      PROVE  Talks(c)'
  BY <1>1, <1>2, StartTalks, FeedTalks, CallsTalk, DispatchTalks, ForwardTalks, ExitTalks
<1>3. ASSUME NEW d \in Chan, Worker(d) \/ PrintsOut(d) \/ Crashes(d) \/ Hangs(d)
      PROVE  Talks(c)'
  BY <1>1, <1>3, WorkerTalks
<1>4. CASE Finish \/ CloseHost \/ Drop \/ ReaderEnds \/ SchedWrites \/ HostLoop \/ Clear \/ UNCHANGED vars
  BY <1>1, <1>4, DispatchTalks, ClosingTalks, ReaderTalks, HostTalks
<1>5. QED
  BY <1>2, <1>3, <1>4 DEF Next

LEMMA InitIsSound ==
  ASSUME Init, NEW c \in Chan
  PROVE  Sound(c)
<1> USE DEF Init
<1>1. Truth(c) /\ Fresh(c)
  BY InitIsTrue, InitIsWhole
<1>2. OnDown(down, c) = <<>> /\ OnDown(sched, c) = <<>> /\ OnDown(pool[c], c) = <<>>
  BY NoFrames
<1>3. Wired(c)
  <2>1. ~Running(c) /\ OpenFirst(c)
    BY DEF Running, OpenFirst
  <2>2. QED
    BY <1>2, <2>1 DEF Wired
<1>4. ToWorker(c) = <<>> /\ ToMain(c) = <<>>
  <2>1. <<>> \o <<>> = <<>> /\ (<<>> \o <<>>) \o <<>> = <<>>
    OBVIOUS
  <2>2. ToMain(c) = <<>>
    BY <2>1 DEF ToMain
  <2>3. down \o sched \o pool[c] = <<>>
    BY <2>1
  <2>4. ToWorker(c) = <<>>
    BY <1>2, <2>1, <2>3 DEF ToWorker
  <2>5. QED
    BY <2>2, <2>4
<1>5. Talks(c)
  <2>1. /\ Up(<<>>) /\ Down(<<>>) /\ Brought(<<>>) = {} /\ ~Asked(<<>>) /\ ~Begins(<<>>) /\ ~Ends(<<>>)
        /\ \A tag : ~Holds(<<>>, tag)
    BY NoMessage
  <2>2. Carries(<<>>, {}) /\ Range(<<>>) = {}
    BY CarriesNone DEF Range
  <2>3. handle[c].seen = {} /\ ~handle[c].call /\ worker[c].objects = {} /\ worker[c].pc = "none"
        /\ inbox[c] = <<>>
    OBVIOUS
  <2>4. Exchanges(c)
    BY <1>4, <2>1, <2>2, <2>3 DEF Exchanges
  <2>5. Crosses(c)
    BY <1>4, <2>1, <2>2, <2>3 DEF Crosses, Known
  <2>6. QED
    BY <1>4, <2>1, <2>4, <2>5 DEF Talks
<1>6. QED
  BY <1>1, <1>3, <1>5 DEF Sound

\* The inductive invariant of a task's conversation.
LEMMA SoundHolds == Spec => [](TypeOK /\ \A c \in Chan : Sound(c))
<1> DEFINE Inv == \A c \in Chan : Sound(c)
<1>1. Init => Inv
  BY InitIsSound
<1>2. TypeOK /\ TypeOK' /\ Inv /\ [Next]_vars => Inv'
  <2> SUFFICES ASSUME TypeOK, TypeOK', Inv, [Next]_vars, NEW c \in Chan
               PROVE  Sound(c)'
    OBVIOUS
  <2>1. \A e \in Chan : Truth(e) /\ Fresh(e)
    BY DEF Sound
  <2>2. Truth(c)' /\ Fresh(c)'
    BY <2>1, StepIsTrue, FreshStays
  <2>3. Talks(c)' /\ Wired(c)'
    BY StepTalks, StepIsWired
  <2>4. QED
    BY <2>2, <2>3 DEF Sound
<1>3. Spec => []TypeOK
  BY ChannelTyping
<1>4. TypeOK /\ Inv => TypeOK /\ \A c \in Chan : Sound(c)
  OBVIOUS
<1> HIDE DEF Inv
<1>5. QED
  BY <1>1, <1>2, <1>3, <1>4, PTL DEF Spec

Counted(m, tags, v) == m.tag \in tags /\ (v = None \/ m.v = v)

\* Messages of which there is one at most are counted so.
LEMMA CountIs ==
  ASSUME NEW S, NEW s \in Seq(S), NEW tags, NEW v,
         \A i, j \in DOMAIN s : Counted(s[i], tags, v) /\ Counted(s[j], tags, v) => i = j
  PROVE  /\ Count(s, tags, v) \in {0, 1}
         /\ Count(s, tags, v) = 1 => \E i \in DOMAIN s : Counted(s[i], tags, v)
<1> DEFINE A == {i \in DOMAIN s : Counted(s[i], tags, v)}
<1>1. Count(s, tags, v) = Cardinality(A)
  BY DEF Count, Counted
<1>2. CASE A = {}
  <2> HIDE DEF A
  <2>1. Cardinality(A) = 0
    BY <1>2, FS_EmptySet
  <2>2. QED
    BY <1>1, <2>1
<1>3. CASE A # {}
  <2>1. PICK i : i \in A
    BY <1>3
  <2>2. A = {i}
    BY <2>1
  <2> HIDE DEF A
  <2>3. Cardinality(A) = 1
    BY <2>2, FS_Singleton
  <2>4. QED
    BY <1>1, <2>1, <2>3 DEF A
<1>4. QED
  BY <1>2, <1>3

\* Between a worker and its handle there is at most one request, one call
\* on a pool's thread or one reply, only while the worker waits for it, and
\* it is told what it asked (remotestore.py, "one request, then its reply"):
\* for any tasks, graph and bounds, whatever becomes of the connection, the
\* store and the workers.  A reply comes after all that was written before
\* it, and a pool's thread finds the scheduler's with nothing to write for
\* its task (Wired): else two threads' messages would be one stream.
THEOREM ExchangeHolds == Spec => []OneExchange
<1>1. ASSUME TypeOK, \A c \in Chan : Sound(c)
      PROVE  OneExchange
  <2> SUFFICES ASSUME NEW c \in Chan, Alive(c)
               PROVE  LET asked   == Count(ToMain(c), {"GET_VALUE", "CALL"}, None)
                          called  == IF handle[c].call THEN 1 ELSE 0
                          replies == Count(ToWorker(c), {"REPLY"}, None)
                      IN  /\ asked + called + replies \leq (IF worker[c].pc = "asking" THEN 1 ELSE 0)
                          /\ \A m \in Range(ToWorker(c)) : m.tag = "REPLY" => m.to = worker[c].ask
    BY DEF OneExchange, Alive
  <2> DEFINE asked   == Count(ToMain(c), {"GET_VALUE", "CALL"}, None)
             replies == Count(ToWorker(c), {"REPLY"}, None)
  <2>1. Up(ToMain(c)) /\ Down(ToWorker(c)) /\ Exchanges(c)
    BY <1>1 DEF Sound, Talks
  <2>2. ToMain(c) \in Seq(Upward) /\ ToWorker(c) \in Seq(Downward)
    BY <1>1, ToMainIs, ToWorkerIs
  <2>3. asked \in {0, 1} /\ (asked = 1 => Asked(ToMain(c)))
    <3>1. \A i, j \in DOMAIN ToMain(c) : Asks(ToMain(c)[i]) /\ Asks(ToMain(c)[j]) => i = j
      BY <2>1 DEF Up
    <3>2. \A m : Counted(m, {"GET_VALUE", "CALL"}, None) <=> Asks(m)
      BY DEF Asks, Counted
    <3> DEFINE s == ToMain(c)
    <3> HIDE DEF s
    <3>3. asked \in {0, 1} /\ (asked = 1 => \E i \in DOMAIN s : Counted(s[i], {"GET_VALUE", "CALL"}, None))
      <4>1. \A i, j \in DOMAIN s : Counted(s[i], {"GET_VALUE", "CALL"}, None)
                                   /\ Counted(s[j], {"GET_VALUE", "CALL"}, None) => i = j
        BY <3>1, <3>2 DEF s
      <4>2. s \in Seq(Upward) /\ asked = Count(s, {"GET_VALUE", "CALL"}, None)
        BY <2>2 DEF s
      <4> HIDE DEF asked
      <4>3. QED
        BY <4>1, <4>2, CountIs
    <3>4. QED
      BY <3>2, <3>3 DEF Asked, s
  <2>4. replies \in {0, 1} /\ (replies = 1 => Holds(ToWorker(c), "REPLY"))
    <3> DEFINE s == ToWorker(c)
    <3>1. \A i, j \in DOMAIN s : Counted(s[i], {"REPLY"}, None) /\ Counted(s[j], {"REPLY"}, None) => i = j
      BY <2>1 DEF Down, Counted
    <3>2. s \in Seq(Downward) /\ replies = Count(s, {"REPLY"}, None)
      BY <2>2
    <3> HIDE DEF s, replies
    <3>3. replies \in {0, 1} /\ (replies = 1 => \E i \in DOMAIN s : Counted(s[i], {"REPLY"}, None))
      BY <3>1, <3>2, CountIs
    <3>4. QED
      BY <3>3 DEF Holds, Counted, s
  <2> HIDE DEF asked, replies
  <2>5. asked + (IF handle[c].call THEN 1 ELSE 0) + replies \leq (IF worker[c].pc = "asking" THEN 1 ELSE 0)
    <3>1. /\ ~(asked = 1 /\ handle[c].call) /\ ~(asked = 1 /\ replies = 1) /\ ~(handle[c].call /\ replies = 1)
          /\ asked = 1 \/ handle[c].call \/ replies = 1 => worker[c].pc = "asking"
      BY <2>1, <2>3, <2>4 DEF Exchanges
    <3>2. QED
      BY <2>3, <2>4, <3>1
  <2>6. \A m \in Range(ToWorker(c)) : m.tag = "REPLY" => m.to = worker[c].ask
    BY <2>1 DEF Exchanges
  <2>7. QED
    BY <2>5, <2>6 DEF asked, replies
<1>2. QED
  BY <1>1, SoundHolds, PTL

\* Every value named to a worker, its task's input or what a reply promises,
\* is one that it can rebuild when the name arrives (unpack in serve,
\* get_value and local_call), for any tasks, graph and bounds: what the
\* handle leaves out of a message, the worker has or has on its way.
THEOREM RebuiltHolds == Spec => []NamedIsRebuilt
<1>1. ASSUME TypeOK, \A c \in Chan : Sound(c)
      PROVE  NamedIsRebuilt
  <2> SUFFICES ASSUME NEW c \in Chan, NEW i \in DOMAIN ToWorker(c),
                      ToWorker(c)[i].tag \in {"TASK", "REPLY"}, ToWorker(c)[i].v # Nil, Alive(c)
               PROVE  Closure(ToWorker(c)[i].v) \subseteq worker[c].objects
                        \cup {ToWorker(c)[j].v : j \in {k \in 1..(i - 1) : ToWorker(c)[k].tag = "OBJECT"}}
    BY DEF NamedIsRebuilt, Alive
  <2> DEFINE s == ToWorker(c)
  <2>1. Carries(s, worker[c].objects)
    BY <1>1 DEF Sound, Talks, Crosses
  <2>2. Closure(s[i].v) \subseteq worker[c].objects \cup Before(s, i)
    BY <2>1 DEF Carries, Names
  <2>3. s[i].tag # "OBJECT" /\ i \in Int
    <3>1. s \in Seq(Downward)
      BY <1>1, ToWorkerIs
    <3>2. QED
      BY <3>1
  <2> HIDE DEF s
  <2>4. Before(s, i) \subseteq {s[j].v : j \in {k \in 1..(i - 1) : s[k].tag = "OBJECT"}}
    <3>1. ASSUME NEW k \in 1..i, s[k].tag = "OBJECT"
          PROVE  k \in 1..(i - 1)
      BY <2>3, <3>1
    <3>2. QED
      BY <3>1 DEF Before
  <2>5. QED
    BY <2>2, <2>4 DEF s
<1>2. QED
  BY <1>1, SoundHolds, PTL

\* An object crosses once between a task's handle and its worker, and to
\* the side that neither sent nor received it, whatever requests, replies
\* and @pure_local calls come between (_Handle, RemoteStore): for any tasks,
\* graph and bounds.  What each side takes the other to have is what the
\* other has, or has on its way, at the times that it answers (Crosses).
THEOREM CrossesHolds == Spec => []CrossesOnce
<1>1. ASSUME TypeOK, \A c \in Chan : Sound(c)
      PROVE  CrossesOnce
  <2> SUFFICES ASSUME NEW c \in Chan, NEW o \in Obj
               PROVE  LET there == Count(ToWorker(c), {"OBJECT"}, o)
                          back  == Count(ToMain(c), {"OBJECT"}, o)
                      IN  /\ there + back \leq 1
                          /\ there = 1 => o \notin worker[c].objects
                          /\ back = 1 /\ handle[c].result = None => o \notin handle[c].seen
    BY DEF CrossesOnce
  <2> DEFINE there == Count(ToWorker(c), {"OBJECT"}, o)
             back  == Count(ToMain(c), {"OBJECT"}, o)
  <2>1. Distinct(ToMain(c)) /\ Distinct(ToWorker(c)) /\ Crosses(c)
    BY <1>1 DEF Sound, Talks, Up, Down
  <2>2. ToMain(c) \in Seq(Upward) /\ ToWorker(c) \in Seq(Downward)
    BY <1>1, ToMainIs, ToWorkerIs
  <2>3. o # None
    BY KidsAreBelow DEF None
  <2>4. ASSUME NEW S, NEW s \in Seq(S), Distinct(s)
        PROVE  Count(s, {"OBJECT"}, o) \in {0, 1} /\ (Count(s, {"OBJECT"}, o) = 1 => o \in Brought(s))
    <3>1. \A i, j \in DOMAIN s : Counted(s[i], {"OBJECT"}, o) /\ Counted(s[j], {"OBJECT"}, o) => i = j
      BY <2>3, <2>4 DEF Distinct, Counted
    <3>2. /\ Count(s, {"OBJECT"}, o) \in {0, 1}
          /\ Count(s, {"OBJECT"}, o) = 1 => \E i \in DOMAIN s : Counted(s[i], {"OBJECT"}, o)
      BY <3>1, CountIs
    <3>3. Brought(s) = {s[i].v : i \in {j \in DOMAIN s : s[j].tag = "OBJECT"}}
      BY BroughtIs
    <3>4. QED
      BY <2>3, <3>2, <3>3 DEF Counted
  <2>5. /\ there \in {0, 1} /\ (there = 1 => o \in Brought(ToWorker(c)))
        /\ back \in {0, 1} /\ (back = 1 => o \in Brought(ToMain(c)))
    BY <2>1, <2>2, <2>4
  <2> HIDE DEF there, back
  <2>6. /\ ~(there = 1 /\ back = 1)
        /\ there = 1 => o \notin worker[c].objects
        /\ back = 1 /\ handle[c].result = None => o \notin handle[c].seen
    BY <2>1, <2>5 DEF Crosses
  <2>7. there + back \leq 1
    BY <2>5, <2>6
  <2>8. QED
    BY <2>6, <2>7 DEF there, back
<1>2. QED
  BY <1>1, SoundHolds, PTL
=============================================================================
