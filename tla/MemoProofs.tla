------------------------------ MODULE MemoProofs ------------------------------
(***************************************************************************)
(* What holds of Facts and Memo for any keys, values, functions and actors. *)
(* A value has the facts that reads of it record, and a value that has them *)
(* too answers the same reads alike: the first sections.  A call's frame is *)
(* good when everything it has observed is among what it has learned, that *)
(* holds of its argument, and on every value of which it holds the rest of *)
(* the program comes to what the function comes to.                        *)
(***************************************************************************)
EXTENDS Memo, FiniteSetTheorems, SequenceTheorems, TLAPS

\* A subtree of a value is a value.
Subtrees == \A t \in Tree : \A p \in DOMAIN t : Node(t, p) \in Tree

-----------------------------------------------------------------------------
(* Paths                                                                   *)

LEMMA PrefixIsPath ==
  ASSUME NEW p \in Seq(Key), NEW n \in 0 .. Len(p)
  PROVE  SubSeq(p, 1, n) \in Seq(Key)
  OBVIOUS

LEMMA PrefixLength ==
  ASSUME NEW p \in Seq(Key), NEW n \in 0 .. Len(p)
  PROVE  Len(SubSeq(p, 1, n)) = n
  OBVIOUS

LEMMA PrefixAndRest ==
  ASSUME NEW p \in Seq(Key), NEW n \in 0 .. Len(p)
  PROVE  SubSeq(p, 1, n) \o SubSeq(p, n + 1, Len(p)) = p
  <1>0. /\ Len(p) \in Nat /\ 1 \in 1 .. Len(p) + 1
        /\ n \in 1 - 1 .. Len(p) /\ Len(p) \in n .. Len(p)
    BY LenProperties
  <1>1. SubSeq(p, 1, n) \o SubSeq(p, n + 1, Len(p)) = SubSeq(p, 1, Len(p))
    BY <1>0, ConcatAdjacentSubSeq
  <1> QED
    BY <1>1, SubSeqFull

LEMMA PrefixOfPrefix ==
  ASSUME NEW p \in Seq(Key), NEW n \in 0 .. Len(p), NEW m \in 0 .. n
  PROVE  SubSeq(SubSeq(p, 1, n), 1, m) = SubSeq(p, 1, m)
  OBVIOUS

LEMMA Fronts ==
  ASSUME NEW p \in Seq(Key), p # << >>
  PROVE  /\ Len(p) \in Nat /\ Len(p) > 0
         /\ Front(p) = SubSeq(p, 1, Len(p) - 1)
         /\ Front(p) \in Seq(Key)
         /\ SubSeq(p, 1, Len(p)) = p
  BY DEF Front

LEMMA FrontOfPrefix ==
  ASSUME NEW p \in Seq(Key), NEW n \in 1 .. Len(p)
  PROVE  Front(SubSeq(p, 1, n)) = SubSeq(p, 1, n - 1)
  BY DEF Front

LEMMA FrontOfConcat ==
  ASSUME NEW p \in Seq(Key), NEW q \in Seq(Key), q # << >>
  PROVE  Front(p \o q) = p \o Front(q)
  BY DEF Front

-----------------------------------------------------------------------------
(* Values                                                                  *)

LEMMA Trees ==
  ASSUME NEW t \in Tree
  PROVE  /\ t = [p \in DOMAIN t |-> t[p]]
         /\ << >> \in DOMAIN t /\ DOMAIN t \subseteq Path /\ Path \subseteq Seq(Key)
         /\ t # NoTree
  BY FactsAssumption DEF NoTree

LEMMA Closed ==
  ASSUME NEW t \in Tree, NEW p \in DOMAIN t, NEW n \in 0 .. Len(p) - 1
  PROVE  SubSeq(p, 1, n) \in DOMAIN t /\ t[SubSeq(p, 1, n)] = Branch
  BY FactsAssumption

LEMMA NodeDomain ==
  ASSUME NEW t \in Tree, NEW p \in Seq(Key)
  PROVE  /\ \A q : q \in DOMAIN Node(t, p) <=> q \in Path /\ p \o q \in DOMAIN t
         /\ \A q \in DOMAIN Node(t, p) : Node(t, p)[q] = t[p \o q]
  BY DEF Node

\* What leads to something inside leads to what is around it.
LEMMA PrefixIsThere ==
  ASSUME NEW t \in Tree, NEW p \in Seq(Key), NEW q \in Seq(Key), p \o q \in DOMAIN t
  PROVE  /\ p \in DOMAIN t
         /\ q # << >> => t[p] = Branch
  <1>1. CASE q = << >>
    BY <1>1
  <1>2. CASE q # << >>
    <2>1. /\ Len(p) \in Nat /\ Len(q) \in Nat /\ Len(q) > 0
          /\ Len(p \o q) = Len(p) + Len(q)
      BY <1>2
    <2>2. Len(p) \in 0 .. Len(p \o q) - 1
      BY <2>1
    <2>3. SubSeq(p \o q, 1, Len(p)) = p
      OBVIOUS
    <2> DEFINE r == p \o q
    <2>4. r \in DOMAIN t /\ Len(p) \in 0 .. Len(r) - 1 /\ SubSeq(r, 1, Len(p)) = p
      BY <2>2, <2>3
    <2> HIDE DEF r
    <2> QED
      BY <2>4, Closed
  <1> QED
    BY <1>1, <1>2

LEMMA NodeIs ==
  ASSUME NEW t \in Tree, NEW p \in Seq(Key)
  PROVE  /\ p \in DOMAIN t => << >> \in DOMAIN Node(t, p) /\ Node(t, p)[<< >>] = t[p]
                              /\ Node(t, p) # NoTree
         /\ p \notin DOMAIN t => Node(t, p) = NoTree
         /\ IsMap(Node(t, p)) <=> p \in DOMAIN t /\ t[p] = Branch
  <1>1. p \o << >> = p /\ << >> \in Path
    BY FactsAssumption
  <1>2. ASSUME p \in DOMAIN t
        PROVE  << >> \in DOMAIN Node(t, p) /\ Node(t, p)[<< >>] = t[p]
    BY <1>1, <1>2, NodeDomain
  <1>3. p \in DOMAIN t => Node(t, p) # NoTree
    BY <1>2 DEF NoTree
  <1>4. ASSUME p \notin DOMAIN t
        PROVE  Node(t, p) = NoTree
    <2>1. \A q \in Path : p \o q \notin DOMAIN t
      BY <1>4, PrefixIsThere, FactsAssumption
    <2>2. {q \in Path : p \o q \in DOMAIN t} = {}
      BY <2>1
    <2>3. Node(t, p) = [q \in {} |-> t[p \o q]]
      BY <2>2 DEF Node
    <2> QED
      BY <2>3 DEF NoTree
  <1> QED
    BY <1>2, <1>3, <1>4 DEF IsMap

LEMMA NodeOfRoot ==
  ASSUME NEW t \in Tree
  PROVE  Node(t, << >>) = t
  <1>1. \A q \in Path : << >> \o q = q
    BY FactsAssumption
  <1>2. {q \in Path : << >> \o q \in DOMAIN t} = DOMAIN t
    BY <1>1, Trees
  <1>3. Node(t, << >>) = [q \in DOMAIN t |-> t[q]]
    BY <1>1, <1>2, Trees DEF Node
  <1> QED
    BY <1>3, Trees

LEMMA NodeOfNode ==
  ASSUME NEW t \in Tree, NEW p \in Seq(Key), NEW q \in Seq(Key)
  PROVE  Node(Node(t, p), q) = Node(t, p \o q)
  <1>1. \A r \in Path : p \o (q \o r) = (p \o q) \o r
    BY FactsAssumption
  <1>2. ASSUME NEW r \in Path
        PROVE  q \o r \in DOMAIN Node(t, p) <=> (p \o q) \o r \in DOMAIN t
    <2>1. q \o r \in DOMAIN Node(t, p) <=> q \o r \in Path /\ p \o (q \o r) \in DOMAIN t
      BY NodeDomain
    <2>2. p \o (q \o r) \in DOMAIN t => q \o r \in Path
      <3> SUFFICES ASSUME p \o (q \o r) \in DOMAIN t PROVE q \o r \in Path
        OBVIOUS
      <3>1. q \o r \in Seq(Key) /\ p \o (q \o r) \in Path
        BY Trees, FactsAssumption
      <3>2. /\ Len(p) \in 0 .. Len(p \o (q \o r))
            /\ SubSeq(p \o (q \o r), Len(p) + 1, Len(p \o (q \o r))) = q \o r
        BY <3>1
      <3> QED
        BY <3>1, <3>2, FactsAssumption
    <2> QED
      BY <1>1, <2>1, <2>2
  <1>3. {r \in Path : q \o r \in DOMAIN Node(t, p)} = {r \in Path : (p \o q) \o r \in DOMAIN t}
    BY <1>2
  <1>4. \A r \in {r \in Path : (p \o q) \o r \in DOMAIN t} :
          Node(t, p)[q \o r] = t[(p \o q) \o r]
    BY <1>1, <1>2, NodeDomain
  <1> QED
    BY <1>3, <1>4 DEF Node

-----------------------------------------------------------------------------
(* What is asked                                                           *)

\* The prefix of a path of one more key.
LEMMA AskedIs ==
  ASSUME NEW t \in Tree, NEW p \in Seq(Key)
  PROVE  \A q : q \in Asked(t, p) <=>
           \E n \in 1 .. Len(p) :
             /\ q = SubSeq(p, 1, n)
             /\ SubSeq(p, 1, n - 1) \in DOMAIN t /\ t[SubSeq(p, 1, n - 1)] = Branch
  <1>1. \A n \in 1 .. Len(p) :
          IsMap(Node(t, Front(SubSeq(p, 1, n)))) <=>
            SubSeq(p, 1, n - 1) \in DOMAIN t /\ t[SubSeq(p, 1, n - 1)] = Branch
    <2> TAKE n \in 1 .. Len(p)
    <2>1. n - 1 \in 0 .. Len(p) /\ Front(SubSeq(p, 1, n)) = SubSeq(p, 1, n - 1)
      BY FrontOfPrefix, LenProperties
    <2>2. SubSeq(p, 1, n - 1) \in Seq(Key)
      BY <2>1, PrefixIsPath
    <2> QED
      BY <2>1, <2>2, NodeIs
  <1> QED
    BY <1>1 DEF Asked

LEMMA AskedTyped ==
  ASSUME NEW t \in Tree, NEW p \in Seq(Key), NEW q \in Asked(t, p)
  PROVE  q \in Seq(Key) /\ q # << >> /\ Front(q) \in DOMAIN t /\ t[Front(q)] = Branch
  <1>1. PICK n \in 1 .. Len(p) :
          /\ q = SubSeq(p, 1, n)
          /\ SubSeq(p, 1, n - 1) \in DOMAIN t /\ t[SubSeq(p, 1, n - 1)] = Branch
    BY AskedIs
  <1>2. n \in 0 .. Len(p) /\ n > 0
    BY LenProperties
  <1>3. q \in Seq(Key) /\ Len(q) = n
    BY <1>1, <1>2, PrefixIsPath, PrefixLength
  <1>4. q # << >>
    BY <1>2, <1>3, EmptySeq
  <1> QED
    BY <1>1, <1>3, <1>4, FrontOfPrefix

\* A path into a map that leads somewhere is asked for.
LEMMA AskedIfThere ==
  ASSUME NEW t \in Tree, NEW p \in DOMAIN t, p # << >>
  PROVE  p \in Asked(t, p)
  <1>1. p \in Seq(Key)
    BY Trees
  <1>2. Len(p) \in 1 .. Len(p) /\ Len(p) - 1 \in 0 .. Len(p) - 1 /\ SubSeq(p, 1, Len(p)) = p
    BY <1>1, Fronts
  <1>3. SubSeq(p, 1, Len(p) - 1) \in DOMAIN t /\ t[SubSeq(p, 1, Len(p) - 1)] = Branch
    BY <1>2, Closed
  <1> QED
    BY <1>1, <1>2, <1>3, AskedIs

\* What is asked on the way to a prefix is asked on the way.
LEMMA AskedBefore ==
  ASSUME NEW t \in Tree, NEW p \in Seq(Key), NEW n \in 0 .. Len(p)
  PROVE  Asked(t, SubSeq(p, 1, n)) \subseteq Asked(t, p)
  <1> DEFINE s == SubSeq(p, 1, n)
  <1>0. n \in Nat /\ Len(p) \in Nat /\ n <= Len(p)
    BY LenProperties
  <1>1. s \in Seq(Key) /\ Len(s) = n
    BY PrefixIsPath, PrefixLength
  <1>4. \A m \in 0 .. n : SubSeq(s, 1, m) = SubSeq(p, 1, m)
    BY PrefixOfPrefix
  <1> HIDE DEF s
  <1> SUFFICES ASSUME NEW q \in Asked(t, s) PROVE q \in Asked(t, p)
    BY DEF s
  <1>2. PICK m \in 1 .. n :
          /\ q = SubSeq(s, 1, m)
          /\ SubSeq(s, 1, m - 1) \in DOMAIN t /\ t[SubSeq(s, 1, m - 1)] = Branch
    BY <1>1, AskedIs
  <1>3. m \in 0 .. n /\ m - 1 \in 0 .. n /\ m \in 1 .. Len(p)
    BY <1>0
  <1> QED
    BY <1>2, <1>3, <1>4, AskedIs

\* Where a path leaves a value: the prefixes that lead somewhere are not
\* closed under one key more.  (Else n |-> n + 1 would be one-to-one from a
\* finite set to it without 0.)
LEMMA LastThere ==
  ASSUME NEW L \in Nat, NEW N \in SUBSET (0 .. L), 0 \in N, L \notin N
  PROVE  \E n \in N : n + 1 \in 0 .. L /\ n + 1 \notin N
  <1> SUFFICES ASSUME \A n \in N : n + 1 \in 0 .. L => n + 1 \in N
               PROVE  FALSE
    OBVIOUS
  <1> DEFINE f == [n \in N |-> n + 1]
  <1>1. \A n \in N : n \in Nat /\ n < L /\ n + 1 \in N \ {0}
    OBVIOUS
  <1>2. f \in Injection(N, N \ {0})
    BY <1>1 DEF Injection, IsInjective
  <1>a. IsFiniteSet(0 .. L)
    BY FS_Interval
  <1>3. IsFiniteSet(N)
    BY <1>a, FS_Subset
  <1>4. IsFiniteSet(N \ {0}) /\ Cardinality(N \ {0}) = Cardinality(N) - 1
        /\ Cardinality(N) \in Nat
    BY <1>3, FS_RemoveElement, FS_CardinalityType
  <1>5. Cardinality(N) <= Cardinality(N \ {0})
    BY <1>2, <1>4, FS_Injection
  <1> QED
    BY <1>4, <1>5

-----------------------------------------------------------------------------
(* Facts about a value, in terms of what is there                          *)

LEMMA FactFields ==
  ASSUME NEW p, NEW dep, NEW what
  PROVE  Fact(p, dep, what).path = p /\ Fact(p, dep, what).dep = dep
         /\ Fact(p, dep, what).what = what
  BY DEF Fact

LEMMA HoldsCases ==
  ASSUME NEW t, NEW f
  PROVE  /\ f.dep = "present" => (HoldsOf(f, t) <=> Node(t, f.path) # NoTree)
         /\ f.dep = "absent" =>
              (HoldsOf(f, t) <=> Node(t, f.path) = NoTree /\ IsMap(Node(t, Front(f.path))))
         /\ f.dep = "value" =>
              (HoldsOf(f, t) <=> Node(t, f.path) = f.what /\ ~ IsMap(Node(t, f.path)))
         /\ f.dep = "whole" =>
              (HoldsOf(f, t) <=> Node(t, f.path) = f.what /\ IsMap(Node(t, f.path)))
         /\ f.dep = "map" => (HoldsOf(f, t) <=> IsMap(Node(t, f.path)))
  BY DEF HoldsOf

LEMMA HoldsIs ==
  ASSUME NEW t \in Tree, NEW p \in Seq(Key), NEW w
  PROVE  /\ HoldsOf(Fact(p, "present", w), t) <=> p \in DOMAIN t
         /\ HoldsOf(Fact(p, "value", w), t) <=> Node(t, p) = w /\ ~ IsMap(w)
         /\ HoldsOf(Fact(p, "whole", w), t) <=> Node(t, p) = w /\ IsMap(w)
         /\ HoldsOf(Fact(p, "map", w), t) <=> p \in DOMAIN t /\ t[p] = Branch
         /\ p # << >> => (HoldsOf(Fact(p, "absent", w), t) <=>
              p \notin DOMAIN t /\ Front(p) \in DOMAIN t /\ t[Front(p)] = Branch)
  <1>1. HoldsOf(Fact(p, "present", w), t) <=> p \in DOMAIN t
    <2> DEFINE f == Fact(p, "present", w)
    <2>1. f.path = p /\ f.dep = "present"
      BY FactFields
    <2> HIDE DEF f
    <2>2. HoldsOf(f, t) <=> p \in DOMAIN t
      BY <2>1, HoldsCases, NodeIs
    <2> QED
      BY <2>2 DEF f
  <1>2. HoldsOf(Fact(p, "value", w), t) <=> Node(t, p) = w /\ ~ IsMap(w)
    <2> DEFINE f == Fact(p, "value", w)
    <2>1. f.path = p /\ f.dep = "value" /\ f.what = w
      BY FactFields
    <2> HIDE DEF f
    <2>2. HoldsOf(f, t) <=> Node(t, p) = w /\ ~ IsMap(w)
      BY <2>1, HoldsCases
    <2> QED
      BY <2>2 DEF f
  <1>3. HoldsOf(Fact(p, "whole", w), t) <=> Node(t, p) = w /\ IsMap(w)
    <2> DEFINE f == Fact(p, "whole", w)
    <2>1. f.path = p /\ f.dep = "whole" /\ f.what = w
      BY FactFields
    <2> HIDE DEF f
    <2>2. HoldsOf(f, t) <=> Node(t, p) = w /\ IsMap(w)
      BY <2>1, HoldsCases
    <2> QED
      BY <2>2 DEF f
  <1>4. HoldsOf(Fact(p, "map", w), t) <=> p \in DOMAIN t /\ t[p] = Branch
    <2> DEFINE f == Fact(p, "map", w)
    <2>1. f.path = p /\ f.dep = "map"
      BY FactFields
    <2> HIDE DEF f
    <2>2. HoldsOf(f, t) <=> p \in DOMAIN t /\ t[p] = Branch
      BY <2>1, HoldsCases, NodeIs
    <2> QED
      BY <2>2 DEF f
  <1>5. ASSUME p # << >>
        PROVE  HoldsOf(Fact(p, "absent", w), t) <=>
                 p \notin DOMAIN t /\ Front(p) \in DOMAIN t /\ t[Front(p)] = Branch
    <2>1. Front(p) \in Seq(Key)
      BY <1>5, Fronts
    <2> DEFINE f == Fact(p, "absent", w)
    <2>2. f.path = p /\ f.dep = "absent"
      BY FactFields
    <2> HIDE DEF f
    <2>3. HoldsOf(f, t) <=> Node(t, p) = NoTree /\ IsMap(Node(t, Front(p)))
      BY <2>2, HoldsCases
    <2>4. HoldsOf(f, t) <=>
            p \notin DOMAIN t /\ Front(p) \in DOMAIN t /\ t[Front(p)] = Branch
      BY <2>1, <2>3, NodeIs
    <2> QED
      BY <2>4 DEF f
  <1> QED
    BY <1>1, <1>2, <1>3, <1>4, <1>5

LEMMA LeafNode ==
  ASSUME NEW t \in Tree, NEW p \in Seq(Key), ~ IsMap(t)
  PROVE  t[<< >>] # Branch /\ (p \in DOMAIN t => p = << >>)
  <1>1. t[<< >>] # Branch
    BY Trees DEF IsMap
  <1>2. ASSUME p \in DOMAIN t, p # << >>
        PROVE  FALSE
    <2>1. 0 \in 0 .. Len(p) - 1 /\ SubSeq(p, 1, 0) = << >>
      BY <1>2, Fronts, SubSeqEmpty
    <2> QED
      BY <1>1, <1>2, <2>1, Closed
  <1> QED
    BY <1>1, <1>2

-----------------------------------------------------------------------------
(* A read's facts hold of what was read                                    *)

LEMMA PresenceHolds ==
  ASSUME NEW t \in Tree, NEW p \in Seq(Key), NEW q \in Asked(t, p)
  PROVE  HoldsOf(Presence(t, q), t)
  <1>1. q \in Seq(Key) /\ q # << >> /\ Front(q) \in DOMAIN t /\ t[Front(q)] = Branch
    BY AskedTyped
  <1>2. CASE q \in DOMAIN t
    <2>1. Presence(t, q) = Fact(q, "present", NoTree)
      BY <1>1, <1>2, NodeIs DEF Presence
    <2> QED
      BY <1>1, <1>2, <2>1, HoldsIs
  <1>3. CASE q \notin DOMAIN t
    <2>1. Presence(t, q) = Fact(q, "absent", NoTree)
      BY <1>1, <1>3, NodeIs DEF Presence
    <2> QED
      BY <1>1, <1>3, <2>1, HoldsIs
  <1> QED
    BY <1>2, <1>3

LEMMA ItemHolds ==
  ASSUME NEW t \in Tree, NEW p \in Seq(Key), NEW q \in Asked(t, p), NEW f \in Item(t, q)
  PROVE  HoldsOf(f, t)
  <1>1. q \in Seq(Key) /\ q # << >>
    BY AskedTyped
  <1>2. CASE Node(t, q) = NoTree
    BY <1>2, PresenceHolds DEF Item
  <1>3. CASE Node(t, q) # NoTree
    <2>1. f = Fact(q, "value", Node(t, q)) /\ ~ IsMap(Node(t, q))
      BY <1>3 DEF Item
    <2> QED
      BY <1>1, <2>1, HoldsIs
  <1> QED
    BY <1>2, <1>3

LEMMA GetHolds ==
  ASSUME NEW t \in Tree, NEW p \in Seq(Key)
  PROVE  AllHold(Get(t, p), t)
  BY ItemHolds DEF AllHold, Get

LEMMA HasKeyHolds ==
  ASSUME NEW t \in Tree, NEW p \in Seq(Key)
  PROVE  AllHold(HasKey(t, p), t)
  <1>1. Front(p) \in Seq(Key)
    <2>1. CASE p = << >>
      <3>1. Len(p) = 0
        BY <2>1, EmptySeq
      <3>2. Front(p) = << >>
        BY <3>1, SubSeqEmpty DEF Front
      <3> QED
        BY <3>2
    <2> QED
      BY <2>1, Fronts
  <1>2. AllHold(Get(t, Front(p)), t)
    BY <1>1, GetHolds
  <1>3. \A q \in Asked(t, p) \cap {p} : HoldsOf(Presence(t, q), t)
    BY PresenceHolds
  <1> QED
    BY <1>2, <1>3 DEF AllHold, HasKey

LEMMA WholeHolds ==
  ASSUME NEW t \in Tree, NEW p \in Seq(Key)
  PROVE  AllHold(Whole(t, p), t)
  BY GetHolds, HoldsIs DEF AllHold, Whole

LEMMA NavigateHolds ==
  ASSUME NEW t \in Tree, NEW p \in Seq(Key)
  PROVE  AllHold(Navigate(t, p), t)
  BY GetHolds, PresenceHolds DEF AllHold, Navigate

LEMMA TriedHolds ==
  ASSUME NEW t \in Tree, NEW F \in SUBSET AnyFact
  PROVE  AllHold(Tried(F, t), t)
  <1>1. ASSUME NEW f \in AnyFact
        PROVE  AllHold(Matching(f, t), t)
    <2>1. f.path \in Seq(Key)
      BY DEF AnyFact
    <2>2. CASE f.dep = "absent"
      <3>1. Front(f.path) \in Seq(Key)
        <4>1. CASE f.path = << >>
          <5>1. Len(f.path) = 0
            BY <4>1, EmptySeq
          <5>2. Front(f.path) = << >>
            BY <5>1, SubSeqEmpty DEF Front
          <5> QED
            BY <5>2
        <4> QED
          BY <2>1, <4>1, Fronts
      <3>2. AllHold(Navigate(t, Front(f.path)), t)
        BY <3>1, NavigateHolds
      <3>3. \A q \in Asked(t, f.path) \cap {f.path} : HoldsOf(Presence(t, q), t)
        BY <2>1, PresenceHolds
      <3> QED
        BY <2>2, <3>2, <3>3 DEF AllHold, Matching
    <2>3. CASE f.dep # "absent"
      BY <2>1, <2>3, NavigateHolds DEF Matching
    <2> QED
      BY <2>2, <2>3
  <1>2. \A x \in Tried(F, t) : \E f \in F : x \in Matching(f, t)
    BY DEF Tried
  <1> QED
    BY <1>1, <1>2 DEF AllHold

-----------------------------------------------------------------------------
(* Values of which the facts of a read hold answer the read alike          *)

\* A leaf that was read is there, the same.
LEMMA LeafIsSame ==
  ASSUME NEW t \in Tree, NEW u \in Tree, NEW p \in Seq(Key),
         IsMap(t), AllHold(Get(t, p), u), p \in DOMAIN t, t[p] # Branch
  PROVE  Node(u, p) = Node(t, p)
  <1>1. p # << >>
    BY DEF IsMap
  <1>2. p \in Asked(t, p)
    BY <1>1, AskedIfThere
  <1>3. Node(t, p) # NoTree /\ ~ IsMap(Node(t, p))
    BY NodeIs
  <1>4. Fact(p, "value", Node(t, p)) \in Get(t, p)
    BY <1>2, <1>3 DEF Get, Item
  <1> QED
    BY <1>4, HoldsIs DEF AllHold

\* What was not found is not there.
LEMMA NothingIsSame ==
  ASSUME NEW t \in Tree, NEW u \in Tree, NEW p \in Seq(Key),
         IsMap(t), AllHold(Get(t, p), u), p \notin DOMAIN t
  PROVE  p \notin DOMAIN u
  <1> DEFINE N == {n \in 0 .. Len(p) : SubSeq(p, 1, n) \in DOMAIN t}
  <1>1. Len(p) \in Nat /\ SubSeq(p, 1, Len(p)) = p /\ SubSeq(p, 1, 0) = << >>
    BY LenProperties, SubSeqFull, SubSeqEmpty
  <1>0. /\ 0 \in 0 .. Len(p) /\ Len(p) \in 0 .. Len(p)
        /\ << >> \in DOMAIN t
    BY <1>1, Trees
  <1>2. 0 \in N /\ Len(p) \notin N /\ N \in SUBSET (0 .. Len(p))
    BY <1>0, <1>1
  <1> HIDE DEF N
  <1>3. PICK n \in N : n + 1 \in 0 .. Len(p) /\ n + 1 \notin N
    BY <1>1, <1>2, LastThere
  <1> DEFINE s == SubSeq(p, 1, n)
             q == SubSeq(p, 1, n + 1)
  <1>4. /\ n \in 0 .. Len(p) /\ n \in Nat /\ n + 1 \in 1 .. Len(p) /\ (n + 1) - 1 = n
        /\ s \in DOMAIN t /\ q \notin DOMAIN t
    BY <1>1, <1>3 DEF N
  <1>5. s \in Seq(Key) /\ q \in Seq(Key)
    BY <1>4, PrefixIsPath
  <1>6. CASE t[s] = Branch
    <2>1. q \in Asked(t, p)
      BY <1>4, <1>6, AskedIs
    <2>2. q # << >>
      BY <2>1, AskedTyped
    <2>3. Node(t, q) = NoTree
      BY <1>4, <1>5, NodeIs
    <2>4. Fact(q, "absent", NoTree) \in Get(t, p)
      BY <2>1, <2>3 DEF Get, Item, Presence
    <2>5. q \notin DOMAIN u
      BY <1>5, <2>2, <2>4, HoldsIs DEF AllHold
    <2>6. ASSUME p \in DOMAIN u
          PROVE  FALSE
      <3>1. CASE n + 1 = Len(p)
        BY <1>1, <2>5, <2>6, <3>1
      <3>2. CASE n + 1 # Len(p)
        <4> HIDE DEF s, q
        <4>1. n + 1 \in 0 .. Len(p) - 1
          <5>1. n \in Nat /\ n + 1 <= Len(p) /\ Len(p) \in Nat
            BY <1>1, <1>4
          <5> QED
            BY <5>1, <3>2
        <4> QED
          BY <2>5, <2>6, <4>1, Closed DEF q
      <3> QED
        BY <3>1, <3>2
    <2> QED
      BY <2>6
  <1>7. CASE t[s] # Branch
    <2>1. AllHold(Get(t, s), u)
      BY <1>4, AskedBefore DEF AllHold, Get
    <2>2. Node(u, s) = Node(t, s)
      BY <1>4, <1>5, <1>7, <2>1, LeafIsSame
    <2>3. SubSeq(p, n + 1, Len(p)) \in Seq(Key)
      BY <1>1, <1>4
    <2>4. s \o SubSeq(p, n + 1, Len(p)) = p
      BY <1>4, PrefixAndRest
    <2> DEFINE r == SubSeq(p, n + 1, Len(p))
    <2> HIDE DEF r, s
    <2>5. r \in Seq(Key) /\ s \o r = p
      BY <2>3, <2>4 DEF r
    <2>6. Node(Node(u, s), r) = Node(u, p) /\ Node(Node(t, s), r) = Node(t, p)
      <3>1. Node(Node(u, s), r) = Node(u, s \o r)
        BY <1>5, <2>5, NodeOfNode
      <3>2. Node(Node(t, s), r) = Node(t, s \o r)
        BY <1>5, <2>5, NodeOfNode
      <3> QED
        BY <3>1, <3>2, <2>5
    <2>7. Node(u, p) = Node(t, p)
      BY <2>2, <2>6
    <2> QED
      BY <2>7, NodeIs
  <1> QED
    BY <1>6, <1>7

\* Whether something is at p was asked, and is so.
LEMMA KeyIsSame ==
  ASSUME NEW t \in Tree, NEW u \in Tree, NEW p \in Seq(Key),
         IsMap(t), AllHold(HasKey(t, p), u)
  PROVE  p \in DOMAIN t <=> p \in DOMAIN u
  <1>1. CASE p = << >>
    BY <1>1, Trees
  <1>2. CASE p # << >>
    <2>1. /\ Len(p) \in Nat /\ Len(p) > 0 /\ Front(p) = SubSeq(p, 1, Len(p) - 1)
          /\ Front(p) \in Seq(Key) /\ SubSeq(p, 1, Len(p)) = p
      BY <1>2, Fronts
    <2>2. AllHold(Get(t, Front(p)), u)
      BY DEF AllHold, HasKey
    <2>3. \A v \in Tree : p \in DOMAIN v => Front(p) \in DOMAIN v /\ v[Front(p)] = Branch
      <3>1. Len(p) - 1 \in 0 .. Len(p) - 1
        BY <2>1
      <3> QED
        BY <2>1, <3>1, Closed
    <2>4. CASE Front(p) \notin DOMAIN t
      BY <2>1, <2>2, <2>3, <2>4, NothingIsSame
    <2>5. CASE Front(p) \in DOMAIN t /\ t[Front(p)] # Branch
      <3>1. Node(u, Front(p)) = Node(t, Front(p))
        BY <2>1, <2>2, <2>5, LeafIsSame
      <3>2. ~ (Front(p) \in DOMAIN u /\ u[Front(p)] = Branch)
        BY <2>1, <2>5, <3>1, NodeIs
      <3> QED
        BY <2>3, <2>5, <3>2
    <2>6. CASE Front(p) \in DOMAIN t /\ t[Front(p)] = Branch
      <3>1. Len(p) \in 1 .. Len(p)
        BY <2>1
      <3>2. p \in Asked(t, p)
        BY <2>1, <2>6, <3>1, AskedIs
      <3>3. HoldsOf(Presence(t, p), u)
        BY <3>2 DEF AllHold, HasKey
      <3>4. CASE p \in DOMAIN t
        <4>1. Presence(t, p) = Fact(p, "present", NoTree)
          BY <3>4, NodeIs DEF Presence
        <4> QED
          BY <3>3, <3>4, <4>1, HoldsIs
      <3>5. CASE p \notin DOMAIN t
        <4>1. Presence(t, p) = Fact(p, "absent", NoTree)
          BY <3>5, NodeIs DEF Presence
        <4> QED
          BY <1>2, <3>3, <3>5, <4>1, HoldsIs
      <3> QED
        BY <3>4, <3>5
    <2> QED
      BY <2>4, <2>5, <2>6
  <1> QED
    BY <1>1, <1>2

\* All of what is at p was read, and is the same.
LEMMA WholeIsSame ==
  ASSUME NEW t \in Tree, NEW u \in Tree, NEW p \in Seq(Key),
         IsMap(t), AllHold(Whole(t, p), u)
  PROVE  Node(u, p) = Node(t, p)
  <1>1. AllHold(Get(t, p), u)
    BY DEF AllHold, Whole
  <1>2. CASE p \notin DOMAIN t
    BY <1>1, <1>2, NothingIsSame, NodeIs
  <1>3. CASE p \in DOMAIN t /\ t[p] # Branch
    BY <1>1, <1>3, LeafIsSame
  <1>4. CASE p \in DOMAIN t /\ t[p] = Branch
    <2>1. IsMap(Node(t, p))
      BY <1>4, NodeIs
    <2>2. Fact(p, "whole", Node(t, p)) \in Whole(t, p)
      BY <2>1 DEF Whole
    <2> QED
      BY <2>2, HoldsIs DEF AllHold
  <1> QED
    BY <1>2, <1>3, <1>4

\* A leaf's one fact is the leaf.
LEMMA ValueIsSame ==
  ASSUME NEW t, NEW u \in Tree, HoldsOf(Fact(<< >>, "value", t), u)
  PROVE  u = t
  <1>1. << >> \in Seq(Key)
    OBVIOUS
  <1>2. Node(u, << >>) = t
    BY <1>1, HoldsIs
  <1> QED
    BY <1>2, NodeOfRoot

-----------------------------------------------------------------------------
(* What reads give are facts                                               *)

LEMMA FrontTyped ==
  ASSUME NEW p \in Seq(Key)
  PROVE  Front(p) \in Seq(Key)
  <1>1. CASE p = << >>
    <2>1. Len(p) = 0
      BY <1>1, EmptySeq
    <2>2. Front(p) = << >>
      BY <2>1, SubSeqEmpty DEF Front
    <2> QED
      BY <2>2
  <1> QED
    BY <1>1, Fronts

LEMMA NodeTyped ==
  ASSUME NEW t \in Tree, NEW p \in Seq(Key)
  PROVE  Node(t, p) \in Tree \cup {NoTree}
  BY PartsAssumption, NodeIs

LEMMA FactTyped ==
  ASSUME NEW p \in Seq(Key), NEW dep \in Dep, NEW w \in Tree \cup {NoTree}
  PROVE  Fact(p, dep, w) \in AnyFact
  BY DEF Fact, AnyFact

LEMMA PresenceTyped ==
  ASSUME NEW t \in Tree, NEW p \in Seq(Key), NEW q \in Asked(t, p)
  PROVE  Presence(t, q) \in AnyFact
  <1>1. q \in Seq(Key)
    BY AskedTyped
  <1> QED
    BY <1>1, FactTyped DEF Presence, Dep

LEMMA GetTyped ==
  ASSUME NEW t \in Tree, NEW p \in Seq(Key)
  PROVE  Get(t, p) \subseteq AnyFact
  <1>1. ASSUME NEW q \in Asked(t, p)
        PROVE  Item(t, q) \subseteq AnyFact
    <2>1. q \in Seq(Key)
      BY AskedTyped
    <2>2. Fact(q, "value", Node(t, q)) \in AnyFact
      BY <2>1, FactTyped, NodeTyped DEF Dep
    <2> QED
      BY <2>2, PresenceTyped DEF Item
  <1> QED
    BY <1>1 DEF Get

LEMMA HasKeyTyped ==
  ASSUME NEW t \in Tree, NEW p \in Seq(Key)
  PROVE  HasKey(t, p) \subseteq AnyFact
  BY FrontTyped, GetTyped, PresenceTyped DEF HasKey

LEMMA WholeTyped ==
  ASSUME NEW t \in Tree, NEW p \in Seq(Key)
  PROVE  Whole(t, p) \subseteq AnyFact
  <1>1. Fact(p, "whole", Node(t, p)) \in AnyFact
    BY FactTyped, NodeTyped DEF Dep
  <1> QED
    BY <1>1, GetTyped DEF Whole

LEMMA NavigateTyped ==
  ASSUME NEW t \in Tree, NEW p \in Seq(Key)
  PROVE  Navigate(t, p) \subseteq AnyFact
  BY GetTyped, PresenceTyped DEF Navigate

LEMMA TriedTyped ==
  ASSUME NEW t \in Tree, NEW F \in SUBSET AnyFact
  PROVE  Tried(F, t) \subseteq AnyFact
  <1>1. ASSUME NEW f \in AnyFact
        PROVE  Matching(f, t) \subseteq AnyFact
    <2>1. f.path \in Seq(Key) /\ Front(f.path) \in Seq(Key)
      BY FrontTyped DEF AnyFact
    <2>2. Navigate(t, f.path) \subseteq AnyFact /\ Navigate(t, Front(f.path)) \subseteq AnyFact
      BY <2>1, NavigateTyped
    <2>3. {Presence(t, q) : q \in Asked(t, f.path) \cap {f.path}} \subseteq AnyFact
      BY <2>1, PresenceTyped
    <2> QED
      BY <2>2, <2>3 DEF Matching
  <1>2. \A x \in Tried(F, t) : \E f \in F : x \in Matching(f, t)
    BY DEF Tried
  <1> QED
    BY <1>1, <1>2

-----------------------------------------------------------------------------
(* The recorder                                                            *)

\* What a watcher's recorder keeps was in it or is new.
LEMMA PutKeepsNoOther ==
  ASSUME NEW F, NEW G
  PROVE  Put(F, G) \subseteq F \cup G
  BY DEF Put

LEMMA FinalizeKeepsNoOther ==
  ASSUME NEW F
  PROVE  Finalize(F) \subseteq F
  BY DEF Finalize

LEMMA AtTyped ==
  ASSUME NEW p \in Seq(Key), NEW F \in SUBSET AnyFact
  PROVE  At(p, F) \subseteq AnyFact
  <1>1. ASSUME NEW f \in F
        PROVE  Fact(p \o f.path, f.dep, f.what) \in AnyFact
    <2>1. f.path \in Seq(Key) /\ f.dep \in Dep /\ f.what \in Tree \cup {NoTree}
      BY DEF AnyFact
    <2>2. p \o f.path \in Seq(Key)
      BY <2>1
    <2> QED
      BY <2>1, <2>2, FactTyped
  <1> QED
    BY <1>1 DEF At

\* A fact of a part of a value holds of the part where the fact that a watcher
\* of the value has of it holds of the value.
LEMMA FactAtHolds ==
  ASSUME NEW t \in Tree, NEW p \in DOMAIN t, NEW f \in AnyFact
  PROVE  HoldsOf(Fact(p \o f.path, f.dep, f.what), t) <=> HoldsOf(f, Node(t, p))
  <1> DEFINE g == Fact(p \o f.path, f.dep, f.what)
             q == f.path
  <1>0. p \in Seq(Key) /\ q \in Seq(Key) /\ f.dep \in Dep
    BY Trees DEF AnyFact
  <1>1. g.path = p \o q /\ g.dep = f.dep /\ g.what = f.what
    BY DEF Fact
  <1>3. Node(Node(t, p), q) = Node(t, p \o q)
    BY <1>0, NodeOfNode
  <1>7. g.path \in Seq(Key)
    BY <1>0, <1>1
  <1> HIDE DEF g, q
  <1> SUFFICES HoldsOf(g, t) <=> HoldsOf(f, Node(t, p))
    BY DEF g
  <1>4. CASE f.dep # "absent"
    <2>1. f.dep \in {"present", "value", "whole", "map"}
      BY <1>0, <1>4 DEF Dep
    <2>2. Node(t, g.path) = Node(Node(t, p), f.path)
      BY <1>1, <1>3 DEF q
    <2>3. CASE f.dep = "present"
      <3>1. HoldsOf(g, t) <=> Node(t, g.path) # NoTree
        BY <1>1, <2>3, HoldsCases
      <3>2. HoldsOf(f, Node(t, p)) <=> Node(Node(t, p), f.path) # NoTree
        BY <2>3, HoldsCases
      <3> QED
        BY <2>2, <3>1, <3>2
    <2>4. CASE f.dep = "value"
      <3>1. HoldsOf(g, t) <=> Node(t, g.path) = g.what /\ ~ IsMap(Node(t, g.path))
        BY <1>1, <2>4, HoldsCases
      <3>2. HoldsOf(f, Node(t, p)) <=>
              Node(Node(t, p), f.path) = f.what /\ ~ IsMap(Node(Node(t, p), f.path))
        BY <2>4, HoldsCases
      <3> QED
        BY <1>1, <2>2, <3>1, <3>2
    <2>5. CASE f.dep = "whole"
      BY <1>1, <2>2, <2>5, HoldsCases
    <2>6. CASE f.dep = "map"
      BY <1>1, <2>2, <2>6, HoldsCases
    <2> QED
      BY <2>1, <2>3, <2>4, <2>5, <2>6
  <1>5. CASE f.dep = "absent" /\ q # << >>
    <2>1. Front(p \o q) = p \o Front(q) /\ Front(q) \in Seq(Key)
      BY <1>0, <1>5, FrontOfConcat, FrontTyped
    <2>2. Node(Node(t, p), Front(q)) = Node(t, Front(p \o q))
      BY <1>0, <2>1, NodeOfNode
    <2>3. Node(t, g.path) = Node(Node(t, p), f.path)
      BY <1>1, <1>3 DEF q
    <2>4. Node(t, Front(g.path)) = Node(Node(t, p), Front(f.path))
      BY <1>1, <2>2 DEF q
    <2> QED
      BY <1>1, <1>5, <2>3, <2>4, HoldsCases
  <1>6. CASE f.dep = "absent" /\ q = << >>
    <2>1. p \o q = p
      BY <1>0, <1>6
    <2>2. Node(t, p \o q) # NoTree
      BY <1>0, <2>1, NodeIs
    <2>3. ~ HoldsOf(g, t)
      BY <1>1, <1>6, <2>2, HoldsCases
    <2>4. Node(Node(t, p), f.path) # NoTree
      BY <1>3, <2>2 DEF q
    <2> QED
      BY <1>6, <2>3, <2>4, HoldsCases
  <1> QED
    BY <1>4, <1>5, <1>6

LEMMA AtHolds ==
  ASSUME NEW t \in Tree, NEW p \in DOMAIN t, NEW F \in SUBSET AnyFact
  PROVE  AllHold(At(p, F), t) <=> AllHold(F, Node(t, p))
  BY FactAtHolds DEF AllHold, At

-----------------------------------------------------------------------------
(* The invariant                                                           *)

\* The values a call could not tell from its argument so far.
Like(fr, t) == (IsMap(t) <=> IsMap(fr.arg)) /\ AllHold(fr.knows, t)

\* On all of them it is where it would be.
Steady(fr) == \A t \in Tree : Like(fr, t) => Means[fr.loc][t] = Value(fr.fn, t)

Good(fr) ==
  /\ fr.facts \subseteq fr.knows
  /\ AllHold(fr.knows, fr.arg)
  /\ ~ IsMap(fr.arg) => Fact(<< >>, "value", fr.arg) \in fr.knows
  /\ fr.forced => fr.discard
  /\ ~ fr.blind /\ ~ fr.discard => Steady(fr)

\* The frame in is of the call that the frame out is at.
Linked(out, in) ==
  /\ in.discard => out.discard
  /\ Does[out.loc].op = "call"
  /\ Does[out.loc].fn = in.fn
  /\ Does[out.loc].path = in.from
  /\ in.from \in DOMAIN out.arg /\ Node(out.arg, in.from) = in.arg
  /\ Get(out.arg, in.from) \subseteq out.knows
  /\ IsMap(in.arg) => Fact(in.from, "map", NoTree) \in out.knows

Stacked(s) ==
  /\ s \in Seq(Frame)
  /\ \A n \in 1 .. Len(s) : Good(s[n])
  /\ \A n \in 1 .. Len(s) - 1 : Linked(s[n], s[n + 1])

IInv ==
  /\ TypeOK
  /\ \A a \in Actor : Stacked(stack[a])
  /\ RecordsAreSound

-----------------------------------------------------------------------------
(* Programs                                                                *)

LEMMA Instructions ==
  ASSUME NEW l \in Loc
  PROVE  /\ Does[l].op \in Op /\ Does[l].path \in Path /\ Does[l].path \in Seq(Key)
         /\ Does[l].fn \in Fn /\ Does[l].value \in Result
  BY Purity, FactsAssumption

\* A read or a call decides where the program goes.
LEMMA Goes ==
  ASSUME NEW l \in Loc, NEW t \in Tree, Does[l].op \notin {"return", "raise"}
  PROVE  /\ Then(l, Reply(l, t)) \in Loc
         /\ Means[l][t] = Means[Then(l, Reply(l, t))][t]
  BY Purity

LEMMA CallGoes ==
  ASSUME NEW l \in Loc, Does[l].op = "call", NEW v \in Result \cup {Raised, Missing}
  PROVE  Then(l, v) \in Loc
  BY Purity

LEMMA Comes ==
  ASSUME NEW l \in Loc, NEW t \in Tree
  PROVE  /\ Does[l].op = "return" => Means[l][t] = Does[l].value
         /\ Does[l].op = "raise" => Means[l][t] = Raised
  BY Purity

LEMMA RepliesAre ==
  ASSUME NEW l \in Loc, NEW t \in Tree, NEW p, p = Does[l].path, p \in Seq(Key)
  PROVE  /\ p \notin DOMAIN t => Reply(l, t) = Missing
         /\ p \in DOMAIN t /\ Does[l].op = "contains" => Reply(l, t) = Branch
         /\ p \in DOMAIN t /\ Does[l].op = "whole" => Reply(l, t) = Node(t, p)
         /\ p \in DOMAIN t /\ Does[l].op = "get" => Reply(l, t) = t[p]
         /\ p \in DOMAIN t /\ Does[l].op = "call" =>
              Reply(l, t) = Value(Does[l].fn, Node(t, p))
  BY NodeIs DEF Reply, Value

-----------------------------------------------------------------------------
(* What was read decides the reply                                         *)

\* A path that was read leads to the same in u as in t, as far as it was
\* looked at: nothing, or the same leaf.
LEMMA ReadIsSame ==
  ASSUME NEW t \in Tree, NEW u \in Tree, NEW p \in Seq(Key), NEW K,
         IsMap(t) <=> IsMap(u),
         ~ IsMap(t) => Fact(<< >>, "value", t) \in K,
         Get(t, p) \subseteq K, AllHold(K, u)
  PROVE  /\ p \notin DOMAIN t => p \notin DOMAIN u
         /\ p \in DOMAIN t /\ t[p] # Branch => Node(u, p) = Node(t, p)
  <1>1. CASE ~ IsMap(t)
    <2>1. HoldsOf(Fact(<< >>, "value", t), u)
      BY <1>1 DEF AllHold
    <2>2. u = t
      BY <2>1, ValueIsSame
    <2> QED
      BY <2>2
  <1>2. CASE IsMap(t)
    <2>1. AllHold(Get(t, p), u)
      BY DEF AllHold
    <2> QED
      BY <1>2, <2>1, NothingIsSame, LeafIsSame
  <1> QED
    BY <1>1, <1>2

\* What Read observes and learns at l of t.
Seen(l, t) ==
  LET p == Does[l].path IN
    CASE Does[l].op = "get"      -> Get(t, p)
      [] Does[l].op = "contains" -> HasKey(t, p)
      [] Does[l].op = "whole"    -> Whole(t, p)

Known(l, t) ==
  LET p == Does[l].path IN
    IF Does[l].op = "get" /\ IsMap(Node(t, p)) THEN {Fact(p, "map", NoTree)} ELSE {}

LEMMA SeenHolds ==
  ASSUME NEW l \in Loc, NEW t \in Tree, Does[l].op \in {"get", "contains", "whole"}
  PROVE  /\ Seen(l, t) \in SUBSET AnyFact /\ Known(l, t) \in SUBSET AnyFact
         /\ AllHold(Seen(l, t) \cup Known(l, t), t)
  <1> DEFINE p == Does[l].path
             m == Fact(p, "map", NoTree)
  <1>1. p \in Seq(Key)
    BY Instructions
  <1>2. m \in AnyFact
    BY <1>1, FactTyped DEF Dep
  <1>3. IsMap(Node(t, p)) => HoldsOf(m, t)
    BY <1>1, HoldsIs, NodeIs
  <1>4. Known(l, t) \subseteq {m} /\ (m \in Known(l, t) => IsMap(Node(t, p)))
    BY DEF Known
  <1>5. Seen(l, t) \in {Get(t, p), HasKey(t, p), Whole(t, p)}
    BY DEF Seen
  <1> HIDE DEF p, m
  <1>6. Seen(l, t) \in SUBSET AnyFact
    BY <1>1, <1>5, GetTyped, HasKeyTyped, WholeTyped
  <1>7. AllHold(Seen(l, t), t)
    BY <1>1, <1>5, GetHolds, HasKeyHolds, WholeHolds
  <1> QED
    BY <1>2, <1>3, <1>4, <1>6, <1>7 DEF AllHold

\* What a read observes and learns is all that decides its reply: a value of
\* which it holds gives the same one.
THEOREM ReadReplies ==
  ASSUME NEW l \in Loc, NEW t \in Tree, NEW u \in Tree, NEW K,
         Does[l].op \in {"get", "contains", "whole"},
         IsMap(t) <=> IsMap(u),
         ~ IsMap(t) => Fact(<< >>, "value", t) \in K,
         Seen(l, t) \cup Known(l, t) \subseteq K, AllHold(K, u)
  PROVE  Reply(l, u) = Reply(l, t)
  <1> DEFINE p == Does[l].path
  <1>1. p \in Seq(Key)
    BY Instructions
  <1>2. CASE ~ IsMap(t)
    <2>1. HoldsOf(Fact(<< >>, "value", t), u)
      BY <1>2 DEF AllHold
    <2>2. u = t
      BY <2>1, ValueIsSame
    <2> QED
      BY <2>2
  <1>3. CASE IsMap(t) /\ Does[l].op = "get"
    <2>1. Get(t, p) \subseteq K
      BY <1>3 DEF Seen
    <2>2. CASE p \notin DOMAIN t
      <3>1. p \notin DOMAIN u
        BY <1>1, <2>1, <2>2, ReadIsSame
      <3> QED
        BY <1>1, <2>2, <3>1, RepliesAre
    <2>3. CASE p \in DOMAIN t /\ t[p] # Branch
      <3>1. Node(u, p) = Node(t, p)
        BY <1>1, <2>1, <2>3, ReadIsSame
      <3>2. p \in DOMAIN u /\ u[p] = t[p]
        BY <1>1, <2>3, <3>1, NodeIs
      <3> QED
        BY <1>1, <1>3, <2>3, <3>2, RepliesAre
    <2>4. CASE p \in DOMAIN t /\ t[p] = Branch
      <3>1. Fact(p, "map", NoTree) \in K
        BY <1>1, <1>3, <2>4, NodeIs DEF Known
      <3>2. p \in DOMAIN u /\ u[p] = Branch
        BY <1>1, <3>1, HoldsIs DEF AllHold
      <3> QED
        BY <1>1, <1>3, <2>4, <3>2, RepliesAre
    <2> QED
      BY <2>2, <2>3, <2>4
  <1>4. CASE IsMap(t) /\ Does[l].op = "contains"
    <2>1. AllHold(HasKey(t, p), u)
      BY <1>4 DEF Seen, AllHold
    <2>2. p \in DOMAIN t <=> p \in DOMAIN u
      BY <1>1, <1>4, <2>1, KeyIsSame
    <2> QED
      BY <1>1, <1>4, <2>2, RepliesAre
  <1>5. CASE IsMap(t) /\ Does[l].op = "whole"
    <2>1. AllHold(Whole(t, p), u)
      BY <1>5 DEF Seen, AllHold
    <2>2. Node(u, p) = Node(t, p)
      BY <1>1, <1>5, <2>1, WholeIsSame
    <2>3. p \in DOMAIN t <=> p \in DOMAIN u
      BY <1>1, <2>2, NodeIs
    <2> QED
      BY <1>1, <1>5, <2>2, <2>3, RepliesAre
  <1> QED
    BY <1>2, <1>3, <1>4, <1>5

\* The argument of a call, in a value of which holds what was read to get it.
LEMMA CallReplies ==
  ASSUME NEW l \in Loc, NEW t \in Tree, NEW u \in Tree, NEW K, NEW p,
         Does[l].op = "call", p = Does[l].path, p \in DOMAIN t,
         IsMap(t) <=> IsMap(u),
         ~ IsMap(t) => Fact(<< >>, "value", t) \in K,
         Get(t, p) \subseteq K,
         IsMap(Node(t, p)) => Fact(p, "map", NoTree) \in K,
         AllHold(K, u)
  PROVE  /\ p \in DOMAIN u /\ Node(u, p) \in Tree
         /\ IsMap(Node(u, p)) <=> IsMap(Node(t, p))
         /\ Reply(l, u) = Value(Does[l].fn, Node(u, p))
  <1>1. p \in Seq(Key)
    BY Instructions
  <1>2. p \in DOMAIN u /\ (IsMap(Node(u, p)) <=> IsMap(Node(t, p)))
    <2>1. CASE t[p] # Branch
      <3>1. Node(u, p) = Node(t, p)
        BY <1>1, <2>1, ReadIsSame
      <3> QED
        BY <1>1, <3>1, NodeIs
    <2>2. CASE t[p] = Branch
      <3>1. IsMap(Node(t, p))
        BY <1>1, <2>2, NodeIs
      <3>2. HoldsOf(Fact(p, "map", NoTree), u)
        BY <3>1 DEF AllHold
      <3>3. p \in DOMAIN u /\ u[p] = Branch
        BY <1>1, <3>2, HoldsIs
      <3> QED
        BY <1>1, <3>1, <3>3, NodeIs
    <2> QED
      BY <2>1, <2>2
  <1>3. Node(u, p) \in Tree
    BY <1>2, PartsAssumption
  <1> QED
    BY <1>1, <1>2, <1>3, RepliesAre

-----------------------------------------------------------------------------
(* Stacks                                                                  *)

LEMMA Tops ==
  ASSUME NEW S, NEW s \in Seq(S), s # << >>
  PROVE  /\ Len(s) \in Nat \ {0} /\ Last(s) = s[Len(s)] /\ Last(s) \in S
         /\ Front(s) \in Seq(S) /\ Len(Front(s)) = Len(s) - 1
         /\ \A n \in 1 .. Len(s) - 1 : Front(s)[n] = s[n]
  <1>1. Len(s) \in Nat \ {0}
    BY EmptySeq, LenProperties
  <1>2. Last(s) = s[Len(s)] /\ Last(s) \in S
    BY <1>1, ElementOfSeq DEF Last
  <1>3. Front(s) = SubSeq(s, 1, Len(s) - 1)
    BY DEF Front
  <1>4. /\ 1 \in Int /\ Len(s) - 1 \in Int
        /\ \A i \in 1 .. Len(s) - 1 : i \in 1 .. Len(s) /\ 1 + i - 1 = i
        /\ (Len(s) - 1) - 1 + 1 = Len(s) - 1
    BY <1>1
  <1>5. \A i \in 1 .. Len(s) - 1 : s[i] \in S
    BY <1>4, ElementOfSeq
  <1>6. /\ Front(s) \in Seq(S)
        /\ Len(Front(s)) = IF 1 <= Len(s) - 1 THEN (Len(s) - 1) - 1 + 1 ELSE 0
        /\ \A i \in 1 .. (Len(s) - 1) - 1 + 1 : Front(s)[i] = s[1 + i - 1]
    BY <1>3, <1>4, <1>5, SubSeqProperties
  <1>7. Len(Front(s)) = Len(s) - 1
    <2> DEFINE L == Len(s)
               M == Len(Front(s))
    <2>1. L \in Nat \ {0} /\ M = IF 1 <= L - 1 THEN (L - 1) - 1 + 1 ELSE 0
      BY <1>1, <1>6
    <2> HIDE DEF L, M
    <2>2. M = L - 1
      BY <2>1
    <2> QED
      BY <2>2 DEF L, M
  <1> QED
    BY <1>1, <1>2, <1>4, <1>6, <1>7

LEMMA Appended ==
  ASSUME NEW S, NEW s \in Seq(S), NEW g \in S
  PROVE  /\ Append(s, g) \in Seq(S) /\ Len(Append(s, g)) = Len(s) + 1
         /\ Append(s, g)[Len(s) + 1] = g
         /\ \A n \in 1 .. Len(s) : Append(s, g)[n] = s[n]
         /\ s \o <<g>> = Append(s, g)
  OBVIOUS

LEMMA FrontStacked ==
  ASSUME NEW s, Stacked(s), s # << >>
  PROVE  Stacked(Front(s))
  <1> DEFINE t == Front(s)
  <1>1. s \in Seq(Frame)
    BY DEF Stacked
  <1>2. /\ Len(s) \in Nat \ {0} /\ t \in Seq(Frame) /\ Len(t) = Len(s) - 1
        /\ \A n \in 1 .. Len(s) - 1 : t[n] = s[n]
    BY <1>1, Tops
  <1> HIDE DEF t
  <1>3. \A n \in 1 .. Len(t) : n \in 1 .. Len(s) /\ t[n] = s[n]
    BY <1>2
  <1>4. \A n \in 1 .. Len(t) - 1 :
          n \in 1 .. Len(s) - 1 /\ t[n] = s[n] /\ t[n + 1] = s[n + 1]
    BY <1>2
  <1>5. \A n \in 1 .. Len(t) : Good(t[n])
    BY <1>3 DEF Stacked
  <1>6. \A n \in 1 .. Len(t) - 1 : Linked(t[n], t[n + 1])
    BY <1>4 DEF Stacked
  <1>7. Stacked(t)
    BY <1>2, <1>5, <1>6 DEF Stacked
  <1> QED
    BY <1>7 DEF t

\* A frame on top of the one it was called from.
LEMMA AddStacked ==
  ASSUME NEW s, Stacked(s), NEW g \in Frame, Good(g), s # << >> => Linked(Last(s), g)
  PROVE  Stacked(Append(s, g))
  <1> DEFINE t == Append(s, g)
  <1>1. s \in Seq(Frame) /\ Len(s) \in Nat
    BY DEF Stacked
  <1>2. /\ t \in Seq(Frame) /\ Len(t) = Len(s) + 1 /\ t[Len(s) + 1] = g
        /\ \A n \in 1 .. Len(s) : t[n] = s[n]
    BY <1>1, Appended
  <1> HIDE DEF t
  <1>3. ASSUME NEW n \in 1 .. Len(t)
        PROVE  Good(t[n])
    <2>1. CASE n = Len(s) + 1
      BY <1>2, <2>1
    <2>2. CASE n # Len(s) + 1
      <3>1. n \in 1 .. Len(s)
        BY <1>1, <1>2, <2>2
      <3> QED
        BY <1>2, <3>1 DEF Stacked
    <2> QED
      BY <2>1, <2>2
  <1>4. ASSUME NEW n \in 1 .. Len(t) - 1
        PROVE  Linked(t[n], t[n + 1])
    <2>0. n \in 1 .. Len(s)
      BY <1>1, <1>2
    <2>1. CASE n = Len(s)
      <3>1. s # << >>
        BY <2>0, <2>1
      <3>2. t[n] = Last(s) /\ t[n + 1] = g
        BY <1>1, <1>2, <2>0, <2>1, <3>1, Tops
      <3> QED
        BY <3>1, <3>2
    <2>2. CASE n # Len(s)
      <3>1. n \in 1 .. Len(s) - 1 /\ n + 1 \in 1 .. Len(s)
        BY <1>1, <2>0, <2>2
      <3> QED
        BY <1>2, <2>0, <3>1 DEF Stacked
    <2> QED
      BY <2>1, <2>2
  <1>5. Stacked(t)
    BY <1>2, <1>3, <1>4 DEF Stacked
  <1> QED
    BY <1>5 DEF t

\* The frame under the top is at the call the top is of.
LEMMA UnderTop ==
  ASSUME NEW s, Stacked(s), s # << >>
  PROVE  /\ Last(s) \in Frame /\ Good(Last(s))
         /\ Front(s) # << >> => Linked(Last(Front(s)), Last(s))
  <1>1. s \in Seq(Frame)
    BY DEF Stacked
  <1>2. /\ Len(s) \in Nat \ {0} /\ Last(s) = s[Len(s)] /\ Last(s) \in Frame
        /\ Front(s) \in Seq(Frame) /\ Len(Front(s)) = Len(s) - 1
        /\ \A n \in 1 .. Len(s) - 1 : Front(s)[n] = s[n]
    BY <1>1, Tops
  <1>3. Len(s) \in 1 .. Len(s)
    BY <1>2
  <1>4. ASSUME Front(s) # << >>
        PROVE  Linked(Last(Front(s)), Last(s))
    <2>1. Len(Front(s)) \in Nat \ {0} /\ Last(Front(s)) = Front(s)[Len(Front(s))]
      BY <1>2, <1>4, Tops
    <2> DEFINE n == Len(s) - 1
    <2>2. n \in 1 .. Len(s) - 1 /\ n + 1 = Len(s)
      BY <1>2, <2>1
    <2>3. Last(Front(s)) = s[n] /\ Last(s) = s[n + 1]
      BY <1>2, <2>1, <2>2
    <2> HIDE DEF n
    <2> QED
      BY <2>2, <2>3 DEF Stacked
  <1> QED
    BY <1>2, <1>3, <1>4 DEF Stacked

\* The top may change in what it knows and where it is.
LEMMA ReplaceStacked ==
  ASSUME NEW s, Stacked(s), s # << >>, NEW g \in Frame, Good(g),
         g.fn = Last(s).fn, g.arg = Last(s).arg, g.from = Last(s).from,
         g.discard = Last(s).discard
  PROVE  Stacked(Append(Front(s), g))
  <1>1. Front(s) # << >> => Linked(Last(Front(s)), g)
    BY UnderTop DEF Linked
  <1> QED
    BY <1>1, FrontStacked, AddStacked

-----------------------------------------------------------------------------
(* A frame goes on                                                         *)

\* The frame fr after a reply.
Gone(fr, reply, F, G, unsure) ==
  [fr EXCEPT !.loc = Then(@, reply), !.facts = Put(@, F),
             !.knows = @ \cup F \cup G, !.blind = @ \/ unsure]

LEMMA GoneFields ==
  ASSUME NEW fr \in Frame, NEW reply, NEW F, NEW G, NEW unsure,
         NEW g, g = Gone(fr, reply, F, G, unsure)
  PROVE  /\ g = [fn |-> fr.fn, arg |-> fr.arg, from |-> fr.from,
                 loc |-> Then(fr.loc, reply), facts |-> Put(fr.facts, F),
                 discard |-> fr.discard, forced |-> fr.forced,
                 knows |-> fr.knows \cup F \cup G, blind |-> fr.blind \/ unsure]
         /\ g.fn = fr.fn /\ g.arg = fr.arg /\ g.from = fr.from
         /\ g.loc = Then(fr.loc, reply) /\ g.facts = Put(fr.facts, F)
         /\ g.discard = fr.discard /\ g.forced = fr.forced
         /\ g.knows = fr.knows \cup F \cup G /\ g.blind = (fr.blind \/ unsure)
  BY DEF Gone, Frame

LEMMA FrameFields ==
  ASSUME NEW fr \in Frame
  PROVE  /\ fr.fn \in Fn /\ fr.arg \in Tree /\ fr.from \in Path /\ fr.loc \in Loc
         /\ fr.facts \in SUBSET AnyFact /\ fr.discard \in BOOLEAN
         /\ fr.forced \in BOOLEAN /\ fr.knows \in SUBSET AnyFact /\ fr.blind \in BOOLEAN
  BY DEF Frame

LEMMA GoneGood ==
  ASSUME NEW fr \in Frame, Good(fr), NEW reply,
         NEW F \in SUBSET AnyFact, NEW G \in SUBSET AnyFact, NEW unsure \in BOOLEAN,
         Does[fr.loc].op \notin {"return", "raise"}, Then(fr.loc, reply) \in Loc,
         AllHold(F \cup G, fr.arg),
         ~ unsure /\ ~ fr.blind /\ ~ fr.discard =>
           \A u \in Tree : (IsMap(u) <=> IsMap(fr.arg)) /\ AllHold(fr.knows \cup F \cup G, u)
                             => Then(fr.loc, reply) = Then(fr.loc, Reply(fr.loc, u))
  PROVE  Gone(fr, reply, F, G, unsure) \in Frame /\ Good(Gone(fr, reply, F, G, unsure))
  <1> DEFINE g == Gone(fr, reply, F, G, unsure)
  <1>1. /\ fr.fn \in Fn /\ fr.arg \in Tree /\ fr.from \in Path /\ fr.loc \in Loc
        /\ fr.facts \in SUBSET AnyFact /\ fr.discard \in BOOLEAN
        /\ fr.forced \in BOOLEAN /\ fr.knows \in SUBSET AnyFact /\ fr.blind \in BOOLEAN
    BY FrameFields
  <1>2. Put(fr.facts, F) \subseteq fr.facts \cup F
    BY PutKeepsNoOther
  <1>3. /\ g = [fn |-> fr.fn, arg |-> fr.arg, from |-> fr.from,
                loc |-> Then(fr.loc, reply), facts |-> Put(fr.facts, F),
                discard |-> fr.discard, forced |-> fr.forced,
                knows |-> fr.knows \cup F \cup G, blind |-> fr.blind \/ unsure]
        /\ g.fn = fr.fn /\ g.arg = fr.arg /\ g.from = fr.from
        /\ g.loc = Then(fr.loc, reply) /\ g.facts = Put(fr.facts, F)
        /\ g.discard = fr.discard /\ g.forced = fr.forced
        /\ g.knows = fr.knows \cup F \cup G /\ g.blind = (fr.blind \/ unsure)
    BY GoneFields
  <1> HIDE DEF g
  <1>4. g \in Frame
    <2>1. Put(fr.facts, F) \in SUBSET AnyFact /\ fr.knows \cup F \cup G \in SUBSET AnyFact
      BY <1>1, <1>2
    <2>2. (fr.blind \/ unsure) \in BOOLEAN
      BY <1>1
    <2> QED
      BY <1>1, <1>3, <2>1, <2>2 DEF Frame
  <1>5. g.facts \subseteq g.knows /\ (~ IsMap(g.arg) => Fact(<< >>, "value", g.arg) \in g.knows)
        /\ (g.forced => g.discard)
    BY <1>2, <1>3 DEF Good
  <1>6. AllHold(g.knows, g.arg)
    BY <1>3 DEF Good, AllHold
  <1>7. ASSUME ~ g.blind, ~ g.discard
        PROVE  Steady(g)
    <2>1. ~ unsure /\ ~ fr.blind /\ ~ fr.discard
      BY <1>3, <1>7
    <2>2. ASSUME NEW u \in Tree, Like(g, u)
          PROVE  Means[g.loc][u] = Value(g.fn, u)
      <3>1. (IsMap(u) <=> IsMap(fr.arg)) /\ AllHold(fr.knows \cup F \cup G, u)
        BY <1>3, <2>2 DEF Like
      <3>2. Then(fr.loc, reply) = Then(fr.loc, Reply(fr.loc, u))
        BY <2>1, <3>1
      <3>3. Like(fr, u)
        BY <3>1 DEF Like, AllHold
      <3>4. Means[fr.loc][u] = Value(fr.fn, u)
        BY <2>1, <3>3 DEF Good, Steady
      <3>5. Means[fr.loc][u] = Means[Then(fr.loc, Reply(fr.loc, u))][u]
        BY <1>1, Goes
      <3> QED
        BY <1>3, <3>2, <3>4, <3>5
    <2> QED
      BY <2>2 DEF Steady
  <1>8. Good(g)
    BY <1>5, <1>6, <1>7 DEF Good
  <1> QED
    BY <1>4, <1>8 DEF g

\* The same of the stack it is on.
LEMMA GoesOnStacked ==
  ASSUME NEW s, Stacked(s), s # << >>, NEW fr, fr = Last(s), NEW reply,
         NEW F \in SUBSET AnyFact, NEW G \in SUBSET AnyFact, NEW unsure \in BOOLEAN,
         Does[fr.loc].op \notin {"return", "raise"}, Then(fr.loc, reply) \in Loc,
         AllHold(F \cup G, fr.arg),
         ~ unsure /\ ~ fr.blind /\ ~ fr.discard =>
           \A u \in Tree : (IsMap(u) <=> IsMap(fr.arg)) /\ AllHold(fr.knows \cup F \cup G, u)
                             => Then(fr.loc, reply) = Then(fr.loc, Reply(fr.loc, u))
  PROVE  Stacked(GoesOn(s, reply, F, G, unsure))
  <1> DEFINE g == Gone(fr, reply, F, G, unsure)
  <1>1. fr \in Frame /\ Good(fr)
    BY UnderTop
  <1>2. g \in Frame /\ Good(g)
    BY <1>1, GoneGood
  <1>3. g.fn = fr.fn /\ g.arg = fr.arg /\ g.from = fr.from /\ g.discard = fr.discard
    BY <1>1, GoneFields
  <1>4. GoesOn(s, reply, F, G, unsure) = Append(Front(s), g)
    BY DEF GoesOn, Gone
  <1> HIDE DEF g
  <1> QED
    BY <1>2, <1>3, <1>4, ReplaceStacked

-----------------------------------------------------------------------------
(* Calls                                                                   *)

\* An empty stack.
LEMMA NoneStacked ==
  Stacked(<< >>)
  <1>1. << >> \in Seq(Frame) /\ Len(<< >>) = 0 /\ 1 .. 0 = {}
    OBVIOUS
  <1> QED
    BY <1>1 DEF Stacked

LEMMA FirstCall ==
  ASSUME NEW a \in Actor, stack[a] = << >>, NEW c \in Calls(a)
  PROVE  c.fn \in Fn /\ c.arg \in Tree /\ c.from \in Path
  <1>1. PICK f \in Fn, t \in Given : c = Call(f, t, << >>, {}, {})
    BY DEF Calls
  <1> QED
    BY <1>1, Purity, FactsAssumption DEF Call

\* A call that a frame is at.
LEMMA CallIs ==
  ASSUME NEW a \in Actor, Stacked(stack[a]), stack[a] # << >>, NEW c \in Calls(a),
         NEW fr, fr = Last(stack[a])
  PROVE  /\ Does[fr.loc].op = "call"
         /\ c.fn = Does[fr.loc].fn /\ c.from = Does[fr.loc].path
         /\ c.from \in DOMAIN fr.arg /\ c.arg = Node(fr.arg, c.from)
         /\ c.fn \in Fn /\ c.arg \in Tree /\ c.from \in Path /\ c.from \in Seq(Key)
         /\ c.seen = Get(fr.arg, c.from)
         /\ c.known = IF IsMap(c.arg) THEN {Fact(c.from, "map", NoTree)} ELSE {}
  <1> DEFINE p == Does[fr.loc].path
             n == Node(fr.arg, p)
  <1>1. fr \in Frame /\ fr.arg \in Tree /\ fr.loc \in Loc
    BY UnderTop, FrameFields
  <1>2. p \in Path /\ p \in Seq(Key) /\ Does[fr.loc].fn \in Fn
    BY <1>1, Instructions
  <1>3. /\ Does[fr.loc].op = "call" /\ n # NoTree
        /\ c = Call(Does[fr.loc].fn, n, p, Get(fr.arg, p),
                    IF IsMap(n) THEN {Fact(p, "map", NoTree)} ELSE {})
    BY DEF Calls, Doing
  <1>4. /\ c.fn = Does[fr.loc].fn /\ c.from = p /\ c.arg = n /\ c.seen = Get(fr.arg, p)
        /\ c.known = IF IsMap(n) THEN {Fact(p, "map", NoTree)} ELSE {}
    BY <1>3 DEF Call
  <1>5. p \in DOMAIN fr.arg
    BY <1>1, <1>2, <1>3, NodeIs
  <1>6. n \in Tree
    BY <1>1, <1>5, PartsAssumption
  <1> QED
    BY <1>2, <1>3, <1>4, <1>5, <1>6

\* What it reads to get its argument holds.
LEMMA CallHolds ==
  ASSUME NEW a \in Actor, Stacked(stack[a]), stack[a] # << >>, NEW c \in Calls(a),
         NEW fr, fr = Last(stack[a])
  PROVE  /\ c.seen \in SUBSET AnyFact /\ c.known \in SUBSET AnyFact
         /\ AllHold(c.seen \cup c.known, fr.arg)
  <1>1. fr.arg \in Tree
    BY UnderTop, FrameFields
  <1>2. /\ c.from \in DOMAIN fr.arg /\ c.arg = Node(fr.arg, c.from) /\ c.from \in Seq(Key)
        /\ c.seen = Get(fr.arg, c.from)
        /\ c.known = IF IsMap(c.arg) THEN {Fact(c.from, "map", NoTree)} ELSE {}
    BY CallIs
  <1>3. Fact(c.from, "map", NoTree) \in AnyFact
    BY <1>2, FactTyped DEF Dep
  <1>4. IsMap(c.arg) => HoldsOf(Fact(c.from, "map", NoTree), fr.arg)
    BY <1>1, <1>2, HoldsIs, NodeIs
  <1>5. AllHold(c.known, fr.arg)
    BY <1>2, <1>4 DEF AllHold
  <1>6. c.seen \in SUBSET AnyFact /\ AllHold(c.seen, fr.arg)
    BY <1>1, <1>2, GetTyped, GetHolds
  <1> QED
    BY <1>2, <1>3, <1>5, <1>6 DEF AllHold

\* What matching records reads holds.
LEMMA ObservedHolds ==
  ASSUME TypeOK, NEW R \in SUBSET records, NEW t \in Tree
  PROVE  Observed(R, t) \in SUBSET AnyFact /\ AllHold(Observed(R, t), t)
  <1>1. ASSUME NEW r \in R
        PROVE  Tried(r.facts, t) \subseteq AnyFact /\ AllHold(Tried(r.facts, t), t)
    <2>1. r.facts \in SUBSET AnyFact
      BY DEF TypeOK, Record
    <2> QED
      BY <2>1, TriedTyped, TriedHolds
  <1>2. \A x \in Observed(R, t) : \E r \in R : x \in Tried(r.facts, t)
    BY DEF Observed
  <1> QED
    BY <1>1, <1>2 DEF AllHold

\* What holds of a part, to the frame that has it.
LEMMA InsideHolds ==
  ASSUME NEW t \in Tree, NEW p \in DOMAIN t, NEW F \in SUBSET AnyFact, AllHold(F, Node(t, p))
  PROVE  At(p, F) \in SUBSET AnyFact /\ AllHold(At(p, F), t)
  <1>1. p \in Seq(Key)
    BY Trees
  <1> QED
    BY <1>1, AtTyped, AtHolds

\* A new frame has learned nothing but a leaf.
LEMMA NewGood ==
  ASSUME NEW c, c.fn \in Fn, c.arg \in Tree, c.from \in Path, NEW forced \in BOOLEAN,
         NEW g, g = NewFrame(c, forced)
  PROVE  /\ g \in Frame /\ Good(g)
         /\ g.fn = c.fn /\ g.arg = c.arg /\ g.from = c.from /\ g.discard = forced
  <1> DEFINE v == Fact(<< >>, "value", c.arg)
             F == IF IsMap(c.arg) THEN {} ELSE {v}
  <1>1. << >> \in Seq(Key) /\ Start[c.fn] \in Loc
    BY Purity
  <1>2. v \in AnyFact
    BY <1>1, FactTyped DEF Dep
  <1>3. ~ IsMap(c.arg) => HoldsOf(v, c.arg)
    BY <1>1, HoldsIs, NodeOfRoot
  <1>4. F \in SUBSET AnyFact /\ AllHold(F, c.arg)
    BY <1>2, <1>3 DEF AllHold
  <1>5. /\ g = [fn |-> c.fn, arg |-> c.arg, from |-> c.from, loc |-> Start[c.fn],
                facts |-> F, knows |-> F, discard |-> forced, forced |-> forced,
                blind |-> FALSE]
    BY DEF NewFrame
  <1>6. ~ IsMap(c.arg) => v \in F
    OBVIOUS
  <1> HIDE DEF F, v
  <1>7. g \in Frame
    BY <1>1, <1>4, <1>5 DEF Frame
  <1>8. /\ g.fn = c.fn /\ g.arg = c.arg /\ g.from = c.from /\ g.discard = forced
        /\ g.loc = Start[c.fn] /\ g.facts = F /\ g.knows = F /\ g.forced = forced
    BY <1>5
  <1>9. Steady(g)
    BY <1>8 DEF Steady, Value
  <1>10. ~ IsMap(g.arg) => Fact(<< >>, "value", g.arg) \in g.knows
    BY <1>6, <1>8 DEF v
  <1>11. Good(g)
    BY <1>4, <1>8, <1>9, <1>10 DEF Good
  <1> QED
    BY <1>7, <1>8, <1>11

\* The frame around it, told on the way.
Told(fr, P, Q, F) ==
  [fr EXCEPT !.facts = Put(@, P \cup F), !.knows = @ \cup P \cup Q \cup F]

LEMMA ToldGood ==
  ASSUME NEW fr \in Frame, Good(fr), NEW P \in SUBSET AnyFact,
         NEW Q \in SUBSET AnyFact, NEW F \in SUBSET AnyFact,
         AllHold(P \cup Q, fr.arg), AllHold(F, fr.arg),
         NEW g, g = Told(fr, P, Q, F)
  PROVE  g \in Frame /\ Good(g)
  <1>1. /\ fr.fn \in Fn /\ fr.arg \in Tree /\ fr.from \in Path /\ fr.loc \in Loc
        /\ fr.facts \in SUBSET AnyFact /\ fr.discard \in BOOLEAN
        /\ fr.forced \in BOOLEAN /\ fr.knows \in SUBSET AnyFact /\ fr.blind \in BOOLEAN
    BY FrameFields
  <1>2. Put(fr.facts, P \cup F) \subseteq fr.facts \cup P \cup F
    BY PutKeepsNoOther
  <1>3. /\ g = [fn |-> fr.fn, arg |-> fr.arg, from |-> fr.from, loc |-> fr.loc,
                facts |-> Put(fr.facts, P \cup F),
                discard |-> fr.discard, forced |-> fr.forced,
                knows |-> fr.knows \cup P \cup Q \cup F, blind |-> fr.blind]
        /\ g.fn = fr.fn /\ g.arg = fr.arg /\ g.from = fr.from /\ g.loc = fr.loc
        /\ g.facts = Put(fr.facts, P \cup F)
        /\ g.discard = fr.discard /\ g.forced = fr.forced /\ g.blind = fr.blind
        /\ g.knows = fr.knows \cup P \cup Q \cup F
    BY DEF Told, Frame
  <1>4. g \in Frame
    <2>1. /\ Put(fr.facts, P \cup F) \in SUBSET AnyFact
          /\ fr.knows \cup P \cup Q \cup F \in SUBSET AnyFact
      BY <1>1, <1>2
    <2> QED
      BY <1>1, <1>3, <2>1 DEF Frame
  <1>5. /\ g.facts \subseteq g.knows /\ (g.forced => g.discard)
        /\ (~ IsMap(g.arg) => Fact(<< >>, "value", g.arg) \in g.knows)
    BY <1>2, <1>3 DEF Good
  <1>6. AllHold(g.knows, g.arg)
    BY <1>3 DEF Good, AllHold
  <1>7. ASSUME ~ g.blind, ~ g.discard
        PROVE  Steady(g)
    <2>1. \A t \in Tree : Like(g, t) => Like(fr, t)
      BY <1>3 DEF Like, AllHold
    <2>2. Steady(fr)
      BY <1>3, <1>7 DEF Good
    <2> QED
      BY <1>3, <2>1, <2>2 DEF Steady
  <1> QED
    BY <1>4, <1>5, <1>6, <1>7 DEF Good

\* What is under a new frame.
Around(s, c, F) ==
  IF s = << >> THEN s ELSE Append(Front(s), Told(Last(s), c.seen, c.known, F))

LEMMA AroundStacked ==
  ASSUME NEW a \in Actor, Stacked(stack[a]), NEW c \in Calls(a),
         NEW F \in SUBSET AnyFact,
         stack[a] # << >> => AllHold(F, Last(stack[a]).arg),
         NEW b, b = Around(stack[a], c, F)
  PROVE  /\ Stacked(b)
         /\ c.fn \in Fn /\ c.arg \in Tree /\ c.from \in Path
         /\ b # << >> => Linked(Last(b), NewFrame(c, FALSE))
  <1> DEFINE s == stack[a]
  <1>1. CASE s = << >>
    BY <1>1, FirstCall, NoneStacked DEF Around
  <1>2. CASE s # << >>
    <2>0. PICK fr, P, Q : fr = Last(s) /\ P = c.seen /\ Q = c.known
      OBVIOUS
    <2>1. PICK g, h : g = NewFrame(c, FALSE) /\ h = Told(fr, P, Q, F)
      OBVIOUS
    <2>2. /\ Does[fr.loc].op = "call"
          /\ c.fn = Does[fr.loc].fn /\ c.from = Does[fr.loc].path
          /\ c.from \in DOMAIN fr.arg /\ c.arg = Node(fr.arg, c.from)
          /\ c.fn \in Fn /\ c.arg \in Tree /\ c.from \in Path
          /\ P = Get(fr.arg, c.from)
          /\ Q = IF IsMap(c.arg) THEN {Fact(c.from, "map", NoTree)} ELSE {}
      BY <1>2, <2>0, CallIs
    <2>3. g.fn = c.fn /\ g.arg = c.arg /\ g.from = c.from /\ g.discard = FALSE
      BY <2>1, <2>2, NewGood
    <2>4. /\ P \in SUBSET AnyFact /\ Q \in SUBSET AnyFact
          /\ AllHold(P \cup Q, fr.arg) /\ AllHold(F, fr.arg)
      BY <1>2, <2>0, CallHolds
    <2>5. fr \in Frame /\ Good(fr)
      BY <1>2, <2>0, UnderTop
    <2>6. h \in Frame /\ Good(h)
      BY <2>1, <2>4, <2>5, ToldGood
    <2>7. /\ h.fn = fr.fn /\ h.arg = fr.arg /\ h.from = fr.from /\ h.loc = fr.loc
          /\ h.discard = fr.discard
          /\ h.knows = fr.knows \cup P \cup Q \cup F
      BY <2>1, <2>5 DEF Told, Frame
    <2>8. b = Append(Front(s), h)
      BY <1>2, <2>0, <2>1 DEF Around
    <2>9. Stacked(b)
      BY <1>2, <2>0, <2>6, <2>7, <2>8, ReplaceStacked
    <2>10. Last(b) = h
      <3>1. Front(s) \in Seq(Frame) /\ Len(Front(s)) \in Nat
        BY <1>2, FrontStacked DEF Stacked
      <3>2. b \in Seq(Frame) /\ Len(b) = Len(Front(s)) + 1 /\ b[Len(Front(s)) + 1] = h
        BY <2>6, <2>8, <3>1, Appended
      <3>3. b # << >>
        BY <3>1, <3>2
      <3> QED
        BY <3>2, <3>3, Tops
    <2>11. Linked(h, g)
      BY <2>2, <2>3, <2>7 DEF Linked
    <2> QED
      BY <2>1, <2>2, <2>9, <2>10, <2>11
  <1> QED
    BY <1>1, <1>2

LEMMA PushIs ==
  ASSUME NEW a \in Actor, Stacked(stack[a]), NEW c \in Calls(a),
         NEW F \in SUBSET AnyFact,
         stack[a] # << >> => AllHold(F, Last(stack[a]).arg),
         NEW b, b = Around(stack[a], c, F), NEW forced \in BOOLEAN
  PROVE  Push(stack[a], c, F, forced) = Append(b, NewFrame(c, forced))
  <1>1. b \in Seq(Frame) /\ c.fn \in Fn /\ c.arg \in Tree /\ c.from \in Path
    BY AroundStacked DEF Stacked
  <1>2. NewFrame(c, forced) \in Frame
    BY <1>1, NewGood
  <1>3. Push(stack[a], c, F, forced) = b \o <<NewFrame(c, forced)>>
    BY DEF Push, Around, Told
  <1> QED
    BY <1>1, <1>2, <1>3, Appended

\* A call that runs.
LEMMA PushStacked ==
  ASSUME NEW a \in Actor, Stacked(stack[a]), NEW c \in Calls(a),
         NEW F \in SUBSET AnyFact,
         stack[a] # << >> => AllHold(F, Last(stack[a]).arg)
  PROVE  Stacked(Push(stack[a], c, F, FALSE))
  <1>1. PICK b, g : b = Around(stack[a], c, F) /\ g = NewFrame(c, FALSE)
    OBVIOUS
  <1>2. /\ Stacked(b) /\ (b # << >> => Linked(Last(b), g))
        /\ c.fn \in Fn /\ c.arg \in Tree /\ c.from \in Path
    BY <1>1, AroundStacked
  <1>3. g \in Frame /\ Good(g)
    BY <1>1, <1>2, NewGood
  <1>4. Push(stack[a], c, F, FALSE) = Append(b, g)
    BY <1>1, PushIs
  <1> QED
    BY <1>2, <1>3, <1>4, AddStacked

\* Frames none of which will be recorded are good whatever they come to.
LEMMA DiscardStacked ==
  ASSUME NEW s, Stacked(s), NEW t \in Seq(Frame), Len(t) = Len(s),
         \A n \in 1 .. Len(s) :
           /\ t[n].fn = s[n].fn /\ t[n].arg = s[n].arg /\ t[n].from = s[n].from
           /\ t[n].loc = s[n].loc /\ t[n].facts = s[n].facts /\ t[n].knows = s[n].knows
           /\ t[n].discard = TRUE
  PROVE  Stacked(t)
  <1>1. s \in Seq(Frame) /\ Len(s) \in Nat
    BY DEF Stacked
  <1>2. ASSUME NEW n \in 1 .. Len(t)
        PROVE  Good(t[n])
    BY <1>2 DEF Stacked, Good
  <1>3. ASSUME NEW n \in 1 .. Len(t) - 1
        PROVE  Linked(t[n], t[n + 1])
    <2>1. n \in 1 .. Len(s) - 1 /\ n \in 1 .. Len(s) /\ n + 1 \in 1 .. Len(s)
      BY <1>1
    <2>2. Linked(s[n], s[n + 1])
      BY <2>1 DEF Stacked
    <2> QED
      BY <2>1, <2>2 DEF Linked
  <1> QED
    BY <1>2, <1>3 DEF Stacked

\* A forced call: neither it nor those around it will be recorded.
LEMMA ForceStacked ==
  ASSUME NEW a \in Actor, Stacked(stack[a]), NEW c \in Calls(a),
         NEW s, s = Push(stack[a], c, {}, TRUE)
  PROVE  Stacked([n \in DOMAIN s |-> [s[n] EXCEPT !.discard = TRUE]])
  <1>1. PICK F, b, g, h, t :
          /\ F = {} /\ s = Push(stack[a], c, F, TRUE)
          /\ b = Around(stack[a], c, F) /\ g = NewFrame(c, FALSE) /\ h = NewFrame(c, TRUE)
          /\ t = [n \in DOMAIN s |-> [s[n] EXCEPT !.discard = TRUE]]
    OBVIOUS
  <1>2. F \in SUBSET AnyFact /\ AllHold(F, Last(stack[a]).arg)
    BY <1>1 DEF AllHold
  <1>3. /\ Stacked(b) /\ (b # << >> => Linked(Last(b), g))
        /\ c.fn \in Fn /\ c.arg \in Tree /\ c.from \in Path
    BY <1>1, <1>2, AroundStacked
  <1>4. g \in Frame /\ Good(g) /\ h \in Frame
    BY <1>1, <1>3, NewGood
  <1>5. s = Append(b, h)
    BY <1>1, <1>2, PushIs
  <1>6. PICK u : u = Append(b, g)
    OBVIOUS
  <1>7. Stacked(u)
    BY <1>3, <1>4, <1>6, AddStacked
  <1>8. b \in Seq(Frame) /\ Len(b) \in Nat
    BY <1>3 DEF Stacked
  <1>9. /\ s \in Seq(Frame) /\ Len(s) = Len(b) + 1 /\ s[Len(b) + 1] = h
        /\ \A n \in 1 .. Len(b) : s[n] = b[n]
    <2>1. /\ Append(b, h) \in Seq(Frame) /\ Len(Append(b, h)) = Len(b) + 1
          /\ Append(b, h)[Len(b) + 1] = h
          /\ \A n \in 1 .. Len(b) : Append(b, h)[n] = b[n]
      BY <1>4, <1>8, Appended
    <2> QED
      BY <1>5, <2>1, Zenon
  <1>10. /\ u \in Seq(Frame) /\ Len(u) = Len(b) + 1 /\ u[Len(b) + 1] = g
         /\ \A n \in 1 .. Len(b) : u[n] = b[n]
    <2>1. /\ Append(b, g) \in Seq(Frame) /\ Len(Append(b, g)) = Len(b) + 1
          /\ Append(b, g)[Len(b) + 1] = g
          /\ \A n \in 1 .. Len(b) : Append(b, g)[n] = b[n]
      BY <1>4, <1>8, Appended
    <2> QED
      BY <1>6, <2>1, Zenon
  <1>11. /\ h.fn = g.fn /\ h.arg = g.arg /\ h.from = g.from /\ h.loc = g.loc
         /\ h.facts = g.facts /\ h.knows = g.knows
    BY <1>1 DEF NewFrame
  <1>12. ASSUME NEW n \in 1 .. Len(s)
         PROVE  /\ s[n] \in Frame
                /\ s[n].fn = u[n].fn /\ s[n].arg = u[n].arg /\ s[n].from = u[n].from
                /\ s[n].loc = u[n].loc /\ s[n].facts = u[n].facts /\ s[n].knows = u[n].knows
    <2>1. s[n] \in Frame
      BY <1>9, ElementOfSeq
    <2>2. CASE n = Len(b) + 1
      BY <1>9, <1>10, <1>11, <2>1, <2>2
    <2>3. CASE n # Len(b) + 1
      <3>1. n \in 1 .. Len(b)
        <4>1. Len(b) \in Nat /\ n \in 1 .. Len(b) + 1 /\ n # Len(b) + 1
          BY <1>8, <1>9, <2>3, Zenon
        <4> QED
          BY <4>1
      <3>2. s[n] = u[n]
        BY <1>9, <1>10, <3>1
      <3> QED
        BY <2>1, <3>2
    <2> QED
      BY <2>2, <2>3
  <1>13. DOMAIN s = 1 .. Len(s) /\ Len(s) \in Nat
    BY <1>9, LenProperties
  <1>14. ASSUME NEW n \in 1 .. Len(s)
         PROVE  /\ t[n] \in Frame /\ t[n].discard = TRUE
                /\ t[n].fn = u[n].fn /\ t[n].arg = u[n].arg /\ t[n].from = u[n].from
                /\ t[n].loc = u[n].loc /\ t[n].facts = u[n].facts /\ t[n].knows = u[n].knows
    <2>1. PICK f, g2 : f = s[n] /\ g2 = [f EXCEPT !.discard = TRUE]
      OBVIOUS
    <2>2. f \in Frame
      BY <1>12, <2>1
    <2>3. /\ g2 \in Frame /\ g2.discard = TRUE
          /\ g2.fn = f.fn /\ g2.arg = f.arg /\ g2.from = f.from
          /\ g2.loc = f.loc /\ g2.facts = f.facts /\ g2.knows = f.knows
      BY <2>1, <2>2 DEF Frame
    <2>4. t[n] = g2
      BY <1>1, <1>13, <2>1
    <2> QED
      BY <1>12, <2>1, <2>3, <2>4
  <1>15. t \in Seq(Frame) /\ Len(t) = Len(s)
    <2>1. t \in [1 .. Len(s) -> Frame]
      BY <1>1, <1>13, <1>14
    <2>2. PICK L \in Nat : L = Len(s)
      BY <1>13
    <2>3. t \in [1 .. L -> Frame]
      BY <2>1, <2>2
    <2>4. t \in Seq(Frame)
      BY <2>3, SeqDef
    <2>5. DOMAIN t = 1 .. L
      BY <2>3
    <2>6. Len(t) = L
      BY <2>4, <2>5, LenProperties
    <2> QED
      BY <2>2, <2>4, <2>6
  <1>16. Len(t) = Len(u) /\ 1 .. Len(u) = 1 .. Len(s)
    BY <1>9, <1>10, <1>15, Zenon
  <1>17. \A n \in 1 .. Len(u) :
           /\ t[n].fn = u[n].fn /\ t[n].arg = u[n].arg /\ t[n].from = u[n].from
           /\ t[n].loc = u[n].loc /\ t[n].facts = u[n].facts /\ t[n].knows = u[n].knows
           /\ t[n].discard = TRUE
    BY <1>14, <1>16
  <1>18. Stacked(t)
    BY <1>7, <1>15, <1>16, <1>17, DiscardStacked
  <1> QED
    BY <1>1, <1>18

-----------------------------------------------------------------------------
(* A call answered: by a record, or by its end                             *)

\* The frame out is told that the call it is at comes to reply, and it does on
\* every value of which the facts K hold: those of which it learns inside.
LEMMA AnsweredStacked ==
  ASSUME NEW s, Stacked(s), s # << >>, NEW out, out = Last(s),
         Does[out.loc].op = "call", NEW p, p = Does[out.loc].path, p \in DOMAIN out.arg,
         NEW reply \in Result \cup {Raised},
         NEW F \in SUBSET AnyFact, NEW G \in SUBSET AnyFact, NEW unsure \in BOOLEAN,
         AllHold(F \cup G, out.arg),
         Get(out.arg, p) \subseteq out.knows \cup F \cup G,
         IsMap(Node(out.arg, p)) =>
           Fact(p, "map", NoTree) \in out.knows \cup F \cup G,
         NEW K \in SUBSET AnyFact, At(p, K) \subseteq out.knows \cup F \cup G,
         ~ unsure /\ ~ out.blind /\ ~ out.discard =>
           \A v \in Tree : (IsMap(v) <=> IsMap(Node(out.arg, p))) /\ AllHold(K, v) =>
             Value(Does[out.loc].fn, v) = reply
  PROVE  Stacked(GoesOn(s, reply, F, G, unsure))
  <1> DEFINE l == out.loc
             known == out.knows \cup F \cup G
  <1>1. out \in Frame /\ Good(out) /\ l \in Loc /\ out.arg \in Tree
    BY UnderTop, FrameFields
  <1>2. Then(l, reply) \in Loc
    BY <1>1, CallGoes
  <1>3. ~ IsMap(out.arg) => Fact(<< >>, "value", out.arg) \in known
    BY <1>1 DEF Good
  <1>4. ASSUME ~ unsure, ~ out.blind, ~ out.discard, NEW u \in Tree,
               IsMap(u) <=> IsMap(out.arg), AllHold(known, u)
        PROVE  Then(l, reply) = Then(l, Reply(l, u))
    <2>0. PICK k : k = known
      OBVIOUS
    <2>1. /\ Get(out.arg, p) \subseteq k /\ AllHold(k, u)
          /\ (~ IsMap(out.arg) => Fact(<< >>, "value", out.arg) \in k)
          /\ (IsMap(Node(out.arg, p)) => Fact(p, "map", NoTree) \in k)
          /\ At(p, K) \subseteq k
      BY <1>3, <1>4, <2>0
    <2>2. /\ p \in DOMAIN u /\ Node(u, p) \in Tree
          /\ IsMap(Node(u, p)) <=> IsMap(Node(out.arg, p))
          /\ Reply(l, u) = Value(Does[l].fn, Node(u, p))
      BY <1>1, <1>4, <2>1, CallReplies
    <2>3. AllHold(At(p, K), u)
      BY <2>1 DEF AllHold
    <2>4. AllHold(K, Node(u, p))
      BY <2>2, <2>3, AtHolds
    <2>5. Value(Does[out.loc].fn, Node(u, p)) = reply
      BY <1>4, <2>2, <2>4
    <2> QED
      BY <2>2, <2>5
  <1>5. Does[l].op \notin {"return", "raise"}
    OBVIOUS
  <1> QED
    BY <1>2, <1>4, <1>5, GoesOnStacked

\* A lookup that finds a record.
LEMMA HitStacked ==
  ASSUME IInv, NEW a \in Actor, NEW c \in Calls(a), NEW r \in Of(c.fn),
         Holds(r, c.arg), NEW R \in SUBSET Of(c.fn)
  PROVE  Stacked(GoesOn(stack[a], r.result,
                        c.seen \cup At(c.from, Observed(R \cup {r}, c.arg)),
                        c.known \cup At(c.from, r.facts), r \in blind))
  <1> DEFINE s == stack[a]
  <1>0. Stacked(s) /\ TypeOK /\ r \in records /\ r.fn = c.fn /\ R \cup {r} \in SUBSET records
    BY DEF IInv, Of
  <1>1. CASE s = << >>
    BY <1>0, <1>1 DEF GoesOn
  <1>2. CASE s # << >>
    <2>0. PICK out : out = Last(s)
      OBVIOUS
    <2>1. PICK p, S, K, B, unsure :
            /\ p = c.from /\ S = c.seen /\ K = r.facts
            /\ B = At(p, Observed(R \cup {r}, c.arg)) /\ unsure = (r \in blind)
      OBVIOUS
    <2>2. out.arg \in Tree
      BY <1>0, <1>2, <2>0, UnderTop, FrameFields
    <2>3. /\ Does[out.loc].op = "call"
          /\ c.fn = Does[out.loc].fn /\ p = Does[out.loc].path
          /\ p \in DOMAIN out.arg /\ c.arg = Node(out.arg, p) /\ c.arg \in Tree
          /\ S = Get(out.arg, p)
          /\ c.known = IF IsMap(c.arg) THEN {Fact(p, "map", NoTree)} ELSE {}
      BY <1>0, <1>2, <2>0, <2>1, CallIs
    <2>4. /\ S \in SUBSET AnyFact /\ c.known \in SUBSET AnyFact
          /\ AllHold(S \cup c.known, out.arg)
      BY <1>0, <1>2, <2>0, <2>1, CallHolds
    <2>5. /\ Observed(R \cup {r}, c.arg) \in SUBSET AnyFact
          /\ AllHold(Observed(R \cup {r}, c.arg), c.arg)
      BY <1>0, <2>3, ObservedHolds
    <2>6. B \in SUBSET AnyFact /\ AllHold(B, out.arg)
      BY <2>1, <2>2, <2>3, <2>5, InsideHolds
    <2>7. K \in SUBSET AnyFact /\ r.result \in Result /\ AllHold(K, c.arg)
      BY <1>0, <2>1 DEF TypeOK, Record, Holds
    <2>8. At(p, K) \in SUBSET AnyFact /\ AllHold(At(p, K), out.arg)
      BY <2>2, <2>3, <2>7, InsideHolds
    <2>9. PICK F, G : F = S \cup B /\ G = c.known \cup At(p, K)
      OBVIOUS
    <2>10. F \in SUBSET AnyFact /\ G \in SUBSET AnyFact /\ AllHold(F \cup G, out.arg)
      BY <2>4, <2>6, <2>8, <2>9 DEF AllHold
    <2>11. /\ Get(out.arg, p) \subseteq out.knows \cup F \cup G
           /\ At(p, K) \subseteq out.knows \cup F \cup G
           /\ IsMap(Node(out.arg, p)) =>
                Fact(p, "map", NoTree) \in out.knows \cup F \cup G
      BY <2>3, <2>9
    <2>12. ASSUME ~ unsure, NEW v \in Tree,
                  IsMap(v) <=> IsMap(Node(out.arg, p)), AllHold(K, v)
           PROVE  Value(Does[out.loc].fn, v) = r.result
      <3>1. Holds(r, v)
        BY <2>1, <2>3, <2>12 DEF Holds
      <3>2. r \in records \ blind
        BY <1>0, <2>1, <2>12
      <3> QED
        BY <1>0, <2>3, <3>1, <3>2 DEF IInv, RecordsAreSound
    <2>13. unsure \in BOOLEAN
      BY <2>1
    <2>14. Stacked(GoesOn(s, r.result, F, G, unsure))
      BY <1>0, <1>2, <2>0, <2>3, <2>7, <2>10, <2>11, <2>12, <2>13, AnsweredStacked
    <2> QED
      BY <2>1, <2>9, <2>14
  <1> QED
    BY <1>1, <1>2

\* A call that ends as its program does, on all values it could be of.
LEMMA LeaveStacked ==
  ASSUME NEW s, Stacked(s), s # << >>, NEW top, top = Last(s),
         NEW reply \in Result \cup {Raised},
         ~ top.discard => \A t \in Tree : Means[top.loc][t] = reply
  PROVE  Stacked(Leave(s, reply))
  <1>0. PICK below, F, G, p, K, unsure :
          /\ below = Front(s) /\ F = At(top.from, top.facts)
          /\ G = At(top.from, top.knows) /\ p = top.from
          /\ K = top.knows /\ unsure = top.blind
    OBVIOUS
  <1>1. Stacked(below) /\ top \in Frame /\ Good(top)
    BY <1>0, FrontStacked, UnderTop
  <1>2. Leave(s, reply) = GoesOn(below, reply, F, G, unsure)
    BY <1>0 DEF Leave
  <1>3. CASE below = << >>
    BY <1>1, <1>2, <1>3 DEF GoesOn
  <1>4. CASE below # << >>
    <2>0. PICK out : out = Last(below)
      OBVIOUS
    <2>1. Linked(out, top) /\ out.arg \in Tree
      BY <1>0, <1>1, <1>4, <2>0, UnderTop, FrameFields
    <2>2. /\ Does[out.loc].op = "call" /\ Does[out.loc].fn = top.fn
          /\ Does[out.loc].path = p /\ p \in DOMAIN out.arg
          /\ Node(out.arg, p) = top.arg
      BY <1>0, <2>1 DEF Linked
    <2>3. /\ top.facts \in SUBSET AnyFact /\ K \in SUBSET AnyFact
          /\ unsure \in BOOLEAN
      BY <1>0, <1>1, FrameFields
    <2>4. AllHold(top.facts, top.arg) /\ AllHold(K, top.arg)
      BY <1>0, <1>1 DEF Good, AllHold
    <2>5. F \in SUBSET AnyFact /\ AllHold(F, out.arg)
      BY <1>0, <2>1, <2>2, <2>3, <2>4, InsideHolds
    <2>6. G \in SUBSET AnyFact /\ AllHold(G, out.arg)
      BY <1>0, <2>1, <2>2, <2>3, <2>4, InsideHolds
    <2>7. AllHold(F \cup G, out.arg)
      BY <2>5, <2>6 DEF AllHold
    <2>8. /\ Get(out.arg, p) \subseteq out.knows \cup F \cup G
          /\ At(p, K) \subseteq out.knows \cup F \cup G
          /\ IsMap(Node(out.arg, p)) =>
               Fact(p, "map", NoTree) \in out.knows \cup F \cup G
      BY <1>0, <2>1, <2>2 DEF Linked
    <2>9. ASSUME ~ unsure, ~ out.discard, NEW v \in Tree,
                 IsMap(v) <=> IsMap(Node(out.arg, p)), AllHold(K, v)
          PROVE  Value(Does[out.loc].fn, v) = reply
      <3>1. ~ top.discard
        BY <2>1, <2>9 DEF Linked
      <3>2. Steady(top) /\ Like(top, v)
        BY <1>0, <1>1, <2>2, <2>9, <3>1 DEF Good, Like
      <3>3. Means[top.loc][v] = Value(top.fn, v)
        BY <3>2 DEF Steady
      <3> QED
        BY <2>2, <3>1, <3>3
    <2>10. Stacked(GoesOn(below, reply, F, G, unsure))
      BY <1>1, <1>4, <2>0, <2>2, <2>3, <2>5, <2>6, <2>7, <2>8, <2>9, AnsweredStacked
    <2> QED
      BY <1>2, <2>10
  <1> QED
    BY <1>3, <1>4

-----------------------------------------------------------------------------
(* The steps                                                               *)

LEMMA StacksAfter ==
  ASSUME IInv, NEW a \in Actor, NEW s, Stacked(s), stack' = [stack EXCEPT ![a] = s]
  PROVE  /\ stack' \in [Actor -> Seq(Frame)]
         /\ \A b \in Actor : Stacked(stack'[b])
  <1>1. stack \in [Actor -> Seq(Frame)] /\ \A b \in Actor : Stacked(stack[b])
    BY DEF IInv, TypeOK
  <1>2. s \in Seq(Frame)
    BY DEF Stacked
  <1>3. \A b \in Actor : stack'[b] = s \/ stack'[b] = stack[b]
    BY <1>1
  <1> QED
    BY <1>1, <1>2, <1>3

\* A step of one actor that leaves the store alone.
LEMMA OnlyStack ==
  ASSUME IInv, NEW a \in Actor, NEW s, Stacked(s), stack' = [stack EXCEPT ![a] = s],
         UNCHANGED <<records, blind>>
  PROVE  IInv'
  <1>1. /\ stack' \in [Actor -> Seq(Frame)]
        /\ \A b \in Actor : Stacked(stack'[b])
    BY StacksAfter
  <1>2. TypeOK'
    BY <1>1 DEF IInv, TypeOK
  <1>3. RecordsAreSound'
    BY DEF IInv, RecordsAreSound
  <1> QED
    BY <1>1, <1>2, <1>3 DEF IInv

LEMMA ReadKeeps ==
  ASSUME IInv, NEW a \in Actor, Read(a)
  PROVE  IInv'
  <1>0. PICK s, top, l, t : s = stack[a] /\ top = Last(s) /\ l = top.loc /\ t = top.arg
    OBVIOUS
  <1>1. /\ Stacked(s) /\ s # << >> /\ Does[l].op \in {"get", "contains", "whole"}
        /\ UNCHANGED <<records, blind>>
    BY <1>0 DEF Read, Doing, IInv
  <1>2. stack' = [stack EXCEPT ![a] =
                    GoesOn(s, Reply(l, t), Seen(l, t), Known(l, t), FALSE)]
    BY <1>0 DEF Read, Doing, Seen, Known
  <1>3. top \in Frame /\ Good(top) /\ l \in Loc /\ t \in Tree
    BY <1>0, <1>1, UnderTop, FrameFields
  <1>4. /\ Seen(l, t) \in SUBSET AnyFact /\ Known(l, t) \in SUBSET AnyFact
        /\ AllHold(Seen(l, t) \cup Known(l, t), t)
    BY <1>1, <1>3, SeenHolds
  <1>5. Does[l].op \notin {"return", "raise"} /\ Then(l, Reply(l, t)) \in Loc
    BY <1>1, <1>3, Goes
  <1>6. PICK reply, F, G, unsure :
          /\ reply = Reply(l, t) /\ F = Seen(l, t) /\ G = Known(l, t) /\ unsure = FALSE
    OBVIOUS
  <1>7. ASSUME NEW u \in Tree, IsMap(u) <=> IsMap(t),
               AllHold(top.knows \cup F \cup G, u)
        PROVE  Then(l, reply) = Then(l, Reply(l, u))
    <2>1. PICK K : K = top.knows \cup F \cup G
      OBVIOUS
    <2>2. ~ IsMap(t) => Fact(<< >>, "value", t) \in K
      BY <1>0, <1>3, <2>1 DEF Good
    <2>3. Seen(l, t) \cup Known(l, t) \subseteq K /\ AllHold(K, u)
      BY <1>6, <1>7, <2>1
    <2>4. Reply(l, u) = Reply(l, t)
      BY <1>1, <1>3, <1>7, <2>2, <2>3, ReadReplies
    <2> QED
      BY <1>6, <2>4
  <1>8. /\ F \in SUBSET AnyFact /\ G \in SUBSET AnyFact /\ unsure \in BOOLEAN
        /\ AllHold(F \cup G, top.arg) /\ Then(top.loc, reply) \in Loc
        /\ Does[top.loc].op \notin {"return", "raise"}
    BY <1>0, <1>4, <1>5, <1>6
  <1>9. \A u \in Tree :
          (IsMap(u) <=> IsMap(top.arg)) /\ AllHold(top.knows \cup F \cup G, u) =>
            Then(top.loc, reply) = Then(top.loc, Reply(top.loc, u))
    BY <1>0, <1>7
  <1>10. Stacked(GoesOn(s, reply, F, G, unsure))
    BY <1>0, <1>1, <1>8, <1>9, GoesOnStacked
  <1> QED
    BY <1>1, <1>2, <1>6, <1>10, OnlyStack

LEMMA NoArgumentKeeps ==
  ASSUME IInv, NEW a \in Actor, NoArgument(a)
  PROVE  IInv'
  <1>0. PICK s, top, l, t, p :
          /\ s = stack[a] /\ top = Last(s) /\ l = top.loc /\ t = top.arg
          /\ p = Does[l].path
    OBVIOUS
  <1>1. /\ Stacked(s) /\ s # << >> /\ Does[l].op = "call" /\ Node(t, p) = NoTree
        /\ UNCHANGED <<records, blind>>
    BY <1>0 DEF NoArgument, Doing, IInv
  <1>2. PICK F, G, unsure : F = Get(t, p) /\ G = {} /\ unsure = FALSE
    OBVIOUS
  <1>3. stack' = [stack EXCEPT ![a] = GoesOn(s, Missing, F, G, unsure)]
    BY <1>0, <1>2 DEF NoArgument, Doing
  <1>4. top \in Frame /\ Good(top) /\ l \in Loc /\ t \in Tree
    BY <1>0, <1>1, UnderTop, FrameFields
  <1>5. p \in Seq(Key)
    BY <1>0, <1>4, Instructions
  <1>6. F \in SUBSET AnyFact /\ G \in SUBSET AnyFact /\ AllHold(F \cup G, t)
    BY <1>2, <1>4, <1>5, GetTyped, GetHolds
  <1>7. p \notin DOMAIN t
    BY <1>1, <1>4, <1>5, NodeIs
  <1>8. Does[l].op \notin {"return", "raise"} /\ Then(l, Missing) \in Loc
    BY <1>1, <1>4, CallGoes
  <1>9. ASSUME NEW u \in Tree, IsMap(u) <=> IsMap(t),
               AllHold(top.knows \cup F \cup G, u)
        PROVE  Then(l, Missing) = Then(l, Reply(l, u))
    <2>1. PICK K : K = top.knows \cup F \cup G
      OBVIOUS
    <2>2. ~ IsMap(t) => Fact(<< >>, "value", t) \in K
      BY <1>0, <1>4, <2>1 DEF Good
    <2>3. Get(t, p) \subseteq K /\ AllHold(K, u)
      BY <1>2, <1>9, <2>1
    <2>4. p \notin DOMAIN u
      BY <1>4, <1>5, <1>7, <1>9, <2>2, <2>3, ReadIsSame
    <2>5. Reply(l, u) = Missing
      BY <1>0, <1>4, <1>5, <2>4, RepliesAre
    <2> QED
      BY <2>5
  <1>10. unsure \in BOOLEAN
    BY <1>2
  <1>11. Stacked(GoesOn(s, Missing, F, G, unsure))
    BY <1>0, <1>1, <1>6, <1>8, <1>9, <1>10, GoesOnStacked
  <1> QED
    BY <1>1, <1>3, <1>11, OnlyStack

LEMMA HitKeeps ==
  ASSUME IInv, NEW a \in Actor, Hit(a)
  PROVE  IInv'
  <1>0. PICK c \in Calls(a) : \E r \in Of(c.fn) :
          /\ Holds(r, c.arg)
          /\ \E R \in SUBSET {q \in Of(c.fn) : ~ Holds(q, c.arg)} :
               LET F == At(c.from, Observed(R \cup {r}, c.arg)) IN
                 stack' = [stack EXCEPT ![a] =
                   GoesOn(stack[a], r.result, c.seen \cup F,
                          c.known \cup At(c.from, r.facts), r \in blind)]
    BY DEF Hit
  <1>1. PICK r \in Of(c.fn) :
          /\ Holds(r, c.arg)
          /\ \E R \in SUBSET {q \in Of(c.fn) : ~ Holds(q, c.arg)} :
               stack' = [stack EXCEPT ![a] =
                 GoesOn(stack[a], r.result,
                        c.seen \cup At(c.from, Observed(R \cup {r}, c.arg)),
                        c.known \cup At(c.from, r.facts), r \in blind)]
    BY <1>0
  <1>2. PICK R \in SUBSET Of(c.fn) :
          stack' = [stack EXCEPT ![a] =
            GoesOn(stack[a], r.result,
                   c.seen \cup At(c.from, Observed(R \cup {r}, c.arg)),
                   c.known \cup At(c.from, r.facts), r \in blind)]
    BY <1>1
  <1>3. PICK s : s = GoesOn(stack[a], r.result,
                            c.seen \cup At(c.from, Observed(R \cup {r}, c.arg)),
                            c.known \cup At(c.from, r.facts), r \in blind)
    OBVIOUS
  <1>4. Stacked(s)
    BY <1>1, <1>3, HitStacked
  <1>5. stack' = [stack EXCEPT ![a] = s] /\ UNCHANGED <<records, blind>>
    BY <1>2, <1>3 DEF Hit
  <1> QED
    BY <1>4, <1>5, OnlyStack

LEMMA MissKeeps ==
  ASSUME IInv, NEW a \in Actor, Miss(a)
  PROVE  IInv'
  <1>0. PICK c \in Calls(a) :
          \E R \in SUBSET Of(c.fn) :
            stack' = [stack EXCEPT ![a] =
              Push(stack[a], c, At(c.from, Observed(R, c.arg)), FALSE)]
    BY DEF Miss
  <1>1. PICK R \in SUBSET Of(c.fn) :
          stack' = [stack EXCEPT ![a] =
            Push(stack[a], c, At(c.from, Observed(R, c.arg)), FALSE)]
    BY <1>0
  <1>10. R \in SUBSET records
    BY DEF Of
  <1>2. PICK F, s : F = At(c.from, Observed(R, c.arg)) /\ s = Push(stack[a], c, F, FALSE)
    OBVIOUS
  <1>3. Stacked(stack[a]) /\ TypeOK
    BY DEF IInv
  <1>4. c.arg \in Tree /\ c.from \in Seq(Key)
    BY <1>3, FirstCall, CallIs, FactsAssumption
  <1>5. /\ Observed(R, c.arg) \in SUBSET AnyFact
        /\ AllHold(Observed(R, c.arg), c.arg)
    BY <1>3, <1>4, <1>10, ObservedHolds
  <1>6. F \in SUBSET AnyFact
    BY <1>2, <1>4, <1>5, AtTyped
  <1>7. ASSUME stack[a] # << >>
        PROVE  AllHold(F, Last(stack[a]).arg)
    <2>1. PICK fr : fr = Last(stack[a])
      OBVIOUS
    <2>2. fr.arg \in Tree
      BY <1>3, <1>7, <2>1, UnderTop, FrameFields
    <2>3. c.from \in DOMAIN fr.arg /\ c.arg = Node(fr.arg, c.from)
      BY <1>3, <1>7, <2>1, CallIs
    <2>4. AllHold(F, fr.arg)
      BY <1>2, <1>5, <2>2, <2>3, InsideHolds
    <2> QED
      BY <2>1, <2>4
  <1>8. Stacked(s)
    BY <1>2, <1>3, <1>6, <1>7, PushStacked
  <1>9. stack' = [stack EXCEPT ![a] = s] /\ UNCHANGED <<records, blind>>
    BY <1>1, <1>2 DEF Miss
  <1> QED
    BY <1>8, <1>9, OnlyStack

LEMMA ForceKeeps ==
  ASSUME IInv, NEW a \in Actor, RunForced(a)
  PROVE  IInv'
  <1>1. PICK c \in Calls(a) :
          LET s == Push(stack[a], c, {}, TRUE) IN
            stack' = [stack EXCEPT ![a] =
                        [n \in DOMAIN s |-> [s[n] EXCEPT !.discard = TRUE]]]
    BY DEF RunForced
  <1>2. PICK s, t : /\ s = Push(stack[a], c, {}, TRUE)
                    /\ t = [n \in DOMAIN s |-> [s[n] EXCEPT !.discard = TRUE]]
    OBVIOUS
  <1>3. Stacked(t)
    BY <1>2, ForceStacked DEF IInv
  <1>4. stack' = [stack EXCEPT ![a] = t] /\ UNCHANGED <<records, blind>>
    BY <1>1, <1>2 DEF RunForced
  <1> QED
    BY <1>3, <1>4, OnlyStack

LEMMA RaiseKeeps ==
  ASSUME IInv, NEW a \in Actor, Raise(a)
  PROVE  IInv'
  <1>0. PICK s, top : s = stack[a] /\ top = Last(s)
    OBVIOUS
  <1>1. Stacked(s) /\ s # << >> /\ Does[top.loc].op = "raise"
    BY <1>0 DEF IInv, Raise, Doing
  <1>2. top.loc \in Loc
    BY <1>0, <1>1, UnderTop, FrameFields
  <1>3. \A t \in Tree : Means[top.loc][t] = Raised
    BY <1>1, <1>2, Comes
  <1>4. Stacked(Leave(s, Raised))
    BY <1>0, <1>1, <1>3, LeaveStacked
  <1>5. stack' = [stack EXCEPT ![a] = Leave(s, Raised)] /\ UNCHANGED <<records, blind>>
    BY <1>0 DEF Raise
  <1> QED
    BY <1>4, <1>5, OnlyStack

\* The record of a call that has learned no more than it says serves only what
\* the function comes to.
LEMMA RecordSound ==
  ASSUME NEW top \in Frame, Good(top), ~ top.discard, ~ top.blind,
         Does[top.loc].op = "return",
         NEW r, r = RecordOf(top, Does[top.loc].value), ~ LearnedMore(top, r),
         NEW t \in Tree, Holds(r, t)
  PROVE  r.result = Value(r.fn, t)
  <1>1. /\ r.fn = top.fn /\ r.map = IsMap(top.arg) /\ r.result = Does[top.loc].value
    BY DEF RecordOf
  <1>2. Like(top, t)
    BY <1>1 DEF LearnedMore, Like, Holds
  <1>3. Means[top.loc][t] = Value(top.fn, t)
    BY <1>2 DEF Good, Steady
  <1>4. Means[top.loc][t] = Does[top.loc].value
    BY Comes, FrameFields
  <1> QED
    BY <1>1, <1>3, <1>4

LEMMA ReturnKeeps ==
  ASSUME IInv, NEW a \in Actor, Return(a)
  PROVE  IInv'
  <1>0. PICK s, top : s = stack[a] /\ top = Last(s)
    OBVIOUS
  <1>1. Stacked(s) /\ s # << >> /\ Does[top.loc].op = "return"
    BY <1>0 DEF IInv, Return, Doing
  <1>2. top \in Frame /\ Good(top) /\ top.loc \in Loc /\ top.fn \in Fn
        /\ top.facts \in SUBSET AnyFact
    BY <1>0, <1>1, UnderTop, FrameFields
  <1>3. PICK v \in IF top.forced THEN Result ELSE {Does[top.loc].value} :
          LET r == RecordOf(top, v) IN
            /\ stack' = [stack EXCEPT ![a] = Leave(s, v)]
            /\ IF top.discard
                 THEN UNCHANGED <<records, blind>>
                 ELSE /\ records' = records \cup {r}
                      /\ blind' = IF top.blind \/ LearnedMore(top, r)
                                    THEN blind \cup {r} ELSE blind
    BY <1>0 DEF Return, Doing
  <1>4. v \in Result /\ (~ top.discard => v = Does[top.loc].value)
    BY <1>2, <1>3, Instructions DEF Good
  <1>5. ~ top.discard => \A t \in Tree : Means[top.loc][t] = v
    BY <1>1, <1>2, <1>4, Comes
  <1>6. Stacked(Leave(s, v))
    BY <1>0, <1>1, <1>4, <1>5, LeaveStacked
  <1>7. stack' = [stack EXCEPT ![a] = Leave(s, v)]
    BY <1>3
  <1>8. CASE top.discard
    BY <1>3, <1>6, <1>7, <1>8, OnlyStack
  <1>9. CASE ~ top.discard
    <2>0. PICK r : r = RecordOf(top, v)
      OBVIOUS
    <2>1. /\ records' = records \cup {r}
          /\ blind' = IF top.blind \/ LearnedMore(top, r) THEN blind \cup {r} ELSE blind
      BY <1>3, <1>9, <2>0
    <2>2. /\ stack' \in [Actor -> Seq(Frame)]
          /\ \A b \in Actor : Stacked(stack'[b])
      BY <1>6, <1>7, StacksAfter
    <2>3. r \in Record
      <3>1. Finalize(top.facts) \in SUBSET AnyFact
        BY <1>2, FinalizeKeepsNoOther
      <3>2. IsMap(top.arg) \in BOOLEAN
        BY DEF IsMap
      <3> QED
        BY <1>2, <1>4, <2>0, <3>1, <3>2 DEF RecordOf, Record
    <2>4. TypeOK'
      BY <2>1, <2>2, <2>3 DEF IInv, TypeOK
    <2>5. ASSUME NEW q \in records', q \notin blind', NEW t \in Tree, Holds(q, t)
          PROVE  q.result = Value(q.fn, t)
      <3>1. CASE q \in records \ blind
        BY <2>5, <3>1 DEF IInv, RecordsAreSound
      <3>2. CASE q \notin records \ blind
        <4>1. q = r /\ ~ top.blind /\ ~ LearnedMore(top, r)
          BY <2>1, <2>5, <3>2 DEF IInv, TypeOK
        <4> QED
          BY <1>1, <1>2, <1>4, <1>9, <2>0, <2>5, <4>1, RecordSound
      <3> QED
        BY <3>1, <3>2
    <2>6. RecordsAreSound'
      BY <2>5 DEF RecordsAreSound
    <2> QED
      BY <2>2, <2>4, <2>6 DEF IInv
  <1> QED
    BY <1>8, <1>9

LEMMA UnwindKeeps ==
  ASSUME IInv, NEW a \in Actor, Unwind(a)
  PROVE  IInv'
  BY NoneStacked, OnlyStack DEF Unwind

LEMMA LoseKeeps ==
  ASSUME IInv, NEW r \in records, Lose(r)
  PROVE  IInv'
  <1>1. TypeOK'
    BY DEF IInv, TypeOK, Lose
  <1>2. RecordsAreSound'
    BY DEF IInv, RecordsAreSound, Lose
  <1>3. \A b \in Actor : Stacked(stack'[b])
    BY DEF IInv, Lose
  <1> QED
    BY <1>1, <1>2, <1>3 DEF IInv

LEMMA Invariance ==
  Spec => []IInv
  <1>1. Init => IInv
    <2> SUFFICES ASSUME Init PROVE IInv
      OBVIOUS
    <2>1. \A a \in Actor : stack[a] = << >>
      BY DEF Init
    <2>2. TypeOK
      BY DEF Init, TypeOK
    <2>3. RecordsAreSound
      BY DEF Init, RecordsAreSound
    <2> QED
      BY <2>1, <2>2, <2>3, NoneStacked DEF IInv
  <1>2. IInv /\ [Next]_vars => IInv'
    <2> SUFFICES ASSUME IInv, [Next]_vars PROVE IInv'
      OBVIOUS
    <2>1. CASE UNCHANGED vars
      BY <2>1 DEF IInv, TypeOK, RecordsAreSound, vars
    <2>2. ASSUME NEW a \in Actor, Read(a) PROVE IInv'
      BY <2>2, ReadKeeps
    <2>3. ASSUME NEW a \in Actor, NoArgument(a) PROVE IInv'
      BY <2>3, NoArgumentKeeps
    <2>4. ASSUME NEW a \in Actor, Hit(a) PROVE IInv'
      BY <2>4, HitKeeps
    <2>5. ASSUME NEW a \in Actor, Miss(a) PROVE IInv'
      BY <2>5, MissKeeps
    <2>6. ASSUME NEW a \in Actor, RunForced(a) PROVE IInv'
      BY <2>6, ForceKeeps
    <2>7. ASSUME NEW a \in Actor, Return(a) PROVE IInv'
      BY <2>7, ReturnKeeps
    <2>8. ASSUME NEW a \in Actor, Raise(a) PROVE IInv'
      BY <2>8, RaiseKeeps
    <2>9. ASSUME NEW a \in Actor, Unwind(a) PROVE IInv'
      BY <2>9, UnwindKeeps
    <2>10. ASSUME NEW r \in records, Lose(r) PROVE IInv'
      BY <2>10, LoseKeeps
    <2> QED
      BY <2>1, <2>2, <2>3, <2>4, <2>5, <2>6, <2>7, <2>8, <2>9, <2>10 DEF Next
  <1> QED
    BY <1>1, <1>2, PTL DEF Spec

-----------------------------------------------------------------------------
(* What is proved                                                          *)

\* Records, frames and facts keep their types, and a blind record is a record.
THEOREM MemoTyping == Spec => []TypeOK
  <1>1. IInv => TypeOK
    BY DEF IInv
  <1> QED
    BY <1>1, Invariance, PTL

\* A record is served only where the function would return its result, for any
\* functions, values and actors, and whatever losses, raises, interrupts and
\* breakpoints there are (but for records made blind).
THEOREM RecordsSound == Spec => []RecordsAreSound
  <1>1. IInv => RecordsAreSound
    BY DEF IInv
  <1> QED
    BY <1>1, Invariance, PTL

\* A call is where it would be had nothing been served to it.
THEOREM CallsKeepCourse == Spec => []CallsOnCourse
  <1>1. IInv => CallsOnCourse
    <2> SUFFICES ASSUME IInv, NEW a \in Actor, NEW n \in DOMAIN stack[a],
                        ~ stack[a][n].blind, ~ stack[a][n].discard
                 PROVE  Means[stack[a][n].loc][stack[a][n].arg]
                          = Value(stack[a][n].fn, stack[a][n].arg)
      BY DEF CallsOnCourse
    <2>0. PICK fr : fr = stack[a][n]
      OBVIOUS
    <2>1. n \in 1 .. Len(stack[a]) /\ stack[a] \in Seq(Frame)
      BY LenProperties DEF IInv, Stacked
    <2>2. fr \in Frame /\ Good(fr)
      BY <2>0, <2>1, ElementOfSeq DEF IInv, Stacked
    <2>3. fr.arg \in Tree /\ Like(fr, fr.arg)
      BY <2>2, FrameFields DEF Good, Like
    <2> QED
      BY <2>0, <2>2, <2>3 DEF Good, Steady
  <1> QED
    BY <1>1, Invariance, PTL

\* What a call would now be recorded with holds of its own argument.
THEOREM RecordsAreTrue == Spec => []RecordedIsTrue
  <1>1. IInv => RecordedIsTrue
    <2> SUFFICES ASSUME IInv, NEW a \in Actor, NEW n \in DOMAIN stack[a], NEW fr,
                        fr = stack[a][n]
                 PROVE  AllHold(fr.knows, fr.arg) /\ Holds(RecordOf(fr, Raised), fr.arg)
      BY DEF RecordedIsTrue
    <2>1. n \in 1 .. Len(stack[a]) /\ stack[a] \in Seq(Frame)
      BY LenProperties DEF IInv, Stacked
    <2>2. Good(fr)
      BY <2>1 DEF IInv, Stacked
    <2>3. Finalize(fr.facts) \subseteq fr.facts
      BY FinalizeKeepsNoOther
    <2>4. AllHold(Finalize(fr.facts), fr.arg)
      BY <2>2, <2>3 DEF Good, AllHold
    <2> QED
      BY <2>2, <2>4 DEF Good, Holds, RecordOf
  <1> QED
    BY <1>1, Invariance, PTL

=============================================================================
