-------------------------------- MODULE MCMemo --------------------------------
(***************************************************************************)
(* Small instances of Memo for TLC.  An outer function reads b, then passes*)
(* the sub-map a to an inner one or asks whether it has an x; the inner one*)
(* reads x, and then all of its map or only y.                             *)
(***************************************************************************)
EXTENDS Memo, TLC

CONSTANTS a1, a2,           \* actors
          outer, inner,     \* the functions
          WholeInner        \* whether the inner one reads all of its map

MCPath == {<< >>, <<"a">>, <<"b">>, <<"x">>, <<"y">>,
           <<"a", "x">>, <<"a", "y">>}

\* Values of the key a: maps, a leaf and nothing.
Leaf(v) == << >> :> v
MapX(x) == << >> :> Branch @@ <<"x">> :> x
MapXY(x, y) == MapX(x) @@ <<"y">> :> y

Under(k, t) ==
  [p \in {<<k>> \o q : q \in DOMAIN t} |-> t[Tail(p)]]

Root(a, b) == << >> :> Branch @@ Under("a", a) @@ Under("b", b)

Roots ==
  {Root(MapX(1), Leaf(1)), Root(MapX(2), Leaf(1)), Root(MapXY(2, 1), Leaf(1)),
   Root(MapXY(2, 1), Leaf(2)), Root(NoTree, Leaf(1)), Root(Leaf(1), Leaf(1)),
   Root(NoTree, NoTree)}

MCTree == {Node(t, p) : t \in Roots, p \in MCPath} \ {NoTree}

MCGiven ==
  {Root(MapX(2), Leaf(1)), Root(MapXY(2, 1), Leaf(2)), Root(NoTree, Leaf(1)),
   Root(Leaf(1), Leaf(1)), MapX(2)}

MCActors == Permutations(Actor)

MCLoc == {"b?", "inner", "x?", "got2", "got5", "missing", "caught",
          "has", "hasnot", "fails",
          "in x?", "in rest", "in 1", "in 2", "in 5", "in fails"}

MCStart == [f \in Fn |-> IF f = outer THEN "b?" ELSE "in x?"]

Instruction(op, p, v) == [op |-> op, path |-> p, fn |-> inner, value |-> v]

MCDoes ==
  [l \in MCLoc |->
     CASE l = "b?"      -> Instruction("get", <<"b">>, 1)
       [] l = "inner"   -> Instruction("call", <<"a">>, 1)
       [] l = "x?"      -> Instruction("contains", <<"a", "x">>, 1)
       [] l = "got2"    -> Instruction("return", << >>, 2)
       [] l = "got5"    -> Instruction("return", << >>, 5)
       [] l = "caught"  -> Instruction("return", << >>, 3)
       [] l = "has"     -> Instruction("return", << >>, 1)
       [] l \in {"hasnot", "missing"} -> Instruction("return", << >>, 2)
       [] l = "in x?"   -> Instruction("get", <<"x">>, 1)
       [] l = "in rest" -> IF WholeInner THEN Instruction("whole", << >>, 1)
                           ELSE Instruction("contains", <<"y">>, 1)
       [] l = "in 1"    -> Instruction("return", << >>, 1)
       [] l = "in 2"    -> Instruction("return", << >>, 2)
       [] l = "in 5"    -> Instruction("return", << >>, 5)
       [] l \in {"fails", "in fails"} -> Instruction("raise", << >>, 1)]

MCThen(l, reply) ==
  CASE l = "b?" -> IF reply = Missing THEN "fails"
                   ELSE IF reply = 1 THEN "inner" ELSE "x?"
    [] l = "inner" -> IF reply \in {Raised, Missing} THEN "caught"
                      ELSE IF reply = 5 THEN "got5"
                      ELSE IF reply = 2 THEN "got2" ELSE "has"
    [] l = "x?" -> IF reply = Missing THEN "hasnot" ELSE "has"
    [] l = "in x?" -> IF reply = Missing THEN "in fails"
                      ELSE IF reply = 1 THEN "in 1" ELSE "in rest"
    [] l = "in rest" ->
         IF reply = Missing THEN "in 2"
         ELSE IF reply = Branch THEN "in 5"
         ELSE IF <<"y">> \in DOMAIN reply THEN "in 5" ELSE "in 2"

MCMeans ==
  LET m[l \in MCLoc] ==
        [t \in MCTree |->
           LET i == MCDoes[l]
               n == Node(t, i.path)
               reply ==
                 IF n = NoTree THEN Missing
                 ELSE CASE i.op = "contains" -> Branch
                        [] i.op = "whole"    -> n
                        [] i.op = "get"      -> n[<< >>]
                        [] i.op = "call"     -> m["in x?"][n]
           IN  CASE i.op = "return" -> i.value
                 [] i.op = "raise"  -> Raised
                 [] OTHER           -> m[MCThen(l, reply)][t]]
  IN  m

=============================================================================
