--------------------------- MODULE MCFunctionHash ---------------------------
(***************************************************************************)
(* A small program for FunctionHash.  top, the @pure function, names x and *)
(* y; g and h are two closures of one code object, which has a lambda in   *)
(* it; K is a class of two methods, D one that inherits them; pkg is a     *)
(* package with a package with a module.  list and list2 are of one type,  *)
(* array of another.                                                       *)
(***************************************************************************)
EXTENDS FunctionHash, TLC

CONSTANTS top, g, h, m1, m2, cf, cg, cm1, cm2, lambda, K, D, pkg, sub, leaf, s, u, one, two, list, list2, array,
          lists, arrays, x, y, z, p, q

MCCodeOf == (top :> cf) @@ (g :> cg) @@ (h :> cg) @@ (m1 :> cm1) @@ (m2 :> cm2)
MCTypeOf == (list :> lists) @@ (list2 :> lists) @@ (array :> arrays)
MCInner == [c \in Code |-> IF c = cg THEN <<lambda>> ELSE <<>>]
MCBases == (K :> <<>>) @@ (D :> <<K>>)
MCSub == [m \in Mod |-> [n \in Name |-> IF m = pkg /\ n = z THEN sub
                                        ELSE IF m = sub /\ n = p THEN leaf ELSE Nothing]]

\* z is the attribute that leads to the submodule, and bound to nothing.
MCNames ==
  (cf :> {<<x, y>>, <<x, z, y>>, <<y, p>>, <<y, q>>}) @@ (cg :> {<<x, z, p>>}) @@ (cm1 :> {<<y>>})
    @@ (cm2 :> {<<>>}) @@ (lambda :> {<<>>})
MCBindings ==
  (x :> {g, pkg, K}) @@ (y :> {g, h, K, D, s, u, Nothing}) @@ (z :> {Nothing})
    @@ (p :> {Nothing}) @@ (q :> {Nothing})
MCCaptures ==
  (top :> {<<>>, <<h>>}) @@ (g :> {<<one>>, <<two>>}) @@ (h :> {<<list>>, <<list2>>, <<array>>, <<one, s>>, <<g>>})
    @@ (m1 :> {<<>>}) @@ (m2 :> {<<>>})
MCMethods ==
  (K :> {<<<<p, m1>>, <<q, m2>>>>, <<<<q, m1>>, <<p, m2>>>>, <<<<p, m1>>>>}) @@ (D :> {<<>>})
=============================================================================
