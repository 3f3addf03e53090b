------------------------------- MODULE MCRunLog -------------------------------
(***************************************************************************)
(* Instances of RunLog.  MCBody: the script catches what a call raises,    *)
(* and makes one that runs a batch.  RaisingBody, for ServedRunIsComplete: *)
(* a call catches what another raises.                                     *)
(***************************************************************************)
EXTENDS RunLog

CONSTANTS main, inner, leaf, bad, x, y, z

MCBody ==
  [c \in Calls \cup {Script} |->
     CASE c = Script -> <<Do(bad), Do(main)>>
       [] c = main   -> <<Batch(<<inner, leaf>>), Log(z)>>
       [] c = inner  -> <<Do(leaf), Log(y)>>
       [] c = leaf   -> <<Log(x)>>
       [] c = bad    -> <<Log(x), Fail>>]

RaisingBody == [MCBody EXCEPT ![Script] = <<Do(main)>>, ![main] = <<Do(bad), Log(z)>>]

Processes == Permutations(Proc)

=============================================================================
