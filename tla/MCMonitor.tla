------------------------------ MODULE MCMonitor ------------------------------
(***************************************************************************)
(* Instances of Monitor.                                                   *)
(***************************************************************************)
EXTENDS Monitor

CONSTANTS x, y

MCInputs == <<{x, y}, {x}>>

MCCapacity == [h \in Remote |-> 1]

MCKnown == [workers |-> 1, hosts |-> Remote]

\* A worker more, and a host less.
MCConfigs == {MCKnown, [workers |-> 2, hosts |-> {}]}
=============================================================================
