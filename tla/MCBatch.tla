------------------------------- MODULE MCBatch -------------------------------
(***************************************************************************)
(* Small instances of Batch for TLC.                                       *)
(***************************************************************************)
EXTENDS Batch

CONSTANT r1  \* a remote host

\* Two workers on the first remote host, so that one turn starts two tasks
\* there; one anywhere else.
MCWorkers == [h \in Host |-> IF h = r1 THEN 2 ELSE 1]

\* No worker on this machine (max_workers=0).
MCNoLocalWorkers == [h \in Host |-> IF h = Local THEN 0 ELSE 1]

MCModes == MODES

=============================================================================
