------------------------------- MODULE Modes -------------------------------
(***************************************************************************)
(* modes.py: how many tasks each host may run at once under a mode.        *)
(*                                                                         *)
(* A mode is the `mode` line of the local file.  "local" uses this machine *)
(* only, "all" uses every host, and "remote" keeps this machine idle while *)
(* a remote host can take work or is still syncing.                        *)
(***************************************************************************)
EXTENDS Naturals

CONSTANTS
  Remote,  \* the hosts the local file names
  Local    \* this machine

ASSUME LocalIsNotRemote == Local \notin Remote

Host == Remote \cup {Local}

MODES == {"local", "remote", "all"}

\* MUTANT: the result names only the hosts the mode allows.
capacitiesAllowedOnly(mode, local, remote, syncing) ==
  [h \in (IF mode = "local" THEN {Local} ELSE Host) |->
     IF h = Local THEN local ELSE remote[h]]

\* `capacities(mode, local, remote, syncing)`: `remote` gives each remote
\* host's capacity, 0 until it is ready.
capacities(mode, local, remote, syncing) ==
  LET here  == mode = "remote" => ~ syncing /\ \A r \in Remote : remote[r] = 0
      there == mode # "local"
  IN  [h \in Host |->
         IF h = Local THEN (IF here THEN local ELSE 0)
                      ELSE (IF there THEN remote[h] ELSE 0)]

=============================================================================
