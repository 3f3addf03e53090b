----------------------------- MODULE MCBootstrap -----------------------------
(***************************************************************************)
(* Small instances of Bootstrap for TLC.                                   *)
(***************************************************************************)
EXTENDS Bootstrap, TLC

CONSTANTS a, b, c,          \* runs
          v0, v1, v2,    \* versions
          src, ext, old  \* a Python source, a build input, another source

\* v1 edits the source and drops the other; v2 edits the build input.  What
\* v2 shares with v0 it does not share with v1.
MCTree ==
  (v0 :> [f \in File |-> 1]) @@
  (v1 :> [f \in File |-> IF f = src THEN 2 ELSE IF f = old THEN Absent ELSE 1])
  @@ (v2 :> [f \in File |-> IF f = ext THEN 2 ELSE 1])

\* Two runs of one version, and one of another.
MCWants == [r \in Run |-> IF r = b THEN v2 ELSE v1]

=============================================================================
