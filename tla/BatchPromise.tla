---------------------------- MODULE BatchPromise ----------------------------
(***************************************************************************)
(* What run_all promises its caller, with no host in sight: every input is *)
(* waiting, running, done or failed; an input that loses its host goes     *)
(* back to waiting once and only once; the first input with no result ends *)
(* the batch; and the batch returns only when every input has its result.  *)
(***************************************************************************)
EXTENDS Naturals

CONSTANT Input

VARIABLES
  status,  \* status[i]: what has become of input i
  lost,    \* the inputs that have lost their host once
  phase    \* "open" until the batch ends, then how it ended

promiseVars == <<status, lost, phase>>

Status == {"waiting", "running", "done", "failed"}
Phase  == {"open", "returned", "raised", "interrupted"}

TypeOK ==
  /\ status \in [Input -> Status]
  /\ lost \subseteq Input
  /\ phase \in Phase

Init ==
  /\ status = [i \in Input |-> "waiting"]
  /\ lost = {}
  /\ phase = "open"

Becomes(i, from, to) ==
  /\ phase = "open"
  /\ status[i] = from
  /\ status' = [status EXCEPT ![i] = to]

\* The inputs of S are served from the cache before anything runs.
Serve(S) ==
  /\ phase = "open"
  /\ \A i \in Input : status[i] = "waiting"
  /\ status' = [i \in Input |-> IF i \in S THEN "done" ELSE "waiting"]
  /\ UNCHANGED <<lost, phase>>

Start(i) ==
  /\ Becomes(i, "waiting", "running")
  /\ UNCHANGED <<lost, phase>>

\* A result: of a task, or of a run in the calling process.
Finish(i) ==
  /\ \E from \in {"waiting", "running"} : Becomes(i, from, "done")
  /\ UNCHANGED <<lost, phase>>

\* The input's host went away under it: it waits again, the first time.
Lose(i) ==
  /\ i \notin lost
  /\ Becomes(i, "running", "waiting")
  /\ lost' = lost \cup {i}
  /\ UNCHANGED phase

\* No result: the batch ends here.
Fail(i) ==
  /\ \E from \in {"waiting", "running"} : Becomes(i, from, "failed")
  /\ phase' = "raised"
  /\ UNCHANGED lost

Return ==
  /\ phase = "open"
  /\ \A i \in Input : status[i] = "done"
  /\ phase' = "returned"
  /\ UNCHANGED <<status, lost>>

Interrupt ==
  /\ phase = "open"
  /\ phase' = "interrupted"
  /\ UNCHANGED <<status, lost>>

Next ==
  \/ \E S \in SUBSET Input : Serve(S)
  \/ \E i \in Input : Start(i) \/ Finish(i) \/ Lose(i) \/ Fail(i)
  \/ Return
  \/ Interrupt

Spec == Init /\ [][Next]_promiseVars

=============================================================================
