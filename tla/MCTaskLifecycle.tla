-------------------------- MODULE MCTaskLifecycle --------------------------
(***************************************************************************)
(* Small instances of TaskLifecycle for TLC.                               *)
(***************************************************************************)
EXTENDS TaskLifecycle, TLC

\* Resumable submissions of the harness kind, and plain ones.
Resumables == {[mode |-> "harness_session", iso |-> TRUE]}
Plain == {[mode |-> "none", iso |-> FALSE]}

Event(st, rec, evid, exp) ==
  [status |-> st, recoverable |-> rec, evidence |-> evid, export |-> exp]

\* Success with everything a resume needs.
PauseEvents == {Event("done", FALSE, Evidence, FALSE)}

\* Progress, success, a plain failure, and a recoverable one.
ShortEvents ==
  {Event("running", FALSE, {}, FALSE),
   Event("done", FALSE, {"workspace", "harness"}, TRUE),
   Event("error", FALSE, {}, FALSE),
   Event("error", TRUE, {"workspace", "harness"}, FALSE)}

\* Also recovery after a failure, a checkpoint and an acknowledged cancellation.
AllEvents == ShortEvents \cup
  {Event("error", TRUE, {"workspace", "harness"}, TRUE),
   Event("done", FALSE, Evidence, TRUE),
   Event("cancelled", FALSE, {}, FALSE)}

\* Tasks and runners are interchangeable in the run without fairness.
Symmetry == Permutations(Tasks) \cup Permutations(Runners)
=============================================================================
