------------------------ MODULE MCRunnerController -------------------------
(***************************************************************************)
(* Small instances of RunnerController for TLC.                            *)
(***************************************************************************)
EXTENDS RunnerController, TLC

CONSTANTS e1, e2, t1

\* Two executions of one task: the second is a requeue or a resume.
OneTask == (e1 :> t1) @@ (e2 :> t1)

\* One execution.
One == (e1 :> t1)
=============================================================================
