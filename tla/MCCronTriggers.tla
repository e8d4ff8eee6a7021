--------------------------- MODULE MCCronTriggers ---------------------------
(***************************************************************************)
(* Small instances of CronTriggers for TLC.                                *)
(***************************************************************************)
EXTENDS CronTriggers, TLC

\* Enabled without adoption, and disabled with it.
TwoDefinitions == {[on |-> TRUE, adopt |-> FALSE], [on |-> FALSE, adopt |-> TRUE]}

ReplicaSymmetry == Permutations(Replicas)
=============================================================================
