-------------------------- MODULE MCCallbackOutbox --------------------------
(***************************************************************************)
(* Small instances of CallbackOutbox for TLC.                              *)
(***************************************************************************)
EXTENDS CallbackOutbox, TLC

ReplicaSymmetry == Permutations(Replicas)
=============================================================================
