------------------------ MODULE MCInboundDeliveries -------------------------
(***************************************************************************)
(* Small instances of InboundDeliveries for TLC.                           *)
(***************************************************************************)
EXTENDS InboundDeliveries, TLC

CONSTANTS q1, q2, k1

\* A delivery and its retry by the sender.
SenderRetry == (q1 :> k1) @@ (q2 :> k1)

ReplicaSymmetry == Permutations(Replicas)
=============================================================================
