--------------------------- MODULE MCClaimQueue ---------------------------
(***************************************************************************)
(* Small instances of ClaimQueue for TLC.                                  *)
(***************************************************************************)
EXTENDS ClaimQueue

CONSTANT r1

NoPins == [x \in {} |-> r1]
===========================================================================
