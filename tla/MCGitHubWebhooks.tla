-------------------------- MODULE MCGitHubWebhooks --------------------------
(***************************************************************************)
(* The instance of GitHubWebhooks for TLC.  Its run checks liveness, so    *)
(* the replicas are not declared symmetric.                                *)
(***************************************************************************)
EXTENDS GitHubWebhooks
=============================================================================
