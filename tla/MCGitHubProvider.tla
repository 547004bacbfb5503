-------------------------- MODULE MCGitHubProvider --------------------------
(* Two workers.                                                            *)
EXTENDS GitHubProvider

CONSTANTS w1, w2

=============================================================================
