---------------------------- MODULE MCRepoWrite ----------------------------
(* RepoWrite for TLC.                                                      *)
EXTENDS RepoWrite, TLC

(* Writers and keys are alike, for invariants.                             *)
Symmetric == Permutations(Writers) \cup Permutations(Keys)
=============================================================================
