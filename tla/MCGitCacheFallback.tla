------------------------ MODULE MCGitCacheFallback -------------------------
(* An instance of GitCacheFallback for TLC. *)
EXTENDS GitCacheFallback, TLC

\* The requests are interchangeable.
SameRequests == Permutations(Requests)
=============================================================================
