-------------------------- MODULE MCGitServeSession --------------------------
(* Instances of GitServeSession for TLC. *)
EXTENDS GitServeSession, TLC

CONSTANTS r1, r2

\* A fetch that is queued at once and a push of relay refs that is read first.
FetchAndPush == r1 :> "read" @@ r2 :> "pushIncoming"

\* The kinds whose handling depends on what the daemon answers.
AdvertAndMixed == r1 :> "advert" @@ r2 :> "pushMixed"
=============================================================================
