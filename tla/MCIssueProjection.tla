-------------------------- MODULE MCIssueProjection --------------------------
(* An instance of IssueProjection for TLC. *)
EXTENDS IssueProjection

CONSTANT i

Env(id, issue, source, at) == [id |-> id, issue |-> issue, source |-> source, at |-> at]

\* Two of GitHub's deliveries and an edit by bit, which are not in this order.
Edits == {Env(1, i, "github", 1), Env(2, i, "bit", 2), Env(3, i, "github", 3)}

\* Follower and puller share nothing but what the cache holds; a behaviour has
\* one of them, the puller without repeated tasks.
OneReader == puller.after = 0 \/ (task.attempt = 0 /\ sync = NoSync /\ follower.seen = {})
FollowingSpec == Init /\ [][Next /\ OneReader']_vars /\ Following
=============================================================================
